CONSTANTS
  Transfers = {t1, t2}
  Connections = {c1, c2}
  MaxDownloads = 2
  Old = Old
  Foreign = Foreign
  Absent = Absent
  MaxFaults = 2
  MaxForeign = 1
  upload = upload
  download = download
  tab1 = tab1
  tab2 = tab2
  ssh1 = ssh1
  eth0 = eth0
  None = None
  file1 = file1
  file2 = file2
  op1 = op1
  op2 = op2
SYMMETRY Symmetry
SPECIFICATION MCSpec
INVARIANTS FilesTidy TasksApart TunnelClean
PROPERTIES FilesKept
CHECK_DEADLOCK FALSE
