CONSTANTS
  normal = normal
  silent = silent
  active = active
  Absent = Absent
  Corrupt = Corrupt
  Values <- Stores
  Default <- normal
  FileValues = {normal, active}
  Unknown = Unknown
  None = None
  Bad = Bad
  Damaged = Damaged
  Ids = {id1, id2}
  Passwords = {pass}
  Pasted = {key}
  PrivateKeys <- Halves
  Chunks = {chunk1, chunk2}
  MaxChunks = 3
  chunk1 = chunk1
  chunk2 = chunk2
  pc1 = pc1
  home = home
  work = work
  lab = lab
  Desktops = {d1, d2}
  Helpers = {h1, h2}
  MaxTickets = 2
  MaxVersion = 2
  MaxErrors = 1
  MaxStored = 2
  Others = {e1}
  Pids = {n1, n2}
  Objects = {o1, o2, o3}
  Gui = gui
  Agents = {agent}
  MaxSaves = 1
  MaxCrashes = 1
  Torn = Torn
SPECIFICATION MCSpec
SYMMETRY Sym
CONSTRAINT FewSpoiled
INVARIANTS RestartKeeps MemoryMatches SecretsWhole UpdateOnce InstallationWhole
PROPERTIES SavesLast RightsMoveOnce InstallationKeeps
CHECK_DEADLOCK FALSE
