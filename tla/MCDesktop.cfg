CONSTANTS
  MaxWindows = 3
  FinishWhileEntering = FALSE
  Requests = {r1, r2}
  Tabs = {tab1}
  MaxPrinted = 2
  QueueSize = 1
  JobsSize = 1
  Commands = {ls, pwd}
  Times <- MCTimes
  MaxId = 3
  PageSize = 1
  Hosts = {h1, h2}
  Settings <- MCSettings
  Attempts = 2
  OwnFiles = 1
  Other = Other
  None = None
SPECIFICATION MCSpec
INVARIANTS FreshWindow ShellsWhole HistoryWhole
PROPERTIES ExitOnlyOnRequest NoWindowOnExit Recovers ShellsEnd
CHECK_DEADLOCK FALSE
