CONSTANTS
  t1 = t1
  t2 = t2
  Terminals <- OneTerminal
  Initial <- NoTerminal
  Breakable <- OneTerminal
  TerminalLimit = 3
  GlobalLimit = 3
  ScreenSize = 1
  MaxOutput = 4
  MaxTransactions = 2
  DrainBeforeRetry = TRUE
SPECIFICATION UserSpec
INVARIANTS OutputIntact
PROPERTIES UserView Progress
CHECK_DEADLOCK FALSE
