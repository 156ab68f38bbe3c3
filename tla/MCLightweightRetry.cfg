CONSTANTS
  t1 = t1
  t2 = t2
  Terminals <- OneTerminal
  Initial <- OneTerminal
  Breakable <- NoTerminal
  TerminalLimit = 2
  GlobalLimit = 3
  ScreenSize = 1
  MaxOutput = 3
  MaxTransactions = 2
  DrainBeforeRetry = FALSE
SPECIFICATION Spec
INVARIANT SnapshotDrained
CHECK_DEADLOCK FALSE
