CONSTANTS
  t1 = t1
  t2 = t2
  Terminals <- BothTerminals
  Initial <- BothTerminals
  Breakable <- OneTerminal
  TerminalLimit = 2
  GlobalLimit = 4
  ScreenSize = 1
  MaxOutput = 2
  MaxTransactions = 1
  DrainBeforeRetry = TRUE
SPECIFICATION Spec
INVARIANTS DetachedTogether HeldByTransaction WithinBudget
CHECK_DEADLOCK FALSE
