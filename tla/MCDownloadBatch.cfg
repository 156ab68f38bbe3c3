CONSTANTS
  Workers = {w1, w2}
  Files = 3
  Slots = 2
  MaxOthers = 1
  MaxWindows = 2
  Disturbances = {"cancel", "session", "panic"}
SPECIFICATION MCSpec
INVARIANTS SummaryTrue OverwriteApproved
PROPERTIES BatchesEnd
CHECK_DEADLOCK FALSE
