CONSTANTS
  MaxWindows = 3
  FinishWhileEntering = TRUE
SPECIFICATION Spec
PROPERTIES ExitOnlyOnRequest
CHECK_DEADLOCK FALSE
