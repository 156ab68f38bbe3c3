CONSTANTS
  Sessions = {s1}
  Terminal = {t1}
  Headless = {x1}
  Commands = {1, 2}
  Hosts = {h1, h2}
  Keys = {k1, k2}
  None = None
  FirstKey <- OneKnown
SPECIFICATION Spec
INVARIANTS DisconnectWins CancelledLeavesNothing VerifiedHost
PROPERTIES CancelledEnds
CHECK_DEADLOCK FALSE
