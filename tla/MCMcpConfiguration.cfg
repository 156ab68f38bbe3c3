SPECIFICATION MCSpec
CONSTANTS
  p1 = p1
  p2 = p2
  list1 = list1
  home = home
  work = work
  allow = allow
  v1 = v1
  v2 = v2
  Absent = Absent
  Broken = Broken
  None = None
  call1 = call1
  Pages = {p1, p2}
  Lists = {list1}
  Groups = {home, work}
  Ports = {1, 2}
  Requests <- MCRequests
  Choices <- MCChoices
  MaxTokens = 2
  MaxFaults = 2
SYMMETRY Sym
INVARIANTS AgentUsable CallsChecked
PROPERTIES ConfigurationAgrees
CHECK_DEADLOCK FALSE
