SPECIFICATION MCSpec
CONSTANTS
  i = i j = j a = a b = b c = c
  Ids = {i, j}
  Targets = {a, b, c}
  Keyed = {c}
  Tickets = {t1,t2,t3}
  MaxRevision = 2
  MaxFaults = 1
  None = None
SYMMETRY Sym
INVARIANTS RecordsTrue
PROPERTIES SecretsMove
