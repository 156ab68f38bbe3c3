CONSTANTS
  Calls = {c1, c2}
  Connections = {k1, k2}
  Downloads = {download}
  Uploads = {upload}
  Handlers = {h1, h2}
  MaxTickets = 2
  MaxActiveTransfers = 1
  MaxRevision = 3
  MaxChannels = 2
  Total = 2
  Window = 2
  MaxOutput = 3
  Batch = 2
  MaxPending = 2
  Queue = 1
  MaxTyped = 1
  Limit = 2
  None = None
SPECIFICATION MCSpec
INVARIANTS LeasesKept AgentsServed
PROPERTIES AgentsEnd
CHECK_DEADLOCK FALSE
