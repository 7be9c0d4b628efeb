CONSTANTS
  FirstFd = 3
  MaxConnections = 8
  ReservedFds = 2
  NULL = NULL
  Clients = {c1, c2}
  Requests = {a1, a2}
  Listeners = {l1}
  Kinds = {"client", "ssl", "server"}
  ByName = FALSE
  MaxUnknown = 3
SPECIFICATION Spec
INVARIANTS CallbacksLive DescriptorsOwned QueriesLive RequestsPolled ClientListSound NobodyStranded ListenersOutliveClients
SYMMETRY Symmetry
