CONSTANTS
  FirstFd = 3
  MaxConnections = 7
  ReservedFds = 2
  NULL = NULL
  Clients = {c1}
  Requests = {a1}
  Listeners = {l1}
  Kinds = {"client", "ssl", "server"}
  ByName = TRUE
  MaxUnknown = 2
SPECIFICATION FairSpec
PROPERTIES LookupsEnd UnknownsLeave DeadReaped
