SPECIFICATION FairSpec
CONSTANTS
  r1 = r1
  r2 = r2
  user = user
  o1 = o1
  o2 = o2
  Missing = Missing
  Idents = {"i", "j"}
  Names = {"a", "A", "b"}
  Actions = {"a", "b"}
  ToLower <- MCToLower
  Addrs = {"h1", "h2", "h3"}
  SigLen = 3
  RowLen = 2
  Files <- MCFiles
  Requests = {r1, r2}
  Wanted <- MCWanted
  Closers = {"split", user}
  Split = "split"
  MaxClients = 2
  Owners = {o1, o2}
  Setups <- MCSetups
INVARIANTS
  TypeOK
  IndexesMatchFile
  RequestsReachProviders
  OneLoop
  NoNilDereference
PROPERTIES
  OpenClientsAreKept
  RequestsFinish
  StopReturns
  CacheCatchesUp
CHECK_DEADLOCK FALSE
