SPECIFICATION Spec
CONSTANTS
  A = A
  B = B
  a1 = a1
  a2 = a2
  a3 = a3
  b1 = b1
  Ends = {A, B}
  Sends = {a1, b1}
  FromA = {a1, a2, a3}
  OneChunk = {}
  TwoChunks = {a1, b1}
  Malformed = {}
  Unnumbered = {}
  Foreign = {}
  WireCap = 1
  RetryLimit = 0
  Peer <- MCPeer
  Sender <- MCSender
  NChunks <- MCNChunks
  Offset <- MCOffset
  TextSizes = {0, 1}
INVARIANTS
  NoMutualBlocking
CHECK_DEADLOCK FALSE
