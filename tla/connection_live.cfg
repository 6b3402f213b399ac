SPECIFICATION FairSpec
CONSTANTS
  A = A
  B = B
  a1 = a1
  a2 = a2
  a3 = a3
  b1 = b1
  Ends = {A, B}
  Sends = {a1, a3}
  FromA = {a1, a2, a3}
  OneChunk = {a1}
  TwoChunks = {}
  Malformed = {}
  Unnumbered = {}
  Foreign = {A}
  WireCap = 1
  RetryLimit = 0
  Peer <- MCPeer
  Sender <- MCSender
  NChunks <- MCNChunks
  Offset <- MCOffset
  TextSizes = {0}
PROPERTIES
  SendReturns
  EventuallyDelivered
CHECK_DEADLOCK FALSE
