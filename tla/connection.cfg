SPECIFICATION Spec
CONSTANTS
  A = A
  B = B
  a1 = a1
  a2 = a2
  a3 = a3
  b1 = b1
  Ends = {A, B}
  Sends = {a1, a2, a3, b1}
  FromA = {a1, a2, a3}
  OneChunk = {a1}
  TwoChunks = {}
  Malformed = {a2}
  Unnumbered = {b1}
  Foreign = {A}
  WireCap = 2
  RetryLimit = 0
  Peer <- MCPeer
  Sender <- MCSender
  NChunks <- MCNChunks
  Offset <- MCOffset
  TextSizes = {0}
INVARIANTS
  TypeOK
  OneMessageAtATime
  AcksAreSound
  MisplacedOnlyAfterMalformed
PROPERTIES
  ChannelSpec
CHECK_DEADLOCK FALSE
