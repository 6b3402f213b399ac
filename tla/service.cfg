SPECIFICATION FairSpec
CONSTANTS
  c1 = c1
  c2 = c2
  c3 = c3
  Conns = {c1, c2}
  MaxMessages = 2
INVARIANTS
  TypeOK
  ListIsExact
  ShutdownClosesAll
PROPERTIES
  CleansUp
  ShutdownProceeds
CHECK_DEADLOCK FALSE
