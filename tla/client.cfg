SPECIFICATION FairSpec
CONSTANTS
  c1 = c1
  c2 = c2
  user = user
  other = other
  Calls = {c1, c2}
  Closers = {user}
  Handled = TRUE
  MaxIncoming = 2
INVARIANTS
  TypeOK
  RepliesMatchRequests
  ChannelDiscipline
  ClosedOnce
PROPERTIES
  WaitingCallersAreFound
  CallersReturn
  SplitEnds
CHECK_DEADLOCK FALSE
