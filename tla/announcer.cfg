SPECIFICATION FairSpec
CONSTANTS
  k = k
  Idents = {"i", "j"}
  Names = {"a", "A", "x"}
  Actions = {"a", "x"}
  ToLower <- MCToLower
  Addrs = {"h1"}
  SigLen = 3
  RowLen = 2
  Registers <- MCRegisters
  Undotted = {"x"}
  Stoppers = {k}
  MaxActions = 1
INVARIANTS
  TypeOK
  AnnouncedIsFound
PROPERTIES
  StoppedIsSilent
  StopEndsLoop
  EventuallyFound
CHECK_DEADLOCK FALSE
