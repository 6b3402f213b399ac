SPECIFICATION ConfigSpec
CONSTANTS
  Symbols = {"1", "2", "p"}
  Texts <- MCTexts
  Numbers <- MCNumbers
  Addresses <- MCAddresses
  StartBufSize = 8
  MaxTokenSize = 12
  MaxCalls = 2
  SetValues <- MCSetValues
INVARIANTS
  LoadKeepsValues
CHECK_DEADLOCK FALSE
