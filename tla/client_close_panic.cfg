SPECIFICATION Spec
CONSTANTS
  c1 = c1
  c2 = c2
  user = user
  other = other
  Calls = {c1}
  Closers = {user}
  Handled = FALSE
  MaxIncoming = 1
INVARIANTS
  CloseNeverPanics
CHECK_DEADLOCK FALSE
