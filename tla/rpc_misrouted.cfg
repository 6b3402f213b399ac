SPECIFICATION Spec
CONSTANTS
  c1 = c1
  c2 = c2
  c3 = c3
  Callers = {c1, c2, c3}
  Asks <- MCAsks
  Options <- MCOptions
  KeyAt <- MCKeyAt
  Keys = {"k", "l"}
  Privs = {1, 2}
  TimeMax = 3
  MaxNow = 1
INVARIANTS
  AnswersMatch
CHECK_DEADLOCK FALSE
