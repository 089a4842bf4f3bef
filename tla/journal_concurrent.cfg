SPECIFICATION Spec
CONSTANTS
  p1 = p1
  p2 = p2
  t1 = t1
  t2 = t2
  Processes = {p1}
  Tasks = {t1, t2}
  Token <- OwnTokens
  MaxLines = 3
  MaxOpens = 2
INVARIANT RestartLoads
CHECK_DEADLOCK FALSE
