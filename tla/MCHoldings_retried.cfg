CONSTANTS
  a = a
  b = b
  Paths <- MCPaths
  Files <- MCPaths
  Threads = {t1, t2}
  WalkFaults = {"unreadable", "caught", "raised"}
  Retries = 1
  Budgets <- MCLeaving
  MaxGen = 3
  MaxWrites = 7
SPECIFICATION Spec
SYMMETRY MCSymmetry
INVARIANT PrunedIsRetracted
CONSTRAINT MCFresh
CHECK_DEADLOCK FALSE
