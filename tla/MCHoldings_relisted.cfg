CONSTANTS
  a = a
  b = b
  Paths <- MCPaths
  Files <- MCPaths
  Threads = {t1, t2}
  WalkFaults = {"unreadable", "caught", "raised"}
  Retries = 0
  Budgets <- MCScanned
  MaxGen = 3
  MaxWrites = 7
SPECIFICATION Spec
SYMMETRY MCSymmetry
INVARIANT PrunedIsRetracted
CHECK_DEADLOCK FALSE
