CONSTANTS
  a = a
  b = b
  Paths <- MCPaths
  Files <- MCPaths
  Threads = {t1, t2}
  WalkFaults = {"unreadable", "caught", "raised"}
  Retries = 1
  Budgets <- MCBudgets
  MaxGen = 3
  MaxWrites = 7
SPECIFICATION Spec
SYMMETRY MCSymmetry
INVARIANTS DeliveredIsClaimed TalliesAreCurrent LastSyncIsExact PulledBooksAreIndexed
PROPERTY ScanTellsTheTruth
CHECK_DEADLOCK FALSE
