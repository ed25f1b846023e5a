CONSTANTS
  a = a
  b = b
  Devices <- MCDevices
  Node = a
  NoticeCap = 1
  MaxUsed = 2
  Budgets <- MCTested
SPECIFICATION FairSpec
INVARIANT FigureIsOwned
