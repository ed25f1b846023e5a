CONSTANTS
  a = a
  b = b
  Devices <- MCDevices
  Node = a
  NoticeCap = 1
  MaxUsed = 2
  Budgets <- MCForced
SPECIFICATION FairSpec
INVARIANT DeferredStartsWhenGreen
