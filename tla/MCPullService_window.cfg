CONSTANTS
  Faults = {"stop"}
  MaxPulls = 2
  MaxCrashes = 2
  MaxStops = 0
  MaxByHand = 0
SPECIFICATION FairSpec
INVARIANTS OwedIsOnRecord QuietSwap WalBelongsToCatalog
PROPERTY ServiceComesBack
