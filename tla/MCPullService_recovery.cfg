CONSTANTS
  Faults = {"recovery"}
  MaxPulls = 1
  MaxCrashes = 1
  MaxStops = 0
  MaxByHand = 0
SPECIFICATION Spec
INVARIANT OwedIsOnRecord
