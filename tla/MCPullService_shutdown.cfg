CONSTANTS
  Faults = {}
  MaxPulls = 1
  MaxCrashes = 0
  MaxStops = 1
  MaxByHand = 0
SPECIFICATION Spec
INVARIANT QuietSwap
