CONSTANTS
  Faults = {"start", "operator"}
  MaxPulls = 1
  MaxCrashes = 0
  MaxStops = 0
  MaxByHand = 1
SPECIFICATION Spec
INVARIANT HoldIsOwed
