CONSTANTS
  Faults = {"stop"}
  MaxPulls = 1
  MaxCrashes = 0
  MaxStops = 0
  MaxByHand = 0
SPECIFICATION Spec
INVARIANT SnapshotIsRemoved
