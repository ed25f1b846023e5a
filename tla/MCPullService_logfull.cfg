CONSTANTS
  Faults = {"log"}
  MaxPulls = 1
  MaxCrashes = 0
  MaxStops = 0
  MaxByHand = 0
SPECIFICATION FairSpec
PROPERTY ServiceComesBack
