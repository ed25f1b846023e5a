CONSTANTS
  Faults = {"is-active", "stop", "start", "recovery", "signal", "log", "operator"}
  MaxPulls = 2
  MaxCrashes = 2
  MaxStops = 1
  MaxByHand = 1
SPECIFICATION Spec
PROPERTY StartsOnlyWhatItStopped
