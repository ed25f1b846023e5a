CONSTANTS
  dev = dev
  src = src
  other = other
  Devices <- MCThree
  StartModes <- MCThreeModes
  Workers = {w1, w2, w3}
  NoWorker = NoWorker
  DryRuns = {FALSE}
  Retries = 0
  Unit = FALSE
  DismissAny = TRUE
  LogFaults = FALSE
  RecordFaults = FALSE
  MaxJobs = 3
  MaxQueue = 3
  MaxRequests = 1
  MaxCrashes = 0
  MaxReloads = 0
SPECIFICATION Spec
SYMMETRY MCSymmetry
INVARIANTS PullRunsAlone OneJobPerDevice TransfersApart
PROPERTY ImplementsAdmission
