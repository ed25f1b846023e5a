CONSTANTS
  dev = dev
  src = src
  other = other
  Devices <- MCDevices
  StartModes <- MCModes
  Workers = {w1, w2}
  NoWorker = NoWorker
  DryRuns = {FALSE}
  Retries = 1
  Unit = TRUE
  DismissAny = FALSE
  LogFaults = TRUE
  RecordFaults = TRUE
  MaxJobs = 2
  MaxQueue = 3
  MaxRequests = 1
  MaxCrashes = 1
  MaxReloads = 1
SPECIFICATION Spec
SYMMETRY MCSymmetry
INVARIANTS AttemptsBounded NoStrandedJob RunningRowsRun PendingRowsAreLive
PROPERTY VerdictsStand
