CONSTANTS
  dev = dev
  src = src
  other = other
  Devices <- MCDevices
  StartModes <- MCModes
  Workers = {w1, w2}
  NoWorker = NoWorker
  DryRuns = {FALSE}
  Retries = 0
  Unit = TRUE
  DismissAny = TRUE
  LogFaults = TRUE
  RecordFaults = FALSE
  MaxJobs = 2
  MaxQueue = 2
  MaxRequests = 0
  MaxCrashes = 0
  MaxReloads = 0
SPECIFICATION Spec
INVARIANT TransfersApart
