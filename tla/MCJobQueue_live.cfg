CONSTANTS
  dev = dev
  src = src
  other = other
  Devices <- MCDevices
  StartModes <- MCModes
  Workers = {w1, w2}
  NoWorker = NoWorker
  DryRuns = {FALSE}
  Retries = 1
  Unit = TRUE
  DismissAny = TRUE
  LogFaults = TRUE
  RecordFaults = TRUE
  MaxJobs = 2
  MaxQueue = 3
  MaxRequests = 1
  MaxCrashes = 0
  MaxReloads = 0
SPECIFICATION FairSpec
PROPERTY QueuedJobsSettle
