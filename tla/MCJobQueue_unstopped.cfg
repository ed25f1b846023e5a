CONSTANTS
  dev = dev
  src = src
  other = other
  Devices <- MCDevices
  StartModes <- MCModes
  Workers = {w1, w2}
  NoWorker = NoWorker
  DryRuns = {FALSE}
  Retries = 1
  Unit = TRUE
  DismissAny = TRUE
  LogFaults = FALSE
  RecordFaults = FALSE
  MaxJobs = 1
  MaxQueue = 2
  MaxRequests = 1
  MaxCrashes = 0
  MaxReloads = 0
SPECIFICATION Spec
\* One of these at a time: each ends in a violation.
INVARIANT DismissedJobsStop
\* INVARIANT RemovedJobsStop
