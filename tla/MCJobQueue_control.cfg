CONSTANTS
  dev = dev
  src = src
  other = other
  Devices <- MCDevices
  StartModes <- MCModes
  Workers = {w1, w2}
  NoWorker = NoWorker
  DryRuns = {TRUE, FALSE}
  Retries = 1
  Unit = TRUE
  DismissAny = TRUE
  LogFaults = FALSE
  RecordFaults = TRUE
  MaxJobs = 2
  MaxQueue = 3
  MaxRequests = 2
  MaxCrashes = 0
  MaxReloads = 0
SPECIFICATION Spec
SYMMETRY MCSymmetry
INVARIANTS TypeOK RowsFollowJobs
PROPERTY ForgottenJobsDoNotStart
