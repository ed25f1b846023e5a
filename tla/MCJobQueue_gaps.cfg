CONSTANTS
  dev = dev
  src = src
  other = other
  Devices <- MCUpstream
  StartModes <- MCUpstreamModes
  Workers = {w1, w2}
  NoWorker = NoWorker
  DryRuns = {FALSE}
  Retries = 0
  Unit = TRUE
  DismissAny = TRUE
  LogFaults = FALSE
  RecordFaults = TRUE
  MaxJobs = 1
  MaxQueue = 2
  MaxRequests = 1
  MaxCrashes = 0
  MaxReloads = 0
SPECIFICATION Spec
\* One of these at a time: each ends in a violation.
PROPERTY ShownVerdictsStand
\* INVARIANT NoRowRunsForEver
