CONSTANTS
  Dirs <- MCDirs
  Files <- MCFiles
  Weight <- MCWeight
  Indexes <- MCIndexes
  Situations <- MCTrueSituations
  MaxGeneration = 2
  Skipped <- MCSkipped
  Vault <- MCVault
  Declared <- MCDeclared
  Libraries <- MCLibraries
  MaxJobs = 2
SPECIFICATION Spec
\* One of these at a time: each ends in a violation.
INVARIANT RetryRepeats
\* INVARIANT ReadersGetTheLibrary
\* INVARIANT CellsAreHonest
\* INVARIANT HeldIsVisible
\* INVARIANT PresentIsComplete
CHECK_DEADLOCK FALSE
