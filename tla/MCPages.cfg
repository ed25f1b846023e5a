CONSTANTS
  Dirs <- MCDirs
  Files <- MCFiles
  Weight <- MCWeight
  Indexes <- MCIndexes
  Situations <- MCTrueSituations
  MaxGeneration = 2
  Skipped <- MCSkipped
  Vault <- MCVault
  Declared <- MCDeclared
  Libraries <- MCLibraries
  MaxJobs = 2
SPECIFICATION Spec
INVARIANTS
  HeldBackIsExact CachedRootsAreCurrent StateIsTrue BarsAreHonest PagesAgree
  RemovalsAreAsked InfrastructureStaysHome PreviewIsFaithful RetriedPreviewIsOne RetryRepeatsAPush
CHECK_DEADLOCK FALSE
