CONSTANTS
  j1 = j1
  j2 = j2
  t1 = t1
  Jobs <- MCJobs
  Tabs <- MCTabs
  Cap = 3
SPECIFICATION FairSpec
INVARIANTS StaleCardsAreRepainted
PROPERTY TabsCatchUp
