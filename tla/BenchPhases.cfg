SPECIFICATION FairSpec
CONSTANTS
  Root = Root
  nfs = nfs
  tmp = tmp
  Phases <- MCPhases
  MaxHits = 2
  MaxRuns = 2
  JellyfinMayFail = TRUE
INVARIANTS
  NothingOutlives
  FilesAreOwn
  MountsReleased
PROPERTIES
  BenchEnds
CHECK_DEADLOCK FALSE
