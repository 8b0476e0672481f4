SPECIFICATION Spec
CONSTANTS
  Root = Root
  nfs = nfs
  tmp = tmp
  Phases <- MCPhases
  MaxHits = 2
  MaxRuns = 1
  JellyfinMayFail = FALSE
INVARIANTS
  NoFalseFail
CHECK_DEADLOCK FALSE
