SPECIFICATION FairSpec
CONSTANTS
  MaxWait = 2
  MaxSlowStops = 1
  MaxWrites = 3
  MaxCrashes = 2
  MaxFailures = 1
  MaxRollbacks = 1
INVARIANTS
  NoWriteLost
  EveryWriteKept
  OneEngine
  NotLive
PROPERTIES
  ServesOrFails
CHECK_DEADLOCK FALSE
