SPECIFICATION ServicesSpec
CONSTANTS
  Size = 3
  MaxTries = 4
  MaxChanges = 4
  Backlog = 3
  MaxRestarts = 2
  MaxOutages = 2
  Store <- MCStore
  MaxFaults = 3
  MaxDumps = 3
  Sizes = {1, 2, 3}
  MaxCrashes = 3
INVARIANTS
  AssembledIsWhole
  ActiveIsReady
  DumpKept
  NeverCutOff
  MountedIsClean
PROPERTIES
  HungUpIsClosed
  NeverBack
  EveryChangeShown
  ServicesSettle
  BootstrapEnds
CHECK_DEADLOCK FALSE
