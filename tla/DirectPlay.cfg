SPECIFICATION DirectSpec
CONSTANTS
  Cap = 4
  Buf = 3
  Size = 12
  RunFor = 10
  MaxDelay = 5
  Sleep = 1
  MediaFor = 6
  Clip = 7
  MaxWall = 9
  SlowNum = 9
  SlowDen = 10
  CounterSize = 5
  MaxTraffic = 4
  Cmds = {"all", "transcode", "directplay", "dns", "probe"}
  IncludeDisk = TRUE
  Part = {p1}
  MaxRuns = 2
  DiskFull = TRUE
  NoReport = NoReport
INVARIANTS
  PassMeansSmooth
  StallsCounted
  DeltaIsTraffic
  CopiedIsWhole
  ColdReads
PROPERTIES
  ImplementsSchedule
  CopiedIsFresh
CHECK_DEADLOCK FALSE
