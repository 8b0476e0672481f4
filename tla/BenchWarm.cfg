SPECIFICATION RunSpec
CONSTANTS
  Cmds = {"directplay"}
  IncludeDisk = FALSE
  Part = {p1}
  MaxRuns = 1
  DiskFull = FALSE
  NoReport = NoReport
INVARIANTS
  CopyReadsNFS
CHECK_DEADLOCK FALSE
