SPECIFICATION AtticSpec
CONSTANTS
  lib = lib
  cli = cli
  h0 = h0
  h1 = h1
  h2 = h2
  b0 = b0
  b1 = b1
  b = b
  c = c
  remote = remote
  r1 = r1
  r2 = r2
  Path <- MCPath
  Closure <- MCClosure
  Machine <- MCMachine
  Host <- MCHost
  Installed <- MCInstalled
  Cli = cli
  Tooling <- MCTooling
  Job = {r1, r2}
  Envs <- MCEnvs
  NoPath = NoPath
  PushTries = 2
  CopyTries = 2
  BatchSize = 1
  FaultCap = 2
  MaxEmptied = 1
  MaxRepairs = 1
  MaxKills = 1
INVARIANTS
  RunningIsWhole
  SwitchedIsOnAttic
  FillMeansVerified
  RetriesAbsorb
PROPERTIES
  OnlyFromAttic
  RunsEnd
CHECK_DEADLOCK FALSE
