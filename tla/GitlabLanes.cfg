SPECIFICATION FairSpec
CONSTANTS
  X86 = {}
  Pi = {p}
  Gaming = {g}
  Version = {v1}
  Kinds = {"listed"}
  Sources = {"push", "web"}
  MaxCommits = 2
  MaxPipelines = 2
  MaxFailures = 1
  MaxCancels = 1
INVARIANTS
  LanesApart
PROPERTIES
  PipelinesEnd
  SwitchIsVerified
CHECK_DEADLOCK FALSE
