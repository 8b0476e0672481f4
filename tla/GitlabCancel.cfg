SPECIFICATION Spec
CONSTANTS
  X86 = {x}
  Pi = {}
  Gaming = {}
  Version = {v1, v2}
  Kinds = {"listed"}
  Sources = {"push"}
  MaxCommits = 3
  MaxPipelines = 2
  MaxFailures = 0
  MaxCancels = 1
INVARIANTS
  EveryMergeIsDeployed
CHECK_DEADLOCK FALSE
