SPECIFICATION Spec
CONSTANTS
  X86 = {x}
  Pi = {}
  Gaming = {}
  Version = {v1, v2}
  Kinds = {"listed", "unlisted", "docs"}
  Sources = {"push", "web"}
  MaxCommits = 3
  MaxPipelines = 3
  MaxFailures = 2
  MaxCancels = 1
SYMMETRY VersionSymmetry
INVARIANTS
  MergedIsDeployed
  WebRepairs
PROPERTIES
  ForwardOnly
  SwitchIsVerified
CHECK_DEADLOCK FALSE
