------------------------ MODULE MCGitlabPipelines ------------------------
(* The instance of GitlabPipelines that the runs check for safety.        *)
EXTENDS GitlabPipelines, TLC

\* Toplevels are only compared with each other: any of them may be renamed.
VersionSymmetry == Permutations(Version)

=============================================================================
