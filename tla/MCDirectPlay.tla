---------------------------- MODULE MCDirectPlay ----------------------------
(* The sequential parts of the bench for TLC: its Direct Play player, its   *)
(* ffmpeg copies, its NFS counters and main with the runner script.  They   *)
(* share no state; part is the one that this behaviour runs.                *)
EXTENDS PlayerSim, CopyProgress, MountStats, BenchRun

VARIABLE part

directVars == <<part, playerVars, copyVars, statVars, runVars>>

\* The other parts stay in one of their initial states.
DirectInit ==
  /\ part \in {"player", "copy", "counters", "main"}
  /\ PlayerInit /\ CopyInit /\ StatInit /\ RunInit
  /\ part # "copy" => ~paced
  /\ part # "counters" => ~holds /\ share = <<>>
  /\ part # "main" => cmd = "dns" /\ ~dropCache /\ cached = {}

DirectNext ==
  \/ part = "player" /\ PlayerNext /\ UNCHANGED <<part, copyVars, statVars, runVars>>
  \/ part = "copy" /\ CopyNext /\ UNCHANGED <<part, playerVars, statVars, runVars>>
  \/ part = "counters" /\ StatNext /\ UNCHANGED <<part, playerVars, copyVars, runVars>>
  \/ part = "main" /\ RunNext /\ UNCHANGED <<part, playerVars, copyVars, statVars>>

DirectSpec == DirectInit /\ [][DirectNext]_directVars

=============================================================================
