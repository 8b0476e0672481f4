---------------------------- MODULE MCBenchPhase ----------------------------
(* The phases of the bench for TLC: the idle one, two that share the NFS     *)
(* dataset, and the tmpfs control.                                           *)
EXTENDS BenchPhase

CONSTANTS nfs, tmp

MCPhases == <<[dest |-> Root, tmpfs |-> FALSE],
              [dest |-> nfs, tmpfs |-> FALSE], [dest |-> nfs, tmpfs |-> FALSE],
              [dest |-> tmp, tmpfs |-> TRUE]>>

=============================================================================
