----------------------------- MODULE MountStats -----------------------------
(***************************************************************************)
(* scripts/jellyfin-io-bench/nfs.go: what a phase says it read over NFS is *)
(* the difference of two snapshots of /proc/self/mountstats, taken around  *)
(* the reads by runSequentialMax, runPlayerSim and runFFmpegCopy in        *)
(* directplay.go.                                                          *)
(*                                                                         *)
(* The share is a systemd automount with an idle timeout: it is unmounted  *)
(* while no file on it is open, and its counters start again at the next   *)
(* mount.  One counter stands for the ten of NFSSnap.                      *)
(***************************************************************************)
EXTENDS Naturals, Sequences

CONSTANTS
  CounterSize,  \* 2^64
  MaxTraffic    \* bound on the traffic of a phase

ASSUME CounterAssumption == CounterSize \in Nat \ {0} /\ MaxTraffic \in 0 .. CounterSize - 1

VARIABLES
  ops,       \* what the phase has still to do
  holds,     \* history: whether the phase keeps the file open itself
  inputOpen, \* whether a file on the share is open
  share,     \* <<the counter>> of the mounted share, <<>> when it is not
  before,    \* nfs0
  delta,     \* <<ph.NFS>> of the phase that is over, or <<>>
  traffic,   \* history: what went over the mount since nfs0
  unmounts   \* history: whether the share was unmounted since nfs0

history == <<holds, traffic, unmounts>>
statVars == <<ops, inputOpen, share, before, delta, history>>

\* Mutant: the snapshot is taken before the file is opened.
PhaseOps_Early(held) ==
  IF held THEN <<"nfs0", "open", "nfs1", "close">> ELSE <<"nfs0", "open", "close", "nfs1">>

\* runSequentialMax and runPlayerSim read a file of their own, which is closed
\* when they return; runFFmpegCopy has ffmpeg open and close it.
PhaseOps(held) ==
  IF held THEN <<"open", "nfs0", "nfs1", "close">> ELSE <<"nfs0", "open", "close", "nfs1">>

\* readNFSSnap: a mount point without an NFS mount has no block.
Snap == IF share = <<>> THEN [found |-> FALSE, read |-> 0] ELSE [found |-> TRUE, read |-> share[1]]

\* nfsDelta, of unsigned integers.
NfsDelta(a, b) == [found |-> a.found /\ b.found,
                   read |-> (b.read + CounterSize - a.read) % CounterSize]

StatInit ==
  /\ holds \in BOOLEAN /\ ops = PhaseOps(holds)
  /\ inputOpen = FALSE
  /\ share \in {<<>>} \cup {<<c>> : c \in 0 .. CounterSize - 1}
  /\ before = [found |-> FALSE, read |-> 0] /\ delta = <<>>
  /\ traffic = 0 /\ unmounts = FALSE

Does(op) == ops # <<>> /\ Head(ops) = op /\ ops' = Tail(ops)

OpenInput ==
  /\ Does("open")
  /\ inputOpen' = TRUE
  /\ share' = IF share = <<>> THEN <<0>> ELSE share
  /\ UNCHANGED <<before, delta, history>>

CloseInput ==
  /\ Does("close")
  /\ inputOpen' = FALSE
  /\ UNCHANGED <<share, before, delta, history>>

Snap0 ==
  /\ Does("nfs0")
  /\ before' = Snap
  /\ traffic' = 0 /\ unmounts' = FALSE
  /\ UNCHANGED <<inputOpen, share, delta, holds>>

\* The delta is left out when neither snapshot has the mount.
Snap1 ==
  /\ Does("nfs1")
  /\ delta' = IF before.found \/ Snap.found THEN <<NfsDelta(before, Snap)>> ELSE <<>>
  /\ UNCHANGED <<inputOpen, share, before, history>>

NextPhase ==
  /\ ops = <<>>
  /\ holds' \in BOOLEAN /\ ops' = PhaseOps(holds')
  /\ delta' = <<>>
  /\ UNCHANGED <<inputOpen, share, before, traffic, unmounts>>

\* The phase, or Jellyfin, reads a unit of data.  Jellyfin mounts the share
\* when it has to.
Transfer ==
  /\ delta = <<>> /\ traffic < MaxTraffic
  /\ share' = IF share = <<>> THEN <<1 % CounterSize>> ELSE <<(share[1] + 1) % CounterSize>>
  /\ traffic' = traffic + 1
  /\ UNCHANGED <<ops, inputOpen, before, delta, holds, unmounts>>

\* The idle timeout, or an operator.
Unmount ==
  /\ share # <<>> /\ ~inputOpen
  /\ share' = <<>> /\ unmounts' = TRUE
  /\ UNCHANGED <<ops, inputOpen, before, delta, holds, traffic>>

StatNext == OpenInput \/ CloseInput \/ Snap0 \/ Snap1 \/ NextPhase \/ Transfer \/ Unmount

StatSpec == StatInit /\ [][StatNext]_statVars

-----------------------------------------------------------------------------
(* Properties *)

\* The NFS bytes of a phase are what went over the mount between its two
\* snapshots, through a wrapped counter and a share that was not mounted when
\* the phase began: for the phases that hold their file open whatever happens
\* to the mount, for the others unless it is unmounted meanwhile.
DeltaIsTraffic ==
  delta # <<>> /\ (holds \/ ~unmounts) => delta[1].read = traffic /\ (holds => delta[1].found)

=============================================================================
