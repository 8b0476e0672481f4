------------------------------ MODULE BenchRun ------------------------------
(***************************************************************************)
(* scripts/jellyfin-io-bench/main.go with runDNS and runDirectPlay, and    *)
(* scripts/run-jellyfin-io-bench.sh that starts it and fetches the report. *)
(*                                                                         *)
(* What a phase measures is left to BenchPhase, PlayerSim and CopyProgress; *)
(* here it passes or not, and reads parts of the file through the page     *)
(* cache.  Every path of main to its exit is kept.                         *)
(***************************************************************************)
EXTENDS Naturals, Sequences, FiniteSets

CONSTANTS
  Cmds,         \* the subcommands that are used
  IncludeDisk,  \* -include-disk
  Part,         \* parts of the input file
  MaxRuns,      \* how often the bench is started
  DiskFull,     \* whether the write of the report may fail
  NoReport

ASSUME RunAssumption ==
  /\ Cmds \subseteq {"dns", "probe", "transcode", "directplay", "all"}
  /\ IncludeDisk \in BOOLEAN /\ MaxRuns \in Nat /\ DiskFull \in BOOLEAN

VARIABLES
  n,        \* runs so far
  cmd, dropCache,  \* the command line
  todo,     \* the steps main has before it
  rep,      \* the report so far
  status,   \* the exit status, or "runs"
  json,     \* the file behind -json on the host, which survives runs
  copied,   \* the report on the operator's machine
  cached,   \* parts of the input in the page cache
  fromCache,  \* history: Direct Play phases of this run that read cached parts
  notDropped  \* history: those before which the cache could not be dropped

reading == <<cached, fromCache, notDropped>>
runVars == <<n, cmd, dropCache, todo, rep, status, json, copied, reading>>

TranscodePhases ==
  <<"idle", "nfs_unthrottled", "nfs_throttled">>
  \o (IF IncludeDisk THEN <<"disk_unthrottled">> ELSE <<>>) \o <<"tmpfs_throttled">>
DirectPhases == <<"player_buffer", "nfs_sequential_max", "ffmpeg_copy", "ffmpeg_copy_re">>

\* The steps of a subcommand, up to the report.
Plan(c) ==
  LET Of(S, steps) == IF c \in S \cup {"all"} THEN steps ELSE <<>> IN
    Of({"dns"}, <<"dns">>) \o Of({"probe"}, <<"probe">>)
    \o Of({"transcode"}, <<"transcode checks">> \o TranscodePhases)
    \o Of({"directplay"}, <<"directplay checks", "ffprobe">> \o DirectPhases \o <<"verdict">>)
    \o <<"write">>

InSeq(x, s) == \E i \in DOMAIN s : s[i] = x

\* A report.  run: which run wrote it; phases: records of a name and its pass;
\* cut: a file that was not written to its end.
Empty == [run |-> n, sections |-> {}, phases |-> {}, cut |-> FALSE]

RunInit ==
  /\ n = 0 /\ cmd \in Cmds /\ dropCache \in BOOLEAN
  /\ todo = <<>> /\ status = "none"
  /\ rep = Empty /\ json = NoReport /\ copied = NoReport
  /\ cached \in SUBSET Part /\ fromCache = {} /\ notDropped = {}

-----------------------------------------------------------------------------
(* main *)

\* What is behind -json after r was to be written there: os.WriteFile may not
\* get at the file, or truncate it and fail.
Written(r) == {r} \cup IF DiskFull THEN {json, [r EXCEPT !.cut = TRUE]} ELSE {}

At(step) == status = "runs" /\ Head(todo) = step
Done == todo' = Tail(todo)
Exit(code) == status' = code /\ todo' = <<>>

\* ssh runs the binary: a refusal (wrong host, not root) is exit status 2.
Run ==
  /\ status = "none" /\ n < MaxRuns
  /\ n' = n + 1
  /\ cmd' \in Cmds /\ dropCache' \in BOOLEAN
  /\ rep' = [Empty EXCEPT !.run = n + 1]
  /\ \/ status' = "runs" /\ todo' = Plan(cmd')
     \/ status' = "refused" /\ todo' = <<>>
  /\ fromCache' = {} /\ notDropped' = {}
  /\ UNCHANGED <<json, copied, cached>>

\* runDNS and readNFS: whatever they find, it is a section and no error.
Dns ==
  /\ At("dns")
  /\ rep' = [rep EXCEPT !.sections = @ \cup {"dns"}]
  /\ Done
  /\ UNCHANGED <<n, cmd, dropCache, status, json, copied, reading>>

Probe ==
  /\ At("probe")
  /\ rep' = [rep EXCEPT !.sections = @ \cup {"probe"}]
  /\ Done
  /\ UNCHANGED <<n, cmd, dropCache, status, json, copied, reading>>

\* findFFmpeg, stat of the input, the file system of the mount, free space.
Checks ==
  /\ At("transcode checks") \/ At("directplay checks")
  /\ \/ Done /\ UNCHANGED status
     \/ Exit("failed")
  /\ UNCHANGED <<n, cmd, dropCache, rep, json, copied, reading>>

\* idlePhase and runOne.  A phase that fails is reported, but for the idle one.
Transcode ==
  /\ status = "runs" /\ InSeq(Head(todo), TranscodePhases)
  /\ \E R \in SUBSET Part : cached' = cached \cup IF Head(todo) = "idle" THEN {} ELSE R
  /\ \E pass \in BOOLEAN :
       /\ IF ~pass /\ Head(todo) = "idle"
            THEN UNCHANGED rep
            ELSE rep' = [rep EXCEPT !.phases = @ \cup {[name |-> Head(todo), pass |-> pass]}]
       /\ IF pass
            THEN Done /\ UNCHANGED <<status, json>>
            ELSE /\ Exit("failed")
                 /\ IF Head(todo) = "idle" THEN UNCHANGED json
                    ELSE json' \in Written(rep')
  /\ UNCHANGED <<n, cmd, dropCache, copied, fromCache, notDropped>>

\* runDirectPlay returns early when ffprobe fails.
Ffprobe ==
  /\ At("ffprobe")
  /\ rep' = [rep EXCEPT !.sections = @ \cup {"direct_play"}]
  /\ \/ Done /\ UNCHANGED <<status, json>>
     \/ Exit("failed") /\ json' \in Written(rep')
  /\ UNCHANGED <<n, cmd, dropCache, copied, reading>>

\* Mutant: the cache is dropped once, before Direct Play.
Drops_Once == {"player_buffer"}

\* The calls of drop in runDirectPlay.
Drops == {"player_buffer", "nfs_sequential_max"}

\* A phase of runDirectPlay.  A cache that could not be dropped is only noted.
\* A phase that fails does not stop the next.
Direct ==
  /\ status = "runs" /\ InSeq(Head(todo), DirectPhases)
  /\ \E pass \in BOOLEAN, R \in SUBSET Part,
        drop \in IF dropCache /\ Head(todo) \in Drops THEN {"done", "failed"} ELSE {"none"} :
       LET warm == IF drop = "done" THEN {} ELSE cached IN
       /\ cached' = warm \cup R
       /\ fromCache' = IF R \cap warm = {} THEN fromCache ELSE fromCache \cup {Head(todo)}
       /\ notDropped' = IF drop = "failed" THEN notDropped \cup {Head(todo)} ELSE notDropped
       /\ rep' = [rep EXCEPT !.phases = @ \cup {[name |-> Head(todo), pass |-> pass]}]
  /\ Done
  /\ UNCHANGED <<n, cmd, dropCache, status, json, copied>>

Failed(r) == \E p \in r.phases : ~p.pass

\* Mutant: the verdict is printed and does not decide the exit status.
Verdict_Shown == FALSE
Verdict == Failed(rep)

\* dp.Pass.
Judge ==
  /\ At("verdict")
  /\ IF Verdict
       THEN Exit("failed") /\ json' \in Written(rep)
       ELSE Done /\ UNCHANGED <<status, json>>
  /\ UNCHANGED <<n, cmd, dropCache, rep, copied, reading>>

\* Mutant: a report that cannot be written is passed over, as in the other
\* calls of writeJSON.
WriteStatus_Ignored(written) == "ok"
WriteStatus(written) == IF written = rep THEN "ok" ELSE "failed"

WriteReport ==
  /\ At("write")
  /\ \E written \in Written(rep) : json' = written /\ Exit(WriteStatus(written))
  /\ UNCHANGED <<n, cmd, dropCache, rep, copied, reading>>

-----------------------------------------------------------------------------
(* run-jellyfin-io-bench.sh, and the host *)

\* set -e: the report is only fetched after an exit status of 0.
Fetch ==
  /\ status \in {"ok", "failed", "refused"}
  /\ \/ status = "ok" /\ copied' = json
     \/ UNCHANGED copied
  /\ status' = "none"
  /\ UNCHANGED <<n, cmd, dropCache, todo, rep, json, reading>>

\* Memory pressure.
Evict ==
  /\ \E C \in SUBSET cached : cached' = C
  /\ UNCHANGED <<n, cmd, dropCache, todo, rep, status, json, copied, fromCache, notDropped>>

RunNext ==
  \/ Run \/ Dns \/ Probe \/ Checks \/ Transcode \/ Ffprobe \/ Direct \/ Judge
  \/ WriteReport \/ Fetch \/ Evict

RunSpec == RunInit /\ [][RunNext]_runVars

-----------------------------------------------------------------------------
(* Properties *)

\* What the operator's machine gets is the whole report of a bench that did
\* all it was asked to and in which every phase passed, although the file on
\* the host may be an older one, a cut one or one of a bench that failed.
CopiedIsWhole ==
  copied # NoReport =>
    /\ ~copied.cut /\ ~Failed(copied)
    /\ copied.phases # {} \/ copied.sections # {}
    /\ \A p \in copied.phases : p.name \in {"nfs_unthrottled", "tmpfs_throttled"} =>
         \A i \in DOMAIN TranscodePhases : \E q \in copied.phases : q.name = TranscodePhases[i]
    /\ "direct_play" \in copied.sections =>
         \A i \in DOMAIN DirectPhases : \E q \in copied.phases : q.name = DirectPhases[i]

\* It is the report of the run that has just ended, never what an earlier one
\* left behind.
CopiedIsFresh == [][copied' # copied => copied'.run = n]_runVars

\* docs/services/jellyfin.md: Direct Play drops the page cache.  Unless a drop
\* fails, the player and the sequential phase read from the server only,
\* whatever was cached and what the phase before read.
ColdReads ==
  dropCache => fromCache \cap {"player_buffer", "nfs_sequential_max"} \subseteq notDropped

\* directplay.go: ffmpeg_copy is demuxed as fast as the NFS and demux path
\* allows: with the drops, not out of the page cache.
CopyReadsNFS == dropCache /\ notDropped = {} => "ffmpeg_copy" \notin fromCache

=============================================================================
