----------------------------- MODULE BenchPhase -----------------------------
(***************************************************************************)
(* scripts/jellyfin-io-bench/transcode.go and health.go: runPhase and      *)
(* idlePhase one after the other, each with a sampler goroutine, a health  *)
(* goroutine and an ffmpeg in a process group of its own, over directories *)
(* that outlive the program.  main runs the next phase unless one failed.  *)
(*                                                                         *)
(* The content of a directory is the set of ffmpegs that wrote into it.    *)
(* The context of main is never done, so its branches are left out.        *)
(***************************************************************************)
EXTENDS Naturals, Sequences, FiniteSets, SequencesExt

CONSTANTS
  Phases,     \* sequence of [dest, tmpfs]; dest is Root for the idle phase
  Root,       \* "/", which the sampler does not walk
  MaxHits,    \* bound on the health requests of a phase
  MaxRuns,    \* how often the bench is started
  JellyfinMayFail  \* whether Jellyfin may answer with an error, or not at all

Dest == {Phases[k].dest : k \in DOMAIN Phases} \ {Root}
TmpfsDest == {Phases[k].dest : k \in {l \in DOMAIN Phases : Phases[l].tmpfs}}

ASSUME PhaseAssumption ==
  /\ Phases \in Seq([dest : Dest \cup {Root}, tmpfs : BOOLEAN]) /\ Phases # <<>>
  /\ \A k \in DOMAIN Phases : Phases[k].dest = Root => ~Phases[k].tmpfs
  /\ MaxHits \in Nat /\ MaxRuns \in Nat \ {0} /\ JellyfinMayFail \in BOOLEAN

VARIABLES
  inv,        \* the invocation of the bench
  phase,      \* index into Phases
  pc,         \* where main is
  err,        \* whether the phase returns an error
  ff,         \* the ffmpeg of the phase: "none", "runs", "exited", "broken"
  signal,     \* the last signal it was sent
  cancelled,  \* whether sampleCtx is done
  sampler, sampleErr,
  health, ok, fail,
  counted,    \* whose files res.Files counts
  layers,     \* per directory: what was mounted over it, and the contents
  orphans,    \* ffmpegs that outlived their bench, with the directory they fill
  stale,      \* history: mounts that a bench that was interrupted left
  orphaned    \* history: whether an ffmpeg ever outlived its bench

files == <<layers, orphans, stale, orphaned>>
sampling == <<sampler, sampleErr>>
polling == <<health, ok, fail>>
vars == <<inv, phase, pc, err, ff, signal, cancelled, sampling, polling, counted, files>>

Me == <<inv, phase>>
dest == Phases[phase].dest
Idle == dest = Root
Top(d) == Last(layers[d])
SetTop(d, S) == [layers EXCEPT ![d] = Append(Front(@), S)]

Init ==
  /\ inv = 1 /\ phase = 1 /\ pc = "make" /\ err = FALSE
  /\ ff = "none" /\ signal = "none" /\ cancelled = FALSE
  /\ sampler = "off" /\ sampleErr = FALSE
  /\ health = "off" /\ ok = 0 /\ fail = 0
  /\ counted = {}
  /\ layers = [d \in Dest |-> <<{}>>]
  /\ orphans = {} /\ stale = 0 /\ orphaned = FALSE

-----------------------------------------------------------------------------
(* main: runPhase, runFFmpeg, idlePhase *)

\* MkdirAll and mountTmpfs; the deferred unmount is only there after them.
Make ==
  /\ pc = "make"
  /\ \/ Idle /\ pc' = "start" /\ UNCHANGED <<err, layers>>
     \/ /\ ~Idle
        /\ pc' = "empty"
        /\ layers' = IF Phases[phase].tmpfs THEN [layers EXCEPT ![dest] = Append(@, {})] ELSE layers
        /\ UNCHANGED err
     \/ ~Idle /\ pc' = "exit" /\ err' = TRUE /\ UNCHANGED layers
  /\ UNCHANGED <<inv, phase, ff, signal, cancelled, sampling, polling, counted,
                 orphans, stale, orphaned>>

\* Mutant: what is there stays.
Emptied_Kept(S) == S

\* emptyDir, when every RemoveAll succeeds.
Emptied(S) == {}

\* emptyDir stops at the first name it cannot remove; chown and rootAvail may
\* fail as well.
Empty ==
  /\ pc = "empty"
  /\ \/ pc' = "start" /\ layers' = SetTop(dest, Emptied(Top(dest))) /\ UNCHANGED err
     \/ /\ pc' = "unwind" /\ err' = TRUE
        /\ \E S \in SUBSET Top(dest) : layers' = SetTop(dest, S)
  /\ UNCHANGED <<inv, phase, ff, signal, cancelled, sampling, polling, counted,
                 orphans, stale, orphaned>>

\* The goroutines are started, then ffmpeg, which may not start.
Start ==
  /\ pc = "start"
  /\ sampler' = "record" /\ sampleErr' = FALSE
  /\ health' = "request" /\ ok' = 0 /\ fail' = 0
  /\ cancelled' = FALSE /\ signal' = "none"
  /\ \/ Idle /\ ff' = "none" /\ pc' = "wait"
     \/ ~Idle /\ ff' = "runs" /\ pc' = "wait"
     \/ ~Idle /\ ff' = "broken" /\ pc' = "stop"
  /\ UNCHANGED <<inv, phase, err, counted, files>>

Dead == ff \in {"exited", "broken"}

\* A receive from done, in any of the three places of runFFmpeg.
FFmpegDone ==
  /\ pc \in {"wait", "int", "kill"} /\ Dead
  /\ pc' = "stop"
  /\ ff' = IF pc = "wait" THEN ff ELSE "exited"
  /\ UNCHANGED <<inv, phase, err, signal, cancelled, sampling, polling, counted, files>>

\* runFor is over: SIGINT to the group.
TimerFires ==
  /\ pc = "wait"
  /\ IF Idle THEN pc' = "stop" /\ UNCHANGED signal ELSE pc' = "int" /\ signal' = "INT"
  /\ UNCHANGED <<inv, phase, err, ff, cancelled, sampling, polling, counted, files>>

\* Mutant: nobody waits for the ffmpeg that was killed.
AfterGrace_Leave == "stop"
AfterGrace == "kill"

\* Eight seconds later: SIGKILL, and wait.
GraceOver ==
  /\ pc = "int"
  /\ pc' = AfterGrace /\ signal' = "KILL"
  /\ UNCHANGED <<inv, phase, err, ff, cancelled, sampling, polling, counted, files>>

\* Mutant: the goroutines are waited for before they are told to end.
StopSample_Late == FALSE
StopSample == TRUE

Stop ==
  /\ pc = "stop"
  /\ cancelled' = StopSample
  /\ pc' = "join"
  /\ UNCHANGED <<inv, phase, err, ff, signal, sampling, polling, counted, files>>

\* out := <-ch, then waitHealth().
Join ==
  /\ pc = "join" /\ sampler = "ended" /\ health = "ended"
  /\ pc' = IF sampleErr THEN "unwind" ELSE "after"
  /\ err' = sampleErr
  /\ UNCHANGED <<inv, phase, ff, signal, cancelled, sampling, polling, counted, files>>

\* The counters are read again, dirBytes counts, emptyDir may leave some.
After ==
  /\ pc = "after"
  /\ pc' = "unwind"
  /\ \/ err' = TRUE /\ UNCHANGED <<counted, layers>>
     \/ Idle /\ UNCHANGED <<err, counted, layers>>
     \/ /\ ~Idle
        /\ counted' = Top(dest)
        /\ err' = (Top(dest) = {} /\ ff = "broken")
        /\ \E S \in SUBSET Top(dest) : layers' = SetTop(dest, S)
  /\ UNCHANGED <<inv, phase, ff, signal, cancelled, sampling, polling, orphans, stale, orphaned>>

\* umount fails on a directory that is in use, and nobody looks at that.
Busy(d) == sampler = "record" \/ ff = "runs" \/ \E o \in orphans : o[2] = d

\* Mutant: the unmount is not deferred but the last statement of the phase.
Unmounts_NoDefer == Phases[phase].tmpfs /\ ~err
Unmounts == Phases[phase].tmpfs

\* The deferred calls, and main goes on to the next phase or exits.
Unwind ==
  /\ pc = "unwind"
  /\ layers' = IF Unmounts /\ ~Busy(dest) THEN [layers EXCEPT ![dest] = Front(@)] ELSE layers
  /\ IF ~err /\ phase < Len(Phases)
       THEN pc' = "make" /\ phase' = phase + 1
       ELSE pc' = "exit" /\ UNCHANGED phase
  /\ counted' = {}
  /\ UNCHANGED <<inv, err, ff, signal, cancelled, sampling, polling, orphans, stale, orphaned>>

Main == Make \/ Empty \/ Start \/ FFmpegDone \/ Stop \/ Join \/ After \/ Unwind
Timers == TimerFires \/ GraceOver

-----------------------------------------------------------------------------
(* ffmpeg *)

Write ==
  /\ ff = "runs"
  /\ layers' = SetTop(dest, Top(dest) \cup {Me})
  /\ UNCHANGED <<inv, phase, pc, err, ff, signal, cancelled, sampling, polling, counted,
                 orphans, stale, orphaned>>

\* At the end of the input, on an error, or on a signal.
FFmpegEnds ==
  /\ ff = "runs"
  /\ ff' \in {"exited", "broken"}
  /\ UNCHANGED <<inv, phase, pc, err, signal, cancelled, sampling, polling, counted, files>>

OrphanWrites(o) ==
  /\ layers' = SetTop(o[2], Top(o[2]) \cup {o[1]})
  /\ UNCHANGED <<inv, phase, pc, err, ff, signal, cancelled, sampling, polling, counted,
                 orphans, stale, orphaned>>

OrphanEnds(o) ==
  /\ orphans' = orphans \ {o}
  /\ UNCHANGED <<inv, phase, pc, err, ff, signal, cancelled, sampling, polling, counted,
                 layers, stale, orphaned>>

-----------------------------------------------------------------------------
(* The goroutines *)

\* record: it walks the directory; a counter that cannot be read ends the loop.
Record ==
  /\ sampler = "record"
  /\ \/ sampler' = "idle" /\ UNCHANGED sampleErr
     \/ sampler' = "ended" /\ sampleErr' = TRUE
  /\ UNCHANGED <<inv, phase, pc, err, ff, signal, cancelled, polling, counted, files>>

\* One second is over.
SampleTick ==
  /\ sampler = "idle"
  /\ sampler' = "record"
  /\ UNCHANGED <<inv, phase, pc, err, ff, signal, cancelled, sampleErr, polling, counted, files>>

\* The last record's error is dropped.
SampleEnd ==
  /\ sampler = "idle" /\ cancelled
  /\ sampler' = "ended"
  /\ UNCHANGED <<inv, phase, pc, err, ff, signal, cancelled, sampleErr, polling, counted, files>>

\* hit: an answer, or an error; the error is certain once the context is done
\* before the request is sent, and possible when it is done while it waits.
Hit ==
  /\ health = "request"
  /\ health' = "idle"
  /\ \/ ok' = ok + 1 /\ UNCHANGED fail
     \/ (cancelled \/ JellyfinMayFail) /\ fail' = fail + 1 /\ UNCHANGED ok
  /\ UNCHANGED <<inv, phase, pc, err, ff, signal, cancelled, sampling, counted, files>>

HealthTick ==
  /\ health = "idle" /\ ok + fail < MaxHits
  /\ health' = "request"
  /\ UNCHANGED <<inv, phase, pc, err, ff, signal, cancelled, sampling, ok, fail, counted, files>>

HealthEnd ==
  /\ health = "idle" /\ cancelled
  /\ health' = "ended"
  /\ UNCHANGED <<inv, phase, pc, err, ff, signal, cancelled, sampling, ok, fail, counted, files>>

-----------------------------------------------------------------------------
(* The surroundings *)

\* Everything of this process is gone.
Gone ==
  /\ pc' = "exit" /\ ff' = "none" /\ sampler' = "off" /\ health' = "off"
  /\ counted' = {}
  /\ UNCHANGED <<inv, phase, err, signal, cancelled, sampleErr, ok, fail>>

Mounted == Phases[phase].tmpfs /\ pc \notin {"make", "exit"}

\* Ctrl-C, or the ssh session ends: ffmpeg is in a group of its own.
Interrupt ==
  /\ pc # "exit" /\ inv < MaxRuns
  /\ Gone
  /\ orphans' = IF ff = "runs" THEN orphans \cup {<<Me, dest>>} ELSE orphans
  /\ orphaned' = (orphaned \/ ff = "runs")
  /\ stale' = IF Mounted THEN stale + 1 ELSE stale
  /\ UNCHANGED layers

\* Power loss: the disks keep what was written to them.
PowerLoss ==
  /\ pc # "exit" /\ inv < MaxRuns
  /\ Gone
  /\ orphans' = {} /\ stale' = 0
  /\ layers' = [d \in Dest |-> <<Head(layers[d])>>]
  /\ UNCHANGED orphaned

Again ==
  /\ pc = "exit" /\ inv < MaxRuns
  /\ inv' = inv + 1 /\ phase' = 1 /\ pc' = "make" /\ err' = FALSE
  /\ ff' = "none" /\ sampler' = "off" /\ health' = "off"
  /\ UNCHANGED <<signal, cancelled, sampleErr, ok, fail, counted, files>>

Next ==
  \/ Main \/ Timers
  \/ Write \/ FFmpegEnds
  \/ \E o \in orphans : OrphanWrites(o) \/ OrphanEnds(o)
  \/ Record \/ SampleTick \/ SampleEnd
  \/ Hit \/ HealthTick \/ HealthEnd
  \/ Interrupt \/ PowerLoss \/ Again

Spec == Init /\ [][Next]_vars

\* Timers fire, system calls and requests (2 s timeout) return, a process that
\* is killed is gone some time; select takes a case that stays ready, sooner
\* or later.  ffmpeg ends by itself, or on SIGINT, only if it likes to.
FairSpec ==
  /\ Spec
  /\ WF_vars(Main) /\ WF_vars(Timers)
  /\ WF_vars(Record) /\ SF_vars(SampleEnd)
  /\ WF_vars(Hit) /\ SF_vars(HealthEnd)
  /\ WF_vars(FFmpegEnds /\ signal = "KILL")

-----------------------------------------------------------------------------
(* Properties *)

\* Nothing that a phase started outlives it: when its results are put
\* together, when its directory is unmounted and when the next one begins,
\* its ffmpeg is dead and its goroutines have ended.
NothingOutlives ==
  pc \in {"make", "empty", "start", "after", "unwind", "exit"} =>
    /\ ff # "runs"
    /\ sampler \in {"off", "ended"} /\ health \in {"off", "ended"}

\* A phase counts its own files only: what another phase, an earlier bench
\* that was killed or a disk that came back left there is not among them.  (An
\* ffmpeg that outlived its bench still writes into the shared directory.)
FilesAreOwn == ~orphaned => counted \subseteq {Me}

\* A bench that ends by itself leaves no tmpfs mounted, on success or on any
\* error, unless a stray ffmpeg keeps it busy; only an interrupt leaves one.
MountsReleased ==
  pc = "exit" /\ ~orphaned => \A d \in TmpfsDest : Len(layers[d]) <= 1 + stale

\* The bench ends, also with an ffmpeg that ignores SIGINT, a sampler that
\* gave up early and a request in flight.
BenchEnds == []<>(pc = "exit")

\* docs/services/jellyfin.md: the bench records the HTTP availability of
\* Jellyfin during transcode load; of a Jellyfin that always answers it
\* records no failure.
NoFalseFail == ~JellyfinMayFail => fail = 0

=============================================================================
