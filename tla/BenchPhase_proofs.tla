------------------------- MODULE BenchPhase_proofs -------------------------
(***************************************************************************)
(* For every list of phases and every number of runs of BenchPhase:        *)
(* nothing that a phase starts outlives it, what a phase counts it wrote   *)
(* itself, and a bench that ends by itself leaves no tmpfs mounted.        *)
(***************************************************************************)
EXTENDS BenchPhase, SequenceTheorems, TLAPS

Quiet == {"make", "empty", "start", "after", "unwind", "exit"}

\* ffmpeg is dead from the receive from done on, the goroutines from the join
\* on; an idle phase has no ffmpeg to wait for.
Inv ==
  /\ pc \in Quiet \cup {"stop", "join"} => ff # "runs"
  /\ pc \in Quiet => sampler \in {"off", "ended"} /\ health \in {"off", "ended"}
  /\ pc \in {"wait", "int", "kill"} /\ Idle => ff = "none"

LEMMA InitInv == Init => Inv
BY DEF Init, Inv, Quiet

\* main waits for ffmpeg before it stops the goroutines, and for these before
\* it goes on.
LEMMA MainInv == ASSUME Inv, Main \/ Timers PROVE Inv'
<1>1. CASE Make
  BY <1>1 DEF Make, Inv, Quiet, Idle, dest, sampling, polling
<1>2. CASE Empty
  BY <1>2 DEF Empty, Inv, Quiet, Idle, dest, sampling, polling
<1>3. CASE Start
  BY <1>3 DEF Start, Inv, Quiet, Idle, dest
<1>4. CASE FFmpegDone
  BY <1>4 DEF FFmpegDone, Dead, Inv, Quiet, Idle, dest, sampling, polling
<1>5. CASE TimerFires
  BY <1>5 DEF TimerFires, Inv, Quiet, Idle, dest, sampling, polling
<1>6. CASE GraceOver
  BY <1>6 DEF GraceOver, AfterGrace, Inv, Quiet, Idle, dest, sampling, polling
<1>7. CASE Stop
  BY <1>7 DEF Stop, Inv, Quiet, Idle, dest, sampling, polling
<1>8. CASE Join
  BY <1>8 DEF Join, Inv, Quiet, Idle, dest, sampling, polling
<1>9. CASE After
  BY <1>9 DEF After, Inv, Quiet, Idle, dest, sampling, polling
<1>10. CASE Unwind
  BY <1>10 DEF Unwind, Inv, Quiet, Idle, dest, sampling, polling
<1> QED
  BY <1>1, <1>2, <1>3, <1>4, <1>5, <1>6, <1>7, <1>8, <1>9, <1>10 DEF Main, Timers

\* ffmpeg and the goroutines only move while they run, which is when main is
\* not in a quiet place.
LEMMA OthersInv ==
  ASSUME Inv,
         \/ Write \/ FFmpegEnds
         \/ \E o \in orphans : OrphanWrites(o) \/ OrphanEnds(o)
         \/ Record \/ SampleTick \/ SampleEnd
         \/ Hit \/ HealthTick \/ HealthEnd
  PROVE  Inv'
<1>1. CASE Write
  BY <1>1 DEF Write, Inv, Idle, dest, sampling, polling
<1>2. CASE FFmpegEnds
  BY <1>2 DEF FFmpegEnds, Inv, Quiet, Idle, dest, sampling, polling
<1>3. ASSUME NEW o \in orphans, OrphanWrites(o) \/ OrphanEnds(o) PROVE Inv'
  BY <1>3 DEF OrphanWrites, OrphanEnds, Inv, Idle, dest, sampling, polling
<1>4. CASE Record \/ SampleTick \/ SampleEnd
  BY <1>4 DEF Record, SampleTick, SampleEnd, Inv, Quiet, Idle, dest, polling
<1>5. CASE Hit \/ HealthTick \/ HealthEnd
  BY <1>5 DEF Hit, HealthTick, HealthEnd, Inv, Quiet, Idle, dest, sampling
<1> QED
  BY <1>1, <1>2, <1>3, <1>4, <1>5

LEMMA SurroundingsInv == ASSUME Inv, Interrupt \/ PowerLoss \/ Again PROVE Inv'
<1>1. CASE Interrupt \/ PowerLoss
  BY <1>1 DEF Interrupt, PowerLoss, Gone, Inv, Quiet
<1>2. CASE Again
  BY <1>2 DEF Again, Inv, Quiet
<1> QED
  BY <1>1, <1>2

\* Whatever is interrupted, when a phase puts its results together, unmounts
\* and makes room for the next, its ffmpeg is dead and its goroutines are over.
THEOREM NothingOutlivesCorrect == Spec => []NothingOutlives
<1>1. Inv /\ [Next]_vars => Inv'
  <2> SUFFICES ASSUME Inv, [Next]_vars PROVE Inv'
    OBVIOUS
  <2>1. CASE UNCHANGED vars
    BY <2>1 DEF vars, Inv, Idle, dest, sampling, polling
  <2> QED
    BY <2>1, MainInv, OthersInv, SurroundingsInv DEF Next
<1>2. Inv => NothingOutlives
  BY DEF Inv, Quiet, NothingOutlives
<1> QED
  BY InitInv, <1>1, <1>2, PTL DEF Spec

-----------------------------------------------------------------------------
(* Directories *)

\* What was written: an ffmpeg is an invocation and a phase.
Content == SUBSET (Nat \X Nat)
Stack == Seq(Content) \ {<<>>}

LEMMA FrontOk ==
  ASSUME NEW s \in Stack
  PROVE  /\ s \in Seq(Content) /\ Len(s) \in Nat \ {0}
         /\ Front(s) \in Seq(Content) /\ Len(Front(s)) = Len(s) - 1
<1>1. s \in Seq(Content) /\ Len(s) \in Nat \ {0} /\ \A i \in 1 .. Len(s) : s[i] \in Content
  BY DEF Stack
<1> DEFINE n == Len(s) - 1
<1>2. 1 \in Int /\ n \in Int /\ n >= 0 /\ \A i \in 1 .. n : s[i] \in Content
  BY <1>1
<1> HIDE DEF n
<1>3. /\ SubSeq(s, 1, n) \in Seq(Content)
      /\ Len(SubSeq(s, 1, n)) = IF 1 <= n THEN n - 1 + 1 ELSE 0
  BY <1>2, SubSeqProperties
<1>4. Len(SubSeq(s, 1, n)) = n
  BY <1>2, <1>3
<1> QED BY <1>1, <1>3, <1>4 DEF Front, n

LEMMA PutTop ==
  ASSUME NEW s \in Stack, NEW S \in Content
  PROVE  LET t == Append(Front(s), S)
         IN  t \in Stack /\ Len(t) = Len(s) /\ Last(t) = S
<1>1. Front(s) \in Seq(Content) /\ Len(Front(s)) = Len(s) - 1 /\ Len(s) \in Nat \ {0}
  BY FrontOk
<1> DEFINE t == Append(Front(s), S)
<1>2. t \in Seq(Content) /\ Len(t) = Len(s) /\ t[Len(t)] = S
  BY <1>1
<1>3. t # <<>>
  BY <1>1, <1>2
<1> QED BY <1>2, <1>3 DEF Stack, Last

LEMMA Cover ==
  ASSUME NEW s \in Stack, NEW S \in Content
  PROVE  LET t == Append(s, S)
         IN  t \in Stack /\ Len(t) = Len(s) + 1 /\ Last(t) = S
BY DEF Stack, Last

LEMMA Uncover ==
  ASSUME NEW s \in Stack, Len(s) > 1
  PROVE  Front(s) \in Stack /\ Len(Front(s)) = Len(s) - 1
<1>1. Front(s) \in Seq(Content) /\ Len(Front(s)) = Len(s) - 1 /\ Len(s) \in Nat
  BY FrontOk
<1>2. Front(s) # <<>>
  BY <1>1
<1> QED BY <1>1, <1>2 DEF Stack

LEMMA Bottom ==
  ASSUME NEW s \in Stack
  PROVE  <<Head(s)>> \in Stack /\ Len(<<Head(s)>>) = 1 /\ Len(s) \in Nat \ {0} /\ Last(s) \in Content
BY DEF Stack, Last

StackInv ==
  /\ inv \in Nat /\ phase \in DOMAIN Phases /\ stale \in Nat /\ orphaned \in BOOLEAN
  /\ layers \in [Dest -> Stack]
  /\ orphans \subseteq (Nat \X Nat) \X Dest
  /\ ff = "runs" \/ pc = "empty" => ~Idle

\* From the moment its directory is empty to the count, a phase is the only
\* one that writes there.
Filling == {"start", "wait", "int", "kill", "stop", "join", "after"}

FilesInv ==
  /\ pc # "unwind" => counted = {}
  /\ ~orphaned => orphans = {} /\ counted \subseteq {Me}
  /\ ~orphaned /\ ~Idle /\ pc \in Filling => Top(dest) \subseteq {Me}

\* Every tmpfs over a directory is that of the phase or one that a bench that
\* was interrupted left.
MountInv ==
  /\ Mounted => Len(layers[dest]) > 1
  /\ ~orphaned => \A d \in TmpfsDest :
       Len(layers[d]) <= 1 + stale + IF Mounted /\ d = dest THEN 1 ELSE 0

IInv == Inv /\ StackInv /\ FilesInv /\ MountInv

LEMMA PhasesType ==
  /\ Phases \in Seq([dest : Dest \cup {Root}, tmpfs : BOOLEAN]) /\ Len(Phases) \in Nat \ {0}
  /\ DOMAIN Phases = 1 .. Len(Phases)
BY PhaseAssumption

LEMMA DestOk ==
  ASSUME phase \in DOMAIN Phases
  PROVE  /\ ~Idle => dest \in Dest
         /\ Phases[phase].tmpfs => ~Idle /\ dest \in TmpfsDest
         /\ TmpfsDest \subseteq Dest /\ Me = <<inv, phase>> /\ phase \in Nat
<1>1. phase \in Nat /\ \A k \in DOMAIN Phases : Phases[k].tmpfs => Phases[k].dest # Root
  BY PhasesType, PhaseAssumption
<1> QED BY <1>1 DEF Idle, dest, Dest, TmpfsDest, Me

LEMMA InitIInv == Init => IInv
<1> SUFFICES ASSUME Init PROVE IInv
  OBVIOUS
<1>1. phase \in DOMAIN Phases
  BY PhasesType DEF Init
<1>2. <<{}>> \in Stack /\ Len(<<{}>>) = 1
  BY DEF Stack, Content
<1>3. StackInv
  BY <1>1, <1>2 DEF Init, StackInv
<1>4. \A d \in Dest : Len(layers[d]) = 1
  BY <1>2 DEF Init
<1>5. MountInv
  BY <1>1, <1>4, DestOk DEF Init, MountInv, Mounted
<1>6. FilesInv
  BY DEF Init, FilesInv, Filling
<1> QED BY <1>3, <1>5, <1>6, InitInv DEF IInv

\* Steps that leave the directories alone.
LEMMA StillInv ==
  ASSUME IInv, UNCHANGED <<inv, phase, counted, files>>,
         pc = "exit" <=> pc' = "exit", pc = "make" <=> pc' = "make",
         pc' \in Filling => pc \in Filling, pc = "unwind" => pc' = "unwind",
         ff' = "runs" => ff = "runs" \/ ~Idle, pc' = "empty" => pc = "empty"
  PROVE  StackInv' /\ FilesInv' /\ MountInv'
<1>1. dest' = dest /\ Me' = Me /\ Idle' = Idle /\ Mounted' = Mounted /\ (Top(dest))' = Top(dest)
  BY DEF files, dest, Me, Idle, Mounted, Top
<1>2. StackInv'
  BY <1>1 DEF IInv, StackInv, files
<1>3. FilesInv'
  BY <1>1 DEF IInv, FilesInv, files
<1>4. MountInv'
  BY <1>1 DEF IInv, MountInv, files
<1> QED BY <1>2, <1>3, <1>4

\* Steps that change what is in one directory.
LEMMA ContentInv ==
  ASSUME IInv, NEW d \in Dest, NEW S \in Content, layers' = SetTop(d, S),
         UNCHANGED <<inv, phase, orphans, stale, orphaned>>,
         Mounted' = Mounted, ff' = "runs" => ff = "runs", pc' = "empty" => pc = "empty"
  PROVE  /\ StackInv' /\ MountInv'
         /\ dest' = dest /\ Me' = Me /\ Idle' = Idle
         /\ \A e \in Dest : (Top(e))' = IF e = d THEN S ELSE Top(e)
<1>1. dest' = dest /\ Me' = Me /\ Idle' = Idle
  BY DEF dest, Me, Idle
<1>2. \A e \in Dest : layers[e] \in Stack /\ layers'[e] = IF e = d THEN Append(Front(layers[d]), S) ELSE layers[e]
  BY DEF IInv, StackInv, SetTop
<1>3. \A e \in Dest : /\ layers'[e] \in Stack /\ Len(layers'[e]) = Len(layers[e])
                      /\ Last(layers'[e]) = IF e = d THEN S ELSE Last(layers[e])
  <2> DEFINE t == Append(Front(layers[d]), S)
  <2>1. t \in Stack /\ Len(t) = Len(layers[d]) /\ Last(t) = S
    BY <1>2, PutTop
  <2> HIDE DEF t
  <2>2. \A e \in Dest : layers'[e] = IF e = d THEN t ELSE layers[e]
    BY <1>2 DEF t
  <2> QED BY <1>2, <2>1, <2>2
<1>4. layers' \in [Dest -> Stack]
  BY <1>3 DEF IInv, StackInv, SetTop
<1>5. StackInv'
  BY <1>1, <1>4 DEF IInv, StackInv
<1>6. Mounted => dest \in Dest
  BY DestOk DEF IInv, StackInv, Mounted
<1>7. MountInv'
  BY <1>1, <1>3, <1>6, DestOk DEF IInv, MountInv, StackInv
<1> QED BY <1>1, <1>3, <1>5, <1>7 DEF Top

LEMMA TopOk ==
  ASSUME IInv, NEW d \in Dest
  PROVE  Top(d) \in Content
BY Bottom DEF IInv, StackInv, Top

LEMMA MeOk ==
  ASSUME IInv
  PROVE  Me \in Nat \X Nat
BY DestOk DEF IInv, StackInv

LEMMA MainIInv ==
  ASSUME IInv, Main \/ Timers
  PROVE  StackInv' /\ FilesInv' /\ MountInv'
<1>1. /\ phase \in DOMAIN Phases /\ (~Idle => dest \in Dest)
      /\ Phases[phase].tmpfs => ~Idle /\ dest \in TmpfsDest
      /\ TmpfsDest \subseteq Dest /\ phase \in Nat
  BY DestOk DEF IInv, StackInv
<1>2. CASE Start
  BY <1>2, StillInv DEF Start, Filling
<1>3. CASE FFmpegDone \/ TimerFires \/ GraceOver \/ Stop \/ Join
  BY <1>3, StillInv DEF FFmpegDone, TimerFires, GraceOver, AfterGrace, Stop, Join, Filling
<1>4. CASE Make
  <2>1. /\ pc = "make" /\ counted = {} /\ ff # "runs" /\ ~Mounted
        /\ UNCHANGED <<inv, phase, ff, counted, orphans, stale, orphaned>>
    BY <1>4 DEF Make, IInv, Inv, Quiet, FilesInv, Mounted
  <2>2. dest' = dest /\ Me' = Me /\ Idle' = Idle
    BY <2>1 DEF dest, Me, Idle
  <2>3. CASE Phases[phase].tmpfs /\ pc' = "empty"
    <3>1. layers' = [layers EXCEPT ![dest] = Append(@, {})] /\ dest \in Dest /\ ~Idle
      BY <1>1, <1>4, <2>3 DEF Make
    <3>2. {} \in Content /\ layers[dest] \in Stack
      BY <3>1 DEF IInv, StackInv, Content
    <3>3. Append(layers[dest], {}) \in Stack /\ Len(Append(layers[dest], {})) = Len(layers[dest]) + 1
      BY <3>2, Cover
    <3>4. \A d \in Dest : layers'[d] = IF d = dest THEN Append(layers[d], {}) ELSE layers[d]
      BY <3>1 DEF IInv, StackInv
    <3>5. layers' \in [Dest -> Stack]
      BY <3>1, <3>3 DEF IInv, StackInv
    <3>6. StackInv' /\ FilesInv'
      BY <2>1, <2>2, <2>3, <3>1, <3>5 DEF IInv, StackInv, FilesInv, Filling
    <3>7. \A d \in Dest : Len(layers[d]) \in Nat \ {0}
      BY Bottom DEF IInv, StackInv
    <3>8. Mounted' = TRUE
      BY <2>1, <2>3 DEF Mounted
    <3>9. \A d \in Dest : Len(layers'[d]) = IF d = dest THEN Len(layers[d]) + 1 ELSE Len(layers[d])
      BY <3>3, <3>4, <3>7
    <3>10. \A d \in TmpfsDest : ~orphaned => Len(layers[d]) <= 1 + stale
      BY <1>1, <2>1, <3>7 DEF IInv, MountInv, StackInv
    <3>11. MountInv'
      BY <1>1, <2>1, <2>2, <3>1, <3>7, <3>8, <3>9, <3>10 DEF IInv, StackInv, MountInv
    <3> QED BY <3>6, <3>11
  <2>4. CASE ~(Phases[phase].tmpfs /\ pc' = "empty")
    <3>1. layers' = layers /\ (Phases[phase].tmpfs => pc' = "exit") /\ (pc' = "empty" => ~Idle)
          /\ (pc' \in Filling => Idle)
      BY <1>1, <1>4, <2>4 DEF Make, Filling
    <3>2. ~Mounted'
      BY <2>1, <3>1 DEF Mounted
    <3>3. StackInv' /\ FilesInv'
      BY <2>1, <2>2, <3>1 DEF IInv, StackInv, FilesInv
    <3>4. MountInv'
      BY <2>1, <3>1, <3>2 DEF IInv, MountInv
    <3> QED BY <3>3, <3>4
  <2> QED BY <2>3, <2>4
<1>5. CASE Empty
  <2>1. PICK S \in SUBSET Top(dest) :
          /\ layers' = SetTop(dest, S)
          /\ pc' = "unwind" \/ S = {}
    BY <1>5 DEF Empty, Emptied
  <2>2. ~Idle
    BY <1>5 DEF Empty, IInv, StackInv
  <2>3. S \in Content
    BY <1>1, <2>2, TopOk DEF Content
  <2>4. pc' \in {"start", "unwind"} /\ pc = "empty"
    BY <1>5 DEF Empty
  <2>5. UNCHANGED <<inv, phase, ff, counted, orphans, stale, orphaned>>
    BY <1>5 DEF Empty
  <2>6. Mounted' = Mounted
    BY <2>4, <2>5 DEF Mounted
  <2>7. /\ StackInv' /\ MountInv'
        /\ dest' = dest /\ Me' = Me /\ Idle' = Idle
        /\ (Top(dest))' = S
    BY <1>1, <2>1, <2>2, <2>3, <2>4, <2>5, <2>6, ContentInv DEF Top
  <2> QED BY <2>1, <2>4, <2>5, <2>7 DEF IInv, FilesInv, Filling
<1>6. CASE After
  <2>1. /\ pc = "after" /\ pc' = "unwind" /\ Mounted' = Mounted
        /\ UNCHANGED <<inv, phase, ff, orphans, stale, orphaned>>
    BY <1>6 DEF After, Mounted
  <2>2. CASE UNCHANGED <<counted, layers>>
    BY <1>6, <2>1, <2>2, StillInv DEF Filling, files
  <2>3. CASE ~Idle /\ counted' = Top(dest) /\ \E S \in SUBSET Top(dest) : layers' = SetTop(dest, S)
    <3>1. PICK S \in SUBSET Top(dest) : layers' = SetTop(dest, S)
      BY <2>3
    <3>2. S \in Content
      BY <1>1, <2>3, TopOk DEF Content
    <3>3. StackInv' /\ MountInv' /\ Me' = Me /\ Idle' = Idle
      BY <1>1, <2>1, <2>3, <3>1, <3>2, ContentInv
    <3>4. ~orphaned => Top(dest) \subseteq {Me} /\ orphans = {}
      BY <2>1, <2>3 DEF IInv, FilesInv, Filling
    <3> QED BY <2>1, <2>3, <3>3, <3>4 DEF FilesInv, Filling
  <2> QED BY <1>6, <2>2, <2>3 DEF After
<1>7. CASE Unwind
  <2>1. /\ pc = "unwind" /\ counted' = {} /\ ff # "runs" /\ sampler # "record"
        /\ pc' \in {"make", "exit"}
        /\ UNCHANGED <<inv, ff, orphans, stale, orphaned>>
    BY <1>7 DEF Unwind, IInv, Inv, Quiet
  <2>2. phase' \in DOMAIN Phases
    BY <1>1, <1>7, PhasesType DEF Unwind
  <2>3. ~Mounted'
    BY <2>1 DEF Mounted
  <2>4. FilesInv'
    BY <2>1 DEF IInv, FilesInv, Filling
  <2>5. CASE Unmounts /\ ~Busy(dest)
    <3>1. layers' = [layers EXCEPT ![dest] = Front(@)]
      BY <1>7, <2>5 DEF Unwind
    <3>2. Mounted /\ dest \in TmpfsDest /\ dest \in Dest
      BY <1>1, <2>1, <2>5 DEF Unmounts, Mounted
    <3>3. layers[dest] \in Stack /\ Len(layers[dest]) > 1
      BY <3>2 DEF IInv, StackInv, MountInv
    <3>4. Front(layers[dest]) \in Stack /\ Len(Front(layers[dest])) = Len(layers[dest]) - 1
      BY <3>3, Uncover
    <3>5. \A d \in Dest : layers'[d] = IF d = dest THEN Front(layers[d]) ELSE layers[d]
      BY <3>1 DEF IInv, StackInv
    <3>6. layers' \in [Dest -> Stack]
      BY <3>1, <3>4 DEF IInv, StackInv
    <3>7. StackInv'
      BY <2>1, <2>2, <3>6 DEF IInv, StackInv
    <3>8. \A d \in Dest : Len(layers[d]) \in Nat /\ Len(layers'[d]) \in Nat
      BY <3>6, Bottom DEF IInv, StackInv
    <3>9. MountInv'
      BY <1>1, <2>1, <2>3, <3>2, <3>4, <3>5, <3>8 DEF IInv, MountInv, StackInv
    <3> QED BY <2>4, <3>7, <3>9
  <2>6. CASE ~Unmounts
    <3>1. layers' = layers /\ ~Mounted
      BY <1>7, <2>6 DEF Unwind, Unmounts, Mounted
    <3>2. StackInv' /\ MountInv'
      BY <2>1, <2>2, <2>3, <3>1 DEF IInv, StackInv, MountInv
    <3> QED BY <2>4, <3>2
  <2>7. CASE Unmounts /\ Busy(dest)
    <3>1. layers' = layers /\ orphaned
      BY <1>7, <2>1, <2>7 DEF Unwind, Busy, IInv, FilesInv
    <3>2. StackInv' /\ MountInv'
      BY <2>1, <2>2, <2>3, <3>1 DEF IInv, StackInv, MountInv
    <3> QED BY <2>4, <3>2
  <2> QED BY <2>5, <2>6, <2>7
<1> QED BY <1>2, <1>3, <1>4, <1>5, <1>6, <1>7 DEF Main, Timers

LEMMA OthersIInv ==
  ASSUME IInv,
         \/ Write \/ FFmpegEnds
         \/ \E o \in orphans : OrphanWrites(o) \/ OrphanEnds(o)
         \/ Record \/ SampleTick \/ SampleEnd
         \/ Hit \/ HealthTick \/ HealthEnd
  PROVE  StackInv' /\ FilesInv' /\ MountInv'
<1>1. CASE \/ FFmpegEnds \/ Record \/ SampleTick \/ SampleEnd
           \/ Hit \/ HealthTick \/ HealthEnd
  BY <1>1, StillInv DEF FFmpegEnds, Record, SampleTick, SampleEnd, Hit, HealthTick, HealthEnd
<1>2. CASE Write
  <2>1. /\ ff = "runs" /\ layers' = SetTop(dest, Top(dest) \cup {Me})
        /\ UNCHANGED <<inv, phase, pc, ff, counted, orphans, stale, orphaned>>
    BY <1>2 DEF Write
  <2>2. dest \in Dest /\ ~Idle
    BY <2>1, DestOk DEF IInv, StackInv
  <2>3. Top(dest) \cup {Me} \in Content
    BY <2>2, TopOk, MeOk DEF Content
  <2>4. Mounted' = Mounted
    BY <2>1 DEF Mounted
  <2>5. /\ StackInv' /\ MountInv' /\ dest' = dest /\ Me' = Me /\ Idle' = Idle
        /\ (Top(dest))' = Top(dest) \cup {Me}
    BY <2>1, <2>2, <2>3, <2>4, ContentInv DEF Top
  <2> QED BY <2>1, <2>5 DEF IInv, FilesInv
<1>3. ASSUME NEW o \in orphans, OrphanWrites(o) PROVE StackInv' /\ FilesInv' /\ MountInv'
  <2>1. /\ layers' = SetTop(o[2], Top(o[2]) \cup {o[1]})
        /\ UNCHANGED <<inv, phase, pc, ff, counted, orphans, stale, orphaned>>
    BY <1>3 DEF OrphanWrites
  <2>2. o[2] \in Dest /\ o[1] \in Nat \X Nat /\ orphaned
    BY <1>3 DEF IInv, StackInv, FilesInv
  <2>3. Top(o[2]) \cup {o[1]} \in Content
    BY <2>2, TopOk DEF Content
  <2>4. Mounted' = Mounted
    BY <2>1 DEF Mounted
  <2>5. StackInv' /\ MountInv'
    BY <2>1, <2>2, <2>3, <2>4, ContentInv
  <2> QED BY <2>1, <2>2, <2>5 DEF IInv, FilesInv
<1>4. ASSUME NEW o \in orphans, OrphanEnds(o) PROVE StackInv' /\ FilesInv' /\ MountInv'
  <2>1. /\ orphans' = orphans \ {o}
        /\ UNCHANGED <<inv, phase, pc, ff, counted, layers, stale, orphaned>>
    BY <1>4 DEF OrphanEnds
  <2>2. dest' = dest /\ Me' = Me /\ Idle' = Idle /\ Mounted' = Mounted /\ (Top(dest))' = Top(dest)
    BY <2>1 DEF dest, Me, Idle, Mounted, Top
  <2>3. FilesInv' /\ MountInv'
    BY <2>1, <2>2 DEF IInv, FilesInv, MountInv
  <2>4. StackInv'
    BY <2>1, <2>2 DEF IInv, StackInv
  <2> QED BY <2>3, <2>4
<1> QED BY <1>1, <1>2, <1>3, <1>4

LEMMA SurroundingsIInv ==
  ASSUME IInv, Interrupt \/ PowerLoss \/ Again
  PROVE  StackInv' /\ FilesInv' /\ MountInv'
<1>1. CASE Interrupt
  <2>1. /\ pc' = "exit" /\ ff' = "none" /\ counted' = {} /\ ~Mounted'
        /\ UNCHANGED <<inv, phase, layers>>
        /\ orphans' = IF ff = "runs" THEN orphans \cup {<<Me, dest>>} ELSE orphans
        /\ orphaned' = (orphaned \/ ff = "runs")
        /\ stale' = IF Mounted THEN stale + 1 ELSE stale
    BY <1>1 DEF Interrupt, Gone, Mounted
  <2>2. ff = "runs" => <<Me, dest>> \in (Nat \X Nat) \X Dest
    BY MeOk, DestOk DEF IInv, StackInv
  <2>3. StackInv'
    BY <2>1, <2>2 DEF IInv, StackInv
  <2>4. FilesInv'
    BY <2>1 DEF IInv, FilesInv, Filling
  <2>5. \A d \in TmpfsDest : Len(layers[d]) \in Nat
    BY Bottom, DestOk DEF IInv, StackInv
  <2>6. MountInv'
    BY <2>1, <2>5 DEF IInv, MountInv, StackInv
  <2> QED BY <2>3, <2>4, <2>6
<1>2. CASE PowerLoss
  <2>1. /\ pc' = "exit" /\ ff' = "none" /\ counted' = {} /\ ~Mounted'
        /\ orphans' = {} /\ stale' = 0
        /\ layers' = [d \in Dest |-> <<Head(layers[d])>>]
        /\ UNCHANGED <<inv, phase, orphaned>>
    BY <1>2 DEF PowerLoss, Gone, Mounted
  <2>2. \A d \in Dest : layers'[d] \in Stack /\ Len(layers'[d]) = 1
    BY <2>1, Bottom DEF IInv, StackInv
  <2>3. StackInv'
    BY <2>1, <2>2 DEF IInv, StackInv
  <2>4. FilesInv'
    BY <2>1 DEF IInv, FilesInv, Filling
  <2>5. MountInv'
    BY <2>1, <2>2, DestOk DEF IInv, MountInv, StackInv
  <2> QED BY <2>3, <2>4, <2>5
<1>3. CASE Again
  <2>1. /\ pc = "exit" /\ pc' = "make" /\ ff' = "none" /\ phase' = 1 /\ inv' = inv + 1
        /\ counted' = {} /\ ~Mounted /\ ~Mounted'
        /\ UNCHANGED <<layers, orphans, stale, orphaned>>
    BY <1>3 DEF Again, files, Mounted, IInv, FilesInv
  <2>2. phase' \in DOMAIN Phases
    BY <2>1, PhasesType
  <2>3. StackInv'
    BY <2>1, <2>2 DEF IInv, StackInv
  <2>4. FilesInv'
    BY <2>1 DEF IInv, FilesInv, Filling
  <2>5. MountInv'
    BY <2>1 DEF IInv, MountInv
  <2> QED BY <2>3, <2>4, <2>5
<1> QED BY <1>1, <1>2, <1>3

LEMMA NextIInv == IInv /\ [Next]_vars => IInv'
<1> SUFFICES ASSUME IInv, [Next]_vars PROVE IInv'
  OBVIOUS
<1>1. CASE Next
  BY <1>1, MainInv, OthersInv, SurroundingsInv, MainIInv, OthersIInv, SurroundingsIInv DEF Next, IInv
<1>2. CASE UNCHANGED vars
  <2>1. Inv'
    BY <1>2 DEF vars, IInv, Inv, Idle, dest, sampling, polling
  <2>2. StackInv' /\ FilesInv' /\ MountInv'
    BY <1>2, StillInv DEF vars, Filling
  <2> QED BY <2>1, <2>2 DEF IInv
<1> QED BY <1>1, <1>2

\* What a phase counts it wrote itself, whatever earlier phases and benches
\* left in its directory and however they ended.
THEOREM FilesAreOwnCorrect == Spec => []FilesAreOwn
<1>1. IInv => FilesAreOwn
  BY DEF IInv, FilesInv, FilesAreOwn
<1> QED BY <1>1, InitIInv, NextIInv, PTL DEF Spec

\* A bench that ends by itself, in whichever way, leaves no tmpfs behind.
THEOREM MountsReleasedCorrect == Spec => []MountsReleased
<1>1. IInv => MountsReleased
  <2> SUFFICES ASSUME IInv, pc = "exit", ~orphaned, NEW d \in TmpfsDest
               PROVE  Len(layers[d]) <= 1 + stale
    BY DEF MountsReleased
  <2>1. ~Mounted /\ Len(layers[d]) \in Nat
    BY Bottom, DestOk DEF IInv, StackInv, Mounted
  <2> QED BY <2>1 DEF IInv, MountInv, StackInv
<1> QED BY <1>1, InitIInv, NextIInv, PTL DEF Spec

=============================================================================
