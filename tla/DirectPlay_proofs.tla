------------------------- MODULE DirectPlay_proofs -------------------------
(***************************************************************************)
(* Proofs about the sequential parts of the bench, those that MCDirectPlay *)
(* checks together.  For every buffer, file, read size and delay: what     *)
(* PlayerSim measures is what PlaybackSchedule promises.  For every media  *)
(* and every timing of the reports: what CopyProgress counts and what its  *)
(* pass means.  For counters of any width: MountStats.  For any number of  *)
(* runs that fail anywhere: BenchRun.                                      *)
(***************************************************************************)
EXTENDS PlayerSim, CopyProgress, MountStats, BenchRun, FiniteSetTheorems, SequenceTheorems, TLAPS

-----------------------------------------------------------------------------
(* PlayerSim: the books of the buffer *)

\* Before playback nothing is drained; from then on what was played is what
\* was due less what was late, and the buffer holds the rest.
Books ==
  IF playing
    THEN playStart <= last /\ level + last = playStart + total + stallDur
    ELSE level = total /\ level < Cap /\ stallDur = 0 /\ playStart = 0

\* A stall is counted exactly when it is added up.
Counted == stallN = 0 <=> stallDur = 0

Inv == PlayerTypeOK /\ Books /\ Counted

LEMMA InitInv == PlayerInit => Inv
<1> SUFFICES ASSUME PlayerInit PROVE Inv
  OBVIOUS
<1>1. ~playing /\ playing \in BOOLEAN /\ error \in BOOLEAN
  BY DEF PlayerInit
<1>2. pc = "open" /\ last = 0 /\ level = 0 /\ playStart = 0 /\ total = 0 /\ stallN = 0 /\ stallDur = 0
  BY DEF PlayerInit
<1>3. PlayerTypeOK
  BY <1>1, <1>2, PlayerAssumption DEF PlayerTypeOK
<1>4. Books /\ Counted
  BY <1>1, <1>2, PlayerAssumption DEF Books, Counted
<1> QED
  BY <1>3, <1>4 DEF Inv

\* drain: dt passes and the books stay balanced but for what was read since.
LEMMA DrainStep ==
  ASSUME Inv, NEW dt \in 0 .. MaxDelay, Drain(dt)
  PROVE  /\ last' \in Nat /\ last' = last + dt
         /\ stallN' \in Nat /\ stallDur' \in Nat
         /\ stallN' = 0 <=> stallDur' = 0
         /\ Drained(dt) \in Nat
         /\ Drained(dt) <= level
         /\ playing => Drained(dt) + last' = playStart + total + stallDur'
         /\ ~playing => Drained(dt) = level /\ stallDur' = stallDur
         /\ stallDur' = Schedule!Late(last + dt)
<1> dt \in Nat
  BY PlayerAssumption
<1>1. CASE ~playing
  BY <1>1 DEF Inv, PlayerTypeOK, Counted, Drain, Drained, Missed, StallsAfter, Schedule!Late
<1>2. CASE playing /\ level < dt
  BY <1>2 DEF Inv, PlayerTypeOK, Books, Counted, Drain, Drained, Missed, StallsAfter, Schedule!Late
<1>3. CASE playing /\ ~(level < dt)
  BY <1>3 DEF Inv, PlayerTypeOK, Books, Counted, Drain, Drained, Missed, StallsAfter, Schedule!Late
<1> QED
  BY <1>1, <1>2, <1>3

LEMMA ReadFacts ==
  ASSUME Inv, NEW k \in 1 .. ToRead
  PROVE  /\ k \in 1 .. Buf
         /\ playing /\ ~Full => level + k <= Cap
BY PlayerAssumption DEF Inv, PlayerTypeOK, ToRead, Full

\* Every step keeps the books.
LEMMA NextInv == Inv /\ [PlayerNext]_playerVars => Inv'
<1> SUFFICES ASSUME Inv, [PlayerNext]_playerVars PROVE Inv'
  OBVIOUS
<1> USE PlayerAssumption
<1>1. CASE Open
  BY <1>1 DEF Open, Inv, PlayerTypeOK, Books, Counted
<1>2. ASSUME NEW dt \in 0 .. MaxDelay, Finish(dt) PROVE Inv'
  <2>1. Drain(dt)
    BY <1>2 DEF Finish
  <2> QED
    BY <1>2, <2>1, DrainStep DEF Finish, Inv, PlayerTypeOK, Books, Counted
<1>3. ASSUME NEW dt \in 0 .. MaxDelay, Pause(dt) PROVE Inv'
  <2>1. Drain(dt)
    BY <1>3 DEF Pause
  <2> QED
    BY <1>3, <2>1, DrainStep DEF Pause, Inv, PlayerTypeOK, Books, Counted
<1>4. ASSUME NEW dt \in 0 .. MaxDelay, ReadEnds(dt) PROVE Inv'
  <2>1. Drain(dt) /\ level' = Drained(dt) /\ pc' = "done" /\ UNCHANGED <<playing, playStart, total>>
    BY <1>4 DEF ReadEnds
  <2>2. error' \in BOOLEAN
    BY <1>4 DEF ReadEnds, Inv, PlayerTypeOK
  <2> QED
    BY <2>1, <2>2, DrainStep DEF Inv, PlayerTypeOK, Books, Counted
<1>5. ASSUME NEW dt \in 0 .. MaxDelay, NEW k \in 1 .. Buf, Read(dt, k) PROVE Inv'
  <2>1. Drain(dt) /\ k \in Nat \ {0} /\ total + k <= Size
    BY <1>5 DEF Read
  <2>2. PlayerTypeOK'
    BY <1>5, <2>1, DrainStep DEF Read, Inv, PlayerTypeOK
  <2>3. Books'
    <3>1. CASE playing
      <4>1. playing' /\ playStart' = playStart
        BY <1>5, <3>1 DEF Read, Begins
      <4> QED
        BY <1>5, <2>1, <3>1, <4>1, DrainStep DEF Read, Inv, PlayerTypeOK, Books
    <3>2. CASE ~playing /\ Begins(k)
      <4>1. playing' /\ playStart' = last' /\ level' = level + k
        BY <1>5, <2>1, <3>2, DrainStep DEF Read
      <4>2. stallDur' = 0 /\ level = total
        BY <2>1, <3>2, DrainStep DEF Inv, Books
      <4> QED
        BY <1>5, <2>1, <4>1, <4>2, DrainStep DEF Read, Inv, PlayerTypeOK, Books
    <3>3. CASE ~playing /\ ~Begins(k)
      <4>1. ~playing' /\ playStart' = playStart /\ level' = level + k
        BY <1>5, <2>1, <3>3, DrainStep DEF Read
      <4> QED
        BY <1>5, <2>1, <3>3, <4>1, DrainStep DEF Read, Begins, Inv, PlayerTypeOK, Books
    <3> QED
      BY <3>1, <3>2, <3>3
  <2>4. Counted'
    BY <2>1, DrainStep DEF Counted
  <2> QED
    BY <2>2, <2>3, <2>4 DEF Inv
<1>6. CASE UNCHANGED playerVars
  BY <1>6 DEF playerVars, Inv, PlayerTypeOK, Books, Counted
<1> QED
  BY <1>1, <1>2, <1>3, <1>4, <1>5, <1>6 DEF PlayerNext

THEOREM AlwaysInv == PlayerSpec => []Inv
BY InitInv, NextInv, PTL DEF PlayerSpec

\* The variables of runPlayerSim have their types, and it never reads more
\* than the file has.
THEOREM TypeCorrect == PlayerSpec => []PlayerTypeOK
<1>1. Inv => PlayerTypeOK
  BY DEF Inv
<1> QED
  BY AlwaysInv, <1>1, PTL

\* A phase that passes was fed in time up to its end.
THEOREM SmoothCorrect == PlayerSpec => []PassMeansSmooth
<1>1. Inv => PassMeansSmooth
  BY DEF Inv, PlayerTypeOK, Books, Counted, PlayerPass, PassMeansSmooth
<1> QED
  BY AlwaysInv, <1>1, PTL

\* While it plays, no read takes the buffer over its capacity.
THEOREM NeverOverfilledCorrect == PlayerSpec => NeverOverfilled
<1>1. Inv /\ [PlayerNext]_playerVars => [playing /\ level' > level => level' <= Cap]_playerVars
  <2> SUFFICES ASSUME Inv, PlayerNext, playing, level' > level PROVE level' <= Cap
    BY DEF playerVars
  <2>1. CASE Open
    BY <2>1 DEF Open, Inv, PlayerTypeOK
  <2>2. ASSUME NEW dt \in 0 .. MaxDelay, Finish(dt) \/ Pause(dt) \/ ReadEnds(dt) PROVE FALSE
    <3>1. Drain(dt) /\ level' = Drained(dt)
      BY <2>2 DEF Finish, Pause, ReadEnds
    <3> QED
      BY <3>1, DrainStep DEF Inv, PlayerTypeOK
  <2>3. ASSUME NEW dt \in 0 .. MaxDelay, NEW k \in 1 .. Buf, Read(dt, k) PROVE level' <= Cap
    <3>1. Drain(dt) /\ k \in 1 .. ToRead /\ ~Full /\ level' = Drained(dt) + k
      BY <2>3 DEF Read
    <3>2. level + k <= Cap
      BY <3>1, ReadFacts
    <3> QED
      BY <3>1, <3>2, DrainStep, PlayerAssumption DEF Inv, PlayerTypeOK
  <2> QED
    BY <2>1, <2>2, <2>3 DEF PlayerNext
<1> QED
  BY AlwaysInv, <1>1, PTL DEF PlayerSpec, NeverOverfilled

\* runPlayerSim implements the schedule: every turn of its loop is a Wait or
\* an Arrive of it, with the same time, data and lateness.
THEOREM Refinement == PlayerSpec => ImplementsSchedule
<1> USE PlayerAssumption
<1>1. PlayerInit => Schedule!Init
  BY DEF PlayerInit, Schedule!Init
<1>2. Inv /\ [PlayerNext]_playerVars => [Schedule!Next]_Schedule!vars
  <2> SUFFICES ASSUME Inv, PlayerNext PROVE Schedule!Next \/ UNCHANGED Schedule!vars
    BY DEF playerVars, Schedule!vars
  <2>1. CASE Open
    BY <2>1 DEF Open, Schedule!vars
  <2>2. ASSUME NEW dt \in 0 .. MaxDelay, Finish(dt) \/ Pause(dt) \/ ReadEnds(dt)
        PROVE  Schedule!Wait(dt)
    <3>1. Drain(dt) /\ UNCHANGED <<total, playing, playStart>>
      BY <2>2 DEF Finish, Pause, ReadEnds
    <3> QED
      BY <3>1, DrainStep DEF Schedule!Wait, Schedule!Elapse
  <2>3. ASSUME NEW dt \in 0 .. MaxDelay, NEW k \in 1 .. Buf, Read(dt, k)
        PROVE  Schedule!Arrive(dt, k)
    <3>1. Drain(dt) /\ total' = total + k
      BY <2>3 DEF Read
    <3>2. Schedule!Elapse(dt)
      BY <3>1, DrainStep DEF Schedule!Elapse
    <3>3. ~playing => level = total
      BY DEF Inv, Books
    <3> QED
      BY <2>3, <3>1, <3>2, <3>3 DEF Read, Begins, Inv, PlayerTypeOK, Schedule!Arrive
  <2> QED
    BY <2>1, <2>2, <2>3 DEF PlayerNext, Schedule!Next
<1> QED
  BY <1>1, <1>2, AlwaysInv, PTL DEF PlayerSpec, ImplementsSchedule, Schedule!Spec

-----------------------------------------------------------------------------
(* CopyProgress: the runs of slow reports *)

CopyTypeOK ==
  /\ paced \in BOOLEAN /\ clock \in Nat /\ media \in 0 .. Media
  /\ slowRun \in Nat /\ slowN \in Nat
  /\ reports \in Seq(BOOLEAN)

\* slowRun is the length of the run of slow reports that the last one ends.
TrailInv ==
  /\ slowRun <= Len(reports)
  /\ \A i \in Len(reports) - slowRun + 1 .. Len(reports) : reports[i] = TRUE
  /\ slowRun < Len(reports) => reports[Len(reports) - slowRun] = FALSE

CopyInv == CopyTypeOK /\ TrailInv /\ IsFiniteSet(Stalls) /\ StallsCounted

\* One more report makes a stall when it is slow and two before it are, but
\* not three.
LEMMA OneReport ==
  ASSUME CopyInv, NEW slow \in BOOLEAN, reports' = Append(reports, slow),
         slowRun' = IF slow THEN slowRun + 1 ELSE 0,
         slowN' = IF slow /\ slowRun + 1 = 3 THEN slowN + 1 ELSE slowN
  PROVE  /\ reports' \in Seq(BOOLEAN) /\ slowRun' \in Nat /\ slowN' \in Nat
         /\ TrailInv' /\ IsFiniteSet(Stalls)' /\ StallsCounted'
<1> DEFINE L == Len(reports)
<1>1. /\ L \in Nat /\ DOMAIN reports = 1 .. L /\ slowRun \in Nat /\ slowN \in Nat
      /\ reports' \in Seq(BOOLEAN) /\ Len(reports') = L + 1 /\ reports'[L + 1] = slow
      /\ \A i \in 1 .. L : reports'[i] = reports[i]
  BY AppendProperties DEF CopyInv, CopyTypeOK
<1>2. /\ slowRun <= L
      /\ \A i \in L - slowRun + 1 .. L : reports[i] = TRUE
      /\ slowRun < L => reports[L - slowRun] = FALSE
  BY DEF CopyInv, TrailInv
<1>3. TrailInv'
  <2>1. CASE slow
    BY <1>1, <1>2, <2>1 DEF TrailInv
  <2>2. CASE ~slow
    BY <1>1, <1>2, <2>2 DEF TrailInv
  <2> QED BY <2>1, <2>2
<1> DEFINE Ends3 == slow /\ slowRun = 2
           Third(r, i) == r[i] /\ r[i - 1] /\ r[i - 2] /\ (i > 3 => ~r[i - 3])
<1>4. \A i \in 3 .. L : Third(reports', i) <=> Third(reports, i)
  BY <1>1
<1>5. L + 1 >= 3 => (Third(reports', L + 1) <=> Ends3)
  <2> SUFFICES ASSUME L >= 2 PROVE Third(reports', L + 1) <=> Ends3
    <3> HIDE DEF Third, Ends3
    <3> QED BY <1>1
  <2>0. Third(reports', L + 1) <=> slow /\ reports[L] /\ reports[L - 1] /\ (L > 2 => ~reports[L - 2])
    <3>1. (L + 1) - 1 = L /\ (L + 1) - 2 = L - 1 /\ (L + 1) - 3 = L - 2 /\ (L + 1 > 3 <=> L > 2)
      BY <1>1
    <3>2. /\ reports'[L] = reports[L] /\ reports'[L - 1] = reports[L - 1]
          /\ L > 2 => reports'[L - 2] = reports[L - 2]
      <4>1. L \in 1 .. L /\ L - 1 \in 1 .. L /\ (L > 2 => L - 2 \in 1 .. L)
        BY <1>1
      <4> HIDE DEF L
      <4> QED BY <1>1, <4>1
    <3> HIDE DEF L
    <3> QED BY <1>1, <3>1, <3>2
  <2>a. /\ slowRun >= 1 => reports[L] = TRUE
        /\ slowRun >= 2 => reports[L - 1] = TRUE
        /\ slowRun >= 3 => reports[L - 2] = TRUE /\ L > 2
        /\ slowRun = 0 => reports[L] = FALSE
        /\ slowRun = 1 => reports[L - 1] = FALSE
        /\ slowRun = 2 /\ L > 2 => reports[L - 2] = FALSE
    BY <1>1, <1>2
  <2> HIDE DEF L, Third
  <2>1. CASE slowRun = 0
    BY <2>0, <2>1, <2>a
  <2>2. CASE slowRun = 1
    BY <2>0, <2>2, <2>a
  <2>3. CASE slowRun = 2
    BY <2>0, <2>3, <2>a
  <2>4. CASE slowRun > 2
    BY <1>1, <2>0, <2>4, <2>a
  <2> QED BY <1>1, <2>1, <2>2, <2>3, <2>4
<1>6. Ends3 => L + 1 >= 3
  BY <1>1, <1>2
<1>7. Stalls = {i \in 3 .. L : Third(reports, i)}
  BY DEF Stalls
<1>8. Stalls' = {i \in 3 .. L + 1 : Third(reports', i)}
  BY <1>1 DEF Stalls
<1>9. Stalls' = IF Ends3 THEN Stalls \cup {L + 1} ELSE Stalls
  <2> HIDE DEF Third, Ends3
  <2> QED BY <1>1, <1>4, <1>5, <1>6, <1>7, <1>8
<1>10. L + 1 \notin Stalls /\ IsFiniteSet(Stalls) /\ slowN = Cardinality(Stalls)
  BY <1>1, <1>7 DEF CopyInv, StallsCounted
<1>11. slowN' = IF Ends3 THEN slowN + 1 ELSE slowN
  BY <1>1
<1>12. IsFiniteSet(Stalls') /\ Cardinality(Stalls') = IF Ends3 THEN slowN + 1 ELSE slowN
  <2> HIDE DEF Ends3
  <2> QED BY <1>1, <1>9, <1>10, FS_AddElement
<1>13. IsFiniteSet(Stalls)' /\ StallsCounted' /\ slowN' \in Nat
  BY <1>1, <1>11, <1>12 DEF StallsCounted
<1> QED BY <1>1, <1>3, <1>13

LEMMA ReportInv ==
  ASSUME CopyInv, NEW m \in 0 .. Media, media <= m, NEW t, media' = m, UNCHANGED paced, clock' \in Nat,
         ProgressReport(m, t) \/ ReportMissed
  PROVE  CopyInv'
<1>0. Media \in Nat
  BY CopyAssumption DEF Media
<1>1. CASE ReportMissed
  BY <1>0, <1>1 DEF ReportMissed, CopyInv, CopyTypeOK, TrailInv, StallsCounted, Stalls
<1>2. CASE ProgressReport(m, t)
  <2> DEFINE slow == paced /\ Slow(m, t)
  <2>1. /\ slow \in BOOLEAN /\ reports' = Append(reports, slow)
        /\ slowRun' = IF slow THEN slowRun + 1 ELSE 0
        /\ slowN' = IF slow /\ slowRun + 1 = 3 THEN slowN + 1 ELSE slowN
    BY <1>2 DEF ProgressReport, SlowRun, SlowN, CopyInv, CopyTypeOK, Slow
  <2> HIDE DEF slow
  <2>2. /\ reports' \in Seq(BOOLEAN) /\ slowRun' \in Nat /\ slowN' \in Nat
        /\ TrailInv' /\ IsFiniteSet(Stalls)' /\ StallsCounted'
    BY <2>1, OneReport
  <2> QED BY <2>2 DEF CopyInv, CopyTypeOK
<1> QED BY <1>1, <1>2

\* The counter, the run of slow reports and the history agree.
LEMMA CopyInvCorrect == CopySpec => []CopyInv
<1>0. Media \in Nat
  BY CopyAssumption DEF Media
<1>1. ASSUME CopyInit
      PROVE  CopyInv
  <2>1. CopyTypeOK
    BY <1>0, <1>1, CopyAssumption DEF CopyInit, CopyTypeOK
  <2>2. TrailInv /\ Stalls = {}
    BY <1>1 DEF CopyInit, TrailInv, Stalls
  <2> QED BY <1>1, <2>1, <2>2, FS_EmptySet DEF CopyInit, CopyInv, StallsCounted
<1>2. CopyInv /\ [CopyNext]_copyVars => CopyInv'
  <2> SUFFICES ASSUME CopyInv, [CopyNext]_copyVars PROVE CopyInv'
    OBVIOUS
  <2>0. media \in 0 .. Media /\ clock \in Nat
    BY DEF CopyInv, CopyTypeOK
  <2>1. CASE Tick
    <3>1. PICK m \in Reachable(clock + 1) :
            media' = m /\ (ProgressReport(m, clock + 1) \/ ReportMissed)
      BY <2>1 DEF Tick
    <3>2. m \in 0 .. Media /\ media <= m
      BY <1>0, <2>0 DEF Reachable
    <3> QED BY <2>0, <2>1, <3>1, <3>2, ReportInv DEF Tick
  <2>2. CASE End \/ Fail
    <3>1. media <= media
      BY <1>0, <2>0
    <3> QED BY <2>0, <2>2, <3>1, ReportInv DEF End, Fail
  <2>3. CASE UNCHANGED copyVars
    BY <2>3 DEF copyVars, CopyInv, CopyTypeOK, TrailInv, StallsCounted, Stalls
  <2> QED BY <2>1, <2>2, <2>3 DEF CopyNext
<1> QED BY <1>1, <1>2, PTL DEF CopySpec

\* StallsCounted: runFFmpegCopy counts every run of three or more slow
\* reports once, however fast, slow and missed reports alternate.
THEOREM StallsCountedCorrect == CopySpec => []StallsCounted
<1>1. CopyInv => StallsCounted
  BY DEF CopyInv
<1> QED BY <1>1, CopyInvCorrect, PTL

-----------------------------------------------------------------------------
(* MountStats: the counter of the share and the traffic since nfs0 *)

Counts == 0 .. CounterSize - 1

\* Counters that wrap, of traffic that does not go round.
LEMMA Wrap ==
  ASSUME NEW b \in Counts, NEW t \in Counts
  PROVE  /\ t % CounterSize = t
         /\ (b + t) % CounterSize \in Counts
         /\ (((b + t) % CounterSize) + CounterSize - b) % CounterSize = t
         /\ (((b + t) % CounterSize) + 1) % CounterSize = (b + (t + 1)) % CounterSize
<1> DEFINE N == CounterSize
<1>0. N \in Nat \ {0} /\ b \in Nat /\ t \in Nat /\ b < N /\ t < N /\ Counts = 0 .. N - 1
  BY CounterAssumption DEF Counts
<1> HIDE DEF N
<1>1. \A x \in 0 .. N - 1 : x % N = x
  BY <1>0
<1>2. \A x \in N .. 2 * N - 1 : x % N = x - N
  BY <1>0
<1>3. /\ t % N = t /\ (b + t) % N \in Counts
      /\ (((b + t) % N) + N - b) % N = t
      /\ (((b + t) % N) + 1) % N = (b + (t + 1)) % N
  <2>1. CASE b + t < N - 1
    <3>1. (b + t) % N = b + t
      BY <1>0, <1>1, <2>1
    <3>2. t + N \in N .. 2 * N - 1 /\ (b + t) + N - b = t + N /\ (b + t) + 1 = b + (t + 1)
      BY <1>0, <2>1
    <3> QED BY <1>0, <1>1, <1>2, <2>1, <3>1, <3>2
  <2>2. CASE b + t = N - 1
    <3>1. (b + t) % N = b + t
      BY <1>0, <1>1, <2>2
    <3>2. t + N \in N .. 2 * N - 1 /\ (b + t) + N - b = t + N /\ (b + t) + 1 = b + (t + 1)
      BY <1>0, <2>2
    <3> QED BY <1>0, <1>1, <1>2, <2>2, <3>1, <3>2
  <2>3. CASE b + t >= N
    <3>1. (b + t) % N = b + t - N
      BY <1>0, <1>2, <2>3
    <3>2. (b + t - N) + N - b = t /\ (b + t - N) + 1 = b + (t + 1) - N
      BY <1>0
    <3>3. b + (t + 1) \in N .. 2 * N - 1 /\ (b + (t + 1)) % N = b + (t + 1) - N
      BY <1>0, <1>2, <2>3
    <3>4. b + (t + 1) - N \in 0 .. N - 1 /\ b + t - N \in 0 .. N - 1
      BY <1>0, <2>3
    <3> QED BY <1>0, <1>1, <3>1, <3>2, <3>3, <3>4
  <2> QED BY <1>0, <2>1, <2>2, <2>3
<1> QED BY <1>3 DEF N

\* Where a phase is, by what it has still to do.
Reading ==
  IF holds THEN ops = <<"nfs1", "close">>
           ELSE ops \in {<<"open", "close", "nfs1">>, <<"close", "nfs1">>, <<"nfs1">>}
Over == IF holds THEN ops \in {<<"close">>, <<>>} ELSE ops = <<>>
Before == ops = PhaseOps(holds) \/ (holds /\ ops = <<"nfs0", "nfs1", "close">>)

StatTypeOK ==
  /\ holds \in BOOLEAN /\ inputOpen \in BOOLEAN /\ unmounts \in BOOLEAN
  /\ share = <<>> \/ \E c \in Counts : share = <<c>>
  /\ before \in [found : BOOLEAN, read : Counts]
  /\ before.found \/ before.read = 0
  /\ traffic \in 0 .. MaxTraffic
  /\ Before \/ Reading \/ Over
  /\ ~Over => delta = <<>>

\* A phase that holds its file open keeps the share mounted.
MountInv ==
  /\ inputOpen => share # <<>>
  /\ holds /\ ops \in {<<"nfs0", "nfs1", "close">>, <<"nfs1", "close">>, <<"close">>} => inputOpen

\* The counter has moved by the traffic since nfs0.
CountInv ==
  Reading /\ (holds \/ ~unmounts) =>
    /\ \/ share = <<(before.read + traffic) % CounterSize>>
       \/ share = <<>> /\ traffic = 0 /\ ~before.found
    /\ holds => before.found

StatInv == StatTypeOK /\ MountInv /\ CountInv /\ DeltaIsTraffic

\* The operations of a phase follow each other, and it does one thing at a time.
LEMMA Ops ==
  ASSUME StatTypeOK, NEW op, Does(op)
  PROVE  /\ op = "open" =>
              \/ holds /\ Before /\ ops' = <<"nfs0", "nfs1", "close">>
              \/ ~holds /\ Reading /\ ops' = <<"close", "nfs1">>
         /\ op = "nfs0" =>
              \/ holds /\ ops = <<"nfs0", "nfs1", "close">> /\ ops' = <<"nfs1", "close">>
              \/ ~holds /\ Before /\ ops' = <<"open", "close", "nfs1">>
         /\ op = "nfs1" =>
              \/ holds /\ ops = <<"nfs1", "close">> /\ ops' = <<"close">>
              \/ ~holds /\ ops = <<"nfs1">> /\ ops' = <<>>
         /\ op = "close" =>
              \/ holds /\ ops = <<"close">> /\ ops' = <<>>
              \/ ~holds /\ ops = <<"close", "nfs1">> /\ ops' = <<"nfs1">>
<1>0. holds \in BOOLEAN /\ ops # <<>> /\ Head(ops) = op /\ ops' = Tail(ops)
  BY DEF Does, StatTypeOK
<1>1. CASE holds
  <2>1. \/ ops = <<"open", "nfs0", "nfs1", "close">> /\ Before
        \/ ops = <<"nfs0", "nfs1", "close">>
        \/ ops = <<"nfs1", "close">>
        \/ ops = <<"close">>
    BY <1>0, <1>1 DEF StatTypeOK, Before, Reading, Over, PhaseOps
  <2>2. CASE ops = <<"open", "nfs0", "nfs1", "close">> /\ Before
    <3>1. op = "open" /\ ops' = <<"nfs0", "nfs1", "close">>
      BY <1>0, <2>2
    <3> QED BY <1>1, <2>2, <3>1
  <2>3. CASE ops = <<"nfs0", "nfs1", "close">>
    <3>1. op = "nfs0" /\ ops' = <<"nfs1", "close">>
      BY <1>0, <2>3
    <3> QED BY <1>1, <2>3, <3>1
  <2>4. CASE ops = <<"nfs1", "close">>
    <3>1. op = "nfs1" /\ ops' = <<"close">>
      BY <1>0, <2>4
    <3> QED BY <1>1, <2>4, <3>1
  <2>5. CASE ops = <<"close">>
    <3>1. op = "close" /\ ops' = <<>>
      BY <1>0, <2>5
    <3> QED BY <1>1, <2>5, <3>1
  <2> QED BY <2>1, <2>2, <2>3, <2>4, <2>5
<1>2. CASE ~holds
  <2>1. \/ ops = <<"nfs0", "open", "close", "nfs1">> /\ Before
        \/ ops = <<"open", "close", "nfs1">> /\ Reading
        \/ ops = <<"close", "nfs1">>
        \/ ops = <<"nfs1">>
    BY <1>0, <1>2 DEF StatTypeOK, Before, Reading, Over, PhaseOps
  <2>2. CASE ops = <<"nfs0", "open", "close", "nfs1">> /\ Before
    <3>1. op = "nfs0" /\ ops' = <<"open", "close", "nfs1">>
      BY <1>0, <2>2
    <3> QED BY <1>2, <2>2, <3>1
  <2>3. CASE ops = <<"open", "close", "nfs1">> /\ Reading
    <3>1. op = "open" /\ ops' = <<"close", "nfs1">>
      BY <1>0, <2>3
    <3> QED BY <1>2, <2>3, <3>1
  <2>4. CASE ops = <<"close", "nfs1">>
    <3>1. op = "close" /\ ops' = <<"nfs1">>
      BY <1>0, <2>4
    <3> QED BY <1>2, <2>4, <3>1
  <2>5. CASE ops = <<"nfs1">>
    <3>1. op = "nfs1" /\ ops' = <<>>
      BY <1>0, <2>5
    <3> QED BY <1>2, <2>5, <3>1
  <2> QED BY <2>1, <2>2, <2>3, <2>4, <2>5
<1> QED BY <1>0, <1>1, <1>2

\* A phase is in one of these parts at a time.
LEMMA PartsOfAPhase ==
  ASSUME holds \in BOOLEAN
  PROVE  /\ ~(Before /\ Reading) /\ ~(Before /\ Over) /\ ~(Reading /\ Over)
         /\ Before => ops \notin {<<"nfs1", "close">>, <<"close">>}
         /\ Before /\ ~holds => ops # <<"nfs0", "nfs1", "close">>
<1>1. CASE holds
  BY <1>1 DEF Before, Reading, Over, PhaseOps
<1>2. CASE ~holds
  BY <1>2 DEF Before, Reading, Over, PhaseOps
<1> QED BY <1>1, <1>2

LEMMA OpenInputInv == ASSUME StatInv, OpenInput PROVE StatInv'
<1>1. /\ \/ holds /\ Before /\ ops' = <<"nfs0", "nfs1", "close">>
         \/ ~holds /\ Reading /\ ops' = <<"close", "nfs1">>
      /\ UNCHANGED <<before, delta, holds, traffic, unmounts>> /\ inputOpen' = TRUE
      /\ share' = IF share = <<>> THEN <<0>> ELSE share
  BY Ops DEF StatInv, OpenInput, history
<1>2. /\ ~Over /\ delta = <<>> /\ delta' = <<>>
      /\ holds => Before' /\ ~Reading' /\ ~Over'
      /\ ~holds => Reading /\ Reading' /\ ~Over'
  <2>1. holds \in BOOLEAN /\ ~Over /\ delta = <<>> /\ delta' = <<>>
    BY <1>1, PartsOfAPhase DEF StatInv, StatTypeOK
  <2>2. ASSUME holds PROVE Before' /\ ~Reading' /\ ~Over'
    <3>1. holds' /\ ops' = <<"nfs0", "nfs1", "close">>
      BY <1>1, <2>2
    <3>2. Before'
      BY <3>1 DEF Before
    <3>3. ~Reading'
      BY <3>1 DEF Reading
    <3>4. ~Over'
      BY <3>1 DEF Over
    <3> QED BY <3>2, <3>3, <3>4
  <2>3. ASSUME ~holds PROVE Reading /\ Reading' /\ ~Over'
    BY <1>1, <2>3 DEF Reading, Over
  <2> QED BY <2>1, <2>2, <2>3
<1>3. 0 \in Counts /\ 0 % CounterSize = 0 /\ share' # <<>>
      /\ (share' = <<>> \/ \E c \in Counts : share' = <<c>>)
  BY <1>1, CounterAssumption DEF StatInv, StatTypeOK, Counts
<1>4. StatTypeOK' /\ MountInv'
  BY <1>1, <1>2, <1>3 DEF StatInv, StatTypeOK, MountInv
<1>5. CountInv'
  <2> SUFFICES ASSUME ~holds, ~unmounts
               PROVE  share' = <<(before.read + traffic) % CounterSize>>
    BY <1>1, <1>2 DEF CountInv
  <2>1. CASE share = <<>>
    <3>1. share' = <<0>> /\ traffic = 0 /\ ~before.found
      BY <1>1, <1>2, <2>1 DEF StatInv, CountInv
    <3> QED BY <1>3, <3>1 DEF StatInv, StatTypeOK
  <2>2. CASE share # <<>>
    BY <1>1, <1>2, <2>2 DEF StatInv, CountInv
  <2> QED BY <2>1, <2>2
<1>6. DeltaIsTraffic'
  BY <1>2 DEF DeltaIsTraffic
<1> QED BY <1>4, <1>5, <1>6 DEF StatInv

LEMMA CloseInputInv == ASSUME StatInv, CloseInput PROVE StatInv'
<1>1. /\ \/ holds /\ ops = <<"close">> /\ ops' = <<>>
         \/ ~holds /\ ops = <<"close", "nfs1">> /\ ops' = <<"nfs1">>
      /\ UNCHANGED <<before, delta, holds, traffic, unmounts, share>> /\ inputOpen' = FALSE
  BY Ops DEF StatInv, CloseInput, history
<1>2. (holds => Over /\ Over' /\ ~Reading') /\ (~holds => Reading' /\ Reading /\ ~Over /\ ~Over')
  BY <1>1 DEF Over, Reading
<1>3. StatTypeOK' /\ MountInv'
  <2>1. holds => ops' = <<>>
    BY <1>1
  <2>2. ~holds => ops' = <<"nfs1">>
    BY <1>1
  <2>3. MountInv'
    BY <1>1, <2>1 DEF MountInv
  <2>4. Before' \/ Reading' \/ Over'
    BY <1>2 DEF StatInv, StatTypeOK
  <2> QED BY <1>1, <1>2, <2>3, <2>4 DEF StatInv, StatTypeOK
<1>4. CountInv'
  BY <1>1, <1>2 DEF StatInv, CountInv
<1>5. DeltaIsTraffic'
  BY <1>1 DEF StatInv, DeltaIsTraffic
<1> QED BY <1>3, <1>4, <1>5 DEF StatInv

\* nfs0: the counter starts at what it shows, or the share is not there.
LEMMA Snap0Inv == ASSUME StatInv, Snap0 PROVE StatInv'
<1>1. /\ \/ holds /\ ops = <<"nfs0", "nfs1", "close">> /\ ops' = <<"nfs1", "close">>
         \/ ~holds /\ Before /\ ops' = <<"open", "close", "nfs1">>
      /\ UNCHANGED <<inputOpen, share, delta, holds>> /\ before' = Snap /\ traffic' = 0 /\ unmounts' = FALSE
  BY Ops DEF StatInv, Snap0
<1>2. ~Over /\ ~Over' /\ Reading'
  <2>1. ~Over' /\ Reading'
    BY <1>1 DEF Over, Reading
  <2>2. holds => Before
    BY <1>1 DEF Before
  <2> QED BY <1>1, <2>1, <2>2, PartsOfAPhase DEF StatInv, StatTypeOK
<1>3. 0 \in Counts /\ 0 \in 0 .. MaxTraffic
  BY CounterAssumption DEF Counts
<1>4. /\ Snap \in [found : BOOLEAN, read : Counts] /\ (Snap.found \/ Snap.read = 0)
      /\ share = <<>> => ~Snap.found
      /\ share # <<>> => Snap.found /\ share = <<Snap.read>> /\ Snap.read \in Counts
  <2>1. CASE share = <<>>
    BY <1>3, <2>1 DEF Snap
  <2>2. CASE share # <<>>
    <3>1. PICK c \in Counts : share = <<c>>
      BY <2>2 DEF StatInv, StatTypeOK
    <3> QED BY <2>2, <3>1 DEF Snap
  <2> QED BY <2>1, <2>2
<1>5. StatTypeOK'
  BY <1>1, <1>2, <1>3, <1>4 DEF StatInv, StatTypeOK
<1>6. MountInv'
  BY <1>1 DEF StatInv, MountInv
<1>7. CountInv'
  <2>1. CASE share = <<>>
    <3>1. ~holds
      BY <1>1, <2>1 DEF StatInv, MountInv
    <3> QED BY <1>1, <1>4, <2>1, <3>1 DEF CountInv
  <2>2. CASE share # <<>>
    <3>1. Snap.read \in Nat /\ Snap.read % CounterSize = Snap.read
      BY <1>4, <2>2, Wrap, CounterAssumption DEF Counts
    <3>2. (Snap.read + 0) % CounterSize = Snap.read
      BY <3>1
    <3> QED BY <1>1, <1>4, <2>2, <3>2 DEF CountInv
  <2> QED BY <2>1, <2>2
<1>8. DeltaIsTraffic'
  BY <1>1, <1>2 DEF StatInv, StatTypeOK, DeltaIsTraffic
<1> QED BY <1>5, <1>6, <1>7, <1>8 DEF StatInv

\* nfs1: the difference is the traffic.
LEMMA Snap1Inv == ASSUME StatInv, Snap1 PROVE StatInv'
<1>1. /\ \/ holds /\ ops = <<"nfs1", "close">> /\ ops' = <<"close">>
         \/ ~holds /\ ops = <<"nfs1">> /\ ops' = <<>>
      /\ UNCHANGED <<inputOpen, share, before, holds, traffic, unmounts>>
      /\ delta' = IF before.found \/ Snap.found THEN <<NfsDelta(before, Snap)>> ELSE <<>>
  BY Ops DEF StatInv, Snap1, history
<1>2. Reading /\ Over' /\ ~Reading'
  BY <1>1 DEF Over, Reading
<1>3. StatTypeOK' /\ MountInv' /\ CountInv'
  BY <1>1, <1>2 DEF StatInv, StatTypeOK, MountInv, CountInv
<1>4. DeltaIsTraffic'
  <2> SUFFICES ASSUME delta' # <<>>, holds \/ ~unmounts
               PROVE  delta'[1].read = traffic /\ (holds => delta'[1].found)
    BY <1>1 DEF DeltaIsTraffic
  <2>1. share = <<(before.read + traffic) % CounterSize>> /\ (holds => before.found)
    <3>1. before.found \/ share # <<>>
      BY <1>1 DEF Snap
    <3> QED BY <1>2, <3>1 DEF StatInv, CountInv
  <2>2. Snap = [found |-> TRUE, read |-> (before.read + traffic) % CounterSize]
    BY <2>1 DEF Snap
  <2>3. delta'[1] = NfsDelta(before, Snap)
    BY <1>1
  <2>4. before.read \in Counts /\ traffic \in Counts
    BY CounterAssumption DEF StatInv, StatTypeOK, Counts
  <2>5. delta'[1].read = (((before.read + traffic) % CounterSize) + CounterSize - before.read) % CounterSize
    BY <2>2, <2>3 DEF NfsDelta
  <2>6. holds => delta'[1].found
    <3>1. delta'[1].found = (before.found /\ Snap.found) /\ Snap.found = TRUE
      BY <2>2, <2>3 DEF NfsDelta
    <3> QED BY <2>1, <3>1
  <2> QED BY <2>4, <2>5, <2>6, Wrap
<1> QED BY <1>3, <1>4 DEF StatInv

LEMMA TransferInv == ASSUME StatInv, Transfer PROVE StatInv'
<1>1. /\ delta = <<>> /\ traffic < MaxTraffic /\ traffic' = traffic + 1
      /\ UNCHANGED <<ops, inputOpen, before, delta, holds, unmounts>>
      /\ share' = IF share = <<>> THEN <<1 % CounterSize>> ELSE <<(share[1] + 1) % CounterSize>>
  BY DEF Transfer
<1>2. before.read \in Counts /\ traffic \in Counts /\ traffic + 1 \in 0 .. MaxTraffic /\ traffic + 1 \in Counts
      /\ 1 \in Counts /\ 0 \in Counts
  BY <1>1, CounterAssumption DEF StatInv, StatTypeOK, Counts
<1>3. share' # <<>> /\ \E c \in Counts : share' = <<c>>
  <2>1. CASE share = <<>>
    BY <1>1, <1>2, <2>1, Wrap
  <2>2. CASE share # <<>>
    <3>1. PICK c \in Counts : share = <<c>>
      BY <2>2 DEF StatInv, StatTypeOK
    <3>2. share' = <<(c + 1) % CounterSize>>
      BY <1>1, <3>1
    <3>3. (c + 1) % CounterSize \in Counts
      BY <1>2, Wrap
    <3> QED BY <3>2, <3>3
  <2> QED BY <2>1, <2>2
<1>4. StatTypeOK' /\ MountInv'
  BY <1>1, <1>2, <1>3 DEF StatInv, StatTypeOK, MountInv, Before, Reading, Over
<1>5. CountInv'
  <2> SUFFICES ASSUME Reading, holds \/ ~unmounts
               PROVE  share' = <<(before.read + (traffic + 1)) % CounterSize>> /\ (holds => before.found)
    BY <1>1 DEF CountInv, Reading
  <2>1. holds => before.found
    BY DEF StatInv, CountInv
  <2>2. CASE share = <<(before.read + traffic) % CounterSize>>
    <3>1. share' = <<(((before.read + traffic) % CounterSize) + 1) % CounterSize>>
      BY <1>1, <2>2
    <3> QED BY <1>2, <2>1, <3>1, Wrap
  <2>3. CASE share = <<>> /\ traffic = 0 /\ ~before.found
    <3>1. before.read = 0 /\ share' = <<1 % CounterSize>>
      BY <1>1, <2>3 DEF StatInv, StatTypeOK
    <3>2. before.read + (traffic + 1) = 1
      BY <2>3, <3>1
    <3> QED BY <2>1, <3>1, <3>2
  <2> QED BY <2>2, <2>3 DEF StatInv, CountInv
<1>6. DeltaIsTraffic'
  BY <1>1 DEF DeltaIsTraffic
<1> QED BY <1>4, <1>5, <1>6 DEF StatInv

LEMMA PhaseTurnInv == ASSUME StatInv, NextPhase \/ Unmount PROVE StatInv'
<1>1. CASE NextPhase
  <2>1. Before' /\ ~Reading' /\ ~Over' /\ delta' = <<>>
        /\ ops' \notin {<<"nfs0", "nfs1", "close">>, <<"nfs1", "close">>, <<"close">>}
    BY <1>1 DEF NextPhase, Before, Reading, Over, PhaseOps
  <2> QED BY <1>1, <2>1 DEF NextPhase, StatInv, StatTypeOK, MountInv, CountInv, DeltaIsTraffic
<1>2. CASE Unmount
  <2>1. /\ ~inputOpen /\ share' = <<>> /\ unmounts' = TRUE
        /\ UNCHANGED <<ops, inputOpen, before, delta, holds, traffic>>
    BY <1>2 DEF Unmount
  <2>2. holds => ~Reading
    BY <2>1 DEF StatInv, MountInv, Reading
  <2>3. StatTypeOK' /\ MountInv'
    BY <2>1 DEF StatInv, StatTypeOK, MountInv, Before, Reading, Over
  <2>4. CountInv' /\ DeltaIsTraffic'
    BY <2>1, <2>2 DEF StatInv, CountInv, Reading, DeltaIsTraffic
  <2> QED BY <2>3, <2>4 DEF StatInv
<1> QED BY <1>1, <1>2

\* DeltaIsTraffic: with counters of any width that wrap, and whether or not
\* the share was mounted at nfs0, the difference of the two snapshots is the
\* traffic between them: always for the phases that hold a file open, and
\* for the others unless the share is unmounted meanwhile.
THEOREM DeltaIsTrafficCorrect == StatSpec => []DeltaIsTraffic
<1>1. StatInit => StatInv
  <2> SUFFICES ASSUME StatInit PROVE StatInv
    OBVIOUS
  <2>1. Before /\ ~Reading /\ ~Over /\ delta = <<>>
        /\ ops \notin {<<"nfs0", "nfs1", "close">>, <<"nfs1", "close">>, <<"close">>}
    BY DEF StatInit, Before, Reading, Over, PhaseOps
  <2>2. 0 \in Counts /\ 0 \in 0 .. MaxTraffic
    BY CounterAssumption DEF Counts
  <2>3. share = <<>> \/ \E c \in Counts : share = <<c>>
    BY DEF StatInit, Counts
  <2> QED BY <2>1, <2>2, <2>3 DEF StatInit, StatInv, StatTypeOK, MountInv, CountInv, DeltaIsTraffic
<1>2. StatInv /\ [StatNext]_statVars => StatInv'
  <2> SUFFICES ASSUME StatInv, [StatNext]_statVars PROVE StatInv'
    OBVIOUS
  <2>1. CASE UNCHANGED statVars
    BY <2>1 DEF statVars, history, StatInv, StatTypeOK, MountInv, CountInv, DeltaIsTraffic, Before, Reading, Over
  <2> QED BY <2>1, OpenInputInv, CloseInputInv, Snap0Inv, Snap1Inv, TransferInv, PhaseTurnInv DEF StatNext
<1>3. StatInv => DeltaIsTraffic
  BY DEF StatInv
<1> QED BY <1>1, <1>2, <1>3, PTL DEF StatSpec

-----------------------------------------------------------------------------
(* BenchRun: what of the plan is done, and what the report has of it *)

TransSet == {"idle", "nfs_unthrottled", "nfs_throttled", "tmpfs_throttled"}
            \cup (IF IncludeDisk THEN {"disk_unthrottled"} ELSE {})
DirectSet == {"player_buffer", "nfs_sequential_max", "ffmpeg_copy", "ffmpeg_copy_re"}

Steps == {"dns", "probe", "transcode checks", "directplay checks", "ffprobe", "verdict", "write"}
         \cup TransSet \cup DirectSet

\* Steps before the end of a plan: the verdict comes after the phases it is about.
Early(s) ==
  \A i \in 1 .. Len(s) :
    s[i] # "write" /\ (s[i] \in DirectSet => \E j \in i + 1 .. Len(s) : s[j] = "verdict")

\* The report is written last, after the verdict.
Ordered(s) ==
  \A i \in 1 .. Len(s) :
    /\ s[i] = "write" <=> i = Len(s)
    /\ s[i] \in DirectSet => \E j \in i + 1 .. Len(s) : s[j] = "verdict"

LEMMA Joined ==
  ASSUME NEW s \in Seq(Steps), NEW t \in Seq(Steps)
  PROVE  /\ s \o t \in Seq(Steps)
         /\ \A x : InSeq(x, s \o t) <=> InSeq(x, s) \/ InSeq(x, t)
         /\ Early(s) /\ Early(t) => Early(s \o t)
         /\ Early(s) /\ Ordered(t) /\ t # <<>> => Ordered(s \o t)
<1> DEFINE u == s \o t
<1>1. /\ u \in Seq(Steps) /\ Len(u) = Len(s) + Len(t) /\ Len(s) \in Nat /\ Len(t) \in Nat
      /\ DOMAIN s = 1 .. Len(s) /\ DOMAIN t = 1 .. Len(t) /\ DOMAIN u = 1 .. Len(u)
      /\ \A i \in 1 .. Len(s) : u[i] = s[i]
      /\ \A i \in 1 .. Len(t) : u[Len(s) + i] = t[i]
  OBVIOUS
<1> HIDE DEF u
<1>2. \A i \in 1 .. Len(u) : i \in 1 .. Len(s) \/ (i - Len(s) \in 1 .. Len(t) /\ u[i] = t[i - Len(s)])
  <2> SUFFICES ASSUME NEW i \in 1 .. Len(u), i \notin 1 .. Len(s)
               PROVE  i - Len(s) \in 1 .. Len(t) /\ u[i] = t[i - Len(s)]
    OBVIOUS
  <2>1. i - Len(s) \in 1 .. Len(t) /\ Len(s) + (i - Len(s)) = i
    BY <1>1
  <2> QED BY <1>1, <2>1
<1>3. \A i \in 1 .. Len(t) : Len(s) + i \in 1 .. Len(u)
  BY <1>1
<1>4. ASSUME NEW x
      PROVE  InSeq(x, u) <=> InSeq(x, s) \/ InSeq(x, t)
  <2>1. ASSUME InSeq(x, u) PROVE InSeq(x, s) \/ InSeq(x, t)
    BY <1>1, <1>2, <2>1 DEF InSeq
  <2>2. ASSUME InSeq(x, s) PROVE InSeq(x, u)
    BY <1>1, <2>2 DEF InSeq
  <2>3. ASSUME InSeq(x, t) PROVE InSeq(x, u)
    <3>1. PICK i \in 1 .. Len(t) : t[i] = x
      BY <1>1, <2>3 DEF InSeq
    <3> QED BY <1>1, <1>3, <3>1 DEF InSeq
  <2> QED BY <2>1, <2>2, <2>3
<1>5. ASSUME Early(s), NEW i \in 1 .. Len(s)
      PROVE  u[i] # "write" /\ (u[i] \in DirectSet => \E j \in i + 1 .. Len(u) : u[j] = "verdict")
  <2>1. u[i] = s[i] /\ s[i] # "write"
    BY <1>1, <1>5 DEF Early
  <2>2. ASSUME s[i] \in DirectSet PROVE \E j \in i + 1 .. Len(u) : u[j] = "verdict"
    <3>1. PICK j \in i + 1 .. Len(s) : s[j] = "verdict"
      BY <1>5, <2>2 DEF Early
    <3>2. j \in 1 .. Len(s) /\ j \in i + 1 .. Len(u)
      BY <1>1, <3>1
    <3> QED BY <1>1, <3>1, <3>2
  <2> QED BY <2>1, <2>2
<1>6. ASSUME NEW i \in 1 .. Len(t), t[i] \in DirectSet => \E j \in i + 1 .. Len(t) : t[j] = "verdict"
      PROVE  u[Len(s) + i] \in DirectSet => \E j \in Len(s) + i + 1 .. Len(u) : u[j] = "verdict"
  <2> SUFFICES ASSUME t[i] \in DirectSet PROVE \E j \in Len(s) + i + 1 .. Len(u) : u[j] = "verdict"
    BY <1>1
  <2>1. PICK j \in i + 1 .. Len(t) : t[j] = "verdict"
    BY <1>6
  <2>2. j \in 1 .. Len(t) /\ Len(s) + j \in Len(s) + i + 1 .. Len(u)
    BY <1>1, <2>1
  <2> QED BY <1>1, <2>1, <2>2
<1>7. ASSUME Early(s), Early(t) PROVE Early(u)
  <2> SUFFICES ASSUME NEW i \in 1 .. Len(u)
               PROVE  u[i] # "write" /\ (u[i] \in DirectSet => \E j \in i + 1 .. Len(u) : u[j] = "verdict")
    BY DEF Early
  <2>1. CASE i \in 1 .. Len(s)
    BY <1>5, <1>7, <2>1
  <2>2. CASE i \notin 1 .. Len(s)
    <3>1. PICK k \in 1 .. Len(t) : i = Len(s) + k /\ u[i] = t[k]
      BY <1>1, <1>2, <2>2
    <3> QED BY <1>6, <1>7, <3>1 DEF Early
  <2> QED BY <2>1, <2>2
<1>8. ASSUME Early(s), Ordered(t), t # <<>> PROVE Ordered(u)
  <2> SUFFICES ASSUME NEW i \in 1 .. Len(u)
               PROVE  /\ u[i] = "write" <=> i = Len(u)
                      /\ u[i] \in DirectSet => \E j \in i + 1 .. Len(u) : u[j] = "verdict"
    BY DEF Ordered
  <2>0. Len(t) > 0
    BY <1>1, <1>8
  <2>1. CASE i \in 1 .. Len(s)
    <3>1. i # Len(u)
      BY <1>1, <2>0, <2>1
    <3> QED BY <1>5, <1>8, <2>1, <3>1
  <2>2. CASE i \notin 1 .. Len(s)
    <3>1. PICK k \in 1 .. Len(t) : i = Len(s) + k /\ u[i] = t[k]
      BY <1>1, <1>2, <2>2
    <3>2. i = Len(u) <=> k = Len(t)
      <4> DEFINE a == Len(s)
                 b == Len(t)
      <4>1. a \in Nat /\ b \in Nat /\ k \in 1 .. b /\ i = a + k /\ Len(u) = a + b
        BY <1>1, <3>1
      <4> HIDE DEF a, b
      <4> QED BY <4>1 DEF b
    <3> QED BY <1>6, <1>8, <3>1, <3>2 DEF Ordered
  <2> QED BY <2>1, <2>2
<1> QED BY <1>1, <1>4, <1>7, <1>8 DEF u

LEMMA Phases ==
  /\ TranscodePhases \in Seq(Steps) /\ DirectPhases \in Seq(Steps)
  /\ \A x : InSeq(x, TranscodePhases) <=> x \in TransSet
  /\ \A x : InSeq(x, DirectPhases) <=> x \in DirectSet
  /\ Early(TranscodePhases)
<1> DEFINE a == <<"idle", "nfs_unthrottled", "nfs_throttled">>
           b == IF IncludeDisk THEN <<"disk_unthrottled">> ELSE <<>>
           c == <<"tmpfs_throttled">>
<1>1. a \in Seq(Steps) /\ c \in Seq(Steps) /\ DirectPhases \in Seq(Steps)
      /\ (\A x : InSeq(x, a) <=> x \in {"idle", "nfs_unthrottled", "nfs_throttled"})
      /\ (\A x : InSeq(x, c) <=> x = "tmpfs_throttled")
      /\ (\A x : InSeq(x, DirectPhases) <=> x \in DirectSet)
  <2>1. a \in Seq(Steps) /\ c \in Seq(Steps) /\ DirectPhases \in Seq(Steps)
    BY DEF DirectPhases, Steps, TransSet, DirectSet
  <2>2. /\ DOMAIN a = {1, 2, 3} /\ a[1] = "idle" /\ a[2] = "nfs_unthrottled" /\ a[3] = "nfs_throttled"
        /\ DOMAIN c = {1} /\ c[1] = "tmpfs_throttled"
    OBVIOUS
  <2>3. /\ DOMAIN DirectPhases = {1, 2, 3, 4}
        /\ DirectPhases[1] = "player_buffer" /\ DirectPhases[2] = "nfs_sequential_max"
        /\ DirectPhases[3] = "ffmpeg_copy" /\ DirectPhases[4] = "ffmpeg_copy_re"
    BY DEF DirectPhases
  <2> HIDE DEF a, c
  <2> QED BY <2>1, <2>2, <2>3, Zenon DEF InSeq, DirectSet
<1>2. b \in Seq(Steps) /\ \A x : InSeq(x, b) <=> IncludeDisk /\ x = "disk_unthrottled"
  <2>1. CASE IncludeDisk
    BY <2>1 DEF InSeq, Steps, TransSet
  <2>2. CASE ~IncludeDisk
    BY <2>2 DEF InSeq, Steps, TransSet
  <2> QED BY <2>1, <2>2
<1>3. Early(a) /\ Early(b) /\ Early(c)
  BY RunAssumption DEF Early, DirectSet
<1>4. TranscodePhases = (a \o b) \o c
  BY DEF TranscodePhases
<1> HIDE DEF a, b, c
<1>5. a \o b \in Seq(Steps) /\ Early(a \o b) /\ \A x : InSeq(x, a \o b) <=> InSeq(x, a) \/ InSeq(x, b)
  BY <1>1, <1>2, <1>3, Joined
<1>6. /\ TranscodePhases \in Seq(Steps) /\ Early(TranscodePhases)
      /\ \A x : InSeq(x, TranscodePhases) <=> InSeq(x, a \o b) \/ InSeq(x, c)
  BY <1>1, <1>3, <1>4, <1>5, Joined
<1> QED BY <1>1, <1>2, <1>5, <1>6 DEF TransSet

LEMMA Single ==
  ASSUME NEW x \in Steps \ ({"write"} \cup DirectSet)
  PROVE  <<x>> \in Seq(Steps) /\ Early(<<x>>) /\ \A y : InSeq(y, <<x>>) <=> y = x
<1>1. <<x>> \in Seq(Steps) /\ Len(<<x>>) = 1 /\ <<x>>[1] = x /\ DOMAIN <<x>> = {1}
  OBVIOUS
<1> QED BY <1>1 DEF Early, InSeq

LEMMA Judged ==
  ASSUME NEW s \in Seq(Steps), ~InSeq("write", s)
  PROVE  Early(s \o <<"verdict">>)
<1> DEFINE u == s \o <<"verdict">>
<1>1. /\ Len(u) = Len(s) + 1 /\ Len(s) \in Nat /\ DOMAIN s = 1 .. Len(s)
      /\ \A i \in 1 .. Len(s) : u[i] = s[i]
      /\ u[Len(s) + 1] = "verdict"
  OBVIOUS
<1> HIDE DEF u
<1>2. ASSUME NEW i \in 1 .. Len(u)
      PROVE  u[i] # "write" /\ (u[i] \in DirectSet => \E j \in i + 1 .. Len(u) : u[j] = "verdict")
  <2>1. CASE i \in 1 .. Len(s)
    <3>1. u[i] # "write"
      BY <1>1, <2>1 DEF InSeq
    <3>2. Len(u) \in i + 1 .. Len(u)
      BY <1>1, <2>1
    <3> QED BY <1>1, <3>1, <3>2
  <2>2. CASE i = Len(u)
    BY <1>1, <2>2 DEF DirectSet
  <2> QED BY <1>1, <2>1, <2>2
<1> QED BY <1>2 DEF Early, u

\* What is in the plan of a subcommand.
Planned(c, x) ==
  \/ c \in {"dns", "all"} /\ x = "dns"
  \/ c \in {"probe", "all"} /\ x = "probe"
  \/ c \in {"transcode", "all"} /\ x \in {"transcode checks"} \cup TransSet
  \/ c \in {"directplay", "all"} /\ x \in {"directplay checks", "ffprobe", "verdict"} \cup DirectSet
  \/ x = "write"

LEMMA PlanFacts ==
  ASSUME NEW c
  PROVE  /\ Plan(c) \in Seq(Steps) /\ Plan(c) # <<>> /\ Ordered(Plan(c))
         /\ \A x : InSeq(x, Plan(c)) <=> Planned(c, x)
<1> DEFINE Of(S, steps) == IF c \in S \cup {"all"} THEN steps ELSE <<>>
           dns == <<"dns">>
           probe == <<"probe">>
           check == <<"transcode checks">>
           trans == check \o TranscodePhases
           check2 == <<"directplay checks", "ffprobe">>
           verdict == <<"verdict">>
           direct == check2 \o DirectPhases \o verdict
           write == <<"write">>
           Short(s, x) == /\ s \in Seq(Steps) /\ Early(s)
                          /\ \A y : InSeq(y, s) <=> y = x
<1>1. Plan(c) = Of({"dns"}, dns) \o Of({"probe"}, probe) \o Of({"transcode"}, trans)
                \o Of({"directplay"}, direct) \o write
  BY Zenon DEF Plan
<1>2. Short(dns, "dns") /\ Short(probe, "probe") /\ Short(check, "transcode checks")
  <2>1. /\ "dns" \in Steps \ ({"write"} \cup DirectSet)
        /\ "probe" \in Steps \ ({"write"} \cup DirectSet)
        /\ "transcode checks" \in Steps \ ({"write"} \cup DirectSet)
    BY DEF Steps, DirectSet
  <2> QED BY <2>1, Single
<1>3. /\ check2 \in Seq(Steps) /\ verdict \in Seq(Steps) /\ write \in Seq(Steps) /\ write # <<>>
      /\ \A x : InSeq(x, verdict) <=> x = "verdict"
      /\ \A x : InSeq(x, write) <=> x = "write"
      /\ Ordered(write)
  BY DEF Steps, Ordered, DirectSet, InSeq
<1>4. \A x : InSeq(x, check2) <=> x \in {"directplay checks", "ffprobe"}
  <2>1. DOMAIN check2 = {1, 2} /\ check2[1] = "directplay checks" /\ check2[2] = "ffprobe"
    OBVIOUS
  <2> HIDE DEF check2
  <2> QED BY <2>1, Zenon DEF InSeq
<1> HIDE DEF dns, probe, check, check2, verdict, write
<1>5. trans \in Seq(Steps) /\ Early(trans)
      /\ \A x : InSeq(x, trans) <=> x \in {"transcode checks"} \cup TransSet
  BY <1>2, Phases, Joined
<1>6. direct \in Seq(Steps) /\ Early(direct)
      /\ \A x : InSeq(x, direct) <=> x \in {"directplay checks", "ffprobe", "verdict"} \cup DirectSet
  <2> DEFINE w == check2 \o DirectPhases
  <2>1. w \in Seq(Steps) /\ \A x : InSeq(x, w) <=> InSeq(x, check2) \/ InSeq(x, DirectPhases)
    BY <1>3, Phases, Joined
  <2>2. ~InSeq("write", w)
    <3>1. ~InSeq("write", check2)
      <4>1. "write" \notin {"directplay checks", "ffprobe"}
        OBVIOUS
      <4> QED BY <1>4, <4>1, Zenon
    <3>2. ~InSeq("write", DirectPhases)
      BY Phases DEF DirectSet
    <3> QED BY <2>1, <3>1, <3>2
  <2>3. Early(w \o verdict)
    BY <2>1, <2>2, Judged DEF verdict
  <2>4. w \o verdict \in Seq(Steps) /\ \A x : InSeq(x, w \o verdict) <=> InSeq(x, w) \/ InSeq(x, verdict)
    BY <1>3, <2>1, Joined
  <2> HIDE DEF w
  <2>5. direct = w \o verdict
    BY DEF w
  <2> HIDE DEF direct
  <2> QED BY <1>3, <1>4, <2>1, <2>3, <2>4, <2>5, Phases
<1> HIDE DEF trans, direct
<1>7. ASSUME NEW S, NEW s \in Seq(Steps), Early(s)
      PROVE  /\ Of(S, s) \in Seq(Steps) /\ Early(Of(S, s))
             /\ \A x : InSeq(x, Of(S, s)) <=> c \in S \cup {"all"} /\ InSeq(x, s)
  <2>1. CASE c \in S \cup {"all"}
    BY <1>7, <2>1
  <2>2. CASE c \notin S \cup {"all"}
    <3>1. <<>> \in Seq(Steps) /\ Early(<<>>) /\ \A x : ~InSeq(x, <<>>)
      BY DEF Early, InSeq
    <3> QED BY <2>2, <3>1
  <2> QED BY <2>1, <2>2
<1> DEFINE A == Of({"dns"}, dns)
           B == Of({"probe"}, probe)
           C == Of({"transcode"}, trans)
           D == Of({"directplay"}, direct)
<1>8. /\ A \in Seq(Steps) /\ Early(A) /\ \A x : InSeq(x, A) <=> c \in {"dns", "all"} /\ x = "dns"
      /\ B \in Seq(Steps) /\ Early(B) /\ \A x : InSeq(x, B) <=> c \in {"probe", "all"} /\ x = "probe"
  BY <1>2, <1>7
<1>9. /\ C \in Seq(Steps) /\ Early(C)
      /\ \A x : InSeq(x, C) <=> c \in {"transcode", "all"} /\ x \in {"transcode checks"} \cup TransSet
  BY <1>5, <1>7
<1>10. /\ D \in Seq(Steps) /\ Early(D)
       /\ \A x : InSeq(x, D) <=> /\ c \in {"directplay", "all"}
                                 /\ x \in {"directplay checks", "ffprobe", "verdict"} \cup DirectSet
  BY <1>6, <1>7
<1>11. Plan(c) = A \o B \o C \o D \o write
  BY <1>1
<1> HIDE DEF A, B, C, D, Of
<1>12. /\ A \o B \in Seq(Steps) /\ Early(A \o B)
       /\ \A x : InSeq(x, A \o B) <=> InSeq(x, A) \/ InSeq(x, B)
  BY <1>8, Joined
<1>13. /\ A \o B \o C \in Seq(Steps) /\ Early(A \o B \o C)
       /\ \A x : InSeq(x, A \o B \o C) <=> InSeq(x, A \o B) \/ InSeq(x, C)
  BY <1>9, <1>12, Joined
<1>14. /\ A \o B \o C \o D \in Seq(Steps) /\ Early(A \o B \o C \o D)
       /\ \A x : InSeq(x, A \o B \o C \o D) <=> InSeq(x, A \o B \o C) \/ InSeq(x, D)
  BY <1>10, <1>13, Joined
<1> DEFINE p == A \o B \o C \o D
<1>15. /\ p \o write \in Seq(Steps) /\ Ordered(p \o write)
       /\ \A x : InSeq(x, p \o write) <=> InSeq(x, p) \/ InSeq(x, write)
  <2>1. p \in Seq(Steps) /\ Early(p)
    BY <1>14
  <2> HIDE DEF p
  <2> QED BY <1>3, <2>1, Joined
<1>16. ASSUME NEW x PROVE InSeq(x, Plan(c)) <=> Planned(c, x)
  <2>1. InSeq(x, Plan(c)) <=> InSeq(x, p) \/ x = "write"
    BY <1>3, <1>11, <1>15
  <2>2. InSeq(x, p) <=> InSeq(x, A) \/ InSeq(x, B) \/ InSeq(x, C) \/ InSeq(x, D)
    BY <1>12, <1>13, <1>14
  <2> HIDE DEF p
  <2> QED BY <1>8, <1>9, <1>10, <2>1, <2>2 DEF Planned
<1>17. Plan(c) # <<>>
  <2>1. InSeq("write", Plan(c))
    BY <1>16 DEF Planned
  <2> QED BY <2>1 DEF InSeq
<1> QED BY <1>11, <1>15, <1>16, <1>17

\* What is left of a plan after its first step.
LEMMA Rest ==
  ASSUME NEW s \in Seq(Steps), s # <<>>, Ordered(s)
  PROVE  /\ \A x : InSeq(x, s) <=> x = Head(s) \/ InSeq(x, Tail(s))
         /\ Head(s) = "write" => Tail(s) = <<>>
         /\ Head(s) # "write" => Tail(s) # <<>> /\ Tail(s) \in Seq(Steps) /\ Ordered(Tail(s))
         /\ Head(s) \in DirectSet => InSeq("verdict", Tail(s))
<1> DEFINE t == Tail(s)
<1>1. /\ t \in Seq(Steps) /\ Len(s) \in Nat \ {0} /\ Len(t) = Len(s) - 1
      /\ DOMAIN s = 1 .. Len(s) /\ DOMAIN t = 1 .. Len(t)
      /\ \A i \in 1 .. Len(t) : t[i] = s[i + 1]
      /\ Head(s) = s[1]
  OBVIOUS
<1>2. t = <<>> <=> Len(t) = 0
  <2> HIDE DEF t
  <2> QED BY <1>1, EmptySeq
<1> HIDE DEF t
<1>3. \A i \in 1 .. Len(s) : i = 1 \/ (i - 1 \in 1 .. Len(t) /\ t[i - 1] = s[i])
  <2> SUFFICES ASSUME NEW i \in 1 .. Len(s), i # 1
               PROVE  i - 1 \in 1 .. Len(t) /\ t[i - 1] = s[i]
    OBVIOUS
  <2>1. i - 1 \in 1 .. Len(t) /\ (i - 1) + 1 = i
    BY <1>1
  <2> QED BY <1>1, <2>1
<1>4. 1 \in 1 .. Len(s) /\ \A i \in 1 .. Len(t) : i + 1 \in 1 .. Len(s)
  BY <1>1
<1>5. ASSUME NEW x PROVE InSeq(x, s) <=> x = Head(s) \/ InSeq(x, t)
  <2>1. ASSUME InSeq(x, s) PROVE x = Head(s) \/ InSeq(x, t)
    <3>1. PICK i \in 1 .. Len(s) : s[i] = x
      BY <1>1, <2>1 DEF InSeq
    <3> QED BY <1>1, <1>3, <3>1 DEF InSeq
  <2>2. ASSUME x = Head(s) PROVE InSeq(x, s)
    BY <1>1, <1>4, <2>2 DEF InSeq
  <2>3. ASSUME InSeq(x, t) PROVE InSeq(x, s)
    <3>1. PICK i \in 1 .. Len(t) : t[i] = x
      BY <1>1, <2>3 DEF InSeq
    <3> QED BY <1>1, <1>4, <3>1 DEF InSeq
  <2> QED BY <2>1, <2>2, <2>3
<1>6. Head(s) = "write" <=> Len(t) = 0
  <2>1. s[1] = "write" <=> 1 = Len(s)
    BY <1>4 DEF Ordered
  <2> QED BY <1>1, <2>1
<1>7. ASSUME Head(s) \in DirectSet PROVE InSeq("verdict", t)
  <2>1. PICK j \in 1 + 1 .. Len(s) : s[j] = "verdict"
    BY <1>1, <1>4, <1>7 DEF Ordered
  <2>2. j \in 1 .. Len(s) /\ j # 1
    BY <1>1, <2>1
  <2> QED BY <1>1, <1>3, <2>1, <2>2 DEF InSeq
<1>8. Ordered(t)
  <2> SUFFICES ASSUME NEW i \in 1 .. Len(t)
               PROVE  /\ t[i] = "write" <=> i = Len(t)
                      /\ t[i] \in DirectSet => \E j \in i + 1 .. Len(t) : t[j] = "verdict"
    BY DEF Ordered
  <2>1. i + 1 \in 1 .. Len(s) /\ t[i] = s[i + 1]
    BY <1>1, <1>4
  <2>2. t[i] = "write" <=> i + 1 = Len(s)
    BY <2>1 DEF Ordered
  <2>3. i + 1 = Len(s) <=> i = Len(t)
    BY <1>1
  <2>4. ASSUME t[i] \in DirectSet PROVE \E j \in i + 1 .. Len(t) : t[j] = "verdict"
    <3>1. PICK j \in (i + 1) + 1 .. Len(s) : s[j] = "verdict"
      BY <2>1, <2>4 DEF Ordered
    <3>2. j \in 1 .. Len(s) /\ j # 1 /\ j - 1 \in i + 1 .. Len(t)
      BY <1>1, <3>1
    <3> QED BY <1>3, <3>1, <3>2
  <2> QED BY <2>2, <2>3, <2>4
<1> QED BY <1>1, <1>2, <1>5, <1>6, <1>7, <1>8 DEF t

Reports == [run : Nat, sections : SUBSET {"dns", "probe", "direct_play"},
            phases : SUBSET [name : TransSet \cup DirectSet, pass : BOOLEAN], cut : {FALSE}]

\* A step that was done is in the report, if it leaves something there.
NotedIn(r, x) ==
  /\ x \in {"dns", "probe"} => x \in r.sections
  /\ x = "ffprobe" => "direct_play" \in r.sections
  /\ x \in TransSet \cup DirectSet => \E q \in r.phases : q.name = x

\* The report of a bench that runs: what was planned and is not before main
\* any more is in it, nothing else is, and if a phase failed the verdict is
\* still to come.
Progress ==
  /\ todo \in Seq(Steps) /\ todo # <<>> /\ Ordered(todo)
  /\ \A x : InSeq(x, todo) => Planned(cmd, x)
  /\ \A x : Planned(cmd, x) => InSeq(x, todo) \/ NotedIn(rep, x)
  /\ \A p \in rep.phases : Planned(cmd, p.name)
  /\ "direct_play" \in rep.sections => Planned(cmd, "ffprobe")
  /\ Failed(rep) => InSeq("verdict", todo)

\* What the operator's machine may get.
Whole(r) ==
  /\ ~r.cut /\ ~Failed(r)
  /\ r.phases # {} \/ r.sections # {}
  /\ \A p \in r.phases : p.name \in {"nfs_unthrottled", "tmpfs_throttled"} =>
       \A i \in DOMAIN TranscodePhases : \E q \in r.phases : q.name = TranscodePhases[i]
  /\ "direct_play" \in r.sections =>
       \A i \in DOMAIN DirectPhases : \E q \in r.phases : q.name = DirectPhases[i]

RunInv ==
  /\ n \in Nat /\ cmd \in Cmds
  /\ rep \in Reports /\ rep.run = n
  /\ status = "runs" => Progress
  /\ status = "ok" => json = rep /\ Whole(rep)
  /\ copied # NoReport => Whole(copied)

LEMMA RunInitInv == RunInit => RunInv
<1> SUFFICES ASSUME RunInit PROVE RunInv
  OBVIOUS
<1>1. rep \in Reports /\ rep.run = n /\ n \in Nat
  BY DEF RunInit, Empty, Reports
<1>2. status # "runs" /\ status # "ok" /\ copied = NoReport /\ cmd \in Cmds
  BY DEF RunInit
<1> QED BY <1>1, <1>2 DEF RunInv

\* A step of main that is not the last.
LEMMA OneStep ==
  ASSUME RunInv, status = "runs", Head(todo) # "write",
         Done, UNCHANGED <<n, cmd, status, copied>>,
         rep' \in Reports, rep'.run = rep.run,
         rep.sections \subseteq rep'.sections, rep.phases \subseteq rep'.phases,
         NotedIn(rep', Head(todo)),
         \A p \in rep'.phases \ rep.phases : p.name = Head(todo),
         "direct_play" \in rep'.sections \ rep.sections => Head(todo) = "ffprobe",
         Failed(rep') => Head(todo) \in DirectSet \/ (Failed(rep) /\ Head(todo) # "verdict")
  PROVE  RunInv'
<1> DEFINE h == Head(todo)
           t == Tail(todo)
<1>1. Progress /\ todo' = t
  BY DEF RunInv, Done
<1>2. /\ \A x : InSeq(x, todo) <=> x = h \/ InSeq(x, t)
      /\ t # <<>> /\ t \in Seq(Steps) /\ Ordered(t)
      /\ h \in DirectSet => InSeq("verdict", t)
  BY <1>1, Rest DEF Progress
<1> HIDE DEF h, t
<1>3. \A x : InSeq(x, t) => Planned(cmd, x)
  BY <1>1, <1>2 DEF Progress
<1>4. ASSUME NEW x, Planned(cmd, x) PROVE InSeq(x, t) \/ NotedIn(rep', x)
  <2>1. InSeq(x, todo) \/ NotedIn(rep, x)
    BY <1>1, <1>4 DEF Progress
  <2>2. CASE InSeq(x, todo)
    BY <1>2, <2>2 DEF h
  <2>3. CASE NotedIn(rep, x)
    <3>1. x \in TransSet \cup DirectSet => \E q \in rep'.phases : q.name = x
      BY <2>3 DEF NotedIn
    <3>2. (x \in {"dns", "probe"} => x \in rep'.sections) /\ (x = "ffprobe" => "direct_play" \in rep'.sections)
      BY <2>3 DEF NotedIn
    <3> QED BY <3>1, <3>2 DEF NotedIn
  <2> QED BY <2>1, <2>2, <2>3
<1>5. Planned(cmd, h)
  BY <1>1, <1>2 DEF Progress
<1>6. \A p \in rep'.phases : Planned(cmd, p.name)
  BY <1>1, <1>5, Zenon DEF Progress, h
<1>7. "direct_play" \in rep'.sections => Planned(cmd, "ffprobe")
  BY <1>1, <1>5 DEF Progress, h
<1>8. ASSUME Failed(rep') PROVE InSeq("verdict", t)
  BY <1>1, <1>2, <1>8 DEF Progress, h
<1>9. Progress'
  <2>1. todo' = t /\ cmd' = cmd
    BY <1>1
  <2>2. (todo \in Seq(Steps) /\ todo # <<>> /\ Ordered(todo))'
    BY <1>2, <2>1, Zenon DEF Ordered
  <2>3. (\A x : InSeq(x, todo) => Planned(cmd, x))'
    BY <1>3, <2>1, Zenon DEF InSeq, Planned
  <2>4. (\A x : Planned(cmd, x) => InSeq(x, todo) \/ NotedIn(rep, x))'
    BY <1>4, <2>1, Zenon DEF InSeq, Planned, NotedIn
  <2>5. (\A p \in rep.phases : Planned(cmd, p.name))' /\ ("direct_play" \in rep.sections => Planned(cmd, "ffprobe"))'
    BY <1>6, <1>7, <2>1, Zenon DEF Planned
  <2>6. (Failed(rep) => InSeq("verdict", todo))'
    BY <1>8, <2>1, Zenon DEF InSeq, Failed
  <2> QED BY <2>2, <2>3, <2>4, <2>5, <2>6 DEF Progress
<1>10. n' \in Nat /\ cmd' \in Cmds /\ rep'.run = n' /\ status' = "runs" /\ (copied # NoReport => Whole(copied))'
  BY Zenon DEF RunInv, Whole, Failed
<1> QED BY <1>9, <1>10 DEF RunInv

\* An exit status that is not 0.
LEMMA Stopped ==
  ASSUME RunInv, UNCHANGED <<n, cmd, copied>>, rep' \in Reports, rep'.run = n,
         status' \notin {"runs", "ok"}
  PROVE  RunInv'
BY DEF RunInv, Whole, Failed

\* The report that is written last has all that was planned, and no phase of
\* it failed.
LEMMA WholeAtWrite ==
  ASSUME RunInv, status = "runs", Head(todo) = "write"
  PROVE  Whole(rep)
<1>1. Progress /\ rep \in Reports /\ cmd \in Cmds
  BY DEF RunInv
<1>2. \A x : InSeq(x, todo) <=> x = "write"
  <2>1. (\A x : InSeq(x, todo) <=> x = Head(todo) \/ InSeq(x, Tail(todo))) /\ Tail(todo) = <<>>
    BY <1>1, Rest DEF Progress
  <2>2. \A x : ~InSeq(x, <<>>)
    BY DEF InSeq
  <2> QED BY <2>1, <2>2
<1>3. \A x : Planned(cmd, x) /\ x # "write" => NotedIn(rep, x)
  BY <1>1, <1>2 DEF Progress
<1>4. ~Failed(rep)
  <2>1. "verdict" # "write"
    OBVIOUS
  <2> QED BY <1>1, <1>2, <2>1, Zenon DEF Progress
<1>5. ~rep.cut
  BY <1>1 DEF Reports
<1>6. rep.phases # {} \/ rep.sections # {}
  <2>1. cmd \in {"dns", "probe", "transcode", "directplay", "all"}
    BY <1>1, RunAssumption
  <2>2. CASE cmd \in {"dns", "all"}
    <3>1. Planned(cmd, "dns") /\ "dns" # "write"
      BY <2>2 DEF Planned
    <3>2. NotedIn(rep, "dns")
      BY <1>3, <3>1, Zenon
    <3> QED BY <3>2 DEF NotedIn
  <2>3. CASE cmd = "probe"
    <3>1. Planned(cmd, "probe") /\ "probe" # "write"
      BY <2>3 DEF Planned
    <3>2. NotedIn(rep, "probe")
      BY <1>3, <3>1, Zenon
    <3> QED BY <3>2 DEF NotedIn
  <2>4. CASE cmd = "transcode"
    <3>1. Planned(cmd, "idle") /\ "idle" # "write" /\ "idle" \in TransSet
      BY <2>4 DEF Planned, TransSet
    <3>2. NotedIn(rep, "idle")
      BY <1>3, <3>1, Zenon
    <3> QED BY <3>1, <3>2 DEF NotedIn
  <2>5. CASE cmd = "directplay"
    <3>1. Planned(cmd, "ffprobe") /\ "ffprobe" # "write"
      BY <2>5 DEF Planned
    <3>2. NotedIn(rep, "ffprobe")
      BY <1>3, <3>1, Zenon
    <3> QED BY <3>2 DEF NotedIn
  <2> QED BY <2>1, <2>2, <2>3, <2>4, <2>5
<1>7. ASSUME NEW p \in rep.phases, p.name \in {"nfs_unthrottled", "tmpfs_throttled"},
             NEW i \in DOMAIN TranscodePhases
      PROVE  \E q \in rep.phases : q.name = TranscodePhases[i]
  <2> DEFINE y == TranscodePhases[i]
  <2>1. cmd \in {"transcode", "all"}
    <3>1. Planned(cmd, p.name)
      BY <1>1 DEF Progress
    <3> QED BY <1>7, <3>1 DEF Planned, DirectSet
  <2>2. y \in TransSet
    BY Phases DEF InSeq
  <2> HIDE DEF y
  <2>3. Planned(cmd, y) /\ y # "write"
    BY <2>1, <2>2 DEF Planned, TransSet
  <2>4. NotedIn(rep, y)
    BY <1>3, <2>3
  <2> QED BY <2>2, <2>4 DEF NotedIn, y
<1>8. ASSUME "direct_play" \in rep.sections, NEW i \in DOMAIN DirectPhases
      PROVE  \E q \in rep.phases : q.name = DirectPhases[i]
  <2> DEFINE y == DirectPhases[i]
  <2>1. cmd \in {"directplay", "all"}
    <3>1. Planned(cmd, "ffprobe")
      BY <1>1, <1>8 DEF Progress
    <3> QED BY <3>1 DEF Planned, TransSet
  <2>2. y \in DirectSet
    BY Phases DEF InSeq
  <2> HIDE DEF y
  <2>3. Planned(cmd, y) /\ y # "write"
    BY <2>1, <2>2 DEF Planned, DirectSet
  <2>4. NotedIn(rep, y)
    BY <1>3, <2>3
  <2> QED BY <2>2, <2>4 DEF NotedIn, y
<1> QED BY <1>4, <1>5, <1>6, <1>7, <1>8 DEF Whole

\* Adding the result of a phase of either kind.
LEMMA AddPhase ==
  ASSUME rep \in Reports, NEW h \in TransSet \cup DirectSet, NEW pass \in BOOLEAN,
         rep' = [rep EXCEPT !.phases = @ \cup {[name |-> h, pass |-> pass]}]
  PROVE  /\ rep' \in Reports /\ rep'.run = rep.run /\ rep'.sections = rep.sections
         /\ rep.phases \subseteq rep'.phases /\ NotedIn(rep', h)
         /\ \A p \in rep'.phases \ rep.phases : p.name = h
         /\ Failed(rep') => Failed(rep) \/ ~pass
<1> DEFINE q == [name |-> h, pass |-> pass]
<1>1. q \in [name : TransSet \cup DirectSet, pass : BOOLEAN] /\ q.name = h /\ q.pass = pass
  OBVIOUS
<1>2. /\ rep'.phases = rep.phases \cup {q} /\ rep'.run = rep.run
      /\ rep'.sections = rep.sections /\ rep'.cut = rep.cut
  BY DEF Reports
<1>3. rep' \in Reports
  <2>1. rep' \in [run : Nat, sections : SUBSET {"dns", "probe", "direct_play"},
            phases : SUBSET [name : TransSet \cup DirectSet, pass : BOOLEAN], cut : {FALSE}]
    <3>1. rep.phases \cup {q} \in SUBSET [name : TransSet \cup DirectSet, pass : BOOLEAN]
      BY <1>1 DEF Reports
    <3> HIDE DEF q
    <3>2. rep' = [rep EXCEPT !.phases = rep.phases \cup {q}]
      BY DEF q, Reports
    <3> QED BY <3>1, <3>2 DEF Reports
  <2> QED BY <2>1 DEF Reports
<1> HIDE DEF q
<1>4. NotedIn(rep', h)
  <2>1. h \notin {"dns", "probe", "ffprobe"}
    BY DEF TransSet, DirectSet
  <2> QED BY <1>1, <1>2, <2>1 DEF NotedIn
<1>5. Failed(rep') => Failed(rep) \/ ~pass
  BY <1>1, <1>2, Zenon DEF Failed
<1> QED BY <1>1, <1>2, <1>3, <1>4, <1>5

LEMMA StartInv == ASSUME RunInv, Run PROVE RunInv'
<1>1. n \in Nat /\ n' = n + 1 /\ cmd' \in Cmds /\ status' \in {"runs", "refused"}
      /\ (status' = "runs" => todo' = Plan(cmd')) /\ copied' = copied
      /\ rep' = [Empty EXCEPT !.run = n + 1]
  BY DEF Run, RunInv
<1>2. rep' = [run |-> n + 1, sections |-> {}, phases |-> {}, cut |-> FALSE]
  BY <1>1 DEF Empty
<1>3. rep' \in Reports /\ rep'.run = n' /\ n' \in Nat
  <2> DEFINE m == n + 1
  <2>1. m \in Nat
    BY <1>1
  <2> HIDE DEF m
  <2>2. [run |-> m, sections |-> {}, phases |-> {}, cut |-> FALSE] \in Reports
    BY <2>1 DEF Reports
  <2>3. rep' = [run |-> m, sections |-> {}, phases |-> {}, cut |-> FALSE] /\ n' = m
    BY <1>1, <1>2 DEF m
  <2> QED BY <2>1, <2>2, <2>3
<1>4. ASSUME status' = "runs" PROVE Progress'
  <2> DEFINE p == Plan(cmd')
  <2>1. /\ p \in Seq(Steps) /\ p # <<>> /\ Ordered(p)
        /\ \A x : InSeq(x, p) <=> Planned(cmd', x)
    BY PlanFacts
  <2>2. todo' = p
    BY <1>1, <1>4
  <2> HIDE DEF p
  <2>3. rep'.phases = {} /\ rep'.sections = {}
    BY <1>2
  <2>4. ~Failed(rep')
    BY <2>3 DEF Failed
  <2>5. (todo \in Seq(Steps) /\ todo # <<>> /\ Ordered(todo))'
    BY <2>1, <2>2, Zenon DEF Ordered
  <2>6. (\A x : InSeq(x, todo) <=> Planned(cmd, x))'
    BY <2>1, <2>2, Zenon DEF InSeq, Planned
  <2>7. (\A p1 \in rep.phases : Planned(cmd, p1.name))' /\ ("direct_play" \notin rep.sections)'
    BY <2>3
  <2>8. ~Failed(rep)'
    BY <2>4 DEF Failed
  <2> QED BY <2>5, <2>6, <2>7, <2>8 DEF Progress
<1>5. (copied # NoReport => Whole(copied))'
  BY <1>1, Zenon DEF RunInv, Whole, Failed
<1> QED BY <1>1, <1>3, <1>4, <1>5 DEF RunInv

LEMMA SectionsInv == ASSUME RunInv, Dns \/ Probe \/ Checks \/ Ffprobe PROVE RunInv'
<1>1. /\ status = "runs" /\ rep \in Reports /\ rep.run = n
      /\ UNCHANGED <<n, cmd, copied>>
  BY DEF Dns, Probe, Checks, Ffprobe, At, RunInv
<1>2. CASE Dns \/ Probe
  <2> DEFINE h == Head(todo)
  <2>1. /\ h \in {"dns", "probe"} /\ Done /\ UNCHANGED <<n, cmd, status, copied>>
        /\ rep' = [rep EXCEPT !.sections = @ \cup {h}]
    BY <1>2 DEF Dns, Probe, At
  <2> HIDE DEF h
  <2>2. /\ rep' \in Reports /\ rep'.run = rep.run /\ rep'.phases = rep.phases
        /\ rep'.sections = rep.sections \cup {h}
    BY <1>1, <2>1 DEF Reports
  <2>3. h \notin TransSet \cup DirectSet /\ h # "ffprobe" /\ h # "write" /\ h # "verdict" /\ h # "direct_play"
    BY <2>1 DEF TransSet, DirectSet
  <2>4. NotedIn(rep', h)
    BY <2>2, <2>3 DEF NotedIn
  <2>5. "direct_play" \notin rep'.sections \ rep.sections /\ (Failed(rep') => Failed(rep))
    BY <2>2, <2>3 DEF Failed
  <2> QED BY <1>1, <2>1, <2>2, <2>3, <2>4, <2>5, OneStep DEF h
<1>3. CASE Checks
  <2>1. Head(todo) \in {"transcode checks", "directplay checks"} /\ rep' = rep
    BY <1>3 DEF Checks, At
  <2>2. CASE Done /\ UNCHANGED status
    <3>1. /\ Head(todo) \notin TransSet \cup DirectSet \cup {"dns", "probe", "ffprobe"}
          /\ Head(todo) # "write" /\ Head(todo) # "verdict"
      BY <2>1 DEF TransSet, DirectSet
    <3>2. NotedIn(rep', Head(todo)) /\ (Failed(rep') => Failed(rep))
      BY <2>1, <3>1 DEF NotedIn
    <3> QED BY <1>1, <2>1, <2>2, <3>1, <3>2, OneStep
  <2>3. CASE Exit("failed")
    BY <1>1, <2>1, <2>3, Stopped DEF Exit
  <2> QED BY <1>3, <2>2, <2>3 DEF Checks
<1>4. CASE Ffprobe
  <2>1. Head(todo) = "ffprobe" /\ rep' = [rep EXCEPT !.sections = @ \cup {"direct_play"}]
    BY <1>4 DEF Ffprobe, At
  <2>2. /\ rep' \in Reports /\ rep'.run = rep.run /\ rep'.phases = rep.phases
        /\ rep'.sections = rep.sections \cup {"direct_play"}
    BY <1>1, <2>1 DEF Reports
  <2>3. CASE Done /\ UNCHANGED status
    <3>1. NotedIn(rep', Head(todo)) /\ (Failed(rep') => Failed(rep))
      BY <2>1, <2>2 DEF NotedIn, Failed, TransSet, DirectSet
    <3>2. Head(todo) # "write" /\ Head(todo) # "verdict"
      BY <2>1
    <3> QED BY <1>1, <2>1, <2>2, <2>3, <3>1, <3>2, OneStep
  <2>4. CASE Exit("failed")
    BY <1>1, <2>2, <2>4, Stopped DEF Exit
  <2> QED BY <1>4, <2>3, <2>4 DEF Ffprobe
<1> QED BY <1>2, <1>3, <1>4

LEMMA TranscodeInv == ASSUME RunInv, Transcode PROVE RunInv'
<1>1. /\ status = "runs" /\ rep \in Reports /\ rep.run = n
      /\ UNCHANGED <<n, cmd, copied>> /\ Head(todo) \in TransSet
  BY Phases DEF Transcode, RunInv
<1>2. PICK pass \in BOOLEAN :
        /\ IF ~pass /\ Head(todo) = "idle"
             THEN UNCHANGED rep
             ELSE rep' = [rep EXCEPT !.phases = @ \cup {[name |-> Head(todo), pass |-> pass]}]
        /\ IF pass THEN Done /\ UNCHANGED status ELSE Exit("failed")
  BY DEF Transcode
<1> DEFINE h == Head(todo)
<1>3. CASE pass
  <2>1. /\ rep' \in Reports /\ rep'.run = rep.run /\ rep'.sections = rep.sections
        /\ rep.phases \subseteq rep'.phases /\ NotedIn(rep', h)
        /\ \A p \in rep'.phases \ rep.phases : p.name = h
        /\ Failed(rep') => Failed(rep)
    <3>1. rep' = [rep EXCEPT !.phases = @ \cup {[name |-> h, pass |-> pass]}] /\ h \in TransSet \cup DirectSet
      BY <1>1, <1>2, <1>3
    <3> HIDE DEF h
    <3> QED BY <1>1, <1>3, <3>1, AddPhase
  <2>2. h # "write" /\ h # "verdict"
    BY <1>1 DEF TransSet
  <2> QED BY <1>1, <1>2, <1>3, <2>1, <2>2, OneStep
<1>4. CASE ~pass
  <2>1. rep' \in Reports /\ rep'.run = rep.run
    <3>1. CASE rep' = rep
      BY <1>1, <3>1
    <3>2. CASE rep' = [rep EXCEPT !.phases = @ \cup {[name |-> h, pass |-> pass]}]
      <4>1. h \in TransSet \cup DirectSet
        BY <1>1
      <4> HIDE DEF h
      <4> QED BY <1>1, <3>2, <4>1, AddPhase
    <3> QED BY <1>2, <3>1, <3>2
  <2>2. status' = "failed"
    BY <1>2, <1>4 DEF Exit
  <2> QED BY <1>1, <2>1, <2>2, Stopped
<1> QED BY <1>3, <1>4

LEMMA DirectInv == ASSUME RunInv, Direct PROVE RunInv'
<1>1. /\ status = "runs" /\ rep \in Reports /\ rep.run = n
      /\ UNCHANGED <<n, cmd, status, copied>> /\ Head(todo) \in DirectSet /\ Done
  BY Phases DEF Direct, RunInv
<1> DEFINE h == Head(todo)
<1>2. PICK pass \in BOOLEAN : rep' = [rep EXCEPT !.phases = @ \cup {[name |-> h, pass |-> pass]}]
  BY DEF Direct
<1>3. /\ rep' \in Reports /\ rep'.run = rep.run /\ rep'.sections = rep.sections
      /\ rep.phases \subseteq rep'.phases /\ NotedIn(rep', h)
      /\ \A p \in rep'.phases \ rep.phases : p.name = h
  <2>1. h \in TransSet \cup DirectSet
    BY <1>1
  <2> HIDE DEF h
  <2> QED BY <1>1, <1>2, <2>1, AddPhase
<1>4. h # "write"
  BY <1>1 DEF DirectSet
<1> QED BY <1>1, <1>3, <1>4, OneStep

LEMMA VerdictInv == ASSUME RunInv, Judge \/ WriteReport PROVE RunInv'
<1>1. /\ status = "runs" /\ rep \in Reports /\ rep.run = n /\ UNCHANGED <<n, cmd, copied, rep>>
  BY DEF Judge, WriteReport, At, RunInv
<1>2. CASE Judge
  <2>1. Head(todo) = "verdict"
    BY <1>2 DEF Judge, At
  <2>2. CASE Verdict
    BY <1>1, <1>2, <2>2, Stopped DEF Judge, Exit
  <2>3. CASE ~Verdict
    <3>1. Done /\ UNCHANGED status /\ ~Failed(rep')
      BY <1>1, <1>2, <2>3 DEF Judge, Verdict
    <3>2. NotedIn(rep', Head(todo)) /\ Head(todo) # "write"
      BY <2>1 DEF NotedIn, TransSet, DirectSet
    <3> QED BY <1>1, <2>1, <3>1, <3>2, OneStep
  <2> QED BY <2>2, <2>3
<1>3. CASE WriteReport
  <2>1. PICK written \in Written(rep) : json' = written /\ status' = WriteStatus(written)
    BY <1>3 DEF WriteReport, Exit
  <2>2. Head(todo) = "write"
    BY <1>3 DEF WriteReport, At
  <2>3. Whole(rep)
    BY <1>1, <2>2, WholeAtWrite
  <2>4. CASE written = rep
    <3>1. status' = "ok" /\ json' = rep'
      BY <1>1, <2>1, <2>4 DEF WriteStatus
    <3>2. Whole(rep)' /\ (copied # NoReport => Whole(copied))'
      BY <1>1, <2>3, Zenon DEF Whole, Failed, RunInv
    <3> QED BY <1>1, <3>1, <3>2 DEF RunInv
  <2>5. CASE written # rep
    <3>1. status' = "failed"
      BY <2>1, <2>5 DEF WriteStatus
    <3> QED BY <1>1, <3>1, Stopped
  <2> QED BY <2>4, <2>5
<1> QED BY <1>2, <1>3

LEMMA OutsideInv == ASSUME RunInv, Fetch \/ Evict \/ UNCHANGED runVars PROVE RunInv'
<1>1. CASE Fetch
  <2>1. UNCHANGED <<n, cmd, rep, json>> /\ status' = "none"
    BY <1>1 DEF Fetch
  <2>2. copied' = copied \/ (copied' = rep /\ Whole(rep))
    BY <1>1 DEF Fetch, RunInv
  <2>3. (copied # NoReport => Whole(copied))'
    BY <2>2, Zenon DEF RunInv, Whole, Failed
  <2> QED BY <2>1, <2>3 DEF RunInv
<1>2. CASE Evict \/ UNCHANGED runVars
  <2>1. UNCHANGED <<n, cmd, rep, json, status, todo, copied>>
    BY <1>2 DEF Evict, runVars
  <2>2. (status = "runs" => Progress)'
    <3> SUFFICES ASSUME Progress PROVE Progress'
      BY <2>1 DEF RunInv
    <3>1. (todo \in Seq(Steps) /\ todo # <<>> /\ Ordered(todo))'
      BY <2>1, Zenon DEF Progress, Ordered
    <3>2. (\A x : InSeq(x, todo) => Planned(cmd, x))' /\ (\A x : Planned(cmd, x) => InSeq(x, todo) \/ NotedIn(rep, x))'
      BY <2>1, Zenon DEF Progress, InSeq, NotedIn, Planned
    <3>3. (\A p \in rep.phases : Planned(cmd, p.name))' /\ ("direct_play" \in rep.sections => Planned(cmd, "ffprobe"))'
      BY <2>1, Zenon DEF Progress, Planned
    <3>4. (Failed(rep) => InSeq("verdict", todo))'
      BY <2>1, Zenon DEF Progress, InSeq, Failed
    <3> QED BY <3>1, <3>2, <3>3, <3>4 DEF Progress
  <2>3. (status = "ok" => json = rep /\ Whole(rep))' /\ (copied # NoReport => Whole(copied))'
    BY <2>1, Zenon DEF RunInv, Whole, Failed
  <2> QED BY <2>1, <2>2, <2>3 DEF RunInv
<1> QED BY <1>1, <1>2

LEMMA RunInvCorrect == RunSpec => []RunInv
<1>1. RunInv /\ [RunNext]_runVars => RunInv'
  BY StartInv, SectionsInv, TranscodeInv, DirectInv, VerdictInv, OutsideInv DEF RunNext
<1> QED BY <1>1, RunInitInv, PTL DEF RunSpec

\* The report that is fetched is whole: of every section and phase that its
\* subcommand asks for, none failed and the file not cut, for every subcommand,
\* any number of runs and writes of the file that fail or stop half way.
THEOREM CopiedIsWholeCorrect == RunSpec => []CopiedIsWhole
<1>1. RunInv => CopiedIsWhole
  BY DEF RunInv, Whole, CopiedIsWhole
<1> QED BY <1>1, RunInvCorrect, PTL

\* It is the one the run that has just ended wrote, whatever the runs before
\* left in the file.
THEOREM CopiedIsFreshCorrect == RunSpec => CopiedIsFresh
<1>1. RunInv /\ [RunNext]_runVars => [copied' # copied => copied'.run = n]_runVars
  <2> SUFFICES ASSUME RunInv, RunNext, copied' # copied PROVE copied'.run = n
    OBVIOUS
  <2>1. Fetch
    BY DEF RunNext, Run, Dns, Probe, Checks, Transcode, Ffprobe, Direct, Judge, WriteReport, Evict
  <2> QED BY <2>1 DEF Fetch, RunInv
<1> QED BY <1>1, RunInvCorrect, PTL DEF RunSpec, CopiedIsFresh

\* A Direct Play phase whose cache is to be dropped reads from the server only
\* or is one whose drop failed, whatever was cached and however often pages are
\* evicted.
THEOREM ColdReadsCorrect == RunSpec => []ColdReads
<1>1. RunInit => ColdReads
  BY DEF RunInit, ColdReads
<1>2. ColdReads /\ [RunNext]_runVars => ColdReads'
  <2> SUFFICES ASSUME ColdReads, [RunNext]_runVars PROVE ColdReads'
    OBVIOUS
  <2>1. CASE Run
    BY <2>1 DEF Run, ColdReads
  <2>2. CASE Direct
    <3>1. PICK R \in SUBSET Part,
               drop \in IF dropCache /\ Head(todo) \in Drops THEN {"done", "failed"} ELSE {"none"} :
                 LET warm == IF drop = "done" THEN {} ELSE cached IN
                 /\ fromCache' = IF R \cap warm = {} THEN fromCache ELSE fromCache \cup {Head(todo)}
                 /\ notDropped' = IF drop = "failed" THEN notDropped \cup {Head(todo)} ELSE notDropped
      BY <2>2 DEF Direct
    <3>2. dropCache' = dropCache
      BY <2>2 DEF Direct
    <3>3. CASE fromCache' = fromCache
      BY <3>1, <3>2, <3>3 DEF ColdReads
    <3>4. CASE fromCache' = fromCache \cup {Head(todo)} /\ drop # "done"
      <4>1. dropCache /\ Head(todo) \in {"player_buffer", "nfs_sequential_max"} => Head(todo) \in notDropped'
        BY <3>1, <3>4 DEF Drops
      <4> QED BY <3>1, <3>2, <3>4, <4>1 DEF ColdReads
    <3> QED BY <3>1, <3>3, <3>4
  <2>3. CASE UNCHANGED <<dropCache, fromCache, notDropped>>
    BY <2>3 DEF ColdReads
  <2> QED BY <2>1, <2>2, <2>3 DEF RunNext, Dns, Probe, Checks, Transcode, Ffprobe, Judge,
        WriteReport, Fetch, Evict, runVars, reading
<1> QED BY <1>1, <1>2, PTL DEF RunSpec

=============================================================================
