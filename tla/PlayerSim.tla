----------------------------- MODULE PlayerSim -----------------------------
(***************************************************************************)
(* scripts/jellyfin-io-bench/directplay.go, runPlayerSim: a player that    *)
(* reads a file into a finite buffer, starts when the buffer is full and   *)
(* drains it at a constant rate.                                           *)
(*                                                                         *)
(* Data is counted in bytes and time in the bytes the player drains in it, *)
(* so that drainBps * dt is dt.  The one-second windows are reported and   *)
(* decide nothing; they are left out.                                      *)
(***************************************************************************)
EXTENDS Naturals

CONSTANTS
  Cap,       \* capBytes, and preroll: drainBps * buffer
  Buf,       \* len(buf), the largest read
  Size,      \* bytes of the file after the offset
  RunFor,    \* the length of the phase
  MaxDelay,  \* the longest that one turn of the loop takes
  Sleep      \* the shortest time.Sleep(5 * time.Millisecond) takes

ASSUME PlayerAssumption ==
  /\ Cap \in Nat \ {0} /\ Buf \in Nat \ {0} /\ Size \in Nat /\ RunFor \in Nat
  /\ MaxDelay \in Nat /\ Sleep \in 1 .. MaxDelay

VARIABLES
  pc,         \* "open", "loop", or "done" after the loop
  last,       \* the time drained to, since start
  level,      \* bytes in the buffer
  playing, playStart,
  total,      \* bytes read
  stallN, stallDur,
  error       \* whether ph.Error is set

playerVars == <<pc, last, level, playing, playStart, total, stallN, stallDur, error>>

PlayerInit ==
  /\ pc = "open" /\ last = 0 /\ level = 0
  /\ playing = FALSE /\ playStart = 0
  /\ total = 0 /\ stallN = 0 /\ stallDur = 0
  /\ error = FALSE

\* os.Open and Seek; when one fails the phase is over.
Open ==
  /\ pc = "open"
  /\ \/ pc' = "loop" /\ UNCHANGED error
     \/ pc' = "done" /\ error' = TRUE
  /\ UNCHANGED <<last, level, playing, playStart, total, stallN, stallDur>>

\* Mutant: what is left in the buffer is not played in a stall.
Missed_Whole(dt) == IF playing /\ level < dt THEN dt ELSE 0

\* drain: what the buffer lacks for dt.
Missed(dt) == IF playing /\ level < dt THEN dt - level ELSE 0

Drained(dt) == IF ~playing THEN level ELSE IF level < dt THEN 0 ELSE level - dt

\* Mutant: a stall is counted when the buffer runs dry, not while it is dry.
StallsAfter_Edge(dt) == IF Missed(dt) > 0 /\ level > 0 THEN stallN + 1 ELSE stallN

StallsAfter(dt) == IF Missed(dt) > 0 THEN stallN + 1 ELSE stallN

Drain(dt) ==
  /\ last' = last + dt
  /\ stallDur' = stallDur + Missed(dt)
  /\ stallN' = StallsAfter(dt)

Full == playing /\ level + 1 >= Cap

\* toRead: while it plays, the player asks for no more than it has room for.
ToRead == LET space == IF Cap > level THEN Cap - level ELSE 1
          IN  IF playing /\ space < Buf THEN space ELSE Buf

\* now.Sub(start) >= runFor, at a time dt after the last drain.
Finish(dt) ==
  /\ pc = "loop" /\ last + dt >= RunFor
  /\ Drain(dt)
  /\ level' = Drained(dt)
  /\ pc' = "done"
  /\ error' = ~playing
  /\ UNCHANGED <<playing, playStart, total>>

Pause(dt) ==
  /\ pc = "loop" /\ last < RunFor
  /\ Full /\ dt >= Sleep
  /\ Drain(dt)
  /\ level' = Drained(dt)
  /\ UNCHANGED <<pc, playing, playStart, total, error>>

Begins(n) == ~playing /\ level + n >= Cap

\* A read that took dt and brought n bytes: the time is drained before the
\* bytes are there.
Read(dt, n) ==
  /\ pc = "loop" /\ last < RunFor /\ ~Full
  /\ n \in 1 .. ToRead /\ total + n <= Size
  /\ Drain(dt)
  /\ level' = Drained(dt) + n
  /\ total' = total + n
  /\ playing' = (playing \/ Begins(n))
  /\ playStart' = IF Begins(n) THEN last + dt ELSE playStart
  /\ UNCHANGED <<pc, error>>

\* io.EOF, or any other error, which ends the loop as well.
ReadEnds(dt) ==
  /\ pc = "loop" /\ last < RunFor /\ ~Full
  /\ Drain(dt)
  /\ level' = Drained(dt)
  /\ pc' = "done"
  /\ \/ total = Size /\ error' = ~playing
     \/ error' = TRUE
  /\ UNCHANGED <<playing, playStart, total>>

PlayerNext ==
  \/ Open
  \/ \E dt \in 0 .. MaxDelay :
       Finish(dt) \/ Pause(dt) \/ ReadEnds(dt) \/ \E n \in 1 .. Buf : Read(dt, n)

PlayerSpec == PlayerInit /\ [][PlayerNext]_playerVars

-----------------------------------------------------------------------------
(* Properties *)

PlayerTypeOK ==
  /\ pc \in {"open", "loop", "done"}
  /\ last \in Nat /\ level \in Nat /\ playStart \in Nat
  /\ total \in 0 .. Size
  /\ stallN \in Nat /\ stallDur \in Nat
  /\ playing \in BOOLEAN /\ error \in BOOLEAN

\* Whatever the reads do, the stalls runPlayerSim adds up are what a player
\* without a buffer model would have waited: playback is due at the drain
\* rate from the preroll on, and has waited as long as data was ever late.
Schedule == INSTANCE PlaybackSchedule WITH
  Preroll <- Cap, MaxRead <- Buf, clock <- last, arrived <- total,
  started <- playing, start <- playStart, late <- stallDur

ImplementsSchedule == Schedule!Spec

\* player.Pass of runDirectPlay; PlayingSeconds is not 0 once it plays.
PlayerPass == pc = "done" /\ ~error /\ stallN = 0 /\ playing

\* player.Pass looks at the number of stalls alone.  A phase that passes was
\* fed in time up to its end, also through reads that ended just as the
\* buffer ran dry.
PassMeansSmooth == PlayerPass => stallDur = 0 /\ last <= playStart + total

\* docs/services/jellyfin.md calls the buffer finite: once it plays, no
\* read takes the buffer over its capacity, with reads of 1 MiB at any level.
NeverOverfilled == [][playing /\ level' > level => level' <= Cap]_playerVars

=============================================================================
