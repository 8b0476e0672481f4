------------------------- MODULE PlaybackSchedule -------------------------
(***************************************************************************)
(* What a player with a finite buffer is promised to measure: playback     *)
(* starts when Preroll has arrived, is due at a constant rate from then    *)
(* on, and has waited for as long as the data was ever late.  There is no  *)
(* buffer here.  Time is counted in the bytes that are played in it.       *)
(***************************************************************************)
EXTENDS Naturals

CONSTANTS Preroll, MaxDelay, MaxRead

VARIABLES
  clock,    \* now
  arrived,  \* data that has arrived
  started,  \* whether playback has started
  start,    \* and when
  late      \* the longest the data that was due has been late

vars == <<clock, arrived, started, start, late>>

Init == clock = 0 /\ arrived = 0 /\ started = FALSE /\ start = 0 /\ late = 0

\* Before the new data is there, playback is due up to the new time.
Late(t) == IF started /\ t > start + arrived + late
             THEN t - (start + arrived) ELSE late

Elapse(dt) == clock' = clock + dt /\ late' = Late(clock + dt)

Wait(dt) == Elapse(dt) /\ UNCHANGED <<arrived, started, start>>

Arrive(dt, n) ==
  /\ Elapse(dt)
  /\ arrived' = arrived + n
  /\ IF ~started /\ arrived + n >= Preroll
       THEN started' = TRUE /\ start' = clock + dt
       ELSE UNCHANGED <<started, start>>

Next == \E dt \in 0 .. MaxDelay : Wait(dt) \/ \E n \in 0 .. MaxRead : Arrive(dt, n)

Spec == Init /\ [][Next]_vars

===========================================================================
