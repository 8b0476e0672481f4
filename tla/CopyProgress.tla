---------------------------- MODULE CopyProgress ----------------------------
(***************************************************************************)
(* scripts/jellyfin-io-bench/directplay.go, runFFmpegCopy with             *)
(* parseFFmpegProgress: the progress reports of one ffmpeg -c copy, paced  *)
(* with -re or not, are judged for stalls.                                 *)
(*                                                                         *)
(* Time and media are counted in ticks of -stats_period, half a second.    *)
(* ffmpeg prints speed= as media over time since it started, and with -re  *)
(* it catches up after a read that took long.                              *)
(***************************************************************************)
EXTENDS Naturals, Sequences, FiniteSets

CONSTANTS
  MediaFor,     \* -t
  Clip,         \* media from the seek point to the end of the file
  MaxWall,      \* bound on the length of the run
  SlowNum, SlowDen   \* 0.90

ASSUME CopyAssumption ==
  /\ MediaFor \in Nat \ {0} /\ Clip \in Nat /\ MaxWall \in Nat
  /\ SlowNum \in Nat /\ SlowDen \in Nat \ {0}

Media == IF MediaFor < Clip THEN MediaFor ELSE Clip

VARIABLES
  paced,    \* -re
  clock,    \* ffmpeg's own clock
  media,    \* media that was demuxed
  ffmpeg,   \* "runs", "ok" or "failed"
  slowRun, slowN,
  reports   \* history: whether each report was slow

copyVars == <<paced, clock, media, ffmpeg, slowRun, slowN, reports>>

CopyInit ==
  /\ paced \in BOOLEAN
  /\ clock = 0 /\ media = 0 /\ ffmpeg = "runs"
  /\ slowRun = 0 /\ slowN = 0
  /\ reports = <<>>

\* speed=: the average since the start.  Before any media it is N/A or 0x,
\* which the callback does not take for slow.
Slow(m, t) == m > 0 /\ m * SlowDen < SlowNum * t

\* Mutant: every slow report from the third on is a stall.
SlowN_Each(m, t) == IF paced /\ Slow(m, t) /\ slowRun + 1 >= 3 THEN slowN + 1 ELSE slowN

SlowRun(m, t) == IF paced /\ Slow(m, t) THEN slowRun + 1 ELSE 0
SlowN(m, t) == IF paced /\ Slow(m, t) /\ slowRun + 1 = 3 THEN slowN + 1 ELSE slowN

\* onSample.  Consecutive slow reports count once, at the third.
ProgressReport(m, t) ==
  /\ slowRun' = SlowRun(m, t)
  /\ slowN' = SlowN(m, t)
  /\ reports' = Append(reports, paced /\ Slow(m, t))

ReportMissed == UNCHANGED <<slowRun, slowN, reports>>

\* What can be demuxed by time t: with -re no more than t, otherwise any of it.
Reachable(t) == media .. (IF paced /\ t < Media THEN t ELSE Media)

\* Half a second of ffmpeg.  A report is due, and is missed when ffmpeg is
\* blocked in a read.
Tick ==
  /\ ffmpeg = "runs" /\ media < Media /\ clock < MaxWall
  /\ \E m \in Reachable(clock + 1) :
       /\ media' = m
       /\ ProgressReport(m, clock + 1) \/ ReportMissed
  /\ clock' = clock + 1
  /\ UNCHANGED <<paced, ffmpeg>>

\* All of the media is through: progress=end and exit status 0.
End ==
  /\ ffmpeg = "runs" /\ media = Media
  /\ ffmpeg' = "ok"
  /\ ProgressReport(media, clock)
  /\ UNCHANGED <<paced, clock, media>>

\* A read error or a signal; the last report may not get out.
Fail ==
  /\ ffmpeg = "runs"
  /\ ffmpeg' = "failed"
  /\ ProgressReport(media, clock) \/ ReportMissed
  /\ UNCHANGED <<paced, clock, media>>

CopyNext == Tick \/ End \/ Fail

CopySpec == CopyInit /\ [][CopyNext]_copyVars

-----------------------------------------------------------------------------
(* Properties *)

\* The third report of every run of slow reports.
Stalls == {i \in 3 .. Len(reports) :
             /\ reports[i] /\ reports[i - 1] /\ reports[i - 2]
             /\ i > 3 => ~reports[i - 3]}

\* StallCount of the report is the number of runs of three or more slow
\* reports, however they are interleaved with fast and missing ones.
StallsCounted == slowN = Cardinality(Stalls)

=============================================================================
