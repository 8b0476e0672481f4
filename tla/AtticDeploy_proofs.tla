------------------------- MODULE AtticDeploy_proofs -------------------------
(***************************************************************************)
(* Proofs about AtticDeploy, for any fleet, any closures, any number of    *)
(* concurrent runs and any number of faults: a host's running system is    *)
(* whole in its store, what a deploy switched a host to is on Attic, a     *)
(* host is given what Attic serves, a build that exits 0 has filled what   *)
(* it was asked to fill, and a deploy that fills fails only by a command   *)
(* of its own that nothing retries.                                        *)
(***************************************************************************)
EXTENDS AtticDeploy, FiniteSetTheorems, SequenceTheorems, TLAPS

-----------------------------------------------------------------------------
(* Types *)

\* A run that lists or pushes has something left to fill, and one that is past
\* the narinfo gate has a path.
OkState(r) ==
  /\ r \in JobState
  /\ r.pc \in {"list", "push"} => r.todo # <<>>
  /\ r.pc \in {"realize", "copy", "switch"} => r.out \in Path

JobsOk == job \in [Job -> JobState] /\ \A k \in Job : OkState(job[k])

LEMMA GoOk ==
  ASSUME JobsOk, NEW j \in Job, NEW r, OkState(r), Go(j, r)
  PROVE  JobsOk'
BY DEF JobsOk, OkState, Go

\* What the records that the actions build are.
LEMMA ToOk ==
  ASSUME NEW j \in Job, OkState(job[j]), NEW s \in Running \cup Finished,
         s \in {"list", "push"} => job[j].todo # <<>>,
         s \in {"realize", "copy", "switch"} => job[j].out \in Path
  PROVE  OkState(To(j, s))
BY DEF OkState, To, JobState, Running, Finished

LEMMA FillOk ==
  ASSUME NEW j \in Job, OkState(job[j]), NEW f \in Phase, NEW t \in Seq(Path)
  PROVE  OkState(Fill(j, f, t))
BY DEF OkState, Fill, JobState, Running, Finished, Phase

LEMMA AfterLoginOk ==
  ASSUME NEW j \in Job, OkState(job[j]), env[j] \in Env
  PROVE  OkState(AfterLogin(j))
<1>1. CASE env[j].script = "verify"
  BY <1>1, ToOk DEF AfterLogin, Running
<1>2. CASE env[j].script = "deploy" /\ Has(j, "SKIP_FILL")
  <2>1. AfterLogin(j) = [job[j] EXCEPT !.pc = "prove", !.phase = "host", !.out = env[j].profile]
    BY <1>2 DEF AfterLogin, To, OkState, JobState
  <2> QED BY <2>1 DEF OkState, JobState, Running, Finished, Phase, Env
<1>3. CASE ~(env[j].script = "verify") /\ ~(env[j].script = "deploy" /\ Has(j, "SKIP_FILL"))
  <2>1. <<Cli>> \in Seq(Path) /\ <<Cli>> # <<>>
    BY FleetAssumption
  <2>2. AfterLogin(j) = [job[j] EXCEPT !.pc = "list", !.phase = "cli", !.todo = <<Cli>>]
    BY <1>3 DEF AfterLogin, To, OkState, JobState
  <2> QED BY <2>1, <2>2 DEF OkState, JobState, Running, Finished, Phase
<1> QED BY <1>1, <1>2, <1>3

LEMMA NextBatchOk ==
  ASSUME NEW j \in Job, OkState(job[j])
  PROVE  OkState(NextBatch(j))
<1>1. 0 \in 0 .. (IF PushTries > CopyTries THEN PushTries ELSE CopyTries) - 1
  BY BoundAssumption
<1> QED BY <1>1 DEF OkState, NextBatch, JobState

LEMMA NextTryOk ==
  ASSUME NEW j \in Job, OkState(job[j]),
         job[j].tries + 1 < PushTries \/ job[j].tries + 1 < CopyTries
  PROVE  OkState(NextTry(j))
<1>1. job[j].tries + 1 \in 0 .. (IF PushTries > CopyTries THEN PushTries ELSE CopyTries) - 1
  BY BoundAssumption DEF OkState, JobState
<1> QED BY <1>1 DEF OkState, NextTry, JobState

\* The fill of the hosts is a sequence of paths.
LEMMA HostOrdersType ==
  ASSUME NEW j \in Job, env[j] \in Envs, NEW s \in HostOrders(j)
  PROVE  s \in Seq(Path)
<1> DEFINE S == {p \in env[j].selected : ~(Has(j, "SKIP_IF_CACHED") /\ Cached(p))}
<1>1. IsFiniteSet(S) /\ S \subseteq Path
  <2>1. IsFiniteSet(env[j].selected) /\ env[j].selected \subseteq Path
    BY EnvAssumption DEF Env
  <2> QED BY <2>1, FS_Subset
<1>2. Cardinality(S) \in Nat
  BY <1>1, FS_CardinalityType
<1>3. s \in [1 .. Cardinality(S) -> S]
  BY Zenon DEF HostOrders
<1> HIDE DEF S
<1>4. s \in [1 .. Cardinality(S) -> Path]
  BY <1>1, <1>3
<1> QED BY <1>2, <1>4, SeqDef

\* The end of attic_fill_installable for a deploy, with and without a path.
LEMMA FilledOk ==
  ASSUME NEW j \in Job, OkState(job[j])
  PROVE  /\ OkState([To(j, "prove") EXCEPT !.todo = <<>>])
         /\ \A q \in Path : OkState([To(j, "prove") EXCEPT !.todo = <<>>, !.out = q])
<1>1. <<>> \in Seq(Path)
  OBVIOUS
<1>2. [To(j, "prove") EXCEPT !.todo = <<>>] = [job[j] EXCEPT !.pc = "prove", !.todo = <<>>]
  BY DEF To, OkState, JobState
<1>3. ASSUME NEW q \in Path
      PROVE  OkState([To(j, "prove") EXCEPT !.todo = <<>>, !.out = q])
  <2>1. [To(j, "prove") EXCEPT !.todo = <<>>, !.out = q]
        = [job[j] EXCEPT !.pc = "prove", !.todo = <<>>, !.out = q]
    BY DEF To, OkState, JobState
  <2> QED BY <1>1, <2>1 DEF OkState, JobState, Running
<1> QED BY <1>1, <1>2, <1>3 DEF OkState, JobState, Running

LEMMA TailOk ==
  ASSUME NEW j \in Job, OkState(job[j]), job[j].todo # <<>>
  PROVE  /\ Head(job[j].todo) \in Path
         /\ OkState([To(j, "fill") EXCEPT !.todo = Tail(@)])
         /\ job[j].pc = "fill" => OkState([job[j] EXCEPT !.todo = Tail(@)])
<1>1. Head(job[j].todo) \in Path /\ Tail(job[j].todo) \in Seq(Path)
  BY DEF OkState, JobState
<1>2. [To(j, "fill") EXCEPT !.todo = Tail(@)]
      = [job[j] EXCEPT !.pc = "fill", !.todo = Tail(@)]
  BY DEF To, OkState, JobState
<1> QED BY <1>1, <1>2 DEF OkState, JobState, Running

\* A command that fails of itself leaves a run a run.
LEMMA BreakdownJobs ==
  ASSUME JobsOk, NEW j \in Job, Breakdown(j)
  PROVE  JobsOk'
<1>1. OkState(job[j])
  BY DEF JobsOk
<1>2. \A s \in {"failed", "done"} : OkState(To(j, s))
  BY <1>1, ToOk DEF Running, Finished
<1>3. OkState(NoOutPath(j))
  BY <1>1, <1>2, FilledOk DEF NoOutPath
<1>4. At(j, "list") => OkState(To(j, "push"))
  BY <1>1, ToOk DEF At, OkState, Running
<1>5. \/ \E s \in {"failed", "done"} : Go(j, To(j, s))
      \/ Go(j, NoOutPath(j))
      \/ At(j, "list") /\ Go(j, To(j, "push"))
  BY Zenon DEF Breakdown, StartFails, BuildFails, ListFails, HostListFails, ProveFails,
               RealizeFails, SwitchFails, Breaks
<1> QED BY <1>2, <1>3, <1>4, <1>5, GoOk

\* What a run does to itself, whichever action it takes, leaves it a run.
LEMMA StepJobs ==
  ASSUME TypeOK, JobsOk, NEW j \in Job, Step(j) \/ Kill(j)
  PROVE  JobsOk'
<1>1. OkState(job[j]) /\ env[j] \in Env /\ env[j] \in Envs
  BY EnvAssumption DEF TypeOK, JobsOk
<1>2. \A s \in {"skipped", "failed", "killed", "done", "prove"} : OkState(To(j, s))
  BY <1>1, ToOk DEF Running, Finished
<1>3. \A r : OkState(r) /\ Go(j, r) => JobsOk'
  BY GoOk
<1>4. CASE Skip(j) BY <1>2, <1>3, <1>4 DEF Skip
<1>5. CASE EnsureCli(j)
  BY <1>1, <1>2, <1>3, <1>5, AfterLoginOk DEF EnsureCli
<1>6. CASE FillSkip(j)
  <2>1. At(j, "fill") /\ job[j].todo # <<>>
    BY <1>6 DEF FillSkip
  <2>2. CASE Strict(j)
    BY <1>1, <1>3, <1>6, <2>1, <2>2, TailOk DEF FillSkip, At
  <2>3. CASE ~Strict(j)
    BY <1>1, <1>3, <1>6, <2>1, <2>3, TailOk, FilledOk DEF FillSkip
  <2> QED BY <2>2, <2>3
<1>7. CASE FillBuild(j)
  <2>1. job[j].todo # <<>>
    BY <1>7 DEF FillBuild
  <2>2. OkState(To(j, "list"))
    BY <1>1, <2>1, ToOk DEF Running
  <2>3. OkState(NoOutPath(j))
    BY <1>1, <1>2, FilledOk DEF NoOutPath
  <2> QED BY <1>3, <1>7, <2>2, <2>3 DEF FillBuild
<1>8. CASE ListClosure(j)
  <2> DEFINE p == Head(job[j].todo)
  <2>1. job[j].todo # <<>>
    BY <1>1, <1>8 DEF ListClosure, At, OkState
  <2>2. OkState(To(j, "push"))
    BY <1>1, <2>1, ToOk DEF Running
  <2>3. Closure[p] \in SUBSET Path
    BY <1>1, <2>1, TailOk, ClosureAssumption
  <2>4. OkState([To(j, "push") EXCEPT !.push = Closure[p]])
    BY <2>2, <2>3 DEF OkState, JobState
  <2> HIDE DEF p
  <2>5. \/ Go(j, [To(j, "push") EXCEPT !.push = Closure[p]])
        \/ Go(j, To(j, "failed")) \/ Go(j, To(j, "push"))
    BY <1>8 DEF ListClosure, p
  <2> QED BY <1>2, <1>3, <2>2, <2>4, <2>5
<1>9. CASE PushOk(j)
  BY <1>1, <1>3, <1>9, NextBatchOk DEF PushOk
<1>10. CASE PushFails(j)
  <2>1. OkState(AfterFailedPush(j))
    BY <1>1, <1>2, NextTryOk, NextBatchOk DEF AfterFailedPush
  <2> QED BY <1>3, <1>10, <2>1 DEF PushFails
<1>11. CASE Pushed(j)
  <2>1. job[j].todo # <<>>
    BY <1>1, <1>11 DEF Pushed, At, OkState
  <2>2. CASE Strict(j)
    BY <1>1, <1>3, <1>11, <2>1, <2>2, TailOk DEF Pushed
  <2>3. CASE ~Strict(j)
    BY <1>1, <1>3, <1>11, <2>1, <2>3, TailOk, FilledOk DEF Pushed
  <2> QED BY <2>2, <2>3
<1>12. CASE FillNextPhase(j)
  <2>1. <<env[j].profile>> \in Seq(Path) /\ Tooling \in Seq(Path)
    BY <1>1, FleetAssumption DEF Env
  <2>2. \A s \in HostOrders(j) : s \in Seq(Path)
    BY <1>1, HostOrdersType
  <2>3. \A f \in Phase, t \in Seq(Path) : OkState(Fill(j, f, t))
    BY <1>1, FillOk
  <2> QED BY <1>2, <1>3, <1>12, <2>1, <2>2, <2>3 DEF FillNextPhase, Phase
<1>13. CASE Verify(j) BY <1>2, <1>3, <1>13 DEF Verify
<1>14. CASE Prove(j)
  <2>1. job[j].out \in Path =>
          OkState(To(j, "copy")) /\ OkState(To(j, "realize"))
    BY <1>1, ToOk DEF Running
  <2> QED BY <1>2, <1>3, <1>14, <2>1 DEF Prove, Cached
<1>15. CASE Realize(j)
  <2>1. OkState(To(j, "copy")) /\ OkState(To(j, "switch"))
    BY <1>1, <1>15, ToOk DEF Realize, At, OkState, Running
  <2> QED BY <1>2, <1>3, <1>15, <2>1 DEF Realize
<1>16. CASE CopyOk(j)
  <2>1. OkState(To(j, "switch"))
    BY <1>1, <1>16, ToOk DEF CopyOk, At, OkState, Running
  <2> QED BY <1>3, <1>16, <2>1 DEF CopyOk
<1>17. CASE CopyFails(j)
  <2>1. OkState(AfterFailedCopy(j))
    BY <1>1, <1>2, NextTryOk DEF AfterFailedCopy
  <2> QED BY <1>3, <1>17, <2>1 DEF CopyFails
<1>18. CASE Switch(j) BY <1>2, <1>3, <1>18 DEF Switch
<1>19. CASE Kill(j) BY <1>2, <1>3, <1>19 DEF Kill
<1> QED
  BY <1>4, <1>5, <1>6, <1>7, <1>8, <1>9, <1>10, <1>11, <1>12, <1>13, <1>14, <1>15,
     <1>16, <1>17, <1>18, <1>19 DEF Step

-----------------------------------------------------------------------------
(* Stores *)

\* A Nix store holds the closure of every path it holds.
Closed(S) == \A q \in S : Closure[q] \subseteq S

StoresClosed == \A m \in Machine : Closed(store[m])

StoresOk ==
  /\ store \in [Machine -> SUBSET Path]
  /\ current \in [Host -> Path]
  /\ StoresClosed
  /\ RunningIsWhole

LEMMA ClosureClosed ==
  ASSUME NEW p \in Path
  PROVE  Closure[p] \subseteq Path /\ p \in Closure[p] /\ Closed(Closure[p])
BY ClosureAssumption DEF Closed

LEMMA ClosedUnion ==
  ASSUME NEW S, NEW T, Closed(S), Closed(T)
  PROVE  Closed(S \cup T)
BY DEF Closed

LEMMA Grow ==
  ASSUME StoresOk, NEW m \in Machine, NEW D \in SUBSET Path, Closed(store[m] \cup D),
         store' = [store EXCEPT ![m] = @ \cup D], UNCHANGED current
  PROVE  StoresOk'
<1>1. \A k \in Machine : store[k] \subseteq store'[k] /\ Closed(store'[k])
  BY DEF StoresOk, StoresClosed
<1>2. store' \in [Machine -> SUBSET Path]
  BY DEF StoresOk
<1>3. RunningIsWhole'
  BY <1>1, FleetAssumption DEF StoresOk, RunningIsWhole
<1> QED BY <1>1, <1>2, <1>3 DEF StoresOk, StoresClosed

LEMMA GrowByClosure ==
  ASSUME StoresOk, NEW m \in Machine, NEW p \in Path,
         store' = [store EXCEPT ![m] = @ \cup Closure[p]], UNCHANGED current
  PROVE  StoresOk'
<1>1. Closed(store[m] \cup Closure[p]) /\ Closure[p] \in SUBSET Path
  BY ClosureClosed, ClosedUnion DEF StoresOk, StoresClosed
<1> QED BY <1>1, Grow

LEMMA GrowByMissing ==
  ASSUME StoresOk, NEW m \in Machine, NEW p \in Path,
         store' = [store EXCEPT ![m] = @ \cup Missing(m, p)], UNCHANGED current
  PROVE  StoresOk'
<1>1. Closed(store[m] \cup Closure[p]) /\ Closure[p] \in SUBSET Path
  BY ClosureClosed, ClosedUnion DEF StoresOk, StoresClosed
<1>2. store[m] \cup Missing(m, p) = store[m] \cup Closure[p] /\ Missing(m, p) \in SUBSET Path
  BY <1>1 DEF Missing
<1> QED BY <1>1, <1>2, Grow

LEMMA GrowByPart ==
  ASSUME StoresOk, NEW m \in Machine, NEW p \in Path, NEW D \in PartialCopies(m, p),
         Gains(m, D), UNCHANGED current
  PROVE  StoresOk'
<1>1. D \in SUBSET Path
  BY ClosureClosed DEF PartialCopies, Missing
<1>2. Closed(store[m] \cup D)
  BY DEF StoresOk, StoresClosed, Closed, PartialCopies
<1> QED BY <1>1, <1>2, Grow DEF Gains

\* A system that is activated is in the store of its host.
LEMMA ActivatesOk ==
  ASSUME StoresOk, NEW j \in Job, env[j].host \in Host, Activates(j), UNCHANGED store
  PROVE  StoresOk'
<1> DEFINE h == env[j].host
<1>1. job[j].out \in store[h] /\ current' = [current EXCEPT ![h] = job[j].out]
  BY DEF Activates
<1>2. h \in Machine /\ job[j].out \in Path
  BY <1>1, FleetAssumption DEF StoresOk
<1>3. Closure[job[j].out] \subseteq store[h]
  BY <1>1, <1>2 DEF StoresOk, StoresClosed, Closed
<1>4. RunningIsWhole'
  BY <1>1, <1>3 DEF StoresOk, RunningIsWhole
<1>5. current' \in [Host -> Path]
  BY <1>1, <1>2 DEF StoresOk
<1> QED BY <1>4, <1>5 DEF StoresOk, StoresClosed

\* What nix store delete does not refuse leaves no hole.
LEMMA Shrink ==
  ASSUME StoresOk, NEW m \in Machine, NEW p \in Path, Deletable(m, p),
         store' = [store EXCEPT ![m] = @ \ {p}], UNCHANGED current
  PROVE  StoresOk'
<1>1. store' \in [Machine -> SUBSET Path]
  BY DEF StoresOk
<1>2. StoresClosed'
  <2> SUFFICES ASSUME NEW k \in Machine, NEW q \in store'[k]
               PROVE  Closure[q] \subseteq store'[k]
    BY DEF StoresClosed, Closed
  <2>1. CASE k = m
    BY <2>1 DEF StoresOk, StoresClosed, Closed, Deletable
  <2>2. CASE k # m
    BY <2>2 DEF StoresOk, StoresClosed, Closed
  <2> QED BY <2>1, <2>2
<1>3. RunningIsWhole'
  BY FleetAssumption DEF StoresOk, RunningIsWhole, Deletable
<1> QED BY <1>1, <1>2, <1>3 DEF StoresOk

LEMMA StepStores ==
  ASSUME TypeOK, JobsOk, StoresOk, NEW j \in Job, Step(j) \/ Kill(j)
  PROVE  StoresOk'
<1> DEFINE m == env[j].at
           h == env[j].host
           p == Head(job[j].todo)
<1>1. /\ OkState(job[j]) /\ env[j] \in Env
      /\ m \in Machine /\ h \in Host /\ h \in Machine /\ env[j].profile \in Path
  BY EnvAssumption, FleetAssumption DEF TypeOK, JobsOk, Env
<1>2. job[j].todo # <<>> => p \in Path
  BY <1>1, TailOk
<1>3. ASSUME UNCHANGED <<store, current>> PROVE StoresOk'
  BY <1>3 DEF StoresOk, StoresClosed, RunningIsWhole
<1>4. CASE EnsureCli(j)
  <2>1. UNCHANGED current
    BY <1>4 DEF EnsureCli
  <2>2. Gains(m, Closure[Cli]) \/ \E D \in PartialCopies(m, Cli) : Gains(m, D)
    BY <1>4 DEF EnsureCli, PartialFills
  <2> QED BY <1>1, <2>1, <2>2, FleetAssumption, GrowByClosure, GrowByPart DEF Gains
<1>5. CASE FillBuild(j)
  <2>1. UNCHANGED current /\ p \in Path
    BY <1>2, <1>5 DEF FillBuild
  <2>2. Gains(m, Closure[p]) \/ \E D \in PartialCopies(m, p) : Gains(m, D)
    BY <1>5 DEF FillBuild, PartialFills
  <2> QED BY <1>1, <2>1, <2>2, GrowByClosure, GrowByPart DEF Gains
<1>6. CASE Pushed(j)
  <2>1. UNCHANGED current /\ p \in Path
    BY <1>1, <1>2, <1>6 DEF Pushed, At, OkState
  <2>2. \/ Deletable(m, p) /\ store' = [store EXCEPT ![m] = @ \ {p}]
        \/ UNCHANGED store
    BY <1>6 DEF Pushed
  <2> QED BY <1>1, <1>3, <2>1, <2>2, Shrink
<1>7. CASE Realize(j)
  <2>1. UNCHANGED current
    BY <1>7 DEF Realize
  <2>2. \/ Gains(m, Missing(m, env[j].profile))
        \/ \E D \in PartialCopies(m, env[j].profile) : Gains(m, D)
    BY <1>7 DEF Realize, PartialRealizes
  <2> QED BY <1>1, <2>1, <2>2, GrowByMissing, GrowByPart DEF Gains
<1>8. CASE CopyOk(j)
  <2>1. UNCHANGED current /\ job[j].out \in Path
    BY <1>1, <1>8 DEF CopyOk, At, OkState
  <2>2. store' = [store EXCEPT ![h] = @ \cup Missing(h, job[j].out)]
    BY <1>8 DEF CopyOk, Gains
  <2> QED BY <1>1, <2>1, <2>2, GrowByMissing
<1>9. CASE CopyFails(j)
  <2>1. UNCHANGED current /\ job[j].out \in Path
    BY <1>1, <1>9 DEF CopyFails, At, OkState
  <2>2. \E D \in PartialCopies(h, job[j].out) : Gains(h, D)
    BY <1>9 DEF CopyFails
  <2> QED BY <1>1, <2>1, <2>2, GrowByPart
<1>10. CASE Switch(j) \/ Kill(j)
  <2>1. UNCHANGED store /\ (Activates(j) \/ UNCHANGED current)
    BY <1>10 DEF Switch, Kill
  <2> QED BY <1>1, <1>3, <2>1, ActivatesOk
<1>11. CASE \/ Skip(j) \/ FillSkip(j) \/ ListClosure(j) \/ PushOk(j) \/ PushFails(j)
            \/ FillNextPhase(j) \/ Verify(j) \/ Prove(j)
  <2>1. UNCHANGED <<store, current>>
    BY <1>11 DEF Skip, FillSkip, ListClosure, PushOk, PushFails, FillNextPhase, Verify, Prove
  <2> QED BY <1>3, <2>1
<1> QED
  BY <1>4, <1>5, <1>6, <1>7, <1>8, <1>9, <1>10, <1>11 DEF Step

LEMMA BreakdownStores ==
  ASSUME TypeOK, JobsOk, StoresOk, NEW j \in Job, Breakdown(j)
  PROVE  StoresOk'
<1> DEFINE m == env[j].at
<1>1. /\ OkState(job[j]) /\ env[j] \in Env
      /\ m \in Machine /\ env[j].host \in Host /\ env[j].profile \in Path
  BY EnvAssumption DEF TypeOK, JobsOk, Env
<1>2. ASSUME NEW p \in Path, \E D \in PartialCopies(m, p) : Gains(m, D), UNCHANGED current
      PROVE  StoresOk'
  BY <1>1, <1>2, GrowByPart
<1>3. CASE StartFails(j)
  BY <1>2, <1>3, FleetAssumption DEF StartFails, PartialFills
<1>4. CASE BuildFails(j)
  <2>1. Head(job[j].todo) \in Path
    BY <1>1, <1>4, TailOk DEF BuildFails
  <2> QED BY <1>2, <1>4, <2>1 DEF BuildFails, PartialFills
<1>5. CASE RealizeFails(j)
  BY <1>1, <1>2, <1>5 DEF RealizeFails, PartialRealizes
<1>6. CASE SwitchFails(j) \/ ListFails(j) \/ HostListFails(j) \/ ProveFails(j)
  <2>1. UNCHANGED store /\ (Activates(j) \/ UNCHANGED current)
    BY <1>6 DEF SwitchFails, ListFails, HostListFails, ProveFails
  <2>2. UNCHANGED <<store, current>> => StoresOk'
    BY DEF StoresOk, StoresClosed, RunningIsWhole
  <2> QED BY <1>1, <2>1, <2>2, ActivatesOk
<1> QED BY <1>3, <1>4, <1>5, <1>6 DEF Breakdown

\* A command that fails of itself changes nothing of the cache and is noted.
LEMMA BreakdownRest ==
  ASSUME NEW j \in Job, Breakdown(j)
  PROVE  /\ UNCHANGED <<narinfo, nar, env, faults, emptied, repairs, kills>>
         /\ broken' = broken \cup {j}
BY DEF Breakdown, StartFails, BuildFails, ListFails, HostListFails, ProveFails, RealizeFails,
       SwitchFails, Breaks, cache

\* The rest of the type invariant: what the cache holds are paths.
LEMMA StepCache ==
  ASSUME TypeOK, JobsOk, NEW j \in Job, Step(j) \/ Kill(j)
  PROVE  /\ narinfo' \subseteq Path /\ nar' \subseteq Path
         /\ narinfo \subseteq narinfo'
         /\ UNCHANGED <<env, broken, emptied, repairs>>
         /\ faults' \in 0 .. FaultCap /\ kills' \in 0 .. MaxKills
<1>1. /\ env[j] \in Env /\ store[env[j].at] \subseteq Path
      /\ narinfo \subseteq Path /\ nar \subseteq Path
      /\ faults \in 0 .. FaultCap /\ kills \in 0 .. MaxKills
      /\ (IF faults < FaultCap THEN faults + 1 ELSE faults) \in 0 .. FaultCap
  BY EnvAssumption, BoundAssumption DEF TypeOK, Env
<1>2. CASE PushOk(j)
  <2>1. ToUpload(Batch(job[j].push)) \subseteq Path
    <3>1. Batch(job[j].push) \subseteq Path
      BY <1>1, <1>2 DEF PushOk
    <3> QED BY <3>1, ClosureAssumption DEF ToUpload
  <2> QED BY <1>1, <1>2, <2>1 DEF PushOk, budget
<1>3. CASE PushFails(j)
  BY <1>1, <1>3 DEF PushFails, CountFault
<1>4. CASE CopyFails(j)
  BY <1>1, <1>4 DEF CopyFails, CountFault, cache
<1>5. CASE Kill(j)
  BY <1>1, <1>5, BoundAssumption DEF Kill, cache
<1>6. CASE \/ Skip(j) \/ EnsureCli(j) \/ FillSkip(j) \/ FillBuild(j) \/ ListClosure(j)
           \/ Pushed(j) \/ FillNextPhase(j) \/ Verify(j) \/ Prove(j) \/ Realize(j)
           \/ CopyOk(j) \/ Switch(j)
  <2>1. UNCHANGED <<cache, env, budget>>
    BY <1>6 DEF Skip, EnsureCli, FillSkip, FillBuild, ListClosure, Pushed,
                FillNextPhase, Verify, Prove, Realize, CopyOk, Switch
  <2> QED BY <1>1, <2>1 DEF cache, budget
<1> QED BY <1>2, <1>3, <1>4, <1>5, <1>6 DEF Step

-----------------------------------------------------------------------------
(* The theorems *)

LEMMA InitOk == Init => TypeOK /\ JobsOk /\ StoresOk
<1> SUFFICES ASSUME Init PROVE TypeOK /\ JobsOk /\ StoresOk
  OBVIOUS
<1>1. JobsOk
  <2> DEFINE r0 == [pc |-> "start", phase |-> "cli", todo |-> <<>>, push |-> {},
                    tries |-> 0, out |-> NoPath]
  <2>1. /\ <<>> \in Seq(Path)
        /\ 0 \in 0 .. (IF PushTries > CopyTries THEN PushTries ELSE CopyTries) - 1
    BY BoundAssumption
  <2>2. OkState(r0)
    BY <2>1 DEF OkState, JobState, Running, Phase
  <2>3. job = [j \in Job |-> r0]
    BY DEF Init
  <2> HIDE DEF r0
  <2> QED BY <2>2, <2>3 DEF JobsOk, OkState
<1>2. \A h \in Host : /\ Installed[h] \in Path /\ Closure[Installed[h]] \subseteq Path
                      /\ Closed(Closure[Installed[h]])
  BY FleetAssumption, ClosureClosed
<1>3. StoresOk
  <2>1. store \in [Machine -> SUBSET Path] /\ current \in [Host -> Path]
    BY <1>2, FleetAssumption DEF Init
  <2>2. StoresClosed
    BY <1>2 DEF Init, StoresClosed, Closed
  <2>3. RunningIsWhole
    BY <1>2, FleetAssumption DEF Init, RunningIsWhole
  <2> QED BY <2>1, <2>2, <2>3 DEF StoresOk
<1>4. TypeOK
  <2>1. narinfo \subseteq Path /\ nar \subseteq Path
    BY <1>2 DEF Init
  <2>2. /\ faults \in 0 .. FaultCap /\ emptied \in 0 .. MaxEmptied
        /\ repairs \in 0 .. MaxRepairs /\ kills \in 0 .. MaxKills /\ broken \subseteq Job
    BY BoundAssumption DEF Init
  <2>3. env \in [Job -> Envs]
    BY DEF Init
  <2> QED BY <1>1, <1>3, <2>1, <2>2, <2>3 DEF TypeOK, JobsOk, StoresOk
<1> QED BY <1>1, <1>3, <1>4

LEMMA NextOk == TypeOK /\ JobsOk /\ StoresOk /\ [Next]_vars => (TypeOK /\ JobsOk /\ StoresOk)'
<1> SUFFICES ASSUME TypeOK, JobsOk, StoresOk, [Next]_vars
             PROVE  (TypeOK /\ JobsOk /\ StoresOk)'
  OBVIOUS
<1>1. ASSUME NEW j \in Job, Step(j) \/ Kill(j)
      PROVE  (TypeOK /\ JobsOk /\ StoresOk)'
  <2>1. JobsOk' /\ StoresOk'
    BY <1>1, StepJobs, StepStores
  <2>2. /\ narinfo' \subseteq Path /\ nar' \subseteq Path
        /\ UNCHANGED <<env, broken, emptied, repairs>>
        /\ faults' \in 0 .. FaultCap /\ kills' \in 0 .. MaxKills
    BY <1>1, StepCache
  <2> QED BY <2>1, <2>2 DEF TypeOK, JobsOk, StoresOk
<1>6. ASSUME NEW j \in Job, Breakdown(j)
      PROVE  (TypeOK /\ JobsOk /\ StoresOk)'
  <2>1. JobsOk' /\ StoresOk'
    BY <1>6, BreakdownJobs, BreakdownStores
  <2> QED BY <1>6, <2>1, BreakdownRest DEF TypeOK, JobsOk, StoresOk
<1>2. ASSUME UNCHANGED <<store, current, env, job, faults, broken, kills>>,
             narinfo' \subseteq Path, nar' \subseteq Path,
             emptied' \in 0 .. MaxEmptied, repairs' \in 0 .. MaxRepairs
      PROVE  (TypeOK /\ JobsOk /\ StoresOk)'
  <2>1. JobsOk' /\ StoresOk'
    BY <1>2 DEF JobsOk, StoresOk, StoresClosed, RunningIsWhole
  <2> QED BY <1>2, <2>1 DEF TypeOK
<1>3. CASE GarageEmptied
  BY <1>2, <1>3, BoundAssumption DEF GarageEmptied, TypeOK
<1>4. CASE TruncateRows
  BY <1>2, <1>4, BoundAssumption DEF TruncateRows, TypeOK
<1>5. CASE UNCHANGED vars
  BY <1>2, <1>5 DEF vars, cache, budget, TypeOK
<1> QED BY <1>1, <1>3, <1>4, <1>5, <1>6 DEF Next

\* Every variable keeps its type in every behaviour of the specification.
THEOREM TypeCorrect == Spec => []TypeOK
BY InitOk, NextOk, PTL DEF Spec

\* However runs of the scripts interleave, fail, are retried or killed, the
\* store of every host holds the whole closure of the system the host runs.
THEOREM WholeCorrect == Spec => []RunningIsWhole
<1>1. StoresOk => RunningIsWhole
  BY DEF StoresOk
<1> QED BY <1>1, InitOk, NextOk, PTL DEF Spec

\* Past the narinfo gate of a deploy its closure has narinfos, and stays so
\* until the operator truncates atticd's tables.
GateInv ==
  repairs = 0 =>
    /\ \A h \in Host : current[h] # Installed[h] => Closure[current[h]] \subseteq narinfo
    /\ \A j \in Job : job[j].pc \in {"realize", "copy", "switch"} =>
         Closure[job[j].out] \subseteq narinfo

Ungated(r) == r.pc \notin {"realize", "copy", "switch"}

\* What a step of a run does to out_path behind the gate.
LEMMA StepGate ==
  ASSUME JobsOk, NEW j \in Job, Step(j) \/ Kill(j),
         NEW k \in Job, job'[k].pc \in {"realize", "copy", "switch"}
  PROVE  /\ job'[k].out = job[k].out
         /\ job[k].pc \in {"realize", "copy", "switch"} \/ Cached(job[k].out)
<1>1. /\ job \in [Job -> JobState] /\ job[j] \in JobState
      /\ \A r : Go(j, r) => job'[j] = r /\ (k # j => job'[k] = job[k])
  BY DEF JobsOk, Go
<1>2. \A s : To(j, s).pc = s /\ To(j, s).out = job[j].out
  BY <1>1 DEF To, JobState
<1>3. CASE k # j
  <2>1. \E r : Go(j, r)
    <3>1. \A s : Go(j, s) => \E r : Go(j, r)
      OBVIOUS
    <3> QED
      BY <3>1 DEF Step, Skip, EnsureCli, FillSkip, FillBuild, ListClosure, PushOk, PushFails,
             Pushed, FillNextPhase, Verify, Prove, Realize, CopyOk, CopyFails, Switch, Kill
  <2> QED BY <1>1, <1>3, <2>1
<1>4. CASE k = j
  <2>1. CASE Prove(j)
    BY <1>1, <1>2, <1>4, <2>1 DEF Prove
  <2>2. CASE Realize(j) \/ CopyOk(j)
    BY <1>1, <1>2, <1>4, <2>2 DEF Realize, CopyOk, At
  <2>3. CASE CopyFails(j)
    <3>1. NextTry(j).pc = job[j].pc /\ NextTry(j).out = job[j].out
      BY <1>1 DEF NextTry, JobState
    <3>2. AfterFailedCopy(j) \in {NextTry(j), To(j, "failed")}
      BY DEF AfterFailedCopy
    <3> QED BY <1>1, <1>2, <1>4, <2>3, <3>1, <3>2 DEF CopyFails, At
  <2>4. CASE Skip(j) \/ Verify(j) \/ Switch(j) \/ Kill(j)
    BY <1>1, <1>2, <1>4, <2>4 DEF Skip, Verify, Switch, Kill
  <2>5. CASE EnsureCli(j)
    <3>1. AfterLogin(j).pc \in {"prove", "list"}
      BY <1>1, <1>2 DEF AfterLogin, To, JobState
    <3> QED BY <1>1, <1>2, <1>4, <2>5, <3>1 DEF EnsureCli
  <2>6. CASE FillSkip(j) \/ FillBuild(j) \/ ListClosure(j) \/ Pushed(j)
    <3> DEFINE p == Head(job[j].todo)
               fill == [To(j, "fill") EXCEPT !.todo = Tail(@)]
               none == [To(j, "prove") EXCEPT !.todo = <<>>]
               some == [To(j, "prove") EXCEPT !.todo = <<>>, !.out = p]
    <3>1. Ungated(fill) /\ Ungated(none) /\ Ungated(some)
      BY <1>1 DEF Ungated, To, JobState
    <3>2. ASSUME job[j].pc = "fill" PROVE Ungated([job[j] EXCEPT !.todo = Tail(@)])
      BY <1>1, <3>2 DEF Ungated, JobState
    <3>3. Ungated([To(j, "push") EXCEPT !.push = Closure[p]])
      BY <1>1 DEF Ungated, To, JobState
    <3>4. \A s \in {"failed", "list", "push"} : Ungated(To(j, s))
      BY <1>2 DEF Ungated
    <3>5. ASSUME FillSkip(j) PROVE Ungated(job'[j])
      BY <1>1, <3>1, <3>2, <3>5 DEF FillSkip, At
    <3>6. ASSUME FillBuild(j) PROVE Ungated(job'[j])
      BY <1>1, <3>1, <3>4, <3>6 DEF FillBuild, NoOutPath
    <3>7. ASSUME ListClosure(j) PROVE Ungated(job'[j])
      BY <1>1, <3>3, <3>4, <3>7 DEF ListClosure
    <3>8. ASSUME Pushed(j) PROVE Ungated(job'[j])
      BY <1>1, <3>1, <3>8 DEF Pushed
    <3> QED BY <1>4, <2>6, <3>5, <3>6, <3>7, <3>8 DEF Ungated
  <2>7. CASE PushOk(j) \/ PushFails(j)
    <3>1. /\ NextBatch(j).pc = job[j].pc /\ NextTry(j).pc = job[j].pc
      BY <1>1 DEF NextBatch, NextTry, JobState
    <3>2. AfterFailedPush(j) \in {NextTry(j), To(j, "failed"), NextBatch(j)}
      BY DEF AfterFailedPush
    <3> QED BY <1>1, <1>2, <1>4, <2>7, <3>1, <3>2 DEF PushOk, PushFails, At
  <2>8. CASE FillNextPhase(j)
    <3>1. \A f, t : Fill(j, f, t).pc = "fill"
      BY <1>1 DEF Fill, JobState
    <3> QED BY <1>1, <1>2, <1>4, <2>8, <3>1 DEF FillNextPhase
  <2> QED BY <2>1, <2>2, <2>3, <2>4, <2>5, <2>6, <2>7, <2>8 DEF Step
<1> QED BY <1>3, <1>4

LEMMA BreakdownGate ==
  ASSUME JobsOk, NEW j \in Job, Breakdown(j), NEW k \in Job
  PROVE  job'[k] = job[k] \/ Ungated(job'[k])
<1>1. \A r : Go(j, r) => job'[j] = r /\ (k # j => job'[k] = job[k])
  BY DEF JobsOk, Go
<1>2. \A s \in {"failed", "done", "push"} : Ungated(To(j, s))
  BY DEF JobsOk, To, JobState, Ungated
<1>3. Ungated(NoOutPath(j))
  <2>1. Ungated([To(j, "prove") EXCEPT !.todo = <<>>])
    BY DEF JobsOk, To, JobState, Ungated
  <2> QED BY <1>2, <2>1 DEF NoOutPath
<1>4. \/ \E s \in {"failed", "done", "push"} : Go(j, To(j, s))
      \/ Go(j, NoOutPath(j))
  BY Zenon DEF Breakdown, StartFails, BuildFails, ListFails, HostListFails, ProveFails,
               RealizeFails, SwitchFails, Breaks
<1> QED BY <1>1, <1>2, <1>3, <1>4

\* Who is switched, and to what.
LEMMA StepCurrent ==
  ASSUME TypeOK, NEW j \in Job, Step(j) \/ Breakdown(j) \/ Kill(j), NEW h \in Host
  PROVE  \/ current'[h] = current[h]
         \/ current'[h] = job[j].out /\ job[j].pc = "switch"
<1>1. CASE Switch(j) \/ SwitchFails(j) \/ Kill(j)
  BY <1>1 DEF Switch, SwitchFails, Kill, Activates, At, TypeOK
<1>2. CASE Step(j) /\ ~Switch(j)
  BY <1>2 DEF Step, Skip, EnsureCli, FillSkip, FillBuild, ListClosure, PushOk, PushFails,
       Pushed, FillNextPhase, Verify, Prove, Realize, CopyOk, CopyFails
<1>3. CASE Breakdown(j) /\ ~SwitchFails(j)
  BY <1>3 DEF Breakdown, StartFails, BuildFails, ListFails, HostListFails, ProveFails, RealizeFails
<1> QED BY <1>1, <1>2, <1>3

LEMMA GateCorrect == Spec => []GateInv
<1>1. Init => GateInv
  BY DEF Init, GateInv
<1>2. TypeOK /\ JobsOk /\ GateInv /\ [Next]_vars => GateInv'
  <2> SUFFICES ASSUME TypeOK, JobsOk, GateInv, [Next]_vars PROVE GateInv'
    OBVIOUS
  <2>1. ASSUME NEW j \in Job, Step(j) \/ Kill(j) PROVE GateInv'
    <3> SUFFICES ASSUME repairs = 0
                 PROVE  /\ \A h \in Host : current'[h] # Installed[h] =>
                             Closure[current'[h]] \subseteq narinfo'
                        /\ \A k \in Job : job'[k].pc \in {"realize", "copy", "switch"} =>
                             Closure[job'[k].out] \subseteq narinfo'
      BY <2>1, StepCache DEF GateInv
    <3>1. narinfo \subseteq narinfo'
      BY <2>1, StepCache
    <3>2. ASSUME NEW h \in Host, current'[h] # Installed[h]
          PROVE  Closure[current'[h]] \subseteq narinfo'
      BY <2>1, <3>1, <3>2, StepCurrent DEF GateInv
    <3>3. ASSUME NEW k \in Job, job'[k].pc \in {"realize", "copy", "switch"}
          PROVE  Closure[job'[k].out] \subseteq narinfo'
      BY <2>1, <3>1, <3>3, StepGate DEF GateInv, Cached
    <3> QED BY <3>2, <3>3
  <2>5. ASSUME NEW j \in Job, Breakdown(j) PROVE GateInv'
    <3> SUFFICES ASSUME repairs = 0
                 PROVE  /\ \A h \in Host : current'[h] # Installed[h] =>
                             Closure[current'[h]] \subseteq narinfo'
                        /\ \A k \in Job : job'[k].pc \in {"realize", "copy", "switch"} =>
                             Closure[job'[k].out] \subseteq narinfo'
      BY <2>5, BreakdownRest DEF GateInv
    <3>1. UNCHANGED narinfo
      BY <2>5, BreakdownRest
    <3>2. ASSUME NEW h \in Host, current'[h] # Installed[h]
          PROVE  Closure[current'[h]] \subseteq narinfo'
      BY <2>5, <3>1, <3>2, StepCurrent DEF GateInv
    <3>3. ASSUME NEW k \in Job, job'[k].pc \in {"realize", "copy", "switch"}
          PROVE  Closure[job'[k].out] \subseteq narinfo'
      BY <2>5, <3>1, <3>3, BreakdownGate DEF GateInv, Ungated
    <3> QED BY <3>2, <3>3
  <2>2. CASE GarageEmptied
    BY <2>2 DEF GarageEmptied, GateInv
  <2>3. CASE TruncateRows
    <3>1. repairs' # 0
      BY <2>3 DEF TruncateRows, TypeOK
    <3> QED BY <3>1 DEF GateInv
  <2>4. CASE UNCHANGED vars
    BY <2>4 DEF vars, cache, budget, GateInv
  <2> QED BY <2>1, <2>2, <2>3, <2>4, <2>5 DEF Next
<1> QED BY <1>1, <1>2, InitOk, NextOk, PTL DEF Spec

\* A host that was switched runs a system whose whole closure is on Attic,
\* whatever failed on the way and however late the deploy came.
THEOREM OnAtticCorrect == Spec => []SwitchedIsOnAttic
<1>1. GateInv => SwitchedIsOnAttic
  BY DEF GateInv, SwitchedIsOnAttic
<1> QED BY <1>1, GateCorrect, PTL

-----------------------------------------------------------------------------
(* Steps *)

\* What a step of a run adds to the store of a host on which no script runs
\* comes from Attic.
LEMMA StepOnlyFromAttic ==
  ASSUME TypeOK, NEW j \in Job, Step(j) \/ Breakdown(j) \/ Kill(j), ~Has(j, "COPY_FROM_BUILDER"),
         NEW h \in Host, env[j].at # h
  PROVE  store'[h] \ store[h] \subseteq narinfo \cap nar
<1>1. h \in Machine /\ store \in [Machine -> SUBSET Path]
  BY FleetAssumption DEF TypeOK
<1>2. Source(j) = narinfo \cap nar
  BY DEF Source
<1>3. ASSUME NEW D, D \subseteq Source(j), Gains(env[j].host, D)
      PROVE  store'[h] \ store[h] \subseteq narinfo \cap nar
  BY <1>1, <1>2, <1>3 DEF Gains
<1>4. CASE CopyOk(j)
  BY <1>3, <1>4 DEF CopyOk
<1>5. CASE CopyFails(j)
  <2>1. PICK D : D \subseteq Source(j) /\ Gains(env[j].host, D)
    BY <1>5 DEF CopyFails
  <2> QED BY <1>3, <2>1
<1>6. CASE (Step(j) /\ ~CopyOk(j) /\ ~CopyFails(j)) \/ Kill(j)
  <2>1. store'[h] = store[h]
    BY <1>1, <1>6 DEF Step, Skip, EnsureCli, FillSkip, FillBuild, ListClosure, PushOk, PushFails,
         Pushed, FillNextPhase, Verify, Prove, Realize, Switch, Kill, Gains
  <2> QED BY <2>1
<1>7. CASE Breakdown(j)
  <2>1. store'[h] = store[h]
    BY <1>1, <1>7 DEF Breakdown, StartFails, BuildFails, ListFails, HostListFails, ProveFails,
         RealizeFails, SwitchFails, Gains
  <2> QED BY <2>1
<1> QED BY <1>4, <1>5, <1>6, <1>7

\* A host that is not a builder is only ever given what Attic serves, as long
\* as the hatch ATTIC_COPY_FROM_BUILDER=1 is shut.
THEOREM OnlyFromAtticCorrect == Spec => OnlyFromAttic
<1> DEFINE Given == (\A j \in Job : ~Has(j, "COPY_FROM_BUILDER")) =>
                      \A h \in Host : (\A j \in Job : env[j].at # h) =>
                        store'[h] \ store[h] \subseteq narinfo \cap nar
<1>1. TypeOK /\ [Next]_vars => [Given]_vars
  <2> SUFFICES ASSUME TypeOK, Next, NEW h \in Host, \A j \in Job : env[j].at # h,
                      \A j \in Job : ~Has(j, "COPY_FROM_BUILDER")
               PROVE  store'[h] \ store[h] \subseteq narinfo \cap nar
    OBVIOUS
  <2>1. CASE \E j \in Job : Step(j) \/ Breakdown(j) \/ Kill(j)
    BY <2>1, StepOnlyFromAttic
  <2>2. CASE GarageEmptied \/ TruncateRows
    BY <2>2 DEF GarageEmptied, TruncateRows
  <2> QED BY <2>1, <2>2 DEF Next
<1> QED BY <1>1, TypeCorrect, PTL DEF Spec, OnlyFromAttic

-----------------------------------------------------------------------------
(* What is left to fill, and what was pushed *)

Left(s) == {s[i] : i \in DOMAIN s}
Tools == Left(Tooling)

\* What a run fills in each phase.
Goals(e, phase) ==
  CASE phase = "cli" -> {Cli}
    [] phase = "tooling" -> Tools
    [] OTHER -> IF e.script = "build" THEN e.selected ELSE {e.profile}

\* A run fills nothing that was not asked for, build.sh stays in the fill,
\* attempts are counted from 0, and a deploy has its own profile or no path.
Shape(e, r) ==
  /\ r.pc = "start" => r.todo = <<>>
  /\ Left(r.todo) \subseteq Goals(e, r.phase)
  /\ e.script = "build" => r.pc \in {"start", "fill", "list", "push", "done", "failed", "killed"}
  /\ r.pc \in {"start", "fill", "list", "push"} => r.tries < PushTries
  /\ e.script = "deploy" => r.out \in {NoPath, e.profile}

ShapeInv == \A j \in Job : Shape(env[j], job[j])

LEMMA LeftParts ==
  ASSUME NEW s \in Seq(Path), s # <<>>
  PROVE  Left(s) = {Head(s)} \cup Left(Tail(s))
<1>1. Len(s) \in Nat \ {0} /\ DOMAIN s = 1 .. Len(s) /\ Head(s) = s[1]
  OBVIOUS
<1>2. DOMAIN Tail(s) = 1 .. Len(s) - 1 /\ \A i \in 1 .. Len(s) - 1 : Tail(s)[i] = s[i + 1]
  BY <1>1
<1>3. ASSUME NEW i \in DOMAIN s PROVE s[i] \in {Head(s)} \cup Left(Tail(s))
  <2>1. CASE i = 1 BY <1>1, <2>1
  <2>2. CASE i # 1
    <3>1. i - 1 \in DOMAIN Tail(s) /\ Tail(s)[i - 1] = s[i]
      BY <1>1, <1>2, <2>2
    <3> QED BY <3>1 DEF Left
  <2> QED BY <2>1, <2>2
<1>4. ASSUME NEW i \in DOMAIN Tail(s) PROVE Tail(s)[i] \in Left(s)
  <2>1. i + 1 \in DOMAIN s /\ Tail(s)[i] = s[i + 1]
    BY <1>1, <1>2
  <2> QED BY <2>1 DEF Left
<1>5. Head(s) \in Left(s)
  <2>1. 1 \in DOMAIN s
    BY <1>1
  <2> QED BY <1>1, <2>1 DEF Left
<1> QED BY <1>3, <1>4, <1>5 DEF Left

\* An order of the hosts leaves none out.
LEMMA HostOrdersOnto ==
  ASSUME NEW j \in Job, env[j] \in Envs, NEW s \in HostOrders(j)
  PROVE  Left(s) = {p \in env[j].selected : ~(Has(j, "SKIP_IF_CACHED") /\ Cached(p))}
<1> DEFINE S == {p \in env[j].selected : ~(Has(j, "SKIP_IF_CACHED") /\ Cached(p))}
           n == Cardinality(S)
<1>1. IsFiniteSet(S)
  <2>1. IsFiniteSet(env[j].selected)
    BY EnvAssumption
  <2> QED BY <2>1, FS_Subset
<1>2. n \in Nat
  BY <1>1, FS_CardinalityType
<1>3. s \in [1 .. n -> S] /\ \A a, b \in DOMAIN s : s[a] = s[b] => a = b
  BY Zenon DEF HostOrders
<1> HIDE DEF S, n
<1>4. IsFiniteSet(1 .. n) /\ Cardinality(1 .. n) = n
  BY <1>2, FS_Interval
<1>5. s \in Injection(1 .. n, S)
  BY <1>3 DEF Injection, IsInjective
<1>6. s \in Surjection(1 .. n, S)
  BY <1>1, <1>4, <1>5, FS_Injection DEF n
<1>7. Left(s) = S
  BY <1>3, <1>6 DEF Surjection, Left
<1> QED BY <1>7 DEF S

\* The run j after a step, field by field; the other runs stay as they are.
Becomes(j, pc, phase, todo, push, out, tries) ==
  /\ job'[j].pc = pc /\ job'[j].phase = phase /\ job'[j].todo = todo
  /\ job'[j].push = push /\ job'[j].out = out /\ job'[j].tries = tries
  /\ \A k \in Job \ {j} : job'[k] = job[k]

Keeps(j, pc) == Becomes(j, pc, job[j].phase, job[j].todo, job[j].push, job[j].out, job[j].tries)

LEMMA GoKeeps ==
  ASSUME JobsOk, NEW j \in Job, NEW s, Go(j, To(j, s))
  PROVE  Keeps(j, s)
BY DEF JobsOk, Go, To, Keeps, Becomes, JobState

LEMMA GoFill ==
  ASSUME JobsOk, NEW j \in Job, NEW f, NEW t, Go(j, Fill(j, f, t))
  PROVE  Becomes(j, "fill", f, t, job[j].push, job[j].out, job[j].tries)
BY DEF JobsOk, Go, Fill, Becomes, JobState

LEMMA GoTry ==
  ASSUME JobsOk, NEW j \in Job, Go(j, NextTry(j))
  PROVE  Becomes(j, job[j].pc, job[j].phase, job[j].todo, job[j].push, job[j].out, job[j].tries + 1)
BY DEF JobsOk, Go, NextTry, Becomes, JobState

LEMMA GoBatch ==
  ASSUME JobsOk, NEW j \in Job, Go(j, NextBatch(j))
  PROVE  Becomes(j, job[j].pc, job[j].phase, job[j].todo, job[j].push \ Batch(job[j].push),
                 job[j].out, 0)
BY DEF JobsOk, Go, NextBatch, Becomes, JobState

\* The head is done: on to the tail, or with a path or none to the gate.
FillsOn(j) ==
  Becomes(j, "fill", job[j].phase, Tail(job[j].todo), job[j].push, job[j].out, job[j].tries)
Gated(j, out) ==
  Becomes(j, "prove", job[j].phase, <<>>, job[j].push, out, job[j].tries)

LEMMA GoHead ==
  ASSUME JobsOk, NEW j \in Job
  PROVE  /\ At(j, "fill") /\ Go(j, [job[j] EXCEPT !.todo = Tail(@)]) => FillsOn(j)
         /\ Go(j, [To(j, "fill") EXCEPT !.todo = Tail(@)]) => FillsOn(j)
         /\ Go(j, [To(j, "prove") EXCEPT !.todo = <<>>]) => Gated(j, job[j].out)
         /\ \A q : Go(j, [To(j, "prove") EXCEPT !.todo = <<>>, !.out = q]) => Gated(j, q)
<1>1. job \in [Job -> JobState] /\ job[j] \in JobState
  BY DEF JobsOk
<1>2. \A r : Go(j, r) => job'[j] = r /\ \A k \in Job \ {j} : job'[k] = job[k]
  BY <1>1 DEF Go
<1>3. ASSUME At(j, "fill"), Go(j, [job[j] EXCEPT !.todo = Tail(@)]) PROVE FillsOn(j)
  BY <1>1, <1>2, <1>3 DEF FillsOn, Becomes, JobState, At
<1>4. ASSUME Go(j, [To(j, "fill") EXCEPT !.todo = Tail(@)]) PROVE FillsOn(j)
  <2>1. [To(j, "fill") EXCEPT !.todo = Tail(@)] = [job[j] EXCEPT !.pc = "fill", !.todo = Tail(@)]
    BY <1>1 DEF To, JobState
  <2>2. job'[j] = [job[j] EXCEPT !.pc = "fill", !.todo = Tail(@)]
    BY <1>2, <1>4, <2>1
  <2>3. \A k \in Job \ {j} : job'[k] = job[k]
    BY <1>2, <1>4
  <2> QED BY <1>1, <2>2, <2>3 DEF FillsOn, Becomes, JobState
<1>5. ASSUME Go(j, [To(j, "prove") EXCEPT !.todo = <<>>]) PROVE Gated(j, job[j].out)
  <2>1. [To(j, "prove") EXCEPT !.todo = <<>>] = [job[j] EXCEPT !.pc = "prove", !.todo = <<>>]
    BY <1>1 DEF To, JobState
  <2>2. job'[j] = [job[j] EXCEPT !.pc = "prove", !.todo = <<>>]
    BY <1>2, <1>5, <2>1
  <2>3. \A k \in Job \ {j} : job'[k] = job[k]
    BY <1>2, <1>5
  <2> QED BY <1>1, <2>2, <2>3 DEF Gated, Becomes, JobState
<1>6. ASSUME NEW q, Go(j, [To(j, "prove") EXCEPT !.todo = <<>>, !.out = q]) PROVE Gated(j, q)
  <2>1. [To(j, "prove") EXCEPT !.todo = <<>>, !.out = q] = [job[j] EXCEPT !.pc = "prove", !.todo = <<>>, !.out = q]
    BY <1>1 DEF To, JobState
  <2>2. job'[j] = [job[j] EXCEPT !.pc = "prove", !.todo = <<>>, !.out = q]
    BY <1>2, <1>6, <2>1
  <2>3. \A k \in Job \ {j} : job'[k] = job[k]
    BY <1>2, <1>6
  <2> QED BY <1>1, <2>2, <2>3 DEF Gated, Becomes, JobState
<1> QED BY <1>3, <1>4, <1>5, <1>6

LEMMA GoLogin ==
  ASSUME JobsOk, NEW j \in Job, env[j] \in Env, Go(j, AfterLogin(j))
  PROVE  \/ env[j].script = "verify" /\ Keeps(j, "prove")
         \/ /\ env[j].script = "deploy" /\ Has(j, "SKIP_FILL")
            /\ Becomes(j, "prove", "host", job[j].todo, job[j].push, env[j].profile, job[j].tries)
         \/ /\ ~(env[j].script = "deploy" /\ Has(j, "SKIP_FILL")) /\ env[j].script # "verify"
            /\ Becomes(j, "list", "cli", <<Cli>>, job[j].push, job[j].out, job[j].tries)
<1>1. job \in [Job -> JobState] /\ job[j] \in JobState
  BY DEF JobsOk
<1>2. \A r : Go(j, r) => job'[j] = r /\ \A k \in Job \ {j} : job'[k] = job[k]
  BY <1>1 DEF Go
<1>3. CASE env[j].script = "verify"
  BY <1>3, GoKeeps DEF AfterLogin
<1>4. CASE env[j].script = "deploy" /\ Has(j, "SKIP_FILL")
  <2>1. AfterLogin(j) = [To(j, "prove") EXCEPT !.phase = "host", !.out = env[j].profile]
    BY <1>4 DEF AfterLogin
  <2>2. job'[j] = [To(j, "prove") EXCEPT !.phase = "host", !.out = env[j].profile]
    BY <1>2, <2>1
  <2>3. Becomes(j, "prove", "host", job[j].todo, job[j].push, env[j].profile, job[j].tries)
    BY <1>1, <1>2, <2>2 DEF Becomes, JobState, To
  <2> QED BY <1>4, <2>3
<1>5. CASE env[j].script # "verify" /\ ~(env[j].script = "deploy" /\ Has(j, "SKIP_FILL"))
  <2>1. AfterLogin(j) = [To(j, "list") EXCEPT !.phase = "cli", !.todo = <<Cli>>]
    BY <1>5 DEF AfterLogin
  <2>2. job'[j] = [To(j, "list") EXCEPT !.phase = "cli", !.todo = <<Cli>>]
    BY <1>2, <2>1
  <2>3. Becomes(j, "list", "cli", <<Cli>>, job[j].push, job[j].out, job[j].tries)
    BY <1>1, <1>2, <2>2 DEF Becomes, JobState, To
  <2> QED BY <1>5, <2>3
<1> QED BY <1>3, <1>4, <1>5

LEMMA GoList ==
  ASSUME JobsOk, NEW j \in Job, NEW S, Go(j, [To(j, "push") EXCEPT !.push = S])
  PROVE  Becomes(j, "push", job[j].phase, job[j].todo, S, job[j].out, job[j].tries)
BY DEF JobsOk, Go, To, Becomes, JobState

\* What each step makes of its own run.
LEMMA Effects ==
  ASSUME TypeOK, JobsOk, NEW j \in Job
  PROVE
  /\ Skip(j) => Keeps(j, "skipped")
  /\ EnsureCli(j) =>
       \/ Keeps(j, "failed") /\ GhostHit(j, Cli)
       \/ /\ Cli \in store'[env[j].at]
          /\ \/ env[j].script = "verify" /\ Keeps(j, "prove")
             \/ /\ env[j].script = "deploy" /\ Has(j, "SKIP_FILL")
                /\ Becomes(j, "prove", "host", job[j].todo, job[j].push, env[j].profile, job[j].tries)
             \/ /\ ~(env[j].script = "deploy" /\ Has(j, "SKIP_FILL")) /\ env[j].script # "verify"
                /\ Becomes(j, "list", "cli", <<Cli>>, job[j].push, job[j].out, job[j].tries)
  /\ FillSkip(j) => \/ Strict(j) /\ FillsOn(j)
                    \/ ~Strict(j) /\ Gated(j, Head(job[j].todo))
  /\ FillBuild(j) =>
       \/ /\ GhostHit(j, Head(job[j].todo))
          /\ (Strict(j) /\ Keeps(j, "failed")) \/ (~Strict(j) /\ Gated(j, job[j].out))
       \/ Keeps(j, "list") /\ Head(job[j].todo) \in store'[env[j].at]
  /\ ListClosure(j) =>
       \/ Becomes(j, "push", job[j].phase, job[j].todo, Closure[Head(job[j].todo)],
                  job[j].out, job[j].tries)
       \/ /\ Head(job[j].todo) \notin store[env[j].at]
          /\ (Strict(j) /\ Keeps(j, "failed")) \/ (~Strict(j) /\ Keeps(j, "push"))
  /\ PushOk(j) => Becomes(j, "push", job[j].phase, job[j].todo, job[j].push \ Batch(job[j].push),
                          job[j].out, 0)
  /\ PushFails(j) =>
       \/ /\ job[j].tries + 1 < PushTries
          /\ Becomes(j, "push", job[j].phase, job[j].todo, job[j].push, job[j].out, job[j].tries + 1)
       \/ job[j].tries + 1 = PushTries /\ Strict(j) /\ Keeps(j, "failed")
       \/ /\ job[j].tries + 1 >= PushTries /\ (Strict(j) => job[j].tries + 1 > PushTries)
          /\ Becomes(j, "push", job[j].phase, job[j].todo, job[j].push \ Batch(job[j].push),
                     job[j].out, 0)
  /\ Pushed(j) => \/ Strict(j) /\ FillsOn(j)
                  \/ ~Strict(j) /\ Gated(j, Head(job[j].todo))
  /\ Verify(j) => Keeps(j, "done") \/ Keeps(j, "failed")
  /\ Prove(j) => \/ ~Cached(job[j].out) /\ Keeps(j, "failed")
                 \/ Cached(job[j].out) /\ (Keeps(j, "copy") \/ Keeps(j, "realize"))
  /\ Realize(j) =>
       \/ ~Servable(Missing(env[j].at, env[j].profile)) /\ Keeps(j, "failed")
       \/ /\ Closure[env[j].profile] \subseteq store'[env[j].at]
          /\ (Local(j) /\ Keeps(j, "switch")) \/ (~Local(j) /\ Keeps(j, "copy"))
  /\ CopyOk(j) => Keeps(j, "switch") /\ Closure[job[j].out] \subseteq store'[env[j].host]
  /\ CopyFails(j) =>
       \/ /\ job[j].tries + 1 < CopyTries
          /\ Becomes(j, "copy", job[j].phase, job[j].todo, job[j].push, job[j].out, job[j].tries + 1)
       \/ job[j].tries + 1 >= CopyTries /\ Keeps(j, "failed")
  /\ Switch(j) => \/ job[j].out \notin store[env[j].host] /\ Keeps(j, "failed")
                  \/ Keeps(j, "done")
  /\ Kill(j) => Keeps(j, "killed")
<1> DEFINE m == env[j].at
           p == Head(job[j].todo)
<1>1. /\ job \in [Job -> JobState] /\ job[j] \in JobState /\ env[j] \in Env
      /\ OkState(job[j]) /\ m \in Machine /\ env[j].host \in Machine
      /\ store \in [Machine -> SUBSET Path] /\ job[j].tries \in Nat
      /\ PushTries \in Nat /\ CopyTries \in Nat
  BY EnvAssumption, FleetAssumption, BoundAssumption DEF TypeOK, JobsOk, Env, JobState
<1>2. \A s : Go(j, To(j, s)) => Keeps(j, s)
  BY GoKeeps
<1>3. ASSUME Skip(j) PROVE Keeps(j, "skipped")
  BY <1>2, <1>3 DEF Skip
<1>4. ASSUME EnsureCli(j), ~(Keeps(j, "failed") /\ GhostHit(j, Cli))
      PROVE  Go(j, AfterLogin(j)) /\ Cli \in store'[m]
  <2>1. Cli \in Closure[Cli]
    BY FleetAssumption, ClosureClosed
  <2> QED BY <1>1, <1>2, <1>4, <2>1 DEF EnsureCli, Gains
<1>5. ASSUME FillSkip(j)
      PROVE  (Strict(j) /\ FillsOn(j)) \/ (~Strict(j) /\ Gated(j, p))
  BY <1>5, GoHead DEF FillSkip
<1>6. ASSUME FillBuild(j)
      PROVE  \/ /\ GhostHit(j, p)
                /\ (Strict(j) /\ Keeps(j, "failed")) \/ (~Strict(j) /\ Gated(j, job[j].out))
             \/ Keeps(j, "list") /\ p \in store'[m]
  <2>1. CASE GhostHit(j, p)
    BY <1>2, <1>6, <2>1, GoHead DEF FillBuild, NoOutPath
  <2>2. CASE ~GhostHit(j, p)
    <3>1. p \in Path /\ p \in Closure[p]
      BY <1>1, <1>6, TailOk, ClosureClosed DEF FillBuild
    <3> QED BY <1>1, <1>2, <1>6, <2>2, <3>1 DEF FillBuild, Gains
  <2> QED BY <2>1, <2>2
<1>7. ASSUME ListClosure(j)
      PROVE  \/ Becomes(j, "push", job[j].phase, job[j].todo, Closure[p], job[j].out, job[j].tries)
             \/ /\ p \notin store[m]
                /\ (Strict(j) /\ Keeps(j, "failed")) \/ (~Strict(j) /\ Keeps(j, "push"))
  BY <1>2, <1>7, GoList DEF ListClosure
<1>8. ASSUME PushOk(j)
      PROVE  Becomes(j, "push", job[j].phase, job[j].todo, job[j].push \ Batch(job[j].push),
                     job[j].out, 0)
  BY <1>8, GoBatch DEF PushOk, At
<1>9. ASSUME PushFails(j)
      PROVE
       \/ /\ job[j].tries + 1 < PushTries
          /\ Becomes(j, "push", job[j].phase, job[j].todo, job[j].push, job[j].out, job[j].tries + 1)
       \/ job[j].tries + 1 = PushTries /\ Strict(j) /\ Keeps(j, "failed")
       \/ /\ job[j].tries + 1 >= PushTries /\ (Strict(j) => job[j].tries + 1 > PushTries)
          /\ Becomes(j, "push", job[j].phase, job[j].todo, job[j].push \ Batch(job[j].push),
                     job[j].out, 0)
  <2>1. job[j].pc = "push" /\ Go(j, AfterFailedPush(j))
    BY <1>9 DEF PushFails, At
  <2>2. CASE job[j].tries + 1 < PushTries
    <3>1. AfterFailedPush(j) = NextTry(j)
      BY <1>1, <2>2 DEF AfterFailedPush
    <3> QED BY <2>1, <2>2, <3>1, GoTry
  <2>3. CASE job[j].tries + 1 = PushTries /\ Strict(j)
    <3>1. ~(job[j].tries + 1 < PushTries)
      BY <1>1, <2>3
    <3>2. AfterFailedPush(j) = To(j, "failed")
      BY <2>3, <3>1 DEF AfterFailedPush
    <3> QED BY <1>2, <2>1, <2>3, <3>2
  <2>4. CASE job[j].tries + 1 >= PushTries /\ (Strict(j) => job[j].tries + 1 > PushTries)
    <3>1. ~(job[j].tries + 1 < PushTries) /\ ~(job[j].tries + 1 = PushTries /\ Strict(j))
      BY <1>1, <2>4
    <3>2. AfterFailedPush(j) = NextBatch(j)
      BY <3>1 DEF AfterFailedPush
    <3> QED BY <2>1, <2>4, <3>2, GoBatch
  <2> QED BY <1>1, <2>2, <2>3, <2>4
<1>10. ASSUME Pushed(j)
      PROVE  (Strict(j) /\ FillsOn(j)) \/ (~Strict(j) /\ Gated(j, p))
  BY <1>10, GoHead DEF Pushed
<1>11. ASSUME Verify(j) PROVE Keeps(j, "done") \/ Keeps(j, "failed")
  BY <1>2, <1>11 DEF Verify
<1>12. ASSUME Prove(j)
       PROVE  \/ ~Cached(job[j].out) /\ Keeps(j, "failed")
              \/ Cached(job[j].out) /\ (Keeps(j, "copy") \/ Keeps(j, "realize"))
  BY <1>2, <1>12 DEF Prove
<1>13. ASSUME Realize(j)
       PROVE  \/ ~Servable(Missing(m, env[j].profile)) /\ Keeps(j, "failed")
              \/ /\ Closure[env[j].profile] \subseteq store'[m]
                 /\ (Local(j) /\ Keeps(j, "switch")) \/ (~Local(j) /\ Keeps(j, "copy"))
  <2>1. Closure[env[j].profile] \subseteq store[m] \cup Missing(m, env[j].profile)
    BY DEF Missing
  <2> QED BY <1>1, <1>2, <1>13, <2>1 DEF Realize, Gains
<1>14. ASSUME CopyOk(j)
       PROVE  Keeps(j, "switch") /\ Closure[job[j].out] \subseteq store'[env[j].host]
  <2>1. Closure[job[j].out] \subseteq store[env[j].host] \cup Missing(env[j].host, job[j].out)
    BY DEF Missing
  <2> QED BY <1>1, <1>2, <1>14, <2>1 DEF CopyOk, Gains
<1>15. ASSUME CopyFails(j)
       PROVE
       \/ /\ job[j].tries + 1 < CopyTries
          /\ Becomes(j, "copy", job[j].phase, job[j].todo, job[j].push, job[j].out, job[j].tries + 1)
       \/ job[j].tries + 1 >= CopyTries /\ Keeps(j, "failed")
  <2>1. job[j].pc = "copy" /\ Go(j, AfterFailedCopy(j))
    BY <1>15 DEF CopyFails, At
  <2>2. CASE job[j].tries + 1 < CopyTries
    BY <2>1, <2>2, GoTry DEF AfterFailedCopy
  <2>3. CASE ~(job[j].tries + 1 < CopyTries)
    BY <1>1, <1>2, <2>1, <2>3 DEF AfterFailedCopy
  <2> QED BY <2>2, <2>3
<1>16. ASSUME Switch(j)
       PROVE  (job[j].out \notin store[env[j].host] /\ Keeps(j, "failed")) \/ Keeps(j, "done")
  BY <1>2, <1>16 DEF Switch
<1>17. ASSUME Kill(j) PROVE Keeps(j, "killed")
  BY <1>2, <1>17 DEF Kill
<1>18. ASSUME EnsureCli(j), ~(Keeps(j, "failed") /\ GhostHit(j, Cli))
       PROVE
       \/ env[j].script = "verify" /\ Keeps(j, "prove")
       \/ /\ env[j].script = "deploy" /\ Has(j, "SKIP_FILL")
          /\ Becomes(j, "prove", "host", job[j].todo, job[j].push, env[j].profile, job[j].tries)
       \/ /\ ~(env[j].script = "deploy" /\ Has(j, "SKIP_FILL")) /\ env[j].script # "verify"
          /\ Becomes(j, "list", "cli", <<Cli>>, job[j].push, job[j].out, job[j].tries)
  BY <1>1, <1>4, <1>18, GoLogin
<1> QED
  BY <1>3, <1>4, <1>5, <1>6, <1>7, <1>8, <1>9, <1>10, <1>11, <1>12, <1>13, <1>14, <1>15, <1>16,
     <1>17, <1>18

\* What a command that fails of itself makes of its run.
LEMMA BreakdownEffects ==
  ASSUME JobsOk, NEW j \in Job, Breakdown(j)
  PROVE  \/ Keeps(j, "failed")
         \/ Keeps(j, "done") /\ env[j].script \in {"build", "verify"}
         \/ ~Strict(j) /\ job[j].pc = "list" /\ Keeps(j, "push")
         \/ ~Strict(j) /\ job[j].pc = "fill" /\ job[j].todo # <<>> /\ Gated(j, job[j].out)
<1>1. \A s : Go(j, To(j, s)) => Keeps(j, s)
  BY GoKeeps
<1>2. CASE StartFails(j) \/ ProveFails(j) \/ RealizeFails(j) \/ SwitchFails(j)
  BY <1>1, <1>2 DEF StartFails, ProveFails, RealizeFails, SwitchFails, Breaks
<1>3. CASE BuildFails(j)
  <2>1. job[j].pc = "fill" /\ job[j].todo # <<>> /\ Go(j, NoOutPath(j))
    BY <1>3 DEF BuildFails, At, Breaks
  <2> QED BY <1>1, <2>1, GoHead DEF NoOutPath
<1>4. CASE ListFails(j)
  BY <1>1, <1>4 DEF ListFails, At, Breaks
<1>5. CASE HostListFails(j)
  <2>1. /\ env[j].script \in {"build", "verify"}
        /\ Go(j, To(j, "failed")) \/ Go(j, To(j, "done"))
    BY <1>5 DEF HostListFails, Breaks
  <2> QED BY <1>1, <2>1
<1> QED BY <1>2, <1>3, <1>4, <1>5 DEF Breakdown

\* What the change of phase makes of it.
LEMMA PhaseEffects ==
  ASSUME JobsOk, NEW j \in Job, FillNextPhase(j)
  PROVE  \/ /\ job[j].phase = "cli"
            /\ Becomes(j, "fill", "tooling", Tooling, job[j].push, job[j].out, job[j].tries)
         \/ /\ env[j].script = "deploy"
            /\ Becomes(j, "fill", "host", <<env[j].profile>>, job[j].push, job[j].out, job[j].tries)
         \/ /\ env[j].script = "build" /\ job[j].phase = "tooling"
            /\ \E s \in HostOrders(j) :
                 Becomes(j, "fill", "host", s, job[j].push, job[j].out, job[j].tries)
         \/ /\ env[j].script = "build" /\ Keeps(j, "done")
            /\ job[j].phase = "host" \/ (job[j].phase = "tooling" /\ Has(j, "TOOLING_ONLY"))
<1>1. \A f, t : Go(j, Fill(j, f, t)) =>
        Becomes(j, "fill", f, t, job[j].push, job[j].out, job[j].tries)
  BY GoFill
<1>2. Go(j, To(j, "done")) => Keeps(j, "done")
  BY GoKeeps
<1> QED BY <1>1, <1>2 DEF FillNextPhase

LEMMA ShapeStep ==
  ASSUME TypeOK, JobsOk, ShapeInv, NEW j \in Job, Step(j) \/ Breakdown(j) \/ Kill(j)
  PROVE  ShapeInv'
<1>1. /\ OkState(job[j]) /\ job[j] \in JobState /\ env[j] \in Envs /\ env[j] \in Env
      /\ Shape(env[j], job[j]) /\ job[j].tries \in Nat /\ PushTries \in Nat \ {0}
  BY EnvAssumption, BoundAssumption DEF TypeOK, JobsOk, ShapeInv, JobState
<1>2. UNCHANGED env
  BY StepCache, BreakdownRest
<1>3. ASSUME NEW pc, NEW f, NEW t, NEW push, NEW out, NEW n, Becomes(j, pc, f, t, push, out, n),
             pc # "start", Left(t) \subseteq Goals(env[j], f),
             env[j].script = "build" => pc \in {"start", "fill", "list", "push", "done", "failed", "killed"},
             pc \in {"start", "fill", "list", "push"} => n < PushTries,
             env[j].script = "deploy" => out \in {NoPath, env[j].profile}
      PROVE  ShapeInv'
  <2>1. Shape(env[j], job'[j])
    BY <1>3 DEF Becomes, Shape
  <2>2. \A k \in Job \ {j} : job'[k] = job[k]
    BY <1>3 DEF Becomes
  <2> QED BY <1>2, <2>1, <2>2 DEF ShapeInv
<1>4. ASSUME NEW pc, Keeps(j, pc), pc \in {"done", "failed", "killed"} \/
               (env[j].script # "build" /\ pc \in {"skipped", "prove", "realize", "copy", "switch"})
      PROVE  ShapeInv'
  BY <1>1, <1>3, <1>4 DEF Keeps, Shape
<1>5. ASSUME NEW pc, Keeps(j, pc), pc \in {"fill", "list", "push"},
             job[j].pc \in {"start", "fill", "list", "push"}
      PROVE  ShapeInv'
  BY <1>1, <1>3, <1>5 DEF Keeps, Shape
<1>6. Left(<<>>) \subseteq Goals(env[j], job[j].phase)
  BY DEF Left
<1>7. Left(<<Cli>>) \subseteq Goals(env[j], "cli") /\ Left(<<env[j].profile>>) = {env[j].profile}
  <2>1. \A x : DOMAIN <<x>> = {1} /\ <<x>>[1] = x
    OBVIOUS
  <2> QED BY <2>1 DEF Left, Goals
<1>8. ASSUME FillsOn(j), job[j].todo # <<>>, job[j].pc \in {"start", "fill", "list", "push"}
      PROVE  ShapeInv'
  <2>1. Left(Tail(job[j].todo)) \subseteq Left(job[j].todo)
    BY <1>1, <1>8, LeftParts DEF JobState
  <2> QED BY <1>1, <1>3, <1>8, <2>1 DEF FillsOn, Shape
<1>9. ASSUME NEW q, Gated(j, q), env[j].script # "build",
             env[j].script = "deploy" => q \in {NoPath, env[j].profile}
      PROVE  ShapeInv'
  BY <1>3, <1>6, <1>9 DEF Gated
<1>10. ASSUME ~Strict(j), job[j].todo # <<>>
       PROVE  /\ env[j].script = "deploy" /\ job[j].phase = "host"
              /\ Head(job[j].todo) = env[j].profile
  <2>1. Head(job[j].todo) \in Left(job[j].todo)
    BY <1>1, <1>10, LeftParts DEF JobState
  <2> QED BY <1>1, <1>10, <2>1 DEF Strict, Shape, Goals
<1>11. CASE Skip(j)
  BY <1>4, <1>11, Effects DEF Skip, UpToDate
<1>12. CASE EnsureCli(j)
  <2>1. job[j].pc = "start"
    BY <1>12 DEF EnsureCli, At
  <2>2. CASE Keeps(j, "failed")
    BY <1>4, <2>2
  <2>3. CASE env[j].script = "verify" /\ Keeps(j, "prove")
    BY <1>4, <2>3
  <2>4. CASE /\ env[j].script = "deploy"
             /\ Becomes(j, "prove", "host", job[j].todo, job[j].push, env[j].profile, job[j].tries)
    <3>1. Left(job[j].todo) \subseteq Goals(env[j], "host")
      BY <1>1, <1>6, <2>1 DEF Left, Shape
    <3> QED BY <1>3, <2>4, <3>1
  <2>5. CASE Becomes(j, "list", "cli", <<Cli>>, job[j].push, job[j].out, job[j].tries)
    BY <1>1, <1>3, <1>7, <2>1, <2>5 DEF Shape
  <2> QED BY <1>12, <2>2, <2>3, <2>4, <2>5, Effects
<1>13. CASE FillSkip(j)
  <2>1. job[j].pc = "fill" /\ job[j].todo # <<>>
    BY <1>13 DEF FillSkip, At
  <2> QED BY <1>8, <1>9, <1>10, <1>13, <2>1, Effects
<1>14. CASE FillBuild(j)
  <2>1. job[j].pc = "fill" /\ job[j].todo # <<>>
    BY <1>14 DEF FillBuild, At
  <2>2. env[j].script = "deploy" => job[j].out \in {NoPath, env[j].profile}
    BY <1>1 DEF Shape
  <2>3. CASE Keeps(j, "failed") BY <1>4, <2>3
  <2>4. CASE ~Strict(j) /\ Gated(j, job[j].out) BY <1>9, <1>10, <2>1, <2>2, <2>4
  <2>5. CASE Keeps(j, "list") BY <1>5, <2>1, <2>5
  <2> QED BY <1>14, <2>3, <2>4, <2>5, Effects
<1>15. CASE ListClosure(j)
  <2>1. job[j].pc = "list"
    BY <1>15 DEF ListClosure, At
  <2>2. CASE Becomes(j, "push", job[j].phase, job[j].todo, Closure[Head(job[j].todo)],
                     job[j].out, job[j].tries)
    BY <1>1, <1>3, <2>1, <2>2 DEF Shape
  <2> QED BY <1>4, <1>5, <1>15, <2>1, <2>2, Effects
<1>16. CASE PushOk(j)
  <2>1. job[j].pc = "push"
    BY <1>16 DEF PushOk, At
  <2>2. Becomes(j, "push", job[j].phase, job[j].todo, job[j].push \ Batch(job[j].push), job[j].out, 0)
    BY <1>16, Effects
  <2> QED BY <1>1, <1>3, <2>1, <2>2 DEF Shape
<1>17. CASE PushFails(j)
  <2>1. job[j].pc = "push"
    BY <1>17 DEF PushFails, At
  <2>2. CASE /\ job[j].tries + 1 < PushTries
             /\ Becomes(j, "push", job[j].phase, job[j].todo, job[j].push, job[j].out, job[j].tries + 1)
    BY <1>1, <1>3, <2>1, <2>2 DEF Shape
  <2>3. CASE Becomes(j, "push", job[j].phase, job[j].todo, job[j].push \ Batch(job[j].push),
                     job[j].out, 0)
    BY <1>1, <1>3, <2>1, <2>3 DEF Shape
  <2> QED BY <1>4, <1>17, <2>2, <2>3, Effects
<1>18. CASE Pushed(j)
  <2>1. job[j].pc = "push" /\ job[j].todo # <<>>
    BY <1>1, <1>18 DEF Pushed, At, OkState
  <2> QED BY <1>8, <1>9, <1>10, <1>18, <2>1, Effects
<1>19. CASE FillNextPhase(j)
  <2>1. job[j].pc = "fill"
    BY <1>19 DEF FillNextPhase, At
  <2>2. ASSUME NEW f, NEW t, Left(t) \subseteq Goals(env[j], f),
               Becomes(j, "fill", f, t, job[j].push, job[j].out, job[j].tries)
        PROVE  ShapeInv'
    BY <1>1, <1>3, <2>1, <2>2 DEF Shape
  <2>3. Left(Tooling) \subseteq Goals(env[j], "tooling")
    BY DEF Goals, Tools
  <2>4. env[j].script = "deploy" => Left(<<env[j].profile>>) \subseteq Goals(env[j], "host")
    BY <1>7 DEF Goals
  <2>5. env[j].script = "build" => \A s \in HostOrders(j) : Left(s) \subseteq Goals(env[j], "host")
    BY <1>1, HostOrdersOnto DEF Goals
  <2> QED BY <1>4, <1>19, <2>2, <2>3, <2>4, <2>5, PhaseEffects
<1>20. CASE Verify(j)
  BY <1>4, <1>20, Effects DEF Verify
<1>21. CASE Prove(j)
  BY <1>4, <1>21, Effects DEF Prove
<1>22. ASSUME job[j].pc \in {"realize", "copy", "switch"} PROVE env[j].script # "build"
  BY <1>1, <1>22 DEF Shape
<1>23. CASE Realize(j)
  BY <1>4, <1>22, <1>23, Effects DEF Realize, At
<1>24. CASE CopyOk(j)
  BY <1>4, <1>22, <1>24, Effects DEF CopyOk, At
<1>25. CASE CopyFails(j)
  <2>1. CASE Becomes(j, "copy", job[j].phase, job[j].todo, job[j].push, job[j].out, job[j].tries + 1)
    <3>1. env[j].script # "build"
      BY <1>22, <1>25 DEF CopyFails, At
    <3> QED BY <1>1, <1>3, <2>1, <3>1 DEF Shape
  <2> QED BY <1>4, <1>25, <2>1, Effects
<1>26. CASE Switch(j)
  BY <1>4, <1>26, Effects
<1>27. CASE Kill(j)
  BY <1>4, <1>27, Effects
<1>28. CASE Breakdown(j)
  <2>1. CASE Keeps(j, "failed") \/ Keeps(j, "done")
    BY <1>4, <2>1
  <2>2. CASE job[j].pc = "list" /\ Keeps(j, "push")
    BY <1>5, <2>2
  <2>3. CASE ~Strict(j) /\ job[j].todo # <<>> /\ Gated(j, job[j].out)
    <3>1. env[j].script = "deploy" => job[j].out \in {NoPath, env[j].profile}
      BY <1>1 DEF Shape
    <3> QED BY <1>9, <1>10, <2>3, <3>1
  <2> QED BY <1>28, <2>1, <2>2, <2>3, BreakdownEffects
<1> QED
  BY <1>11, <1>12, <1>13, <1>14, <1>15, <1>16, <1>17, <1>18, <1>19, <1>20, <1>21, <1>23, <1>24,
     <1>25, <1>26, <1>27, <1>28 DEF Step

-----------------------------------------------------------------------------
(* Pushes, and failures that are fewer than the attempts *)

\* What is not on the list of a push any more is on Attic.
Uploaded(j) == Closure[Head(job[j].todo)] \ job[j].push \subseteq narinfo

\* Under set -e no batch is given up.
PushInv ==
  repairs = 0 => \A j \in Job : job[j].pc = "push" /\ Strict(j) => Uploaded(j)

LEMMA PushOkUploads ==
  ASSUME TypeOK, JobsOk, NEW j \in Job, PushOk(j), Uploaded(j)
  PROVE  Uploaded(j)'
<1> DEFINE B == Batch(job[j].push)
<1>1. job'[j].todo = job[j].todo /\ job'[j].push = job[j].push \ B
  BY Effects DEF Becomes
<1>2. B \subseteq Path
  <2>1. env[j] \in Env
    BY EnvAssumption DEF TypeOK
  <2> QED BY <2>1 DEF TypeOK, PushOk, Env
<1>3. B \subseteq narinfo' /\ narinfo \subseteq narinfo'
  <2>1. narinfo' = narinfo \cup ToUpload(B)
    BY DEF PushOk
  <2> HIDE DEF B
  <2>2. ASSUME NEW p \in B PROVE p \in narinfo \cup ToUpload(B)
    <3>1. p \in Closure[p]
      BY <1>2, ClosureClosed
    <3> QED BY <3>1 DEF ToUpload
  <2> QED BY <2>1, <2>2
<1> HIDE DEF B
<1> QED BY <1>1, <1>3 DEF Uploaded

\* Which steps leave a run pushing.
LEMMA IntoPush ==
  ASSUME TypeOK, JobsOk, NEW j \in Job, Step(j) \/ Kill(j), job'[j].pc = "push"
  PROVE  ListClosure(j) \/ PushOk(j) \/ PushFails(j)
<1>1. \A s : Keeps(j, s) => s = "push"
  BY DEF Keeps, Becomes
<1>2. \A s, f, t, push, out, n : Becomes(j, s, f, t, push, out, n) => s = "push"
  BY DEF Becomes
<1>3. ~FillsOn(j) /\ \A q : ~Gated(j, q)
  BY <1>2 DEF FillsOn, Gated
<1>4. ~Skip(j) /\ ~EnsureCli(j) /\ ~FillSkip(j) /\ ~FillBuild(j) /\ ~Pushed(j)
  BY <1>1, <1>2, <1>3, Effects
<1>5. ~Verify(j) /\ ~Prove(j) /\ ~Realize(j) /\ ~CopyOk(j) /\ ~CopyFails(j) /\ ~Switch(j) /\ ~Kill(j)
  BY <1>1, <1>2, Effects
<1>6. ~FillNextPhase(j)
  BY <1>1, <1>2, PhaseEffects
<1> QED BY <1>4, <1>5, <1>6 DEF Step

\* The runs a step is not of.
LEMMA Others ==
  ASSUME JobsOk, NEW j \in Job, Step(j) \/ Breakdown(j) \/ Kill(j), NEW k \in Job, k # j
  PROVE  job'[k] = job[k]
<1>1. CASE Step(j) \/ Kill(j)
  <2>1. \E r : Go(j, r)
    <3>1. \A s : Go(j, s) => \E r : Go(j, r)
      OBVIOUS
    <3> QED
      BY <1>1, <3>1 DEF Step, Skip, EnsureCli, FillSkip, FillBuild, ListClosure, PushOk, PushFails,
             Pushed, FillNextPhase, Verify, Prove, Realize, CopyOk, CopyFails, Switch, Kill
  <2> QED BY <2>1 DEF Go, JobsOk
<1>2. CASE Breakdown(j)
  BY <1>2, BreakdownEffects DEF Keeps, Gated, Becomes
<1> QED BY <1>1, <1>2

LEMMA PushStep ==
  ASSUME TypeOK, JobsOk, ShapeInv, PushInv, NEW j \in Job, Step(j) \/ Kill(j)
  PROVE  PushInv'
<1> SUFFICES ASSUME repairs = 0, NEW k \in Job, job'[k].pc = "push", Strict(k)'
             PROVE  Uploaded(k)'
  BY StepCache DEF PushInv
<1>1. narinfo \subseteq narinfo' /\ UNCHANGED env
  BY StepCache
<1>2. CASE k # j
  <2>1. job'[k] = job[k]
    BY <1>2, Others
  <2> QED BY <1>1, <2>1 DEF PushInv, Strict, Uploaded
<1>3. CASE k = j
  <2>1. ASSUME NEW t, NEW push, NEW out, NEW n, Becomes(j, "push", job[j].phase, t, push, out, n)
        PROVE  Strict(j) /\ job'[j].todo = t /\ job'[j].push = push
    BY <1>1, <1>3, <2>1 DEF Becomes, Strict
  <2>2. CASE ListClosure(j)
    <3>1. ~Keeps(j, "failed")
      BY <1>3 DEF Keeps, Becomes
    <3>2. Becomes(j, "push", job[j].phase, job[j].todo, Closure[Head(job[j].todo)],
                  job[j].out, job[j].tries)
      <4>1. ASSUME Keeps(j, "push") PROVE Strict(j)
        BY <2>1, <4>1 DEF Keeps
      <4> QED BY <2>2, <3>1, <4>1, Effects
    <3>3. job'[j].todo = job[j].todo /\ job'[j].push = Closure[Head(job[j].todo)]
      BY <2>1, <3>2
    <3> QED BY <1>3, <3>3 DEF Uploaded
  <2>3. CASE PushOk(j)
    <3>1. Strict(j) /\ job[j].pc = "push"
      BY <2>1, <2>3, Effects DEF PushOk, At
    <3> QED BY <1>3, <2>3, <3>1, PushOkUploads DEF PushInv
  <2>4. CASE PushFails(j)
    <3>1. Strict(j)
      <4>1. ~Keeps(j, "failed")
        BY <1>3 DEF Keeps, Becomes
      <4> QED BY <2>1, <2>4, <4>1, Effects
    <3>2. job[j].pc = "push" /\ ~(job[j].tries + 1 > PushTries)
      <4>1. job[j].pc = "push"
        BY <2>4 DEF PushFails, At
      <4>2. job[j].tries \in Nat /\ PushTries \in Nat /\ job[j].tries < PushTries
        BY <4>1, BoundAssumption DEF ShapeInv, Shape, JobsOk, JobState
      <4> QED BY <4>1, <4>2
    <3>3. Becomes(j, "push", job[j].phase, job[j].todo, job[j].push, job[j].out, job[j].tries + 1)
      <4>1. ~Keeps(j, "failed")
        BY <1>3 DEF Keeps, Becomes
      <4> QED BY <2>4, <3>1, <3>2, <4>1, Effects
    <3>4. job'[j].todo = job[j].todo /\ job'[j].push = job[j].push
      BY <2>1, <3>3
    <3> QED BY <1>1, <1>3, <3>1, <3>2, <3>4 DEF PushInv, Uploaded
  <2> QED BY <1>3, <2>2, <2>3, <2>4, IntoPush
<1> QED BY <1>2, <1>3

LEMMA BreakdownPush ==
  ASSUME JobsOk, PushInv, NEW j \in Job, Breakdown(j)
  PROVE  PushInv'
<1> SUFFICES ASSUME repairs = 0, NEW k \in Job, job'[k].pc = "push", Strict(k)'
             PROVE  Uploaded(k)'
  BY BreakdownRest DEF PushInv
<1>1. UNCHANGED <<narinfo, env>>
  BY BreakdownRest
<1>2. CASE k # j
  <2>1. job'[k] = job[k]
    BY <1>2, Others
  <2> QED BY <1>1, <2>1 DEF PushInv, Strict, Uploaded
<1>3. CASE k = j
  BY <1>1, <1>3, BreakdownEffects DEF Keeps, Gated, Becomes, Strict
<1> QED BY <1>2, <1>3

\* Every failed attempt of a run is one of the failures that are counted.
TriesInv == faults < PushTries => \A j \in Job : job[j].tries <= faults

LEMMA FaultStep ==
  ASSUME TypeOK, NEW j \in Job, Step(j) \/ Kill(j)
  PROVE  /\ faults \in Nat /\ faults' \in Nat /\ faults <= faults'
         /\ (PushFails(j) \/ CopyFails(j)) /\ faults' < PushTries => faults' = faults + 1
<1>1. faults \in Nat /\ FaultCap \in Nat /\ PushTries \in Nat /\ PushTries <= FaultCap
  BY BoundAssumption DEF TypeOK
<1>2. CASE PushFails(j) \/ CopyFails(j)
  BY <1>1, <1>2 DEF PushFails, CopyFails, CountFault
<1>3. CASE ~PushFails(j) /\ ~CopyFails(j)
  <2>1. UNCHANGED faults
    BY <1>3 DEF Step, Skip, EnsureCli, FillSkip, FillBuild, ListClosure, PushOk, Pushed,
         FillNextPhase, Verify, Prove, Realize, CopyOk, Switch, Kill, budget
  <2> QED BY <1>1, <1>3, <2>1
<1> QED BY <1>2, <1>3

\* What becomes of the attempt counter of a run that takes a step.
LEMMA TriesChange ==
  ASSUME TypeOK, JobsOk, NEW j \in Job, Step(j) \/ Kill(j)
  PROVE  \/ job'[j].tries \in {0, job[j].tries}
         \/ (PushFails(j) \/ CopyFails(j)) /\ job'[j].tries = job[j].tries + 1
<1>1. ASSUME NEW s, NEW f, NEW t, NEW push, NEW out, NEW n, Becomes(j, s, f, t, push, out, n)
      PROVE  job'[j].tries = n
  BY <1>1 DEF Becomes
<1>2. ASSUME NEW s, Keeps(j, s) PROVE job'[j].tries = job[j].tries
  BY <1>1, <1>2 DEF Keeps
<1>3. ASSUME FillsOn(j) \/ \E q : Gated(j, q) PROVE job'[j].tries = job[j].tries
  BY <1>1, <1>3 DEF FillsOn, Gated
<1>4. CASE Skip(j) \/ EnsureCli(j) \/ ListClosure(j)
  BY <1>1, <1>2, <1>4, Effects
<1>5. CASE FillSkip(j) \/ FillBuild(j) \/ Pushed(j)
  BY <1>2, <1>3, <1>5, Effects
<1>6. CASE PushOk(j)
  BY <1>1, <1>6, Effects
<1>7. CASE PushFails(j)
  BY <1>1, <1>2, <1>7, Effects
<1>8. CASE CopyFails(j)
  BY <1>1, <1>2, <1>8, Effects
<1>9. CASE FillNextPhase(j)
  BY <1>1, <1>2, <1>9, PhaseEffects
<1>10. CASE Verify(j) \/ Prove(j) \/ Realize(j) \/ CopyOk(j) \/ Switch(j) \/ Kill(j)
  BY <1>2, <1>10, Effects
<1> QED BY <1>4, <1>5, <1>6, <1>7, <1>8, <1>9, <1>10 DEF Step

LEMMA TriesStep ==
  ASSUME TypeOK, JobsOk, TriesInv, NEW j \in Job, Step(j) \/ Kill(j)
  PROVE  TriesInv'
<1> SUFFICES ASSUME faults' < PushTries, NEW k \in Job
             PROVE  job'[k].tries <= faults'
  BY DEF TriesInv
<1>1. /\ faults \in Nat /\ faults' \in Nat /\ faults <= faults' /\ PushTries \in Nat
      /\ job[k].tries \in Nat /\ job[j].tries \in Nat
  BY FaultStep, BoundAssumption DEF JobsOk, JobState
<1>2. job[k].tries <= faults /\ job[j].tries <= faults
  BY <1>1 DEF TriesInv
<1>3. CASE k # j
  BY <1>1, <1>2, <1>3, Others
<1>4. CASE k = j
  <2>1. CASE job'[j].tries \in {0, job[j].tries}
    BY <1>1, <1>2, <1>4, <2>1
  <2>2. CASE (PushFails(j) \/ CopyFails(j)) /\ job'[j].tries = job[j].tries + 1
    <3>1. faults' = faults + 1
      BY <2>2, FaultStep
    <3> QED BY <1>1, <1>2, <1>4, <2>2, <3>1
  <2> QED BY <2>1, <2>2, TriesChange
<1> QED BY <1>3, <1>4

LEMMA BreakdownTries ==
  ASSUME JobsOk, TriesInv, NEW j \in Job, Breakdown(j)
  PROVE  TriesInv'
<1>1. job'[j].tries = job[j].tries
  BY BreakdownEffects DEF Keeps, Gated, Becomes
<1>2. \A k \in Job : job'[k].tries = job[k].tries
  BY <1>1, Others
<1> QED BY <1>2, BreakdownRest DEF TriesInv

\* The last attempt of a push or a copy has not failed yet.
LEMMA NotTheLast ==
  ASSUME TypeOK, JobsOk, TriesInv, NEW j \in Job, faults' < PushTries
  PROVE  /\ PushFails(j) => job[j].tries + 1 < PushTries
         /\ CopyFails(j) /\ faults' < CopyTries => job[j].tries + 1 < CopyTries
<1>1. ASSUME PushFails(j) \/ CopyFails(j)
      PROVE  job[j].tries + 1 <= faults'
  <2>1. faults' = faults + 1 /\ faults \in Nat /\ faults' \in Nat
    BY <1>1, FaultStep DEF Step
  <2>2. job[j].tries \in Nat /\ job[j].tries <= faults
    BY <2>1, BoundAssumption DEF TriesInv, JobsOk, JobState
  <2> QED BY <2>1, <2>2
<1>2. job[j].tries \in Nat /\ PushTries \in Nat /\ CopyTries \in Nat
  BY BoundAssumption DEF JobsOk, JobState
<1>3. ASSUME PushFails(j) \/ CopyFails(j) PROVE faults' \in Nat
  BY <1>3, FaultStep DEF Step
<1> QED BY <1>1, <1>2, <1>3

LEMMA InitShape == Init => ShapeInv /\ PushInv /\ TriesInv
<1> SUFFICES ASSUME Init PROVE ShapeInv /\ PushInv /\ TriesInv
  OBVIOUS
<1>1. \A j \in Job : /\ job[j].pc = "start" /\ job[j].phase = "cli" /\ job[j].todo = <<>>
                     /\ job[j].tries = 0 /\ job[j].out = NoPath
  BY DEF Init
<1>2. Left(<<>>) = {} /\ 0 < PushTries
  BY BoundAssumption DEF Left
<1>3. ShapeInv
  BY <1>1, <1>2 DEF ShapeInv, Shape
<1>4. PushInv /\ TriesInv
  BY <1>1 DEF PushInv, TriesInv, Init
<1> QED BY <1>3, <1>4

\* The invariants of this section, whichever step is taken.
LEMMA NextShape ==
  TypeOK /\ JobsOk /\ ShapeInv /\ PushInv /\ TriesInv /\ [Next]_vars
    => (ShapeInv /\ PushInv /\ TriesInv)'
<1> SUFFICES ASSUME TypeOK, JobsOk, ShapeInv, PushInv, TriesInv, [Next]_vars
             PROVE  (ShapeInv /\ PushInv /\ TriesInv)'
  OBVIOUS
<1>1. ASSUME NEW j \in Job, Step(j) \/ Kill(j) PROVE (ShapeInv /\ PushInv /\ TriesInv)'
  BY <1>1, ShapeStep, PushStep, TriesStep
<1>4. ASSUME NEW j \in Job, Breakdown(j) PROVE (ShapeInv /\ PushInv /\ TriesInv)'
  BY <1>4, ShapeStep, BreakdownPush, BreakdownTries
<1>2. CASE GarageEmptied \/ UNCHANGED vars
  <2>1. UNCHANGED <<narinfo, env, job, faults, repairs>>
    BY <1>2 DEF GarageEmptied, vars, cache, budget
  <2> QED BY <2>1 DEF ShapeInv, PushInv, TriesInv, Strict, Uploaded
<1>3. CASE TruncateRows
  <2>1. UNCHANGED <<env, job, faults>> /\ repairs' # 0
    BY <1>3 DEF TruncateRows, TypeOK
  <2> QED BY <2>1 DEF ShapeInv, PushInv, TriesInv
<1> QED BY <1>1, <1>2, <1>3, <1>4 DEF Next

-----------------------------------------------------------------------------
(* build.sh fills what it was asked to fill *)

\* What a run of build.sh was asked to fill is on Attic or still on its list.
Due(j, S) == \A p \in S : Cached(p) \/ p \in Left(job[j].todo)

Filled(j) ==
  /\ job[j].phase = "tooling" => Due(j, Tools)
  /\ job[j].phase = "host" => (\A p \in Tools : Cached(p)) /\ Due(j, env[j].selected)
  /\ job[j].pc = "done" =>
       /\ job[j].todo = <<>>
       /\ job[j].phase = "host" \/ (job[j].phase = "tooling" /\ Has(j, "TOOLING_ONLY"))

FillInv == repairs = 0 => \A j \in Job \ broken : env[j].script = "build" => Filled(j)

LEMMA FillStep ==
  ASSUME TypeOK, JobsOk, ShapeInv, PushInv, FillInv, NEW j \in Job, Step(j) \/ Kill(j)
  PROVE  FillInv'
<1> SUFFICES ASSUME repairs = 0, NEW k \in Job \ broken, env[k].script = "build"
             PROVE  Filled(k)'
  BY StepCache DEF FillInv
<1>1. narinfo \subseteq narinfo' /\ UNCHANGED env /\ \A p : Cached(p) => Cached(p)'
  BY StepCache DEF Cached
<1>2. Filled(k)
  BY DEF FillInv
<1>3. CASE k # j
  <2>1. job'[k] = job[k]
    BY <1>3, Others
  <2> QED BY <1>1, <1>2, <2>1 DEF Filled, Due, Has
<1>4. CASE k = j
  <2> DEFINE p == Head(job[j].todo)
  <2>1. /\ OkState(job[j]) /\ job[j] \in JobState /\ env[j] \in Envs /\ Strict(j)
        /\ Shape(env[j], job[j])
    BY <1>4 DEF TypeOK, JobsOk, ShapeInv, Strict
  <2>2. ASSUME NEW pc, NEW t, NEW push, NEW out, NEW n, pc # "done",
               Becomes(j, pc, job[j].phase, t, push, out, n),
               \A q \in Left(job[j].todo) : Cached(q)' \/ q \in Left(t)
        PROVE  Filled(k)'
    BY <1>1, <1>2, <1>4, <2>2 DEF Becomes, Filled, Due
  <2>3. ASSUME NEW pc, Keeps(j, pc), pc # "done" PROVE Filled(k)'
    BY <2>2, <2>3 DEF Keeps
  <2>4. ASSUME FillsOn(j), Cached(p), job[j].todo # <<>> PROVE Filled(k)'
    <3>1. Left(job[j].todo) = {p} \cup Left(Tail(job[j].todo))
      BY <2>1, <2>4, LeftParts DEF JobState
    <3> QED BY <1>1, <2>2, <2>4, <3>1 DEF FillsOn
  <2>5. CASE Skip(j) \/ Verify(j) \/ Prove(j)
    BY <1>4, <2>5 DEF Skip, UpToDate, Verify, Prove
  <2>6. CASE EnsureCli(j)
    <3>1. CASE Becomes(j, "list", "cli", <<Cli>>, job[j].push, job[j].out, job[j].tries)
      BY <1>4, <3>1 DEF Becomes, Filled
    <3> QED BY <1>4, <2>3, <2>6, <3>1, Effects
  <2>7. CASE FillSkip(j)
    <3>1. FillsOn(j) /\ Cached(p) /\ job[j].todo # <<>>
      BY <2>1, <2>7, Effects DEF FillSkip, SkipCached
    <3> QED BY <2>4, <3>1
  <2>8. CASE FillBuild(j)
    BY <2>1, <2>3, <2>8, Effects
  <2>9. CASE ListClosure(j)
    BY <2>1, <2>2, <2>3, <2>9, Effects
  <2>10. CASE PushOk(j)
    BY <2>2, <2>10, Effects
  <2>11. CASE PushFails(j)
    BY <2>2, <2>3, <2>11, Effects
  <2>12. CASE Pushed(j)
    <3>1. FillsOn(j) /\ job[j].pc = "push" /\ job[j].push = {} /\ job[j].todo # <<>>
      BY <2>1, <2>12, Effects DEF Pushed, At, OkState
    <3>2. Closure[p] \subseteq narinfo /\ p \in Path
      BY <2>1, <3>1, TailOk DEF PushInv, Uploaded
    <3> QED BY <2>4, <3>1, <3>2 DEF Cached
  <2>13. CASE FillNextPhase(j)
    <3>1. job[j].todo = <<>> /\ Left(<<>>) = {}
      BY <2>13 DEF FillNextPhase, Left
    <3>2. CASE Becomes(j, "fill", "tooling", Tooling, job[j].push, job[j].out, job[j].tries)
      BY <1>4, <3>2 DEF Becomes, Filled, Due, Tools
    <3>3. CASE /\ job[j].phase = "tooling"
               /\ \E s \in HostOrders(j) :
                    Becomes(j, "fill", "host", s, job[j].push, job[j].out, job[j].tries)
      <4>1. PICK s \in HostOrders(j) :
                    Becomes(j, "fill", "host", s, job[j].push, job[j].out, job[j].tries)
        BY <3>3
      <4>2. job'[j].phase = "host" /\ job'[j].todo = s /\ job'[j].pc = "fill"
        BY <4>1 DEF Becomes
      <4>3. \A q \in Tools : Cached(q)'
        BY <1>1, <1>2, <1>4, <3>1, <3>3 DEF Filled, Due
      <4>4. \A q \in env[j].selected : Cached(q)' \/ q \in Left(s)
        BY <1>1, <2>1, HostOrdersOnto
      <4> QED BY <1>1, <1>4, <4>2, <4>3, <4>4 DEF Filled, Due
    <3>4. CASE /\ Keeps(j, "done")
               /\ job[j].phase = "host" \/ (job[j].phase = "tooling" /\ Has(j, "TOOLING_ONLY"))
      <4>1. /\ job'[j].phase = job[j].phase /\ job'[j].todo = job[j].todo
            /\ Has(j, "TOOLING_ONLY")' = Has(j, "TOOLING_ONLY")
        BY <1>1, <3>4 DEF Keeps, Becomes, Has
      <4> QED BY <1>1, <1>2, <1>4, <3>1, <3>4, <4>1 DEF Filled, Due
    <3> QED BY <1>4, <2>13, <3>2, <3>3, <3>4, PhaseEffects
  <2>14. CASE Realize(j) \/ CopyOk(j) \/ CopyFails(j) \/ Switch(j)
    BY <1>4, <2>1, <2>14 DEF Realize, CopyOk, CopyFails, Switch, At, Shape
  <2>15. CASE Kill(j)
    BY <2>3, <2>15, Effects
  <2> QED BY <2>5, <2>6, <2>7, <2>8, <2>9, <2>10, <2>11, <2>12, <2>13, <2>14, <2>15 DEF Step
<1> QED BY <1>3, <1>4

LEMMA BreakdownFill ==
  ASSUME JobsOk, FillInv, NEW j \in Job, Breakdown(j)
  PROVE  FillInv'
<1> SUFFICES ASSUME repairs = 0, NEW k \in Job \ broken, k # j, env[k].script = "build"
             PROVE  Filled(k)'
  BY BreakdownRest DEF FillInv
<1>1. job'[k] = job[k] /\ UNCHANGED <<narinfo, env>>
  BY Others, BreakdownRest
<1>2. Filled(k)
  BY DEF FillInv
<1> QED BY <1>1, <1>2 DEF Filled, Due, Cached, Has

\* build.sh that exits 0 has filled what it was asked to fill, however its
\* pushes failed and whatever ran beside it, unless its own list of hosts could
\* not be evaluated.
THEOREM FillCorrect == Spec => []FillMeansVerified
<1>1. Init => FillInv
  BY DEF Init, FillInv, Filled
<1>2. TypeOK /\ JobsOk /\ ShapeInv /\ PushInv /\ FillInv /\ [Next]_vars => FillInv'
  <2> SUFFICES ASSUME TypeOK, JobsOk, ShapeInv, PushInv, FillInv, [Next]_vars PROVE FillInv'
    OBVIOUS
  <2>1. ASSUME NEW j \in Job, Step(j) \/ Kill(j) PROVE FillInv'
    BY <2>1, FillStep
  <2>4. ASSUME NEW j \in Job, Breakdown(j) PROVE FillInv'
    BY <2>4, BreakdownFill
  <2>2. CASE GarageEmptied \/ UNCHANGED vars
    <3>1. UNCHANGED <<narinfo, env, job, broken, repairs>>
      BY <2>2 DEF GarageEmptied, vars, cache, budget
    <3> QED BY <3>1 DEF FillInv, Filled, Due, Cached, Has
  <2>3. CASE TruncateRows
    <3>1. repairs' # 0
      BY <2>3 DEF TruncateRows, TypeOK
    <3> QED BY <3>1 DEF FillInv
  <2> QED BY <2>1, <2>2, <2>3, <2>4 DEF Next
<1>3. FillInv => FillMeansVerified
  <2> SUFFICES ASSUME FillInv, repairs = 0, NEW j \in Job \ broken, env[j].script = "build", job[j].pc = "done"
               PROVE  /\ \A i \in DOMAIN Tooling : Cached(Tooling[i])
                      /\ Has(j, "TOOLING_ONLY") \/ \A p \in env[j].selected : Cached(p)
    BY DEF FillMeansVerified
  <2>1. Left(job[j].todo) = {} /\ Filled(j)
    BY DEF FillInv, Filled, Left
  <2>2. \A p \in Tools : Cached(p)
    BY <2>1 DEF Filled, Due
  <2>3. \A i \in DOMAIN Tooling : Tooling[i] \in Tools
    BY DEF Tools, Left
  <2> QED BY <2>1, <2>2, <2>3 DEF Filled, Due
<1> QED BY <1>1, <1>2, <1>3, InitOk, NextOk, InitShape, NextShape, PTL DEF Spec

-----------------------------------------------------------------------------
(* Deploys that get through *)

\* Only a fill of build.sh takes a path out of a store, its own profile out of
\* the store of its own machine.
LEMMA StoreLoss ==
  ASSUME TypeOK, NEW j \in Job, Step(j) \/ Breakdown(j) \/ Kill(j),
         NEW m \in Machine, NEW q \in store[m], q \notin store'[m]
  PROVE  /\ Pushed(j) /\ env[j].script = "build" /\ job[j].phase = "host"
         /\ env[j].at = m /\ q = Head(job[j].todo)
<1>1. store \in [Machine -> SUBSET Path]
  BY DEF TypeOK
<1>2. ASSUME NEW k, NEW D, Gains(k, D) PROVE FALSE
  BY <1>1, <1>2 DEF Gains
<1>3. store' # store
  OBVIOUS
<1>4. ~EnsureCli(j) /\ ~FillBuild(j)
  BY <1>2 DEF EnsureCli, FillBuild
<1>5. ~Realize(j) /\ ~CopyOk(j) /\ ~CopyFails(j)
  BY <1>2 DEF Realize, CopyOk, CopyFails
<1>6. ~Breakdown(j)
  BY <1>2, <1>3 DEF Breakdown, StartFails, BuildFails, ListFails, HostListFails, ProveFails,
       RealizeFails, SwitchFails
<1>7. Pushed(j)
  BY <1>3, <1>4, <1>5, <1>6 DEF Step, Skip, FillSkip, ListClosure, PushOk, PushFails,
       FillNextPhase, Verify, Prove, Switch, Kill
<1> QED BY <1>1, <1>3, <1>7 DEF Pushed

\* As long as Garage lost nothing there are no ghosts.
Calm == emptied = 0 /\ repairs = 0
CalmInv == Calm => nar = narinfo

LEMMA CalmStep ==
  ASSUME TypeOK, CalmInv, NEW j \in Job, Step(j) \/ Kill(j)
  PROVE  CalmInv'
<1>1. UNCHANGED cache \/ \E U : narinfo' = narinfo \cup U /\ nar' = nar \cup U
  BY DEF Step, Skip, EnsureCli, FillSkip, FillBuild, ListClosure, PushOk, PushFails, Pushed,
     FillNextPhase, Verify, Prove, Realize, CopyOk, CopyFails, Switch, Kill
<1>2. UNCHANGED <<emptied, repairs>>
  BY DEF Step, Skip, EnsureCli, FillSkip, FillBuild, ListClosure, PushOk, PushFails, Pushed,
     FillNextPhase, Verify, Prove, Realize, CopyOk, CopyFails, Switch, Kill, budget
<1> QED BY <1>1, <1>2 DEF CalmInv, Calm, cache

\* A deploy that the retries see through: the tool it lists is in the store it
\* works in; its own profile may have been deleted from there by a fill that
\* shares the machine, but only once that fill has pushed it; what it proves
\* is on Attic and what it switches to is in the store of its host.
Assured(j) == env[j].script = "deploy" /\ ~Has(j, "SKIP_FILL") /\ ~Undercut(j)

SeenThrough(j) ==
  /\ job[j].pc # "failed"
  /\ job[j].pc = "list" => \/ Head(job[j].todo) \in store[env[j].at]
                           \/ job[j].phase = "host" /\ Cached(Head(job[j].todo))
  /\ job[j].pc = "push" /\ ~Strict(j) => Uploaded(j)
  /\ job[j].pc = "prove" => Cached(job[j].out)
  /\ job[j].pc = "switch" => job[j].out \in store[env[j].host]

Enough == faults < PushTries /\ faults < CopyTries /\ Calm

DeployInv == Enough => \A j \in Job \ broken : Assured(j) => SeenThrough(j)

\* The steps of the other runs.
LEMMA DeployOthers ==
  ASSUME TypeOK, JobsOk, ShapeInv, PushInv, Calm, NEW j \in Job,
         Step(j) \/ Breakdown(j) \/ Kill(j), NEW k \in Job, k # j, Assured(k), SeenThrough(k)
  PROVE  SeenThrough(k)'
<1>1. /\ job'[k] = job[k] /\ UNCHANGED env /\ narinfo \subseteq narinfo'
      /\ \A p : Cached(p) => Cached(p)'
  BY Others, StepCache, BreakdownRest DEF Cached
<1>2. /\ env[k] \in Env /\ env[j] \in Envs /\ env[k].at \in Machine /\ env[k].host \in Machine
      /\ OkState(job[k]) /\ OkState(job[j]) /\ Shape(env[k], job[k]) /\ Shape(env[j], job[j])
  BY EnvAssumption, FleetAssumption DEF TypeOK, JobsOk, ShapeInv, Env
<1>3. job[k].pc = "switch" => job[k].out \in store'[env[k].host]
  <2> SUFFICES ASSUME job[k].pc = "switch" PROVE job[k].out \in store'[env[k].host]
    OBVIOUS
  <2>1. job[k].out \in store[env[k].host]
    BY DEF SeenThrough
  <2>2. ~(env[j].script = "build" /\ env[j].at = env[k].host)
    BY DEF Assured, Undercut
  <2> QED BY <1>2, <2>1, <2>2, StoreLoss
<1>4. job[k].pc = "list" => \/ Head(job[k].todo) \in store'[env[k].at]
                            \/ job[k].phase = "host" /\ Cached(Head(job[k].todo))
  <2> DEFINE p == Head(job[k].todo)
  <2> SUFFICES ASSUME job[k].pc = "list", p \in store[env[k].at], p \notin store'[env[k].at]
               PROVE  job[k].phase = "host" /\ Cached(p)
    BY DEF SeenThrough
  <2>1. /\ Pushed(j) /\ env[j].script = "build" /\ job[j].phase = "host"
        /\ p = Head(job[j].todo)
    BY <1>2, StoreLoss
  <2>2. job[j].pc = "push" /\ job[j].push = {} /\ job[j].todo # <<>> /\ Strict(j)
    BY <1>2, <2>1 DEF Pushed, At, OkState, Strict
  <2>3. p \in Path /\ p \in Left(job[j].todo)
    BY <1>2, <2>1, <2>2, TailOk, LeftParts DEF OkState, JobState
  <2>4. Cached(p)
    <3>1. Closure[p] \ {} \subseteq narinfo
      BY <2>1, <2>2 DEF PushInv, Uploaded, Calm
    <3> QED BY <2>3, <3>1 DEF Cached
  <2>5. p \in env[j].selected
    BY <1>2, <2>1, <2>3 DEF Shape, Goals
  <2>6. p \in Left(job[k].todo)
    BY <1>2, LeftParts DEF OkState, JobState
  <2>7. p \in Goals(env[k], job[k].phase) /\ job[k].phase \in Phase
    BY <1>2, <2>6 DEF Shape, OkState, JobState
  <2>8. p \notin {Cli} \cup Tools
    BY <1>2, <2>5, EnvAssumption DEF Tools, Left
  <2> QED BY <2>4, <2>7, <2>8 DEF Goals, Phase
<1> QED BY <1>1, <1>3, <1>4 DEF SeenThrough, Strict, Uploaded

\* Its own steps.
LEMMA DeployOwn ==
  ASSUME TypeOK, JobsOk, ShapeInv, TriesInv, GateInv, CalmInv, Calm, NEW j \in Job,
         Step(j) \/ Kill(j), Assured(j), SeenThrough(j),
         faults' < PushTries, faults' < CopyTries
  PROVE  SeenThrough(j)'
<1> DEFINE p == Head(job[j].todo)
           m == env[j].at
<1>1. /\ UNCHANGED env /\ narinfo \subseteq narinfo' /\ nar = narinfo
      /\ \A q : Cached(q) => Cached(q)'
  BY StepCache DEF Cached, CalmInv
<1>2. /\ OkState(job[j]) /\ env[j] \in Env /\ env[j].script = "deploy" /\ ~Has(j, "SKIP_FILL")
      /\ Shape(env[j], job[j]) /\ \A q : ~GhostHit(j, q)
  BY <1>1, EnvAssumption DEF TypeOK, JobsOk, ShapeInv, Assured, GhostHit
<1>3. ASSUME NEW pc, NEW f, NEW t, NEW push, NEW out, NEW n, Becomes(j, pc, f, t, push, out, n),
             pc \in {"skipped", "killed", "done", "fill", "realize", "copy"}
      PROVE  SeenThrough(j)'
  BY <1>3 DEF Becomes, SeenThrough
<1>4. ASSUME NEW pc, Keeps(j, pc), pc \in {"skipped", "killed", "done", "fill", "realize", "copy"}
      PROVE  SeenThrough(j)'
  BY <1>3, <1>4 DEF Keeps
<1>5. ASSUME NEW q, Gated(j, q), Cached(q) PROVE SeenThrough(j)'
  BY <1>1, <1>5 DEF Gated, Becomes, SeenThrough
<1>6. ASSUME NEW f, NEW t, NEW push, NEW out, NEW n, Becomes(j, "list", f, t, push, out, n),
             Head(t) \in store'[m]
      PROVE  SeenThrough(j)'
  BY <1>1, <1>6 DEF Becomes, SeenThrough
<1>7. ASSUME NEW push, NEW out, NEW n,
             Becomes(j, "push", job[j].phase, job[j].todo, push, out, n),
             ~Strict(j) => Closure[p] \ push \subseteq narinfo'
      PROVE  SeenThrough(j)'
  BY <1>1, <1>7 DEF Becomes, SeenThrough, Strict, Uploaded
<1>8. ASSUME Keeps(j, "switch"), job[j].out \in store'[env[j].host] PROVE SeenThrough(j)'
  BY <1>1, <1>8 DEF Keeps, Becomes, SeenThrough
<1>9. CASE Skip(j) \/ Kill(j)
  BY <1>4, <1>9, Effects
<1>10. CASE EnsureCli(j)
  <2>1. Head(<<Cli>>) = Cli
    OBVIOUS
  <2> QED BY <1>2, <1>6, <1>10, <2>1, Effects
<1>11. CASE FillSkip(j)
  <2>1. CASE FillsOn(j) BY <1>3, <2>1 DEF FillsOn
  <2>2. Cached(p) BY <1>11 DEF FillSkip, SkipCached
  <2> QED BY <1>5, <1>11, <2>1, <2>2, Effects
<1>12. CASE FillBuild(j)
  BY <1>2, <1>6, <1>12, Effects DEF Keeps
<1>13. CASE ListClosure(j)
  <2>1. job[j].pc = "list"
    BY <1>13 DEF ListClosure, At
  <2>2. CASE Becomes(j, "push", job[j].phase, job[j].todo, Closure[p], job[j].out, job[j].tries)
    BY <1>7, <2>2
  <2>3. CASE /\ p \notin store[m]
             /\ (Strict(j) /\ Keeps(j, "failed")) \/ (~Strict(j) /\ Keeps(j, "push"))
    <3>1. job[j].phase = "host" /\ Closure[p] \subseteq narinfo
      BY <2>1, <2>3 DEF SeenThrough, Cached
    <3>2. ~Strict(j)
      BY <1>2, <3>1 DEF Strict
    <3> QED BY <1>1, <1>7, <2>3, <3>1, <3>2 DEF Keeps
  <2> QED BY <1>13, <2>2, <2>3, Effects
<1>14. CASE PushOk(j)
  <2> DEFINE B == Batch(job[j].push)
  <2>1. job[j].pc = "push"
    BY <1>14 DEF PushOk, At
  <2>2. Becomes(j, "push", job[j].phase, job[j].todo, job[j].push \ B, job[j].out, 0)
    BY <1>14, Effects
  <2>3. ASSUME ~Strict(j) PROVE Closure[p] \ (job[j].push \ B) \subseteq narinfo'
    <3>1. Uploaded(j)'
      BY <1>14, <2>1, <2>3, PushOkUploads DEF SeenThrough
    <3> QED BY <2>2, <3>1 DEF Uploaded, Becomes
  <2> QED BY <1>7, <2>2, <2>3
<1>15. CASE PushFails(j)
  <2>1. job[j].pc = "push"
    BY <1>15 DEF PushFails, At
  <2>2. job[j].tries + 1 < PushTries /\ job[j].tries \in Nat /\ PushTries \in Nat
    BY <1>15, NotTheLast, BoundAssumption DEF JobsOk, JobState
  <2>3. ~(job[j].tries + 1 = PushTries) /\ ~(job[j].tries + 1 >= PushTries)
    BY <2>2
  <2>4. Becomes(j, "push", job[j].phase, job[j].todo, job[j].push, job[j].out, job[j].tries + 1)
    BY <1>15, <2>3, Effects
  <2> QED BY <1>1, <1>7, <2>1, <2>4 DEF SeenThrough, Uploaded
<1>16. CASE Pushed(j)
  <2>1. job[j].pc = "push" /\ job[j].push = {} /\ job[j].todo # <<>>
    BY <1>2, <1>16 DEF Pushed, At, OkState
  <2>2. CASE FillsOn(j) BY <1>3, <2>2 DEF FillsOn
  <2>3. CASE ~Strict(j) /\ Gated(j, p)
    <3>1. Closure[p] \ {} \subseteq narinfo /\ p \in Path
      BY <1>2, <2>1, <2>3, TailOk DEF SeenThrough, Uploaded
    <3> QED BY <1>5, <2>3, <3>1 DEF Cached
  <2> QED BY <1>16, <2>2, <2>3, Effects
<1>17. CASE FillNextPhase(j)
  BY <1>2, <1>3, <1>17, PhaseEffects
<1>18. CASE Verify(j)
  BY <1>2, <1>18 DEF Verify
<1>19. CASE Prove(j)
  <2>1. Cached(job[j].out)
    BY <1>19 DEF Prove, At, SeenThrough
  <2> QED BY <1>4, <1>19, <2>1, Effects
<1>20. ASSUME job[j].pc \in {"realize", "copy", "switch"}
       PROVE  /\ job[j].out = env[j].profile /\ job[j].out \in Closure[job[j].out]
              /\ Closure[job[j].out] \subseteq narinfo
  <2>1. job[j].out \in Path /\ NoPath \notin Path
    BY <1>2, <1>20, FleetAssumption DEF OkState
  <2> QED BY <1>2, <1>20, <2>1, ClosureClosed DEF Shape, GateInv, Calm
<1>21. CASE Realize(j)
  <2>1. /\ job[j].out = env[j].profile /\ job[j].out \in Closure[job[j].out]
        /\ Closure[job[j].out] \subseteq narinfo
    BY <1>20, <1>21 DEF Realize, At
  <2>2. Servable(Missing(m, env[j].profile))
    BY <1>1, <2>1 DEF Servable, Missing
  <2> QED BY <1>4, <1>8, <1>21, <2>1, <2>2, Effects DEF Local
<1>22. CASE CopyOk(j)
  <2>1. job[j].out \in Closure[job[j].out]
    BY <1>20, <1>22 DEF CopyOk, At
  <2> QED BY <1>8, <1>22, <2>1, Effects
<1>23. CASE CopyFails(j)
  <2>1. job[j].tries + 1 < CopyTries /\ job[j].tries \in Nat /\ CopyTries \in Nat
    BY <1>23, NotTheLast, BoundAssumption DEF JobsOk, JobState
  <2>2. ~(job[j].tries + 1 >= CopyTries)
    BY <2>1
  <2> QED BY <1>3, <1>23, <2>2, Effects
<1>24. CASE Switch(j)
  <2>1. job[j].out \in store[env[j].host]
    BY <1>24 DEF Switch, At, SeenThrough
  <2> QED BY <1>4, <1>24, <2>1, Effects
<1> QED
  BY <1>9, <1>10, <1>11, <1>12, <1>13, <1>14, <1>15, <1>16, <1>17, <1>18, <1>19, <1>21, <1>22,
     <1>23, <1>24 DEF Step

\* A deploy that fills fails only by a command of its own that nothing retries,
\* while fewer attempts fail than the retry loops make, whatever runs beside
\* it, unless its host runs build.sh itself.
THEOREM RetriesCorrect == Spec => []RetriesAbsorb
<1>1. Init => CalmInv /\ DeployInv
  <2> SUFFICES ASSUME Init PROVE CalmInv /\ DeployInv
    OBVIOUS
  <2>1. \A j \in Job : job[j].pc = "start"
    BY DEF Init
  <2> QED BY <2>1 DEF Init, CalmInv, DeployInv, SeenThrough
<1>2. TypeOK /\ JobsOk /\ ShapeInv /\ PushInv /\ TriesInv /\ GateInv /\ CalmInv /\ DeployInv
        /\ [Next]_vars => (CalmInv /\ DeployInv)'
  <2> SUFFICES ASSUME TypeOK, JobsOk, ShapeInv, PushInv, TriesInv, GateInv, CalmInv, DeployInv,
                      [Next]_vars
               PROVE  (CalmInv /\ DeployInv)'
    OBVIOUS
  <2>1. ASSUME NEW j \in Job, Step(j) \/ Kill(j) PROVE (CalmInv /\ DeployInv)'
    <3>1. UNCHANGED <<env, broken, emptied, repairs>> /\ \A k \in Job : Assured(k)' = Assured(k)
      BY <2>1, StepCache DEF Assured, Undercut, Has
    <3> SUFFICES ASSUME faults' < PushTries, faults' < CopyTries, Calm,
                        NEW k \in Job \ broken, Assured(k)
                 PROVE  SeenThrough(k)'
      BY <2>1, <3>1, CalmStep DEF DeployInv, Enough, Calm
    <3>2. faults < PushTries /\ faults < CopyTries
      BY <2>1, FaultStep, BoundAssumption
    <3>3. SeenThrough(k)
      BY <3>2 DEF DeployInv, Enough
    <3> QED BY <2>1, <3>3, DeployOthers, DeployOwn
  <2>4. ASSUME NEW j \in Job, Breakdown(j) PROVE (CalmInv /\ DeployInv)'
    <3>1. /\ UNCHANGED <<narinfo, nar, env, faults, emptied, repairs>>
          /\ broken' = broken \cup {j}
          /\ \A k \in Job : Assured(k)' = Assured(k)
      BY <2>4, BreakdownRest DEF Assured, Undercut, Has
    <3> SUFFICES ASSUME Enough, NEW k \in Job \ broken, k # j, Assured(k)
                 PROVE  SeenThrough(k)'
      BY <3>1 DEF DeployInv, Enough, Calm, CalmInv
    <3>2. SeenThrough(k) /\ Calm
      BY DEF DeployInv, Enough
    <3> QED BY <2>4, <3>2, DeployOthers
  <2>2. CASE GarageEmptied \/ TruncateRows
    <3>1. ~Calm'
      BY <2>2 DEF GarageEmptied, TruncateRows, TypeOK, Calm
    <3> QED BY <3>1 DEF CalmInv, DeployInv, Enough
  <2>3. CASE UNCHANGED vars
    BY <2>3 DEF vars, cache, budget, CalmInv, DeployInv, Enough, Calm, Assured, Undercut, Has,
                SeenThrough, Strict, Uploaded, Cached
  <2> QED BY <2>1, <2>2, <2>3, <2>4 DEF Next
<1>3. DeployInv => RetriesAbsorb
  BY DEF DeployInv, Enough, Calm, Assured, SeenThrough, RetriesAbsorb
<1> QED BY <1>1, <1>2, <1>3, InitOk, NextOk, InitShape, NextShape, GateCorrect, PTL DEF Spec

=============================================================================
