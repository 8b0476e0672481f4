---------------------------- MODULE AtticDeploy ----------------------------
(***************************************************************************)
(* scripts/build.sh, scripts/verify-from-attic.sh and                      *)
(* scripts/deploy-from-attic.sh over scripts/attic-common.sh: several runs *)
(* of these scripts (operators, CI jobs) fill one Attic cache, check it,   *)
(* copy host closures out of it and switch hosts.                          *)
(*                                                                         *)
(* A store path is a model value; Closure[p] is what `nix path-info -r p`  *)
(* prints.  A profile path stands for the toplevel it wraps as well: the   *)
(* two are one-to-one for a host, so current[h] holds the profile.         *)
(***************************************************************************)
EXTENDS Naturals, Sequences, FiniteSets

CONSTANTS
  Path,        \* store paths
  Closure,     \* [Path -> SUBSET Path], reflexive and transitive
  Machine,     \* every machine with a Nix store: builders and hosts
  Host,        \* the machines that are deployed
  Installed,   \* [Host -> Path], the profile each host runs at the start
  Cli,         \* packages.attic
  Tooling,     \* the sequence packages.attic, ci-tools, devShell
  Job,         \* runs of the scripts
  Envs,        \* the command lines and environments a run may have
  NoPath,      \* the empty string in out_path
  PushTries,   \* attempts of one attic push
  CopyTries,   \* attempts of one nix copy
  BatchSize,   \* ATTIC_PUSH_BATCH_SIZE
  FaultCap,    \* failed attempts are counted up to here
  MaxEmptied,  \* how often Garage may come back empty
  MaxRepairs,  \* how often the operator truncates atticd's tables
  MaxKills     \* how many runs may be killed (cancelled jobs, crashes)

ASSUME ClosureAssumption ==
  /\ Closure \in [Path -> SUBSET Path]
  /\ \A p \in Path : p \in Closure[p]
  /\ \A p \in Path : \A q \in Closure[p] : Closure[q] \subseteq Closure[p]

ASSUME FleetAssumption ==
  /\ Host \subseteq Machine
  /\ Installed \in [Host -> Path]
  /\ Cli \in Path
  /\ Tooling \in Seq(Path)
  /\ NoPath \notin Path

ASSUME BoundAssumption ==
  /\ PushTries \in Nat \ {0} /\ CopyTries \in Nat \ {0}
  /\ BatchSize \in Nat
  /\ FaultCap \in Nat /\ FaultCap >= PushTries
  /\ MaxEmptied \in Nat /\ MaxRepairs \in Nat /\ MaxKills \in Nat

Flag == {"SKIP_IF_CACHED", "SKIP_FILL", "SKIP_TOOLING", "TOOLING_ONLY",
         "FORCE_SWITCH", "COPY_FROM_BUILDER", "FILL_PUBLIC_ONLY", "ATTIC_HOSTS"}

\* One run of a script: the machine it runs on, what it evaluates to (the
\* profile of `host` for a deploy, the selected profiles otherwise), ATTIC_*.
\* ATTIC_HOSTS is only told apart as set or unset.
Env == [script : {"build", "verify", "deploy"}, at : Machine, host : Host,
        profile : Path, selected : SUBSET Path, flags : SUBSET Flag]

\* The selected packages are profiles of hosts, never a tool.
ASSUME EnvAssumption ==
  /\ Envs \subseteq Env
  /\ \A e \in Envs : IsFiniteSet(e.selected)
  /\ \A e \in Envs : e.selected \cap ({Cli} \cup {Tooling[i] : i \in DOMAIN Tooling}) = {}

VARIABLES
  narinfo,  \* paths atticd answers a narinfo for (its Postgres rows)
  nar,      \* paths whose NAR Garage serves in full
  store,    \* valid paths of each machine's Nix store
  current,  \* /run/current-system of each host
  env,      \* the environment of each run, fixed when it starts
  job,      \* the progress of each run
  faults,   \* attempts of push or copy that failed, up to FaultCap
  broken,   \* runs in which a command failed that nothing retries
  emptied,  \* times Garage came back empty
  repairs,  \* times atticd's tables were truncated
  kills     \* runs killed half way

cache == <<narinfo, nar>>
budget == <<faults, broken, emptied, repairs, kills>>
vars == <<narinfo, nar, store, current, env, job, budget>>

Phase == {"cli", "tooling", "host"}
Running == {"start", "fill", "list", "push", "prove", "realize", "copy", "switch"}
Finished == {"done", "skipped", "failed", "killed"}

\* A run: the step it is at, the installables left to fill (the head is the
\* one being filled), the paths of its closure not pushed yet, the attempt
\* and out_path.
JobState == [pc : Running \cup Finished, phase : Phase, todo : Seq(Path),
             push : SUBSET Path, out : Path \cup {NoPath},
             tries : 0 .. (IF PushTries > CopyTries THEN PushTries ELSE CopyTries) - 1]

Has(j, flag) == flag \in env[j].flags
Local(j) == env[j].at = env[j].host

-----------------------------------------------------------------------------
(* What nix and attic do *)

\* attic_closure_cached: every narinfo of the closure, no NAR is read.
Cached(p) == p \in Path /\ Closure[p] \subseteq narinfo

\* What nix would have to fetch to make p valid on machine m.
Missing(m, p) == Closure[p] \ store[m]

\* Fetching q from Attic works when both the narinfo and the NAR are there.
Servable(S) == S \subseteq narinfo \cap nar

\* A narinfo without its NAR is not a substituter miss: nix fails on it
\* instead of going on to the next substituter or compiling.
GhostHit(j, p) ==
  /\ ~Has(j, "FILL_PUBLIC_ONLY")
  /\ ~ Missing(env[j].at, p) \cap narinfo \subseteq nar

\* A copy that breaks off leaves whole closures behind: nix registers a path
\* after its references.
PartialCopies(m, p) ==
  {D \in SUBSET Missing(m, p) : \A q \in D : Closure[q] \subseteq store[m] \cup D}

\* The same of a build: what it has fetched or compiled when it fails.
PartialFills(j, p) ==
  {D \in PartialCopies(env[j].at, p) :
     Has(j, "FILL_PUBLIC_ONLY") \/ D \cap narinfo \subseteq nar}

\* And of an exclusive realize.
PartialRealizes(m, p) == {D \in PartialCopies(m, p) : Servable(D)}

\* Mutant: nix store delete --ignore-liveness.
Deletable_Always(m, p) == \A q \in store[m] \ {p} : p \notin Closure[q]

\* nix store delete refuses roots and referenced paths (|| true in the caller).
Deletable(m, p) ==
  /\ \A q \in store[m] \ {p} : p \notin Closure[q]
  /\ m \in Host => p \notin Closure[current[m]]

-----------------------------------------------------------------------------
Init ==
  /\ env \in [Job -> Envs]
  /\ narinfo \in {{}, UNION {Closure[Installed[h]] : h \in Host}}
  /\ nar = narinfo
  /\ current = Installed
  /\ store = [m \in Machine |-> IF m \in Host THEN Closure[Installed[m]] ELSE {}]
  /\ job = [j \in Job |-> [pc |-> "start", phase |-> "cli", todo |-> <<>>,
                           push |-> {}, tries |-> 0, out |-> NoPath]]
  /\ faults = 0 /\ broken = {} /\ emptied = 0 /\ repairs = 0 /\ kills = 0

\* Go(j, r): run j continues in state r; nothing else of the runs changes.
Go(j, r) == job' = [job EXCEPT ![j] = r]
At(j, step) == job[j].pc = step
To(j, step) == [job[j] EXCEPT !.pc = step]
Gains(m, D) == store' = [store EXCEPT ![m] = @ \cup D]

\* set -e is in force everywhere but inside out_path=$(attic_fill_installable):
\* a command substitution of bash runs without it.
Strict(j) == ~(env[j].script = "deploy" /\ job[j].phase = "host")

Fill(j, phase, todo) == [job[j] EXCEPT !.pc = "fill", !.phase = phase, !.todo = todo]

-----------------------------------------------------------------------------
(* The start of each script *)

\* A deploy of the profile its host runs.
UpToDate(j) ==
  /\ env[j].script = "deploy" /\ ~Has(j, "FORCE_SWITCH")
  /\ current[env[j].host] = env[j].profile

\* deploy-from-attic.sh: a host on the evaluated profile is left alone; a
\* host that cannot be asked (readlink over ssh fails) counts as different.
Skip(j) ==
  /\ At(j, "start")
  /\ UpToDate(j)
  /\ Go(j, To(j, "skipped"))
  /\ UNCHANGED <<cache, store, current, env, budget>>

\* Where ensure_attic_cli and attic_login lead.
AfterLogin(j) ==
  CASE env[j].script = "verify" -> To(j, "prove")
    [] env[j].script = "deploy" /\ Has(j, "SKIP_FILL") ->
         [To(j, "prove") EXCEPT !.phase = "host", !.out = env[j].profile]
    [] OTHER -> [To(j, "list") EXCEPT !.phase = "cli", !.todo = <<Cli>>]

\* ensure_attic_cli with the builder substituters, then attic login.
EnsureCli(j) ==
  /\ At(j, "start")
  /\ UpToDate(j) => ~Local(j)
  /\ IF GhostHit(j, Cli)
       THEN /\ \E D \in PartialFills(j, Cli) : Gains(env[j].at, D)
            /\ Go(j, To(j, "failed"))
       ELSE Gains(env[j].at, Closure[Cli]) /\ Go(j, AfterLogin(j))
  /\ UNCHANGED <<cache, current, env, budget>>

-----------------------------------------------------------------------------
(* Fill *)

\* The skip test of attic_fill_installable.  attic_fill_hosts makes its own
\* before its loop (HostOrders).
SkipCached(j, p) ==
  /\ env[j].script = "deploy" \/ job[j].phase = "tooling"
  /\ Has(j, "SKIP_IF_CACHED") /\ Cached(p)

FillSkip(j) ==
  LET p == Head(job[j].todo) IN
  /\ At(j, "fill") /\ job[j].todo # <<>>
  /\ SkipCached(j, p)
  /\ Go(j, IF Strict(j) THEN [job[j] EXCEPT !.todo = Tail(@)]
                        ELSE [To(j, "prove") EXCEPT !.todo = <<>>, !.out = p])
  /\ UNCHANGED <<cache, store, current, env, budget>>

\* The script ends, or goes on behind the command substitution without a path.
NoOutPath(j) ==
  IF Strict(j) THEN To(j, "failed") ELSE [To(j, "prove") EXCEPT !.todo = <<>>]

\* nix_build_with_builder.  It fails on a ghost, or of itself (BuildFails).
FillBuild(j) ==
  LET p == Head(job[j].todo) IN
  /\ At(j, "fill") /\ job[j].todo # <<>>
  /\ ~SkipCached(j, p)
  /\ IF GhostHit(j, p)
       THEN (\E D \in PartialFills(j, p) : Gains(env[j].at, D)) /\ Go(j, NoOutPath(j))
       ELSE Gains(env[j].at, Closure[p]) /\ Go(j, To(j, "list"))
  /\ UNCHANGED <<cache, current, env, budget>>

\* attic_push_closure lists the closure.  When another run has deleted the
\* path since, path-info fails: the end of the script under set -e, an empty
\* list of batches without it.  BatchSize 0 pushes the path without a list.
ListClosure(j) ==
  LET p == Head(job[j].todo) IN
  /\ At(j, "list")
  /\ IF p \in store[env[j].at] \/ BatchSize = 0
       THEN Go(j, [To(j, "push") EXCEPT !.push = Closure[p]])
       ELSE Go(j, To(j, IF Strict(j) THEN "failed" ELSE "push"))
  /\ UNCHANGED <<cache, store, current, env, budget>>

\* The next batch of the list; the whole closure when BatchSize is 0.
Batch(S) ==
  IF BatchSize = 0 \/ Cardinality(S) <= BatchSize THEN S
  ELSE CHOOSE B \in SUBSET S : Cardinality(B) = BatchSize

\* attic push uploads the closures of its arguments, and of those only the
\* paths atticd has no narinfo for.
ToUpload(B) == (UNION {Closure[p] : p \in B}) \ narinfo

CountFault == faults' = IF faults < FaultCap THEN faults + 1 ELSE faults

NextTry(j) == [job[j] EXCEPT !.tries = @ + 1]
NextBatch(j) == [job[j] EXCEPT !.push = @ \ Batch(@), !.tries = 0]

PushOk(j) ==
  LET B == Batch(job[j].push) IN
  /\ At(j, "push") /\ job[j].push # {}
  /\ B \subseteq store[env[j].at]
  /\ narinfo' = narinfo \cup ToUpload(B)
  /\ nar' = nar \cup ToUpload(B)
  /\ Go(j, NextBatch(j))
  /\ UNCHANGED <<store, current, env, budget>>

\* Mutants: the status of _attic_push_batch is lost (|| true); the attempt is
\* not counted; the first failure is final.
AfterFailedPush_Ignored(j) == IF job[j].tries + 1 < PushTries THEN NextTry(j) ELSE NextBatch(j)
AfterFailedPush_Endless(j) == job[j]
AfterFailedPush_Final(j) == IF Strict(j) THEN To(j, "failed") ELSE NextBatch(j)

\* The attempts of _attic_push_batch.  After the last it returns 1: the end
\* of the script under set -e, and else the next batch.
AfterFailedPush(j) ==
  CASE job[j].tries + 1 < PushTries -> NextTry(j)
    [] job[j].tries + 1 = PushTries /\ Strict(j) -> To(j, "failed")
    [] OTHER -> NextBatch(j)

\* A failed attempt may have uploaded part of the batch.
PushFails(j) ==
  LET B == Batch(job[j].push) IN
  /\ At(j, "push") /\ job[j].push # {}
  /\ \E U \in SUBSET (ToUpload(B) \cap store[env[j].at]) :
       narinfo' = narinfo \cup U /\ nar' = nar \cup U
  /\ Go(j, AfterFailedPush(j))
  /\ CountFault
  /\ UNCHANGED <<store, current, env, broken, emptied, repairs, kills>>

\* The push of the head is over.  attic_fill_hosts deletes the profile it
\* pushed from the builder's store when nix lets it.
Pushed(j) ==
  LET p == Head(job[j].todo)
      m == env[j].at
      deletes == env[j].script = "build" /\ job[j].phase = "host" IN
  /\ At(j, "push") /\ job[j].push = {}
  /\ store' = IF deletes /\ Deletable(m, p) THEN [store EXCEPT ![m] = @ \ {p}] ELSE store
  /\ Go(j, IF Strict(j) THEN [To(j, "fill") EXCEPT !.todo = Tail(@)]
                        ELSE [To(j, "prove") EXCEPT !.todo = <<>>, !.out = p])
  /\ UNCHANGED <<cache, current, env, budget>>

\* The selected hosts that attic_fill_hosts still has to fill, in some order.
HostOrders(j) ==
  LET S == {p \in env[j].selected : ~(Has(j, "SKIP_IF_CACHED") /\ Cached(p))}
  IN  {s \in [1 .. Cardinality(S) -> S] : \A a, b \in DOMAIN s : s[a] = s[b] => a = b}

\* One phase of the fill is over and the next begins.
FillNextPhase(j) ==
  /\ At(j, "fill") /\ job[j].todo = <<>>
  /\ \/ /\ job[j].phase = "cli"
        /\ ~(env[j].script = "deploy" /\ Has(j, "SKIP_TOOLING"))
        /\ Go(j, Fill(j, "tooling", Tooling))
     \/ /\ env[j].script = "deploy"
        /\ job[j].phase = "tooling" \/ Has(j, "SKIP_TOOLING")
        /\ Go(j, Fill(j, "host", <<env[j].profile>>))
     \/ /\ env[j].script = "build" /\ job[j].phase = "tooling"
        /\ ~Has(j, "TOOLING_ONLY")
        /\ \E s \in HostOrders(j) : Go(j, Fill(j, "host", s))
     \/ /\ env[j].script = "build"
        /\ job[j].phase = "host" \/ (job[j].phase = "tooling" /\ Has(j, "TOOLING_ONLY"))
        /\ Go(j, To(j, "done"))
  /\ UNCHANGED <<cache, store, current, env, budget>>

-----------------------------------------------------------------------------
(* Prove, realize, copy, switch *)

ToVerify(j) == env[j].selected \cup {Tooling[i] : i \in DOMAIN Tooling}

\* verify-from-attic.sh proves every path before it exits.
Verify(j) ==
  /\ At(j, "prove") /\ env[j].script = "verify"
  /\ Go(j, To(j, IF \A p \in ToVerify(j) : Cached(p) THEN "done" ELSE "failed"))
  /\ UNCHANGED <<cache, store, current, env, budget>>

\* Mutant: out_path is only tested for being there.
Prove_NoGate(j) ==
  /\ At(j, "prove") /\ env[j].script = "deploy"
  /\ Go(j, CASE job[j].out = NoPath -> To(j, "failed")
             [] job[j].out # NoPath /\ Has(j, "SKIP_FILL") /\ ~Local(j) -> To(j, "copy")
             [] OTHER -> To(j, "realize"))
  /\ UNCHANGED <<cache, store, current, env, budget>>

\* The narinfo gate of deploy-from-attic.sh.
Prove(j) ==
  /\ At(j, "prove") /\ env[j].script = "deploy"
  /\ Go(j, CASE ~Cached(job[j].out) -> To(j, "failed")
             [] Cached(job[j].out) /\ Has(j, "SKIP_FILL") /\ ~Local(j) -> To(j, "copy")
             [] OTHER -> To(j, "realize"))
  /\ UNCHANGED <<cache, store, current, env, budget>>

\* nix_realize_attic_only: fetches what the builder's store misses, and only
\* from Attic.
Realize(j) ==
  LET m == env[j].at
      missing == Missing(m, env[j].profile) IN
  /\ At(j, "realize")
  /\ IF Servable(missing)
       THEN Gains(m, missing) /\ Go(j, To(j, IF Local(j) THEN "switch" ELSE "copy"))
       ELSE /\ \E D \in PartialRealizes(m, env[j].profile) : Gains(m, D)
            /\ Go(j, To(j, "failed"))
  /\ UNCHANGED <<cache, current, env, budget>>

\* Mutant: what Attic lacks comes from the builder (no --from, fallback true).
Source_Fallback(j) == store[env[j].at] \cup (narinfo \cap nar)

\* What attic_copy_closure_to_ssh can take from its source: Attic, or the
\* builder's store with ATTIC_COPY_FROM_BUILDER=1.
Source(j) == IF Has(j, "COPY_FROM_BUILDER") THEN store[env[j].at] ELSE narinfo \cap nar

\* The closure is read from the source's narinfos, what the target lacks is
\* sent, and nothing else.
CopyOk(j) ==
  LET h == env[j].host
      p == job[j].out IN
  /\ At(j, "copy")
  /\ Closure[p] \subseteq IF Has(j, "COPY_FROM_BUILDER") THEN store[env[j].at] ELSE narinfo
  /\ Missing(h, p) \subseteq Source(j)
  /\ Gains(h, Missing(h, p))
  /\ Go(j, To(j, "switch"))
  /\ UNCHANGED <<cache, current, env, budget>>

AfterFailedCopy(j) == IF job[j].tries + 1 < CopyTries THEN NextTry(j) ELSE To(j, "failed")

CopyFails(j) ==
  LET h == env[j].host IN
  /\ At(j, "copy")
  /\ \E D \in PartialCopies(h, job[j].out) : D \subseteq Source(j) /\ Gains(h, D)
  /\ Go(j, AfterFailedCopy(j))
  /\ CountFault
  /\ UNCHANGED <<cache, current, env, broken, emptied, repairs, kills>>

\* switch-to-configuration of a path that is not in the target's store is a
\* file that does not exist.
Activates(j) ==
  /\ job[j].out \in store[env[j].host]
  /\ current' = [current EXCEPT ![env[j].host] = job[j].out]

Switch(j) ==
  /\ At(j, "switch")
  /\ IF job[j].out \in store[env[j].host]
       THEN Activates(j) /\ Go(j, To(j, "done"))
       ELSE UNCHANGED current /\ Go(j, To(j, "failed"))
  /\ UNCHANGED <<cache, store, env, budget>>

-----------------------------------------------------------------------------
(* Commands that nothing retries and that may fail of themselves: an       *)
(* evaluation, a download, a compile, a login, an ssh connection.  (A      *)
(* narinfo request that fails in the skip test only costs a fill.)         *)

Breaks(j, r) ==
  /\ broken' = broken \cup {j}
  /\ Go(j, r)
  /\ UNCHANGED <<cache, env, faults, emptied, repairs, kills>>

\* The first evaluations, the build of the CLI, attic login.
StartFails(j) ==
  /\ At(j, "start")
  /\ \E D \in PartialFills(j, Cli) : (UpToDate(j) /\ Local(j) => D = {}) /\ Gains(env[j].at, D)
  /\ Breaks(j, To(j, "failed"))
  /\ UNCHANGED current

\* The evaluation or the build of an installable.
BuildFails(j) ==
  LET p == Head(job[j].todo) IN
  /\ At(j, "fill") /\ job[j].todo # <<>>
  /\ SkipCached(j, p) => Strict(j)
  /\ \E D \in PartialFills(j, p) : (SkipCached(j, p) => D = {}) /\ Gains(env[j].at, D)
  /\ Breaks(j, NoOutPath(j))
  /\ UNCHANGED current

\* mktemp or path-info in attic_push_closure: as in ListClosure.
ListFails(j) ==
  /\ At(j, "list") /\ BatchSize # 0
  /\ Breaks(j, To(j, IF Strict(j) THEN "failed" ELSE "push"))
  /\ UNCHANGED <<store, current>>

\* Listing or evaluating the hosts.  nixos_hosts_selected asks for the hosts of
\* this system in a command substitution: with ATTIC_HOSTS set, a list that
\* could not be evaluated is an empty one and no host is selected.
HostListFails(j) ==
  /\ \/ /\ env[j].script = "build" /\ ~Has(j, "TOOLING_ONLY")
        /\ At(j, "fill") /\ job[j].phase = "tooling" /\ job[j].todo = <<>>
        /\ \/ Breaks(j, To(j, "failed"))
           \/ Has(j, "ATTIC_HOSTS") /\ Breaks(j, To(j, "done"))
     \/ /\ env[j].script = "verify" /\ At(j, "prove")
        /\ Has(j, "ATTIC_HOSTS")
        /\ Breaks(j, To(j, IF \A i \in DOMAIN Tooling : Cached(Tooling[i])
                            THEN "done" ELSE "failed"))
  /\ UNCHANGED <<store, current>>

\* The evaluations of verify-from-attic.sh, the narinfo gate of a deploy.
ProveFails(j) ==
  /\ At(j, "prove")
  /\ Breaks(j, To(j, "failed"))
  /\ UNCHANGED <<store, current>>

RealizeFails(j) ==
  /\ At(j, "realize")
  /\ \E D \in PartialRealizes(env[j].at, env[j].profile) : Gains(env[j].at, D)
  /\ Breaks(j, To(j, "failed"))
  /\ UNCHANGED current

\* ssh, or switch-to-configuration, which exits non-zero as well when a unit
\* fails to start after it has activated the system.
SwitchFails(j) ==
  /\ At(j, "switch")
  /\ Activates(j) \/ UNCHANGED current
  /\ Breaks(j, To(j, "failed"))
  /\ UNCHANGED store

-----------------------------------------------------------------------------
(* The surroundings *)

\* Garage is a new empty cluster; atticd's rows survive as ghosts.
GarageEmptied ==
  /\ emptied < MaxEmptied
  /\ emptied' = emptied + 1
  /\ nar' = {}
  /\ UNCHANGED <<narinfo, store, current, env, job, faults, broken, repairs, kills>>

\* docs/runbooks/attic-ghost-narinfos.md: truncate object, nar and chunk.
TruncateRows ==
  /\ repairs < MaxRepairs
  /\ repairs' = repairs + 1
  /\ narinfo' = {} /\ nar' = {}
  /\ UNCHANGED <<store, current, env, job, faults, broken, emptied, kills>>

\* A run is cancelled, or the machine it runs on goes away; a switch may have
\* activated the system by then.
Kill(j) ==
  /\ kills < MaxKills
  /\ job[j].pc \in Running
  /\ kills' = kills + 1
  /\ Go(j, To(j, "killed"))
  /\ UNCHANGED current \/ (At(j, "switch") /\ Activates(j))
  /\ UNCHANGED <<cache, store, env, faults, broken, emptied, repairs>>

Step(j) ==
  \/ Skip(j) \/ EnsureCli(j)
  \/ FillSkip(j) \/ FillBuild(j) \/ ListClosure(j)
  \/ PushOk(j) \/ PushFails(j) \/ Pushed(j) \/ FillNextPhase(j)
  \/ Verify(j) \/ Prove(j) \/ Realize(j)
  \/ CopyOk(j) \/ CopyFails(j) \/ Switch(j)

Breakdown(j) ==
  \/ StartFails(j) \/ BuildFails(j) \/ ListFails(j) \/ HostListFails(j)
  \/ ProveFails(j) \/ RealizeFails(j) \/ SwitchFails(j)

Next ==
  \/ \E j \in Job : Step(j) \/ Breakdown(j) \/ Kill(j)
  \/ GarageEmptied
  \/ TruncateRows

Spec == Init /\ [][Next]_vars

\* A script that was started goes on: every command it waits for returns.
FairSpec == Spec /\ \A j \in Job : WF_vars(Step(j))

-----------------------------------------------------------------------------
(* Properties *)

TypeOK ==
  /\ narinfo \subseteq Path /\ nar \subseteq Path
  /\ store \in [Machine -> SUBSET Path]
  /\ current \in [Host -> Path]
  /\ env \in [Job -> Envs]
  /\ job \in [Job -> JobState]
  /\ faults \in 0 .. FaultCap /\ broken \subseteq Job /\ emptied \in 0 .. MaxEmptied
  /\ repairs \in 0 .. MaxRepairs /\ kills \in 0 .. MaxKills

\* The system a host runs is whole in its own store: no copy that broke off,
\* no concurrent fill that deletes what it pushed (attic_fill_hosts runs
\* nix store delete on a builder that is a host itself) and no order of
\* several deploys leaves a running generation with a hole.
RunningIsWhole == \A h \in Host : Closure[current[h]] \subseteq store[h]

\* What a deploy switched a host to is on Attic, whatever failed on the way:
\* the failures that out_path=$(attic_fill_installable ...) swallows are all
\* caught by the narinfo gate of deploy-from-attic.sh.
SwitchedIsOnAttic ==
  repairs = 0 =>
    \A h \in Host : current[h] # Installed[h] => Closure[current[h]] \subseteq narinfo

\* build.sh that exits 0 has filled what it was asked to fill, so that
\* verify-from-attic.sh of the same commit passes after it: no failed attempt
\* and no concurrent run makes it leave something out, only its own list of
\* hosts that could not be evaluated (HostListFails).
FillMeansVerified ==
  repairs = 0 =>
    \A j \in Job \ broken : env[j].script = "build" /\ job[j].pc = "done" =>
      /\ \A i \in DOMAIN Tooling : Cached(Tooling[i])
      /\ Has(j, "TOOLING_ONLY") \/ \A p \in env[j].selected : Cached(p)

\* A host that runs build.sh while it is deployed, by itself or from another
\* machine, can find its new profile deleted before the switch.
Undercut(j) == \E k \in Job : env[k].script = "build" /\ env[k].at = env[j].host

\* A deploy that fills fails only by a command of its own that nothing retries
\* (StartFails to SwitchFails), as long as fewer attempts of a push or a copy
\* fail than the loops of attic_push_closure and attic_copy_closure_to_ssh make
\* and Garage loses nothing: not by what the runs around it push, delete, break
\* off or fail at.  The one exception is a host that runs build.sh itself.
RetriesAbsorb ==
  faults < PushTries /\ faults < CopyTries /\ emptied = 0 /\ repairs = 0 =>
    \A j \in Job : env[j].script = "deploy" /\ ~Has(j, "SKIP_FILL") /\ ~Undercut(j) =>
      (job[j].pc = "failed" => j \in broken)

\* docs/adr/2026-08-30-attic-fill-then-exclusive.md: a host other than the
\* builder is only ever given paths that Attic serves, in every step of every
\* run, unless the bootstrap hatch ATTIC_COPY_FROM_BUILDER=1 is open.
OnlyFromAttic ==
  [][(\A j \in Job : ~Has(j, "COPY_FROM_BUILDER")) =>
       \A h \in Host : (\A j \in Job : env[j].at # h) =>
         store'[h] \ store[h] \subseteq narinfo \cap nar]_vars

\* Every run of a script ends: no retry loop of it is endless.
RunsEnd == \A j \in Job : <>(job[j].pc \in Finished)

=============================================================================
