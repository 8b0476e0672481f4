-------------------------- MODULE GitlabPipelines --------------------------
(***************************************************************************)
(* The pipelines of main: .gitlab-ci.yml (test, select-hosts, trigger),    *)
(* scripts/gitlab-select-hosts.sh and scripts/changed-hosts.sh (which      *)
(* hosts), scripts/gitlab-gen-pipeline.sh and ci/jobs.yml (the child       *)
(* pipeline that fills, verifies and deploys them).                        *)
(*                                                                         *)
(* A toplevel is a version per host.  GitLab itself (needs, resource       *)
(* groups, auto-cancel, outdated deployments) is modelled from how the two *)
(* YAML files use it.                                                      *)
(***************************************************************************)
EXTENDS Naturals, Sequences, FiniteSets

CONSTANTS
  X86, Pi, Gaming,  \* the hosts, as changed-hosts.sh splits them
  Version,          \* toplevels; a revert brings an old one back
  Kinds,            \* the kinds of commits that reach main
  Sources,          \* the pipeline sources that occur
  MaxCommits,       \* commits on main
  MaxPipelines,     \* pipelines on main
  MaxFailures,      \* jobs that fail
  MaxCancels        \* pipelines that GitLab auto-cancels

Host == X86 \cup Pi \cup Gaming

\* Commits by what they touch: files of the changes list of .rules-fill, files
\* outside it that reach a closure all the same (the Go and Python sources,
\* dashboards and XML files under services/), and docs.
Kind == {"listed", "unlisted", "docs"}
Source == {"push", "web", "schedule"}

ASSUME HostAssumption ==
  /\ IsFiniteSet(Host)
  /\ X86 \cap Pi = {} /\ X86 \cap Gaming = {} /\ Pi \cap Gaming = {}
  /\ Host \cap {"test", "select", "trigger", "fill", "verify", "fillPi", "verifyPi"} = {}

ASSUME BoundAssumption ==
  /\ Kinds \subseteq Kind /\ Sources \subseteq Source
  /\ MaxCommits \in Nat /\ MaxPipelines \in Nat
  /\ MaxFailures \in Nat /\ MaxCancels \in Nat

ParentJob == {"test", "select", "trigger"}
ChildJob == {"fill", "verify", "fillPi", "verifyPi"} \cup Host
JobName == ParentJob \cup ChildJob

VARIABLES
  main,      \* the commits of main: what they touch, each host's toplevel
  pipes,     \* the pipelines in the order of their creation
  current,   \* the toplevel each host runs
  switched,  \* the pipeline that switched the host last, 0 for none
  listed,    \* the host's deployments in GitLab, the oldest first, by pipeline
  deployed,  \* the last of them to succeed, 0 for none
  failures, cancels

hostVars == <<current, switched, listed, deployed>>
vars == <<main, pipes, hostVars, failures, cancels>>

-----------------------------------------------------------------------------
(* What the YAML says of a job *)

\* Mutants: deploy jobs outside the group; the trigger job inside it.
NixGroup_NoDeploys == {"test", "select", "fill", "verify"}
NixGroup_Trigger == {"test", "select", "trigger", "fill", "verify"} \cup X86 \cup Gaming

\* resource_group: proxmox-dev-nix and attic-fill-rpi4.
NixGroup == {"test", "select", "fill", "verify"} \cup X86 \cup Gaming

GroupOf(n) == CASE n \in NixGroup -> NixGroup
                [] n = "fillPi" -> {"fillPi"}
                [] OTHER -> {}

Needs(n) == CASE n = "select" -> {"test"}
              [] n = "trigger" -> {"select"}
              [] n = "verify" -> {"fill"}
              [] n \in X86 \cup Gaming -> {"verify"}
              [] n = "verifyPi" -> {"fillPi"}
              [] n \in Pi -> {"verifyPi"}
              [] OTHER -> {}

\* Mutants: the x86 verify job may fail; the Pi's may not.
AllowFailure_Strict == {"fillPi"} \cup Pi \cup Gaming
AllowFailure_Verify == {"verify", "fillPi", "verifyPi"} \cup Pi \cup Gaming

\* A failed job with allow_failure does not block the jobs that need it.
AllowFailure == {"fillPi", "verifyPi"} \cup Pi \cup Gaming

NonInterruptible == {"trigger"} \cup Host

\* rules of .rules-fill: a web pipeline, or a match of the changes list;
\* outside a push GitLab takes the list to match.
RulesFill(source, kind) == source # "push" \/ kind = "listed"

-----------------------------------------------------------------------------
(* select-hosts *)

Changed(a, b) == {h \in Host : main[a].top[h] # main[b].top[h]}

\* Mutants: origin/main is the baseline on main too; web is no exception.
Selections_Origin(p) ==
  LET all == [mode |-> "all", sel |-> Host]
      diff == [mode |-> "diff", sel |-> Changed(Len(main), p.head)]
  IN  IF p.source = "web" THEN {all} ELSE {all, diff}
Selections_NoWeb(p) ==
  LET base == IF p.before # 0 THEN p.before ELSE Len(main)
  IN  {[mode |-> "all", sel |-> Host], [mode |-> "diff", sel |-> Changed(base, p.head)]}

\* gitlab-select-hosts.sh and changed-hosts.sh: all hosts for a web pipeline
\* or when the baseline cannot be evaluated, otherwise the hosts whose
\* toplevel at HEAD differs from CI_COMMIT_BEFORE_SHA, or from origin/main
\* when that is all zeros (0).
Selections(p) ==
  LET base == IF p.before # 0 THEN p.before ELSE Len(main)
      all == [mode |-> "all", sel |-> Host]
      diff == [mode |-> "diff", sel |-> Changed(base, p.head)]
  IN  IF p.source = "web" THEN {all} ELSE {all, diff}

\* gitlab-gen-pipeline.sh --deploy: the jobs of the child pipeline.
ChildStatus(sel, n) ==
  CASE n \in {"fill", "verify"} -> IF sel \cap (X86 \cup Gaming) # {} THEN "created" ELSE "none"
    [] n \in {"fillPi", "verifyPi"} -> IF sel \cap Pi # {} THEN "created" ELSE "none"
    [] n \in Gaming \cap sel -> "manual"
    [] n \in (X86 \cup Pi) \cap sel -> "created"
    [] OTHER -> "none"

-----------------------------------------------------------------------------
(* The state of a pipeline *)

\* "created", "manual", "running", "success", "failed", "canceled",
\* "outdated", or "none" for a job that is not part of the pipeline.
St(i, n) == pipes[i].job[n]
Set(i, n, s) == pipes' = [pipes EXCEPT ![i].job[n] = s]

Satisfied(i, n) == \/ St(i, n) = "success"
                   \/ St(i, n) = "failed" /\ n \in AllowFailure

Free(n) == \A i \in DOMAIN pipes : \A m \in GroupOf(n) : St(i, m) # "running"

\* Deployment of pipeline i is older than that of pipeline k: the age of a
\* deployment, not the place of its pipeline or of its commit.
Older(i, k, h) == \E b \in DOMAIN listed[h] :
                    /\ listed[h][b] = k
                    /\ \E a \in 1 .. b - 1 : listed[h][a] = i

\* The last deployment of the host to succeed is a younger one of another
\* commit: GitLab drops the job (prevent outdated deployment jobs, on by
\* default).
Outdated(i, n) == /\ n \in Host /\ deployed[n] # 0
                  /\ Older(i, deployed[n], n)
                  /\ pipes[deployed[n]].head # pipes[i].head

Ready(i, n) == /\ St(i, n) = "created"
               /\ \A m \in Needs(n) : Satisfied(i, m)

\* No job of the child runs, and none that is not manual is going to.
ChildOver(i) == \A n \in ChildJob : St(i, n) # "running" /\ ~Ready(i, n)
Over(i) == \A n \in JobName : St(i, n) # "running" /\ ~Ready(i, n)

-----------------------------------------------------------------------------
Init ==
  /\ \E top \in [Host -> Version] :
       main = <<[kind |-> "listed", top |-> top]>> /\ current = top
  /\ pipes = <<>>
  /\ switched = [h \in Host |-> 0]
  /\ listed = [h \in Host |-> <<>>]
  /\ deployed = [h \in Host |-> 0]
  /\ failures = 0 /\ cancels = 0

\* head, before: commits, as indices of main; sel, mode: what select-hosts
\* will find, the hosts and whether it asked for all or compared.
NewPipeline(head, before, source, kind) ==
  [head |-> head, before |-> before, source |-> source, sel |-> {}, mode |-> "",
   job |-> [n \in JobName |->
             CASE n = "test" -> "created"
               [] n \in {"select", "trigger"} /\ RulesFill(source, kind) -> "created"
               [] OTHER -> "none"]]

\* A merge: one commit on main and its pipeline.
Merge ==
  /\ Len(main) < MaxCommits /\ Len(pipes) < MaxPipelines
  /\ \E kind \in Kinds, top \in [Host -> Version] :
       /\ kind = "docs" => top = main[Len(main)].top
       /\ main' = Append(main, [kind |-> kind, top |-> top])
       /\ pipes' = Append(pipes, NewPipeline(Len(main) + 1, Len(main), "push", kind))
  /\ UNCHANGED <<hostVars, failures, cancels>>

\* A pipeline of main that no push starts (web; a schedule, a trigger token or
\* the API, all called "schedule") has no CI_COMMIT_BEFORE_SHA.
Manual ==
  /\ Len(pipes) < MaxPipelines
  /\ \E source \in Sources \ {"push"} :
       pipes' = Append(pipes, NewPipeline(Len(main), 0, source, "docs"))
  /\ UNCHANGED <<main, hostVars, failures, cancels>>

\* GitLab creates the deployment of a job some time between the creation of
\* the child pipeline and the start of the job; when depends on its version.
List(i, h) ==
  /\ St(i, h) \in {"created", "manual"}
  /\ \A a \in DOMAIN listed[h] : listed[h][a] # i
  /\ listed' = [listed EXCEPT ![h] = Append(@, i)]
  /\ UNCHANGED <<main, pipes, current, switched, deployed, failures, cancels>>

\* The runner takes a job; the trigger job creates the child pipeline.
Start(i, n) ==
  /\ \/ Ready(i, n)
     \/ n \in Gaming /\ St(i, n) = "manual" /\ \A m \in Needs(n) : Satisfied(i, m)
  /\ Free(n)
  /\ n \in Host => \E a \in DOMAIN listed[n] : listed[n][a] = i
  /\ ~Outdated(i, n)
  /\ IF n = "trigger"
       THEN pipes' = [pipes EXCEPT ![i].job =
              [m \in JobName |-> IF m \in ChildJob THEN ChildStatus(pipes[i].sel, m)
                                 ELSE IF m = "trigger" THEN "running" ELSE @[m]]]
       ELSE Set(i, n, "running")
  /\ UNCHANGED <<main, hostVars, failures, cancels>>

DropOutdated(i, n) ==
  /\ Ready(i, n) /\ Outdated(i, n)
  /\ Set(i, n, "outdated")
  /\ UNCHANGED <<main, hostVars, failures, cancels>>

\* test, fill and verify leave only their status here.
Finish(i, n) ==
  /\ St(i, n) = "running"
  /\ n \in {"test", "fill", "verify", "fillPi", "verifyPi"}
  /\ Set(i, n, "success")
  /\ UNCHANGED <<main, hostVars, failures, cancels>>

FinishSelect(i) ==
  /\ St(i, "select") = "running"
  /\ \E s \in Selections(pipes[i]) :
       pipes' = [pipes EXCEPT ![i].sel = s.sel, ![i].mode = s.mode,
                              ![i].job["select"] = "success"]
  /\ UNCHANGED <<main, hostVars, failures, cancels>>

\* strategy: depend: the trigger job ends with the child.
FinishTrigger(i) ==
  /\ St(i, "trigger") = "running"
  /\ ChildOver(i)
  /\ Set(i, "trigger",
         IF \A n \in ChildJob \ AllowFailure : St(i, n) \in {"none", "success"}
           THEN "success" ELSE "failed")
  /\ UNCHANGED <<main, hostVars, failures, cancels>>

\* deploy-from-attic.sh: the host ends on the toplevel of the job's commit,
\* whether it had to be switched or was skipped.
FinishDeploy(i, h) ==
  /\ St(i, h) = "running"
  /\ Set(i, h, "success")
  /\ current' = [current EXCEPT ![h] = main[pipes[i].head].top[h]]
  /\ switched' = [switched EXCEPT ![h] = i]
  /\ deployed' = [deployed EXCEPT ![h] = i]
  /\ UNCHANGED <<main, listed, failures, cancels>>

\* A job fails; a deploy fails before it switches the host ...
Fail(i, n) ==
  /\ failures < MaxFailures
  /\ St(i, n) = "running" /\ n # "trigger"
  /\ failures' = failures + 1
  /\ Set(i, n, "failed")
  /\ UNCHANGED <<main, hostVars, cancels>>

\* ... or after: switch-to-configuration has activated the system and exits
\* with an error all the same (a unit that does not start).
FailSwitched(i, h) ==
  /\ failures < MaxFailures
  /\ St(i, h) = "running"
  /\ failures' = failures + 1
  /\ Set(i, h, "failed")
  /\ current' = [current EXCEPT ![h] = main[pipes[i].head].top[h]]
  /\ switched' = [switched EXCEPT ![h] = i]
  /\ UNCHANGED <<main, listed, deployed, cancels>>

\* GitLab cancels a pipeline when a newer commit of main has one, unless a
\* job that is not interruptible has started in it.
AutoCancel(i) ==
  /\ cancels < MaxCancels
  /\ \E k \in DOMAIN pipes : k > i /\ pipes[k].head > pipes[i].head
  /\ ~Over(i)
  /\ \A n \in NonInterruptible : St(i, n) \in {"none", "created", "manual"}
  /\ cancels' = cancels + 1
  /\ pipes' = [pipes EXCEPT ![i].job =
                 [n \in JobName |-> IF @[n] \in {"created", "running", "manual"}
                                    THEN "canceled" ELSE @[n]]]
  /\ UNCHANGED <<main, hostVars, failures>>

JobStep ==
  \E i \in DOMAIN pipes :
    \/ \E n \in JobName : Start(i, n) \/ DropOutdated(i, n) \/ Finish(i, n)
    \/ FinishSelect(i)
    \/ FinishTrigger(i)
    \/ \E h \in Host : List(i, h) \/ FinishDeploy(i, h)

Next ==
  \/ Merge
  \/ Manual
  \/ JobStep
  \/ \E i \in DOMAIN pipes :
       \/ AutoCancel(i)
       \/ \E n \in JobName : Fail(i, n)
       \/ \E h \in Host : FailSwitched(i, h)

Spec == Init /\ [][Next]_vars

\* The runners and GitLab go on as long as a job can start or end.
FairSpec == Spec /\ WF_vars(JobStep)

-----------------------------------------------------------------------------
(* Properties *)

Quiet == \A i \in DOMAIN pipes : Over(i)
Top(h) == main[Len(main)].top[h]

\* Every change of h's toplevel came with a file of the changes list.
Seen(h) == \A c \in 2 .. Len(main) :
             main[c].top[h] # main[c - 1].top[h] => main[c].kind = "listed"

\* GitLab created the deployments of h in the order of their pipelines.  It need
\* not: the children of two pipelines are created, and queue their deploys, as
\* their own select-hosts and verify jobs end.
InOrder(h) == \A a, b \in DOMAIN listed[h] : a < b => listed[h][a] < listed[h][b]

\* When every pipeline is over and none was cancelled or failed, every x86
\* host whose changes the changes list can see and whose deployments were
\* created in order runs the toplevel main has for it: comparing two revisions
\* instead of asking the host loses no merge, however the other jobs of
\* overlapping pipelines interleave and whatever was reverted meanwhile.
MergedIsDeployed ==
  Quiet /\ cancels = 0 /\ failures = 0 =>
    \A h \in X86 : Seen(h) /\ InOrder(h) => current[h] = Top(h)

\* No deploy job, not even one that fails after the switch, brings an x86 host
\* back to another commit once a younger deployment of the host has succeeded:
\* GitLab looks when the job starts, the resource group keeps that true until
\* it ends.
ForwardOnly ==
  [][\A h \in X86, i \in DOMAIN pipes :
       switched'[h] # switched[h] /\ switched'[h] = i => ~Outdated(i, h)]_vars

\* No job waits for ever: in particular the trigger job, which waits for its
\* child, does not hold the resource group the child's jobs wait for.
PipelinesEnd == <>[](\A i \in DOMAIN pipes : Over(i))

\* A web pipeline of the head of main whose child has succeeded has brought
\* every x86 host to main, whatever earlier pipelines failed, with or without a
\* switch, or were cancelled half way, and whichever of their jobs are still
\* queued or run next to it, if the host's deployments were created in order.
WebRepairs ==
  \A i \in DOMAIN pipes :
    /\ pipes[i].source = "web" /\ pipes[i].head = Len(main)
    /\ St(i, "trigger") = "success"
    => \A h \in X86 : InOrder(h) => current[h] = Top(h)

\* No x86 host is switched by a pipeline whose verify job has not succeeded,
\* with failures in any job and a gaming deploy started by hand at any time.
SwitchIsVerified ==
  [][\A i \in DOMAIN pipes : \A h \in X86 \cup Gaming :
       switched'[h] # switched[h] /\ switched'[h] = i => St(i, "verify") = "success"]_vars

\* What fails in the Pi's jobs or on a gaming host is the operator's to look at
\* and never fails the pipeline: when the trigger job has failed, a job of the
\* x86 hosts has failed or was dropped for a younger deployment.
LanesApart ==
  \A i \in DOMAIN pipes : St(i, "trigger") = "failed" =>
    \E n \in {"fill", "verify"} \cup X86 : St(i, n) \in {"failed", "outdated"}

\* README.md, Automated Deployments: every merge to main ends with a switch on
\* each host whose toplevel changed.  Cancelled pipelines are no excuse here.
EveryMergeIsDeployed ==
  Quiet /\ failures = 0 => \A h \in X86 \cup Pi : current[h] = Top(h)

=============================================================================
