---------------------- MODULE GitlabPipelines_proofs ----------------------
(***************************************************************************)
(* Proofs about GitlabPipelines, for any hosts, any toplevels, any number  *)
(* of commits and pipelines, failures and cancellations.                   *)
(***************************************************************************)
EXTENDS GitlabPipelines, SequenceTheorems, TLAPS

-----------------------------------------------------------------------------
(* Types *)

Status == {"created", "manual", "running", "success", "failed", "canceled", "outdated", "none"}
Commit == [kind : Kind, top : [Host -> Version]]
Pipe == [head : Nat, before : Nat, source : Source, sel : SUBSET Host,
         mode : {"", "all", "diff"}, job : [JobName -> Status]]

TypeOK ==
  /\ main \in Seq(Commit) /\ main # <<>>
  /\ pipes \in Seq(Pipe)
  /\ current \in [Host -> Version]
  /\ switched \in [Host -> Nat]
  /\ listed \in [Host -> Seq(Nat)]
  /\ deployed \in [Host -> Nat]
  /\ failures \in Nat /\ cancels \in Nat

\* What of a pipeline no job changes.
Settings(k) == pipes'[k].head = pipes[k].head /\ pipes'[k].before = pipes[k].before
               /\ pipes'[k].source = pipes[k].source

\* The names of the jobs are different.
LEMMA Names ==
  /\ X86 \subseteq Host /\ Pi \subseteq Host /\ Gaming \subseteq Host
  /\ Host \subseteq ChildJob /\ ChildJob \subseteq JobName /\ NixGroup \subseteq JobName
  /\ \A h \in Host : h \notin {"test", "select", "trigger", "fill", "verify", "fillPi", "verifyPi"}
  /\ "trigger" \notin ChildJob /\ "select" \notin ChildJob /\ "test" \notin ChildJob
  /\ "trigger" \notin NixGroup
  /\ (X86 \cup {"test", "select", "trigger", "fill", "verify"}) \cap AllowFailure = {}
BY HostAssumption DEF Host, ChildJob, ParentJob, JobName, NixGroup, AllowFailure

\* A pipeline in the sequence is replaced by another of the same settings.
LEMMA ReplacePipe ==
  ASSUME TypeOK, NEW i \in DOMAIN pipes, NEW p \in Pipe, pipes' = [pipes EXCEPT ![i] = p],
         p.head = pipes[i].head, p.before = pipes[i].before, p.source = pipes[i].source
  PROVE  /\ pipes' \in Seq(Pipe) /\ DOMAIN pipes' = DOMAIN pipes
         /\ pipes'[i] = p /\ \A k \in DOMAIN pipes : k # i => pipes'[k] = pipes[k]
         /\ \A k \in DOMAIN pipes : Settings(k)
<1>1. pipes \in Seq(Pipe) /\ DOMAIN pipes = 1 .. Len(pipes) /\ Len(pipes) \in Nat
  BY DEF TypeOK
<1>2. pipes' \in Seq(Pipe)
  BY <1>1, ExceptSeq
<1>3. /\ DOMAIN pipes' = DOMAIN pipes /\ pipes'[i] = p
      /\ \A k \in DOMAIN pipes : k # i => pipes'[k] = pipes[k]
  BY <1>1
<1> QED BY <1>2, <1>3 DEF Settings

\* Job n of pipeline i has status s now, and nothing else of it changes.
LEMMA SetEffect ==
  ASSUME TypeOK, NEW i \in DOMAIN pipes, NEW n \in JobName, NEW s \in Status, Set(i, n, s)
  PROVE  /\ pipes' \in Seq(Pipe) /\ DOMAIN pipes' = DOMAIN pipes
         /\ \A k \in DOMAIN pipes : Settings(k) /\ pipes'[k].sel = pipes[k].sel
         /\ \A k \in DOMAIN pipes, m \in JobName :
              St(k, m)' = IF k = i /\ m = n THEN s ELSE St(k, m)
<1> DEFINE p == [pipes[i] EXCEPT !.job = [pipes[i].job EXCEPT ![n] = s]]
<1>1. pipes[i] \in Pipe
  BY DEF TypeOK
<1>2. /\ p \in Pipe /\ p.head = pipes[i].head /\ p.before = pipes[i].before
      /\ p.source = pipes[i].source /\ p.sel = pipes[i].sel
      /\ p.job = [pipes[i].job EXCEPT ![n] = s] /\ pipes[i].job \in [JobName -> Status]
  BY <1>1 DEF Pipe
<1>3. pipes' = [pipes EXCEPT ![i] = p]
  BY DEF Set
<1> HIDE DEF p
<1>4. /\ pipes' \in Seq(Pipe) /\ DOMAIN pipes' = DOMAIN pipes
      /\ pipes'[i] = p /\ \A k \in DOMAIN pipes : k # i => pipes'[k] = pipes[k]
      /\ \A k \in DOMAIN pipes : Settings(k)
  BY <1>2, <1>3, ReplacePipe
<1>5. \A k \in DOMAIN pipes, m \in JobName :
              St(k, m)' = IF k = i /\ m = n THEN s ELSE St(k, m)
  BY <1>2, <1>4 DEF St
<1> QED BY <1>2, <1>4, <1>5

\* The trigger job runs, and the jobs of the child are there.
LEMMA TriggerEffect ==
  ASSUME TypeOK, NEW i \in DOMAIN pipes, Start(i, "trigger")
  PROVE  /\ pipes' \in Seq(Pipe) /\ DOMAIN pipes' = DOMAIN pipes
         /\ \A k \in DOMAIN pipes : Settings(k) /\ pipes'[k].sel = pipes[k].sel
         /\ \A k \in DOMAIN pipes, m \in JobName :
              St(k, m)' = IF k # i THEN St(k, m)
                          ELSE IF m \in ChildJob THEN ChildStatus(pipes[i].sel, m)
                          ELSE IF m = "trigger" THEN "running" ELSE St(k, m)
         /\ \A m \in ChildJob : ChildStatus(pipes[i].sel, m) \in {"created", "manual", "none"}
<1> DEFINE f == [m \in JobName |-> IF m \in ChildJob THEN ChildStatus(pipes[i].sel, m)
                                   ELSE IF m = "trigger" THEN "running" ELSE pipes[i].job[m]]
           p == [pipes[i] EXCEPT !.job = f]
<1>1. pipes[i] \in Pipe
  BY DEF TypeOK
<1>2. \A m \in ChildJob : ChildStatus(pipes[i].sel, m) \in {"created", "manual", "none"}
  BY DEF ChildStatus
<1>3. f \in [JobName -> Status]
  <2>1. pipes[i].job \in [JobName -> Status]
    BY <1>1 DEF Pipe
  <2> QED BY <1>2, <2>1 DEF Status
<1>4. pipes' = [pipes EXCEPT ![i] = p]
  BY DEF Start
<1> HIDE DEF f
<1>5. /\ p \in Pipe /\ p.head = pipes[i].head /\ p.before = pipes[i].before
      /\ p.source = pipes[i].source /\ p.sel = pipes[i].sel /\ p.job = f
  BY <1>1, <1>3 DEF Pipe
<1> HIDE DEF p
<1>6. /\ pipes' \in Seq(Pipe) /\ DOMAIN pipes' = DOMAIN pipes
      /\ pipes'[i] = p /\ \A k \in DOMAIN pipes : k # i => pipes'[k] = pipes[k]
      /\ \A k \in DOMAIN pipes : Settings(k)
  BY <1>4, <1>5, ReplacePipe
<1>7. \A k \in DOMAIN pipes, m \in JobName :
         St(k, m)' = IF k # i THEN St(k, m)
                     ELSE IF m \in ChildJob THEN ChildStatus(pipes[i].sel, m)
                     ELSE IF m = "trigger" THEN "running" ELSE St(k, m)
  BY <1>5, <1>6 DEF St, f
<1> QED BY <1>2, <1>5, <1>6, <1>7

\* What select-hosts writes down.
LEMMA SelectEffect ==
  ASSUME TypeOK, NEW i \in DOMAIN pipes, FinishSelect(i)
  PROVE  /\ pipes' \in Seq(Pipe) /\ DOMAIN pipes' = DOMAIN pipes
         /\ \A k \in DOMAIN pipes : Settings(k) /\ (k # i => pipes'[k].sel = pipes[k].sel)
         /\ \E s \in Selections(pipes[i]) : pipes'[i].sel = s.sel
         /\ \A k \in DOMAIN pipes, m \in JobName :
              St(k, m)' = IF k = i /\ m = "select" THEN "success" ELSE St(k, m)
<1>1. pipes[i] \in Pipe /\ "select" \in JobName
  BY DEF TypeOK, JobName, ParentJob
<1>2. PICK s \in Selections(pipes[i]) :
        pipes' = [pipes EXCEPT ![i].sel = s.sel, ![i].mode = s.mode, ![i].job["select"] = "success"]
  BY DEF FinishSelect
<1>3. s.sel \in SUBSET Host /\ s.mode \in {"", "all", "diff"}
  <2>1. PICK base : s \in {[mode |-> "all", sel |-> Host],
                          [mode |-> "diff", sel |-> Changed(base, pipes[i].head)]}
    BY <1>2 DEF Selections
  <2>2. Changed(base, pipes[i].head) \in SUBSET Host
    BY DEF Changed
  <2>3. CASE s = [mode |-> "all", sel |-> Host]
    BY <2>3
  <2>4. CASE s = [mode |-> "diff", sel |-> Changed(base, pipes[i].head)]
    BY <2>2, <2>4
  <2> QED BY <2>1, <2>3, <2>4
<1> DEFINE p == [pipes[i] EXCEPT !.sel = s.sel, !.mode = s.mode,
                                 !.job = [pipes[i].job EXCEPT !["select"] = "success"]]
<1>4. /\ p \in Pipe /\ p.head = pipes[i].head /\ p.before = pipes[i].before
      /\ p.source = pipes[i].source /\ p.sel = s.sel
      /\ p.job = [pipes[i].job EXCEPT !["select"] = "success"]
      /\ pipes[i].job \in [JobName -> Status]
  BY <1>1, <1>3 DEF Pipe, Status
<1>5. pipes' = [pipes EXCEPT ![i] = p]
  <2>1. pipes \in Seq(Pipe) /\ DOMAIN pipes = 1 .. Len(pipes)
    BY DEF TypeOK
  <2>2. /\ DOMAIN pipes' = DOMAIN pipes
        /\ \A k \in DOMAIN pipes : k # i => pipes'[k] = pipes[k]
        /\ pipes'[i] = p
    BY <1>1, <1>2, <2>1 DEF Pipe
  <2>3. pipes' = [k \in DOMAIN pipes |-> pipes'[k]]
    BY <1>2
  <2> QED BY <2>2, <2>3
<1> HIDE DEF p
<1>6. /\ pipes' \in Seq(Pipe) /\ DOMAIN pipes' = DOMAIN pipes
      /\ pipes'[i] = p /\ \A k \in DOMAIN pipes : k # i => pipes'[k] = pipes[k]
      /\ \A k \in DOMAIN pipes : Settings(k)
  BY <1>4, <1>5, ReplacePipe
<1>7. \A k \in DOMAIN pipes, m \in JobName :
              St(k, m)' = IF k = i /\ m = "select" THEN "success" ELSE St(k, m)
  BY <1>1, <1>4, <1>6 DEF St
<1> QED BY <1>4, <1>6, <1>7

LEMMA CancelEffect ==
  ASSUME TypeOK, NEW i \in DOMAIN pipes, AutoCancel(i)
  PROVE  /\ pipes' \in Seq(Pipe) /\ DOMAIN pipes' = DOMAIN pipes
         /\ \A k \in DOMAIN pipes : Settings(k) /\ pipes'[k].sel = pipes[k].sel
         /\ \A k \in DOMAIN pipes, m \in JobName :
              St(k, m)' = IF k = i /\ St(k, m) \in {"created", "running", "manual"}
                          THEN "canceled" ELSE St(k, m)
<1> DEFINE f == [m \in JobName |-> IF pipes[i].job[m] \in {"created", "running", "manual"}
                                   THEN "canceled" ELSE pipes[i].job[m]]
           p == [pipes[i] EXCEPT !.job = f]
<1>1. pipes[i] \in Pipe
  BY DEF TypeOK
<1>2. f \in [JobName -> Status]
  <2>1. pipes[i].job \in [JobName -> Status]
    BY <1>1 DEF Pipe
  <2> QED BY <2>1 DEF Status
<1>3. pipes' = [pipes EXCEPT ![i] = p]
  BY DEF AutoCancel
<1> HIDE DEF f
<1>4. /\ p \in Pipe /\ p.head = pipes[i].head /\ p.before = pipes[i].before
      /\ p.source = pipes[i].source /\ p.sel = pipes[i].sel /\ p.job = f
  BY <1>1, <1>2 DEF Pipe
<1> HIDE DEF p
<1>5. /\ pipes' \in Seq(Pipe) /\ DOMAIN pipes' = DOMAIN pipes
      /\ pipes'[i] = p /\ \A k \in DOMAIN pipes : k # i => pipes'[k] = pipes[k]
      /\ \A k \in DOMAIN pipes : Settings(k)
  BY <1>3, <1>4, ReplacePipe
<1>6. \A k \in DOMAIN pipes, m \in JobName :
              St(k, m)' = IF k = i /\ St(k, m) \in {"created", "running", "manual"}
                          THEN "canceled" ELSE St(k, m)
  BY <1>4, <1>5 DEF St, f
<1> QED BY <1>4, <1>5, <1>6

\* Pipeline new is there, the others are what they were.
Appended(new, head, before, source, kind) ==
  /\ pipes' \in Seq(Pipe) /\ DOMAIN pipes' = DOMAIN pipes \cup {new}
  /\ new \in Nat \ {0} /\ DOMAIN pipes = 1 .. new - 1
  /\ \A k \in DOMAIN pipes : pipes'[k] = pipes[k]
  /\ pipes'[new].head = head /\ pipes'[new].before = before
  /\ pipes'[new].source = source /\ pipes'[new].sel = {}
  /\ \A m \in JobName :
       St(new, m)' = CASE m = "test" -> "created"
                       [] m \in {"select", "trigger"} /\ RulesFill(source, kind) -> "created"
                       [] OTHER -> "none"

\* A new pipeline has only jobs that are created.
LEMMA AppendEffect ==
  ASSUME TypeOK, NEW head \in Nat, NEW before \in Nat, NEW source \in Source, NEW kind \in Kind,
         pipes' = Append(pipes, NewPipeline(head, before, source, kind)),
         NEW new, new = Len(pipes) + 1
  PROVE  Appended(new, head, before, source, kind)
<1> DEFINE p == NewPipeline(head, before, source, kind)
<1>1. /\ p \in Pipe /\ p.head = head /\ p.before = before /\ p.source = source /\ p.sel = {}
      /\ p.job = [n \in JobName |->
             CASE n = "test" -> "created"
               [] n \in {"select", "trigger"} /\ RulesFill(source, kind) -> "created"
               [] OTHER -> "none"]
  BY DEF NewPipeline, Pipe, Status
<1> HIDE DEF p
<1>2. pipes \in Seq(Pipe) /\ Len(pipes) \in Nat /\ DOMAIN pipes = 1 .. Len(pipes)
  BY DEF TypeOK
<1>3. /\ pipes' \in Seq(Pipe) /\ DOMAIN pipes' = 1 .. Len(pipes) + 1
      /\ \A k \in 1 .. Len(pipes) : pipes'[k] = pipes[k]
      /\ pipes'[new] = p
  BY <1>1, <1>2, AppendProperties DEF p
<1>4. DOMAIN pipes' = DOMAIN pipes \cup {new} /\ new \in Nat \ {0} /\ DOMAIN pipes = 1 .. new - 1
  BY <1>2, <1>3
<1> QED BY <1>1, <1>2, <1>3, <1>4 DEF St, Appended

-----------------------------------------------------------------------------
(* What a step does to the jobs *)

Kept == UNCHANGED <<main, current, switched, listed, deployed>>
Counted == UNCHANGED <<failures, cancels>>

\* The pipelines keep their settings; the selection too where Sels says so.
SamePipes ==
  /\ pipes' \in Seq(Pipe) /\ DOMAIN pipes' = DOMAIN pipes
  /\ \A k \in DOMAIN pipes : Settings(k)
Sels == \A k \in DOMAIN pipes : pipes'[k].sel = pipes[k].sel

Change(i, n, s) ==
  /\ SamePipes
  /\ \A k \in DOMAIN pipes, m \in JobName : St(k, m)' = IF k = i /\ m = n THEN s ELSE St(k, m)

\* A job other than trigger begins.
Begins(i, n) ==
  /\ n # "trigger" /\ Change(i, n, "running")
  /\ St(i, n) \in {"created", "manual"} /\ (\A m \in Needs(n) : Satisfied(i, m))
  /\ Free(n) /\ ~Outdated(i, n)
  /\ n \in Host => \E a \in DOMAIN listed[n] : listed[n][a] = i
  /\ Sels /\ Kept /\ Counted

\* The trigger job begins.
Spawns(i) ==
  /\ SamePipes /\ Sels /\ Kept /\ Counted
  /\ St(i, "trigger") = "created" /\ Satisfied(i, "select")
  /\ \A k \in DOMAIN pipes, m \in JobName :
       St(k, m)' = IF k # i THEN St(k, m)
                   ELSE IF m \in ChildJob THEN ChildStatus(pipes[i].sel, m)
                   ELSE IF m = "trigger" THEN "running" ELSE St(k, m)
  /\ \A m \in ChildJob : ChildStatus(pipes[i].sel, m) \in {"created", "manual", "none"}

Drops(i, n) ==
  /\ Change(i, n, "outdated") /\ St(i, n) = "created" /\ Outdated(i, n)
  /\ Sels /\ Kept /\ Counted

\* A job other than a deploy ends well.
Ends(i, n) ==
  /\ n \notin Host /\ Change(i, n, "success") /\ St(i, n) = "running"
  /\ Kept /\ Counted
  /\ \A k \in DOMAIN pipes : k # i \/ n # "select" => pipes'[k].sel = pipes[k].sel
  /\ n = "select" => \E s \in Selections(pipes[i]) : pipes'[i].sel = s.sel
  /\ n = "trigger" => ChildOver(i) /\ \A m \in ChildJob \ AllowFailure : St(i, m) \in {"none", "success"}

Deploys(i, h) ==
  /\ Change(i, h, "success") /\ St(i, h) = "running" /\ Sels /\ Counted
  /\ UNCHANGED <<main, listed>>
  /\ current' = [current EXCEPT ![h] = main[pipes[i].head].top[h]]
  /\ switched' = [switched EXCEPT ![h] = i]
  /\ deployed' = [deployed EXCEPT ![h] = i]

\* GitLab creates the deployment of a job.
Lists(i, h) ==
  /\ SamePipes /\ Sels /\ Counted
  /\ \A k \in DOMAIN pipes, m \in JobName : St(k, m)' = St(k, m)
  /\ St(i, h) \in {"created", "manual"}
  /\ \A a \in DOMAIN listed[h] : listed[h][a] # i
  /\ listed' = [listed EXCEPT ![h] = Append(@, i)]
  /\ UNCHANGED <<main, current, switched, deployed>>

\* A job fails, a deploy before or after the switch, or the trigger job because
\* a job of the child has.
Fails(i, n) ==
  /\ Change(i, n, "failed") /\ St(i, n) = "running" /\ Sels
  /\ UNCHANGED <<main, listed, deployed>>
  /\ \/ UNCHANGED <<current, switched>>
     \/ /\ n \in Host
        /\ current' = [current EXCEPT ![n] = main[pipes[i].head].top[n]]
        /\ switched' = [switched EXCEPT ![n] = i]
  /\ \/ failures' = failures + 1
     \/ n = "trigger" /\ UNCHANGED failures
  /\ UNCHANGED cancels
  /\ n = "trigger" => ChildOver(i) /\ \E m \in ChildJob \ AllowFailure : St(i, m) \notin {"none", "success"}

Cancels(i) ==
  /\ SamePipes /\ Sels /\ Kept /\ cancels' = cancels + 1 /\ UNCHANGED failures
  /\ \A n \in NonInterruptible : St(i, n) \in {"none", "created", "manual"}
  /\ \A k \in DOMAIN pipes, m \in JobName :
       St(k, m)' = IF k = i /\ St(k, m) \in {"created", "running", "manual"}
                   THEN "canceled" ELSE St(k, m)

\* A pipeline is created, by a merge or by hand.
Creates(new) ==
  /\ pipes' \in Seq(Pipe) /\ DOMAIN pipes' = DOMAIN pipes \cup {new}
  /\ new \in Nat \ {0} /\ DOMAIN pipes = 1 .. new - 1
  /\ \A k \in DOMAIN pipes : pipes'[k] = pipes[k]
  /\ \A m \in JobName : St(new, m)' \in {"created", "none"}
  /\ St(new, "test")' = "created"
  /\ \A m \in ChildJob : St(new, m)' = "none"
  /\ St(new, "select")' = St(new, "trigger")'
  /\ pipes'[new].sel = {}
  /\ UNCHANGED <<current, switched, listed, deployed>> /\ Counted

\* The commit of a merge, and what its pipeline is about.
Merges(new) ==
  /\ Creates(new)
  /\ \E c \in Commit : /\ main' = Append(main, c)
                       /\ c.kind = "listed" => St(new, "trigger")' = "created"
  /\ pipes'[new].head = Len(main) + 1 /\ pipes'[new].before = Len(main)
  /\ pipes'[new].source = "push"

Manually(new) ==
  /\ Creates(new) /\ UNCHANGED main
  /\ pipes'[new].head = Len(main) /\ pipes'[new].before = 0
  /\ pipes'[new].source # "push"

JobChange(i) ==
  \/ \E n \in JobName : Begins(i, n) \/ Drops(i, n) \/ Ends(i, n) \/ Fails(i, n)
  \/ \E h \in Host : Deploys(i, h) \/ Lists(i, h)
  \/ Spawns(i)
  \/ Cancels(i)

LEMMA Needed ==
  /\ Needs("trigger") = {"select"} /\ Needs("select") = {"test"} /\ Needs("verify") = {"fill"}
  /\ \A h \in X86 \cup Gaming : Needs(h) = {"verify"}
  /\ Needs("test") = {} /\ Needs("fill") = {}
  /\ \A n \in NixGroup : GroupOf(n) = NixGroup
<1>1. \A n \in NixGroup : GroupOf(n) = NixGroup
  <2>1. "fillPi" \notin NixGroup
    BY HostAssumption DEF NixGroup, Host
  <2> QED BY <2>1 DEF GroupOf
<1> QED BY <1>1, HostAssumption DEF Needs, Host

LEMMA StartChange ==
  ASSUME TypeOK, NEW i \in DOMAIN pipes, NEW n \in JobName, Start(i, n)
  PROVE  JobChange(i)
<1>1. /\ Kept /\ Counted /\ Free(n) /\ ~Outdated(i, n)
      /\ n \in Host => \E a \in DOMAIN listed[n] : listed[n][a] = i
      /\ St(i, n) \in {"created", "manual"} /\ \A m \in Needs(n) : Satisfied(i, m)
  BY DEF Start, Kept, Counted, Ready, hostVars
<1>2. CASE n = "trigger"
  <2>1. St(i, n) = "created" /\ Satisfied(i, "select")
    BY <1>1, <1>2, Names, Needed DEF Start, Ready
  <2> QED BY <1>1, <1>2, <2>1, TriggerEffect DEF JobChange, Spawns, SamePipes, Sels
<1>3. CASE n # "trigger"
  <2>1. Set(i, n, "running")
    BY <1>3 DEF Start
  <2>2. Change(i, n, "running") /\ Sels
    BY <2>1, SetEffect DEF Change, SamePipes, Sels, Status
  <2> QED BY <1>1, <1>3, <2>2 DEF JobChange, Begins
<1> QED BY <1>2, <1>3

\* Whatever happens is one of these.
LEMMA Steps ==
  ASSUME TypeOK, Next
  PROVE  \/ \E i \in DOMAIN pipes : JobChange(i)
         \/ \E new : Merges(new) \/ Manually(new)
<1>1. ASSUME NEW i \in DOMAIN pipes, NEW n \in JobName, NEW s \in Status, Set(i, n, s)
      PROVE  Change(i, n, s) /\ Sels
  BY <1>1, SetEffect DEF Change, SamePipes, Sels
<1>2. CASE Merge
  <2>1. PICK kind \in Kinds, top \in [Host -> Version] :
          /\ main' = Append(main, [kind |-> kind, top |-> top])
          /\ pipes' = Append(pipes, NewPipeline(Len(main) + 1, Len(main), "push", kind))
    BY <1>2 DEF Merge
  <2>0. PICK new : new = Len(pipes) + 1
    OBVIOUS
  <2>2. kind \in Kind /\ "push" \in Source /\ Len(main) \in Nat /\ Len(main) + 1 \in Nat
    BY BoundAssumption DEF Source, TypeOK
  <2>3. [kind |-> kind, top |-> top] \in Commit
    BY <2>2 DEF Commit
  <2> DEFINE head == Len(main) + 1
             before == Len(main)
  <2> HIDE DEF head, before
  <2>a. Appended(new, head, before, "push", kind)
    <3>1. head \in Nat /\ before \in Nat /\ pipes' = Append(pipes, NewPipeline(head, before, "push", kind))
      BY <2>1, <2>2 DEF head, before
    <3> QED BY ONLY TypeOK, <2>0, <2>2, <3>1, AppendEffect
  <2>4. Appended(new, Len(main) + 1, Len(main), "push", kind)
    BY <2>a DEF head, before
  <2>5. Creates(new)
    <3>1. UNCHANGED <<current, switched, listed, deployed>> /\ Counted
      BY <1>2 DEF Merge, Counted, hostVars
    <3> QED BY <2>4, <3>1, Names DEF Appended, Creates, JobName, ParentJob
  <2>6. kind = "listed" => St(new, "trigger")' = "created"
    BY <2>4 DEF Appended, RulesFill, JobName, ParentJob
  <2>7. Merges(new)
    BY <2>1, <2>3, <2>4, <2>5, <2>6 DEF Appended, Merges
  <2> QED BY <2>7
<1>3. CASE Manual
  <2>1. PICK source \in Sources \ {"push"} :
          pipes' = Append(pipes, NewPipeline(Len(main), 0, source, "docs"))
    BY <1>3 DEF Manual
  <2>0. PICK new : new = Len(pipes) + 1
    OBVIOUS
  <2>2. "docs" \in Kind /\ source \in Source /\ Len(main) \in Nat
    BY BoundAssumption DEF Kind, TypeOK
  <2> DEFINE head == Len(main)
  <2> HIDE DEF head
  <2>a. Appended(new, head, 0, source, "docs")
    <3>1. head \in Nat /\ 0 \in Nat /\ pipes' = Append(pipes, NewPipeline(head, 0, source, "docs"))
      BY <2>1, <2>2 DEF head
    <3> QED BY ONLY TypeOK, <2>0, <2>2, <3>1, AppendEffect
  <2>3. Appended(new, Len(main), 0, source, "docs")
    BY <2>a DEF head
  <2>4. Creates(new)
    <3>1. UNCHANGED <<current, switched, listed, deployed>> /\ Counted
      BY <1>3 DEF Manual, Counted, hostVars
    <3> QED BY <2>3, <3>1, Names DEF Appended, Creates, JobName, ParentJob
  <2>5. Manually(new)
    BY <1>3, <2>3, <2>4 DEF Appended, Manually, Manual
  <2> QED BY <2>5
<1>4. ASSUME NEW i \in DOMAIN pipes, NEW n \in JobName, DropOutdated(i, n) PROVE JobChange(i)
  <2>1. Change(i, n, "outdated") /\ Sels
    BY <1>1, <1>4 DEF DropOutdated, Status
  <2> QED BY <1>4, <2>1 DEF DropOutdated, Drops, JobChange, Ready, Kept, Counted, hostVars
<1>5. ASSUME NEW i \in DOMAIN pipes, NEW n \in JobName, Finish(i, n) PROVE JobChange(i)
  <2>1. Change(i, n, "success") /\ Sels
    BY <1>1, <1>5 DEF Finish, Status
  <2>2. n \notin Host /\ n # "select" /\ n # "trigger"
    BY <1>5, Names DEF Finish
  <2>3. Ends(i, n)
    BY <1>5, <2>1, <2>2 DEF Finish, Ends, Kept, Counted, Sels, hostVars
  <2> QED BY <2>3 DEF JobChange
<1>6. ASSUME NEW i \in DOMAIN pipes, FinishSelect(i) PROVE JobChange(i)
  <2>1. Change(i, "select", "success")
    BY <1>6, SelectEffect DEF Change, SamePipes
  <2>2. "select" \in JobName /\ "select" \notin Host
    BY Names DEF JobName, ParentJob
  <2>3. Ends(i, "select")
    BY <1>6, <2>1, <2>2, SelectEffect DEF Ends, FinishSelect, Kept, Counted, hostVars
  <2> QED BY <2>2, <2>3 DEF JobChange
<1>7. ASSUME NEW i \in DOMAIN pipes, FinishTrigger(i) PROVE JobChange(i)
  <2> DEFINE ok == \A n \in ChildJob \ AllowFailure : St(i, n) \in {"none", "success"}
  <2>1. "trigger" \in JobName /\ "trigger" \notin Host
    BY Names DEF JobName, ParentJob
  <2>2. Set(i, "trigger", IF ok THEN "success" ELSE "failed")
    BY <1>7 DEF FinishTrigger
  <2>3. ChildOver(i) /\ St(i, "trigger") = "running" /\ Kept /\ Counted
    BY <1>7 DEF FinishTrigger, Kept, Counted, hostVars
  <2>4. CASE ok
    <3>1. Set(i, "trigger", "success")
      BY <2>2, <2>4
    <3>2. Change(i, "trigger", "success") /\ Sels
      BY <1>1, <2>1, <3>1 DEF Status
    <3>3. Ends(i, "trigger")
      BY <2>1, <2>3, <2>4, <3>2 DEF Ends, Sels
    <3> QED BY <2>1, <3>3 DEF JobChange
  <2>5. CASE ~ok
    <3>1. Set(i, "trigger", "failed")
      BY <2>2, <2>5
    <3>2. Change(i, "trigger", "failed") /\ Sels
      BY <1>1, <2>1, <3>1 DEF Status
    <3>3. Fails(i, "trigger")
      BY <2>3, <2>5, <3>2 DEF Fails, Counted, Kept
    <3> QED BY <2>1, <3>3 DEF JobChange
  <2> QED BY <2>4, <2>5
<1>8. ASSUME NEW i \in DOMAIN pipes, NEW h \in Host, FinishDeploy(i, h) PROVE JobChange(i)
  <2>1. Change(i, h, "success") /\ Sels
    BY <1>1, <1>8, Names DEF FinishDeploy, Status
  <2>2. Deploys(i, h)
    BY <1>8, <2>1 DEF FinishDeploy, Deploys, Counted
  <2> QED BY <2>2 DEF JobChange
<1>9. ASSUME NEW i \in DOMAIN pipes, NEW n \in JobName, Fail(i, n) PROVE JobChange(i)
  <2>1. Change(i, n, "failed") /\ Sels
    BY <1>1, <1>9 DEF Fail, Status
  <2>2. Fails(i, n)
    BY <1>9, <2>1 DEF Fail, Fails, hostVars
  <2> QED BY <2>2 DEF JobChange
<1>10. ASSUME NEW i \in DOMAIN pipes, AutoCancel(i) PROVE JobChange(i)
  BY <1>10, CancelEffect DEF AutoCancel, Cancels, JobChange, Kept, SamePipes, Sels, hostVars
<1>11. ASSUME NEW i \in DOMAIN pipes, NEW h \in Host, FailSwitched(i, h) PROVE JobChange(i)
  <2>1. Change(i, h, "failed") /\ Sels /\ h \in JobName /\ h # "trigger"
    BY <1>1, <1>11, Names DEF FailSwitched, Status
  <2>2. Fails(i, h)
    BY <1>11, <2>1 DEF FailSwitched, Fails
  <2> QED BY <2>1, <2>2 DEF JobChange
<1>12. ASSUME NEW i \in DOMAIN pipes, NEW h \in Host, List(i, h) PROVE JobChange(i)
  <2>1. SamePipes /\ Sels /\ \A k \in DOMAIN pipes, m \in JobName : St(k, m)' = St(k, m)
    BY <1>12 DEF List, SamePipes, Sels, Settings, St, TypeOK
  <2>2. Lists(i, h)
    BY <1>12, <2>1 DEF List, Lists, Counted
  <2> QED BY <2>2 DEF JobChange
<1> QED
  BY <1>2, <1>3, <1>4, <1>5, <1>6, <1>7, <1>8, <1>9, <1>10, <1>11, <1>12, StartChange DEF Next, JobStep

-----------------------------------------------------------------------------
(* The invariants *)

Started == {"running", "success", "failed"}

\* Every pipeline is of a commit of main, of no older one than the pipelines before it.
HeadsInv ==
  /\ \A i \in DOMAIN pipes : pipes[i].head \in 1 .. Len(main) /\ pipes[i].before \in 0 .. Len(main)
  /\ \A i, k \in DOMAIN pipes : i <= k => pipes[i].head <= pipes[k].head

\* There is no child pipeline before the trigger job starts.
ChildInv ==
  \A i \in DOMAIN pipes : St(i, "trigger") \notin Started => \A n \in ChildJob : St(i, n) = "none"

\* The resource group runs one job at a time, over all pipelines.
GroupInv ==
  \A i, k \in DOMAIN pipes : \A m, n \in NixGroup :
    St(i, m) = "running" /\ St(k, n) = "running" => i = k /\ m = n

\* No deploy job starts before the verify job of its pipeline has succeeded.
VerifyInv ==
  \A i \in DOMAIN pipes : \A h \in X86 \cup Gaming :
    St(i, h) \in {"running", "success"} => St(i, "verify") = "success"

\* Every deploy job that runs or has succeeded has its deployment.
ListedInv ==
  \A h \in Host : \A i \in DOMAIN pipes :
    St(i, h) \in {"running", "success"} => \E a \in DOMAIN listed[h] : listed[h][a] = i

\* The last deployment of a host to succeed.
DeployedInv ==
  \A h \in Host : deployed[h] = 0 \/ (deployed[h] \in DOMAIN pipes /\ St(deployed[h], h) = "success")

\* No deployment runs when a younger one of another commit has succeeded last.
NewestInv ==
  \A h \in X86 : \A i \in DOMAIN pipes : St(i, h) = "running" => ~Outdated(i, h)

\* A host runs what the pipeline that has switched it last wanted.
RunsInv ==
  \A h \in X86 :
    \/ switched[h] = 0 /\ deployed[h] = 0 /\ current[h] = main[1].top[h]
    \/ switched[h] \in DOMAIN pipes /\ current[h] = main[pipes[switched[h]].head].top[h]

\* With the deployments in the order of the pipelines, that is not of an older
\* commit than any of those that have succeeded.
OrderInv ==
  \A h \in X86 : InOrder(h) =>
    \A i \in DOMAIN pipes : St(i, h) = "success" =>
      /\ deployed[h] # 0 /\ switched[h] # 0
      /\ pipes[i].head <= pipes[deployed[h]].head
      /\ pipes[deployed[h]].head <= pipes[switched[h]].head

\* What a pipeline that got as far as the child has selected.
WebInv ==
  \A i \in DOMAIN pipes :
    /\ pipes[i].source = "web" /\ St(i, "select") = "success" => pipes[i].sel = Host
    /\ St(i, "trigger") \in Started =>
         St(i, "select") = "success" /\ \A h \in X86 \cap pipes[i].sel : St(i, h) # "none"
    /\ St(i, "trigger") = "success" => \A h \in X86 : St(i, h) \in {"none", "success"}

Inv ==
  /\ TypeOK /\ HeadsInv /\ ChildInv /\ GroupInv /\ VerifyInv
  /\ ListedInv /\ DeployedInv /\ NewestInv /\ RunsInv /\ OrderInv /\ WebInv

\* What was on main stays there, and pipelines keep their settings.
LEMMA Keeps ==
  ASSUME TypeOK, Next
  PROVE  /\ Len(main) \in Nat \ {0} /\ DOMAIN main = 1 .. Len(main) /\ Len(main)' \in Nat
         /\ main' \in Seq(Commit) /\ main' # <<>>
         /\ Len(main) <= Len(main)' /\ \A c \in 1 .. Len(main) : main'[c] = main[c]
         /\ DOMAIN pipes = 1 .. Len(pipes) /\ Len(pipes) \in Nat
         /\ pipes' \in Seq(Pipe) /\ DOMAIN pipes \subseteq DOMAIN pipes'
         /\ \A k \in DOMAIN pipes : Settings(k)
<1>1. Len(main) \in Nat \ {0} /\ DOMAIN main = 1 .. Len(main) /\ DOMAIN pipes = 1 .. Len(pipes)
      /\ Len(pipes) \in Nat /\ main \in Seq(Commit) /\ main # <<>>
  BY DEF TypeOK
<1>2. CASE \E i \in DOMAIN pipes : JobChange(i)
  BY <1>1, <1>2 DEF JobChange, Begins, Drops, Ends, Fails, Deploys, Lists, Spawns, Cancels, Change, SamePipes, Kept
<1>3. ASSUME NEW new, Merges(new) \/ Manually(new)
      PROVE  /\ main' \in Seq(Commit) /\ main' # <<>> /\ Len(main)' \in Nat
             /\ Len(main) <= Len(main)' /\ \A c \in 1 .. Len(main) : main'[c] = main[c]
             /\ pipes' \in Seq(Pipe) /\ DOMAIN pipes \subseteq DOMAIN pipes'
             /\ \A k \in DOMAIN pipes : Settings(k)
  <2>1. pipes' \in Seq(Pipe) /\ DOMAIN pipes \subseteq DOMAIN pipes'
        /\ \A k \in DOMAIN pipes : Settings(k)
    BY <1>3 DEF Merges, Manually, Creates, Settings
  <2>2. CASE main' = main
    BY <1>1, <2>1, <2>2
  <2>3. ASSUME NEW c \in Commit, main' = Append(main, c)
        PROVE  /\ main' \in Seq(Commit) /\ main' # <<>> /\ Len(main)' \in Nat
               /\ Len(main) <= Len(main)' /\ \A d \in 1 .. Len(main) : main'[d] = main[d]
    BY <1>1, <2>3, AppendProperties
  <2> QED BY <1>3, <2>1, <2>2, <2>3 DEF Merges, Manually
<1> QED BY <1>1, <1>2, <1>3, Steps

\* TypeOK and HeadsInv.
LEMMA HeadsStep ==
  ASSUME TypeOK, HeadsInv, Next
  PROVE  TypeOK' /\ HeadsInv'
<1> USE Keeps
<1>1. CASE \E i \in DOMAIN pipes : JobChange(i)
  <2>1. PICK i \in DOMAIN pipes : JobChange(i)
    BY <1>1
  <2>2. DOMAIN pipes' = DOMAIN pipes /\ main' = main
    BY <2>1 DEF JobChange, Begins, Drops, Ends, Fails, Deploys, Lists, Spawns, Cancels, Change, SamePipes, Kept
  <2>3. HeadsInv'
    BY <2>2 DEF HeadsInv, Settings
  <2>4. failures' \in Nat /\ cancels' \in Nat
    BY <2>1 DEF JobChange, Begins, Drops, Ends, Fails, Deploys, Lists, Spawns, Cancels, Counted, TypeOK
  <2>5. current' \in [Host -> Version] /\ switched' \in [Host -> Nat]
    <3>1. CASE UNCHANGED <<current, switched>>
      BY <3>1 DEF TypeOK
    <3>2. ASSUME NEW h \in Host, current' = [current EXCEPT ![h] = main[pipes[i].head].top[h]],
                 switched' = [switched EXCEPT ![h] = i]
          PROVE  current' \in [Host -> Version] /\ switched' \in [Host -> Nat]
      <4>1. main[pipes[i].head] \in Commit
        BY DEF HeadsInv, TypeOK
      <4>2. main[pipes[i].head].top[h] \in Version
        BY <4>1 DEF Commit
      <4> QED BY <3>2, <4>2 DEF TypeOK
    <3> QED BY <2>1, <3>1, <3>2 DEF JobChange, Begins, Drops, Ends, Fails, Deploys, Lists, Spawns, Cancels, Kept
  <2>6. listed' \in [Host -> Seq(Nat)] /\ deployed' \in [Host -> Nat]
    <3>1. CASE UNCHANGED <<listed, deployed>>
      BY <3>1 DEF TypeOK
    <3>2. ASSUME NEW h \in Host, Deploys(i, h)
          PROVE  listed' \in [Host -> Seq(Nat)] /\ deployed' \in [Host -> Nat]
      BY <3>2 DEF Deploys, TypeOK
    <3>3. ASSUME NEW h \in Host, Lists(i, h)
          PROVE  listed' \in [Host -> Seq(Nat)] /\ deployed' \in [Host -> Nat]
      <4>1. listed[h] \in Seq(Nat) /\ i \in Nat
        BY DEF TypeOK
      <4>2. Append(listed[h], i) \in Seq(Nat)
        BY <4>1
      <4> QED BY <3>3, <4>2 DEF Lists, TypeOK
    <3> QED BY <2>1, <3>1, <3>2, <3>3 DEF JobChange, Begins, Drops, Ends, Fails, Spawns, Cancels, Kept
  <2> QED BY <2>3, <2>4, <2>5, <2>6 DEF TypeOK
<1>2. ASSUME NEW new, Creates(new), pipes'[new].head = Len(main)', pipes'[new].before \in 0 .. Len(main)
      PROVE  TypeOK' /\ HeadsInv'
  <2>1. TypeOK'
    BY <1>2 DEF Creates, Counted, TypeOK
  <2>2. /\ DOMAIN pipes' = DOMAIN pipes \cup {new} /\ new \in Nat \ {0} /\ DOMAIN pipes = 1 .. new - 1
        /\ \A k \in DOMAIN pipes : pipes'[k] = pipes[k]
    BY <1>2 DEF Creates
  <2>3. HeadsInv'
    BY <1>2, <2>2 DEF HeadsInv
  <2> QED BY <2>1, <2>3
<1>3. ASSUME NEW new, Merges(new)
      PROVE  Creates(new) /\ pipes'[new].head = Len(main)' /\ pipes'[new].before \in 0 .. Len(main)
  <2>1. main \in Seq(Commit)
    BY DEF TypeOK
  <2>2. \A c \in Commit : Len(Append(main, c)) = Len(main) + 1
    BY <2>1, AppendProperties
  <2> QED BY <1>3, <2>2 DEF Merges
<1>4. ASSUME NEW new, Manually(new)
      PROVE  Creates(new) /\ pipes'[new].head = Len(main)' /\ pipes'[new].before \in 0 .. Len(main)
  BY <1>4 DEF Manually
<1> QED BY <1>1, <1>2, <1>3, <1>4, Steps

\* Jobs are created with the child, and are none before.
LEMMA ChildStep ==
  ASSUME TypeOK, ChildInv, Next
  PROVE  ChildInv'
<1>1. ASSUME NEW i \in DOMAIN pipes, JobChange(i)
      PROVE  ChildInv'
  <2>0. DOMAIN pipes' = DOMAIN pipes /\ ChildJob \subseteq JobName /\ "trigger" \in JobName
        /\ "trigger" \notin ChildJob /\ Host \subseteq ChildJob
    BY <1>1, Names DEF JobChange, Begins, Drops, Ends, Fails, Deploys, Lists, Spawns, Cancels, Change,
         SamePipes, JobName, ParentJob
  <2>1. ASSUME NEW n \in JobName, NEW s \in Status, Change(i, n, s), St(i, n) # "none",
               n = "trigger" => s \in Started
        PROVE  ChildInv'
    BY <2>0, <2>1 DEF ChildInv, Change
  <2>2. ASSUME NEW n \in JobName, Begins(i, n) \/ Drops(i, n) \/ Ends(i, n) \/ Fails(i, n)
        PROVE  ChildInv'
    <3>1. n = "trigger" => ~Drops(i, n)
      BY Names DEF Drops, Outdated
    <3>2. /\ {"running", "outdated", "success", "failed"} \subseteq Status
          /\ {"running", "success", "failed"} \subseteq Started
      BY DEF Status, Started
    <3>3. CASE Begins(i, n)
      BY <2>1, <3>2, <3>3 DEF Begins
    <3>4. CASE Drops(i, n)
      BY <2>1, <3>1, <3>2, <3>4 DEF Drops
    <3>5. CASE Ends(i, n)
      BY <2>1, <3>2, <3>5 DEF Ends
    <3>6. CASE Fails(i, n)
      BY <2>1, <3>2, <3>6 DEF Fails
    <3> QED BY <2>2, <3>3, <3>4, <3>5, <3>6
  <2>3. ASSUME NEW h \in Host, Deploys(i, h)
        PROVE  ChildInv'
    BY <2>0, <2>1, <2>3 DEF Deploys, Status
  <2>4. CASE Spawns(i)
    BY <2>0, <2>4 DEF Spawns, ChildInv, Started
  <2>5. CASE Cancels(i)
    <3>1. St(i, "trigger") \notin Started
      BY <2>5 DEF Cancels, NonInterruptible, Started
    <3> QED BY <2>0, <2>5, <3>1 DEF Cancels, ChildInv, Started
  <2>6. ASSUME NEW h \in Host, Lists(i, h)
        PROVE  ChildInv'
    BY <2>0, <2>6 DEF Lists, ChildInv
  <2> QED BY <1>1, <2>2, <2>3, <2>4, <2>5, <2>6 DEF JobChange
<1>2. ASSUME NEW new, Creates(new)
      PROVE  ChildInv'
  <2>1. \A k \in DOMAIN pipes, n \in JobName : St(k, n)' = St(k, n)
    BY <1>2 DEF Creates, St
  <2>2. ChildJob \subseteq JobName /\ "trigger" \in JobName
    BY DEF JobName, ParentJob
  <2>3. DOMAIN pipes' = DOMAIN pipes \cup {new} /\ \A m \in ChildJob : St(new, m)' = "none"
    BY <1>2 DEF Creates
  <2> QED BY <2>1, <2>2, <2>3 DEF ChildInv
<1> QED BY <1>1, <1>2, Steps DEF Merges, Manually

LEMMA Created ==
  ASSUME NEW new, Creates(new)
  PROVE  /\ new \notin DOMAIN pipes /\ DOMAIN pipes' = DOMAIN pipes \cup {new}
         /\ \A k \in DOMAIN pipes, n \in JobName : St(k, n)' = St(k, n)
         /\ \A k \in DOMAIN pipes : pipes'[k].sel = pipes[k].sel
         /\ \A n \in JobName : St(new, n)' \in {"created", "none"}
BY DEF Creates, St

\* How a job other than trigger gets to run or to succeed; what has succeeded
\* stays so.
LEMMA Moves ==
  ASSUME TypeOK, ChildInv, Next
  PROVE  \A i \in DOMAIN pipes', n \in JobName \ {"trigger"} :
           /\ St(i, n)' = "running" =>
                i \in DOMAIN pipes /\ (St(i, n) = "running" \/ Begins(i, n))
           /\ St(i, n)' = "success" =>
                i \in DOMAIN pipes /\ (St(i, n) = "success" \/ Ends(i, n) \/ (n \in Host /\ Deploys(i, n)))
           /\ i \in DOMAIN pipes /\ St(i, n) = "success" => St(i, n)' = "success"
<1> DEFINE M(i, n) ==
           /\ St(i, n)' = "running" =>
                i \in DOMAIN pipes /\ (St(i, n) = "running" \/ Begins(i, n))
           /\ St(i, n)' = "success" =>
                i \in DOMAIN pipes /\ (St(i, n) = "success" \/ Ends(i, n) \/ (n \in Host /\ Deploys(i, n)))
           /\ i \in DOMAIN pipes /\ St(i, n) = "success" => St(i, n)' = "success"
<1>1. ASSUME NEW j \in DOMAIN pipes, JobChange(j), NEW i \in DOMAIN pipes', NEW n \in JobName \ {"trigger"}
      PROVE  M(i, n)
  <2>0. DOMAIN pipes' = DOMAIN pipes /\ i \in DOMAIN pipes
    BY <1>1 DEF JobChange, Begins, Drops, Ends, Fails, Deploys, Lists, Spawns, Cancels, Change, SamePipes
  <2>1. ASSUME NEW m \in JobName, NEW s \in Status, Change(j, m, s), i # j \/ n # m
        PROVE  M(i, n)
    BY <2>0, <2>1 DEF Change
  <2>2. ASSUME NEW m \in JobName, Begins(j, m)
        PROVE  M(i, n)
    <3>1. CASE i # j \/ n # m
      BY <2>1, <2>2, <3>1 DEF Begins, Status
    <3>2. CASE i = j /\ n = m
      BY <2>0, <2>2, <3>2 DEF Begins, Change
    <3> QED BY <3>1, <3>2
  <2>3. ASSUME NEW m \in JobName, Drops(j, m)
        PROVE  M(i, n)
    BY <2>0, <2>3 DEF Drops, Change
  <2>4. ASSUME NEW m \in JobName, Ends(j, m)
        PROVE  M(i, n)
    <3>1. CASE i # j \/ n # m
      BY <2>1, <2>4, <3>1 DEF Ends, Status
    <3>2. CASE i = j /\ n = m
      <4>1. St(i, n)' = "success"
        BY <2>0, <2>4, <3>2 DEF Ends, Change
      <4> QED BY <2>0, <2>4, <3>2, <4>1
    <3> QED BY <3>1, <3>2
  <2>5. ASSUME NEW m \in JobName, Fails(j, m)
        PROVE  M(i, n)
    BY <2>0, <2>5 DEF Fails, Change
  <2>6. ASSUME NEW h \in Host, Deploys(j, h)
        PROVE  M(i, n)
    <3>1. CASE i # j \/ n # h
      BY <2>0, <2>6, <3>1 DEF Deploys, Change
    <3>2. CASE i = j /\ n = h
      <4>1. St(i, n)' = "success"
        BY <2>0, <2>6, <3>2, Names DEF Deploys, Change
      <4> QED BY <2>0, <2>6, <3>2, <4>1
    <3> QED BY <3>1, <3>2
  <2>7. CASE Spawns(j)
    <3>1. n \in ChildJob => St(j, n) = "none"
      BY <2>7 DEF Spawns, ChildInv, Started
    <3>2. CASE n \in ChildJob /\ i = j
      <4>1. St(i, n)' \in {"created", "manual", "none"}
        BY <2>0, <2>7, <3>2 DEF Spawns
      <4> QED BY <3>1, <3>2, <4>1
    <3>3. CASE n \notin ChildJob \/ i # j
      <4>1. St(i, n)' = St(i, n)
        BY <2>0, <2>7, <3>3 DEF Spawns
      <4> QED BY <2>0, <4>1
    <3> QED BY <3>2, <3>3
  <2>8. CASE Cancels(j)
    BY <2>0, <2>8 DEF Cancels
  <2>9. ASSUME NEW h \in Host, Lists(j, h)
        PROVE  M(i, n)
    BY <2>0, <2>9 DEF Lists
  <2> HIDE DEF M
  <2> QED BY <1>1, <2>2, <2>3, <2>4, <2>5, <2>6, <2>7, <2>8, <2>9 DEF JobChange
<1>2. ASSUME NEW new, Creates(new), NEW i \in DOMAIN pipes', NEW n \in JobName \ {"trigger"}
      PROVE  M(i, n)
  <2>1. CASE i \in DOMAIN pipes
    <3>1. St(i, n)' = St(i, n)
      BY <1>2, <2>1, Created
    <3> QED BY <2>1, <3>1
  <2>2. CASE i = new
    <3>1. i \notin DOMAIN pipes /\ St(i, n)' \in {"created", "none"}
      BY <1>2, <2>2, Created
    <3> QED BY <3>1
  <2>3. DOMAIN pipes' = DOMAIN pipes \cup {new}
    BY <1>2, Created
  <2> HIDE DEF M
  <2> QED BY <2>1, <2>2, <2>3
<1> HIDE DEF M
<1>3. \A i \in DOMAIN pipes', n \in JobName \ {"trigger"} : M(i, n)
  BY <1>1, <1>2, Steps DEF Merges, Manually
<1> QED BY <1>3 DEF M

\* Only a deploy changes what a host runs, one that succeeds its last deployment.
LEMMA Switches ==
  ASSUME TypeOK, Next, NEW h \in Host
  PROVE  /\ \/ switched'[h] = switched[h] /\ current'[h] = current[h]
            \/ \E i \in DOMAIN pipes :
                 /\ Deploys(i, h) \/ (Fails(i, h) /\ deployed' = deployed)
                 /\ St(i, h) = "running" /\ main' = main
                 /\ switched'[h] = i /\ current'[h] = main[pipes[i].head].top[h]
         /\ deployed'[h] = deployed[h] \/ \E i \in DOMAIN pipes : Deploys(i, h) /\ deployed'[h] = i
<1> DEFINE By(i) == /\ Deploys(i, h) \/ (Fails(i, h) /\ deployed' = deployed)
                    /\ St(i, h) = "running" /\ main' = main
                    /\ switched'[h] = i /\ current'[h] = main[pipes[i].head].top[h]
           M == /\ (switched'[h] = switched[h] /\ current'[h] = current[h]) \/ \E i \in DOMAIN pipes : By(i)
                /\ deployed'[h] = deployed[h] \/ \E i \in DOMAIN pipes : Deploys(i, h) /\ deployed'[h] = i
<1>1. ASSUME UNCHANGED <<current, switched, deployed>>
      PROVE  M
  BY <1>1
<1>2. ASSUME NEW i \in DOMAIN pipes, NEW g \in Host, Deploys(i, g)
      PROVE  M
  <2>1. CASE g = h
    <3>1. By(i) /\ deployed'[h] = i
      BY <1>2, <2>1 DEF Deploys, TypeOK
    <3> HIDE DEF By
    <3> QED BY <1>2, <2>1, <3>1
  <2>2. CASE g # h
    BY <1>2, <2>2 DEF Deploys, TypeOK
  <2> QED BY <2>1, <2>2
<1>3. ASSUME NEW i \in DOMAIN pipes, NEW g \in JobName, Fails(i, g)
      PROVE  M
  <2>1. CASE UNCHANGED <<current, switched>>
    BY <1>3, <2>1 DEF Fails
  <2>2. CASE ~UNCHANGED <<current, switched>> /\ g = h
    <3>1. By(i) /\ deployed' = deployed
      BY <1>3, <2>2 DEF Fails, TypeOK
    <3> HIDE DEF By
    <3> QED BY <3>1
  <2>3. CASE ~UNCHANGED <<current, switched>> /\ g # h
    BY <1>3, <2>3 DEF Fails, TypeOK
  <2> QED BY <2>1, <2>2, <2>3
<1>4. ASSUME NEW i \in DOMAIN pipes, JobChange(i), ~\E g \in JobName : Fails(i, g), ~\E g \in Host : Deploys(i, g)
      PROVE  UNCHANGED <<current, switched, deployed>>
  BY <1>4 DEF JobChange, Begins, Drops, Ends, Lists, Spawns, Cancels, Kept
<1>5. ASSUME NEW new, Merges(new) \/ Manually(new)
      PROVE  UNCHANGED <<current, switched, deployed>>
  BY <1>5 DEF Merges, Manually, Creates
<1> HIDE DEF M
<1>6. M
  BY <1>1, <1>2, <1>3, <1>4, <1>5, Steps
<1> QED BY <1>6 DEF M

\* The deployments of a host are kept, and one may be added.
LEMMA Listing ==
  ASSUME TypeOK, Next, NEW h \in Host
  PROVE  /\ listed'[h] = listed[h] \/ \E i \in DOMAIN pipes : Lists(i, h) /\ listed'[h] = Append(listed[h], i)
         /\ \A a \in DOMAIN listed[h] : a \in DOMAIN listed'[h] /\ listed'[h][a] = listed[h][a]
<1>1. ASSUME NEW i \in DOMAIN pipes, NEW g \in Host, Lists(i, g)
      PROVE  listed'[h] = listed[h] \/ (Lists(i, h) /\ listed'[h] = Append(listed[h], i))
  <2>1. CASE g = h
    BY <1>1, <2>1 DEF Lists, TypeOK
  <2>2. CASE g # h
    BY <1>1, <2>2 DEF Lists, TypeOK
  <2> QED BY <2>1, <2>2
<1>2. ASSUME NEW i \in DOMAIN pipes, JobChange(i), ~\E g \in Host : Lists(i, g)
      PROVE  listed' = listed
  BY <1>2 DEF JobChange, Begins, Drops, Ends, Fails, Deploys, Spawns, Cancels, Kept
<1>3. ASSUME NEW new, Merges(new) \/ Manually(new)
      PROVE  listed' = listed
  BY <1>3 DEF Merges, Manually, Creates
<1>4. listed'[h] = listed[h] \/ \E i \in DOMAIN pipes : Lists(i, h) /\ listed'[h] = Append(listed[h], i)
  BY <1>1, <1>2, <1>3, Steps
<1>5. listed[h] \in Seq(Nat) /\ DOMAIN pipes \subseteq Nat
  BY DEF TypeOK
<1>6. ASSUME NEW i \in Nat, listed'[h] = Append(listed[h], i), NEW a \in DOMAIN listed[h]
      PROVE  a \in DOMAIN listed'[h] /\ listed'[h][a] = listed[h][a]
  BY <1>5, <1>6, AppendProperties
<1> QED BY <1>4, <1>5, <1>6

LEMMA GroupStep ==
  ASSUME TypeOK, ChildInv, GroupInv, Next
  PROVE  GroupInv'
<1> SUFFICES ASSUME NEW i \in DOMAIN pipes', NEW k \in DOMAIN pipes', NEW m \in NixGroup, NEW n \in NixGroup,
                    St(i, m)' = "running", St(k, n)' = "running"
             PROVE  i = k /\ m = n
  BY DEF GroupInv
<1>0. m \in JobName \ {"trigger"} /\ n \in JobName \ {"trigger"} /\ GroupOf(m) = NixGroup /\ GroupOf(n) = NixGroup
  BY Names, Needed
<1>1. /\ i \in DOMAIN pipes /\ (St(i, m) = "running" \/ Begins(i, m))
      /\ k \in DOMAIN pipes /\ (St(k, n) = "running" \/ Begins(k, n))
  BY <1>0, Moves
<1>2. ASSUME NEW j \in DOMAIN pipes, NEW l \in DOMAIN pipes, NEW a \in NixGroup, NEW b \in NixGroup,
             Begins(j, a), St(l, b)' = "running", a \in JobName, b \in JobName, GroupOf(a) = NixGroup
      PROVE  j = l /\ a = b
  <2>1. St(l, b) # "running"
    BY <1>2 DEF Begins, Free
  <2> QED BY <1>2, <2>1 DEF Begins, Change
<1> QED BY <1>0, <1>1, <1>2 DEF GroupInv

LEMMA VerifyStep ==
  ASSUME TypeOK, ChildInv, VerifyInv, Next
  PROVE  VerifyInv'
<1> SUFFICES ASSUME NEW i \in DOMAIN pipes', NEW h \in X86 \cup Gaming, St(i, h)' \in {"running", "success"}
             PROVE  St(i, "verify")' = "success"
  BY DEF VerifyInv
<1>0. h \in Host /\ h \in JobName \ {"trigger"} /\ "verify" \in JobName \ {"trigger"}
  BY Names DEF ChildJob
<1>1. /\ i \in DOMAIN pipes
      /\ St(i, h) \in {"running", "success"} \/ Begins(i, h) \/ Deploys(i, h)
  BY <1>0, Moves DEF Ends
<1>2. St(i, "verify") = "success"
  <2>1. CASE Begins(i, h)
    BY <2>1, Needed, Names DEF Begins, Satisfied
  <2>2. CASE St(i, h) \in {"running", "success"}
    BY <1>1, <2>2 DEF VerifyInv
  <2>3. CASE Deploys(i, h)
    BY <1>1, <2>3 DEF VerifyInv, Deploys
  <2> QED BY <1>1, <2>1, <2>2, <2>3
<1> QED BY <1>0, <1>1, <1>2, Moves

LEMMA ListedStep ==
  ASSUME TypeOK, ChildInv, ListedInv, Next
  PROVE  ListedInv'
<1> SUFFICES ASSUME NEW h \in Host, NEW i \in DOMAIN pipes', St(i, h)' \in {"running", "success"}
             PROVE  \E a \in DOMAIN listed'[h] : listed'[h][a] = i
  BY DEF ListedInv
<1>0. h \in JobName \ {"trigger"}
  BY Names
<1>1. i \in DOMAIN pipes /\ (St(i, h) \in {"running", "success"} \/ Begins(i, h) \/ Deploys(i, h))
  BY <1>0, Moves DEF Ends
<1>2. \E a \in DOMAIN listed[h] : listed[h][a] = i
  BY <1>1 DEF Begins, Deploys, ListedInv
<1> QED BY <1>2, Listing

LEMMA DeployedStep ==
  ASSUME TypeOK, ChildInv, DeployedInv, Next
  PROVE  DeployedInv'
<1> DEFINE Good(h) == \/ deployed'[h] = 0
                     \/ /\ deployed'[h] \in DOMAIN pipes'
                        /\ pipes'[deployed'[h]].job[h] = "success"
<1> SUFFICES ASSUME NEW h \in Host
             PROVE  Good(h)
  BY DEF DeployedInv, St
<1>0. h \in JobName \ {"trigger"}
  BY Names
<1>1. ASSUME NEW d \in DOMAIN pipes, deployed'[h] = d, St(d, h) = "success" \/ Deploys(d, h)
      PROVE  Good(h)
  <2>1. d \in DOMAIN pipes' /\ St(d, h)' = "success"
    BY <1>0, <1>1, Keeps, Moves DEF Deploys, Change
  <2> QED BY <1>1, <2>1 DEF St
<1>2. CASE deployed'[h] = deployed[h]
  <2>1. PICK d : d = deployed[h]
    OBVIOUS
  <2>2. deployed'[h] = d
    BY <1>2, <2>1
  <2>3. d = 0 \/ (d \in DOMAIN pipes /\ St(d, h) = "success")
    BY <2>1 DEF DeployedInv
  <2>4. CASE d = 0
    BY <2>2, <2>4
  <2>5. CASE d \in DOMAIN pipes /\ St(d, h) = "success"
    <3> HIDE DEF Good
    <3> QED BY <1>1, <2>2, <2>5
  <2> QED BY <2>3, <2>4, <2>5
<1> HIDE DEF Good
<1> QED BY <1>1, <1>2, Switches

\* Which of two deployments that are there is older does not change.
LEMMA SameAge ==
  ASSUME TypeOK, Next, NEW h \in Host, NEW i, NEW k, Older(i, k, h)', \A j \in DOMAIN pipes : Lists(j, h) => j # k
  PROVE  Older(i, k, h)
<1>1. PICK b \in DOMAIN listed'[h] : listed'[h][b] = k /\ \E a \in 1 .. b - 1 : listed'[h][a] = i
  BY DEF Older
<1>2. PICK a \in 1 .. b - 1 : listed'[h][a] = i
  BY <1>1
<1>3. listed[h] \in Seq(Nat) /\ DOMAIN listed[h] = 1 .. Len(listed[h]) /\ Len(listed[h]) \in Nat
  BY DEF TypeOK
<1>4. CASE listed'[h] = listed[h]
  BY <1>1, <1>4 DEF Older
<1>5. ASSUME NEW j \in DOMAIN pipes, Lists(j, h), listed'[h] = Append(listed[h], j)
      PROVE  Older(i, k, h)
  <2>0. j \in Nat
    BY DEF TypeOK
  <2>1. /\ DOMAIN listed'[h] = 1 .. Len(listed[h]) + 1 /\ listed'[h][Len(listed[h]) + 1] = j
        /\ \A c \in 1 .. Len(listed[h]) : listed'[h][c] = listed[h][c]
    BY <1>3, <1>5, <2>0, AppendProperties
  <2>2. b # Len(listed[h]) + 1
    BY <1>1, <1>5, <2>1
  <2>3. b \in 1 .. Len(listed[h]) /\ a \in 1 .. Len(listed[h])
    BY <1>2, <1>3, <2>1, <2>2
  <2> QED BY <1>1, <1>2, <1>3, <2>1, <2>3 DEF Older
<1> QED BY <1>4, <1>5, Listing

\* What is outdated was so before, unless another deployment has succeeded.
LEMMA SameOutdated ==
  ASSUME TypeOK, DeployedInv, Next, NEW h \in Host, NEW i \in DOMAIN pipes,
         deployed'[h] = deployed[h], Outdated(i, h)'
  PROVE  Outdated(i, h)
<1>1. PICK d : d = deployed[h]
  OBVIOUS
<1>2. d # 0 /\ Older(i, d, h)' /\ pipes'[d].head # pipes'[i].head
  BY <1>1 DEF Outdated, Older
<1>3. d \in DOMAIN pipes /\ St(d, h) = "success"
  BY <1>1, <1>2 DEF DeployedInv
<1>4. pipes'[d].head = pipes[d].head /\ pipes'[i].head = pipes[i].head
  BY <1>3, Keeps DEF Settings
<1>5. Older(i, d, h)
  BY <1>2, <1>3, SameAge DEF Lists
<1> QED BY <1>1, <1>2, <1>4, <1>5 DEF Outdated

LEMMA NewestStep ==
  ASSUME TypeOK, ChildInv, GroupInv, DeployedInv, NewestInv, Next
  PROVE  NewestInv'
<1> SUFFICES ASSUME NEW h \in X86, NEW i \in DOMAIN pipes', St(i, h)' = "running", Outdated(i, h)'
             PROVE  FALSE
  BY DEF NewestInv
<1>0. h \in Host /\ h \in JobName \ {"trigger"} /\ h \in NixGroup
  BY Names DEF NixGroup
<1>1. i \in DOMAIN pipes /\ (St(i, h) = "running" \/ Begins(i, h))
  BY <1>0, Moves
<1>2. ASSUME NEW k \in DOMAIN pipes, Deploys(k, h)
      PROVE  FALSE
  <2>1. St(k, h) = "running" /\ St(k, h)' = "success"
    BY <1>0, <1>2 DEF Deploys, Change
  <2>2. k # i
    BY <2>1
  <2>3. St(i, h) = "running"
    BY <1>0, <1>1, <1>2, <2>2 DEF Deploys, Change
  <2> QED BY <1>0, <1>1, <2>1, <2>2, <2>3 DEF GroupInv
<1>3. deployed'[h] = deployed[h]
  BY <1>0, <1>2, Switches
<1>4. Outdated(i, h)
  BY <1>0, <1>1, <1>3, SameOutdated
<1> QED BY <1>1, <1>4 DEF NewestInv, Begins

LEMMA RunsStep ==
  ASSUME TypeOK, HeadsInv, RunsInv, Next
  PROVE  RunsInv'
<1> DEFINE First(h) == switched'[h] = 0 /\ deployed'[h] = 0 /\ current'[h] = main'[1].top[h]
           By(h) == /\ switched'[h] \in DOMAIN pipes'
                    /\ current'[h] = main'[pipes'[switched'[h]].head].top[h]
<1> SUFFICES ASSUME NEW h \in X86
             PROVE  First(h) \/ By(h)
  BY DEF RunsInv
<1>0. h \in Host /\ DOMAIN pipes \subseteq DOMAIN pipes'
  BY Names, Keeps
<1>1. ASSUME NEW i \in DOMAIN pipes, switched'[h] = i, current'[h] = main[pipes[i].head].top[h]
      PROVE  By(h)
  <2>1. pipes[i].head \in 1 .. Len(main) /\ pipes'[i].head = pipes[i].head
    BY Keeps DEF HeadsInv, Settings
  <2> QED BY <1>0, <1>1, <2>1, Keeps
<1>2. ASSUME switched'[h] = switched[h], current'[h] = current[h]
      PROVE  First(h) \/ By(h)
  <2>1. CASE switched[h] \in DOMAIN pipes /\ current[h] = main[pipes[switched[h]].head].top[h]
    <3>1. PICK i : i = switched[h]
      OBVIOUS
    <3> HIDE DEF By
    <3> QED BY <1>1, <1>2, <2>1, <3>1
  <2>2. CASE switched[h] = 0 /\ deployed[h] = 0 /\ current[h] = main[1].top[h]
    <3>1. ASSUME NEW i \in DOMAIN pipes, Deploys(i, h)
          PROVE  FALSE
      BY <1>0, <1>2, <2>2, <3>1 DEF Deploys, TypeOK
    <3>2. deployed'[h] = 0
      BY <1>0, <2>2, <3>1, Switches
    <3> QED BY <1>2, <2>2, <3>2, Keeps
  <2> QED BY <2>1, <2>2 DEF RunsInv
<1> HIDE DEF First, By
<1> QED BY <1>0, <1>1, <1>2, Switches

\* Deployments that are created in order were so before.
LEMMA OrderBefore ==
  ASSUME TypeOK, Next, NEW h \in Host, InOrder(h)'
  PROVE  InOrder(h)
BY Listing DEF InOrder

\* In order, a job that GitLab does not drop is of no older commit than the last
\* deployment to succeed.
LEMMA NotOutdated ==
  ASSUME TypeOK, HeadsInv, ListedInv, DeployedInv, NEW h \in Host, InOrder(h), deployed[h] # 0,
         NEW i \in DOMAIN pipes, \E a \in DOMAIN listed[h] : listed[h][a] = i, ~Outdated(i, h)
  PROVE  pipes[deployed[h]].head <= pipes[i].head
<1>1. PICK d : d = deployed[h]
  OBVIOUS
<1>2. d \in DOMAIN pipes /\ St(d, h) = "success"
  BY <1>1 DEF DeployedInv
<1>3. PICK a \in DOMAIN listed[h] : listed[h][a] = i
  OBVIOUS
<1>4. PICK b \in DOMAIN listed[h] : listed[h][b] = d
  BY <1>2 DEF ListedInv
<1>5. pipes[i].head \in Nat /\ pipes[d].head \in Nat /\ DOMAIN pipes \subseteq Nat
  <2>1. \A k \in DOMAIN pipes : pipes[k] \in Pipe
    BY DEF TypeOK
  <2>2. \A k \in DOMAIN pipes : pipes[k].head \in Nat
    BY <2>1 DEF Pipe
  <2>3. DOMAIN pipes = 1 .. Len(pipes)
    BY DEF TypeOK
  <2> QED BY <1>2, <2>2, <2>3
<1>6. a \in Nat \ {0} /\ b \in Nat \ {0}
  BY DEF TypeOK
<1>7. CASE pipes[d].head = pipes[i].head
  BY <1>1, <1>5, <1>7
<1>8. CASE ~Older(i, d, h)
  <2>1. ~(a < b)
    BY <1>3, <1>4, <1>6, <1>8 DEF Older
  <2>2. d <= i
    <3>1. CASE a = b
      BY <1>3, <1>4, <1>5, <3>1
    <3>2. CASE b < a
      BY <1>2, <1>3, <1>4, <1>5, <3>2 DEF InOrder
    <3> QED BY <1>6, <2>1, <3>1, <3>2
  <2> QED BY <1>1, <1>2, <2>2 DEF HeadsInv
<1> QED BY <1>1, <1>7, <1>8 DEF Outdated

LEMMA OrderStep ==
  ASSUME TypeOK, HeadsInv, ChildInv, ListedInv, DeployedInv, NewestInv, RunsInv, OrderInv, Next
  PROVE  OrderInv'
<1> SUFFICES ASSUME NEW h \in X86, InOrder(h)', NEW i \in DOMAIN pipes', St(i, h)' = "success"
             PROVE  /\ deployed'[h] # 0 /\ switched'[h] # 0
                    /\ pipes'[i].head <= pipes'[deployed'[h]].head
                    /\ pipes'[deployed'[h]].head <= pipes'[switched'[h]].head
  BY DEF OrderInv
<1>0. h \in Host /\ h \in JobName \ {"trigger"} /\ InOrder(h)
  BY Names, OrderBefore
<1>1. i \in DOMAIN pipes /\ (St(i, h) = "success" \/ Deploys(i, h))
  BY <1>0, Moves DEF Ends
<1>2. /\ \A k \in DOMAIN pipes : pipes'[k].head = pipes[k].head /\ pipes[k].head \in Nat
      /\ DOMAIN pipes \subseteq Nat \ {0}
  BY Keeps DEF Settings, HeadsInv, TypeOK
<1>d. PICK d : d = deployed[h]
  OBVIOUS
<1>s. PICK s : s = switched[h]
  OBVIOUS
<1>3. d = 0 \/ d \in DOMAIN pipes
  BY <1>0, <1>d DEF DeployedInv
<1>4. s = 0 \/ s \in DOMAIN pipes
  BY <1>s DEF RunsInv
<1>5. St(i, h) = "success" => d # 0 /\ s # 0 /\ pipes[i].head <= pipes[d].head /\ pipes[d].head <= pipes[s].head
  BY <1>0, <1>1, <1>d, <1>s DEF OrderInv
<1>6. ASSUME NEW j \in DOMAIN pipes, St(j, h) = "running", d # 0
      PROVE  pipes[d].head <= pipes[j].head
  <2>1. ~Outdated(j, h) /\ \E a \in DOMAIN listed[h] : listed[h][a] = j
    BY <1>0, <1>6 DEF NewestInv, ListedInv
  <2> QED BY <1>0, <1>6, <1>d, <2>1, NotOutdated
<1>7. ASSUME NEW j \in DOMAIN pipes, Deploys(j, h)
      PROVE  /\ deployed'[h] # 0 /\ switched'[h] # 0
             /\ pipes'[i].head <= pipes'[deployed'[h]].head
             /\ pipes'[deployed'[h]].head <= pipes'[switched'[h]].head
  <2>1. deployed'[h] = j /\ switched'[h] = j /\ St(j, h) = "running"
    BY <1>0, <1>7 DEF Deploys, TypeOK
  <2>2. i = j \/ St(i, h) = "success"
    BY <1>0, <1>1, <1>7 DEF Deploys, Change, SamePipes
  <2>3. pipes[i].head <= pipes[j].head
    <3>1. CASE i = j
      BY <1>2, <3>1
    <3>2. CASE St(i, h) = "success"
      BY <1>1, <1>2, <1>3, <1>5, <1>6, <2>1, <3>2
    <3> QED BY <2>2, <3>1, <3>2
  <2> QED BY <1>1, <1>2, <2>1, <2>3
<1>8. ASSUME deployed'[h] = d, St(i, h) = "success", ~\E j \in DOMAIN pipes : Deploys(j, h)
      PROVE  /\ deployed'[h] # 0 /\ switched'[h] # 0
             /\ pipes'[i].head <= pipes'[deployed'[h]].head
             /\ pipes'[deployed'[h]].head <= pipes'[switched'[h]].head
  <2>1. CASE switched'[h] = s
    BY <1>1, <1>2, <1>3, <1>4, <1>5, <1>8, <2>1
  <2>2. ASSUME NEW j \in DOMAIN pipes, St(j, h) = "running", switched'[h] = j
        PROVE  /\ deployed'[h] # 0 /\ switched'[h] # 0
               /\ pipes'[i].head <= pipes'[deployed'[h]].head
               /\ pipes'[deployed'[h]].head <= pipes'[switched'[h]].head
    BY <1>1, <1>2, <1>3, <1>5, <1>6, <1>8, <2>2
  <2> QED BY <1>0, <1>s, <2>1, <2>2, Switches
<1>9. deployed'[h] = d \/ \E j \in DOMAIN pipes : Deploys(j, h)
  BY <1>0, <1>d, Switches
<1> QED BY <1>1, <1>7, <1>8, <1>9

\* The selection of a pipeline stands once select-hosts has succeeded.
LEMMA Selected ==
  ASSUME TypeOK, Next, NEW i \in DOMAIN pipes
  PROVE  \/ pipes'[i].sel = pipes[i].sel
         \/ Ends(i, "select")
<1>1. ASSUME NEW j \in DOMAIN pipes, JobChange(j)
      PROVE  pipes'[i].sel = pipes[i].sel \/ Ends(i, "select")
  BY <1>1 DEF JobChange, Begins, Drops, Ends, Fails, Deploys, Lists, Spawns, Cancels, Sels
<1>2. ASSUME NEW new, Creates(new)
      PROVE  pipes'[i].sel = pipes[i].sel
  BY <1>2, Created
<1> QED BY <1>1, <1>2, Steps DEF Merges, Manually

\* The trigger job starts with its child, ends once, and stays what it is.
LEMMA TriggerMoves ==
  ASSUME TypeOK, Next, NEW i \in DOMAIN pipes', St(i, "trigger")' \in Started
  PROVE  /\ i \in DOMAIN pipes
         /\ St(i, "trigger") \in Started \/ Spawns(i)
         /\ St(i, "trigger")' = "success" => St(i, "trigger") = "success" \/ Ends(i, "trigger")
         /\ St(i, "trigger")' = "failed" => St(i, "trigger") = "failed" \/ Fails(i, "trigger")
<1> DEFINE M(j) == /\ j \in DOMAIN pipes
                   /\ St(j, "trigger") \in Started \/ Spawns(j)
                   /\ St(j, "trigger")' = "success" => St(j, "trigger") = "success" \/ Ends(j, "trigger")
                   /\ St(j, "trigger")' = "failed" => St(j, "trigger") = "failed" \/ Fails(j, "trigger")
<1>0. "trigger" \in JobName /\ "trigger" \notin ChildJob /\ "trigger" \notin Host
  BY Names DEF JobName, ParentJob
<1>1. ASSUME NEW j \in DOMAIN pipes, JobChange(j)
      PROVE  M(i)
  <2>0. DOMAIN pipes' = DOMAIN pipes /\ i \in DOMAIN pipes
    BY <1>1 DEF JobChange, Begins, Drops, Ends, Fails, Deploys, Lists, Spawns, Cancels, Change, SamePipes
  <2>1. CASE St(i, "trigger")' = St(i, "trigger")
    BY <2>0, <2>1
  <2>2. ASSUME NEW n \in JobName, Begins(j, n)
        PROVE  M(i)
    BY <1>0, <2>0, <2>1, <2>2 DEF Begins, Change
  <2>3. ASSUME NEW n \in JobName, Drops(j, n)
        PROVE  M(i)
    BY <1>0, <2>0, <2>1, <2>3 DEF Drops, Change, Outdated
  <2>4. ASSUME NEW n \in JobName, Ends(j, n)
        PROVE  M(i)
    <3>1. CASE i = j /\ n = "trigger"
      BY <1>0, <2>0, <2>4, <3>1 DEF Ends, Change, Started
    <3>2. CASE i # j \/ n # "trigger"
      BY <1>0, <2>0, <2>1, <2>4, <3>2 DEF Ends, Change
    <3> QED BY <3>1, <3>2
  <2>5. ASSUME NEW n \in JobName, Fails(j, n)
        PROVE  M(i)
    <3>1. CASE i = j /\ n = "trigger"
      BY <1>0, <2>0, <2>5, <3>1 DEF Fails, Change, Started
    <3>2. CASE i # j \/ n # "trigger"
      BY <1>0, <2>0, <2>1, <2>5, <3>2 DEF Fails, Change
    <3> QED BY <3>1, <3>2
  <2>6. ASSUME NEW h \in Host, Deploys(j, h)
        PROVE  M(i)
    BY <1>0, <2>0, <2>1, <2>6 DEF Deploys, Change
  <2>7. CASE Spawns(j)
    <3>1. CASE i = j
      BY <1>0, <2>0, <2>7, <3>1 DEF Spawns
    <3>2. CASE i # j
      BY <1>0, <2>0, <2>1, <2>7, <3>2 DEF Spawns
    <3> QED BY <3>1, <3>2
  <2>8. CASE Cancels(j)
    BY <1>0, <2>0, <2>1, <2>8 DEF Cancels, Started
  <2>9. ASSUME NEW h \in Host, Lists(j, h)
        PROVE  M(i)
    BY <1>0, <2>0, <2>1, <2>9 DEF Lists
  <2> HIDE DEF M
  <2> QED BY <1>1, <2>2, <2>3, <2>4, <2>5, <2>6, <2>7, <2>8, <2>9 DEF JobChange
<1>2. ASSUME NEW new, Creates(new)
      PROVE  M(i)
  <2>1. i # new
    BY <1>0, <1>2, Created DEF Started
  <2>2. i \in DOMAIN pipes /\ St(i, "trigger")' = St(i, "trigger")
    BY <1>0, <1>2, <2>1, Created
  <2> QED BY <2>2
<1> HIDE DEF M
<1>3. M(i)
  BY <1>1, <1>2, Steps DEF Merges, Manually
<1> QED BY <1>3 DEF M

\* A job that is none stays so, but for the start of the child.
LEMMA StaysNone ==
  ASSUME TypeOK, Next, NEW i \in DOMAIN pipes, NEW n \in JobName
  PROVE  \/ (St(i, n) = "none" <=> St(i, n)' = "none")
         \/ Spawns(i) /\ n \in ChildJob
<1> DEFINE M == \/ (St(i, n) = "none" <=> St(i, n)' = "none")
                \/ Spawns(i) /\ n \in ChildJob
<1>1. ASSUME NEW j \in DOMAIN pipes, NEW m \in JobName, NEW s \in Status, Change(j, m, s), s # "none",
             St(j, m) # "none"
      PROVE  M
  BY <1>1 DEF Change
<1>2. ASSUME NEW j \in DOMAIN pipes, JobChange(j)
      PROVE  M
  <2>1. CASE \E m \in JobName : Begins(j, m) \/ Drops(j, m) \/ Ends(j, m) \/ Fails(j, m)
    BY <1>1, <2>1 DEF Begins, Drops, Ends, Fails, Status
  <2>2. CASE \E h \in Host : Deploys(j, h)
    BY <1>1, <2>2, Names DEF Deploys, Status
  <2>3. CASE Spawns(j)
    BY <2>3 DEF Spawns
  <2>4. CASE Cancels(j)
    BY <2>4 DEF Cancels
  <2>5. CASE \E h \in Host : Lists(j, h)
    BY <2>5 DEF Lists
  <2> QED BY <1>2, <2>1, <2>2, <2>3, <2>4, <2>5 DEF JobChange
<1>3. ASSUME NEW new, Creates(new)
      PROVE  M
  BY <1>3, Created
<1> QED BY <1>2, <1>3, Steps DEF Merges, Manually

\* The child has a deploy job for every selected x86 host.
LEMMA ChildJobs ==
  ASSUME NEW sel, NEW h \in X86 \cap sel
  PROVE  ChildStatus(sel, h) = "created" /\ ChildStatus(sel, "fill") = "created" /\ ChildStatus(sel, "verify") = "created"
<1>1. h \notin {"fill", "verify", "fillPi", "verifyPi"} /\ h \notin Gaming /\ h \in (X86 \cup Pi) \cap sel
      /\ {"fill", "verify"} \cap (X86 \cup Pi \cup Gaming) = {}
  BY HostAssumption DEF Host
<1>2. sel \cap (X86 \cup Gaming) # {}
  OBVIOUS
<1>3. ChildStatus(sel, h) = "created"
  BY <1>1 DEF ChildStatus
<1>4. ChildStatus(sel, "fill") = "created"
  BY <1>1, <1>2 DEF ChildStatus
<1>5. ChildStatus(sel, "verify") = "created"
  BY <1>1, <1>2 DEF ChildStatus
<1> QED BY <1>3, <1>4, <1>5

LEMMA WebStep ==
  ASSUME TypeOK, ChildInv, WebInv, Next
  PROVE  WebInv'
<1> SUFFICES ASSUME NEW i \in DOMAIN pipes'
             PROVE  /\ pipes'[i].source = "web" /\ St(i, "select")' = "success" => pipes'[i].sel = Host
                    /\ St(i, "trigger")' \in Started =>
                         St(i, "select")' = "success" /\ \A h \in X86 \cap pipes'[i].sel : St(i, h)' # "none"
                    /\ St(i, "trigger")' = "success" => \A h \in X86 : St(i, h)' \in {"none", "success"}
  BY DEF WebInv
<1>0. "select" \in JobName \ {"trigger"} /\ "select" \notin Host /\ X86 \subseteq JobName \ {"trigger"}
      /\ X86 \subseteq ChildJob \ AllowFailure /\ X86 \subseteq Host
  BY Names DEF JobName, ParentJob
<1>1. ASSUME pipes'[i].source = "web", St(i, "select")' = "success"
      PROVE  pipes'[i].sel = Host
  <2>1. i \in DOMAIN pipes /\ (St(i, "select") = "success" \/ Ends(i, "select"))
    BY <1>0, <1>1, Moves
  <2>2. pipes[i].source = "web"
    BY <1>1, <2>1, Keeps DEF Settings
  <2>3. CASE Ends(i, "select")
    <3>1. PICK s \in Selections(pipes[i]) : pipes'[i].sel = s.sel
      BY <2>3 DEF Ends
    <3>2. s = [mode |-> "all", sel |-> Host]
      BY <2>2 DEF Selections
    <3> QED BY <3>1, <3>2
  <2>4. CASE St(i, "select") = "success" /\ ~Ends(i, "select")
    <3>1. pipes'[i].sel = pipes[i].sel
      BY <2>1, <2>4, Selected
    <3> QED BY <2>1, <2>2, <2>4, <3>1 DEF WebInv
  <2> QED BY <2>1, <2>3, <2>4
<1>2. ASSUME St(i, "trigger")' \in Started
      PROVE  St(i, "select")' = "success" /\ \A h \in X86 \cap pipes'[i].sel : St(i, h)' # "none"
  <2>1. i \in DOMAIN pipes /\ (St(i, "trigger") \in Started \/ Spawns(i))
    BY <1>2, TriggerMoves
  <2>2. St(i, "select") = "success"
    BY <2>1, Names DEF WebInv, Spawns, Satisfied
  <2>3. pipes'[i].sel = pipes[i].sel
    BY <2>1, <2>2, Selected DEF Ends
  <2>4. CASE Spawns(i)
    <3>1. ASSUME NEW h \in X86 \cap pipes[i].sel
          PROVE  St(i, h)' = "created"
      BY <1>0, <2>1, <2>4, <3>1, ChildJobs DEF Spawns
    <3> QED BY <1>0, <2>1, <2>2, <2>3, <3>1, Moves
  <2>5. CASE St(i, "trigger") \in Started /\ ~Spawns(i)
    <3>1. \A h \in X86 \cap pipes[i].sel : St(i, h) # "none"
      BY <2>1, <2>5 DEF WebInv
    <3>2. \A h \in X86 \cap pipes[i].sel : St(i, h)' # "none"
      BY <1>0, <2>1, <2>5, <3>1, StaysNone
    <3> QED BY <1>0, <2>1, <2>2, <2>3, <3>2, Moves
  <2> QED BY <2>1, <2>4, <2>5
<1>3. ASSUME St(i, "trigger")' = "success", NEW h \in X86
      PROVE  St(i, h)' \in {"none", "success"}
  <2>1. i \in DOMAIN pipes /\ (St(i, "trigger") = "success" \/ Ends(i, "trigger"))
    BY <1>3, TriggerMoves DEF Started
  <2>2. St(i, h) \in {"none", "success"} /\ ~Spawns(i)
    BY <1>0, <2>1 DEF Ends, WebInv, Spawns
  <2>3. CASE St(i, h) = "none"
    BY <1>0, <2>1, <2>2, <2>3, StaysNone
  <2>4. CASE St(i, h) = "success"
    BY <1>0, <2>1, <2>4, Moves
  <2> QED BY <2>2, <2>3, <2>4
<1> QED BY <1>1, <1>2, <1>3

-----------------------------------------------------------------------------
(* The theorems *)

LEMMA InitInv ==
  ASSUME Init
  PROVE  Inv
<1>1. PICK top \in [Host -> Version] : main = <<[kind |-> "listed", top |-> top]>> /\ current = top
  BY DEF Init
<1>2. [kind |-> "listed", top |-> top] \in Commit /\ pipes = <<>> /\ DOMAIN pipes = {} /\ pipes \in Seq(Pipe)
  BY DEF Init, Commit, Kind
<1>3. TypeOK
  BY <1>1, <1>2 DEF Init, TypeOK
<1>4. RunsInv
  BY <1>1, <1>2, Names DEF Init, RunsInv
<1>5. DeployedInv
  BY DEF Init, DeployedInv
<1> QED BY <1>2, <1>3, <1>4, <1>5 DEF Inv, HeadsInv, ChildInv, GroupInv, VerifyInv, ListedInv, NewestInv, OrderInv, WebInv

LEMMA NextInv ==
  ASSUME Inv, [Next]_vars
  PROVE  Inv'
<1>1. CASE Next
  <2>1. /\ TypeOK /\ HeadsInv /\ ChildInv /\ GroupInv /\ VerifyInv
        /\ ListedInv /\ DeployedInv /\ NewestInv /\ RunsInv /\ OrderInv /\ WebInv
    BY DEF Inv
  <2>2. TypeOK' /\ HeadsInv'
    BY <1>1, <2>1, HeadsStep
  <2>3. ChildInv' /\ GroupInv' /\ VerifyInv'
    BY <1>1, <2>1, ChildStep, GroupStep, VerifyStep
  <2>4. ListedInv' /\ DeployedInv' /\ NewestInv'
    BY <1>1, <2>1, ListedStep, DeployedStep, NewestStep
  <2>5. RunsInv' /\ OrderInv' /\ WebInv'
    BY <1>1, <2>1, RunsStep, OrderStep, WebStep
  <2> QED BY <2>2, <2>3, <2>4, <2>5 DEF Inv
<1>2. CASE UNCHANGED vars
  BY <1>2 DEF Inv, vars, hostVars, TypeOK, HeadsInv, ChildInv, GroupInv, VerifyInv, ListedInv, DeployedInv,
              NewestInv, RunsInv, OrderInv, WebInv, InOrder, Outdated, Older, St
<1> QED BY <1>1, <1>2

LEMMA InvCorrect == Spec => []Inv
BY InitInv, NextInv, PTL DEF Spec

\* In order, what a host runs is of no older commit than any deployment of it.
LEMMA OrderedHeads ==
  ASSUME Inv, NEW h \in X86, InOrder(h), NEW i \in DOMAIN pipes, St(i, h) = "success"
  PROVE  pipes[i].head <= pipes[switched[h]].head
<1>1. PICK s : s = switched[h]
  OBVIOUS
<1>2. PICK d : d = deployed[h]
  OBVIOUS
<1>3. d # 0 /\ s # 0 /\ pipes[i].head <= pipes[d].head /\ pipes[d].head <= pipes[s].head
  BY <1>1, <1>2 DEF Inv, OrderInv
<1>4. d \in DOMAIN pipes /\ s \in DOMAIN pipes
  BY <1>1, <1>2, <1>3, Names DEF Inv, DeployedInv, RunsInv
<1>5. pipes[i].head \in Nat /\ pipes[d].head \in Nat /\ pipes[s].head \in Nat
  BY <1>4 DEF Inv, HeadsInv
<1> QED BY <1>1, <1>3, <1>5

\* Every variable keeps its type in every behaviour of the specification.
THEOREM TypeCorrect == Spec => []TypeOK
<1>1. Inv => TypeOK
  BY DEF Inv
<1> QED BY <1>1, InvCorrect, PTL

\* ForwardOnly: with the deploy jobs in the one resource group and GitLab
\* dropping outdated deployments when a job starts, no x86 host is ever switched
\* by a deployment that is outdated when it ends, not even by a job that fails.
THEOREM ForwardOnlyCorrect == Spec => ForwardOnly
<1> DEFINE Young ==
      \A h \in X86, i \in DOMAIN pipes :
        switched'[h] # switched[h] /\ switched'[h] = i => ~Outdated(i, h)
<1>1. ASSUME Inv, [Next]_vars
      PROVE  Young
  <2> SUFFICES ASSUME NEW h \in X86, NEW i \in DOMAIN pipes, switched'[h] # switched[h], switched'[h] = i
               PROVE  ~Outdated(i, h)
    OBVIOUS
  <2>1. h \in Host /\ TypeOK /\ Next
    BY <1>1, Names DEF Inv, vars, hostVars
  <2>2. St(i, h) = "running"
    BY <2>1, Switches
  <2> QED BY <1>1, <2>2 DEF Inv, NewestInv
<1>2. Spec => [][Young]_vars
  <2> HIDE DEF Young
  <2> QED BY <1>1, InvCorrect, PTL DEF Spec
<1> QED BY <1>2 DEF ForwardOnly

\* SwitchIsVerified: an x86 or a gaming host is only switched by a pipeline
\* whose verify job has succeeded.
THEOREM SwitchIsVerifiedCorrect == Spec => SwitchIsVerified
<1> DEFINE Verified ==
      \A i \in DOMAIN pipes : \A h \in X86 \cup Gaming :
        switched'[h] # switched[h] /\ switched'[h] = i => St(i, "verify") = "success"
<1>1. ASSUME Inv, [Next]_vars
      PROVE  Verified
  <2> SUFFICES ASSUME NEW i \in DOMAIN pipes, NEW h \in X86 \cup Gaming,
                      switched'[h] # switched[h], switched'[h] = i
               PROVE  St(i, "verify") = "success"
    OBVIOUS
  <2>1. h \in Host /\ TypeOK /\ Next
    BY <1>1, Names DEF Inv, vars, hostVars
  <2>2. St(i, h) = "running"
    BY <2>1, Switches
  <2> QED BY <1>1, <2>2 DEF Inv, VerifyInv
<1>2. Spec => [][Verified]_vars
  <2> HIDE DEF Verified
  <2> QED BY <1>1, InvCorrect, PTL DEF Spec
<1> QED BY <1>2 DEF SwitchIsVerified

\* WebRepairs: once the trigger job of a web pipeline of the head of main has
\* succeeded, every x86 host whose deployments were created in order runs what
\* main has for it, whatever failed or was cancelled before or since.
THEOREM WebRepairsCorrect == Spec => []WebRepairs
<1>1. ASSUME Inv
      PROVE  WebRepairs
  <2> SUFFICES ASSUME NEW i \in DOMAIN pipes, pipes[i].source = "web", pipes[i].head = Len(main),
                      St(i, "trigger") = "success", NEW h \in X86, InOrder(h)
               PROVE  current[h] = Top(h)
    BY DEF WebRepairs
  <2>1. h \in Host /\ Len(main) \in Nat
    BY <1>1, Names DEF Inv, TypeOK
  <2>2. St(i, "select") = "success" /\ pipes[i].sel = Host
    BY <1>1 DEF Inv, WebInv, Started
  <2>3. St(i, h) = "success"
    BY <1>1, <2>1, <2>2 DEF Inv, WebInv, Started
  <2>4. PICK s : s = switched[h]
    OBVIOUS
  <2>5. s \in DOMAIN pipes /\ current[h] = main[pipes[s].head].top[h]
    BY <1>1, <2>3, <2>4 DEF Inv, RunsInv, OrderInv
  <2>6. pipes[i].head <= pipes[s].head
    BY <1>1, <2>3, <2>4, OrderedHeads
  <2>7. pipes[s].head \in 1 .. Len(main)
    BY <1>1, <2>5 DEF Inv, HeadsInv
  <2>8. pipes[s].head = Len(main)
    BY <2>1, <2>6, <2>7
  <2> QED BY <2>5, <2>8 DEF Top
<1> QED BY <1>1, InvCorrect, PTL

-----------------------------------------------------------------------------
(* The lanes of the Pi and of the gaming hosts *)

X86Jobs == {"fill", "verify"} \cup X86

Lost == {"failed", "outdated"}

\* The jobs of the x86 hosts are there together, nobody has to start one by
\* hand, and they are not cancelled once the child is there.
LaneInv ==
  \A i \in DOMAIN pipes :
    /\ St(i, "trigger") \in Started =>
         /\ \A n \in X86Jobs : St(i, n) \notin {"canceled", "manual"}
         /\ St(i, "verify") # "none" => St(i, "fill") # "none"
         /\ \A h \in X86 : St(i, h) # "none" => St(i, "verify") # "none"
    /\ St(i, "trigger") = "failed" => \E n \in X86Jobs : St(i, n) \in Lost

LEMMA X86Names ==
  /\ X86Jobs \subseteq ChildJob /\ X86Jobs \subseteq JobName \ {"trigger"} /\ X86Jobs \cap AllowFailure = {}
  /\ ChildJob \ AllowFailure \subseteq X86Jobs /\ X86Jobs \cap Gaming = {}
<1>1. X86Jobs \subseteq ChildJob /\ X86Jobs \subseteq JobName \ {"trigger"}
  BY Names DEF X86Jobs, ChildJob
<1>2. X86Jobs \cap AllowFailure = {}
  BY Names DEF X86Jobs
<1>3. ChildJob \ AllowFailure \subseteq X86Jobs
  BY DEF X86Jobs, ChildJob, AllowFailure, Host
<1>4. X86Jobs \cap Gaming = {}
  BY Names, HostAssumption DEF X86Jobs
<1> QED BY <1>1, <1>2, <1>3, <1>4

\* What is lost stays lost, and who cancels.
LEMMA StaysLost ==
  ASSUME TypeOK, Next, NEW i \in DOMAIN pipes, NEW n \in ChildJob
  PROVE  \/ Spawns(i)
         \/ /\ St(i, n) \in Lost => St(i, n)' \in Lost
            /\ St(i, n)' \in {"canceled", "manual"} => St(i, n) \in {"canceled", "manual"} \/ Cancels(i)
<1> DEFINE M == \/ Spawns(i)
                \/ /\ St(i, n) \in Lost => St(i, n)' \in Lost
                   /\ St(i, n)' \in {"canceled", "manual"} => St(i, n) \in {"canceled", "manual"} \/ Cancels(i)
<1>0. n \in JobName
  BY Names
<1>1. ASSUME NEW j \in DOMAIN pipes, NEW m \in JobName, NEW s \in Status, Change(j, m, s),
             s \notin {"canceled", "manual"}, St(j, m) \notin Lost
      PROVE  M
  BY <1>0, <1>1 DEF Change
<1>2. ASSUME NEW j \in DOMAIN pipes, JobChange(j)
      PROVE  M
  <2>1. CASE \E m \in JobName : Begins(j, m) \/ Drops(j, m) \/ Ends(j, m) \/ Fails(j, m)
    BY <1>1, <2>1 DEF Begins, Drops, Ends, Fails, Status, Lost
  <2>2. CASE \E h \in Host : Deploys(j, h)
    BY <1>1, <2>2, Names DEF Deploys, Status, Lost
  <2>3. CASE Spawns(j)
    BY <1>0, <2>3 DEF Spawns
  <2>4. CASE Cancels(j)
    BY <1>0, <2>4 DEF Cancels, Lost
  <2>5. CASE \E h \in Host : Lists(j, h)
    BY <1>0, <2>5 DEF Lists
  <2> QED BY <1>2, <2>1, <2>2, <2>3, <2>4, <2>5 DEF JobChange
<1>3. ASSUME NEW new, Creates(new)
      PROVE  M
  BY <1>0, <1>3, Created
<1> QED BY <1>2, <1>3, Steps DEF Merges, Manually

\* The child is over and an x86 job of it has not succeeded: one is lost.
LEMMA OverLost ==
  ASSUME NEW i \in DOMAIN pipes, ChildOver(i),
         \A n \in X86Jobs : St(i, n) \in Status \ {"canceled", "manual"},
         St(i, "verify") # "none" => St(i, "fill") # "none",
         \A h \in X86 : St(i, h) # "none" => St(i, "verify") # "none",
         NEW m \in X86Jobs, St(i, m) \notin {"none", "success"}
  PROVE  \E n \in X86Jobs : St(i, n) \in Lost
<1> SUFFICES ASSUME \A n \in X86Jobs : St(i, n) \notin Lost
             PROVE  FALSE
  OBVIOUS
<1>1. \A n \in X86Jobs : St(i, n) \in {"none", "created", "success"} /\ ~Ready(i, n)
  BY X86Names DEF ChildOver, Status, Lost
<1>2. "fill" \in X86Jobs /\ "verify" \in X86Jobs /\ X86 \subseteq X86Jobs
  BY DEF X86Jobs
<1>3. St(i, "fill") \in {"none", "success"}
  BY <1>1, <1>2, Needed DEF Ready
<1>4. St(i, "verify") \in {"none", "success"}
  BY <1>1, <1>2, <1>3, Needed DEF Ready, Satisfied
<1>5. \A h \in X86 : St(i, h) \in {"none", "success"}
  BY <1>1, <1>2, <1>4, Needed DEF Ready, Satisfied
<1> QED BY <1>3, <1>4, <1>5 DEF X86Jobs

\* The child has a fill job if it has a verify job.
LEMMA LaneChild ==
  ASSUME NEW sel, ChildStatus(sel, "verify") # "none"
  PROVE  ChildStatus(sel, "fill") # "none"
<1>1. {"fill", "verify"} \cap (X86 \cup Pi \cup Gaming) = {}
  BY HostAssumption DEF Host
<1>2. sel \cap (X86 \cup Gaming) # {}
  BY <1>1 DEF ChildStatus
<1> QED BY <1>1, <1>2 DEF ChildStatus

LEMMA LaneStep ==
  ASSUME TypeOK, LaneInv, Next
  PROVE  LaneInv'
<1> SUFFICES ASSUME NEW i \in DOMAIN pipes', St(i, "trigger")' \in Started
             PROVE  /\ \A n \in X86Jobs : St(i, n)' \notin {"canceled", "manual"}
                    /\ St(i, "verify")' # "none" => St(i, "fill")' # "none"
                    /\ \A h \in X86 : St(i, h)' # "none" => St(i, "verify")' # "none"
                    /\ St(i, "trigger")' = "failed" => \E n \in X86Jobs : St(i, n)' \in Lost
  BY DEF LaneInv, Started
<1>0. /\ "fill" \in X86Jobs /\ "verify" \in X86Jobs /\ X86 \subseteq X86Jobs /\ X86Jobs \subseteq ChildJob
      /\ X86Jobs \subseteq JobName \ {"trigger"} /\ "trigger" \in JobName \ ChildJob
  BY X86Names, Names DEF X86Jobs, JobName, ParentJob
<1>1. /\ i \in DOMAIN pipes
      /\ St(i, "trigger") \in Started \/ Spawns(i)
      /\ St(i, "trigger")' = "failed" => St(i, "trigger") = "failed" \/ Fails(i, "trigger")
  BY TriggerMoves
<1>2. CASE Spawns(i)
  <2>1. \A n \in ChildJob : St(i, n)' = ChildStatus(pipes[i].sel, n)
    BY <1>0, <1>1, <1>2, Names DEF Spawns
  <2>2. \A n \in X86Jobs : ChildStatus(pipes[i].sel, n) # "manual" /\ ChildStatus(pipes[i].sel, n) # "canceled"
    BY X86Names DEF ChildStatus
  <2>3. ChildStatus(pipes[i].sel, "verify") # "none" => ChildStatus(pipes[i].sel, "fill") # "none"
    BY LaneChild
  <2>4. \A h \in X86 : h \notin pipes[i].sel => ChildStatus(pipes[i].sel, h) = "none"
    BY HostAssumption, Names DEF ChildStatus
  <2>5. \A h \in X86 : ChildStatus(pipes[i].sel, h) # "none" => ChildStatus(pipes[i].sel, "verify") # "none"
    BY <2>4, ChildJobs
  <2>6. St(i, "trigger")' = "running"
    BY <1>0, <1>1, <1>2 DEF Spawns
  <2> QED BY <1>0, <2>1, <2>2, <2>3, <2>5, <2>6
<1>3. CASE St(i, "trigger") \in Started /\ ~Spawns(i)
  <2>1. /\ \A n \in X86Jobs : St(i, n) \notin {"canceled", "manual"}
        /\ St(i, "verify") # "none" => St(i, "fill") # "none"
        /\ \A h \in X86 : St(i, h) # "none" => St(i, "verify") # "none"
    BY <1>1, <1>3 DEF LaneInv
  <2>2. \A n \in X86Jobs : St(i, n) = "none" <=> St(i, n)' = "none"
    BY <1>0, <1>1, <1>3, StaysNone
  <2>3. ~Cancels(i)
    BY <1>3 DEF Cancels, NonInterruptible, Started
  <2>4. \A n \in X86Jobs : St(i, n)' \notin {"canceled", "manual"}
    BY <1>0, <1>1, <1>3, <2>1, <2>3, StaysLost
  <2>5. ASSUME St(i, "trigger")' = "failed"
        PROVE  \E n \in X86Jobs : St(i, n)' \in Lost
    <3>1. CASE St(i, "trigger") = "failed"
      <4>1. PICK n \in X86Jobs : St(i, n) \in Lost
        BY <1>1, <3>1 DEF LaneInv
      <4>2. St(i, n)' \in Lost
        BY <1>0, <1>1, <1>3, <4>1, StaysLost
      <4> QED BY <4>2
    <3>2. CASE Fails(i, "trigger")
      <4>1. ChildOver(i) /\ \E m \in X86Jobs : St(i, m) \notin {"none", "success"}
        BY <3>2, X86Names DEF Fails
      <4>2. \A n \in X86Jobs : St(i, n) \in Status
        <5>1. pipes[i] \in Pipe
          BY <1>1 DEF TypeOK
        <5>2. pipes[i].job \in [JobName -> Status]
          BY <5>1 DEF Pipe
        <5> QED BY <1>0, <5>2 DEF St
      <4>3. PICK n \in X86Jobs : St(i, n) \in Lost
        BY <1>1, <2>1, <4>1, <4>2, OverLost
      <4>4. St(i, n)' \in Lost
        BY <1>0, <1>1, <1>3, <4>3, StaysLost
      <4> QED BY <4>4
    <3> QED BY <1>1, <2>5, <3>1, <3>2
  <2> QED BY <1>0, <2>1, <2>2, <2>4, <2>5
<1> QED BY <1>1, <1>2, <1>3

\* LanesApart: whatever fails on the Pi and on the gaming hosts, the trigger job
\* only fails with a job of the x86 hosts.
THEOREM LanesApartCorrect == Spec => []LanesApart
<1>1. Init => LaneInv
  BY DEF Init, LaneInv
<1>2. ASSUME Inv, LaneInv, [Next]_vars
      PROVE  LaneInv'
  <2>1. CASE Next
    BY <1>2, <2>1, LaneStep DEF Inv
  <2>2. CASE UNCHANGED vars
    BY <1>2, <2>2 DEF vars, LaneInv, St
  <2> QED BY <1>2, <2>1, <2>2
<1>3. LaneInv => LanesApart
  BY DEF LaneInv, LanesApart, X86Jobs, Lost
<1> QED BY <1>1, <1>2, <1>3, InvCorrect, PTL DEF Spec

-----------------------------------------------------------------------------
(* No merge is lost *)

Smooth == failures = 0 /\ cancels = 0

Alive == {"created", "running", "success"}

\* The jobs of a pipeline that can see its commit go on as long as nothing fails.
OwnJobs(i) ==
  /\ St(i, "test") \in Alive
  /\ pipes[i].before # 0 /\ main[pipes[i].head].kind = "listed" =>
       St(i, "select") \in Alive /\ St(i, "trigger") \in {"created"} \cup Started

\* A pipeline of a merge has selected what the merge changed.
OwnHosts(i) ==
  pipes[i].before # 0 /\ St(i, "select") = "success" =>
    Changed(pipes[i].before, pipes[i].head) \subseteq pipes[i].sel

\* A selected host is deployed, or in order dropped for a deployment of a commit
\* that is no older.
HostJobs(i) ==
  /\ St(i, "trigger") \in Started =>
       \A h \in X86 \cap pipes[i].sel :
         St(i, "fill") \in Alive /\ St(i, "verify") \in Alive /\ St(i, h) \in Alive \cup {"outdated"}
  /\ \A h \in X86 : St(i, h) = "outdated" /\ InOrder(h) =>
       \E k \in DOMAIN pipes : pipes[k].head >= pipes[i].head /\ St(k, h) = "success"

LifeInv == Smooth => \A i \in DOMAIN pipes : OwnJobs(i) /\ OwnHosts(i) /\ HostJobs(i)

\* Every merge has its pipeline.
MergesInv == \A c \in 2 .. Len(main) : \E i \in DOMAIN pipes : pipes[i].head = c /\ pipes[i].before = c - 1

\* The last change of a host whose changes the list can see is in a listed commit.
LastInv ==
  \A h \in X86 : Seen(h) =>
    \E c \in 1 .. Len(main) :
      /\ \A d \in c .. Len(main) : main[d].top[h] = main[c].top[h]
      /\ c = 1 \/ (main[c].kind = "listed" /\ main[c].top[h] # main[c - 1].top[h])

\* As long as nothing fails and nothing is cancelled, a job that is there goes on.
LEMMA Lives ==
  ASSUME TypeOK, ChildInv, Next, Smooth', NEW i \in DOMAIN pipes, NEW n \in JobName \ {"trigger"},
         St(i, n) \in Alive
  PROVE  St(i, n)' \in Alive \/ (St(i, n)' = "outdated" /\ Outdated(i, n))
<1> DEFINE M == St(i, n)' \in Alive \/ (St(i, n)' = "outdated" /\ Outdated(i, n))
<1>1. ASSUME NEW j \in DOMAIN pipes, JobChange(j)
      PROVE  M
  <2>1. CASE St(i, n)' = St(i, n)
    BY <2>1
  <2>2. ASSUME NEW m \in JobName, Begins(j, m)
        PROVE  M
    BY <2>1, <2>2 DEF Begins, Change, Alive
  <2>3. ASSUME NEW m \in JobName, Drops(j, m)
        PROVE  M
    <3>1. CASE i = j /\ n = m
      BY <2>3, <3>1 DEF Drops, Change
    <3>2. CASE i # j \/ n # m
      BY <2>1, <2>3, <3>2 DEF Drops, Change
    <3> QED BY <3>1, <3>2
  <2>4. ASSUME NEW m \in JobName, Ends(j, m)
        PROVE  M
    BY <2>1, <2>4 DEF Ends, Change, Alive
  <2>5. ASSUME NEW m \in JobName, Fails(j, m)
        PROVE  M
    <3>1. m = "trigger"
      BY <2>5 DEF Fails, Smooth, TypeOK
    <3> QED BY <2>1, <2>5, <3>1 DEF Fails, Change
  <2>6. ASSUME NEW h \in Host, Deploys(j, h)
        PROVE  M
    BY <2>1, <2>6 DEF Deploys, Change, Alive
  <2>7. CASE Spawns(j)
    <3>1. n \in ChildJob => i # j
      BY <2>7 DEF Spawns, ChildInv, Started, Alive
    <3> QED BY <2>1, <2>7, <3>1 DEF Spawns
  <2>8. CASE Cancels(j)
    BY <2>8 DEF Cancels, Smooth, TypeOK
  <2>9. ASSUME NEW h \in Host, Lists(j, h)
        PROVE  M
    BY <2>1, <2>9 DEF Lists
  <2> HIDE DEF M
  <2> QED BY <1>1, <2>2, <2>3, <2>4, <2>5, <2>6, <2>7, <2>8, <2>9 DEF JobChange
<1>2. ASSUME NEW new, Creates(new)
      PROVE  M
  BY <1>2, Created
<1> QED BY <1>1, <1>2, Steps DEF Merges, Manually

\* The trigger job is created or has started.
LEMMA TriggerLives ==
  ASSUME TypeOK, Next, Smooth', NEW i \in DOMAIN pipes, St(i, "trigger") \in {"created"} \cup Started
  PROVE  St(i, "trigger")' \in {"created"} \cup Started
<1>0. "trigger" \in JobName /\ "trigger" \notin ChildJob /\ "trigger" \notin Host
  BY Names DEF JobName, ParentJob
<1>1. ASSUME NEW j \in DOMAIN pipes, JobChange(j)
      PROVE  St(i, "trigger")' \in {"created"} \cup Started
  <2>1. ASSUME NEW m \in JobName, Begins(j, m) \/ Ends(j, m) \/ Fails(j, m) \/ Drops(j, m)
        PROVE  St(i, "trigger")' \in {"created"} \cup Started
    BY <1>0, <2>1 DEF Begins, Ends, Fails, Drops, Outdated, Change, Started
  <2>2. ASSUME NEW h \in Host, Deploys(j, h)
        PROVE  St(i, "trigger")' \in {"created"} \cup Started
    BY <1>0, <2>2 DEF Deploys, Change, Started
  <2>3. CASE Spawns(j)
    BY <1>0, <2>3 DEF Spawns, Started
  <2>4. CASE Cancels(j)
    BY <2>4 DEF Cancels, Smooth, TypeOK
  <2>5. ASSUME NEW h \in Host, Lists(j, h)
        PROVE  St(i, "trigger")' \in {"created"} \cup Started
    BY <1>0, <2>5 DEF Lists
  <2> QED BY <1>1, <2>1, <2>2, <2>3, <2>4, <2>5 DEF JobChange
<1>2. ASSUME NEW new, Creates(new)
      PROVE  St(i, "trigger")' \in {"created"} \cup Started
  BY <1>0, <1>2, Created
<1> QED BY <1>1, <1>2, Steps DEF Merges, Manually

\* Failures and cancellations are not forgotten.
LEMMA SmoothBefore ==
  ASSUME TypeOK, Next, Smooth'
  PROVE  Smooth
<1>1. ASSUME NEW j \in DOMAIN pipes, JobChange(j)
      PROVE  Smooth
  BY <1>1 DEF JobChange, Begins, Drops, Ends, Fails, Deploys, Lists, Spawns, Cancels, Counted, Smooth, TypeOK
<1>2. ASSUME NEW new, Creates(new)
      PROVE  Smooth
  BY <1>2 DEF Creates, Counted, Smooth
<1> QED BY <1>1, <1>2, Steps DEF Merges, Manually

\* A job is dropped for a newer deployment, and stays so.
LEMMA OutdatedMoves ==
  ASSUME TypeOK, ChildInv, Next, NEW i \in DOMAIN pipes', NEW n \in ChildJob, St(i, n)' = "outdated"
  PROVE  i \in DOMAIN pipes /\ (St(i, n) = "outdated" \/ Outdated(i, n))
<1>0. n \in JobName /\ n # "trigger"
  BY Names
<1>1. ASSUME NEW j \in DOMAIN pipes, JobChange(j)
      PROVE  i \in DOMAIN pipes /\ (St(i, n) = "outdated" \/ Outdated(i, n))
  <2>0. i \in DOMAIN pipes
    BY <1>1 DEF JobChange, Begins, Drops, Ends, Fails, Deploys, Lists, Spawns, Cancels, Change, SamePipes
  <2>1. ASSUME NEW m \in JobName, Begins(j, m) \/ Ends(j, m) \/ Fails(j, m)
        PROVE  St(i, n) = "outdated"
    BY <1>0, <2>0, <2>1 DEF Begins, Ends, Fails, Change
  <2>2. ASSUME NEW m \in JobName, Drops(j, m)
        PROVE  St(i, n) = "outdated" \/ Outdated(i, n)
    <3>1. CASE i = j /\ n = m
      BY <2>2, <3>1 DEF Drops
    <3>2. CASE i # j \/ n # m
      BY <1>0, <2>0, <2>2, <3>2 DEF Drops, Change
    <3> QED BY <3>1, <3>2
  <2>3. ASSUME NEW h \in Host, Deploys(j, h)
        PROVE  St(i, n) = "outdated"
    BY <1>0, <2>0, <2>3 DEF Deploys, Change
  <2>4. CASE Spawns(j)
    BY <1>0, <2>0, <2>4 DEF Spawns
  <2>5. CASE Cancels(j)
    BY <1>0, <2>0, <2>5 DEF Cancels
  <2>6. ASSUME NEW h \in Host, Lists(j, h)
        PROVE  St(i, n) = "outdated"
    BY <1>0, <2>0, <2>6 DEF Lists
  <2> QED BY <1>1, <2>0, <2>1, <2>2, <2>3, <2>4, <2>5, <2>6 DEF JobChange
<1>2. ASSUME NEW new, Creates(new)
      PROVE  i \in DOMAIN pipes /\ (St(i, n) = "outdated" \/ Outdated(i, n))
  <2>1. DOMAIN pipes' = DOMAIN pipes \cup {new} /\ St(new, n)' \in {"created", "none"}
    BY <1>0, <1>2, Created
  <2>2. i # new
    BY <2>1
  <2> QED BY <1>0, <1>2, <2>1, <2>2, Created
<1> QED BY <1>1, <1>2, Steps DEF Merges, Manually

LEMMA StaysOutdated ==
  ASSUME TypeOK, ChildInv, Next, NEW i \in DOMAIN pipes, NEW n \in ChildJob, St(i, n) = "outdated"
  PROVE  St(i, n)' = "outdated"
<1>0. n \in JobName /\ n # "trigger"
  BY Names
<1>1. ASSUME NEW j \in DOMAIN pipes, JobChange(j)
      PROVE  St(i, n)' = "outdated"
  <2>1. ASSUME NEW m \in JobName, Begins(j, m) \/ Ends(j, m) \/ Fails(j, m) \/ Drops(j, m)
        PROVE  St(i, n)' = "outdated"
    BY <1>0, <2>1 DEF Begins, Ends, Fails, Drops, Change
  <2>2. ASSUME NEW h \in Host, Deploys(j, h)
        PROVE  St(i, n)' = "outdated"
    BY <1>0, <2>2 DEF Deploys, Change
  <2>3. CASE Spawns(j)
    <3>1. i # j
      BY <2>3 DEF Spawns, ChildInv, Started
    <3> QED BY <1>0, <2>3, <3>1 DEF Spawns
  <2>4. CASE Cancels(j)
    BY <1>0, <2>4 DEF Cancels
  <2>5. ASSUME NEW h \in Host, Lists(j, h)
        PROVE  St(i, n)' = "outdated"
    BY <1>0, <2>5 DEF Lists
  <2> QED BY <1>1, <2>1, <2>2, <2>3, <2>4, <2>5 DEF JobChange
<1>2. ASSUME NEW new, Creates(new)
      PROVE  St(i, n)' = "outdated"
  BY <1>0, <1>2, Created
<1> QED BY <1>1, <1>2, Steps DEF Merges, Manually

LEMMA OwnJobsStep ==
  ASSUME TypeOK, HeadsInv, ChildInv, Next, Smooth', NEW i \in DOMAIN pipes', i \in DOMAIN pipes => OwnJobs(i)
  PROVE  OwnJobs(i)'
<1>0. {"test", "select"} \subseteq JobName \ {"trigger"} /\ "trigger" \in JobName
      /\ {"test", "select"} \cap Host = {}
  BY Names DEF JobName, ParentJob
<1>1. CASE i \in DOMAIN pipes
  <2>1. /\ pipes'[i].before = pipes[i].before /\ pipes'[i].head = pipes[i].head
        /\ main'[pipes[i].head] = main[pipes[i].head]
    BY <1>1, Keeps DEF Settings, HeadsInv
  <2>2. St(i, "test")' \in Alive
    BY <1>0, <1>1, Lives DEF OwnJobs, Outdated
  <2>3. ASSUME pipes[i].before # 0, main[pipes[i].head].kind = "listed"
        PROVE  St(i, "select")' \in Alive /\ St(i, "trigger")' \in {"created"} \cup Started
    <3>1. St(i, "select") \in Alive /\ St(i, "trigger") \in {"created"} \cup Started
      BY <1>1, <2>3 DEF OwnJobs
    <3> QED BY <1>0, <1>1, <3>1, Lives, TriggerLives DEF Outdated
  <2> QED BY <2>1, <2>2, <2>3 DEF OwnJobs
<1>2. ASSUME NEW new, Creates(new), i = new,
             pipes'[new].before # 0 /\ main'[pipes'[new].head].kind = "listed" => St(new, "trigger")' = "created"
      PROVE  OwnJobs(i)'
  BY <1>2 DEF Creates, OwnJobs, Alive
<1>3. ASSUME NEW new, Merges(new) \/ Manually(new)
      PROVE  /\ Creates(new)
             /\ pipes'[new].before # 0 /\ main'[pipes'[new].head].kind = "listed" => St(new, "trigger")' = "created"
  <2>1. CASE Manually(new)
    BY <2>1 DEF Manually
  <2>2. CASE Merges(new)
    <3>1. PICK c \in Commit : main' = Append(main, c) /\ (c.kind = "listed" => St(new, "trigger")' = "created")
      BY <2>2 DEF Merges
    <3>2. main'[Len(main) + 1] = c
      BY <3>1, AppendProperties DEF TypeOK
    <3> QED BY <2>2, <3>1, <3>2 DEF Merges
  <2> QED BY <1>3, <2>1, <2>2
<1>4. CASE i \notin DOMAIN pipes
  <2>1. ASSUME NEW j \in DOMAIN pipes, JobChange(j)
        PROVE  FALSE
    BY <1>4, <2>1 DEF JobChange, Begins, Drops, Ends, Fails, Deploys, Lists, Spawns, Cancels, Change, SamePipes
  <2>2. PICK new : Merges(new) \/ Manually(new)
    BY <2>1, Steps
  <2>3. i = new
    BY <1>3, <1>4, <2>2, Created
  <2> QED BY <1>2, <1>3, <2>2, <2>3
<1> QED BY <1>1, <1>4

LEMMA OwnHostsStep ==
  ASSUME TypeOK, HeadsInv, ChildInv, Next, NEW i \in DOMAIN pipes', i \in DOMAIN pipes => OwnHosts(i)
  PROVE  OwnHosts(i)'
<1> SUFFICES ASSUME pipes'[i].before # 0, St(i, "select")' = "success"
             PROVE  Changed(pipes[i].before, pipes[i].head)' \subseteq pipes'[i].sel
  BY DEF OwnHosts
<1>0. "select" \in JobName \ {"trigger"} /\ "select" \notin Host
  BY Names DEF JobName, ParentJob
<1>1. i \in DOMAIN pipes /\ (St(i, "select") = "success" \/ Ends(i, "select"))
  BY <1>0, Moves
<1>2. pipes'[i].before = pipes[i].before /\ pipes'[i].head = pipes[i].head
  BY <1>1, Keeps DEF Settings
<1>3. Changed(pipes[i].before, pipes[i].head)' = Changed(pipes[i].before, pipes[i].head)
  <2>1. pipes[i].before \in 1 .. Len(main) /\ pipes[i].head \in 1 .. Len(main)
    BY <1>1, <1>2, Keeps DEF HeadsInv
  <2>2. main'[pipes[i].before] = main[pipes[i].before] /\ main'[pipes[i].head] = main[pipes[i].head]
    BY <2>1, Keeps
  <2> QED BY <1>2, <2>2 DEF Changed
<1>4. CASE Ends(i, "select")
  <2>1. PICK s \in Selections(pipes[i]) : pipes'[i].sel = s.sel
    BY <1>4 DEF Ends
  <2>2. s.sel = Host \/ s.sel = Changed(pipes[i].before, pipes[i].head)
    BY <1>2, <2>1 DEF Selections
  <2>3. Changed(pipes[i].before, pipes[i].head) \subseteq Host
    BY DEF Changed
  <2> QED BY <1>3, <2>1, <2>2, <2>3
<1>5. CASE St(i, "select") = "success" /\ ~Ends(i, "select")
  <2>1. pipes'[i].sel = pipes[i].sel
    BY <1>1, <1>5, Selected
  <2>2. Changed(pipes[i].before, pipes[i].head) \subseteq pipes[i].sel
    BY <1>1, <1>2, <1>5 DEF OwnHosts
  <2> QED BY <1>3, <2>1, <2>2
<1> QED BY <1>1, <1>4, <1>5

\* In order, what a job is dropped for is of a commit that is no older.
LEMMA OutdatedHeads ==
  ASSUME TypeOK, HeadsInv, DeployedInv, NEW h \in Host, InOrder(h), NEW i \in DOMAIN pipes, Outdated(i, h)
  PROVE  \E k \in DOMAIN pipes : pipes[k].head >= pipes[i].head /\ St(k, h) = "success"
<1>1. PICK k : k = deployed[h]
  OBVIOUS
<1>2. k \in DOMAIN pipes /\ St(k, h) = "success" /\ Older(i, k, h)
  BY <1>1 DEF Outdated, DeployedInv
<1>3. PICK b \in DOMAIN listed[h] : listed[h][b] = k /\ \E a \in 1 .. b - 1 : listed[h][a] = i
  BY <1>2 DEF Older
<1>4. PICK a \in 1 .. b - 1 : listed[h][a] = i
  BY <1>3
<1>5. DOMAIN listed[h] = 1 .. Len(listed[h]) /\ Len(listed[h]) \in Nat
  BY DEF TypeOK
<1>6. a \in DOMAIN listed[h] /\ a < b
  BY <1>4, <1>5
<1>7. i < k
  <2>1. listed[h][a] < listed[h][b]
    BY <1>3, <1>6 DEF InOrder
  <2> QED BY <1>3, <1>4, <2>1
<1>8. i \in Nat /\ k \in Nat /\ pipes[i].head \in Nat /\ pipes[k].head \in Nat
  <2>1. pipes[i] \in Pipe /\ pipes[k] \in Pipe /\ DOMAIN pipes = 1 .. Len(pipes)
    BY <1>2 DEF TypeOK
  <2>2. pipes[i].head \in Nat /\ pipes[k].head \in Nat
    BY <2>1 DEF Pipe
  <2> QED BY <1>2, <2>1, <2>2
<1>9. pipes[i].head <= pipes[k].head
  BY <1>2, <1>7, <1>8 DEF HeadsInv
<1> QED BY <1>2, <1>8, <1>9

LEMMA HostJobsStep ==
  ASSUME TypeOK, HeadsInv, ChildInv, ListedInv, DeployedInv, WebInv, Next, Smooth', NEW i \in DOMAIN pipes',
         i \in DOMAIN pipes => HostJobs(i)
  PROVE  HostJobs(i)'
<1>0. {"fill", "verify"} \subseteq ChildJob \ {"trigger"} /\ X86 \subseteq ChildJob \ {"trigger"}
      /\ ChildJob \subseteq JobName /\ X86 \subseteq Host /\ {"fill", "verify"} \cap Host = {}
  BY Names DEF ChildJob
<1>1. ASSUME St(i, "trigger")' \in Started, NEW h \in X86 \cap pipes'[i].sel
      PROVE  St(i, "fill")' \in Alive /\ St(i, "verify")' \in Alive /\ St(i, h)' \in Alive \cup {"outdated"}
  <2>1. i \in DOMAIN pipes /\ (St(i, "trigger") \in Started \/ Spawns(i))
    BY <1>1, TriggerMoves
  <2>2. St(i, "select") = "success"
    BY <2>1, Names DEF WebInv, Spawns, Satisfied
  <2>3. pipes'[i].sel = pipes[i].sel
    BY <2>1, <2>2, Selected DEF Ends
  <2>4. CASE Spawns(i)
    <3>1. /\ ChildStatus(pipes[i].sel, "fill") = "created" /\ ChildStatus(pipes[i].sel, "verify") = "created"
          /\ ChildStatus(pipes[i].sel, h) = "created"
      BY <1>1, <2>3, ChildJobs
    <3>2. \A m \in ChildJob : St(i, m)' = ChildStatus(pipes[i].sel, m)
      BY <1>0, <2>1, <2>4 DEF Spawns
    <3> QED BY <1>0, <1>1, <3>1, <3>2 DEF Alive
  <2>5. CASE St(i, "trigger") \in Started
    <3>1. St(i, "fill") \in Alive /\ St(i, "verify") \in Alive /\ St(i, h) \in Alive \cup {"outdated"}
      BY <1>1, <2>1, <2>3, <2>5 DEF HostJobs
    <3>2. St(i, "fill")' \in Alive /\ St(i, "verify")' \in Alive
      BY <1>0, <2>1, <3>1, Lives DEF Outdated
    <3>3. CASE St(i, h) \in Alive
      BY <1>0, <2>1, <3>2, <3>3, Lives
    <3>4. CASE St(i, h) = "outdated"
      <4>1. St(i, h)' = "outdated"
        BY <1>0, <2>1, <2>5, <3>4, StaysOutdated
      <4> QED BY <3>2, <4>1
    <3> QED BY <3>1, <3>3, <3>4
  <2> QED BY <2>1, <2>4, <2>5
<1>2. ASSUME NEW h \in X86, St(i, h)' = "outdated", InOrder(h)'
      PROVE  \E k \in DOMAIN pipes' : pipes'[k].head >= pipes'[i].head /\ St(k, h)' = "success"
  <2>1. i \in DOMAIN pipes /\ (St(i, h) = "outdated" \/ Outdated(i, h)) /\ InOrder(h)
    BY <1>0, <1>2, OutdatedMoves, OrderBefore
  <2>2. PICK k \in DOMAIN pipes : pipes[k].head >= pipes[i].head /\ St(k, h) = "success"
    <3>1. CASE St(i, h) = "outdated"
      BY <2>1, <3>1 DEF HostJobs
    <3>2. CASE Outdated(i, h)
      BY <1>0, <2>1, <3>2, OutdatedHeads
    <3> QED BY <2>1, <3>1, <3>2
  <2>3. St(k, h)' = "success" /\ k \in DOMAIN pipes' /\ pipes'[k].head >= pipes'[i].head
    BY <1>0, <2>1, <2>2, Keeps, Moves DEF Settings
  <2> QED BY <2>3
<1> QED BY <1>1, <1>2 DEF HostJobs

LEMMA MergesStep ==
  ASSUME TypeOK, MergesInv, Next
  PROVE  MergesInv'
<1> SUFFICES ASSUME NEW c \in 2 .. Len(main)'
             PROVE  \E i \in DOMAIN pipes' : pipes'[i].head = c /\ pipes'[i].before = c - 1
  BY DEF MergesInv
<1>1. CASE c \in 2 .. Len(main)
  BY <1>1, Keeps DEF MergesInv, Settings
<1>2. CASE c \notin 2 .. Len(main)
  <2>1. ASSUME NEW j \in DOMAIN pipes, JobChange(j)
        PROVE  FALSE
    BY <1>2, <2>1 DEF JobChange, Begins, Drops, Ends, Fails, Deploys, Lists, Spawns, Cancels, Kept
  <2>2. ASSUME NEW new, Manually(new)
        PROVE  FALSE
    BY <1>2, <2>2 DEF Manually
  <2>3. PICK new : Merges(new)
    BY <2>1, <2>2, Steps
  <2>4. Len(main)' = Len(main) + 1
    BY <2>3, AppendProperties DEF Merges, TypeOK
  <2>5. c = Len(main) + 1
    BY <1>2, <2>4, Keeps
  <2>6. pipes'[new].head = c /\ pipes'[new].before = c - 1 /\ new \in DOMAIN pipes'
    BY <2>3, <2>5, Keeps DEF Merges, Creates
  <2> QED BY <2>6
<1> QED BY <1>1, <1>2

LEMMA LastStep ==
  ASSUME TypeOK, LastInv, Next
  PROVE  LastInv'
<1> DEFINE L(h, c) == /\ \A d \in c .. Len(main)' : main'[d].top[h] = main'[c].top[h]
                      /\ c = 1 \/ (main'[c].kind = "listed" /\ main'[c].top[h] # main'[c - 1].top[h])
<1> SUFFICES ASSUME NEW h \in X86, Seen(h)'
             PROVE  \E c \in 1 .. Len(main)' : L(h, c)
  BY DEF LastInv
<1>1. CASE main' = main
  BY <1>1 DEF LastInv, Seen
<1>2. ASSUME NEW m \in Commit, main' = Append(main, m)
      PROVE  \E c \in 1 .. Len(main)' : L(h, c)
  <2>0. Len(main) \in Nat \ {0}
    BY Keeps
  <2>1. /\ Len(main)' = Len(main) + 1 /\ main'[Len(main) + 1] = m
        /\ \A c \in 1 .. Len(main) : main'[c] = main[c]
    BY <1>2, AppendProperties DEF TypeOK
  <2>2. Seen(h)
    BY <2>0, <2>1 DEF Seen
  <2>3. PICK c \in 1 .. Len(main) :
          /\ \A d \in c .. Len(main) : main[d].top[h] = main[c].top[h]
          /\ c = 1 \/ (main[c].kind = "listed" /\ main[c].top[h] # main[c - 1].top[h])
    BY <2>2 DEF LastInv
  <2>4. CASE m.top[h] = main[Len(main)].top[h]
    <3>1. \A d \in c .. Len(main)' : main'[d].top[h] = main'[c].top[h]
      <4> SUFFICES ASSUME NEW d \in c .. Len(main)'
                   PROVE  main'[d].top[h] = main[c].top[h]
        BY <2>1
      <4>1. CASE d = Len(main) + 1
        BY <2>0, <2>1, <2>3, <2>4, <4>1
      <4>2. CASE d # Len(main) + 1
        BY <2>0, <2>1, <2>3, <4>2
      <4> QED BY <4>1, <4>2
    <3>2. c = 1 \/ (main'[c].kind = "listed" /\ main'[c].top[h] # main'[c - 1].top[h])
      BY <2>0, <2>1, <2>3
    <3>3. L(h, c) /\ c \in 1 .. Len(main)'
      BY <2>0, <2>1, <3>1, <3>2
    <3> HIDE DEF L
    <3> QED BY <3>3
  <2>5. CASE m.top[h] # main[Len(main)].top[h]
    <3>1. m.kind = "listed"
      BY <2>0, <2>1, <2>5 DEF Seen
    <3>2. L(h, Len(main) + 1)
      BY <2>0, <2>1, <2>5, <3>1
    <3>3. Len(main) + 1 \in 1 .. Len(main)'
      BY <2>0, <2>1
    <3> HIDE DEF L
    <3> QED BY <3>2, <3>3
  <2> QED BY <2>4, <2>5
<1>3. ASSUME NEW j \in DOMAIN pipes, JobChange(j)
      PROVE  main' = main
  BY <1>3 DEF JobChange, Begins, Drops, Ends, Fails, Deploys, Lists, Spawns, Cancels, Kept
<1> HIDE DEF L
<1> QED BY <1>1, <1>2, <1>3, Steps DEF Merges, Manually

LEMMA LifeStep ==
  ASSUME TypeOK, HeadsInv, ChildInv, ListedInv, DeployedInv, WebInv, LifeInv, Next
  PROVE  LifeInv'
<1> SUFFICES ASSUME Smooth', NEW i \in DOMAIN pipes'
             PROVE  OwnJobs(i)' /\ OwnHosts(i)' /\ HostJobs(i)'
  BY DEF LifeInv
<1>1. i \in DOMAIN pipes => OwnJobs(i) /\ OwnHosts(i) /\ HostJobs(i)
  BY SmoothBefore DEF LifeInv
<1>2. OwnJobs(i)'
  BY <1>1, OwnJobsStep
<1>3. OwnHosts(i)'
  BY <1>1, OwnHostsStep
<1>4. HostJobs(i)'
  BY <1>1, HostJobsStep
<1> QED BY <1>2, <1>3, <1>4

MergedInv == LifeInv /\ MergesInv /\ LastInv

LEMMA MergedInvCorrect == Spec => []MergedInv
<1>1. ASSUME Init
      PROVE  MergedInv
  <2>1. PICK top \in [Host -> Version] : main = <<[kind |-> "listed", top |-> top]>>
    BY <1>1 DEF Init
  <2>2. Len(main) = 1 /\ DOMAIN pipes = {}
    BY <1>1, <2>1 DEF Init
  <2> QED BY <2>2 DEF MergedInv, LifeInv, MergesInv, LastInv
<1>2. ASSUME Inv, MergedInv, [Next]_vars
      PROVE  MergedInv'
  <2>1. CASE Next
    BY <1>2, <2>1, LifeStep, MergesStep, LastStep DEF Inv, MergedInv
  <2>2. CASE UNCHANGED vars
    BY <1>2, <2>2 DEF MergedInv, vars, hostVars, LifeInv, MergesInv, LastInv, OwnJobs, OwnHosts, HostJobs, Smooth,
                      Seen, Changed, InOrder, St
  <2> QED BY <1>2, <2>1, <2>2
<1> QED BY <1>1, <1>2, InvCorrect, PTL DEF Spec

\* In a pipeline that is over, what could start has.
LEMMA OverJobs ==
  ASSUME NEW i \in DOMAIN pipes, Over(i), NEW n \in JobName, \A m \in Needs(n) : Satisfied(i, m)
  PROVE  St(i, n) \notin {"created", "running"}
BY DEF Over, Ready

\* MergedIsDeployed: when every pipeline is over and nothing failed or was
\* cancelled, no merge that the changes list can see is lost on a host whose
\* deployments were created in order, whatever else overlapped and whatever was
\* reverted meanwhile.
THEOREM MergedIsDeployedCorrect == Spec => []MergedIsDeployed
<1>1. ASSUME Inv, MergedInv
      PROVE  MergedIsDeployed
  <2> SUFFICES ASSUME Quiet, Smooth, NEW h \in X86, Seen(h), InOrder(h)
               PROVE  current[h] = Top(h)
    BY DEF MergedIsDeployed, Smooth
  <2>0. h \in Host /\ Len(main) \in Nat \ {0} /\ DOMAIN pipes \subseteq Nat \ {0}
    BY <1>1, Names DEF Inv, TypeOK
  <2>1. PICK c \in 1 .. Len(main) :
          /\ \A d \in c .. Len(main) : main[d].top[h] = main[c].top[h]
          /\ c = 1 \/ (main[c].kind = "listed" /\ main[c].top[h] # main[c - 1].top[h])
    BY <1>1 DEF MergedInv, LastInv
  <2>2. PICK s : s = switched[h]
    OBVIOUS
  <2>3. \/ s = 0 /\ current[h] = main[1].top[h]
        \/ s \in DOMAIN pipes /\ current[h] = main[pipes[s].head].top[h]
    BY <1>1, <2>2 DEF Inv, RunsInv
  <2>4. Top(h) = main[c].top[h]
    BY <2>0, <2>1 DEF Top
  <2>5. CASE c = 1
    <3>1. \A k \in DOMAIN pipes : pipes[k].head \in 1 .. Len(main)
      BY <1>1 DEF Inv, HeadsInv
    <3> QED BY <2>0, <2>1, <2>3, <2>4, <2>5, <3>1
  <2>6. CASE c # 1
    <3>1. PICK i \in DOMAIN pipes : pipes[i].head = c /\ pipes[i].before = c - 1
      BY <1>1, <2>0, <2>1, <2>6 DEF MergedInv, MergesInv
    <3>2. Over(i) /\ OwnJobs(i) /\ OwnHosts(i) /\ HostJobs(i)
      BY <1>1, <3>1 DEF Quiet, MergedInv, LifeInv
    <3>3. {"test", "select", "trigger", "fill", "verify", h} \subseteq JobName
      BY <2>0, Names DEF JobName, ParentJob, ChildJob
    <3>4. St(i, "test") = "success"
      BY <3>2, <3>3, OverJobs, Needed DEF OwnJobs, Alive
    <3>5. St(i, "select") \in Alive /\ St(i, "trigger") \in {"created"} \cup Started
      BY <2>0, <2>1, <2>6, <3>1, <3>2 DEF OwnJobs
    <3>6. St(i, "select") = "success"
      BY <3>2, <3>3, <3>4, <3>5, OverJobs, Needed DEF Alive, Satisfied
    <3>7. St(i, "trigger") \in Started
      BY <3>2, <3>3, <3>5, <3>6, OverJobs, Needed DEF Satisfied
    <3>8. h \in X86 \cap pipes[i].sel
      BY <2>0, <2>1, <2>6, <3>1, <3>2, <3>6 DEF OwnHosts, Changed
    <3>9. St(i, "fill") \in Alive /\ St(i, "verify") \in Alive /\ St(i, h) \in Alive \cup {"outdated"}
      BY <3>2, <3>7, <3>8 DEF HostJobs
    <3>10. St(i, "fill") = "success"
      BY <3>2, <3>3, <3>9, OverJobs, Needed DEF Alive
    <3>11. St(i, "verify") = "success"
      BY <3>2, <3>3, <3>9, <3>10, OverJobs, Needed DEF Alive, Satisfied
    <3>12. St(i, h) \in {"success", "outdated"}
      BY <3>2, <3>3, <3>9, <3>11, OverJobs, Needed DEF Alive, Satisfied
    <3>13. PICK k \in DOMAIN pipes : pipes[k].head >= c /\ St(k, h) = "success"
      BY <2>0, <3>1, <3>2, <3>12 DEF HostJobs
    <3>14. s # 0 /\ pipes[k].head <= pipes[s].head
      BY <1>1, <2>2, <3>13, OrderedHeads DEF Inv, OrderInv
    <3>15. s \in DOMAIN pipes /\ current[h] = main[pipes[s].head].top[h]
      BY <2>3, <3>14
    <3>16. pipes[s].head \in c .. Len(main)
      <4>1. pipes[s].head \in 1 .. Len(main) /\ pipes[k].head \in 1 .. Len(main)
        BY <1>1, <3>13, <3>15 DEF Inv, HeadsInv
      <4> QED BY <2>0, <3>13, <3>14, <4>1
    <3> QED BY <2>1, <2>4, <3>15, <3>16
  <2> QED BY <2>5, <2>6
<1> QED BY <1>1, InvCorrect, MergedInvCorrect, PTL

=============================================================================
