------------------------- MODULE NtfyWebhook_proofs -------------------------
(* Which pushes of a group can go back in time, for any backlog and any     *)
(* number of changes, retries, timeouts and restarts.                       *)
EXTENDS NtfyWebhook, SequenceTheorems, TLAPS

Requests == [version : Nat, live : BOOLEAN]

\* The requests wait in the order of their versions, and none is newer than
\* the flush that is still retried.
QueueInv ==
  /\ group \in Nat /\ flush \in Nat /\ flush <= group
  /\ queue \in Seq(Requests)
  /\ \A i \in 1 .. Len(queue) :
       queue[i].version <= group /\ (flush # 0 => queue[i].version <= flush)
  /\ \A i, k \in 1 .. Len(queue) : i <= k => queue[i].version <= queue[k].version

\* Version v is older than nothing that may still be asked for.
Below(v) ==
  /\ v \in Nat /\ v <= group
  /\ flush # 0 => v <= flush
  /\ \A i \in 1 .. Len(queue) : v <= queue[i].version

\* So are the newest version that was published, and those that are overdue.
OrderInv ==
  /\ QueueInv
  /\ Below(latest)
  /\ \A v \in overdue : Below(v)

\* What is left of the queue when its first request is answered.
LEMMA Rest ==
  ASSUME NEW R, NEW q \in Seq(R), 1 \in DOMAIN q
  PROVE  LET r == SubSeq(q, 1, 1 - 1) \o SubSeq(q, 1 + 1, Len(q)) IN
         r \in Seq(R) /\ Len(r) = Len(q) - 1 /\ \A i \in 1 .. Len(r) : r[i] = q[i + 1]
<1>1. Len(q) \in Nat \ {0} /\ DOMAIN q = 1 .. Len(q)
  OBVIOUS
<1>2. SubSeq(q, 1, 1 - 1) = <<>>
  BY <1>1
<1> DEFINE t == SubSeq(q, 1 + 1, Len(q))
<1>3. t \in Seq(R) /\ Len(t) = Len(q) - 1 /\ \A i \in 1 .. Len(t) : t[i] = q[i + 1]
  BY <1>1
<1>4. <<>> \o t = t
  BY <1>3
<1> QED BY <1>2, <1>3, <1>4

\* The versions of the queue are numbers.
LEMMA Versions ==
  ASSUME QueueInv
  PROVE  Len(queue) \in Nat /\ \A i \in 1 .. Len(queue) : queue[i] \in Requests /\ queue[i].version \in Nat
<1>1. queue \in Seq(Requests)
  BY DEF QueueInv
<1>2. Len(queue) \in Nat /\ \A i \in 1 .. Len(queue) : queue[i] \in Requests
  BY <1>1, ElementOfSeq
<1> QED BY <1>2 DEF Requests

LEMMA ChangeInv ==
  ASSUME QueueInv, Change
  PROVE  QueueInv' /\ \A v : Below(v) => Below(v)'
<1>1. group' = group + 1 /\ UNCHANGED <<flush, queue>> /\ group \in Nat
  BY DEF Change, QueueInv
<1>2. \A n \in Nat : n <= group => n <= group'
  BY <1>1
<1> QED BY <1>1, <1>2, Versions DEF QueueInv, Below

LEMMA NotifyInv ==
  ASSUME QueueInv, Notify
  PROVE  QueueInv' /\ \A v : Below(v) => Below(v)'
<1>1. /\ queue' = Append(queue, Request(flush')) /\ UNCHANGED group
      /\ group \in Nat /\ flush \in Nat /\ flush' \in Nat /\ flush' <= group
      /\ flush # 0 => flush' = flush
      /\ flush = 0 => flush' = group
      /\ queue \in Seq(Requests)
  BY DEF Notify, QueueInv
<1>2. Request(flush') \in Requests /\ Request(flush').version = flush'
  BY <1>1 DEF Request, Requests
<1>3. /\ queue' \in Seq(Requests) /\ Len(queue') = Len(queue) + 1
      /\ \A i \in 1 .. Len(queue) : queue'[i] = queue[i]
      /\ queue'[Len(queue) + 1] = Request(flush')
  BY <1>1, <1>2
<1>4. Len(queue) \in Nat /\ \A i \in 1 .. Len(queue') : i \in 1 .. Len(queue) \/ i = Len(queue) + 1
  BY <1>3, Versions
<1>5. \A i \in 1 .. Len(queue) : queue[i].version <= flush' /\ queue[i].version <= group
  BY <1>1 DEF QueueInv
<1>6. \A i \in 1 .. Len(queue') : queue'[i].version <= group' /\ queue'[i].version <= flush'
  BY <1>1, <1>2, <1>3, <1>4, <1>5
<1>7. \A i, k \in 1 .. Len(queue') : i <= k => queue'[i].version <= queue'[k].version
  <2> SUFFICES ASSUME NEW i \in 1 .. Len(queue'), NEW k \in 1 .. Len(queue'), i <= k
               PROVE  queue'[i].version <= queue'[k].version
    OBVIOUS
  <2>1. CASE k \in 1 .. Len(queue)
    <3>1. i \in 1 .. Len(queue)
      BY <2>1
    <3> QED BY <2>1, <3>1, <1>3 DEF QueueInv
  <2>2. CASE k = Len(queue) + 1
    <3>1. queue'[k].version = flush'
      BY <2>2, <1>2, <1>3
    <3> QED BY <3>1, <1>6
  <2> QED BY <1>4, <2>1, <2>2
<1>8. QueueInv'
  BY <1>1, <1>3, <1>6, <1>7 DEF QueueInv
<1>9. ASSUME NEW v, Below(v)
      PROVE  Below(v)'
  <2>1. v \in Nat /\ v <= group' /\ v <= flush' /\ \A i \in 1 .. Len(queue) : v <= queue'[i].version
    BY <1>1, <1>3, <1>9 DEF Below
  <2> QED BY <1>2, <1>3, <1>4, <2>1 DEF Below
<1> QED BY <1>8, <1>9

LEMMA GiveUpInv ==
  ASSUME QueueInv, GiveUp
  PROVE  QueueInv' /\ \A v : Below(v) => Below(v)'
<1>1. queue' = [i \in 1 .. Len(queue) |-> [queue[i] EXCEPT !.live = FALSE]] /\ flush' = 0 /\ UNCHANGED group
  BY DEF GiveUp, QueueInv
<1>2. \A i \in 1 .. Len(queue) : queue[i] \in Requests
  BY Versions
<1>3. \A i \in 1 .. Len(queue) : queue'[i] \in Requests /\ queue'[i].version = queue[i].version
  BY <1>1, <1>2 DEF Requests
<1>4. queue' \in [1 .. Len(queue) -> Requests] /\ Len(queue) \in Nat
  BY <1>1, <1>3, Versions
<1>5. queue' \in Seq(Requests)
  BY <1>4, SeqDef
<1>6. Len(queue') = Len(queue)
  <2>1. DOMAIN queue' = 1 .. Len(queue) /\ DOMAIN queue' = 1 .. Len(queue') /\ Len(queue') \in Nat
    BY <1>4, <1>5, LenProperties
  <2> QED BY <2>1, <1>4
<1> QED BY <1>1, <1>3, <1>5, <1>6 DEF QueueInv, Below

\* Every end of a request, which is the first of the queue; its version is
\* older than nothing that is left.
LEMMA AnswerInv ==
  ASSUME QueueInv, NEW i \in Turns, NEW fails \in BOOLEAN, Answer(i, fails),
         NEW w, w = queue[i].version
  PROVE  QueueInv' /\ (\A v : Below(v) => Below(v)' /\ v <= w) /\ Below(w)'
<1>1. i = 1 /\ 1 \in DOMAIN queue /\ queue \in Seq(Requests) /\ w = queue[1].version
  BY DEF Turns, QueueInv
<1>2. /\ queue' \in Seq(Requests) /\ Len(queue') = Len(queue) - 1
      /\ \A k \in 1 .. Len(queue') : queue'[k] = queue[k + 1]
  BY <1>1, Rest DEF Answer
<1>3. Len(queue) \in Nat \ {0} /\ 1 \in 1 .. Len(queue)
  BY <1>1
<1>4. \A k \in 1 .. Len(queue') : k \in Nat /\ k + 1 \in 1 .. Len(queue) /\ 1 <= k + 1
  BY <1>2, <1>3
<1>5. flush' \in {0, flush} /\ group' = group /\ flush \in Nat /\ group \in Nat /\ flush <= group
  BY DEF Answer, QueueInv
<1>6. \A k \in 1 .. Len(queue') :
        queue'[k].version <= group' /\ (flush' # 0 => queue'[k].version <= flush')
  BY <1>2, <1>4, <1>5 DEF QueueInv
<1>7. \A j, k \in 1 .. Len(queue') : j <= k => queue'[j].version <= queue'[k].version
  <2> SUFFICES ASSUME NEW j \in 1 .. Len(queue'), NEW k \in 1 .. Len(queue'), j <= k
               PROVE  queue'[j].version <= queue'[k].version
    OBVIOUS
  <2>1. j + 1 \in 1 .. Len(queue) /\ k + 1 \in 1 .. Len(queue) /\ j + 1 <= k + 1
    BY <1>4
  <2>2. queue[j + 1].version <= queue[k + 1].version
    BY <2>1 DEF QueueInv
  <2> QED BY <1>2, <2>2
<1>8. QueueInv'
  <2>1. flush' \in Nat /\ group' \in Nat /\ flush' <= group'
    BY <1>5
  <2> QED BY <2>1, <1>2, <1>6, <1>7 DEF QueueInv
<1>9. ASSUME NEW v, Below(v)
      PROVE  Below(v)' /\ v <= w
  <2>1. \A k \in 1 .. Len(queue') : v <= queue'[k].version
    BY <1>2, <1>4, <1>9 DEF Below
  <2> QED BY <1>1, <1>3, <1>5, <1>9, <2>1 DEF Below
<1>10. Below(w)'
  <2>1. w \in Nat /\ w <= group /\ (flush # 0 => w <= flush)
    BY <1>1, <1>3, Versions DEF QueueInv
  <2>2. \A k \in 1 .. Len(queue') : w <= queue'[k].version
    BY <1>1, <1>2, <1>3, <1>4 DEF QueueInv
  <2> QED BY <1>5, <2>1, <2>2 DEF Below
<1> QED BY <1>8, <1>9, <1>10

\* What is published and what is overdue stays below, when nothing but what is
\* below is added to it.
LEMMA OrderKept ==
  ASSUME OrderInv, QueueInv', NEW W, \A v : Below(v) => Below(v)', \A v \in W : Below(v)',
         latest' = latest \/ latest' \in W, overdue' \subseteq overdue \cup W
  PROVE  OrderInv'
<1>1. PICK l : l = latest'
  OBVIOUS
<1>2. Below(l)'
  <2>1. CASE l = latest
    BY <1>1, <2>1 DEF OrderInv
  <2>2. CASE l \in W
    BY <2>2
  <2> QED BY <1>1, <2>1, <2>2
<1>3. \A v \in overdue' : Below(v)'
  BY DEF OrderInv
<1> QED BY <1>1, <1>2, <1>3 DEF OrderInv, Below

Ahead == shown' # shown => shown' >= latest \/ shown' \in overdue

LEMMA PublishStep ==
  ASSUME NEW v, Publish(v)
  PROVE  shown' = v /\ (latest' = latest \/ latest' \in {v})
BY DEF Publish

LEMMA WebhookStep ==
  ASSUME OrderInv, [WebhookNext]_webhookVars
  PROVE  OrderInv' /\ Ahead
<1>0. QueueInv /\ Below(latest) /\ latest \in Nat
  BY DEF OrderInv, Below
\* A step that publishes nothing and forgets no order.
<1>a. ASSUME QueueInv', \A v : Below(v) => Below(v)', UNCHANGED <<shown, latest>>,
             overdue' \subseteq overdue
      PROVE  OrderInv' /\ Ahead
  <2>1. PICK W : W = {}
    OBVIOUS
  <2>2. (\A v \in W : Below(v)') /\ overdue' \subseteq overdue \cup W
    BY <1>a, <2>1
  <2>3. OrderInv'
    BY <1>a, <2>2, OrderKept
  <2> QED BY <1>a, <2>3 DEF Ahead
<1>1. CASE Change
  BY <1>0, <1>1, <1>a, ChangeInv DEF Change, ntfyVars
<1>2. CASE Notify
  BY <1>0, <1>2, <1>a, NotifyInv DEF Notify, ntfyVars
<1>3. CASE GiveUp
  BY <1>0, <1>3, <1>a, GiveUpInv DEF GiveUp, ntfyVars
\* A step that publishes w, or leaves it overdue.
<1>b. ASSUME QueueInv', \A v : Below(v) => Below(v)', NEW w, Below(w)',
             latest' = latest \/ latest' = w, overdue' \subseteq overdue \cup {w}
      PROVE  OrderInv'
  <2>1. PICK W : W = {w}
    OBVIOUS
  <2>2. /\ \A v \in W : Below(v)'
        /\ latest' = latest \/ latest' \in W
        /\ overdue' \subseteq overdue \cup W
    BY <1>b, <2>1
  <2> QED BY <1>b, <2>2, OrderKept
<1>4. CASE Post
  <2>1. PICK i \in Turns, fails \in BOOLEAN :
          Publish(queue[i].version) /\ Answer(i, fails) /\ UNCHANGED overdue
    BY <1>4 DEF Post
  <2>2. PICK w : w = queue[i].version
    OBVIOUS
  <2>3. QueueInv' /\ (\A v : Below(v) => Below(v)' /\ v <= w) /\ Below(w)'
    BY <1>0, <2>1, <2>2, AnswerInv
  <2>4. shown' = w /\ (latest' = latest \/ latest' = w)
    BY <2>1, <2>2, PublishStep
  <2>5. latest <= w /\ latest \in Nat
    <3>1. PICK l : l = latest
      OBVIOUS
    <3> QED BY <1>0, <2>3, <3>1
  <2>6. w \in Nat
    BY <2>3 DEF Below
  <2>7. OrderInv'
    BY <1>b, <2>1, <2>3, <2>4
  <2> QED BY <2>4, <2>5, <2>6, <2>7 DEF Ahead
<1>5. CASE PostFails
  <2>1. PICK i \in Turns : Answer(i, TRUE) /\ UNCHANGED ntfyVars
    BY <1>5 DEF PostFails
  <2>2. QueueInv' /\ \A v : Below(v) => Below(v)'
    BY <1>0, <2>1, AnswerInv
  <2> QED BY <1>a, <2>1, <2>2 DEF ntfyVars
<1>6. CASE PostTimesOut
  <2>1. PICK i \in Turns : /\ Answer(i, TRUE) /\ overdue' = overdue \cup {queue[i].version}
                           /\ UNCHANGED <<shown, latest>>
    BY <1>6 DEF PostTimesOut
  <2>2. PICK w : w = queue[i].version
    OBVIOUS
  <2>3. QueueInv' /\ (\A v : Below(v) => Below(v)') /\ Below(w)'
    BY <1>0, <2>1, <2>2, AnswerInv
  <2>4. OrderInv'
    BY <1>b, <2>1, <2>2, <2>3
  <2> QED BY <2>1, <2>4 DEF Ahead
<1>7. ASSUME UNCHANGED <<group, flush, queue>>
      PROVE  QueueInv' /\ \A v : Below(v) => Below(v)'
  BY <1>0, <1>7 DEF QueueInv, Below
<1>8. CASE PublishLate
  <2>1. PICK v \in overdue : /\ overdue' = overdue \ {v} /\ Publish(v)
                             /\ UNCHANGED <<group, flush, queue>>
    BY <1>8 DEF PublishLate
  <2>2. QueueInv' /\ (\A u : Below(u) => Below(u)') /\ Below(v)'
    BY <1>7, <2>1 DEF OrderInv
  <2>3. shown' = v /\ (latest' = latest \/ latest' = v)
    BY <2>1, PublishStep
  <2>4. OrderInv'
    BY <1>b, <2>1, <2>2, <2>3
  <2> QED BY <2>1, <2>3, <2>4 DEF Ahead
<1>9. CASE Forget
  BY <1>7, <1>9, <1>a DEF Forget
<1>10. CASE Restart
  <2>1. queue' = <<>> /\ UNCHANGED <<group, flush, shown, latest>>
    BY <1>10 DEF Restart
  <2>2. QueueInv' /\ \A v : Below(v) => Below(v)'
    BY <1>0, <2>1 DEF QueueInv, Below
  <2>3. PICK cut \in SUBSET {queue[i].version : i \in Turns} : overdue' = overdue \cup cut
    BY <1>10 DEF Restart
  <2>4. \A v \in cut : Below(v)'
    <3>1. ASSUME NEW i \in Turns
          PROVE  /\ queue[i].version \in Nat /\ queue[i].version <= group
                 /\ flush # 0 => queue[i].version <= flush
      <4>1. i \in 1 .. Len(queue)
        BY <1>0 DEF Turns, QueueInv
      <4> QED BY <1>0, <4>1, Versions DEF QueueInv
    <3>2. \A v \in cut : v \in Nat /\ v <= group /\ (flush # 0 => v <= flush)
      BY <3>1
    <3> QED BY <2>1, <3>2 DEF Below
  <2>5. OrderInv'
    BY <2>1, <2>2, <2>3, <2>4, OrderKept
  <2> QED BY <2>1, <2>5 DEF Ahead
<1>11. CASE UNCHANGED webhookVars
  BY <1>7, <1>11, <1>a DEF webhookVars, ntfyVars
<1> QED BY <1>1, <1>2, <1>3, <1>4, <1>5, <1>6, <1>8, <1>9, <1>10, <1>11 DEF WebhookNext

LEMMA OrderInit == WebhookInit => OrderInv
BY DEF WebhookInit, OrderInv, QueueInv, Below

\* One thread and one retried flush at a time: a push that shows an older state
\* of its group than one before it is of a POST that nobody waited for any more.
\* Retries, requests that Alertmanager has given up and posts that were
\* published although they failed are all in order.
THEOREM NeverBackCorrect == WebhookSpec => NeverBack
<1>1. OrderInv /\ [WebhookNext]_webhookVars => OrderInv' /\ Ahead
  BY WebhookStep
<1>2. [][Ahead]_webhookVars => NeverBack
  BY PTL DEF NeverBack, Ahead
<1>3. OrderInv /\ [WebhookNext]_webhookVars => [Ahead]_webhookVars
  BY <1>1
<1> QED BY <1>1, <1>2, <1>3, OrderInit, PTL DEF WebhookSpec

=============================================================================
