---------------------------- MODULE NtfyWebhook ----------------------------
(***************************************************************************)
(* services/ntfy-group-webhook.py between Alertmanager and ntfy, for one   *)
(* group of alerts.  Its HTTPServer has one thread: requests wait in the   *)
(* accept queue of the socket, also those that Alertmanager no longer      *)
(* waits for.                                                              *)
(*                                                                         *)
(* Alertmanager (services/prometheus.nix: one webhook receiver) and ntfy   *)
(* are modelled from how the script uses them.  A notification is the      *)
(* version of the group it was rendered from.                              *)
(***************************************************************************)
EXTENDS Naturals, Sequences

CONSTANTS
  MaxChanges,  \* changes of the group
  Backlog,     \* request_queue_size of the socket
  MaxRestarts  \* restarts of the webhook

ASSUME WebhookAssumption ==
  MaxChanges \in Nat /\ Backlog \in Nat \ {0} /\ MaxRestarts \in Nat

VARIABLES
  group,     \* the version of the group's alerts
  flush,     \* the version Alertmanager is notifying of, 0 for none
  notified,  \* the version its notification log has
  queue,     \* the requests at the webhook: their version, whether it waits for them
  shown,     \* the version ntfy published last
  overdue,   \* the versions in POSTs nobody waits for that ntfy may still publish
  latest,    \* history: the newest version that ntfy has published
  restarts

ntfyVars == <<shown, overdue, latest>>
webhookVars == <<group, flush, notified, queue, ntfyVars, restarts>>

WebhookInit ==
  /\ group = 0 /\ flush = 0 /\ notified = 0 /\ queue = <<>> /\ restarts = 0
  /\ shown = 0 /\ overdue = {} /\ latest = 0

Request(v) == [version |-> v, live |-> TRUE]
Waiting == \E i \in DOMAIN queue : queue[i].live

Change ==
  /\ group < MaxChanges
  /\ group' = group + 1
  /\ UNCHANGED <<flush, notified, queue, ntfyVars, restarts>>

\* One notification of a group at a time, of its alerts as they are now; one
\* that was answered 500, or not at all, is sent again.
Notify ==
  /\ ~Waiting /\ Len(queue) < Backlog
  /\ \/ flush = 0 /\ group # notified /\ flush' = group
     \/ flush # 0 /\ flush' = flush
  /\ queue' = Append(queue, Request(flush'))
  /\ UNCHANGED <<group, notified, ntfyVars, restarts>>

\* The time for a flush is over.  The request stays in the queue.
GiveUp ==
  /\ flush # 0
  /\ flush' = 0
  /\ queue' = [i \in DOMAIN queue |-> [queue[i] EXCEPT !.live = FALSE]]
  /\ UNCHANGED <<group, notified, ntfyVars, restarts>>

\* Mutant: ThreadingHTTPServer.
Turns_Threaded == DOMAIN queue

\* serve_forever: the request that was accepted first.
Turns == {1} \cap DOMAIN queue

\* Mutant: the answer is 204 after a failure too.
Status_Always(fails) == 204

\* do_POST: 500 and a return when post_ntfy raises.
Status(fails) == IF fails THEN 500 ELSE 204

\* The end of a request, which failed or not.
Answer(i, fails) ==
  /\ queue' = SubSeq(queue, 1, i - 1) \o SubSeq(queue, i + 1, Len(queue))
  /\ IF queue[i].live /\ Status(fails) = 204
       THEN notified' = queue[i].version /\ flush' = 0
       ELSE UNCHANGED <<notified, flush>>
  /\ UNCHANGED <<group, restarts>>

\* ntfy publishes version v.
Publish(v) ==
  /\ shown' = v
  /\ latest' = IF v > latest THEN v ELSE latest

\* post_ntfy: ntfy has published the message; its answer may be an error.
Post ==
  \E i \in Turns, fails \in BOOLEAN :
    /\ Publish(queue[i].version)
    /\ Answer(i, fails)
    /\ UNCHANGED overdue

\* ntfy has not and will not: URLError, an HTTP status, no NTFY_PASSWORD.
PostFails == \E i \in Turns : Answer(i, TRUE) /\ UNCHANGED ntfyVars

\* urlopen's 15 seconds are over, and do_POST goes on to the next request: ntfy
\* has the message and has not answered.
PostTimesOut ==
  \E i \in Turns :
    /\ Answer(i, TRUE)
    /\ overdue' = overdue \cup {queue[i].version}
    /\ UNCHANGED <<shown, latest>>

\* ntfy publishes, or not, what nobody waits for any more.
PublishLate ==
  \E v \in overdue :
    /\ overdue' = overdue \ {v}
    /\ Publish(v)
    /\ UNCHANGED <<group, flush, notified, queue, restarts>>
Forget ==
  \E v \in overdue :
    /\ overdue' = overdue \ {v}
    /\ UNCHANGED <<group, flush, notified, queue, shown, latest, restarts>>

\* The connections in the queue are reset, and that of the POST under way.
Restart ==
  /\ restarts < MaxRestarts
  /\ restarts' = restarts + 1 /\ queue' = <<>>
  /\ \E cut \in SUBSET {queue[i].version : i \in Turns} : overdue' = overdue \cup cut
  /\ UNCHANGED <<group, flush, notified, shown, latest>>

WebhookNext ==
  \/ Change \/ Notify \/ GiveUp
  \/ Post \/ PostFails \/ PostTimesOut \/ PublishLate \/ Forget
  \/ Restart

\* Alertmanager goes on, a flush has an end, urlopen a timeout, and ntfy is not
\* down for ever.
WebhookSpec ==
  /\ WebhookInit /\ [][WebhookNext]_webhookVars
  /\ WF_webhookVars(Notify) /\ WF_webhookVars(GiveUp)
  /\ WF_webhookVars(Post \/ PostFails \/ PostTimesOut) /\ SF_webhookVars(Post)

-----------------------------------------------------------------------------
(* Properties *)

\* Only a POST that nobody waits for any more (it ran into the 15 seconds, or the
\* webhook was restarted) can be published after a newer state of its group.
\* No other push does, not of a request that Alertmanager has given up, nor of
\* one that was published although it failed.
NeverBack == [][shown' # shown => shown' >= latest \/ shown' \in overdue]_webhookVars

\* Every change of a group is published, itself or a later one, whatever was
\* answered 500, timed out or was lost in a restart.  It need not be what the
\* phone shows last (NeverBack).
EveryChangeShown == \A v \in 1 .. MaxChanges : group = v ~> latest >= v

=============================================================================
