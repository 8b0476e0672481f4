---------------------------- MODULE WaitForHost ----------------------------
(***************************************************************************)
(* config/wait-for-host.nix: the oneshot units that wait for a port of     *)
(* another host, and the services behind them, on hosts that boot in any   *)
(* order.  keycloak and vikunja (proxmox-applications-1) need databases of *)
(* xcloud-postgres, oauth2-proxy (xcloud-caddy) needs one too, and         *)
(* Keycloak.                                                               *)
(*                                                                         *)
(* systemd is modelled from how these units use it.  Of what happens after *)
(* its start only Keycloak's is followed: the fleet sets no Restart= for   *)
(* the other two.                                                          *)
(***************************************************************************)
EXTENDS Naturals

CONSTANT MaxOutages   \* outages of a database after it came up

ASSUME WaitAssumption == MaxOutages \in Nat

\* Each Redis has an instance and a port of its own.
Database == {"postgres", "redis-vikunja", "redis-oauth2-proxy"}

Service == {"keycloak", "vikunja", "oauth2-proxy"}

\* The ports that forServices puts in front of a service.
WaitsFor(s) ==
  CASE s = "keycloak" -> {"postgres"}
    [] s = "vikunja" -> {"postgres", "redis-vikunja"}
    [] s = "oauth2-proxy" -> {"redis-oauth2-proxy", "keycloak"}

\* One wait-for-host unit for each service and port.
Wait == UNION {{s} \X WaitsFor(s) : s \in Service}

VARIABLES
  up,       \* the databases that accept connections
  wait,     \* of each wait unit: "off", "waiting", "active", "failed"
  service,  \* of each service: "off", "queued", "active", "restarting", "failed"
  outages

bootVars == <<up, wait, service, outages>>

BootInit ==
  /\ up = {} /\ outages = 0
  /\ wait = [w \in Wait |-> "off"] /\ service = [s \in Service |-> "off"]

\* nc -z of one port.
Answers(t) == t \in up \/ (t = "keycloak" /\ service["keycloak"] = "active")

DatabaseUp(t) ==
  /\ t \notin up /\ up' = up \cup {t}
  /\ UNCHANGED <<wait, service, outages>>

Outage(t) ==
  /\ t \in up /\ outages < MaxOutages
  /\ up' = up \ {t} /\ outages' = outages + 1
  /\ UNCHANGED <<wait, service>>

\* The host boots: the start job of a service waits for those of the units
\* that it requires and comes after.
Boot(s) ==
  /\ service[s] = "off"
  /\ service' = [service EXCEPT ![s] = "queued"]
  /\ wait' = [w \in Wait |-> IF w[1] = s THEN "waiting" ELSE wait[w]]
  /\ UNCHANGED <<up, outages>>

\* RemainAfterExit: the unit stays active, and is not asked again.
Reachable(w) ==
  /\ wait[w] = "waiting" /\ Answers(w[2])
  /\ wait' = [wait EXCEPT ![w] = "active"]
  /\ UNCHANGED <<up, service, outages>>

\* SECONDS reaches the deadline between two probes: the port was not open for
\* so long, or Keycloak's not yet, that opens some time after its unit started.
Timeout(w) ==
  /\ wait[w] = "waiting" /\ w[2] \notin up
  /\ wait' = [wait EXCEPT ![w] = "failed"]
  /\ UNCHANGED <<up, service, outages>>

Results(s) == {wait[<<s, t>>] : t \in WaitsFor(s)}

\* The start job runs when all waits are done, and ends with the result
\* "dependency" when one has failed: the service never ran, so that Restart=
\* does not apply.
StartJob(s) ==
  /\ service[s] = "queued" /\ "waiting" \notin Results(s)
  /\ service' = [service EXCEPT ![s] = IF "failed" \in Results(s) THEN "failed" ELSE "active"]
  /\ UNCHANGED <<up, wait, outages>>

\* Mutant: no startLimitIntervalSec = 0 (a burst of one start).
Restarted_Limited == IF outages > 1 THEN "failed" ELSE "restarting"

\* keycloak.nix: Restart=always, RestartSec=10s and no start limit.
Restarted == "restarting"

\* Keycloak exits while Postgres is away.
Exit ==
  /\ service["keycloak"] = "active" /\ "postgres" \notin up
  /\ service' = [service EXCEPT !["keycloak"] = Restarted]
  /\ UNCHANGED <<up, wait, outages>>

Respawn ==
  /\ service["keycloak"] = "restarting"
  /\ service' = [service EXCEPT !["keycloak"] = "active"]
  /\ UNCHANGED <<up, wait, outages>>

BootNext ==
  \/ \E t \in Database : DatabaseUp(t) \/ Outage(t)
  \/ \E s \in Service : Boot(s) \/ StartJob(s)
  \/ Exit \/ Respawn
  \/ \E w \in Wait : Reachable(w) \/ Timeout(w)

\* systemd goes on, every host boots and every database comes up in the end;
\* a wait ends, at its deadline if not before.
BootFairness ==
  /\ \A t \in Database : WF_bootVars(DatabaseUp(t))
  /\ \A s \in Service : WF_bootVars(Boot(s)) /\ WF_bootVars(StartJob(s))
  /\ WF_bootVars(Respawn)
  /\ \A w \in Wait : WF_bootVars(Reachable(w) \/ Timeout(w))

BootSpec == BootInit /\ [][BootNext]_bootVars /\ BootFairness

-----------------------------------------------------------------------------
(* Properties *)

\* Whatever the order in which the hosts boot, the outages and the exits of
\* Keycloak in between: no start job hangs on a unit that is dead, and a service
\* ends up running for good unless a wait of its own ran into its deadline.
ServicesSettle ==
  \A s \in Service :
    [](service[s] = "queued" =>
         <>[](service[s] = IF "failed" \in Results(s) THEN "failed" ELSE "active"))

\* services/keycloak.nix: Keycloak keeps trying until Postgres is usable.
KeycloakNeverDead ==
  [](service["keycloak"] = "queued" => <>[](service["keycloak"] = "active"))

=============================================================================
