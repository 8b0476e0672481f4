--------------------------- MODULE GarageConvert ---------------------------
(***************************************************************************)
(* services/garage.nix: garage-convert-sqlite-to-lmdb.service, the oneshot *)
(* that garage.service requires, with Garage itself, power losses, failed  *)
(* steps, retries and generations rolled back around it.                   *)
(*                                                                         *)
(* A database is the set of writes it holds.  `side` stands for the -wal   *)
(* and -shm files: convert-db replays them on open, so they hold nothing a *)
(* conversion misses.                                                      *)
(***************************************************************************)
EXTENDS Naturals

CONSTANTS
  MaxWait,       \* seconds the script waits for Garage to stop (60)
  MaxSlowStops,  \* stops that take Garage time (deactivating)
  MaxWrites,     \* writes that Garage acknowledges
  MaxCrashes,    \* power losses
  MaxFailures,   \* steps of the script that fail
  MaxRollbacks   \* switches back to the sqlite generation

ASSUME ConvertAssumption ==
  /\ MaxWait \in Nat /\ MaxSlowStops \in Nat
  /\ MaxWrites \in Nat /\ MaxCrashes \in Nat /\ MaxFailures \in Nat /\ MaxRollbacks \in Nat

VARIABLES
  gen,      \* the generation of the host: "old" uses sqlite, "new" LMDB
  garage,   \* garage.service as systemd sees it
  engine,   \* the engine of the Garage that runs or ran last
  pc,       \* the step of the conversion unit; "off" is not started
  waited,   \* the script's waited
  sqlite, side, lmdb, staging,  \* what is in /var/lib/garage/meta
  nested,   \* databases that mv put inside an existing db.lmdb
  retired,  \* the db.sqlite.migrated-* files
  acked,    \* writes Garage has acknowledged
  crashes, failures, rollbacks, slowStops

files == <<sqlite, side, lmdb, staging, nested, retired>>
bounds == <<crashes, failures, rollbacks, slowStops>>
vars == <<gen, garage, engine, pc, waited, files, acked, bounds>>

\* "part": a directory without data.mdb, or a conversion that has not ended.
File == [is : {"absent", "part", "db"}, has : SUBSET Nat]
Absent == [is |-> "absent", has |-> {}]
Part(S) == [is |-> "part", has |-> S]
Db(S) == [is |-> "db", has |-> S]

Steps == {"start", "wait", "space", "clean", "convert", "converting", "check",
          "publish", "retire", "sidecars"}

-----------------------------------------------------------------------------
\* A node that runs on sqlite, or one that never had Garage.
Init ==
  /\ gen = "old" /\ garage = "inactive" /\ engine = "sqlite"
  /\ pc = "off" /\ waited = 0
  /\ sqlite \in {Absent, Db({})}
  /\ side \in {sqlite.is = "db", FALSE}
  /\ lmdb = Absent /\ staging = Absent
  /\ nested = {} /\ retired = {} /\ acked = {}
  /\ crashes = 0 /\ failures = 0 /\ rollbacks = 0 /\ slowStops = 0

-----------------------------------------------------------------------------
(* The script *)

Step(from, to) == pc = from /\ pc' = to
Quietly == UNCHANGED <<gen, garage, engine, acked, bounds>>

\* systemd starts the unit at a switch or at boot, the operator after a failure.
UnitStart ==
  /\ gen = "new" /\ Step("off", "start")
  /\ waited' = 0
  /\ UNCHANGED files /\ Quietly

Retry ==
  /\ gen = "new" /\ Step("failed", "start")
  /\ waited' = 0
  /\ UNCHANGED files /\ Quietly

\* What the script does with what it finds.
AfterStart == IF lmdb.is = "db" THEN "retire"
              ELSE IF sqlite.is = "absent" THEN "done" ELSE "wait"

Look ==
  /\ Step("start", AfterStart)
  /\ UNCHANGED <<files, waited>> /\ Quietly

\* Mutants: the script goes on after the wait; no limit.
Wait_Assume ==
  /\ waited' = IF garage = "active" /\ waited < MaxWait THEN waited + 1 ELSE waited
  /\ Step("wait", IF garage = "active" /\ waited < MaxWait THEN "wait" ELSE "space")
  /\ UNCHANGED files /\ Quietly
Wait_Endless ==
  /\ Step("wait", IF garage = "active" THEN "wait" ELSE "space")
  /\ UNCHANGED <<files, waited>> /\ Quietly

\* One turn of the loop over systemctl is-active, and the test after it.  A
\* unit that is deactivating is not active.
Wait ==
  /\ waited' = IF garage = "active" /\ waited < MaxWait THEN waited + 1 ELSE waited
  /\ Step("wait", CASE garage # "active" -> "space"
                    [] garage = "active" /\ waited < MaxWait -> "wait"
                    [] OTHER -> "failed")
  /\ UNCHANGED files /\ Quietly

\* stat and df: there is room for a second copy, or there is not.
Space ==
  /\ \/ Step("space", "clean") /\ UNCHANGED failures
     \/ failures < MaxFailures /\ Step("space", "failed") /\ failures' = failures + 1
  /\ UNCHANGED <<files, waited, gen, garage, engine, acked, crashes, rollbacks, slowStops>>

\* rm -rf staging
Clean ==
  /\ Step("clean", "convert")
  /\ staging' = Absent
  /\ UNCHANGED <<waited, sqlite, side, lmdb, nested, retired>> /\ Quietly

\* convert-db reads the database as it is when it opens it.
ConvertBegin ==
  /\ Step("convert", "converting")
  /\ staging' = Part(sqlite.has)
  /\ UNCHANGED <<waited, sqlite, side, lmdb, nested, retired>> /\ Quietly

\* It exits 0, with data.mdb written or not.
ConvertEnd ==
  /\ Step("converting", "check")
  /\ \/ staging' = Db(staging.has) /\ UNCHANGED failures
     \/ failures < MaxFailures /\ failures' = failures + 1 /\ UNCHANGED staging
  /\ UNCHANGED <<waited, sqlite, side, lmdb, nested, retired>>
  /\ UNCHANGED <<gen, garage, engine, acked, crashes, rollbacks, slowStops>>

\* [ -s staging/data.mdb ], then chown.
Check ==
  /\ pc = "check"
  /\ IF staging.is = "db"
       THEN pc' = "publish" /\ UNCHANGED staging
       ELSE pc' = "failed" /\ staging' = Absent
  /\ UNCHANGED <<waited, sqlite, side, lmdb, nested, retired>> /\ Quietly

\* mv staging lmdb: into it, when a directory of that name is there.
Publish ==
  /\ Step("publish", "retire")
  /\ IF lmdb.is = "absent"
       THEN lmdb' = staging /\ UNCHANGED nested
       ELSE nested' = nested \cup {staging.has} /\ UNCHANGED lmdb
  /\ staging' = Absent
  /\ UNCHANGED <<waited, sqlite, side, retired>> /\ Quietly

\* Mutant: the old database is removed, not renamed.
Retire_Remove ==
  /\ Step("retire", "sidecars")
  /\ sqlite' = Absent
  /\ UNCHANGED <<retired, waited, side, lmdb, staging, nested>> /\ Quietly

\* retire_sqlite renames db.sqlite, then -wal and -shm.
Retire ==
  /\ Step("retire", "sidecars")
  /\ retired' = IF sqlite.is = "db" THEN retired \cup {sqlite.has} ELSE retired
  /\ sqlite' = Absent
  /\ UNCHANGED <<waited, side, lmdb, staging, nested>> /\ Quietly

\* Mutant: only db.sqlite is renamed.
RetireSidecars_Forgotten ==
  /\ Step("sidecars", "done")
  /\ UNCHANGED <<files, waited>> /\ Quietly

RetireSidecars ==
  /\ Step("sidecars", "done")
  /\ side' = FALSE
  /\ UNCHANGED <<waited, sqlite, lmdb, staging, nested, retired>> /\ Quietly

\* set -e: a command that fails, or a signal, ends the script where it is.
Abort ==
  /\ failures < MaxFailures
  /\ pc \in Steps /\ pc' = "failed"
  /\ failures' = failures + 1
  /\ UNCHANGED <<waited, files, gen, garage, engine, acked, crashes, rollbacks, slowStops>>

Script ==
  \/ UnitStart \/ Look \/ Wait \/ Space \/ Clean \/ ConvertBegin \/ ConvertEnd
  \/ Check \/ Publish \/ Retire \/ RetireSidecars

-----------------------------------------------------------------------------
(* Garage and the host *)

\* Mutant: garage.service only wants the conversion.
MayStart_Wants == gen = "old" \/ pc \in {"done", "failed"}

\* requiredBy and before: on the new generation Garage waits for the unit.
MayStart == gen = "old" \/ pc = "done"

\* Garage creates the database it does not find; LMDB in two steps.
StartGarage ==
  /\ garage = "inactive" /\ MayStart
  /\ \/ /\ gen = "new" /\ lmdb.is = "absent"
        /\ lmdb' = Part({})
        /\ UNCHANGED <<garage, engine, sqlite, side>>
     \/ /\ gen = "new" /\ lmdb.is # "absent"
        /\ garage' = "active" /\ engine' = "lmdb"
        /\ lmdb' = Db(lmdb.has)
        /\ UNCHANGED <<sqlite, side>>
     \/ /\ gen = "old"
        /\ garage' = "active" /\ engine' = "sqlite"
        /\ sqlite' = Db(sqlite.has) /\ side' = TRUE
        /\ UNCHANGED lmdb
  /\ UNCHANGED <<gen, pc, waited, staging, nested, retired, acked, bounds>>

\* A Garage that is stopping still ends the requests it has.  One whose
\* sqlite file was renamed under it goes on writing to the renamed file.
Write ==
  /\ garage # "inactive"
  /\ \E w \in 1 .. MaxWrites \ acked :
       /\ acked' = acked \cup {w}
       /\ \/ /\ engine = "sqlite" /\ sqlite.is = "db"
             /\ sqlite' = Db(sqlite.has \cup {w}) /\ UNCHANGED <<lmdb, retired>>
          \/ /\ engine = "sqlite" /\ sqlite.is # "db"
             /\ \E S \in retired : retired' = (retired \ {S}) \cup {S \cup {w}}
             /\ UNCHANGED <<sqlite, lmdb>>
          \/ /\ engine = "lmdb"
             /\ lmdb' = Db(lmdb.has \cup {w}) /\ UNCHANGED <<sqlite, retired>>
  /\ UNCHANGED <<gen, garage, engine, pc, waited, side, staging, nested, bounds>>

StopGarage ==
  /\ garage = "active"
  /\ \/ garage' = "inactive" /\ UNCHANGED slowStops
     \/ slowStops < MaxSlowStops /\ garage' = "deactivating" /\ slowStops' = slowStops + 1
  /\ UNCHANGED <<gen, engine, pc, waited, files, acked, crashes, failures, rollbacks>>

GarageExits ==
  /\ garage = "deactivating" /\ garage' = "inactive"
  /\ UNCHANGED <<gen, engine, pc, waited, files, acked, bounds>>

\* The deploy that brings LMDB; Garage may still run when the unit starts.
Deploy ==
  /\ gen = "old" /\ gen' = "new" /\ pc' = "off"
  /\ UNCHANGED <<garage, engine, waited, files, acked, bounds>>

\* docs/runbooks/rollback.md, and back to sqlite with it.
Rollback ==
  /\ rollbacks < MaxRollbacks /\ rollbacks' = rollbacks + 1
  /\ gen = "new" /\ garage = "inactive"
  /\ gen' = "old" /\ pc' = "off"
  /\ UNCHANGED <<garage, engine, waited, files, acked, crashes, failures, slowStops>>

\* Power loss: everything stops where it is, and the host boots its generation.
Crash ==
  /\ crashes < MaxCrashes /\ crashes' = crashes + 1
  /\ garage' = "inactive" /\ pc' = "off"
  /\ UNCHANGED <<gen, engine, waited, files, acked, failures, rollbacks, slowStops>>

Next ==
  \/ Script \/ Retry \/ Abort
  \/ StartGarage \/ Write \/ StopGarage \/ GarageExits
  \/ Deploy \/ Rollback \/ Crash

Spec == Init /\ [][Next]_vars

\* systemd starts the unit and Garage and kills a Garage that does not stop
\* (TimeoutStopSec); a command of the script returns.
FairSpec ==
  Spec /\ WF_vars(Script) /\ WF_vars(StartGarage) /\ WF_vars(GarageExits)

-----------------------------------------------------------------------------
(* Properties *)

TypeOK ==
  /\ gen \in {"old", "new"} /\ engine \in {"sqlite", "lmdb"}
  /\ garage \in {"inactive", "active", "deactivating"}
  /\ pc \in Steps \cup {"off", "done", "failed"}
  /\ waited \in 0 .. MaxWait
  /\ sqlite \in File /\ lmdb \in File /\ staging \in File /\ side \in BOOLEAN
  /\ nested \subseteq SUBSET Nat /\ retired \subseteq SUBSET Nat
  /\ acked \subseteq 1 .. MaxWrites
  /\ crashes \in 0 .. MaxCrashes /\ failures \in 0 .. MaxFailures
  /\ rollbacks \in 0 .. MaxRollbacks /\ slowStops \in 0 .. MaxSlowStops

Opened == IF engine = "sqlite" THEN sqlite.has ELSE lmdb.has

\* What the script can rely on: the host was not rolled back to sqlite, and
\* Garage was seen as active until it had exited.
Ordinary == rollbacks = 0 /\ slowStops = 0

\* A Garage that serves has every write it ever acknowledged: power losses and
\* failed conversions at any step never start it on an empty or an older
\* database.
NoWriteLost == Ordinary /\ garage # "inactive" => acked \subseteq Opened

\* No write is erased: one of the databases that are left on disk has it,
\* under whatever name, even when generations are rolled back between two
\* conversions and Garage is still deactivating when one begins.
EveryWriteKept ==
  acked \subseteq sqlite.has \cup lmdb.has \cup (UNION nested) \cup (UNION retired)

\* Two engines in one metadata_dir is ambiguous: Garage on LMDB has no sqlite
\* file beside it, also after a conversion that broke off while retiring.
OneEngine ==
  Ordinary /\ garage = "active" /\ engine = "lmdb" => sqlite.is = "absent" /\ ~side

\* The comment of the script: the database that convert-db reads is not one
\* Garage still has open.
NotLive == Ordinary /\ pc \in {"convert", "converting"} => garage = "inactive"

\* After a deploy the node serves from LMDB again or its unit has failed,
\* unless the host is rolled back.
ServesOrFails ==
  gen = "new" ~> (garage = "active" /\ engine = "lmdb") \/ pc = "failed" \/ rollbacks > 0

=============================================================================
