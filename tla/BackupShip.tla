----------------------------- MODULE BackupShip -----------------------------
(***************************************************************************)
(* The backups that leave their host by copy, verify and delete: postStart *)
(* of postgresqlBackup (services/postgres.nix), which is a part of the     *)
(* unit that dumps, and gitlab-backup-sync (services/gitlab.nix), a unit   *)
(* that is started when gitlab-backup has succeeded.                       *)
(*                                                                         *)
(* The dumps themselves are nixpkgs' scripts, modelled from the files that *)
(* these two find; rsync and the target are modelled from how they are     *)
(* used.                                                                   *)
(***************************************************************************)
EXTENDS Naturals

CONSTANTS MaxDumps

ASSUME ShipAssumption == MaxDumps \in Nat

VARIABLES
  host,    \* "postgres" or "gitlab"
  dumping, \* the dump that is being written, 0 for none
  ship,    \* what comes next: "none", "stamp", "copy", "verify", "delete"
  local,   \* the files in the backup directory
  target,  \* the files on the backup target
  dumps,   \* the dumps begun
  newest   \* the dump that was finished last

shipVars == <<host, dumping, ship, local, target, dumps, newest>>

ShipInit ==
  /\ host \in {"postgres", "gitlab"} /\ dumping = 0 /\ ship = "none"
  /\ local = {} /\ target = {} /\ dumps = 0 /\ newest = 0

\* all, all.prev and all.in-progress are written again and again; all_<time>
\* and a GitLab archive have the name of their dump.
File(n, d, w) == [name |-> n, dump |-> d, whole |-> w]
SameName(f, g) == f.name = g.name /\ (f.name \in {"stamped", "archive"} => f.dump = g.dump)
Replacing(files, new) == {f \in files : ~\E g \in new : SameName(f, g)} \cup new
Renamed(n, m) == Replacing({f \in local : f.name # n}, {[f EXCEPT !.name = m] : f \in {g \in local : g.name = n}})

\* The unit of a PostgreSQL dump ends with its postStart; a GitLab backup
\* may begin while an older one is shipped.
DumpBegins ==
  /\ dumping = 0 /\ dumps < MaxDumps
  /\ host = "postgres" => ship = "none"
  /\ dumps' = dumps + 1 /\ dumping' = dumps'
  /\ local' = IF host = "postgres"
                THEN Replacing(Renamed("all", "prev"), {File("part", dumps', FALSE)})
                ELSE local \cup {File("archive", dumps', FALSE)}
  /\ UNCHANGED <<host, ship, target, newest>>

\* onSuccess finds a sync that runs, or starts one.
DumpEnds ==
  /\ dumping # 0
  /\ dumping' = 0 /\ newest' = dumping
  /\ IF host = "postgres"
       THEN /\ local' = {f \in local : f.name # "part"} \cup {File("all", dumping, TRUE)}
            /\ ship' = "stamp"
       ELSE /\ local' = {IF f.dump = dumping THEN [f EXCEPT !.whole = TRUE] ELSE f : f \in local}
            /\ ship' = IF ship = "none" THEN "copy" ELSE ship
  /\ UNCHANGED <<host, target, dumps>>

\* mv all.sql.zstd all_$TIMESTAMP.sql.zstd
Stamp ==
  /\ ship = "stamp" /\ ship' = "copy"
  /\ local' = Renamed("all", "stamped")
  /\ UNCHANGED <<host, dumping, target, dumps, newest>>

\* rsync -a: whatever its result says, some files may not have arrived.
Copy ==
  /\ ship = "copy"
  /\ \E arrived \in SUBSET local : target' = Replacing(target, arrived)
  /\ ship' \in {"verify", "none"}
  /\ UNCHANGED <<host, dumping, local, dumps, newest>>

\* Mutant: the old script, which trusted the transfer.
Differ_Trusted == {}

\* rsync --checksum --dry-run --itemize-changes.
Differ == local \ target

Verify ==
  /\ ship = "verify"
  /\ ship' = IF Differ = {} THEN "delete" ELSE "none"
  /\ UNCHANGED <<host, dumping, local, target, dumps, newest>>

\* find -type f -delete, of what is there by now.
Delete ==
  /\ ship = "delete" /\ ship' = "none"
  /\ local' = {}
  /\ UNCHANGED <<host, dumping, target, dumps, newest>>

\* The host dies, at any step and in the middle of a delete.
HostDies ==
  /\ ship # "none" \/ dumping # 0
  /\ ship' = "none" /\ dumping' = 0
  /\ IF ship = "delete" THEN local' \in SUBSET local ELSE UNCHANGED local
  /\ UNCHANGED <<host, target, dumps, newest>>

ShipNext == DumpBegins \/ DumpEnds \/ Stamp \/ Copy \/ Verify \/ Delete \/ HostDies

ShipSpec == ShipInit /\ [][ShipNext]_shipVars

-----------------------------------------------------------------------------
(* Properties *)

\* The newest finished dump is whole on one of the two sides.
NewestKept == newest # 0 => \E f \in local \cup target : f.dump = newest /\ f.whole

\* PostgreSQL: through every rename, transfer, verification and delete, and
\* through the runs that follow one that ended in the middle.
DumpKept == host = "postgres" => NewestKept

\* GitLab, as services/gitlab.nix says it: one side always has a complete
\* backup.
ArchiveKept == host = "gitlab" => NewestKept

=============================================================================
