----------------------- MODULE GarageConvert_proofs -----------------------
(***************************************************************************)
(* Proofs about GarageConvert: no write is erased, whatever happens; and   *)
(* on a node that is not rolled back, whose Garage is seen as active until *)
(* it has exited, Garage never serves from an empty or an older database   *)
(* and never has a second engine's files beside its own.                   *)
(***************************************************************************)
EXTENDS GarageConvert, TLAPS

-----------------------------------------------------------------------------
(* Types *)

LEMMA FileType ==
  ASSUME NEW S \in SUBSET Nat
  PROVE  Absent \in File /\ Part(S) \in File /\ Db(S) \in File
BY DEF Absent, Part, Db, File

\* Every variable keeps its type in every behaviour of the specification.
THEOREM TypeCorrect == Spec => []TypeOK
<1>1. Init => TypeOK
  <2> SUFFICES ASSUME Init PROVE TypeOK
    OBVIOUS
  <2>1. sqlite \in File /\ lmdb \in File /\ staging \in File
    <3>1. {} \in SUBSET Nat
      OBVIOUS
    <3> QED BY <3>1, FileType DEF Init
  <2>2. side \in BOOLEAN
    <3>1. (sqlite.is = "db") \in BOOLEAN
      OBVIOUS
    <3> QED BY <3>1, Zenon DEF Init
  <2>3. waited \in 0 .. MaxWait /\ crashes \in 0 .. MaxCrashes
        /\ failures \in 0 .. MaxFailures /\ rollbacks \in 0 .. MaxRollbacks
        /\ slowStops \in 0 .. MaxSlowStops
    BY ConvertAssumption DEF Init
  <2> QED BY <2>1, <2>2, <2>3 DEF Init, TypeOK
<1>2. TypeOK /\ [Next]_vars => TypeOK'
  <2> SUFFICES ASSUME TypeOK, [Next]_vars PROVE TypeOK'
    OBVIOUS
  <2> USE ConvertAssumption DEF TypeOK, Steps, Step, Quietly, files, bounds
  <2>1. CASE UnitStart BY <2>1 DEF UnitStart
  <2>2. CASE Retry BY <2>2 DEF Retry
  <2>3. CASE Look BY <2>3 DEF Look, AfterStart
  <2>4. CASE Wait BY <2>4 DEF Wait
  <2>5. CASE Space BY <2>5 DEF Space
  <2>6. CASE Clean
    <3>1. Absent \in File
      BY FileType
    <3>2. staging' = Absent
      BY <2>6 DEF Clean
    <3> QED BY <2>6, <3>1, <3>2 DEF Clean
  <2>7. CASE ConvertBegin BY <2>7, FileType DEF ConvertBegin, Part, File
  <2>8. CASE ConvertEnd BY <2>8, FileType DEF ConvertEnd, Db, File
  <2>9. CASE Check
    <3>1. staging' = staging \/ staging' = Absent
      BY <2>9 DEF Check
    <3>2. staging' \in File
      BY <3>1, FileType
    <3> QED BY <2>9, <3>2 DEF Check
  <2>10. CASE Publish
    <3>1. lmdb' \in {lmdb, staging} /\ staging' = Absent
      BY <2>10 DEF Publish
    <3>2. lmdb' \in File /\ staging' \in File
      BY <3>1, FileType
    <3>3. nested' \subseteq SUBSET Nat
      BY <2>10 DEF Publish, File
    <3> QED BY <2>10, <3>2, <3>3 DEF Publish
  <2>11. CASE Retire
    <3>1. sqlite' \in File
      BY <2>11, FileType DEF Retire
    <3>2. retired' \subseteq SUBSET Nat
      BY <2>11 DEF Retire, File
    <3> QED BY <2>11, <3>1, <3>2 DEF Retire
  <2>12. CASE RetireSidecars BY <2>12 DEF RetireSidecars
  <2>13. CASE Abort BY <2>13 DEF Abort
  <2>14. CASE StartGarage BY <2>14, FileType DEF StartGarage, Part, Db, File
  <2>15. CASE Write
    <3>1. PICK w \in 1 .. MaxWrites \ acked :
            /\ acked' = acked \cup {w}
            /\ \/ /\ sqlite' = Db(sqlite.has \cup {w})
                  /\ UNCHANGED <<lmdb, retired>>
               \/ /\ \E S \in retired :
                       retired' = (retired \ {S}) \cup {S \cup {w}}
                  /\ UNCHANGED <<sqlite, lmdb>>
               \/ /\ lmdb' = Db(lmdb.has \cup {w})
                  /\ UNCHANGED <<sqlite, retired>>
      BY <2>15 DEF Write
    <3>2. acked' \subseteq 1 .. MaxWrites /\ w \in Nat
      BY <3>1
    <3>3. sqlite.has \cup {w} \in SUBSET Nat /\ lmdb.has \cup {w} \in SUBSET Nat
      BY <3>2 DEF File
    <3>4. Db(sqlite.has \cup {w}) \in File /\ Db(lmdb.has \cup {w}) \in File
      BY <3>3, FileType
    <3>5. sqlite' \in File /\ lmdb' \in File
      BY <3>1, <3>4
    <3>6. \A S \in retired : S \cup {w} \in SUBSET Nat
      BY <3>2
    <3>7. retired' \subseteq SUBSET Nat
      <4> SUFFICES ASSUME NEW T \in retired' PROVE T \in SUBSET Nat
        OBVIOUS
      <4>1. T \in retired \/ \E S \in retired : T = S \cup {w}
        BY <3>1
      <4> QED BY <3>6, <4>1
    <3> QED BY <2>15, <3>2, <3>5, <3>7 DEF Write
  <2>16. CASE StopGarage BY <2>16 DEF StopGarage
  <2>17. CASE GarageExits BY <2>17 DEF GarageExits
  <2>18. CASE Deploy BY <2>18 DEF Deploy
  <2>19. CASE Rollback BY <2>19 DEF Rollback
  <2>20. CASE Crash BY <2>20 DEF Crash
  <2>21. CASE UNCHANGED vars BY <2>21 DEF vars
  <2>22. QED
    BY <2>1, <2>2, <2>3, <2>4, <2>5, <2>6, <2>7, <2>8, <2>9, <2>10, <2>11, <2>12,
       <2>13, <2>14, <2>15, <2>16, <2>17, <2>18, <2>19, <2>20, <2>21 DEF Next, Script
<1>3. QED BY <1>1, <1>2, PTL DEF Spec

-----------------------------------------------------------------------------
(* Nothing is erased *)

\* What is not there is empty, and db.sqlite is whole or not there.
NothingHidden ==
  /\ sqlite.is \in {"absent", "db"}
  /\ sqlite.is = "absent" => sqlite.has = {}
  /\ lmdb.is = "absent" => lmdb.has = {}
  /\ staging.is = "absent" => staging.has = {}

KeptInv == NothingHidden /\ EveryWriteKept

LEMMA FileFields ==
  /\ Absent.is = "absent" /\ Absent.has = {}
  /\ \A S : Part(S).is = "part" /\ Part(S).has = S
  /\ \A S : Db(S).is = "db" /\ Db(S).has = S
BY DEF Absent, Part, Db

\* Whatever the script, Garage, the operator and the power supply do, every
\* write that was acknowledged is in one of the databases on disk.
THEOREM KeptCorrect == Spec => []EveryWriteKept
<1>1. Init => KeptInv
  BY FileFields DEF Init, KeptInv, NothingHidden, EveryWriteKept
<1>2. KeptInv /\ [Next]_vars => KeptInv'
  <2> SUFFICES ASSUME KeptInv, [Next]_vars PROVE KeptInv'
    OBVIOUS
  <2> USE DEF KeptInv, NothingHidden, EveryWriteKept, files, bounds, Step, Quietly
  <2>1. ASSUME UNCHANGED <<sqlite, lmdb, nested, retired, acked>>,
               staging'.is = "absent" => staging'.has = {}
        PROVE  KeptInv'
    BY <2>1
  <2>2. CASE UnitStart \/ Retry \/ Look \/ Wait \/ Space \/ Abort
    BY <2>1, <2>2 DEF UnitStart, Retry, Look, Wait, Space, Abort
  <2>3. CASE Clean \/ ConvertBegin \/ ConvertEnd \/ Check \/ RetireSidecars
    BY <2>1, <2>3, FileFields DEF Clean, ConvertBegin, ConvertEnd, Check, RetireSidecars
  <2>4. CASE Publish
    <3>1. CASE lmdb.is = "absent"
      <4>1. /\ lmdb.has = {} /\ lmdb' = staging /\ staging' = Absent
            /\ UNCHANGED <<sqlite, nested, retired, acked>>
        BY <2>4, <3>1 DEF Publish
      <4> QED BY <4>1, FileFields
    <3>2. CASE lmdb.is # "absent"
      <4>1. /\ nested' = nested \cup {staging.has}
            /\ staging' = Absent
            /\ UNCHANGED <<sqlite, lmdb, retired, acked>>
        BY <2>4, <3>2 DEF Publish
      <4> QED BY <4>1, FileFields
    <3> QED BY <3>1, <3>2
  <2>5. CASE Retire
    <3>1. /\ sqlite' = Absent
          /\ UNCHANGED <<lmdb, staging, nested, acked>>
          /\ sqlite.is = "db" => retired' = retired \cup {sqlite.has}
          /\ sqlite.is # "db" => retired' = retired /\ sqlite.has = {}
      BY <2>5 DEF Retire
    <3>2. sqlite.has \cup (UNION retired) \subseteq sqlite'.has \cup (UNION retired')
      BY <3>1, FileFields
    <3> QED BY <3>1, <3>2, FileFields
  <2>6. CASE StartGarage
    <3>1. UNCHANGED <<staging, nested, retired, acked>>
      BY <2>6 DEF StartGarage
    <3>2. /\ sqlite'.has = sqlite.has /\ sqlite' \in {sqlite, Db(sqlite.has)}
          /\ lmdb'.has = lmdb.has /\ lmdb' \in {lmdb, Db(lmdb.has), Part({})}
      BY <2>6, FileFields DEF StartGarage
    <3> QED BY <3>1, <3>2, FileFields
  <2>7. CASE Write
    <3>1. PICK w \in 1 .. MaxWrites \ acked :
            /\ acked' = acked \cup {w}
            /\ \/ /\ sqlite' = Db(sqlite.has \cup {w})
                  /\ UNCHANGED <<lmdb, retired>>
               \/ /\ \E S \in retired :
                       retired' = (retired \ {S}) \cup {S \cup {w}}
                  /\ UNCHANGED <<sqlite, lmdb>>
               \/ /\ lmdb' = Db(lmdb.has \cup {w})
                  /\ UNCHANGED <<sqlite, retired>>
      BY <2>7 DEF Write
    <3>2. UNCHANGED <<staging, nested>>
      BY <2>7 DEF Write
    <3>3. CASE sqlite' = Db(sqlite.has \cup {w}) /\ UNCHANGED <<lmdb, retired>>
      BY <3>1, <3>2, <3>3, FileFields
    <3>4. CASE /\ \E S \in retired : retired' = (retired \ {S}) \cup {S \cup {w}}
               /\ UNCHANGED <<sqlite, lmdb>>
      <4>1. PICK S \in retired : retired' = (retired \ {S}) \cup {S \cup {w}}
        BY <3>4
      <4>2. \A T \in retired : T \subseteq UNION retired'
        <5> SUFFICES ASSUME NEW T \in retired
                     PROVE  \E U \in retired' : T \subseteq U
          OBVIOUS
        <5>1. CASE T = S
          <6> S \cup {w} \in retired'
            BY <4>1
          <6> QED BY <5>1
        <5>2. CASE T # S
          BY <4>1, <5>2
        <5> QED BY <5>1, <5>2
      <4>3. w \in UNION retired'
        <5> S \cup {w} \in retired'
          BY <4>1
        <5> QED OBVIOUS
      <4>4. (UNION retired) \cup {w} \subseteq UNION retired'
        BY <4>2, <4>3
      <4> QED BY <3>1, <3>2, <3>4, <4>4
    <3>5. CASE lmdb' = Db(lmdb.has \cup {w}) /\ UNCHANGED <<sqlite, retired>>
      BY <3>1, <3>2, <3>5, FileFields
    <3> QED BY <3>1, <3>3, <3>4, <3>5
  <2>8. CASE StopGarage \/ GarageExits \/ Deploy \/ Rollback \/ Crash \/ UNCHANGED vars
    BY <2>1, <2>8 DEF StopGarage, GarageExits, Deploy, Rollback, Crash, vars
  <2> QED BY <2>2, <2>3, <2>4, <2>5, <2>6, <2>7, <2>8 DEF Next, Script
<1>3. KeptInv => EveryWriteKept
  BY DEF KeptInv
<1> QED BY <1>1, <1>2, <1>3, PTL DEF Spec

-----------------------------------------------------------------------------
(* One engine at a time, on an ordinary node *)

\* Which files there can be at each step of the unit.
Whereabouts ==
  /\ pc \in {"wait", "space", "clean", "convert", "converting", "check", "publish"}
       => sqlite.is = "db" /\ lmdb.is = "absent"
  /\ pc \in {"converting", "check", "publish"} => staging.has = sqlite.has
  /\ pc = "publish" => staging.is = "db"
  /\ pc \in {"retire", "sidecars"} => lmdb.is = "db"
  /\ pc \in {"sidecars", "done"} => sqlite.is = "absent"
  /\ pc = "done" => ~side
  /\ side /\ sqlite.is = "absent" => lmdb.is = "db"

\* Who may be running, with which database.
Engines ==
  /\ garage \in {"inactive", "active"}
  /\ pc \in {"space", "clean", "convert", "converting", "check", "publish",
              "retire", "sidecars"} => garage = "inactive"
  /\ garage = "active" /\ engine = "lmdb" => pc = "done" /\ lmdb.is = "db"
  /\ garage = "active" /\ engine = "sqlite" => lmdb.is = "absent" /\ sqlite.is = "db"

\* The database that counts: LMDB once it is there, sqlite until then.
Holder ==
  /\ gen = "old" => pc = "off" /\ lmdb = Absent /\ engine = "sqlite"
  /\ lmdb.is = "part" => sqlite.is = "absent" /\ acked = {}
  /\ lmdb.is = "db" => acked \subseteq lmdb.has
  /\ lmdb.is # "db" => acked \subseteq sqlite.has

ConvertInv == NothingHidden /\ Whereabouts /\ Engines /\ Holder

\* A node that is not ordinary never is again.
LEMMA OrdinaryBefore ==
  ASSUME TypeOK, [Next]_vars, Ordinary'
  PROVE  Ordinary
<1> USE DEF TypeOK, Ordinary, bounds, Quietly
<1>1. CASE Space \/ ConvertEnd \/ Abort
  BY <1>1 DEF Space, ConvertEnd, Abort
<1>2. CASE StopGarage \/ Rollback \/ Crash \/ UNCHANGED vars
  BY <1>2 DEF StopGarage, Rollback, Crash, vars
<1>3. CASE UNCHANGED bounds
  BY <1>3
<1>4. CASE Script \/ Retry \/ StartGarage \/ Write \/ GarageExits \/ Deploy
  BY <1>1, <1>3, <1>4 DEF Script, UnitStart, Look, Wait, Clean, ConvertBegin, Check, Publish,
       Retire, RetireSidecars, Retry, StartGarage, Write, GarageExits, Deploy
<1> QED BY <1>1, <1>2, <1>4 DEF Next

LEMMA ConvertCorrect == Spec => [](Ordinary => ConvertInv)
<1>1. Init => (Ordinary => ConvertInv)
  <2> SUFFICES ASSUME Init PROVE ConvertInv
    OBVIOUS
  <2> QED
    BY FileFields DEF Init, ConvertInv, NothingHidden, Whereabouts, Engines, Holder
<1>2. (Ordinary => ConvertInv) /\ TypeOK /\ [Next]_vars => (Ordinary => ConvertInv)'
  <2> SUFFICES ASSUME ConvertInv, TypeOK, [Next]_vars, Ordinary' PROVE ConvertInv'
    BY OrdinaryBefore
  <2>0. rollbacks' = 0 /\ slowStops' = 0
    BY DEF Ordinary
  <2> USE FileFields
  <2> USE DEF ConvertInv, NothingHidden, Whereabouts, Engines, Holder,
              TypeOK, Steps, Step, Quietly, files, bounds
  <2>1. CASE UnitStart BY <2>1 DEF UnitStart
  <2>2. CASE Retry BY <2>2 DEF Retry
  <2>3. CASE Look
    <3>1. pc = "start" /\ gen = "new" /\ pc' = AfterStart
      BY <2>3 DEF Look
    <3>2. UNCHANGED <<gen, garage, engine, sqlite, side, lmdb, staging, acked>>
      BY <2>3 DEF Look
    <3>3. CASE lmdb.is = "db"
      <4>1. pc' = "retire" /\ garage = "inactive"
        BY <3>1, <3>3 DEF AfterStart
      <4> QED BY <3>1, <3>2, <3>3, <4>1
    <3>4. CASE lmdb.is # "db" /\ sqlite.is = "absent"
      <4>1. pc' = "done"
        BY <3>1, <3>4 DEF AfterStart
      <4> QED BY <3>1, <3>2, <3>4, <4>1
    <3>5. CASE lmdb.is # "db" /\ sqlite.is = "db"
      <4>1. pc' = "wait" /\ lmdb.is = "absent"
        BY <3>1, <3>5 DEF AfterStart, File
      <4> QED BY <3>1, <3>2, <3>5, <4>1
    <3> QED BY <3>3, <3>4, <3>5
  <2>4. CASE Wait BY <2>4 DEF Wait
  <2>5. CASE Space BY <2>5 DEF Space
  <2>6. CASE Clean BY <2>6 DEF Clean
  <2>7. CASE ConvertBegin BY <2>7 DEF ConvertBegin
  <2>8. CASE ConvertEnd BY <2>8 DEF ConvertEnd
  <2>9. CASE Check BY <2>9 DEF Check
  <2>10. CASE Publish BY <2>10 DEF Publish
  <2>11. CASE Retire BY <2>11 DEF Retire
  <2>12. CASE RetireSidecars BY <2>12 DEF RetireSidecars
  <2>13. CASE Abort BY <2>13 DEF Abort
  <2>14. CASE StartGarage BY <2>14 DEF StartGarage, MayStart
  <2>15. CASE Write
    <3>1. PICK w \in 1 .. MaxWrites \ acked :
            /\ acked' = acked \cup {w}
            /\ engine = "sqlite" /\ sqlite.is = "db" =>
                 sqlite' = Db(sqlite.has \cup {w}) /\ UNCHANGED lmdb
            /\ engine = "lmdb" =>
                 lmdb' = Db(lmdb.has \cup {w}) /\ UNCHANGED sqlite
      BY <2>15 DEF Write
    <3>2. garage = "active" /\ UNCHANGED <<gen, garage, engine, pc, side, staging>>
      BY <2>15 DEF Write
    <3>3. CASE engine = "sqlite"
      BY <3>1, <3>2, <3>3
    <3>4. CASE engine = "lmdb"
      BY <3>1, <3>2, <3>4
    <3> QED BY <3>3, <3>4
  <2>16. CASE StopGarage BY <2>0, <2>16 DEF StopGarage
  <2>17. CASE GarageExits BY <2>17 DEF GarageExits
  <2>18. CASE Deploy BY <2>18 DEF Deploy
  <2>19. CASE Rollback BY <2>0, <2>19 DEF Rollback
  <2>20. CASE Crash BY <2>20 DEF Crash
  <2>21. CASE UNCHANGED vars BY <2>21 DEF vars
  <2> QED
    BY <2>1, <2>2, <2>3, <2>4, <2>5, <2>6, <2>7, <2>8, <2>9, <2>10, <2>11,
       <2>12, <2>13, <2>14, <2>15, <2>16, <2>17, <2>18, <2>19, <2>20, <2>21 DEF Next, Script
<1> QED BY <1>1, <1>2, TypeCorrect, PTL DEF Spec

\* A power loss or a failed step anywhere in the conversion never lets Garage
\* serve from a database that misses a write it acknowledged.
THEOREM NoWriteLostCorrect == Spec => []NoWriteLost
<1>1. (Ordinary => ConvertInv) /\ TypeOK => NoWriteLost
  BY DEF ConvertInv, Engines, Holder, TypeOK, NoWriteLost, Opened
<1> QED BY <1>1, TypeCorrect, ConvertCorrect, PTL

\* Garage on LMDB has neither db.sqlite nor its -wal and -shm beside it.
THEOREM OneEngineCorrect == Spec => []OneEngine
<1>1. (Ordinary => ConvertInv) => OneEngine
  BY DEF ConvertInv, Whereabouts, Engines, OneEngine
<1> QED BY <1>1, ConvertCorrect, PTL

\* convert-db never reads a database that Garage has open, as long as a Garage
\* that is stopping is still seen as active.
THEOREM NotLiveCorrect == Spec => []NotLive
<1>1. (Ordinary => ConvertInv) => NotLive
  BY DEF ConvertInv, Engines, NotLive
<1> QED BY <1>1, ConvertCorrect, PTL

=============================================================================
