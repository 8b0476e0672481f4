--------------------------- MODULE Units_proofs ---------------------------
(***************************************************************************)
(* The units that keep data of the services: no dump of the databases is   *)
(* lost (BackupShip), no image of a build cache is damaged (ImageInit), no *)
(* S3 bootstrap that succeeds leaves a service without its bucket          *)
(* (GarageBootstrap).  For any number of crashes, whatever the tools they  *)
(* call leave undone.                                                      *)
(***************************************************************************)
EXTENDS BackupShip, ImageInit, GarageBootstrap, TLAPS

-----------------------------------------------------------------------------
(* BackupShip: where the newest dump is *)

Files == [name : {"all", "prev", "part", "stamped"}, dump : Nat, whole : BOOLEAN]

\* Where the newest dump is at each step.  all.sql.zstd is always the newest,
\* so that it may take the name of an older one; a part is never whole; and
\* what is about to be deleted has been found on the target.
ShipInv ==
  host = "postgres" =>
    /\ dumping \in Nat /\ dumps \in Nat /\ local \subseteq Files
    /\ dumping # 0 => ship = "none"
    /\ \A f \in local : f.name = "all" => dumping = 0 /\ f = File("all", newest, TRUE)
    /\ \A f \in local : f.name = "part" => ~f.whole
    /\ ship = "stamp" => File("all", newest, TRUE) \in local
    /\ ship \in {"copy", "verify", "delete"} => File("stamped", newest, TRUE) \in local
    /\ ship = "delete" => local \subseteq target
    /\ NewestKept

-----------------------------------------------------------------------------
(* Renames *)

\* A rename of all.sql.zstd touches nothing else but a file that has the new
\* name already.
LEMMA RenamedAll ==
  ASSUME local \subseteq Files, NEW m \in {"prev", "stamped"},
         \A f \in local : f.name = "all" => f = File("all", newest, TRUE)
  PROVE  /\ Renamed("all", m) \subseteq Files
         /\ \A f \in Renamed("all", m) : f.name # "all"
         /\ \A f \in Renamed("all", m) : f \in local \/ f = File(m, newest, TRUE)
         /\ File("all", newest, TRUE) \in local => File(m, newest, TRUE) \in Renamed("all", m)
         /\ File("all", newest, TRUE) \notin local =>
              \A f \in local : f \in Renamed("all", m)
         /\ m = "prev" => \A f \in local : f.name \notin {"all", "prev"} => f \in Renamed("all", m)
<1> DEFINE olds == {g \in local : g.name = "all"}
           new == {[f EXCEPT !.name = m] : f \in olds}
           rest == {f \in local : f.name # "all"}
<1>1. Renamed("all", m) = {f \in rest : ~\E g \in new : SameName(f, g)} \cup new
  BY DEF Renamed, Replacing
<1>2. \A f \in olds : f = File("all", newest, TRUE)
  OBVIOUS
<1>3. \A f \in Files : [f EXCEPT !.name = m] = File(m, f.dump, f.whole)
  BY DEF Files, File
<1>4. new \subseteq {File(m, newest, TRUE)}
  <2>1. \A f \in olds : [f EXCEPT !.name = m] = File(m, newest, TRUE)
    <3> SUFFICES ASSUME NEW f \in olds PROVE [f EXCEPT !.name = m] = File(m, newest, TRUE)
      OBVIOUS
    <3>1. f \in Files /\ [f EXCEPT !.name = m] = File(m, f.dump, f.whole)
      BY <1>3
    <3>2. f.dump = newest /\ f.whole = TRUE
      BY <1>2 DEF File
    <3> QED BY <3>1, <3>2
  <2> QED BY <2>1
<1>5. new \subseteq Files
  <2>1. \A f \in Files : File(m, f.dump, f.whole) \in Files
    BY DEF Files, File
  <2>2. olds \subseteq Files
    OBVIOUS
  <2>3. \A f \in olds : [f EXCEPT !.name = m] \in Files
    BY <1>3, <2>1, <2>2
  <2> QED BY <2>3
<1>6. \A g \in new : g.name = m
  BY <1>4 DEF File
<1>7. File("all", newest, TRUE) \in local => File(m, newest, TRUE) \in new
  <2> SUFFICES ASSUME File("all", newest, TRUE) \in local PROVE File(m, newest, TRUE) \in new
    OBVIOUS
  <2>1. File("all", newest, TRUE) \in olds
    BY DEF File
  <2>2. PICK f \in olds : f = File("all", newest, TRUE)
    BY <2>1
  <2>3. [f EXCEPT !.name = m] = File(m, newest, TRUE)
    BY <1>3, <2>2 DEF File
  <2> QED BY <2>3
<1>8. File("all", newest, TRUE) \notin local => olds = {} /\ new = {} /\ rest = local
  BY <1>2
<1>9. m = "prev" => \A f \in local : f.name \notin {"all", "prev"} => ~\E g \in new : SameName(f, g)
  BY <1>6 DEF SameName
<1>10. /\ Renamed("all", m) \subseteq Files
       /\ \A f \in Renamed("all", m) : f.name # "all"
       /\ \A f \in Renamed("all", m) : f \in local \/ f = File(m, newest, TRUE)
  BY <1>1, <1>4, <1>5, <1>6
<1>11. File("all", newest, TRUE) \in local => File(m, newest, TRUE) \in Renamed("all", m)
  BY <1>1, <1>7
<1>12. File("all", newest, TRUE) \notin local => \A f \in local : f \in Renamed("all", m)
  BY <1>1, <1>8
<1>13. m = "prev" => \A f \in local : f.name \notin {"all", "prev"} => f \in Renamed("all", m)
  BY <1>1, <1>9
<1> QED BY <1>10, <1>11, <1>12, <1>13

-----------------------------------------------------------------------------
(* The steps *)

LEMMA ShipInitInv == ShipInit => ShipInv
BY DEF ShipInit, ShipInv, NewestKept

LEMMA DumpBeginsInv == ASSUME ShipInv, DumpBegins PROVE ShipInv'
<1> SUFFICES ASSUME host = "postgres" PROVE ShipInv'
  BY DEF ShipInv, DumpBegins
<1> DEFINE moved == Renamed("all", "prev")
           part == File("part", dumps', FALSE)
<1>1. /\ dumps' \in Nat /\ dumping' \in Nat /\ dumping' # 0
      /\ ship = "none" /\ ship' = "none" /\ newest' = newest /\ target' = target
      /\ local' = Replacing(moved, {part})
  BY DEF ShipInv, DumpBegins
<1>2. /\ moved \subseteq Files
      /\ \A f \in moved : f.name # "all"
      /\ \A f \in moved : f \in local \/ f = File("prev", newest, TRUE)
      /\ File("all", newest, TRUE) \in local => File("prev", newest, TRUE) \in moved
      /\ File("all", newest, TRUE) \notin local => \A f \in local : f \in moved
  <2>1. local \subseteq Files /\ \A f \in local : f.name = "all" => f = File("all", newest, TRUE)
    BY DEF ShipInv
  <2> QED BY <2>1, RenamedAll
<1>3. local' = {f \in moved : ~SameName(f, part)} \cup {part}
  BY <1>1 DEF Replacing
<1>4. part \in Files /\ part.name = "part" /\ part.whole = FALSE
  BY <1>1 DEF Files, File
<1>5. \A f \in moved : f.name # "part" => f \in local'
  BY <1>3, <1>4 DEF SameName
<1>6. /\ local' \subseteq Files
      /\ \A f \in local' : f.name # "all"
      /\ \A f \in local' : f.name = "part" => ~f.whole
  <2>1. \A f \in local : f.name = "part" => ~f.whole
    BY DEF ShipInv
  <2>2. File("prev", newest, TRUE).name = "prev"
    BY DEF File
  <2> QED BY <1>2, <1>3, <1>4, <2>1, <2>2
<1>7. NewestKept'
  <2> SUFFICES ASSUME newest # 0
               PROVE  \E f \in local' \cup target' : f.dump = newest /\ f.whole
    BY <1>1 DEF NewestKept
  <2>1. PICK f \in local \cup target : f.dump = newest /\ f.whole
    BY DEF ShipInv, NewestKept
  <2>2. CASE f \in target
    BY <1>1, <2>1, <2>2
  <2>3. CASE File("all", newest, TRUE) \in local
    BY <1>2, <1>5, <2>3 DEF File
  <2>4. CASE f \in local /\ File("all", newest, TRUE) \notin local
    BY <1>2, <1>5, <2>1, <2>4 DEF ShipInv
  <2> QED BY <2>2, <2>3, <2>4
<1> QED BY <1>1, <1>6, <1>7 DEF ShipInv

LEMMA DumpEndsInv == ASSUME ShipInv, DumpEnds PROVE ShipInv'
<1> SUFFICES ASSUME host = "postgres" PROVE ShipInv'
  BY DEF ShipInv, DumpEnds
<1> DEFINE done == File("all", dumping, TRUE)
<1>1. /\ dumping \in Nat \ {0} /\ dumping' = 0 /\ newest' = dumping /\ ship' = "stamp"
      /\ dumps' \in Nat /\ target' = target
      /\ local' = {f \in local : f.name # "part"} \cup {done}
  BY DEF ShipInv, DumpEnds
<1>2. done \in Files /\ done.name = "all" /\ done.dump = dumping /\ done.whole
  BY <1>1 DEF Files, File
<1>3. \A f \in local : f.name # "all"
  BY <1>1 DEF ShipInv
<1>4. /\ local' \subseteq Files
      /\ \A f \in local' : f.name = "all" => f = done
      /\ \A f \in local' : f.name # "part"
  BY <1>1, <1>2, <1>3 DEF ShipInv
<1>5. NewestKept'
  BY <1>1, <1>2 DEF NewestKept
<1>6. File("all", newest', TRUE) \in local' /\ done = File("all", newest', TRUE)
  BY <1>1
<1> QED BY <1>1, <1>4, <1>5, <1>6 DEF ShipInv, File

LEMMA StampInv == ASSUME ShipInv, Stamp PROVE ShipInv'
<1> SUFFICES ASSUME host = "postgres" PROVE ShipInv'
  BY DEF ShipInv, Stamp
<1>1. /\ ship = "stamp" /\ ship' = "copy" /\ dumping = 0
      /\ UNCHANGED <<dumping, dumps, newest, target>>
      /\ local' = Renamed("all", "stamped")
      /\ File("all", newest, TRUE) \in local
  BY DEF ShipInv, Stamp
<1>2. /\ local' \subseteq Files
      /\ \A f \in local' : f.name # "all"
      /\ \A f \in local' : f \in local \/ f = File("stamped", newest, TRUE)
      /\ File("stamped", newest, TRUE) \in local'
  <2>1. local \subseteq Files /\ \A f \in local : f.name = "all" => f = File("all", newest, TRUE)
    BY DEF ShipInv
  <2> QED BY <1>1, <2>1, RenamedAll
<1>3. \A f \in local' : f.name = "part" => ~f.whole
  BY <1>2 DEF ShipInv, File
<1>4. NewestKept'
  BY <1>1, <1>2 DEF NewestKept, File
<1> QED BY <1>1, <1>2, <1>3, <1>4 DEF ShipInv

LEMMA ShippingInv == ASSUME ShipInv, Copy \/ Verify \/ Delete PROVE ShipInv'
<1> SUFFICES ASSUME host = "postgres" PROVE ShipInv'
  BY DEF ShipInv, Copy, Verify, Delete
<1> DEFINE stamped == File("stamped", newest, TRUE)
<1>1. stamped \in local /\ stamped.dump = newest /\ stamped.whole
  BY DEF ShipInv, Copy, Verify, Delete, File
<1>2. CASE Copy
  BY <1>1, <1>2 DEF Copy, ShipInv, NewestKept
<1>3. CASE Verify
  BY <1>3 DEF Verify, Differ, ShipInv, NewestKept
<1>4. CASE Delete
  <2>1. stamped \in target
    BY <1>1, <1>4 DEF Delete, ShipInv
  <2> QED BY <1>1, <1>4, <2>1 DEF Delete, ShipInv, NewestKept
<1> QED BY <1>2, <1>3, <1>4

LEMMA HostDiesInv == ASSUME ShipInv, HostDies PROVE ShipInv'
<1> SUFFICES ASSUME host = "postgres" PROVE ShipInv'
  BY DEF ShipInv, HostDies
<1>1. /\ local' \subseteq local /\ dumping' = 0 /\ ship' = "none"
      /\ UNCHANGED <<target, newest, dumps>>
      /\ ship # "delete" => local' = local
  BY DEF HostDies
<1>2. NewestKept'
  <2>1. CASE ship = "delete"
    BY <1>1, <2>1 DEF ShipInv, NewestKept
  <2>2. CASE ship # "delete"
    BY <1>1, <2>2 DEF ShipInv, NewestKept
  <2> QED BY <2>1, <2>2
<1> QED BY <1>1, <1>2 DEF ShipInv

\* ShipInv is inductive.
THEOREM ShipInvariant == ShipSpec => []ShipInv
<1>1. ShipInv /\ [ShipNext]_shipVars => ShipInv'
  <2> SUFFICES ASSUME ShipInv, [ShipNext]_shipVars PROVE ShipInv'
    OBVIOUS
  <2>1. CASE UNCHANGED shipVars
    BY <2>1 DEF shipVars, ShipInv, NewestKept
  <2> QED BY <2>1, DumpBeginsInv, DumpEndsInv, StampInv, ShippingInv, HostDiesInv DEF ShipNext
<1> QED BY <1>1, ShipInitInv, PTL DEF ShipSpec

\* services/postgres.nix: copy, verify and only then delete.  The newest dump
\* is whole on one of the two sides, through any number of runs that end in
\* the middle.
THEOREM DumpKeptCorrect == ShipSpec => []DumpKept
<1>1. ShipInv => DumpKept
  BY DEF ShipInv, DumpKept
<1> QED BY <1>1, ShipInvariant, PTL

-----------------------------------------------------------------------------
(* ImageInit: what the unit knows at each step *)

\* What the unit knows at each step: after the comparison the image is no
\* larger than imageSize, and only a clean one is grown.
ImageInv ==
  /\ imageSize \in Nat /\ file \in Nat /\ extent \in Nat
  /\ extent <= file
  /\ step = "fsck" => file <= imageSize
  /\ step = "grow" => file < imageSize
  /\ step \in {"grow", "resize", "active"} => fs = "clean"

LEMMA ImageStartInv == ImageStart => ImageInv
BY ImageAssumption DEF ImageStart, ImageInv

\* The steps of the unit, which keep imageSize.
LEMMA UnitKeepsInv ==
  ASSUME ImageInv,
         StartImage \/ CreateImage \/ Mkfs \/ Compare \/ Fsck \/ Grow \/ Resize
  PROVE  ImageInv'
<1> USE DEF ImageInv, ImageTo
<1>1. CASE StartImage
  BY <1>1 DEF StartImage
<1>2. CASE CreateImage
  BY <1>2 DEF CreateImage
<1>3. CASE Mkfs
  BY <1>3 DEF Mkfs
<1>4. CASE Compare
  BY <1>4 DEF Compare, Refused
<1>5. CASE Fsck
  <2>1. PICK rc \in {0, 1, 4, 8} :
          /\ fs' = IF rc = 8 THEN fs ELSE IF rc = 4 THEN "broken" ELSE "clean"
          /\ ImageTo(IF ~Corrected(rc) THEN "failed"
                     ELSE IF imageSize # file THEN "grow" ELSE "active")
    BY <1>5 DEF Fsck
  <2>2. step = "fsck" /\ UNCHANGED <<imageSize, file, extent>>
    BY <1>5, <2>1 DEF Fsck
  <2>3. CASE rc \in {0, 1}
    <3>1. fs' = "clean" /\ step' = IF imageSize # file THEN "grow" ELSE "active"
      BY <2>1, <2>3 DEF Corrected
    <3> QED BY <2>2, <3>1
  <2>4. CASE rc \in {4, 8}
    <3>1. step' = "failed"
      BY <2>1, <2>4 DEF Corrected
    <3> QED BY <2>2, <3>1
  <2> QED BY <2>3, <2>4
<1>6. CASE Grow
  BY <1>6 DEF Grow
<1>7. CASE Resize
  BY <1>7 DEF Resize
<1> QED BY <1>1, <1>2, <1>3, <1>4, <1>5, <1>6, <1>7

\* ImageInv is inductive: a stop forgets the step, and with it all that the
\* step relied on.
THEOREM ImageInvariant == ImageSpec => []ImageInv
<1>1. ImageInv /\ [ImageNext]_imageVars => ImageInv'
  <2> SUFFICES ASSUME ImageInv, [ImageNext]_imageVars PROVE ImageInv'
    OBVIOUS
  <2>1. CASE StopImage
    BY <2>1, ImageAssumption DEF StopImage, ImageInv
  <2>2. CASE UNCHANGED imageVars
    BY <2>2 DEF imageVars, ImageInv
  <2> QED BY <2>1, <2>2, UnitKeepsInv DEF ImageNext
<1> QED BY <1>1, ImageStartInv, PTL DEF ImageSpec

\* config/build-cache.nix refuses to shrink: a filesystem stays within its
\* file, whatever imageSize is deployed next.
THEOREM NeverCutOffCorrect == ImageSpec => []NeverCutOff
<1>1. ImageInv => NeverCutOff
  BY DEF ImageInv, NeverCutOff
<1> QED BY <1>1, ImageInvariant, PTL

\* A unit that reports success has a clean filesystem behind it, so that the
\* mount that requires it never sees one with errors that e2fsck found.
THEOREM MountedIsCleanCorrect == ImageSpec => []MountedIsClean
<1>1. ImageInv => MountedIsClean
  BY DEF ImageInv, MountedIsClean
<1> QED BY <1>1, ImageInvariant, PTL

-----------------------------------------------------------------------------
(* GarageBootstrap: the names that are done *)

Ready(n) == n \in buckets \cap allowed /\ keys[n] = 1

\* The names before the one the unit is at are done, unless it is at one of
\* them once more; and it only asks for permissions when the bucket is there.
BootstrapInv ==
  /\ which \in 1 .. Len(Store)
  /\ keys \in [Names -> {0, 1, 2}]
  /\ unit = "status" => which = 1
  /\ unit = "allow" => name \in buckets
  /\ unit \in {"key", "create", "save", "bucket", "allow"} =>
       \A i \in 1 .. which - 1 : Store[i] = name \/ Ready(Store[i])
  /\ unit = "active" => \A n \in Names : Ready(n)

LEMMA NameIsStored == ASSUME BootstrapInv PROVE name \in Names
BY BootstrapAssumption DEF BootstrapInv, Names, name

LEMMA BootstrapInitInv == BootstrapInit => BootstrapInv
BY BootstrapAssumption DEF BootstrapInit, BootstrapInv

\* A second key of a name only undoes the name the unit is at.
LEMMA KeyCreateInv == ASSUME BootstrapInv, KeyCreate PROVE BootstrapInv'
<1>1. /\ unit = "create" /\ unit' \in {"save", "failed"} /\ which' = which
      /\ UNCHANGED <<buckets, allowed>> /\ keys' \in {keys, OneMore}
  BY DEF KeyCreate, To
<1>2. OneMore \in [Names -> {0, 1, 2}] /\ \A n \in Names : n # name => OneMore[n] = keys[n]
  BY NameIsStored DEF BootstrapInv, OneMore
<1>3. keys' \in [Names -> {0, 1, 2}] /\ \A n \in Names : n # name => keys'[n] = keys[n]
  BY <1>1, <1>2 DEF BootstrapInv
<1>4. name' = name /\ \A i \in 1 .. which - 1 : Store[i] \in Names
  BY <1>1, BootstrapAssumption DEF BootstrapInv, name, Names
<1> QED BY <1>1, <1>3, <1>4 DEF BootstrapInv, Ready

LEMMA BucketInv == ASSUME BootstrapInv, Bucket PROVE BootstrapInv'
<1>1. /\ unit = "bucket" /\ unit' \in {"allow", "failed"} /\ which' = which
      /\ UNCHANGED <<keys, allowed>> /\ buckets \subseteq buckets'
      /\ unit' = "allow" => name \in buckets'
  BY DEF Bucket, To, HasBucket
<1>2. name' = name
  BY <1>1 DEF name
<1> QED BY <1>1, <1>2 DEF BootstrapInv, Ready

\* The unit gets to the next name, or to the end, only when all names up to
\* the one it is at are done.
LEMMA AllowInv == ASSUME BootstrapInv, Allow PROVE BootstrapInv'
<1>1. unit = "allow" /\ UNCHANGED <<keys, buckets>> /\ name \in buckets
  BY DEF Allow, BootstrapInv
<1>2. CASE unit' = "failed" /\ which' = which
  BY <1>1, <1>2 DEF BootstrapInv
<1>3. CASE keys[name] = 1 /\ allowed' = allowed \cup {name} /\ Onwards
  <2>1. \A i \in 1 .. which : Ready(Store[i])'
    BY <1>1, <1>3 DEF BootstrapInv, Ready, name
  <2>2. CASE which = Len(Store) /\ unit' = "active" /\ which' = which
    <3>1. \A n \in Names : Ready(n)'
      BY <2>1, <2>2, BootstrapAssumption DEF Names
    <3> QED BY <1>1, <2>2, <3>1 DEF BootstrapInv
  <2>3. CASE which # Len(Store) /\ unit' = "key" /\ which' = which + 1
    <3>1. which' \in 1 .. Len(Store) /\ \A i \in 1 .. which' - 1 : i \in 1 .. which
      <4>1. Len(Store) \in Nat /\ which \in 1 .. Len(Store)
        BY BootstrapAssumption DEF BootstrapInv
      <4> QED BY ONLY <2>3, <4>1
    <3> QED BY <1>1, <2>1, <2>3, <3>1 DEF BootstrapInv
  <2> QED BY <1>3, <2>2, <2>3 DEF Onwards, To
<1> QED BY <1>2, <1>3 DEF Allow, Unless, To

\* The steps that leave keys, buckets and permissions alone.
LEMMA QuietStepInv ==
  ASSUME BootstrapInv, StartUnit \/ Online \/ KeyInfo \/ KeySave \/ ApplyLayout \/ Killed
  PROVE  BootstrapInv'
<1>1. /\ UNCHANGED <<keys, buckets, allowed>>
      /\ \/ UNCHANGED <<unit, which>>
         \/ unit' = "status" /\ which' = 1
         \/ unit = "status" /\ unit' = "key" /\ UNCHANGED which
         \/ unit \in {"key", "create", "save"} /\ unit' \in {"create", "save", "bucket"} /\ UNCHANGED which
         \/ unit' = "failed" /\ UNCHANGED which
  BY DEF StartUnit, Online, KeyInfo, KeySave, ApplyLayout, Killed, To, data
<1>2. which' = which => name' = name
  BY DEF name
<1> QED BY <1>1, <1>2, BootstrapAssumption DEF BootstrapInv, Ready

\* ActiveIsReady: garage-bootstrap succeeds only with a bucket for every
\* service and the one key of its name allowed to use it, whatever killed and
\* failed runs, keys made twice and queries misread came before.
THEOREM ActiveIsReadyCorrect == BootstrapSpec => []ActiveIsReady
<1>1. BootstrapInv /\ [BootstrapNext]_bootstrapVars => BootstrapInv'
  <2> SUFFICES ASSUME BootstrapInv, [BootstrapNext]_bootstrapVars PROVE BootstrapInv'
    OBVIOUS
  <2>1. CASE UNCHANGED bootstrapVars
    BY <2>1 DEF bootstrapVars, BootstrapInv, Ready, name
  <2> QED
    BY <2>1, KeyCreateInv, BucketInv, AllowInv, QuietStepInv DEF BootstrapNext, UnitStep
<1>2. BootstrapInv => ActiveIsReady
  BY DEF BootstrapInv, ActiveIsReady, Ready
<1> QED BY <1>1, <1>2, BootstrapInitInv, PTL DEF BootstrapSpec

=============================================================================
