-------------------------- MODULE GarageBootstrap --------------------------
(***************************************************************************)
(* The unit garage-bootstrap of services/garage.nix: a key and a bucket    *)
(* for each service that stores in Garage, made by a script that is        *)
(* started again until all of it has succeeded.                            *)
(*                                                                         *)
(* The daemon is modelled from how the script uses its command line: it    *)
(* takes a second key of the same name, and no key answers to an ambiguous *)
(* name.                                                                   *)
(***************************************************************************)
EXTENDS Naturals, Sequences

CONSTANTS
  Store,     \* the names of bootstrap_s3, in the script's order
  MaxFaults  \* kills of the unit, and calls of garage that fail

ASSUME BootstrapAssumption ==
  /\ MaxFaults \in Nat
  /\ Len(Store) \in Nat \ {0} /\ DOMAIN Store = 1 .. Len(Store)

VARIABLES
  unit,     \* "inactive", "failed", "active", or the step it is at
  which,    \* the name it is at, an index of Store
  layout,   \* whether the cluster layout has been applied
  keys,     \* name |-> the keys of that name in Garage: 0, 1, or 2 for several
  saved,    \* name |-> what the key file holds: "none", "empty", "key"
  buckets,  \* the buckets
  allowed,  \* the buckets that the key of their name may use
  faults,
  misread   \* whether a query failed for another reason than absence

bootstrapVars == <<unit, which, layout, keys, saved, buckets, allowed, faults, misread>>

Names == {Store[i] : i \in DOMAIN Store}
name == Store[which]

BootstrapInit ==
  /\ unit = "inactive" /\ which = 1 /\ layout \in BOOLEAN
  /\ keys \in [Names -> IF layout THEN {0, 1} ELSE {0}]  \* imported on a cutover
  /\ saved = [n \in Names |-> "none"]
  /\ buckets = {} /\ allowed = {} /\ faults = 0 /\ misread = FALSE

data == <<layout, keys, saved, buckets, allowed>>

To(next) == unit' = next /\ UNCHANGED which
Fault == faults < MaxFaults /\ faults' = faults + 1
Well == UNCHANGED <<faults, misread>>

\* The first start, and Restart=on-failure.
StartUnit ==
  /\ unit \in {"inactive", "failed"}
  /\ unit' = "status" /\ which' = 1
  /\ Well /\ UNCHANGED data

\* garage status, 60 times at most.
Online ==
  /\ unit = "status"
  /\ \/ To("key") /\ Well
     \/ To("failed") /\ Fault /\ UNCHANGED misread
  /\ UNCHANGED data

\* By hand, once (docs/services/garage.md).
ApplyLayout ==
  /\ ~layout /\ layout' = TRUE
  /\ UNCHANGED <<unit, which, keys, saved, buckets, allowed, faults, misread>>

\* garage key info: absent, ambiguous and unreachable look the same.
KeyInfo ==
  /\ unit = "key"
  /\ \/ To(IF keys[name] = 1 THEN "bucket" ELSE "create") /\ Well
     \/ To("create") /\ Fault /\ misread' = TRUE
  /\ UNCHANGED data

\* One key more of this name, which the script tells apart from several.
OneMore == [keys EXCEPT ![name] = IF @ = 0 THEN 1 ELSE 2]

\* It needs a layout, and may have made the key when it fails.
KeyCreate ==
  /\ unit = "create"
  /\ \/ layout /\ keys' = OneMore /\ To("save") /\ Well
     \/ ~layout /\ UNCHANGED keys /\ To("failed") /\ Well
     \/ layout /\ keys' \in {keys, OneMore} /\ To("failed") /\ Fault /\ UNCHANGED misread
  /\ UNCHANGED <<layout, saved, buckets, allowed>>

\* echo > file and chmod; a kill in between leaves it empty.
KeySave ==
  /\ unit = "save"
  /\ \/ saved' = [saved EXCEPT ![name] = "key"] /\ To("bucket") /\ Well
     \/ saved' = [saved EXCEPT ![name] = "empty"] /\ To("failed") /\ Fault /\ UNCHANGED misread
  /\ UNCHANGED <<layout, keys, buckets, allowed>>

\* Mutant: the bucket is created without a look at what is there.
HasBucket_Never == FALSE

HasBucket == name \in buckets

\* garage bucket info, and garage bucket create, which fails for a bucket
\* that exists.
Bucket ==
  /\ unit = "bucket"
  /\ \/ HasBucket /\ To("allow") /\ UNCHANGED buckets /\ Well
     \/ /\ ~HasBucket /\ layout /\ buckets' = buckets \cup {name}
        /\ To(IF name \in buckets THEN "failed" ELSE "allow") /\ Well
     \/ ~HasBucket /\ ~layout /\ UNCHANGED buckets /\ To("failed") /\ Well
     \/ buckets' \in {buckets, buckets \cup {name}} /\ To("failed") /\ Fault /\ UNCHANGED misread
  /\ UNCHANGED <<layout, keys, saved, allowed>>

\* The next name, or the end.
Onwards == IF which = Len(Store) THEN To("active") ELSE unit' = "key" /\ which' = which + 1

\* Mutant: the script goes on when it fails.
Unless_Always(ok) == Onwards

\* set -e: a garage bucket allow that fails ends the script.
Unless(ok) == IF ok THEN Onwards ELSE To("failed")

\* Each time, also for a key and a bucket that were there.
Allow ==
  /\ unit = "allow"
  /\ \/ keys[name] = 1 /\ allowed' = allowed \cup {name} /\ Unless(TRUE) /\ Well
     \/ keys[name] # 1 /\ Unless(FALSE) /\ UNCHANGED allowed /\ Well
     \/ Unless(FALSE) /\ Fault /\ UNCHANGED <<allowed, misread>>
  /\ UNCHANGED <<layout, keys, saved, buckets>>

\* The host dies, or the unit is killed.
Killed ==
  /\ unit \notin {"inactive", "failed"}
  /\ To("failed") /\ Fault
  /\ UNCHANGED <<data, misread>>

UnitStep ==
  \/ StartUnit \/ Online \/ KeyInfo \/ KeyCreate \/ KeySave \/ Bucket \/ Allow

BootstrapNext == UnitStep \/ ApplyLayout \/ Killed

\* The unit is started again until it succeeds, its steps end, and someone
\* applies the layout.
BootstrapSpec ==
  /\ BootstrapInit /\ [][BootstrapNext]_bootstrapVars
  /\ WF_bootstrapVars(UnitStep) /\ WF_bootstrapVars(ApplyLayout)

-----------------------------------------------------------------------------
(* Properties *)

\* When the unit reports success, every service has its bucket, which the one
\* key of its name may use.
ActiveIsReady ==
  unit = "active" => \A n \in Names : n \in buckets \cap allowed /\ keys[n] = 1

\* The unit gets to the end, from whatever its killed and failed runs left
\* behind, unless a query was misread.
BootstrapEnds == unit = "status" ~> (unit = "active" \/ misread)

=============================================================================
