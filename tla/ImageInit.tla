----------------------------- MODULE ImageInit -----------------------------
(***************************************************************************)
(* The unit nix-build-img-init of config/build-cache.nix, which makes, or  *)
(* checks and grows, the ext4 image in a file on NFS that a loop mount     *)
(* behind it fills.                                                        *)
(*                                                                         *)
(* The tools of e2fsprogs are modelled from how the script uses them: a    *)
(* check repairs what a crash left dirty, and may find more than it can    *)
(* correct.                                                                *)
(***************************************************************************)
EXTENDS Naturals

CONSTANTS
  Sizes,      \* the values of imageSize
  MaxCrashes  \* deaths of the host

ASSUME ImageAssumption == Sizes \subseteq Nat \ {0} /\ MaxCrashes \in Nat

VARIABLES
  imageSize,  \* what the host's configuration says now
  step,       \* of the unit: "off", "start", "mkfs", "fsck", "grow", "resize", "failed", "active"
  file,       \* the size of the image, 0 when there is no file
  fs,         \* the filesystem in it: "none", "clean", "dirty", "broken"
  extent,     \* its size
  crashes

imageVars == <<imageSize, step, file, fs, extent, crashes>>

ImageTo(s) == step' = s /\ UNCHANGED <<imageSize, crashes>>

ImageStart ==
  /\ imageSize \in Sizes /\ step = "off" /\ file = 0 /\ fs = "none" /\ extent = 0 /\ crashes = 0

\* The unit is started by the mount at boot, or by a deploy.
StartImage ==
  /\ step = "off"
  /\ ImageTo("start") /\ UNCHANGED <<file, fs, extent>>

\* No image: truncate -s, which mkfs.ext4 follows.
CreateImage ==
  /\ step = "start" /\ file = 0
  /\ file' = imageSize
  /\ ImageTo("mkfs") /\ UNCHANGED <<fs, extent>>

Mkfs ==
  /\ step = "mkfs"
  /\ fs' = "clean" /\ extent' = file
  /\ ImageTo("active") /\ UNCHANGED file

\* Mutant: truncate -s shrinks as readily as it grows.
Refused_Never == FALSE

\* What the unit does not do to an image that is larger than imageSize.
Refused == imageSize < file

Compare ==
  /\ step = "start" /\ file # 0
  /\ ImageTo(IF Refused THEN "failed" ELSE "fsck")
  /\ UNCHANGED <<file, fs, extent>>

\* Mutant: the old e2fsck || true.
Corrected_Always(rc) == TRUE

\* e2fsck exits 1 when it corrected errors.
Corrected(rc) == rc <= 1

\* 0, 1 or 4 by what it finds, 8 without a filesystem; the mount takes over
\* when there is nothing to grow.
Fsck ==
  /\ step = "fsck"
  /\ \E rc \in CASE fs = "clean" -> {0} [] fs = "dirty" -> {1, 4}
                 [] fs = "broken" -> {4} [] OTHER -> {8} :
       /\ fs' = IF rc = 8 THEN fs ELSE IF rc = 4 THEN "broken" ELSE "clean"
       /\ ImageTo(IF ~Corrected(rc) THEN "failed" ELSE IF imageSize # file THEN "grow" ELSE "active")
  /\ UNCHANGED <<file, extent>>

\* truncate -s imageSize
Grow ==
  /\ step = "grow"
  /\ file' = imageSize
  /\ ImageTo("resize") /\ UNCHANGED <<fs, extent>>

Resize ==
  /\ step = "resize"
  /\ extent' = file
  /\ ImageTo("active") /\ UNCHANGED <<file, fs>>

\* A host that dies leaves what it wrote to dirty.  The next start is a boot's
\* or a deploy's, which may have a new imageSize.
StopImage ==
  /\ step # "off" /\ step' = "off"
  /\ \/ /\ crashes < MaxCrashes /\ crashes' = crashes + 1
        /\ CASE step = "mkfs" -> fs' \in {"none", "broken"}
             [] step \in {"fsck", "resize", "active"} /\ fs = "clean" -> fs' \in {"clean", "dirty"}
             [] OTHER -> UNCHANGED fs
     \/ step \in {"failed", "active"} /\ UNCHANGED <<crashes, fs>>
  /\ imageSize' \in Sizes
  /\ UNCHANGED <<file, extent>>

ImageNext ==
  \/ StartImage \/ CreateImage \/ Mkfs \/ Compare \/ Fsck \/ Grow \/ Resize \/ StopImage

ImageSpec == ImageStart /\ [][ImageNext]_imageVars

-----------------------------------------------------------------------------
(* Properties *)

\* However imageSize changes and wherever the host dies, a filesystem is
\* never longer than the file that it is in.
NeverCutOff == extent <= file

\* The mount behind the unit only ever sees a filesystem without known errors.
MountedIsClean == step = "active" => fs = "clean"

=============================================================================
