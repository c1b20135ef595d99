------------------------------ MODULE OtaSlots ------------------------------
(***************************************************************************)
(* The OTA helper phh-ota: two slots a and b hold images of the system     *)
(* beside the one the device was shipped with ("stock").                   *)
(* /metadata/phh/img names the slot to boot from.  ota.sh makes an image   *)
(* in the other slot, fills it and switches to it; at the end of every     *)
(* boot init deletes the slots the system does not run from.  The power    *)
(* may fail between any two steps.                                         *)
(*                                                                         *)
(* One update runs at a time.  The image manager and the first stage of    *)
(* init are external.                                                      *)
(***************************************************************************)
EXTENDS Sequences

VARIABLES
  img,      \* /metadata/phh/img: "none" (no file), "empty", or a slot
  image,    \* the backing image of a slot: "none", "blank", "partial" or "whole"
  mapped,   \* the slots whose images are mapped to a block device
  running,  \* PHH_OTA_SLOT, or "stock" when it is not set
  sh,       \* ota.sh and the phh-ota command it runs: where it is, and the slot
  cleaner,  \* delete-other-slot: the steps it still has to do for this boot
  moved,    \* history: img has changed since the device booted
  crossed   \* history: an update ran beside delete-other-slot

vars == << img, image, mapped, running, sh, cleaner, moved, crossed >>

Slots == {"a", "b"}
Idle == [pc |-> "idle", slot |-> "none"]

\* Mutant: the slot that is kept is the other one.
delete_other_slot_Swapped(current_slot) ==
  LET gone(s) == << <<"unmap", s>>, <<"delete", s>> >>
  IN  CASE current_slot = "a" -> gone("a")
        [] current_slot = "b" -> gone("b")
        [] OTHER -> gone("a") \o gone("b")

\* delete-other-slot, which init runs when a boot is completed.
delete_other_slot(current_slot) ==
  LET gone(s) == << <<"unmap", s>>, <<"delete", s>> >>
  IN  CASE current_slot = "a" -> gone("b")
        [] current_slot = "b" -> gone("a")
        [] OTHER -> gone("a") \o gone("b")

Init ==
  /\ img = "none"
  /\ image = [s \in Slots |-> "none"]
  /\ mapped = {}
  /\ running = "stock"
  /\ sh = Idle
  /\ cleaner = delete_other_slot("stock")
  /\ moved = FALSE
  /\ crossed = FALSE

\* Mutant: the slot is taken from where the system runs.
getNextSlotOfRunning == IF running = "a" THEN "b" ELSE "a"

\* The slot to update: a, unless the file can be read and begins with an a.
getNextSlot == IF img = "a" THEN "b" ELSE "a"

-----------------------------------------------------------------------------
\* The image manager (external).  A device in use cannot be unmapped; whether a
\* mapped image can be deleted, or an existing one be created over, is up to it.
InUse(s) == running = s \/ (sh.slot = s /\ sh.pc \in {"writing", "mounted"})

UnmapImageDevice(s) == mapped' = IF InUse(s) THEN mapped ELSE mapped \ {s}

DeleteBackingImage(s) ==
  \/ image' = [image EXCEPT ![s] = "none"]
  \/ s \in mapped /\ UNCHANGED image

CreateBackingImage(s) == image' = [image EXCEPT ![s] = "blank"]

MapImageDevice(s) ==
  /\ image[s] # "none"
  /\ mapped' = mapped \union {s}

-----------------------------------------------------------------------------
\* ota.sh.  A step of phh-ota that fails ends the command with an error, and
\* `set -e` ends the script.
Step(from, to) ==
  /\ sh.pc = from
  /\ sh' = [sh EXCEPT !.pc = to]

Fails == sh' = Idle

StartUpdate ==
  /\ sh = Idle
  /\ sh' = [pc |-> "unmap", slot |-> getNextSlot]
  /\ crossed' = (crossed \/ cleaner # << >>)
  /\ UNCHANGED << img, image, mapped, running, cleaner, moved >>

\* phh-ota new-slot.  The results of the first two steps are only printed.
NewSlotUnmap ==
  /\ Step("unmap", "delete")
  /\ UnmapImageDevice(sh.slot)
  /\ UNCHANGED << img, image, running, cleaner, moved, crossed >>

NewSlotDelete ==
  /\ Step("delete", "create")
  /\ DeleteBackingImage(sh.slot)
  /\ UNCHANGED << img, mapped, running, cleaner, moved, crossed >>

\* Creating the image may be cancelled with phh.ota.cancel, time out or fail.
NewSlotCreate ==
  /\ \/ Step("create", "map") /\ CreateBackingImage(sh.slot)
     \/ sh.pc = "create" /\ Fails /\ \/ UNCHANGED image
                                     \/ CreateBackingImage(sh.slot)
  /\ UNCHANGED << img, mapped, running, cleaner, moved, crossed >>

\* When the image is not mapped blockDev is empty, no stat succeeds and sb is read
\* uninitialised: the command fails, or goes on and prints an empty path, to which
\* the script cannot write.
NewSlotMap ==
  /\ \/ Step("map", "write") /\ MapImageDevice(sh.slot)
     \/ sh.pc = "map" /\ Fails /\ UNCHANGED mapped
  /\ UNCHANGED << img, image, running, cleaner, moved, crossed >>

\* The download is written to the device; it may break off.  When the image behind
\* the device is gone the data is lost, which nobody notices.
Behind(s, content) ==
  image' = [image EXCEPT ![s] = IF @ = "none" \/ s \notin mapped THEN @ ELSE content]

WriteBegin ==
  /\ Step("write", "writing")
  /\ Behind(sh.slot, "partial")
  /\ UNCHANGED << img, mapped, running, cleaner, moved, crossed >>

WriteEnd ==
  /\ \/ Step("writing", "check") /\ Behind(sh.slot, "whole")
     \/ sh.pc = "writing" /\ Fails /\ UNCHANGED image
  /\ UNCHANGED << img, mapped, running, cleaner, moved, crossed >>

\* phh-ota switch-slot reads the file again, and checks that the image of the slot
\* can be mapped and mounted.
SwitchSlot ==
  /\ sh.pc = "check"
  /\ sh' = [pc |-> "mount", slot |-> getNextSlot]
  /\ UNCHANGED << img, image, mapped, running, cleaner, moved, crossed >>

checkOtaMap ==
  /\ \/ Step("mount", "mounted") /\ MapImageDevice(sh.slot)
     \/ sh.pc = "mount" /\ Fails /\ UNCHANGED mapped
  /\ UNCHANGED << img, image, running, cleaner, moved, crossed >>

\* A part of a file system may do for the mount.
checkOtaMount ==
  /\ \/ Step("mounted", "checked") /\ image[sh.slot] \in {"partial", "whole"} /\ UNCHANGED mapped
     \/ sh.pc = "mounted" /\ Fails /\ mapped' = mapped \ ({sh.slot} \ {running})
  /\ UNCHANGED << img, image, running, cleaner, moved, crossed >>

checkOtaUnmap ==
  /\ Step("checked", "select")
  /\ UnmapImageDevice(sh.slot)
  /\ UNCHANGED << img, image, running, cleaner, moved, crossed >>

\* WriteStringToFile truncates the file and then writes it.
SelectTruncate ==
  /\ Step("select", "selecting")
  /\ img' = "empty"
  /\ moved' = TRUE
  /\ UNCHANGED << image, mapped, running, cleaner, crossed >>

SelectWrite ==
  /\ Step("selecting", "reboot")
  /\ img' = sh.slot
  /\ UNCHANGED << image, mapped, running, cleaner, moved, crossed >>

\* The script is interrupted.
Abort ==
  /\ sh # Idle
  /\ Fails
  /\ UNCHANGED << img, image, mapped, running, cleaner, moved, crossed >>

-----------------------------------------------------------------------------
\* The user's sys.phh.uninstall-ota removes the file.
UninstallOta ==
  /\ img' = "none"
  /\ moved' = TRUE
  /\ UNCHANGED << image, mapped, running, sh, cleaner, crossed >>

\* phh-ota unmap.
UnmapBoth ==
  /\ mapped' = { s \in mapped : InUse(s) }
  /\ UNCHANGED << img, image, running, sh, cleaner, moved, crossed >>

\* A step of delete-other-slot.
DeleteOtherStep ==
  /\ cleaner # << >>
  /\ cleaner' = Tail(cleaner)
  /\ LET s == Head(cleaner)[2] IN
     \/ Head(cleaner)[1] = "unmap" /\ UnmapImageDevice(s) /\ UNCHANGED image
     \/ Head(cleaner)[1] = "delete" /\ DeleteBackingImage(s) /\ UNCHANGED mapped
  /\ UNCHANGED << img, running, sh, moved, crossed >>

\* ota.sh reboots, the user does, or the power fails.  The first stage of init
\* (external) boots from the slot the file names if there is an image to boot from.
Reboot ==
  LET whole == img \in Slots /\ image[img] = "whole" IN
  /\ running' = IF whole THEN img ELSE "stock"
  /\ mapped' = IF whole THEN {img} ELSE {}
  /\ cleaner' = delete_other_slot(running')
  /\ sh' = Idle
  /\ moved' = FALSE
  /\ crossed' = (crossed /\ img \in Slots /\ ~whole)
  /\ UNCHANGED << img, image >>

Next ==
  \/ StartUpdate \/ NewSlotUnmap \/ NewSlotDelete \/ NewSlotCreate \/ NewSlotMap
  \/ WriteBegin \/ WriteEnd \/ SwitchSlot \/ checkOtaMap \/ checkOtaMount \/ checkOtaUnmap
  \/ SelectTruncate \/ SelectWrite \/ Abort
  \/ UninstallOta \/ UnmapBoth \/ DeleteOtherStep \/ Reboot

Spec == Init /\ [][Next]_vars

-----------------------------------------------------------------------------
\* Type invariant.
OtaTypeOK ==
  /\ img \in Slots \union {"none", "empty"}
  /\ image \in [Slots -> {"none", "blank", "partial", "whole"}]
  /\ mapped \subseteq Slots
  /\ running \in Slots \union {"stock"}
  /\ sh.slot \in Slots \union {"none"}
  /\ moved \in BOOLEAN /\ crossed \in BOOLEAN

\* Whenever the power fails, the slot the device is to boot from has a complete
\* image: an update that is under way, was broken off or was followed by another
\* one never reaches the image that is selected.  The exception is an update that
\* ran while delete-other-slot was not yet through with the last boot.
SelectedIsWhole ==
  /\ OtaTypeOK
  /\ img \in Slots /\ ~crossed => image[img] = "whole"

\* The image the system runs from stays untouched as long as the selection has not
\* been moved away from it since the boot; new-slot goes by the selection and not by
\* the running slot, so after a switch or an uninstallation without a reboot it may
\* work on the running image.
RunningIsSpared ==
  running \in Slots /\ ~moved => img = running /\ image[running] = "whole" /\ running \in mapped
=============================================================================
