--------------------------- MODULE OtaSlotsProofs ---------------------------
(***************************************************************************)
(* Proofs about the OTA helper, for behaviours of any length: any number   *)
(* of updates, interruptions, uninstallations, clean-ups and power         *)
(* failures.                                                               *)
(*                                                                         *)
(* Neither property is inductive.  That the selected image is whole rests  *)
(* on what an update has done so far (UpdateInv), on the update never      *)
(* working on the selected slot (UpdateSpares), and on delete-other-slot   *)
(* keeping away from the running one (CleanerSpares, CleanerAlone).        *)
(***************************************************************************)
EXTENDS OtaSlots, Integers, SequenceTheorems, TLAPS

Early == {"unmap", "delete", "create", "map", "write", "writing", "check"}
Late  == {"mount", "mounted", "checked", "select", "selecting", "reboot"}
Pcs   == {"idle"} \union Early \union Late

\* ota.sh is either not running or works on a slot.
ScriptOK ==
  /\ sh \in [pc : Pcs, slot : Slots \union {"none"}]
  /\ sh.pc = "idle" <=> sh.slot = "none"
  /\ cleaner \in Seq({"unmap", "delete"} \X Slots)

\* An update does not work on the slot that is selected, and the selection has
\* been moved when it writes the new one.
UpdateSpares ==
  /\ sh.pc \in Early => img # sh.slot
  /\ sh.pc = "selecting" => moved

\* delete-other-slot does not touch the slot the system runs from.
CleanerSpares == \A i \in 1 .. Len(cleaner) : cleaner[i][2] # running

\* Without an overlap, an update and delete-other-slot do not run at once, and
\* delete-other-slot runs before anything but the running slot is selected.
CleanerAlone ==
  ~crossed /\ cleaner # << >> => sh.pc = "idle" /\ (img \in Slots => img = running)

\* What an update that does not overlap with delete-other-slot knows of its image
\* at each step.  The slot named by switch-slot is a again when the selection was
\* removed during an update of b; a is then the image that was selected.
UpdateInv ==
  ~crossed =>
    /\ sh.pc \in {"map", "write"} => image[sh.slot] = "blank"
    /\ sh.pc = "writing" =>
         \/ image[sh.slot] = "blank" /\ sh.slot \notin mapped
         \/ image[sh.slot] = "partial" /\ sh.slot \in mapped
    /\ sh.pc \in {"check", "mount", "mounted"} => image[sh.slot] \in {"blank", "whole"}
    /\ sh.pc \in {"checked", "select", "selecting"} => image[sh.slot] = "whole"
    /\ sh.pc \in Early /\ sh.slot = "b" => image["a"] = "whole"

OtaInv ==
  /\ ScriptOK
  /\ UpdateSpares
  /\ CleanerSpares
  /\ CleanerAlone
  /\ UpdateInv
  /\ SelectedIsWhole
  /\ RunningIsSpared

\* The commands of delete-other-slot are for slots other than the running one.
LEMMA DeleteOtherSpares ==
  ASSUME NEW r \in Slots \union {"stock"}
  PROVE  /\ delete_other_slot(r) \in Seq({"unmap", "delete"} \X Slots)
         /\ \A i \in 1 .. Len(delete_other_slot(r)) : delete_other_slot(r)[i][2] # r
<1> DEFINE Gone(s) == << <<"unmap", s>>, <<"delete", s>> >>
<1>1. ASSUME NEW s \in Slots
      PROVE  /\ Gone(s) \in Seq({"unmap", "delete"} \X Slots) /\ Len(Gone(s)) = 2
             /\ \A i \in 1 .. 2 : Gone(s)[i][2] = s
  OBVIOUS
<1>2. /\ r = "a" => delete_other_slot(r) = Gone("b")
      /\ r = "b" => delete_other_slot(r) = Gone("a")
      /\ r = "stock" => delete_other_slot(r) = Gone("a") \o Gone("b")
  BY DEF delete_other_slot
<1> HIDE DEF Gone
<1>3. "a" \in Slots /\ "b" \in Slots /\ "stock" \notin Slots
  BY DEF Slots
<1>4. CASE r \in Slots
  BY <1>1, <1>2, <1>3, <1>4 DEF Slots
<1>5. CASE r = "stock"
  <2> DEFINE c == Gone("a") \o Gone("b")
  <2>1. c \in Seq({"unmap", "delete"} \X Slots) /\ Len(c) = 4
    <3>1. /\ Gone("a") \in Seq({"unmap", "delete"} \X Slots) /\ Len(Gone("a")) = 2
          /\ Gone("b") \in Seq({"unmap", "delete"} \X Slots) /\ Len(Gone("b")) = 2
      BY <1>1, <1>3
    <3>2. /\ Gone("a") \o Gone("b") \in Seq({"unmap", "delete"} \X Slots)
          /\ Len(Gone("a") \o Gone("b")) = Len(Gone("a")) + Len(Gone("b"))
      BY <3>1, ConcatProperties, Zenon
    <3>3. 2 + 2 = 4
      OBVIOUS
    <3> QED BY <3>1, <3>2, <3>3, Zenon
  <2>2. \A i \in 1 .. 4 : c[i] \in {"unmap", "delete"} \X Slots
    BY <2>1
  <2> HIDE DEF c
  <2>3. \A i \in 1 .. 4 : c[i][2] # "stock"
    BY <1>3, <2>2
  <2> QED BY <1>2, <1>5, <2>1, <2>3 DEF c
<1> QED BY <1>4, <1>5

LEMMA OtaInitial == Init => OtaInv
<1> SUFFICES ASSUME Init PROVE OtaInv
  OBVIOUS
<1>1. CleanerSpares /\ cleaner \in Seq({"unmap", "delete"} \X Slots)
  BY DeleteOtherSpares DEF Init, CleanerSpares
<1> QED
  BY <1>1 DEF Init, OtaInv, Idle, Pcs, Early, Late, Slots,
     ScriptOK, UpdateSpares, CleanerAlone, UpdateInv,
     SelectedIsWhole, RunningIsSpared, OtaTypeOK

LEMMA OtaStep == OtaInv /\ [Next]_vars => OtaInv'
<1> SUFFICES ASSUME OtaInv, [Next]_vars PROVE OtaInv'
  OBVIOUS
<1> USE DEF OtaInv, Slots, Pcs, Early, Late
<1>1. ASSUME StartUpdate PROVE OtaInv'
  BY <1>1 DEF StartUpdate, getNextSlot, Idle,
     ScriptOK, UpdateSpares, CleanerSpares, CleanerAlone, UpdateInv,
     SelectedIsWhole, RunningIsSpared, OtaTypeOK
<1>2. ASSUME NewSlotUnmap PROVE OtaInv'
  BY <1>2 DEF NewSlotUnmap, Step, UnmapImageDevice, InUse,
     ScriptOK, UpdateSpares, CleanerSpares, CleanerAlone, UpdateInv,
     SelectedIsWhole, RunningIsSpared, OtaTypeOK
<1>3. ASSUME NewSlotDelete PROVE OtaInv'
  BY <1>3 DEF NewSlotDelete, Step, DeleteBackingImage,
     ScriptOK, UpdateSpares, CleanerSpares, CleanerAlone, UpdateInv,
     SelectedIsWhole, RunningIsSpared, OtaTypeOK
<1>4. ASSUME NewSlotCreate PROVE OtaInv'
  BY <1>4 DEF NewSlotCreate, Step, CreateBackingImage, Fails, Idle,
     ScriptOK, UpdateSpares, CleanerSpares, CleanerAlone, UpdateInv,
     SelectedIsWhole, RunningIsSpared, OtaTypeOK
<1>5. ASSUME NewSlotMap PROVE OtaInv'
  BY <1>5 DEF NewSlotMap, Step, MapImageDevice, Fails, Idle,
     ScriptOK, UpdateSpares, CleanerSpares, CleanerAlone, UpdateInv,
     SelectedIsWhole, RunningIsSpared, OtaTypeOK
<1>6. ASSUME WriteBegin PROVE OtaInv'
  BY <1>6 DEF WriteBegin, Step, Behind,
     ScriptOK, UpdateSpares, CleanerSpares, CleanerAlone, UpdateInv,
     SelectedIsWhole, RunningIsSpared, OtaTypeOK
<1>7. ASSUME WriteEnd PROVE OtaInv'
  BY <1>7 DEF WriteEnd, Step, Behind, Fails, Idle,
     ScriptOK, UpdateSpares, CleanerSpares, CleanerAlone, UpdateInv,
     SelectedIsWhole, RunningIsSpared, OtaTypeOK
<1>8. ASSUME SwitchSlot PROVE OtaInv'
  BY <1>8 DEF SwitchSlot, getNextSlot,
     ScriptOK, UpdateSpares, CleanerSpares, CleanerAlone, UpdateInv,
     SelectedIsWhole, RunningIsSpared, OtaTypeOK
<1>9. ASSUME checkOtaMap PROVE OtaInv'
  BY <1>9 DEF checkOtaMap, Step, MapImageDevice, Fails, Idle,
     ScriptOK, UpdateSpares, CleanerSpares, CleanerAlone, UpdateInv,
     SelectedIsWhole, RunningIsSpared, OtaTypeOK
<1>10. ASSUME checkOtaMount PROVE OtaInv'
  BY <1>10 DEF checkOtaMount, Step, Fails, Idle,
     ScriptOK, UpdateSpares, CleanerSpares, CleanerAlone, UpdateInv,
     SelectedIsWhole, RunningIsSpared, OtaTypeOK
<1>11. ASSUME checkOtaUnmap PROVE OtaInv'
  BY <1>11 DEF checkOtaUnmap, Step, UnmapImageDevice, InUse,
     ScriptOK, UpdateSpares, CleanerSpares, CleanerAlone, UpdateInv,
     SelectedIsWhole, RunningIsSpared, OtaTypeOK
<1>12. ASSUME SelectTruncate PROVE OtaInv'
  BY <1>12 DEF SelectTruncate, Step,
     ScriptOK, UpdateSpares, CleanerSpares, CleanerAlone, UpdateInv,
     SelectedIsWhole, RunningIsSpared, OtaTypeOK
<1>13. ASSUME SelectWrite PROVE OtaInv'
  BY <1>13 DEF SelectWrite, Step,
     ScriptOK, UpdateSpares, CleanerSpares, CleanerAlone, UpdateInv,
     SelectedIsWhole, RunningIsSpared, OtaTypeOK
<1>14. ASSUME Abort PROVE OtaInv'
  BY <1>14 DEF Abort, Fails, Idle,
     ScriptOK, UpdateSpares, CleanerSpares, CleanerAlone, UpdateInv,
     SelectedIsWhole, RunningIsSpared, OtaTypeOK
<1>15. ASSUME UninstallOta PROVE OtaInv'
  BY <1>15 DEF UninstallOta,
     ScriptOK, UpdateSpares, CleanerSpares, CleanerAlone, UpdateInv,
     SelectedIsWhole, RunningIsSpared, OtaTypeOK
<1>16. ASSUME UnmapBoth PROVE OtaInv'
  BY <1>16 DEF UnmapBoth, InUse,
     ScriptOK, UpdateSpares, CleanerSpares, CleanerAlone, UpdateInv,
     SelectedIsWhole, RunningIsSpared, OtaTypeOK
<1>17. ASSUME DeleteOtherStep PROVE OtaInv'
  <2> DEFINE s == Head(cleaner)[2]
  <2>1. /\ cleaner # << >> /\ cleaner' = Tail(cleaner)
        /\ UNCHANGED << img, running, sh, moved, crossed >>
        /\ image' = image \/ image' = [image EXCEPT ![s] = "none"]
        /\ mapped' = mapped \/ (mapped' = mapped \ {s} /\ ~InUse(s))
    BY <1>17 DEF DeleteOtherStep, UnmapImageDevice, DeleteBackingImage
  <2>2. /\ cleaner \in Seq({"unmap", "delete"} \X Slots) /\ Len(cleaner) \in Nat
        /\ Len(cleaner) > 0 /\ Head(cleaner) = cleaner[1]
    BY <2>1 DEF ScriptOK
  <2>3. s \in Slots /\ s # running
    BY <2>2 DEF CleanerSpares
  <2>4. /\ cleaner' \in Seq({"unmap", "delete"} \X Slots)
        /\ \A i \in 1 .. Len(cleaner') : cleaner'[i] = cleaner[i + 1]
        /\ Len(cleaner') = Len(cleaner) - 1
    BY <2>1, <2>2
  <2>5. CleanerSpares'
    BY <2>1, <2>2, <2>4 DEF CleanerSpares
  <2> HIDE DEF s
  <2>6. ScriptOK' /\ UpdateSpares'
    BY <2>1, <2>4 DEF ScriptOK, UpdateSpares
  <2>7. OtaTypeOK'
    BY <2>1, <2>3 DEF SelectedIsWhole, OtaTypeOK
  <2>8. RunningIsSpared'
    BY <2>1, <2>3 DEF RunningIsSpared, SelectedIsWhole, OtaTypeOK
  <2>9. CASE crossed
    BY <2>1, <2>5, <2>6, <2>7, <2>8, <2>9 DEF SelectedIsWhole, UpdateInv, CleanerAlone
  <2>10. CASE ~crossed
    <3>1. sh.pc = "idle" /\ (img \in Slots => img = running)
      BY <2>1, <2>10 DEF CleanerAlone
    <3>2. SelectedIsWhole'
      BY <2>1, <2>3, <2>7, <3>1 DEF SelectedIsWhole, OtaTypeOK
    <3> QED BY <2>1, <2>5, <2>6, <2>8, <3>1, <3>2 DEF UpdateInv, CleanerAlone
  <2> QED BY <2>9, <2>10
<1>18. ASSUME Reboot PROVE OtaInv'
  BY <1>18, DeleteOtherSpares DEF Reboot, Idle,
     ScriptOK, UpdateSpares, CleanerSpares, CleanerAlone, UpdateInv,
     SelectedIsWhole, RunningIsSpared, OtaTypeOK
<1>19. CASE UNCHANGED vars
  BY <1>19 DEF vars,
     ScriptOK, UpdateSpares, CleanerSpares, CleanerAlone, UpdateInv,
     SelectedIsWhole, RunningIsSpared, OtaTypeOK
<1> QED BY <1>1, <1>2, <1>3, <1>4, <1>5, <1>6, <1>7, <1>8, <1>9, <1>10, <1>11, <1>12, <1>13, <1>14, <1>15, <1>16, <1>17, <1>18, <1>19 DEF Next
\* The invariant of the OTA helper: what the script knows at each step, what the
\* clean-up keeps away from, and the two properties.
THEOREM OtaInvariant == Spec => []OtaInv
BY OtaInitial, OtaStep, PTL DEF Spec

\* Whenever the power fails, the slot phh-ota has selected holds a whole image, as
\* long as no update ran beside delete-other-slot.
THEOREM SelectedAlwaysWhole == Spec => []SelectedIsWhole
BY OtaInvariant, PTL DEF OtaInv

\* new-slot, switch-slot and delete-other-slot leave the image the system runs from
\* alone until the selection is moved away from it.
THEOREM RunningAlwaysSpared == Spec => []RunningIsSpared
BY OtaInvariant, PTL DEF OtaInv
=============================================================================
