------------------------ MODULE FirmwareUpdateProofs ------------------------
(***************************************************************************)
(* Proofs about FirmwareUpdate, for every set of images, any number of     *)
(* blocks and any contents otadata may start with.                         *)
(***************************************************************************)
EXTENDS FirmwareUpdate, TLAPS

UpdatePhases == {"copying", "switching", "writing", "done"}

(* What holds the update together: the booted slot is never written, no slot *)
(* holds a whole foreign image, and the copy in hand is of a vetted image.   *)
SlotsAreOurs == \A i \in Slots : Intact(slots[i]) => slots[i].img \in Ours
RunningIsSound == Sound(slots[running])
CopyIsVetted ==
  /\ phase \in UpdatePhases => slots[dest].img = job.img /\ job.path \in {"sd", "ota"}
  /\ phase = "waiting" => job.path = "ota"
  /\ job.path = "sd" => job.img \in Whole /\ job.img \in Ours
CopyIsWhole == phase \in {"switching", "writing", "done"} => Sound(slots[dest])
DoneIsSelected == phase = "done" => Selected(otadata) = dest

IInv == TypeOK /\ SlotsAreOurs /\ RunningIsSound /\ CopyIsVetted /\ CopyIsWhole /\ DoneIsSelected

\* ---------------------------------------------------------------- otadata
OtadataType == [Slots -> [seq : Nat, state : States]]

(* The running slot and the one an update goes to are the two slots. *)
LEMMA TwoSlots == ASSUME NEW r \in Slots PROVE 1 - r \in Slots /\ 1 - r # r /\ \A i \in Slots : i = r \/ i = 1 - r
  BY DEF Slots

(* The active sector is one whose entry counts, and there is none only if no entry counts. *)
LEMMA ActiveSector ==
  ASSUME NEW data \in OtadataType
  PROVE  /\ activeIdx(data) \in {0, 1, Nobody}
         /\ activeIdx(data) # Nobody => activeIdx(data) \in Slots /\ Counts(data[activeIdx(data)])
         /\ activeIdx(data) = Nobody => \A i \in Slots : ~Counts(data[i])
         /\ activeSeq(data) \in Nat
         /\ targetSlot(data) \in Slots /\ targetSlot(data) # activeIdx(data)
  BY DEF activeIdx, activeSeq, Counts, targetSlot, Nobody, Slots, OtadataType, States

(* A sequence number names one of the two slots, and so does every selection. *)
LEMMA SelectionIsASlot ==
  ASSUME NEW data \in OtadataType
  PROVE  Selected(data) \in Slots
<1>1. activeSeq(data) \in Nat
  BY ActiveSector
<1>2. SlotOf(activeSeq(data)) \in Slots
  BY <1>1 DEF SlotOf, Slots
<1> QED
  BY <1>2 DEF Selected, Slots

(* The number a switch writes is above the active one and names the slot meant. *)
LEMMA NewNumber ==
  ASSUME NEW data \in OtadataType, NEW slot \in Slots
  PROVE  /\ newSeq(data, slot) \in Nat
         /\ newSeq(data, slot) > activeSeq(data)
         /\ SlotOf(newSeq(data, slot)) = slot
<1>1. activeSeq(data) \in Nat
  BY ActiveSector
<1>2. ASSUME NEW n \in Nat
      PROVE  n % 2 \in {0, 1} /\ (n + 1) % 2 \in {0, 1} /\ n % 2 # (n + 1) % 2
  OBVIOUS
<1>3. SlotOf(activeSeq(data) + 1) \in {0, 1} /\ SlotOf(activeSeq(data) + 2) \in {0, 1}
      /\ SlotOf(activeSeq(data) + 1) # SlotOf(activeSeq(data) + 2)
  BY <1>1, <1>2 DEF SlotOf
<1> QED
  BY <1>1, <1>3 DEF newSeq, Slots

(* Erasing the sector that is not active changes neither selection nor number. *)
LEMMA EraseKeepsSelection ==
  ASSUME NEW data \in OtadataType
  PROVE  LET new == [data EXCEPT ![targetSlot(data)] = Erased]
         IN /\ new \in OtadataType
            /\ activeIdx(new) = activeIdx(data) /\ activeSeq(new) = activeSeq(data)
            /\ Selected(new) = Selected(data)
<1> DEFINE new == [data EXCEPT ![targetSlot(data)] = Erased]
<1>1. new \in OtadataType
  BY ActiveSector DEF OtadataType, Erased, States
<1>2. activeIdx(new) = activeIdx(data)
  BY <1>1 DEF activeIdx, targetSlot, Counts, Erased, Nobody, OtadataType, Slots, States
<1>3. activeSeq(new) = activeSeq(data)
  BY <1>1, <1>2, ActiveSector DEF activeSeq, OtadataType
<1> QED
  BY <1>1, <1>2, <1>3 DEF Selected

(* Writing it with the higher number selects the slot that the number names. *)
LEMMA WriteSelects ==
  ASSUME NEW data \in OtadataType, NEW slot \in Slots
  PROVE  LET new == [data EXCEPT ![targetSlot(data)] = [seq |-> newSeq(data, slot), state |-> "new"]]
         IN new \in OtadataType /\ Selected(new) = slot
<1> DEFINE entry == [seq |-> newSeq(data, slot), state |-> "new"]
           new == [data EXCEPT ![targetSlot(data)] = entry]
           t == targetSlot(data)
<1>1. /\ t \in Slots /\ newSeq(data, slot) \in Nat /\ newSeq(data, slot) > activeSeq(data)
      /\ activeSeq(data) \in Nat /\ SlotOf(newSeq(data, slot)) = slot
  BY ActiveSector, NewNumber
<1>2. new \in OtadataType /\ new[t] = entry /\ new[1 - t] = data[1 - t]
  BY <1>1 DEF OtadataType, States, Slots
<1>3. Counts(entry)
  BY <1>1 DEF Counts
<1>4. Counts(data[1 - t]) => data[1 - t].seq < newSeq(data, slot)
  <2>1. CASE t = 1
    <3>1. activeIdx(data) = 0
      BY <2>1 DEF targetSlot
    <3> QED
      BY <1>1, <2>1, <3>1 DEF activeSeq, Nobody
  <2>2. CASE t = 0
    <3>1. activeIdx(data) # 0 /\ (Counts(data[1]) => activeIdx(data) = 1)
      BY <2>2 DEF targetSlot, activeIdx
    <3> QED
      BY <1>1, <2>2, <3>1 DEF activeSeq, Nobody
  <2> QED
    BY <1>1, <2>1, <2>2 DEF Slots
<1>5. activeIdx(new) = t
  <2>1. CASE t = 0
    BY <1>1, <1>2, <1>3, <1>4, <2>1 DEF activeIdx, OtadataType, Slots
  <2>2. CASE t = 1
    BY <1>1, <1>2, <1>3, <1>4, <2>2 DEF activeIdx, OtadataType, Slots
  <2> QED
    BY <1>1, <2>1, <2>2 DEF Slots
<1>6. activeSeq(new) = newSeq(data, slot) /\ t # Nobody
  BY <1>1, <1>2, <1>5 DEF activeSeq, Nobody, Slots
<1> QED
  BY <1>1, <1>2, <1>5, <1>6 DEF Selected

\* ---------------------------------------------------------- the invariant
(* A device that has a sound slot always boots a sound one. *)
LEMMA BootIsSound ==
  ASSUME NEW data \in OtadataType, NEW content, NEW i \in Slots,
         Intact(content[i]), \A k \in Slots : Intact(content[k]) => content[k].img \in Ours
  PROVE  BootTarget(data, content) \in Slots /\ Sound(content[BootTarget(data, content)])
<1>1. Selected(data) \in Slots
  BY SelectionIsASlot
<1>2. i = Selected(data) \/ i = 1 - Selected(data)
  BY <1>1, TwoSlots
<1>3. 1 - Selected(data) \in Slots
  BY <1>1, TwoSlots
<1> QED
  BY <1>1, <1>2, <1>3 DEF BootTarget, Sound

(* What otadata holds at the start is typed. *)
LEMMA InitIInv == Init => IInv
<1> SUFFICES ASSUME Init PROVE IInv
  OBVIOUS
<1>1. otadata \in OtadataType
  BY DEF Init, OtadataType, States
<1>2. running \in Slots
  BY <1>1, SelectionIsASlot, TwoSlots DEF Init, BootTarget
<1>3. TypeOK
  BY <1>1, <1>2, BlocksIsPositive DEF Init, TypeOK, OtadataType, NoJob
<1>4. SlotsAreOurs /\ RunningIsSound
  BY DEF Init, SlotsAreOurs, RunningIsSound, Sound
<1>5. CopyIsVetted /\ CopyIsWhole /\ DoneIsSelected
  BY DEF Init, CopyIsVetted, CopyIsWhole, DoneIsSelected, NoJob, UpdatePhases
<1> QED
  BY <1>3, <1>4, <1>5 DEF IInv

(* A step that leaves the slots, otadata and the booted slot alone, and does  *)
(* not enter the switch, keeps the invariant if it keeps the job in order.   *)
LEMMA QuietStep ==
  ASSUME IInv, TypeOK', CopyIsVetted', UNCHANGED <<slots, otadata, running>>,
         phase' \in {"switching", "writing", "done"} => phase' = phase
  PROVE  IInv'
<1>1. SlotsAreOurs' /\ RunningIsSound'
  BY DEF IInv, SlotsAreOurs, RunningIsSound, Sound, Intact
<1>2. CopyIsWhole' /\ DoneIsSelected'
  BY DEF IInv, CopyIsWhole, DoneIsSelected, dest, Sound, Intact, Selected, activeIdx, activeSeq
<1> QED
  BY <1>1, <1>2 DEF IInv

(* Starting the copy gives up what the other slot held. *)
LEMMA BeginCopy ==
  ASSUME IInv, TypeOK', CopyIsVetted', NEW img \in Images,
         slots' = [slots EXCEPT ![dest] = Content(img, 0)],
         UNCHANGED <<otadata, running>>, phase' \notin {"switching", "writing", "done"}
  PROVE  IInv'
<1>1. running \in Slots /\ dest \in Slots /\ dest # running
  BY TwoSlots DEF IInv, TypeOK, dest
<1>2. slots'[running] = slots[running] /\ slots'[dest] = Content(img, 0)
  BY <1>1 DEF IInv, TypeOK
<1>3. ~Intact(Content(img, 0))
  BY BlocksIsPositive DEF Intact, Content
<1>4. SlotsAreOurs' /\ RunningIsSound'
  BY <1>1, <1>2, <1>3, TwoSlots DEF IInv, SlotsAreOurs, RunningIsSound, Intact, Sound, dest
<1>5. CopyIsWhole' /\ DoneIsSelected'
  BY DEF CopyIsWhole, DoneIsSelected
<1> QED
  BY <1>4, <1>5 DEF IInv

(* A piece of the copy: the last one is never a foreign image's. *)
LEMMA CopyStep == IInv /\ CopyBlock => IInv'
<1> SUFFICES ASSUME IInv, CopyBlock PROVE IInv'
  OBVIOUS
<1>1. running \in Slots /\ dest \in Slots /\ dest # running /\ dest' = dest
  BY TwoSlots DEF IInv, TypeOK, dest, CopyBlock
<1>2. /\ slots'[running] = slots[running]
      /\ slots'[dest].img = job.img /\ slots'[dest].blocks = slots[dest].blocks + 1
      /\ slots' \in [Slots -> [img : Images \cup {NoImage}, blocks : 0..Blocks]]
  BY <1>1, BlocksIsPositive DEF IInv, TypeOK, CopyBlock, Copied, CopyIsVetted, UpdatePhases
<1>3. TypeOK'
  BY <1>2 DEF IInv, TypeOK, CopyBlock
<1>4. Intact(slots'[dest]) => job.img \in Ours
  BY <1>2, BlocksIsPositive, <1>1 DEF Intact, CopyBlock, Refused, LastBlock, Copied, IInv, CopyIsVetted, UpdatePhases, TypeOK
<1>5. SlotsAreOurs' /\ RunningIsSound'
  BY <1>1, <1>2, <1>4, TwoSlots DEF IInv, SlotsAreOurs, RunningIsSound, CopyBlock, Sound, Intact, dest
<1>6. CopyIsVetted'
  BY <1>1, <1>2 DEF IInv, CopyIsVetted, CopyBlock, UpdatePhases
<1>7. CopyIsWhole' /\ DoneIsSelected'
  BY DEF CopyIsWhole, DoneIsSelected, CopyBlock
<1> QED
  BY <1>3, <1>5, <1>6, <1>7 DEF IInv

(* The copy is whole when it ends: vetted on the card, or verified by esp_ota_end. *)
LEMMA CopyEndsStep == IInv /\ CopyEnds => IInv'
<1> SUFFICES ASSUME IInv, CopyEnds PROVE IInv'
  OBVIOUS
<1>1. running \in Slots /\ dest \in Slots /\ dest' = dest /\ slots' = slots /\ running' = running /\ otadata' = otadata
  BY TwoSlots DEF IInv, TypeOK, dest, CopyEnds, flash
<1>2. TypeOK' /\ CopyIsVetted'
  BY <1>1 DEF IInv, TypeOK, CopyIsVetted, CopyEnds, UpdatePhases, flash
<1>3. phase' = "switching" => Sound(slots[dest])
  BY <1>1 DEF CopyEnds, Copied, IInv, CopyIsVetted, SlotsAreOurs, Sound, Intact, UpdatePhases
<1>4. CopyIsWhole' /\ DoneIsSelected'
  BY <1>1, <1>3 DEF CopyIsWhole, DoneIsSelected, CopyEnds, Sound, Intact
<1>5. SlotsAreOurs' /\ RunningIsSound'
  BY <1>1 DEF IInv, SlotsAreOurs, RunningIsSound, Sound, Intact
<1> QED
  BY <1>2, <1>4, <1>5 DEF IInv

(* Both writes to otadata go to the sector that is not active. *)
LEMMA SwitchStep == IInv /\ (EraseEntry \/ WriteEntry) => IInv'
<1> SUFFICES ASSUME IInv, EraseEntry \/ WriteEntry PROVE IInv'
  OBVIOUS
<1>1. /\ otadata \in OtadataType /\ dest \in Slots /\ dest' = dest
      /\ slots' = slots /\ running' = running /\ job' = job
  BY TwoSlots DEF IInv, TypeOK, OtadataType, dest, EraseEntry, WriteEntry
<1>2. otadata' \in OtadataType /\ (phase' = "done" => Selected(otadata') = dest)
  BY <1>1, EraseKeepsSelection, WriteSelects DEF EraseEntry, WriteEntry
<1>3. phase \in {"switching", "writing"} /\ phase' \in {"writing", "done"}
  BY DEF EraseEntry, WriteEntry
<1>4. TypeOK'
  BY <1>1, <1>2, <1>3 DEF IInv, TypeOK, OtadataType, EraseEntry, WriteEntry
<1>5. SlotsAreOurs' /\ RunningIsSound' /\ CopyIsVetted' /\ CopyIsWhole'
  BY <1>1, <1>3 DEF IInv, SlotsAreOurs, RunningIsSound, CopyIsVetted, CopyIsWhole, Sound, Intact, UpdatePhases
<1>6. DoneIsSelected'
  BY <1>1, <1>2 DEF DoneIsSelected
<1> QED
  BY <1>4, <1>5, <1>6 DEF IInv

(* The bootloader starts a sound slot, whatever it makes of otadata. *)
LEMMA BootStep == IInv /\ Boot => IInv'
<1> SUFFICES ASSUME IInv, Boot PROVE IInv'
  OBVIOUS
<1>1. otadata \in OtadataType /\ running \in Slots
  BY DEF IInv, TypeOK, OtadataType
<1>2. ASSUME NEW data \in OtadataType
      PROVE  TakenBack(data) \in OtadataType /\ OnTrial(data) \in OtadataType
  BY <1>2, ActiveSector DEF TakenBack, OnTrial, OtadataType, States
<1>3. otadata' \in OtadataType
  BY <1>1, <1>2 DEF Boot
<1>4. running' \in Slots /\ Sound(slots[running'])
  BY <1>1, <1>3, BootIsSound DEF Boot, IInv, RunningIsSound, SlotsAreOurs, Sound
<1>5. TypeOK'
  BY <1>3, <1>4 DEF IInv, TypeOK, OtadataType, Boot, NoJob
<1>6. SlotsAreOurs' /\ RunningIsSound'
  BY <1>4 DEF IInv, SlotsAreOurs, RunningIsSound, Boot, Sound, Intact
<1>7. CopyIsVetted' /\ CopyIsWhole' /\ DoneIsSelected'
  BY DEF CopyIsVetted, CopyIsWhole, DoneIsSelected, Boot, NoJob, UpdatePhases
<1> QED
  BY <1>5, <1>6, <1>7 DEF IInv

(* Marking the image valid touches only the state words. *)
LEMMA StartedStep == IInv /\ Started => IInv'
<1> SUFFICES ASSUME IInv, Started PROVE IInv'
  OBVIOUS
<1>1. otadata' \in OtadataType
  BY DEF IInv, TypeOK, OtadataType, Started, States
<1>2. TypeOK'
  BY <1>1 DEF IInv, TypeOK, OtadataType, Started
<1>3. SlotsAreOurs' /\ RunningIsSound'
  BY DEF IInv, SlotsAreOurs, RunningIsSound, Started, Sound, Intact
<1>4. CopyIsVetted' /\ CopyIsWhole' /\ DoneIsSelected'
  BY DEF IInv, CopyIsVetted, CopyIsWhole, DoneIsSelected, Started, UpdatePhases
<1> QED
  BY <1>2, <1>3, <1>4 DEF IInv

(* The invariant is inductive: one case per action. *)
LEMMA StepIInv == IInv /\ [Next]_vars => IInv'
<1> SUFFICES ASSUME IInv, [Next]_vars PROVE IInv'
  OBVIOUS
<1> USE DEF flash
<1>1. CASE Boot
  BY <1>1, BootStep
<1>2. CASE Started
  BY <1>2, StartedStep
<1>3. CASE PowerCut
  <2>1. TypeOK' /\ CopyIsVetted'
    BY <1>3 DEF PowerCut, IInv, TypeOK, CopyIsVetted, NoJob, UpdatePhases
  <2> QED
    BY <1>3, <2>1, QuietStep DEF PowerCut
<1>4. ASSUME NEW img \in Images, ChangeCard(img) PROVE IInv'
  <2>1. TypeOK' /\ CopyIsVetted'
    BY <1>4 DEF ChangeCard, IInv, TypeOK, CopyIsVetted, UpdatePhases, dest
  <2> QED
    BY <1>4, <2>1, QuietStep DEF ChangeCard
<1>5. ASSUME NEW img \in Images, CheckForUpdate(img) PROVE IInv'
  <2>1. TypeOK' /\ CopyIsVetted'
    BY <1>5 DEF CheckForUpdate, IInv, TypeOK, CopyIsVetted, UpdatePhases
  <2> QED
    BY <1>5, <2>1, QuietStep DEF CheckForUpdate
<1>6. CASE Pick
  <2>1. TypeOK' /\ CopyIsVetted'
    BY <1>6 DEF Pick, IInv, TypeOK, CopyIsVetted, UpdatePhases
  <2> QED
    BY <1>6, <2>1, QuietStep DEF Pick
<1>7. CASE Cancel
  <2>1. TypeOK' /\ CopyIsVetted'
    BY <1>7 DEF Cancel, IInv, TypeOK, CopyIsVetted, NoJob, UpdatePhases
  <2> QED
    BY <1>7, <2>1, QuietStep DEF Cancel
<1>8. CASE PerformUpdate
  <2>1. CASE validateImageFile(card)
    <3>1. running \in Slots /\ dest \in Slots /\ dest' = dest /\ card \in Images
      BY <1>8, TwoSlots DEF PerformUpdate, IInv, TypeOK, dest
    <3>2. phase' = "copying" /\ job' = [path |-> "sd", img |-> card] /\ slots' = [slots EXCEPT ![dest] = Content(card, 0)]
      BY <1>8, <2>1 DEF PerformUpdate
    <3>3. TypeOK'
      BY <1>8, <3>1, <3>2, BlocksIsPositive DEF PerformUpdate, IInv, TypeOK, Content
    <3>4. CopyIsVetted'
      BY <2>1, <3>1, <3>2 DEF CopyIsVetted, validateImageFile, Content, IInv, TypeOK, UpdatePhases
    <3> QED
      BY <1>8, <3>1, <3>2, <3>3, <3>4, BeginCopy DEF PerformUpdate
  <2>2. CASE ~validateImageFile(card)
    <3>1. TypeOK' /\ CopyIsVetted'
      BY <1>8, <2>2 DEF PerformUpdate, IInv, TypeOK, CopyIsVetted, UpdatePhases
    <3> QED
      BY <1>8, <2>2, <3>1, QuietStep DEF PerformUpdate
  <2> QED
    BY <2>1, <2>2
<1>9. CASE InstallUpdate
  <2>1. running \in Slots /\ dest \in Slots /\ dest' = dest /\ job.img \in Images
    BY <1>9, TwoSlots DEF InstallUpdate, IInv, TypeOK, dest
  <2>2. TypeOK'
    BY <1>9, <2>1, BlocksIsPositive DEF InstallUpdate, IInv, TypeOK, Content
  <2>3. CopyIsVetted'
    BY <1>9, <2>1 DEF InstallUpdate, CopyIsVetted, Content, IInv, TypeOK, UpdatePhases
  <2> QED
    BY <1>9, <2>1, <2>2, <2>3, BeginCopy DEF InstallUpdate
<1>10. CASE CopyBlock
  BY <1>10, CopyStep
<1>11. CASE WrongDevice
  <2>1. TypeOK' /\ CopyIsVetted'
    BY <1>11 DEF WrongDevice, IInv, TypeOK, CopyIsVetted, UpdatePhases
  <2> QED
    BY <1>11, <2>1, QuietStep DEF WrongDevice
<1>12. CASE CopyEnds
  BY <1>12, CopyEndsStep
<1>13. CASE EraseEntry \/ WriteEntry
  BY <1>13, SwitchStep
<1>14. CASE OperationFails
  <2>1. TypeOK' /\ CopyIsVetted'
    BY <1>14 DEF OperationFails, IInv, TypeOK, CopyIsVetted, UpdatePhases
  <2> QED
    BY <1>14, <2>1, QuietStep DEF OperationFails
<1>15. CASE Dismiss
  <2>1. TypeOK' /\ CopyIsVetted'
    BY <1>15 DEF Dismiss, IInv, TypeOK, CopyIsVetted, NoJob, UpdatePhases
  <2> QED
    BY <1>15, <2>1, QuietStep DEF Dismiss
<1>16. CASE Restart
  <2>1. TypeOK' /\ CopyIsVetted'
    BY <1>16 DEF Restart, IInv, TypeOK, CopyIsVetted, UpdatePhases
  <2> QED
    BY <1>16, <2>1, QuietStep DEF Restart
<1>17. CASE UNCHANGED vars
  <2>1. TypeOK' /\ CopyIsVetted'
    BY <1>17 DEF vars, IInv, TypeOK, CopyIsVetted, UpdatePhases, dest
  <2> QED
    BY <1>17, <2>1, QuietStep DEF vars
<1> QED
  BY <1>1, <1>2, <1>3, <1>4, <1>5, <1>6, <1>7, <1>8, <1>9, <1>10, <1>11, <1>12, <1>13, <1>14, <1>15, <1>16, <1>17 DEF Next

(* The invariant holds of every behaviour. *)
LEMMA AlwaysIInv == Spec => []IInv
  BY InitIInv, StepIInv, PTL DEF Spec

\* ---------------------------------------------------------------- theorems
(* Every variable of FirmwareUpdate keeps its type. *)
THEOREM TypeCorrect == Spec => []TypeOK
<1>1. IInv => TypeOK
  BY DEF IInv
<1> QED
  BY <1>1, AlwaysIInv, PTL

(* At every moment of every update, complete, refused, failed or cut off, the *)
(* bootloader has a whole image for this board to start, and starts it.      *)
THEOREM AlwaysBootable == Spec => []NextBootIsSound
<1>1. IInv => NextBootIsSound
  <2> SUFFICES ASSUME IInv PROVE NextBootIsSound
    OBVIOUS
  <2>1. otadata \in OtadataType /\ running \in Slots /\ Intact(slots[running])
    BY DEF IInv, TypeOK, OtadataType, RunningIsSound, Sound
  <2> QED
    BY <2>1, BootIsSound DEF IInv, SlotsAreOurs, NextBootIsSound
<1> QED
  BY <1>1, AlwaysIInv, PTL

(* A completed update is selected, whatever sequence numbers were there before. *)
THEOREM CompletedIsSelected == Spec => []UpdateTakesEffect
<1>1. IInv => UpdateTakesEffect
  BY DEF IInv, DoneIsSelected, CopyIsWhole, CopyIsVetted, UpdateTakesEffect, BootTarget, Sound, UpdatePhases
<1> QED
  BY <1>1, AlwaysIInv, PTL

(* No step but the last write of an update moves otadata's selection, and it  *)
(* moves it to a slot that holds a whole image.                              *)
THEOREM SelectionMovesOnce == Spec => SelectionIsAtomic
<1> DEFINE Atomic == Selected(otadata') # Selected(otadata) =>
       \/ phase = "writing" /\ phase' = "done" /\ Selected(otadata') = dest /\ Sound(slots[dest])
       \/ phase = "off"
<1>1. IInv /\ [Next]_vars => [Atomic]_vars
  <2> SUFFICES ASSUME IInv, Next PROVE Atomic
    BY DEF vars
  <2>1. otadata \in OtadataType /\ dest \in Slots
    BY TwoSlots DEF IInv, TypeOK, OtadataType, dest
  <2>2. CASE EraseEntry
    BY <2>1, <2>2, EraseKeepsSelection DEF EraseEntry
  <2>3. CASE WriteEntry
    BY <2>1, <2>3, WriteSelects DEF WriteEntry, IInv, CopyIsWhole
  <2>4. CASE Boot
    BY <2>4 DEF Boot
  <2>5. CASE Started
    <3>1. /\ \A i \in Slots : otadata'[i].seq = otadata[i].seq /\ (Counts(otadata'[i]) <=> Counts(otadata[i]))
      BY <2>1, <2>5 DEF Started, OtadataType, Counts, States
    <3>2. activeIdx(otadata') = activeIdx(otadata)
      BY <3>1 DEF activeIdx, Slots
    <3> QED
      BY <3>1, <3>2, <2>1, ActiveSector DEF Selected, activeSeq
  <2>6. CASE otadata' = otadata
    BY <2>6
  <2> QED
    BY <2>2, <2>3, <2>4, <2>5, <2>6 DEF Next, PowerCut, ChangeCard, CheckForUpdate, Pick, Cancel, PerformUpdate,
       InstallUpdate, CopyBlock, WrongDevice, CopyEnds, OperationFails, Dismiss, Restart, flash
<1> QED
  BY <1>1, AlwaysIInv, PTL DEF Spec, SelectionIsAtomic
=============================================================================
