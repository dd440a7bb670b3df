--------------------------- MODULE FirmwareUpdate ---------------------------
(***************************************************************************)
(* Replacing the firmware: from a file on the card                         *)
(* (SdFirmwareUpdateActivity, FirmwareFlasher) or from the latest release  *)
(* (OtaUpdateActivity, OtaUpdater).  Either copies an image into the app   *)
(* slot that is not running and then points otadata at it (OtaBootSwitch); *)
(* the power may fail between any two flash operations.                    *)
(*                                                                         *)
(* otadata has two sectors.  The one with the highest valid sequence       *)
(* number selects a slot; a switch writes the other one.  The bootloader   *)
(* starts the selected slot if its image verifies, else the other slot,    *)
(* and may take back a new image that does not come up.                    *)
(***************************************************************************)
EXTENDS Integers

CONSTANTS
  Images, NoImage, \* firmware images, and the lack of one
  Whole,        \* those whose segments, checksum and hash are right
  Ours,         \* those for this chip, and untagged or tagged with this board
  Version, Rc,  \* [Images -> number], and the release candidates among them
  Blocks,       \* bound: pieces an image is copied in
  MaxJobs,      \* bound: updates begun
  MaxFaults     \* bound: power cuts, failed reads, writes and erases, dropped connections

ASSUME ImagesAreTyped ==
  NoImage \notin Images /\ Whole \subseteq Images /\ Ours \subseteq Images /\ Rc \subseteq Images /\ Version \in [Images -> Nat]
ASSUME BlocksIsPositive == Blocks \in Nat \ {0}

Slots == {0, 1}       \* ota_0 and ota_1, and the two sectors of otadata
Nobody == -1          \* activeIdx of an otadata without a valid sector

VARIABLES
  slots,        \* what is in ota_0 and ota_1
  otadata,      \* SelectEntry of each sector; seq 0 is erased or fails its CRC
  running,      \* the slot that was booted
  phase,        \* where the device or its update screen is
  job,          \* the update in hand
  card,         \* the file on the card the picker offers
  recovery,     \* recoveryMode: started with the recovery button held
  jobs, faults

flash == <<slots, otadata>>
vars == <<flash, running, phase, job, card, recovery, jobs, faults>>

States == {"ok", "new", "pending", "aborted"}
Erased == [seq |-> 0, state |-> "ok"]
Content(img, n) == [img |-> img, blocks |-> n]
NoJob == [path |-> "none", img |-> NoImage]

(* A slot's image verifies when all of it is there. *)
Intact(c) == c.img \in Whole /\ c.blocks = Blocks
Sound(c) == Intact(c) /\ c.img \in Ours

\* ------------------------------------------------------------ boot selection
SlotOf(seq) == (seq - 1) % 2
Counts(entry) == entry.seq > 0 /\ entry.state # "aborted"
activeIdx(data) ==
  IF Counts(data[0]) /\ (Counts(data[1]) => data[1].seq <= data[0].seq) THEN 0
  ELSE IF Counts(data[1]) THEN 1 ELSE Nobody
activeSeq(data) == IF activeIdx(data) = Nobody THEN 0 ELSE data[activeIdx(data)].seq
Selected(data) == IF activeIdx(data) = Nobody THEN 0 ELSE SlotOf(activeSeq(data))
BootTarget(data, content) ==
  IF Intact(content[Selected(data)]) THEN Selected(data) ELSE 1 - Selected(data)

dest == 1 - running   \* esp_ota_get_next_update_partition

\* --------------------------------------------------------- the bootloader
(* A sector still "pending" names an image that did not come up. *)
TakenBack(data) ==
  IF activeIdx(data) # Nobody /\ data[activeIdx(data)].state = "pending"
  THEN [data EXCEPT ![activeIdx(data)].state = "aborted"] ELSE data
OnTrial(data) ==
  IF activeIdx(data) # Nobody /\ data[activeIdx(data)].state = "new"
  THEN [data EXCEPT ![activeIdx(data)].state = "pending"] ELSE data

(* Bootloaders without the rollback option leave otadata alone. *)
Boot ==
  /\ phase = "off"
  /\ otadata' \in {otadata, OnTrial(TakenBack(otadata))}
  /\ running' = BootTarget(otadata', slots)
  /\ phase' = "starting" /\ recovery' \in BOOLEAN /\ job' = NoJob
  /\ UNCHANGED <<slots, card, jobs, faults>>

(* The framework marks the image valid before setup() reads the button. *)
Started ==
  /\ phase = "starting" /\ phase' = "idle"
  /\ otadata' = [i \in Slots |-> IF otadata[i].state = "pending" THEN [otadata[i] EXCEPT !.state = "ok"] ELSE otadata[i]]
  /\ UNCHANGED <<slots, running, job, card, recovery, jobs, faults>>

PowerCut ==
  /\ phase # "off" /\ faults < MaxFaults /\ faults' = faults + 1
  /\ phase' = "off" /\ job' = NoJob
  /\ UNCHANGED <<flash, running, card, recovery, jobs>>

\* ------------------------------------------------------- from the card
wholeIsEnough(img) == img \in Whole
validateImageFile(img) == img \in Whole /\ img \in Ours

(* The card may be changed for another until the copy begins. *)
ChangeCard(img) ==
  /\ phase \in {"idle", "confirming", "failed"}
  /\ card # img /\ card' = img
  /\ UNCHANGED <<flash, running, phase, job, recovery, jobs, faults>>

Pick ==
  /\ phase = "idle" /\ jobs < MaxJobs /\ jobs' = jobs + 1
  /\ phase' = IF validateImageFile(card) THEN "confirming" ELSE "failed"
  /\ UNCHANGED <<flash, running, job, card, recovery, faults>>

Cancel ==
  /\ phase \in {"confirming", "waiting"} /\ phase' = "idle" /\ job' = NoJob
  /\ UNCHANGED <<flash, running, card, recovery, jobs, faults>>

(* performUpdate validates the file again: the first scan was before the prompt. *)
PerformUpdate ==
  /\ phase = "confirming"
  /\ \/ /\ validateImageFile(card)
        /\ phase' = "copying" /\ job' = [path |-> "sd", img |-> card]
        /\ slots' = [slots EXCEPT ![dest] = Content(card, 0)]
     \/ /\ ~validateImageFile(card)
        /\ phase' = "failed" /\ UNCHANGED <<slots, job>>
  /\ UNCHANGED <<otadata, running, card, recovery, jobs, faults>>

\* --------------------------------------------------- from the latest release
isNewerVersion(latest, current) ==
  latest # current /\ (Version[latest] > Version[current] \/ (Version[latest] = Version[current] /\ current \in Rc))

(* checkForUpdate found a release whose tag is newer. The recovery screen has no such path. *)
CheckForUpdate(img) ==
  /\ phase = "idle" /\ ~recovery /\ jobs < MaxJobs /\ jobs' = jobs + 1
  /\ isNewerVersion(img, slots[running].img)
  /\ phase' = "waiting" /\ job' = [path |-> "ota", img |-> img]
  /\ UNCHANGED <<flash, running, card, recovery, faults>>

(* esp_ota_begin erases the slot. *)
InstallUpdate ==
  /\ phase = "waiting" /\ phase' = "copying"
  /\ slots' = [slots EXCEPT ![dest] = Content(job.img, 0)]
  /\ UNCHANGED <<otadata, running, job, card, recovery, jobs, faults>>

\* --------------------------------------------------------------- the copy
Copied == slots[dest].blocks
LastBlock == Copied + 1 = Blocks

(* The stream of a foreign image is refused with the piece that holds its chip or its tag. *)
Refused == job.path = "ota" /\ job.img \notin Ours

CopyBlock ==
  /\ phase = "copying" /\ Copied < Blocks
  /\ ~(Refused /\ LastBlock)
  /\ slots' = [slots EXCEPT ![dest].blocks = @ + 1]
  /\ UNCHANGED <<otadata, running, phase, job, card, recovery, jobs, faults>>

WrongDevice ==
  /\ phase = "copying" /\ Copied < Blocks /\ Refused
  /\ phase' = "failed"
  /\ UNCHANGED <<flash, running, job, card, recovery, jobs, faults>>

(* The card is read to its end; esp_ota_end verifies what was streamed. *)
CopyEnds ==
  /\ phase = "copying" /\ Copied = Blocks
  /\ phase' = IF job.path = "sd" \/ Intact(slots[dest]) THEN "switching" ELSE "failed"
  /\ UNCHANGED <<flash, running, job, card, recovery, jobs, faults>>

\* ------------------------------------------------------------- the switch
(* Over the network the library keeps the number when otadata names the slot already: the same slot. *)
nextSeq(data, slot) == activeSeq(data) + 1
newSeq(data, slot) == IF SlotOf(activeSeq(data) + 1) = slot THEN activeSeq(data) + 1 ELSE activeSeq(data) + 2
ownSlot(data) == IF activeIdx(data) = 1 THEN 1 ELSE 0
targetSlot(data) == IF activeIdx(data) = 0 THEN 1 ELSE 0

(* switchTo, and the same steps of esp_ota_set_boot_partition. *)
EraseEntry ==
  /\ phase = "switching" /\ phase' = "writing"
  /\ otadata' = [otadata EXCEPT ![targetSlot(otadata)] = Erased]
  /\ UNCHANGED <<slots, running, job, card, recovery, jobs, faults>>

WriteEntry ==
  /\ phase = "writing" /\ phase' = "done"
  /\ otadata' = [otadata EXCEPT ![targetSlot(otadata)] = [seq |-> newSeq(otadata, dest), state |-> "new"]]
  /\ UNCHANGED <<slots, running, job, card, recovery, jobs, faults>>

(* A read, erase or write fails, or the connection drops: the screen says so. *)
OperationFails ==
  /\ phase \in {"copying", "switching", "writing"}
  /\ faults < MaxFaults /\ faults' = faults + 1
  /\ phase' = "failed"
  /\ UNCHANGED <<flash, running, job, card, recovery, jobs>>

(* Back to the picker, or out of the screen. *)
Dismiss ==
  /\ phase = "failed" /\ phase' = "idle" /\ job' = NoJob
  /\ UNCHANGED <<flash, running, card, recovery, jobs, faults>>

StaysOn ==
  /\ phase = "done" /\ phase' = "idle"
  /\ UNCHANGED <<flash, running, job, card, recovery, jobs, faults>>

Restart ==
  /\ phase = "done" /\ phase' = "off"
  /\ UNCHANGED <<flash, running, job, card, recovery, jobs, faults>>

\* ------------------------------------------------------------ specification
(* A device that runs: its slot is sound, the other may hold anything but a   *)
(* whole image for another board, and otadata says what earlier updates,     *)
(* this program's or the web flasher's, left in it.                          *)
Init ==
  /\ slots \in [Slots -> [img : Images \cup {NoImage}, blocks : {0, Blocks}]]
  /\ \A i \in Slots : Intact(slots[i]) => Sound(slots[i])
  /\ otadata \in [Slots -> [seq : 0..3, state : {"ok"}]]
  /\ running = BootTarget(otadata, slots) /\ Sound(slots[running])
  /\ phase = "idle" /\ job = NoJob /\ card \in Images /\ recovery \in BOOLEAN
  /\ jobs = 0 /\ faults = 0

Next ==
  \/ Boot \/ Started \/ PowerCut
  \/ \E img \in Images : ChangeCard(img) \/ CheckForUpdate(img)
  \/ Pick \/ Cancel \/ PerformUpdate \/ InstallUpdate
  \/ CopyBlock \/ WrongDevice \/ CopyEnds
  \/ EraseEntry \/ WriteEntry \/ OperationFails \/ Dismiss \/ Restart

(* The restart is the program's own, and the device then starts by itself. *)
Fairness == WF_vars(Restart) /\ WF_vars(Boot) /\ WF_vars(Started)

Spec == Init /\ [][Next]_vars /\ Fairness

\* -------------------------------------------------------------- properties
(* Every variable stays in its type, and a copy has an image to copy. *)
TypeOK ==
  /\ slots \in [Slots -> [img : Images \cup {NoImage}, blocks : 0..Blocks]]
  /\ otadata \in [Slots -> [seq : Nat, state : States]]
  /\ running \in Slots /\ card \in Images /\ recovery \in BOOLEAN
  /\ phase \in {"off", "starting", "idle", "confirming", "waiting", "copying", "switching", "writing", "done", "failed"}
  /\ job \in [path : {"none", "sd", "ota"}, img : Images \cup {NoImage}]
  /\ jobs \in Nat /\ faults \in Nat
  /\ phase \in {"waiting", "copying", "switching", "writing", "done"} => job.img \in Images

(* Whenever the power fails, the image that the bootloader starts next is     *)
(* whole and meant for this board: no step of a copy, a refusal, a failure   *)
(* or a switch leaves the device to a torn or foreign image.                 *)
NextBootIsSound == Sound(slots[BootTarget(otadata, slots)])

(* otadata keeps selecting the slot it selects until the last write of an     *)
(* update, and then selects a slot that by then holds the whole image;       *)
(* only the bootloader takes a selection back.                               *)
SelectionIsAtomic ==
  [][Selected(otadata') # Selected(otadata) =>
       \/ phase = "writing" /\ phase' = "done" /\ Selected(otadata') = dest /\ Sound(slots[dest])
       \/ phase = "off"]_vars

(* An update that is reported complete is what otadata selects, whatever its  *)
(* sectors held before: the number written is the higher one and names the   *)
(* slot of the image.                                                        *)
UpdateTakesEffect ==
  phase = "done" => BootTarget(otadata, slots) = dest /\ Sound(slots[dest]) /\ slots[dest].img = job.img

(* ... and the device does come to run it, even if the power fails first. *)
UpdateBoots ==
  \A img \in Images : (phase = "done" /\ job.img = img) ~> (phase = "starting" /\ slots[running].img = img)
=============================================================================
