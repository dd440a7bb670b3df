-------------------------- MODULE PersistableStore --------------------------
(***************************************************************************)
(* A PersistableStore<T> (settings, reader state, recent books, Wi-Fi      *)
(* credentials, places): a document in RAM, its JSON file and the `.tmp`   *)
(* file beside it.  lib/Serialization/PersistableStore.{h,cpp},            *)
(* TempAdoption.h, DocReadStatus.h, FormatVersion.h.                       *)
(*                                                                         *)
(* saveToFileAtomic writes the temp file, removes the old file and renames *)
(* the temp over it: three steps on the card, any of which may fail and    *)
(* between any of which the power may go.  loadFromFile reads the file and *)
(* adopts the temp file when the file is missing.  Several FreeRTOS tasks  *)
(* save; storeMutex serialises them.                                       *)
(*                                                                         *)
(* A document is abstracted to the edition of the data it carries and the  *)
(* format version ("v") it was written in.  A firmware build knows the     *)
(* formats up to its own number and writes its own.                        *)
(***************************************************************************)
EXTENDS Integers

CONSTANTS
    Task,            \* the FreeRTOS tasks that save the store
    Loop,            \* the Arduino loop task: the only one that loads
    NoTask,          \* storeMutex is free
    Build,           \* format versions: the firmware builds the device may run
    MaxEditions,     \* bound on the edits of the store's data
    Absent,          \* there is no such file
    Torn,            \* a file the JSON parser refuses: empty, cut or unsynced
    WriteMayFail,    \* the open, the writes or the close of the temp may fail
    DirOpMayFail,    \* Storage.rename or Storage.remove may fail
    ReadMayFail      \* reading a file that is there may fail

ASSUME TaskAssumption == Loop \in Task /\ NoTask \notin Task
ASSUME BuildAssumption == Build \subseteq Nat \ {0}
ASSUME EditionAssumption == MaxEditions \in Nat
ASSUME FaultAssumption == /\ WriteMayFail \in BOOLEAN
                          /\ DirOpMayFail \in BOOLEAN
                          /\ ReadMayFail \in BOOLEAN

Doc == [n : 0..MaxEditions, v : Build]

ASSUME ContentAssumption == Absent \notin Doc /\ Torn \notin Doc /\ Absent # Torn

Content == Doc \cup {Absent, Torn}

VARIABLES
    file,         \* the primary file, <path>
    tmp,          \* the file <path>.tmp
    build,        \* the build that runs, 0 while the device is off
    mem,          \* the edition of the data in RAM, 0 is the defaults
    edition,      \* the newest edition anyone has made
    loadRefused,  \* saves are refused: the last load met an unknown format
    holder,       \* the task that holds storeMutex
    pc,           \* per task: the next step of its save or load
    resave,       \* the loop task's load still owes a save of what it upgraded
    doc,          \* per task: its JsonDocument
    status,       \* the DocReadStatus the last load of this boot ended in
    acked         \* history: the newest document a save returned true for

vars == <<file, tmp, build, mem, edition, loadRefused, holder, pc, resave, doc, status, acked>>
disk == <<file, tmp>>

SaveSteps == {"open", "write", "remove", "rename"}
LoadSteps == {"read", "readTmp", "promote", "accept"}

DocReadStatus == {"Ok", "Missing", "Unreadable"}  \* with ParseError as Unreadable

TypeOK ==
    /\ file \in Content /\ tmp \in Content
    /\ build \in Build \cup {0}
    /\ edition \in 0..MaxEditions
    /\ mem \in 0..MaxEditions
    /\ loadRefused \in BOOLEAN
    /\ holder \in Task \cup {NoTask}
    /\ pc \in [Task -> {"idle"} \cup SaveSteps \cup LoadSteps]
    /\ resave \in BOOLEAN
    /\ doc \in [Task -> Doc \cup {Absent}]
    /\ status \in DocReadStatus
    /\ acked \in Doc \cup {Absent}

(* What an adopting load would return if every read of it succeeded. *)
Recoverable ==
    IF file \in Doc THEN file
    ELSE IF file = Absent /\ tmp \in Doc THEN tmp ELSE Absent

Init ==
    /\ file = Absent /\ tmp = Absent
    /\ build = 0 /\ mem = 0 /\ edition = 0
    /\ loadRefused = FALSE
    /\ holder = NoTask /\ resave = FALSE
    /\ pc = [t \in Task |-> "idle"] /\ doc = [t \in Task |-> Absent]
    /\ status = "Missing" /\ acked = Absent

-----------------------------------------------------------------------------
(* The owner changes the data in RAM; getters and setters take no lock.    *)

Edit ==
    /\ build # 0 /\ edition < MaxEditions
    /\ edition' = edition + 1 /\ mem' = edition + 1
    /\ UNCHANGED <<file, tmp, build, loadRefused, holder, pc, resave, doc, status, acked>>

-----------------------------------------------------------------------------
(* saveToFileAtomic.  A save that is over its budget or blocked by a       *)
(* refused load returns at once and changes nothing.                       *)

Goto(t, step) == pc' = [pc EXCEPT ![t] = step]

NoMutex == TRUE  \* mutation: nobody waits for storeMutex

MutexFree == holder = NoTask

(* ~lock_guard, and the local JsonDocument goes with it. *)
Release(t) ==
    /\ holder' = NoTask
    /\ Goto(t, "idle") /\ doc' = [doc EXCEPT ![t] = Absent]

SaveNeverBlocked == FALSE  \* mutation: a save does not look at loadRefused

saveBlockedByRefusedLoad == loadRefused

SaveLock(t) ==
    /\ build # 0 /\ pc[t] = "idle" /\ MutexFree
    /\ ~saveBlockedByRefusedLoad
    /\ holder' = t /\ Goto(t, "open")
    /\ doc' = [doc EXCEPT ![t] = [n |-> mem, v |-> build]]
    /\ resave' = (resave /\ t # Loop)
    /\ UNCHANGED <<file, tmp, build, mem, edition, loadRefused, status, acked>>

(* openFileForWrite truncates what the temp file held. *)
OpenTmp(t) ==
    /\ pc[t] = "open"
    /\ \/ tmp' = Torn /\ Goto(t, "write") /\ UNCHANGED <<holder, doc>>
       \/ WriteMayFail /\ Release(t) /\ UNCHANGED tmp
    /\ UNCHANGED <<file, build, mem, edition, loadRefused, resave, status, acked>>

(* Mutation: the result of the write and of the close is not looked at. *)
WriteFailureIgnored(t) == Goto(t, "remove") /\ UNCHANGED <<holder, doc>>

WriteFailed(t) == Release(t)

(* A failed flush or close may or may not have left the whole document.    *)
WriteTmp(t) ==
    /\ pc[t] = "write"
    /\ \/ tmp' = doc[t] /\ Goto(t, "remove") /\ UNCHANGED <<holder, doc>>
       \/ WriteMayFail /\ tmp' \in {Torn, doc[t]} /\ WriteFailed(t)
    /\ UNCHANGED <<file, build, mem, edition, loadRefused, resave, status, acked>>

(* The result of Storage.remove is not looked at. *)
RemoveOld(t) ==
    /\ pc[t] = "remove"
    /\ \/ file' = Absent
       \/ DirOpMayFail /\ UNCHANGED file
    /\ Goto(t, "rename")
    /\ UNCHANGED <<tmp, build, mem, edition, loadRefused, resave, holder, doc, status, acked>>

(* SdFat's rename does not overwrite an existing destination. *)
RenameTmp(t) ==
    /\ pc[t] = "rename"
    /\ \/ /\ file = Absent
          /\ file' = tmp /\ tmp' = Absent /\ acked' = doc[t]
       \/ /\ file # Absent \/ DirOpMayFail
          /\ UNCHANGED <<file, tmp, acked>>
    /\ Release(t)
    /\ UNCHANGED <<build, mem, edition, loadRefused, resave, status>>

Save(t) == SaveLock(t) \/ OpenTmp(t) \/ WriteTmp(t) \/ RemoveOld(t) \/ RenameTmp(t)

-----------------------------------------------------------------------------
(* loadFromFile, on the loop task: at boot, and again when a screen        *)
(* refreshes the store.                                                    *)

LoadLock ==
    /\ build # 0 /\ pc[Loop] = "idle" /\ ~resave /\ MutexFree
    /\ holder' = Loop /\ Goto(Loop, "read")
    /\ UNCHANGED <<file, tmp, build, mem, edition, loadRefused, resave, doc, status, acked>>

(* A file that is there but unreadable or unparseable ends the load with   *)
(* loadRefused as it was (loadRefusedAfter).                               *)
ReadFile ==
    /\ pc[Loop] = "read"
    /\ \/ file = Absent /\ Goto(Loop, "readTmp") /\ UNCHANGED <<holder, doc, status>>
       \/ file \in Doc /\ Goto(Loop, "accept") /\ doc' = [doc EXCEPT ![Loop] = file] /\ status' = "Ok" /\ UNCHANGED holder
       \/ /\ file = Torn \/ (file \in Doc /\ ReadMayFail)
          /\ status' = "Unreadable" /\ Release(Loop)
    /\ UNCHANGED <<file, tmp, build, mem, edition, loadRefused, resave, acked>>

TempNeverParsed == FALSE        \* mutation: the load adopts no temp file

tempParsed == tmp \in Doc

(* With no usable temp file the store is Missing, and saving is allowed.   *)
ReadTmp ==
    /\ pc[Loop] = "readTmp"
    /\ \/ tempParsed /\ Goto(Loop, "promote") /\ doc' = [doc EXCEPT ![Loop] = tmp] /\ status' = "Ok"
          /\ UNCHANGED <<holder, loadRefused>>
       \/ /\ ~tempParsed \/ ReadMayFail
          /\ Release(Loop) /\ status' = "Missing" /\ loadRefused' = FALSE
    /\ UNCHANGED <<file, tmp, build, mem, edition, resave, acked>>

(* The document is used whether or not the rename succeeds. *)
PromoteTmp ==
    /\ pc[Loop] = "promote"
    /\ \/ file' = tmp /\ tmp' = Absent
       \/ DirOpMayFail /\ UNCHANGED disk
    /\ Goto(Loop, "accept")
    /\ UNCHANGED <<build, mem, edition, loadRefused, holder, resave, doc, status, acked>>

isKnownFormatVersion(v) == v <= build

(* Mutation: the resave is made with the mutex of the load still held. *)
LoadKeepsMutex ==
    UNCHANGED holder /\ Goto(Loop, "idle") /\ doc' = [doc EXCEPT ![Loop] = Absent]

LoadUnlocks == Release(Loop)

(* fromJson refuses a format it does not know before it touches a member.  *)
(* A shape it upgraded in memory asks for a resave, which loadFromFile     *)
(* makes after it has released the mutex.                                  *)
FromJson ==
    /\ pc[Loop] = "accept"
    /\ \/ /\ isKnownFormatVersion(doc[Loop].v)
          /\ mem' = doc[Loop].n /\ loadRefused' = FALSE /\ resave' \in BOOLEAN
       \/ /\ ~isKnownFormatVersion(doc[Loop].v)
          /\ loadRefused' = TRUE /\ UNCHANGED <<mem, resave>>
    /\ LoadUnlocks
    /\ UNCHANGED <<file, tmp, build, edition, status, acked>>

Load == LoadLock \/ ReadFile \/ ReadTmp \/ PromoteTmp \/ FromJson

-----------------------------------------------------------------------------
(* The power: it goes at any instant and takes the RAM with it; setup()    *)
(* loads the stores first.  Between two boots the firmware may have been   *)
(* exchanged for an older or a newer build.                                *)

PowerLoss ==
    /\ build # 0
    /\ build' = 0 /\ mem' = 0 /\ loadRefused' = FALSE /\ resave' = FALSE
    /\ holder' = NoTask /\ status' = "Missing"
    /\ pc' = [t \in Task |-> "idle"] /\ doc' = [t \in Task |-> Absent]
    /\ UNCHANGED <<file, tmp, edition, acked>>

Boot(b) ==
    /\ build = 0
    /\ build' = b /\ holder' = Loop /\ Goto(Loop, "read")
    /\ UNCHANGED <<file, tmp, mem, edition, loadRefused, resave, doc, status, acked>>

Next ==
    \/ Edit
    \/ \E t \in Task : Save(t)
    \/ Load
    \/ PowerLoss
    \/ \E b \in Build : Boot(b)

Spec == Init /\ [][Next]_vars

(* The tasks are scheduled: whoever holds the mutex goes on, and the load  *)
(* that owes a resave makes it.  The power is not obliged to do anything.  *)
Fairness ==
    /\ \A t \in Task : WF_vars(OpenTmp(t) \/ WriteTmp(t) \/ RemoveOld(t) \/ RenameTmp(t))
    /\ WF_vars(ReadFile \/ ReadTmp \/ PromoteTmp \/ FromJson)
    /\ SF_vars(resave /\ SaveLock(Loop))

FairSpec == Spec /\ Fairness

-----------------------------------------------------------------------------
(* Properties                                                              *)

(* The primary file always parses: a write cut short by a failure or by    *)
(* the power damages only the temp file (writeDocToFileAtomic).            *)
PrimaryNeverTorn == file # Torn

(* The old file is dropped only while a whole newer one is beside it, so   *)
(* there is no instant at which the card holds no document any more.       *)
OldKeptUntilNewComplete == [][(file \in Doc /\ file' = Absent) => tmp' \in Doc]_vars

(* A document whose save returned true is what the next boot loads, unless *)
(* a later save has got far enough to replace it.                          *)
AckedSaveSurvives ==
    acked # Absent => Recoverable # Absent /\ Recoverable.n >= acked.n

(* Saves made by different tasks reach the card in the order the data was  *)
(* edited in: an older snapshot never replaces a newer one (storeMutex).   *)
NewerNeverReplacedByOlder ==
    [][(Recoverable \in Doc /\ Recoverable' \in Doc) => (Recoverable').n >= Recoverable.n]_vars

(* A file in a format this build does not know outlives every save this    *)
(* build attempts (PersistableStore.h, "Format versions").                 *)
UnknownFormatSurvives ==
    [][build # 0 /\ Recoverable \in Doc /\ Recoverable.v > build
         => Recoverable' = Recoverable]_vars

(* The load that asked for a resave gets to make it, or the power goes:    *)
(* the resave does not wait for a mutex the load itself still holds.       *)
ResaveIsMade == resave ~> ~resave

(* The promise of DurableDoc, kept by the protocol. *)
Writing == IF holder \in Task /\ pc[holder] \in SaveSteps THEN doc[holder] ELSE Absent
Durable == INSTANCE DurableDoc WITH None <- Absent, durable <- Recoverable, writing <- Writing
ImplementsDurableDoc == Durable!Spec
=============================================================================
