----------------------- MODULE PersistableStoreProofs -----------------------
(***************************************************************************)
(* What holds of PersistableStore for any tasks, builds and edition bound: *)
(* under every fault, on a card whose directory works, and that the        *)
(* protocol implements DurableDoc.                                         *)
(***************************************************************************)
EXTENDS PersistableStore, TLAPS

(* storeMutex: a task is inside a save or a load exactly while it holds it. *)
Mutex == \A t \in Task : pc[t] # "idle" <=> holder = t

(* What each step of a save or a load knows of the card. *)
StepInv ==
    \A t \in Task :
        /\ pc[t] \in SaveSteps => doc[t] \in Doc
        /\ pc[t] \in {"remove", "rename"} => tmp = doc[t]
        /\ pc[t] \in LoadSteps => t = Loop
        /\ pc[t] = "readTmp" => file = Absent
        /\ pc[t] = "promote" => file = Absent /\ tmp = doc[t] /\ doc[t] \in Doc
        /\ pc[t] = "accept" => doc[t] \in Doc

(* Nothing runs while the device is off. *)
Off == build = 0 => holder = NoTask

(* The inductive invariant behind the properties that hold under every fault. *)
IInv == TypeOK /\ PrimaryNeverTorn /\ Mutex /\ StepInv /\ Off

(* A new card, with the device off. *)
LEMMA InitIInv == Init => IInv
<1> SUFFICES ASSUME Init PROVE IInv
  OBVIOUS
<1> USE TaskAssumption, EditionAssumption, ContentAssumption DEF Init
<1>1. TypeOK
  <2>1. pc \in [Task -> {"idle"} \cup SaveSteps \cup LoadSteps] /\ doc \in [Task -> Doc \cup {Absent}]
    OBVIOUS
  <2>2. edition \in 0..MaxEditions /\ mem \in 0..MaxEditions
    OBVIOUS
  <2>3. holder \in Task \cup {NoTask} /\ status \in DocReadStatus
    BY DEF DocReadStatus
  <2>4. file \in Content /\ tmp \in Content /\ acked \in Doc \cup {Absent}
    BY DEF Content
  <2>5. build \in Build \cup {0} /\ loadRefused \in BOOLEAN /\ resave \in BOOLEAN
    OBVIOUS
  <2> QED
    BY <2>1, <2>2, <2>3, <2>4, <2>5 DEF TypeOK
<1>2. PrimaryNeverTorn
  BY DEF PrimaryNeverTorn
<1>3. Mutex
  BY DEF Mutex
<1>4. StepInv /\ Off
  BY DEF StepInv, SaveSteps, LoadSteps, Off
<1> QED
  BY <1>1, <1>2, <1>3, <1>4 DEF IInv

(* A step of a save only touches the files while its task holds the mutex. *)
LEMMA SaveKeepsIInv == ASSUME IInv, NEW t \in Task, Save(t) PROVE IInv'
<1> USE TaskAssumption, EditionAssumption, BuildAssumption, ContentAssumption DEF IInv
<1>1. CASE SaveLock(t)
  <2>1. TypeOK'
    BY <1>1 DEF SaveLock, MutexFree, TypeOK, Goto, Content, Doc, SaveSteps
  <2>2. Mutex' /\ PrimaryNeverTorn' /\ Off'
    BY <1>1 DEF Off, SaveLock, MutexFree, TypeOK, Goto, Mutex, PrimaryNeverTorn
  <2>3. StepInv'
    BY <1>1 DEF SaveLock, MutexFree, TypeOK, Goto, Mutex, StepInv, SaveSteps, LoadSteps, Doc
  <2> QED
    BY <2>1, <2>2, <2>3
<1>2. CASE OpenTmp(t)
  <2>1. TypeOK'
    BY <1>2 DEF OpenTmp, TypeOK, Goto, Release, Content, SaveSteps
  <2>2. Mutex' /\ PrimaryNeverTorn' /\ Off'
    BY <1>2 DEF Off, OpenTmp, TypeOK, Goto, Release, Mutex, PrimaryNeverTorn
  <2>3. StepInv'
    BY <1>2 DEF OpenTmp, TypeOK, Goto, Release, Mutex, StepInv, SaveSteps, LoadSteps
  <2> QED
    BY <2>1, <2>2, <2>3
<1>3. CASE WriteTmp(t)
  <2>1. TypeOK'
    BY <1>3 DEF WriteTmp, WriteFailed, TypeOK, Goto, Release, Content, SaveSteps, StepInv
  <2>2. Mutex' /\ PrimaryNeverTorn' /\ Off'
    BY <1>3 DEF Off, WriteTmp, WriteFailed, TypeOK, Goto, Release, Mutex, PrimaryNeverTorn
  <2>3. StepInv'
    BY <1>3 DEF WriteTmp, WriteFailed, TypeOK, Goto, Release, Mutex, StepInv, SaveSteps, LoadSteps
  <2> QED
    BY <2>1, <2>2, <2>3
<1>4. CASE RemoveOld(t)
  <2>1. TypeOK'
    BY <1>4 DEF RemoveOld, TypeOK, Goto, Content, SaveSteps
  <2>2. Mutex' /\ PrimaryNeverTorn' /\ Off'
    BY <1>4 DEF Off, RemoveOld, TypeOK, Goto, Mutex, PrimaryNeverTorn
  <2>3. StepInv'
    BY <1>4 DEF RemoveOld, TypeOK, Goto, Mutex, StepInv, SaveSteps, LoadSteps
  <2> QED
    BY <2>1, <2>2, <2>3
<1>5. CASE RenameTmp(t)
  <2>1. TypeOK'
    BY <1>5 DEF RenameTmp, TypeOK, Goto, Release, Content, SaveSteps, StepInv
  <2>2. Mutex' /\ PrimaryNeverTorn' /\ Off'
    BY <1>5 DEF Off, RenameTmp, TypeOK, Goto, Release, Mutex, PrimaryNeverTorn, StepInv, SaveSteps
  <2>3. StepInv'
    BY <1>5 DEF RenameTmp, TypeOK, Goto, Release, Mutex, StepInv, SaveSteps, LoadSteps
  <2> QED
    BY <2>1, <2>2, <2>3
<1> QED
  BY <1>1, <1>2, <1>3, <1>4, <1>5 DEF Save

(* A load only renames a temp file it has parsed. *)
LEMMA LoadKeepsIInv == ASSUME IInv, Load PROVE IInv'
<1> USE TaskAssumption, EditionAssumption, BuildAssumption, ContentAssumption DEF IInv
<1>1. CASE LoadLock
  <2>1. TypeOK'
    BY <1>1 DEF LoadLock, MutexFree, TypeOK, Goto, LoadSteps
  <2>2. Mutex' /\ PrimaryNeverTorn' /\ Off'
    BY <1>1 DEF Off, LoadLock, MutexFree, TypeOK, Goto, Mutex, PrimaryNeverTorn
  <2>3. StepInv'
    BY <1>1 DEF LoadLock, MutexFree, TypeOK, Goto, Mutex, StepInv, SaveSteps, LoadSteps
  <2> QED
    BY <2>1, <2>2, <2>3
<1>2. CASE ReadFile
  <2>1. TypeOK'
    BY <1>2 DEF ReadFile, TypeOK, Goto, Release, LoadSteps, DocReadStatus
  <2>2. Mutex' /\ PrimaryNeverTorn' /\ Off'
    BY <1>2 DEF Off, ReadFile, TypeOK, Goto, Release, Mutex, PrimaryNeverTorn
  <2>3. StepInv'
    BY <1>2 DEF ReadFile, TypeOK, Goto, Release, Mutex, StepInv, SaveSteps, LoadSteps
  <2> QED
    BY <2>1, <2>2, <2>3
<1>3. CASE ReadTmp
  <2>1. TypeOK'
    BY <1>3 DEF ReadTmp, tempParsed, TypeOK, Goto, Release, LoadSteps, DocReadStatus
  <2>2. Mutex' /\ PrimaryNeverTorn' /\ Off'
    BY <1>3 DEF Off, ReadTmp, tempParsed, TypeOK, Goto, Release, Mutex, PrimaryNeverTorn
  <2>3. StepInv'
    BY <1>3 DEF ReadTmp, tempParsed, TypeOK, Goto, Release, Mutex, StepInv, SaveSteps, LoadSteps
  <2> QED
    BY <2>1, <2>2, <2>3
<1>4. CASE PromoteTmp
  <2>1. TypeOK'
    BY <1>4 DEF PromoteTmp, TypeOK, Goto, LoadSteps, Content, disk
  <2>2. Mutex' /\ PrimaryNeverTorn' /\ Off'
    BY <1>4 DEF Off, PromoteTmp, TypeOK, Goto, Mutex, PrimaryNeverTorn, StepInv, disk
  <2>3. StepInv'
    BY <1>4 DEF PromoteTmp, TypeOK, Goto, Mutex, StepInv, SaveSteps, LoadSteps, disk
  <2> QED
    BY <2>1, <2>2, <2>3
<1>5. CASE FromJson
  <2>1. TypeOK'
    BY <1>5 DEF FromJson, LoadUnlocks, TypeOK, Goto, Release, StepInv, Doc
  <2>2. Mutex' /\ PrimaryNeverTorn' /\ Off'
    BY <1>5 DEF Off, FromJson, LoadUnlocks, TypeOK, Goto, Release, Mutex, PrimaryNeverTorn
  <2>3. StepInv'
    BY <1>5 DEF FromJson, LoadUnlocks, TypeOK, Goto, Release, Mutex, StepInv, SaveSteps, LoadSteps
  <2> QED
    BY <2>1, <2>2, <2>3
<1> QED
  BY <1>1, <1>2, <1>3, <1>4, <1>5 DEF Load

(* Edits, saves, loads, a power loss and a boot keep the invariant. *)
LEMMA NextKeepsIInv == IInv /\ [Next]_vars => IInv'
<1> SUFFICES ASSUME IInv, [Next]_vars PROVE IInv'
  OBVIOUS
<1> USE TaskAssumption, EditionAssumption, BuildAssumption, ContentAssumption DEF IInv
<1>1. CASE Edit
  BY <1>1 DEF Edit, TypeOK, Off, PrimaryNeverTorn, Mutex, StepInv
<1>2. ASSUME NEW t \in Task, Save(t) PROVE IInv'
  BY <1>2, SaveKeepsIInv
<1>3. CASE Load
  BY <1>3, LoadKeepsIInv
<1>4. CASE PowerLoss
  <2>1. pc' \in [Task -> {"idle"} \cup SaveSteps \cup LoadSteps] /\ doc' \in [Task -> Doc \cup {Absent}]
    BY <1>4 DEF PowerLoss
  <2>2. mem' \in 0..MaxEditions /\ status' \in DocReadStatus
    BY <1>4 DEF PowerLoss, DocReadStatus
  <2>3. TypeOK'
    BY <1>4, <2>1, <2>2 DEF PowerLoss, TypeOK
  <2>4. Mutex' /\ PrimaryNeverTorn' /\ Off'
    BY <1>4 DEF PowerLoss, Mutex, PrimaryNeverTorn, Off
  <2>5. StepInv'
    BY <1>4 DEF PowerLoss, StepInv, SaveSteps, LoadSteps
  <2> QED
    BY <2>3, <2>4, <2>5
<1>5. ASSUME NEW b \in Build, Boot(b) PROVE IInv'
  <2>1. \A t \in Task : pc[t] = "idle"
    BY <1>5 DEF Boot, Off, Mutex, TypeOK
  <2>2. TypeOK'
    BY <1>5 DEF Boot, TypeOK, Goto, LoadSteps
  <2>3. Mutex' /\ PrimaryNeverTorn' /\ Off'
    BY <1>5, <2>1 DEF Boot, TypeOK, Goto, Mutex, PrimaryNeverTorn, Off
  <2>4. StepInv'
    BY <1>5, <2>1 DEF Boot, TypeOK, Goto, StepInv, SaveSteps, LoadSteps
  <2> QED
    BY <2>2, <2>3, <2>4
<1>6. CASE UNCHANGED vars
  BY <1>6 DEF vars, Off, TypeOK, PrimaryNeverTorn, Mutex, StepInv
<1> QED
  BY <1>1, <1>2, <1>3, <1>4, <1>5, <1>6 DEF Next

(* So it holds of every reachable state. *)
LEMMA IInvAlways == Spec => []IInv
<1> QED
  BY InitIInv, NextKeepsIInv, PTL DEF Spec

(* Every variable keeps to its type. *)
THEOREM TypeCorrect == Spec => []TypeOK
<1>1. IInv => TypeOK
  BY DEF IInv
<1> QED
  BY <1>1, IInvAlways, PTL

(* The primary file always parses, whichever steps fail and whenever the   *)
(* power goes.                                                             *)
THEOREM PrimaryAlwaysParses == Spec => []PrimaryNeverTorn
<1>1. IInv => PrimaryNeverTorn
  BY DEF IInv
<1> QED
  BY <1>1, IInvAlways, PTL

(* The old file is dropped only while a whole newer one is beside it. *)
THEOREM OldFileKept == Spec => OldKeptUntilNewComplete
<1>1. IInv /\ [Next]_vars => [(file \in Doc /\ file' = Absent) => tmp' \in Doc]_vars
  <2> SUFFICES ASSUME IInv, Next, file \in Doc, file' = Absent PROVE tmp' \in Doc
    OBVIOUS
  <2> USE ContentAssumption DEF IInv
  <2>1. ASSUME NEW t \in Task, Save(t) PROVE tmp' \in Doc
    <3>1. CASE RemoveOld(t)
      BY <3>1 DEF RemoveOld, StepInv, SaveSteps
    <3>2. file' # file => RemoveOld(t) \/ RenameTmp(t)
      BY <2>1 DEF Save, SaveLock, OpenTmp, WriteTmp
    <3>3. ~RenameTmp(t)
      BY DEF RenameTmp
    <3> QED
      BY <3>1, <3>2, <3>3
  <2>2. ~Load
    <3>1. ~PromoteTmp
      BY TaskAssumption DEF PromoteTmp, StepInv, disk
    <3> QED
      BY <3>1 DEF Load, LoadLock, ReadFile, ReadTmp, FromJson
  <2>3. ~(Edit \/ PowerLoss \/ \E b \in Build : Boot(b))
    BY DEF Edit, PowerLoss, Boot
  <2> QED
    BY <2>1, <2>2, <2>3 DEF Next
<1> QED
  BY <1>1, IInvAlways, PTL DEF Spec, OldKeptUntilNewComplete

-----------------------------------------------------------------------------
(* Durability.  The card's directory operations and its reads are assumed  *)
(* to work; writes may still fail, and the power may go at any step.       *)

(* No edition on the card or in a snapshot is newer than the newest edit.  *)
Dated ==
    /\ mem <= edition
    /\ \A d \in {file, tmp, acked} \cup {doc[t] : t \in Task} : d \in Doc => d.n <= edition

(* What a save or a load knows when the directory operations work. *)
DirInv ==
    /\ \A t \in Task : pc[t] = "rename" => file = Absent
    /\ pc[Loop] = "accept" => doc[Loop] = file

(* The data in RAM is no older than what the card gives back, once loaded, *)
(* and neither is a snapshot that is being saved.                          *)
Fresh ==
    Recoverable \in Doc =>
        /\ build # 0 /\ pc[Loop] \notin LoadSteps /\ ~loadRefused => mem >= Recoverable.n
        /\ \A t \in Task : pc[t] \in SaveSteps => doc[t].n >= Recoverable.n

SnapshotNotNewer ==
    \A t \in Task : pc[t] \in SaveSteps => ~loadRefused /\ mem >= doc[t].n

(* The acknowledged document is in the primary file, but for the window    *)
(* between the remove and the rename and for the boot that follows it.     *)
AckedInFile ==
    acked # Absent =>
        \/ file \in Doc
        \/ build = 0
        \/ pc[Loop] \in {"read", "readTmp", "promote"}
        \/ \E t \in Task : pc[t] = "rename"

DInv == IInv /\ Dated /\ DirInv /\ Fresh /\ SnapshotNotNewer /\ AckedInFile /\ AckedSaveSurvives

(* Nothing has been saved or acknowledged. *)
LEMMA InitDInv == Init => DInv
<1> SUFFICES ASSUME Init PROVE DInv
  OBVIOUS
<1>1. Dated /\ DirInv /\ SnapshotNotNewer
  BY ContentAssumption, TaskAssumption DEF Init, Dated, DirInv, SnapshotNotNewer, SaveSteps
<1>2. Fresh /\ AckedInFile /\ AckedSaveSurvives
  BY ContentAssumption DEF Init, Fresh, AckedInFile, AckedSaveSurvives, Recoverable
<1> QED
  BY <1>1, <1>2, InitIInv DEF DInv

(* A save replaces what the card gives back by a snapshot that is no older. *)
LEMMA SaveKeepsDInv ==
    ASSUME ~DirOpMayFail, DInv, NEW t \in Task, Save(t), IInv' PROVE DInv'
<1> USE TaskAssumption, EditionAssumption, BuildAssumption, ContentAssumption DEF DInv, IInv
<1>1. CASE SaveLock(t)
  <2>1. Dated'
    BY <1>1 DEF SaveLock, MutexFree, saveBlockedByRefusedLoad, Goto, Dated, TypeOK
  <2>2. DirInv'
    BY <1>1 DEF SaveLock, MutexFree, saveBlockedByRefusedLoad, Goto, DirInv, TypeOK, Mutex, SaveSteps, LoadSteps, PrimaryNeverTorn, Content
  <2>3. Fresh'
    BY <1>1 DEF SaveLock, MutexFree, saveBlockedByRefusedLoad, Goto, Fresh, Recoverable, TypeOK, Mutex, StepInv, DirInv, SnapshotNotNewer, Dated, SaveSteps, LoadSteps, Content, PrimaryNeverTorn, Doc
  <2>4. SnapshotNotNewer'
    BY <1>1 DEF SaveLock, MutexFree, saveBlockedByRefusedLoad, Goto, SnapshotNotNewer, TypeOK, Mutex, StepInv, SaveSteps, LoadSteps, Doc, Dated
  <2>5. AckedInFile'
    BY <1>1 DEF SaveLock, MutexFree, saveBlockedByRefusedLoad, Goto, AckedInFile, AckedSaveSurvives, Recoverable, TypeOK, Mutex, StepInv, DirInv, SaveSteps, LoadSteps, Content, PrimaryNeverTorn
  <2>6. AckedSaveSurvives'
    BY <1>1 DEF SaveLock, MutexFree, saveBlockedByRefusedLoad, Goto, AckedSaveSurvives, AckedInFile, Fresh, Recoverable, TypeOK, Mutex, StepInv, DirInv, SaveSteps, LoadSteps, Content, PrimaryNeverTorn, Off
  <2> QED
    BY <2>1, <2>2, <2>3, <2>4, <2>5, <2>6
<1>2. CASE OpenTmp(t)
  <2>1. Dated'
    BY <1>2 DEF OpenTmp, Goto, Release, Dated, TypeOK
  <2>2. DirInv'
    BY <1>2 DEF OpenTmp, Goto, Release, DirInv, TypeOK, Mutex, SaveSteps, LoadSteps, PrimaryNeverTorn, Content
  <2>3. Fresh'
    BY <1>2 DEF OpenTmp, Goto, Release, Fresh, Recoverable, TypeOK, Mutex, StepInv, DirInv, SnapshotNotNewer, Dated, SaveSteps, LoadSteps, Content, PrimaryNeverTorn, Doc
  <2>4. SnapshotNotNewer'
    BY <1>2 DEF OpenTmp, Goto, Release, SnapshotNotNewer, TypeOK, Mutex, StepInv, SaveSteps, LoadSteps, Doc, Dated
  <2>5. AckedInFile'
    BY <1>2 DEF OpenTmp, Goto, Release, AckedInFile, AckedSaveSurvives, Recoverable, TypeOK, Mutex, StepInv, DirInv, SaveSteps, LoadSteps, Content, PrimaryNeverTorn
  <2>6. AckedSaveSurvives'
    BY <1>2 DEF OpenTmp, Goto, Release, AckedSaveSurvives, AckedInFile, Fresh, Recoverable, TypeOK, Mutex, StepInv, DirInv, SaveSteps, LoadSteps, Content, PrimaryNeverTorn, Off
  <2> QED
    BY <2>1, <2>2, <2>3, <2>4, <2>5, <2>6
<1>3. CASE WriteTmp(t)
  <2>1. Dated'
    BY <1>3 DEF WriteTmp, WriteFailed, Goto, Release, Dated, TypeOK
  <2>2. DirInv'
    BY <1>3 DEF WriteTmp, WriteFailed, Goto, Release, DirInv, TypeOK, Mutex, SaveSteps, LoadSteps, PrimaryNeverTorn, Content
  <2>3. Fresh'
    BY <1>3 DEF WriteTmp, WriteFailed, Goto, Release, Fresh, Recoverable, TypeOK, Mutex, StepInv, DirInv, SnapshotNotNewer, Dated, SaveSteps, LoadSteps, Content, PrimaryNeverTorn, Doc
  <2>4. SnapshotNotNewer'
    BY <1>3 DEF WriteTmp, WriteFailed, Goto, Release, SnapshotNotNewer, TypeOK, Mutex, StepInv, SaveSteps, LoadSteps, Doc, Dated
  <2>5. AckedInFile'
    BY <1>3 DEF WriteTmp, WriteFailed, Goto, Release, AckedInFile, AckedSaveSurvives, Recoverable, TypeOK, Mutex, StepInv, DirInv, SaveSteps, LoadSteps, Content, PrimaryNeverTorn
  <2>6. AckedSaveSurvives'
    BY <1>3 DEF WriteTmp, WriteFailed, Goto, Release, AckedSaveSurvives, AckedInFile, Fresh, Recoverable, TypeOK, Mutex, StepInv, DirInv, SaveSteps, LoadSteps, Content, PrimaryNeverTorn, Off
  <2> QED
    BY <2>1, <2>2, <2>3, <2>4, <2>5, <2>6
<1>4. CASE RemoveOld(t)
  <2>1. Dated'
    BY <1>4 DEF RemoveOld, Goto, Dated, TypeOK
  <2>2. DirInv'
    BY <1>4 DEF RemoveOld, Goto, DirInv, TypeOK, Mutex, SaveSteps, LoadSteps, PrimaryNeverTorn, Content
  <2>3. Fresh'
    BY <1>4 DEF RemoveOld, Goto, Fresh, Recoverable, TypeOK, Mutex, StepInv, DirInv, SnapshotNotNewer, Dated, SaveSteps, LoadSteps, Content, PrimaryNeverTorn, Doc
  <2>4. SnapshotNotNewer'
    BY <1>4 DEF RemoveOld, Goto, SnapshotNotNewer, TypeOK, Mutex, StepInv, SaveSteps, LoadSteps, Doc, Dated
  <2>5. AckedInFile'
    BY <1>4 DEF RemoveOld, Goto, AckedInFile, AckedSaveSurvives, Recoverable, TypeOK, Mutex, StepInv, DirInv, SaveSteps, LoadSteps, Content, PrimaryNeverTorn
  <2>6. AckedSaveSurvives'
    BY <1>4 DEF RemoveOld, Goto, AckedSaveSurvives, AckedInFile, Fresh, Recoverable, TypeOK, Mutex, StepInv, DirInv, SaveSteps, LoadSteps, Content, PrimaryNeverTorn, Off, Doc
  <2> QED
    BY <2>1, <2>2, <2>3, <2>4, <2>5, <2>6
<1>5. CASE RenameTmp(t)
  <2>1. Dated'
    BY <1>5 DEF RenameTmp, Goto, Release, Dated, TypeOK
  <2>2. DirInv'
    BY <1>5 DEF RenameTmp, Goto, Release, DirInv, TypeOK, Mutex, SaveSteps, LoadSteps, PrimaryNeverTorn, Content
  <2>3. Fresh'
    BY <1>5 DEF RenameTmp, Goto, Release, Fresh, Recoverable, TypeOK, Mutex, StepInv, DirInv, SnapshotNotNewer, Dated, SaveSteps, LoadSteps, Content, PrimaryNeverTorn, Doc
  <2>4. SnapshotNotNewer'
    BY <1>5 DEF RenameTmp, Goto, Release, SnapshotNotNewer, TypeOK, Mutex, StepInv, SaveSteps, LoadSteps, Doc, Dated
  <2>5. AckedInFile'
    BY <1>5 DEF RenameTmp, Goto, Release, AckedInFile, AckedSaveSurvives, Recoverable, TypeOK, Mutex, StepInv, DirInv, SaveSteps, LoadSteps, Content, PrimaryNeverTorn
  <2>6. AckedSaveSurvives'
    BY <1>5 DEF RenameTmp, Goto, Release, AckedSaveSurvives, AckedInFile, Fresh, Recoverable, TypeOK, Mutex, StepInv, DirInv, SaveSteps, LoadSteps, Content, PrimaryNeverTorn, Off
  <2> QED
    BY <2>1, <2>2, <2>3, <2>4, <2>5, <2>6
<1> QED
  BY <1>1, <1>2, <1>3, <1>4, <1>5 DEF Save

(* A load takes into RAM just what the card gives back. *)
LEMMA LoadKeepsDInv ==
    ASSUME ~DirOpMayFail, ~ReadMayFail, DInv, Load, IInv' PROVE DInv'
<1> USE TaskAssumption, EditionAssumption, BuildAssumption, ContentAssumption DEF DInv, IInv
<1>1. CASE LoadLock
  <2>1. Dated'
    BY <1>1 DEF LoadLock, MutexFree, Goto, Dated, TypeOK
  <2>2. DirInv'
    BY <1>1 DEF LoadLock, MutexFree, Goto, DirInv, TypeOK, Mutex, SaveSteps, LoadSteps, PrimaryNeverTorn, Content
  <2>3. Fresh'
    BY <1>1 DEF LoadLock, MutexFree, Goto, Fresh, Recoverable, TypeOK, Mutex, StepInv, DirInv, SnapshotNotNewer, Dated, SaveSteps, LoadSteps, Content, PrimaryNeverTorn, Doc
  <2>4. SnapshotNotNewer'
    BY <1>1 DEF LoadLock, MutexFree, Goto, SnapshotNotNewer, TypeOK, Mutex, StepInv, SaveSteps, LoadSteps, Doc, Dated
  <2>5. AckedInFile'
    BY <1>1 DEF LoadLock, MutexFree, Goto, AckedInFile, AckedSaveSurvives, Recoverable, TypeOK, Mutex, StepInv, DirInv, SaveSteps, LoadSteps, Content, PrimaryNeverTorn
  <2>6. AckedSaveSurvives'
    BY <1>1 DEF LoadLock, MutexFree, Goto, AckedSaveSurvives, AckedInFile, Fresh, Recoverable, TypeOK, Mutex, StepInv, DirInv, SaveSteps, LoadSteps, Content, PrimaryNeverTorn, Off
  <2> QED
    BY <2>1, <2>2, <2>3, <2>4, <2>5, <2>6
<1>2. CASE ReadFile
  <2>1. Dated'
    BY <1>2 DEF ReadFile, Goto, Release, Dated, TypeOK
  <2>2. DirInv'
    BY <1>2 DEF ReadFile, Goto, Release, DirInv, TypeOK, Mutex, SaveSteps, LoadSteps, PrimaryNeverTorn, Content
  <2>3. Fresh'
    BY <1>2 DEF ReadFile, Goto, Release, Fresh, Recoverable, TypeOK, Mutex, StepInv, DirInv, SnapshotNotNewer, Dated, SaveSteps, LoadSteps, Content, PrimaryNeverTorn, Doc
  <2>4. SnapshotNotNewer'
    BY <1>2 DEF ReadFile, Goto, Release, SnapshotNotNewer, TypeOK, Mutex, StepInv, SaveSteps, LoadSteps, Doc, Dated
  <2>5. AckedInFile'
    BY <1>2 DEF ReadFile, Goto, Release, AckedInFile, AckedSaveSurvives, Recoverable, TypeOK, Mutex, StepInv, DirInv, SaveSteps, LoadSteps, Content, PrimaryNeverTorn
  <2>6. AckedSaveSurvives'
    BY <1>2 DEF ReadFile, Goto, Release, AckedSaveSurvives, AckedInFile, Fresh, Recoverable, TypeOK, Mutex, StepInv, DirInv, SaveSteps, LoadSteps, Content, PrimaryNeverTorn, Off
  <2> QED
    BY <2>1, <2>2, <2>3, <2>4, <2>5, <2>6
<1>3. CASE ReadTmp
  <2>1. Dated'
    BY <1>3 DEF ReadTmp, tempParsed, Goto, Release, Dated, TypeOK
  <2>2. DirInv'
    BY <1>3 DEF ReadTmp, tempParsed, Goto, Release, DirInv, TypeOK, Mutex, SaveSteps, LoadSteps, PrimaryNeverTorn, Content
  <2>3. Fresh'
    BY <1>3 DEF ReadTmp, tempParsed, Goto, Release, Fresh, Recoverable, TypeOK, Mutex, StepInv, DirInv, SnapshotNotNewer, Dated, SaveSteps, LoadSteps, Content, PrimaryNeverTorn, Doc
  <2>4. SnapshotNotNewer'
    BY <1>3 DEF ReadTmp, tempParsed, Goto, Release, SnapshotNotNewer, TypeOK, Mutex, StepInv, SaveSteps, LoadSteps, Doc, Dated
  <2>5. AckedInFile'
    BY <1>3 DEF ReadTmp, tempParsed, Goto, Release, AckedInFile, AckedSaveSurvives, Recoverable, TypeOK, Mutex, StepInv, DirInv, SaveSteps, LoadSteps, Content, PrimaryNeverTorn
  <2>6. AckedSaveSurvives'
    BY <1>3 DEF ReadTmp, tempParsed, Goto, Release, AckedSaveSurvives, AckedInFile, Fresh, Recoverable, TypeOK, Mutex, StepInv, DirInv, SaveSteps, LoadSteps, Content, PrimaryNeverTorn, Off
  <2> QED
    BY <2>1, <2>2, <2>3, <2>4, <2>5, <2>6
<1>4. CASE PromoteTmp
  <2>1. Dated'
    BY <1>4 DEF PromoteTmp, Goto, disk, Dated, TypeOK
  <2>2. DirInv'
    BY <1>4 DEF PromoteTmp, Goto, disk, DirInv, TypeOK, Mutex, SaveSteps, LoadSteps, PrimaryNeverTorn, Content, StepInv
  <2>3. Fresh'
    BY <1>4 DEF PromoteTmp, Goto, disk, Fresh, Recoverable, TypeOK, Mutex, StepInv, DirInv, SnapshotNotNewer, Dated, SaveSteps, LoadSteps, Content, PrimaryNeverTorn, Doc
  <2>4. SnapshotNotNewer'
    BY <1>4 DEF PromoteTmp, Goto, disk, SnapshotNotNewer, TypeOK, Mutex, StepInv, SaveSteps, LoadSteps, Doc, Dated
  <2>5. AckedInFile'
    BY <1>4 DEF PromoteTmp, Goto, disk, AckedInFile, AckedSaveSurvives, Recoverable, TypeOK, Mutex, StepInv, DirInv, SaveSteps, LoadSteps, Content, PrimaryNeverTorn
  <2>6. AckedSaveSurvives'
    BY <1>4 DEF PromoteTmp, Goto, disk, AckedSaveSurvives, AckedInFile, Fresh, Recoverable, TypeOK, Mutex, StepInv, DirInv, SaveSteps, LoadSteps, Content, PrimaryNeverTorn, Off
  <2> QED
    BY <2>1, <2>2, <2>3, <2>4, <2>5, <2>6
<1>5. CASE FromJson
  <2>1. Dated'
    BY <1>5 DEF FromJson, LoadUnlocks, Goto, Release, Dated, TypeOK, StepInv
  <2>2. DirInv'
    BY <1>5 DEF FromJson, LoadUnlocks, Goto, Release, DirInv, TypeOK, Mutex, SaveSteps, LoadSteps, PrimaryNeverTorn, Content
  <2>3. Fresh'
    BY <1>5 DEF FromJson, LoadUnlocks, Goto, Release, Fresh, Recoverable, TypeOK, Mutex, StepInv, DirInv, SnapshotNotNewer, Dated, SaveSteps, LoadSteps, Content, PrimaryNeverTorn, Doc
  <2>4. SnapshotNotNewer'
    BY <1>5 DEF FromJson, LoadUnlocks, Goto, Release, SnapshotNotNewer, TypeOK, Mutex, StepInv, SaveSteps, LoadSteps, Doc, Dated
  <2>5. AckedInFile'
    BY <1>5 DEF FromJson, LoadUnlocks, Goto, Release, AckedInFile, AckedSaveSurvives, Recoverable, TypeOK, Mutex, StepInv, DirInv, SaveSteps, LoadSteps, Content, PrimaryNeverTorn
  <2>6. AckedSaveSurvives'
    BY <1>5 DEF FromJson, LoadUnlocks, Goto, Release, AckedSaveSurvives, AckedInFile, Fresh, Recoverable, TypeOK, Mutex, StepInv, DirInv, SaveSteps, LoadSteps, Content, PrimaryNeverTorn, Off
  <2> QED
    BY <2>1, <2>2, <2>3, <2>4, <2>5, <2>6
<1> QED
  BY <1>1, <1>2, <1>3, <1>4, <1>5 DEF Load

(* While renames, removes and reads work, every step keeps DInv. *)
LEMMA NextKeepsDInv ==
    ASSUME ~DirOpMayFail, ~ReadMayFail PROVE DInv /\ [Next]_vars => DInv'
<1> SUFFICES ASSUME DInv, [Next]_vars PROVE DInv'
  OBVIOUS
<1> USE TaskAssumption, EditionAssumption, BuildAssumption, ContentAssumption
<1>0. IInv /\ IInv'
  BY NextKeepsIInv DEF DInv
<1>1. CASE Edit
  <2>1. Dated' /\ DirInv' /\ SnapshotNotNewer'
    BY <1>0, <1>1 DEF DInv, Edit, Dated, DirInv, SnapshotNotNewer, IInv, TypeOK, StepInv, Doc
  <2>2. Fresh'
    BY <1>0, <1>1 DEF DInv, Edit, Fresh, Dated, Recoverable, IInv, TypeOK, Doc
  <2>3. AckedInFile' /\ AckedSaveSurvives'
    BY <1>1 DEF DInv, Edit, AckedInFile, AckedSaveSurvives, Recoverable
  <2> QED
    BY <1>0, <2>1, <2>2, <2>3 DEF DInv
<1>2. ASSUME NEW t \in Task, Save(t) PROVE DInv'
  BY <1>0, <1>2, SaveKeepsDInv
<1>3. CASE Load
  BY <1>0, <1>3, LoadKeepsDInv
<1>4. CASE PowerLoss
  <2>1. Dated' /\ DirInv' /\ SnapshotNotNewer'
    BY <1>0, <1>4 DEF DInv, PowerLoss, Dated, DirInv, SnapshotNotNewer, IInv, TypeOK, SaveSteps
  <2>2. Fresh' /\ AckedInFile' /\ AckedSaveSurvives'
    BY <1>4 DEF DInv, PowerLoss, Fresh, AckedInFile, AckedSaveSurvives, Recoverable, SaveSteps
  <2> QED
    BY <1>0, <2>1, <2>2 DEF DInv
<1>5. ASSUME NEW b \in Build, Boot(b) PROVE DInv'
  <2>1. \A t \in Task : pc[t] = "idle"
    BY <1>0, <1>5 DEF Boot, IInv, Off, Mutex, TypeOK
  <2>2. pc' = [pc EXCEPT ![Loop] = "read"] /\ UNCHANGED <<file, tmp, mem, edition, loadRefused, doc, acked>>
    BY <1>5 DEF Boot, Goto
  <2>3. Dated' /\ DirInv' /\ SnapshotNotNewer'
    BY <1>0, <2>1, <2>2 DEF DInv, Dated, DirInv, SnapshotNotNewer, IInv, TypeOK, SaveSteps
  <2>4. Fresh' /\ AckedInFile' /\ AckedSaveSurvives'
    BY <1>0, <2>1, <2>2 DEF DInv, Fresh, AckedInFile, AckedSaveSurvives, Recoverable, IInv, TypeOK,
                            SaveSteps, LoadSteps
  <2> QED
    BY <1>0, <2>3, <2>4 DEF DInv
<1>6. CASE UNCHANGED vars
  BY <1>0, <1>6 DEF DInv, vars, Dated, DirInv, Fresh, SnapshotNotNewer, AckedInFile,
                    AckedSaveSurvives, Recoverable
<1> QED
  BY <1>1, <1>2, <1>3, <1>4, <1>5, <1>6 DEF Next

(* While the card's directory operations and reads work, a document whose  *)
(* save returned true is never lost or replaced by an older one: not by a  *)
(* failed write, nor by the power going at any step of a save or a load.   *)
THEOREM AckedDocumentSurvives ==
    ASSUME ~DirOpMayFail, ~ReadMayFail PROVE Spec => []AckedSaveSurvives
<1>1. Init => DInv
  BY InitDInv
<1>2. DInv /\ [Next]_vars => DInv'
  BY NextKeepsDInv
<1>3. DInv => AckedSaveSurvives
  BY DEF DInv
<1> QED
  BY <1>1, <1>2, <1>3, PTL DEF Spec

(* A step leaves on the card what it gave back, or a snapshot that is no   *)
(* older: storeMutex keeps an older one from overtaking it.                *)
LEMMA CardGoesForward ==
    ASSUME DInv, [Next]_vars, Recoverable \in Doc, Recoverable' \in Doc
    PROVE  (Recoverable').n >= Recoverable.n
<1> USE ContentAssumption DEF DInv, IInv, Recoverable
<1>0. Recoverable.n \in Nat
  BY EditionAssumption DEF Doc
<1>1. CASE UNCHANGED disk
  BY <1>0, <1>1 DEF disk
<1>2. ASSUME NEW t \in Task, Save(t) PROVE (Recoverable').n >= Recoverable.n
  <2>1. CASE SaveLock(t)
    BY <1>1, <2>1 DEF SaveLock, disk
  <2>2. CASE OpenTmp(t)
    BY <1>0, <2>2 DEF OpenTmp
  <2>3. CASE WriteTmp(t) \/ RemoveOld(t) \/ RenameTmp(t)
    <3>1. pc[t] \in SaveSteps /\ doc[t].n >= Recoverable.n
      BY <2>3 DEF WriteTmp, RemoveOld, RenameTmp, Fresh, SaveSteps
    <3>2. Recoverable' \in {Recoverable, doc[t]}
      BY <2>3 DEF WriteTmp, RemoveOld, RenameTmp, StepInv, TypeOK, Content
    <3> QED
      BY <1>0, <3>1, <3>2
  <2> QED
    BY <1>2, <2>1, <2>2, <2>3 DEF Save
<1>3. CASE Load
  <2>1. Recoverable' = Recoverable
    BY <1>3, TaskAssumption DEF Load, LoadLock, ReadFile, ReadTmp, PromoteTmp, FromJson, Goto, StepInv, disk
  <2> QED
    BY <1>0, <2>1
<1>4. CASE Edit \/ PowerLoss \/ (\E b \in Build : Boot(b)) \/ UNCHANGED vars
  BY <1>1, <1>4 DEF Edit, PowerLoss, Boot, vars, disk
<1> QED
  BY <1>2, <1>3, <1>4 DEF Next

(* Whichever tasks save and whenever the power goes, the card never goes   *)
(* back to an older edition.                                               *)
THEOREM CardInOrder ==
    ASSUME ~DirOpMayFail, ~ReadMayFail PROVE Spec => NewerNeverReplacedByOlder
<1>1. Init => DInv
  BY InitDInv
<1>2. DInv /\ [Next]_vars => DInv'
  BY NextKeepsDInv
<1>3. DInv /\ [Next]_vars =>
        [(Recoverable \in Doc /\ Recoverable' \in Doc) => (Recoverable').n >= Recoverable.n]_vars
  BY CardGoesForward
<1> QED
  BY <1>1, <1>2, <1>3, PTL DEF Spec, NewerNeverReplacedByOlder

-----------------------------------------------------------------------------
(* A file of an unknown format is left alone.                              *)

(* A document that is being saved is in this build's format.  A document   *)
(* of a later format keeps every save away: it has been refused, or the    *)
(* load that will refuse it holds the mutex.                               *)
FormatInv ==
    /\ \A t \in Task : pc[t] \in SaveSteps => doc[t].v = build
    /\ build # 0 /\ Recoverable \in Doc /\ Recoverable.v > build =>
         /\ loadRefused \/ pc[Loop] \in LoadSteps
         /\ \A t \in Task : pc[t] \notin SaveSteps
    /\ pc[Loop] = "accept" => doc[Loop] = Recoverable

FInv == IInv /\ FormatInv

(* A load that meets a later format refuses it before it lets the mutex go. *)
LEMMA NextKeepsFormatInv ==
    ASSUME ~ReadMayFail PROVE FInv /\ [Next]_vars => FInv'
<1> SUFFICES ASSUME FInv, [Next]_vars PROVE FormatInv'
  BY NextKeepsIInv DEF FInv
<1> USE TaskAssumption, BuildAssumption, EditionAssumption, ContentAssumption DEF FInv, IInv
<1>1. ASSUME NEW t \in Task, Save(t) PROVE FormatInv'
  <2>1. CASE SaveLock(t)
    BY <2>1 DEF SaveLock, MutexFree, saveBlockedByRefusedLoad, Goto, FormatInv, Recoverable, TypeOK, Mutex, StepInv, Off, PrimaryNeverTorn, SaveSteps, LoadSteps, Content, Doc
  <2>2. CASE OpenTmp(t)
    BY <2>2 DEF OpenTmp, Goto, Release, FormatInv, Recoverable, TypeOK, Mutex, StepInv, Off, PrimaryNeverTorn, SaveSteps, LoadSteps, Content, Doc
  <2>3. CASE WriteTmp(t)
    BY <2>3 DEF WriteTmp, WriteFailed, Goto, Release, FormatInv, Recoverable, TypeOK, Mutex, StepInv, Off, PrimaryNeverTorn, SaveSteps, LoadSteps, Content, Doc
  <2>4. CASE RemoveOld(t)
    BY <2>4 DEF RemoveOld, Goto, FormatInv, Recoverable, TypeOK, Mutex, StepInv, Off, PrimaryNeverTorn, SaveSteps, LoadSteps, Content, Doc
  <2>5. CASE RenameTmp(t)
    BY <2>5 DEF RenameTmp, Goto, Release, FormatInv, Recoverable, TypeOK, Mutex, StepInv, Off, PrimaryNeverTorn, SaveSteps, LoadSteps, Content, Doc
  <2> QED
    BY <1>1, <2>1, <2>2, <2>3, <2>4, <2>5 DEF Save
<1>2. CASE Load
  <2>1. CASE LoadLock
    BY <2>1 DEF LoadLock, MutexFree, Goto, FormatInv, Recoverable, TypeOK, Mutex, StepInv, Off, PrimaryNeverTorn, SaveSteps, LoadSteps, Content, Doc
  <2>2. CASE ReadFile
    BY <2>2 DEF ReadFile, Goto, Release, FormatInv, Recoverable, TypeOK, Mutex, StepInv, Off, PrimaryNeverTorn, SaveSteps, LoadSteps, Content, Doc
  <2>3. CASE ReadTmp
    BY <2>3 DEF ReadTmp, tempParsed, Goto, Release, FormatInv, Recoverable, TypeOK, Mutex, StepInv, Off, PrimaryNeverTorn, SaveSteps, LoadSteps, Content, Doc
  <2>4. CASE PromoteTmp
    BY <2>4 DEF PromoteTmp, Goto, disk, FormatInv, Recoverable, TypeOK, Mutex, StepInv, Off, PrimaryNeverTorn, SaveSteps, LoadSteps, Content, Doc
  <2>5. CASE FromJson
    <3>1. Recoverable' = Recoverable /\ build' = build
      BY <2>5 DEF FromJson, Recoverable
    <3>2. doc[Loop] = Recoverable /\ pc' = [pc EXCEPT ![Loop] = "idle"]
      BY <2>5 DEF FromJson, LoadUnlocks, Goto, Release, FormatInv
    <3>3. \A t \in Task : pc'[t] \notin SaveSteps
      BY <2>5, <3>2 DEF FromJson, Mutex, TypeOK, SaveSteps
    <3>4. pc'[Loop] # "accept"
      BY <3>2 DEF TypeOK
    <3>5. loadRefused' \/ doc[Loop].v <= build
      BY <2>5 DEF FromJson, isKnownFormatVersion
    <3>6. Recoverable \in Doc => Recoverable.v \in Nat /\ build \in Nat
      <4>1. ASSUME NEW d \in Doc PROVE d.v \in Build
        BY DEF Doc
      <4>2. Build \subseteq Nat /\ build \in Nat
        BY DEF TypeOK
      <4> QED
        BY <4>1, <4>2
    <3> QED
      BY <3>1, <3>2, <3>3, <3>4, <3>5, <3>6 DEF FormatInv
  <2> QED
    BY <1>2, <2>1, <2>2, <2>3, <2>4, <2>5 DEF Load
<1>3. CASE Edit
  BY <1>3 DEF Edit, FormatInv, Recoverable
<1>4. CASE PowerLoss
  BY <1>4 DEF PowerLoss, FormatInv, Recoverable, SaveSteps, TypeOK
<1>5. ASSUME NEW b \in Build, Boot(b) PROVE FormatInv'
  BY <1>5 DEF Boot, Goto, FormatInv, Recoverable, TypeOK, Mutex, Off, SaveSteps, LoadSteps
<1>6. CASE UNCHANGED vars
  BY <1>6 DEF vars, FormatInv, Recoverable
<1> QED
  BY <1>1, <1>2, <1>3, <1>4, <1>5, <1>6 DEF Next

(* No step of this build changes a document of a later format. *)
LEMMA UnknownKept ==
    ASSUME FInv, [Next]_vars, build # 0, Recoverable \in Doc, Recoverable.v > build
    PROVE  Recoverable' = Recoverable
<1> USE TaskAssumption, ContentAssumption DEF FInv, IInv, FormatInv
<1>1. CASE \E t \in Task : Save(t)
  BY <1>1 DEF Save, SaveLock, OpenTmp, WriteTmp, RemoveOld, RenameTmp, SaveSteps, Recoverable
<1>2. CASE Load
  BY <1>2 DEF Load, LoadLock, ReadFile, ReadTmp, PromoteTmp, FromJson, StepInv, disk, Recoverable
<1>3. CASE Edit \/ PowerLoss \/ (\E b \in Build : Boot(b)) \/ UNCHANGED vars
  BY <1>3 DEF Edit, PowerLoss, Boot, vars, Recoverable
<1> QED
  BY <1>1, <1>2, <1>3 DEF Next

(* While reads work, a file written in a format this build does not know   *)
(* is what the card still holds after any save this build attempts.        *)
THEOREM UnknownFormatIsKept ==
    ASSUME ~ReadMayFail PROVE Spec => UnknownFormatSurvives
<1>1. Init => FInv
  BY InitIInv, TaskAssumption, ContentAssumption DEF Init, FInv, FormatInv, Recoverable, SaveSteps
<1>2. FInv /\ [Next]_vars => FInv'
  BY NextKeepsFormatInv
<1>3. FInv /\ [Next]_vars =>
        [build # 0 /\ Recoverable \in Doc /\ Recoverable.v > build => Recoverable' = Recoverable]_vars
  BY UnknownKept
<1> QED
  BY <1>1, <1>2, <1>3, PTL DEF Spec, UnknownFormatSurvives

-----------------------------------------------------------------------------
(* The refinement, for a card on which nothing fails and a power that may  *)
(* go at any instant.                                                      *)

(* A load has adopted a temp file before any save can truncate it. *)
AdoptedInv ==
    build # 0 /\ pc[Loop] \notin LoadSteps /\ (\A t \in Task : pc[t] \notin {"remove", "rename"}) =>
        (file = Absent => tmp \notin Doc)

RInv == DInv /\ AdoptedInv

(* While nothing on the card fails, every step keeps RInv. *)
LEMMA NextKeepsRInv ==
    ASSUME ~WriteMayFail, ~DirOpMayFail, ~ReadMayFail PROVE RInv /\ [Next]_vars => RInv'
<1> SUFFICES ASSUME RInv, [Next]_vars PROVE AdoptedInv'
  BY NextKeepsDInv DEF RInv
<1> USE TaskAssumption, BuildAssumption, ContentAssumption DEF RInv, DInv, IInv
<1>1. ASSUME NEW t \in Task, Save(t) PROVE AdoptedInv'
  <2>1. CASE SaveLock(t)
    BY <2>1 DEF SaveLock, MutexFree, Goto, AdoptedInv, TypeOK, Mutex, StepInv, Off, SaveSteps, LoadSteps, Content
  <2>2. CASE OpenTmp(t)
    BY <2>2 DEF OpenTmp, Goto, Release, AdoptedInv, TypeOK, Mutex, StepInv, Off, SaveSteps, LoadSteps, Content
  <2>3. CASE WriteTmp(t)
    BY <2>3 DEF WriteTmp, WriteFailed, Goto, Release, AdoptedInv, TypeOK, Mutex, StepInv, Off, SaveSteps, LoadSteps, Content
  <2>4. CASE RemoveOld(t)
    BY <2>4 DEF RemoveOld, Goto, AdoptedInv, TypeOK, Mutex, StepInv, Off, SaveSteps, LoadSteps, Content
  <2>5. CASE RenameTmp(t)
    BY <2>5 DEF RenameTmp, Goto, Release, AdoptedInv, TypeOK, Mutex, StepInv, Off, SaveSteps, LoadSteps, Content
  <2> QED
    BY <1>1, <2>1, <2>2, <2>3, <2>4, <2>5 DEF Save
<1>2. CASE Load
  <2>1. CASE LoadLock
    BY <2>1 DEF LoadLock, MutexFree, Goto, AdoptedInv, DirInv, TypeOK, Mutex, StepInv, Off, PrimaryNeverTorn, SaveSteps, LoadSteps, Content
  <2>2. CASE ReadFile
    BY <2>2 DEF ReadFile, Goto, Release, AdoptedInv, DirInv, TypeOK, Mutex, StepInv, Off, PrimaryNeverTorn, SaveSteps, LoadSteps, Content
  <2>3. CASE ReadTmp
    BY <2>3 DEF ReadTmp, tempParsed, Goto, Release, AdoptedInv, DirInv, TypeOK, Mutex, StepInv, Off, PrimaryNeverTorn, SaveSteps, LoadSteps, Content
  <2>4. CASE PromoteTmp
    BY <2>4 DEF PromoteTmp, Goto, disk, AdoptedInv, DirInv, TypeOK, Mutex, StepInv, Off, PrimaryNeverTorn, SaveSteps, LoadSteps, Content
  <2>5. CASE FromJson
    BY <2>5 DEF FromJson, LoadUnlocks, Goto, Release, AdoptedInv, DirInv, TypeOK, Mutex, StepInv, Off, PrimaryNeverTorn, SaveSteps, LoadSteps, Content
  <2> QED
    BY <1>2, <2>1, <2>2, <2>3, <2>4, <2>5 DEF Load
<1>3. CASE Edit
  BY <1>3 DEF Edit, AdoptedInv
<1>4. CASE PowerLoss
  BY <1>4 DEF PowerLoss, AdoptedInv
<1>5. ASSUME NEW b \in Build, Boot(b) PROVE AdoptedInv'
  BY <1>5 DEF Boot, Goto, AdoptedInv, TypeOK, LoadSteps
<1>6. CASE UNCHANGED vars
  BY <1>6 DEF vars, AdoptedInv
<1> QED
  BY <1>1, <1>2, <1>3, <1>4, <1>5, <1>6 DEF Next

(* No save is under way unless a task holds the mutex for one. *)
LEMMA WritingIs ==
    ASSUME IInv
    PROVE  /\ \A t \in Task : pc[t] \in SaveSteps => Writing = doc[t] /\ Writing \in Doc
           /\ (\A t \in Task : pc[t] \notin SaveSteps) => Writing = Absent
BY TaskAssumption DEF IInv, Mutex, StepInv, Writing, SaveSteps

(* One step of a save is one step of the durable document, or none. *)
LEMMA SaveRefines ==
    ASSUME ~WriteMayFail, ~DirOpMayFail, RInv, IInv', NEW t \in Task, Save(t)
    PROVE  Durable!Next \/ UNCHANGED <<Recoverable, Writing>>
<1> USE TaskAssumption, ContentAssumption DEF RInv, DInv, IInv
<1>1. CASE SaveLock(t)
  <2>1. pc'[t] \in SaveSteps /\ Recoverable' = Recoverable
    BY <1>1 DEF SaveLock, Goto, TypeOK, SaveSteps, Recoverable
  <2>2. Writing = Absent
    BY <1>1, WritingIs DEF SaveLock, MutexFree, Mutex, SaveSteps
  <2>3. Writing' = doc'[t] /\ doc'[t] \in Doc
    BY <1>1, <2>1 DEF SaveLock, Writing, StepInv
  <2> QED
    BY <2>1, <2>2, <2>3 DEF Durable!Next, Durable!Start
<1>2. CASE OpenTmp(t)
  <2>1. build # 0 /\ pc[Loop] \notin LoadSteps /\ \A u \in Task : pc[u] \notin {"remove", "rename"}
    BY <1>2 DEF OpenTmp, Mutex, Off, LoadSteps
  <2>2. Recoverable' = Recoverable
    BY <1>2, <2>1 DEF OpenTmp, AdoptedInv, Recoverable
  <2>3. Writing' = Writing
    BY <1>2 DEF OpenTmp, Goto, Writing, TypeOK, Mutex, SaveSteps
  <2> QED
    BY <2>2, <2>3
<1>3. CASE WriteTmp(t)
  BY <1>3 DEF WriteTmp, Goto, Writing, TypeOK, Mutex, AdoptedInv, Recoverable, SaveSteps, LoadSteps, StepInv,
              Durable!Next, Durable!Commit
<1>4. CASE RemoveOld(t)
  BY <1>4 DEF RemoveOld, Goto, Writing, TypeOK, Mutex, Recoverable, SaveSteps, StepInv, Durable!Next, Durable!Commit
<1>5. CASE RenameTmp(t)
  BY <1>5 DEF RenameTmp, Goto, Release, Writing, TypeOK, Mutex, DirInv, Recoverable, SaveSteps, StepInv,
              Durable!Next, Durable!Acknowledge
<1> QED
  BY <1>1, <1>2, <1>3, <1>4, <1>5 DEF Save

(* A load changes nothing a reader of the card would see. *)
LEMMA LoadRefines ==
    ASSUME IInv, IInv', Load PROVE UNCHANGED <<Recoverable, Writing>>
<1> USE TaskAssumption, ContentAssumption DEF IInv
<1>1. Recoverable' = Recoverable
  BY DEF Load, LoadLock, ReadFile, ReadTmp, PromoteTmp, FromJson, StepInv, disk, Recoverable
<1>2. \A t \in Task : pc[t] \notin SaveSteps /\ pc'[t] \notin SaveSteps
  BY DEF Load, LoadLock, ReadFile, ReadTmp, PromoteTmp, FromJson, LoadUnlocks, MutexFree, Goto, Release,
         TypeOK, Mutex, SaveSteps
<1> QED
  BY <1>1, <1>2 DEF Writing

(* While the card works, the temp, remove and rename of a save and the     *)
(* adopting load implement a document that is replaced whole or not at     *)
(* all, whichever tasks save and whenever the power goes.                  *)
THEOREM ProtocolImplementsDurableDoc ==
    ASSUME ~WriteMayFail, ~DirOpMayFail, ~ReadMayFail PROVE Spec => ImplementsDurableDoc
<1>1. Init => RInv /\ Durable!Init
  BY InitDInv, TaskAssumption, ContentAssumption
     DEF RInv, AdoptedInv, Init, Durable!Init, Recoverable, Writing
<1>2. RInv /\ [Next]_vars => RInv'
  BY NextKeepsRInv
<1>3. RInv /\ RInv' /\ [Next]_vars => [Durable!Next]_<<Recoverable, Writing>>
  <2> SUFFICES ASSUME RInv, RInv', [Next]_vars
               PROVE  Durable!Next \/ UNCHANGED <<Recoverable, Writing>>
    OBVIOUS
  <2> USE DEF RInv, DInv
  <2>1. CASE \E t \in Task : Save(t)
    BY <2>1, SaveRefines
  <2>2. CASE Load
    BY <2>2, LoadRefines
  <2>3. CASE Edit \/ (\E b \in Build : Boot(b)) \/ UNCHANGED vars
    <3>1. Recoverable' = Recoverable
      BY <2>3 DEF Edit, Boot, vars, Recoverable
    <3>2. Writing' = Writing
      BY <2>3, TaskAssumption DEF Edit, Boot, Goto, vars, Writing, IInv, Off, TypeOK, SaveSteps
    <3> QED
      BY <3>1, <3>2
  <2>4. CASE PowerLoss
    <3>1. Recoverable' = Recoverable /\ Writing' = Absent
      BY <2>4, TaskAssumption DEF PowerLoss, Recoverable, Writing
    <3> QED
      BY <3>1 DEF Durable!Next, Durable!GiveUp
  <2> QED
    BY <2>1, <2>2, <2>3, <2>4 DEF Next
<1> QED
  BY <1>1, <1>2, <1>3, PTL DEF Spec, ImplementsDurableDoc, Durable!Spec, Durable!dvars
=============================================================================
