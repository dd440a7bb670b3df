------------------------- MODULE FileTransferProofs -------------------------
(***************************************************************************)
(* Proofs about PublicationDownload, for any editions, any number of       *)
(* downloads and any faults, and about FileTransfer: the requests of the   *)
(* web server keep the same invariant, unless a file is moved or copied to *)
(* a path that has a reading cache.                                        *)
(***************************************************************************)
EXTENDS FileTransfer, TLAPS

Stages == {"idle", "moving", "movedClearing", "movingCache", "checking", "fetching", "fetched",
           "removing", "renaming", "clearing", "recording", "recordingSkip"}

Typed ==
  /\ copy \in [Files -> Copies \cup {NoCopy}]
  /\ cache \in [Paths -> Editions \cup {None}]
  /\ answer \in Answers /\ stage \in Stages /\ writePath \in {"titled", "part"}
  /\ result \in {"none", "failed", "ok", "already"}
  /\ registered \in BOOLEAN /\ missed \in BOOLEAN /\ faults \in Nat

(* A copy the running download has received whole, or at least to the end. *)
Received(f) == copy[f] # NoCopy /\ copy[f].ed = answer.ed /\ copy[f].state # "short"
Checked(f) == Received(f) /\ (answer.summed => Whole(copy[f]))

(* What each step of a download finds on the card. *)
StepsFind ==
  /\ stage = "moving" => copy["titled"] = NoCopy
  /\ stage \in {"movedClearing", "movingCache"} => copy["cdn"] = NoCopy
  /\ stage = "fetching" => copy[writePath] # NoCopy /\ copy[writePath].ed = answer.ed /\ copy[writePath].state = "short"
  /\ stage = "fetched" => Received(writePath)
  /\ stage \in {"removing", "renaming"} => writePath = "part" /\ Checked("part")
  /\ stage \in {"clearing", "recording"} => Checked("titled")
  /\ stage = "recordingSkip" => Received("titled")
  /\ stage # "idle" => result = "none"

(* A cache is of the edition of its path's file, but for the one a download   *)
(* is about to clear; and the cache of a copy being renamed is to follow it.  *)
IsDue == stage \in {"movedClearing", "clearing"} \/ (stage \in {"fetching", "fetched"} /\ writePath = "titled")
CachesMatch ==
  ~missed =>
    /\ \A p \in Paths : cache[p] # None /\ Whole(copy[p]) => cache[p] = copy[p].ed \/ (p = "titled" /\ IsDue)
    /\ stage \in {"movedClearing", "movingCache"} /\ cache["cdn"] # None /\ Whole(copy["titled"])
         => cache["cdn"] = copy["titled"].ed
ReadCacheHasItsFile == ~missed /\ copy["read"] = NoCopy => cache["read"] = None

IInv == Typed /\ StepsFind /\ DoneIsOnTheCard /\ CachesMatch /\ ReadCacheHasItsFile

\* ------------------------------------------------------------------- reading
(* The parked book is only taken with the cache it was loaded from, so what a *)
(* reader shows is the cache's edition, or without a cache the file's.        *)
LEMMA SectionsShown ==
  ASSUME NEW p \in Paths
  PROVE  Sections(p) = IF cache[p] # None THEN cache[p] ELSE copy[p].ed
  BY DEF Sections, Taken

(* There is a first edition. *)
LEMMA FirstEdition == 1 \in Editions /\ Unasked \in Answers
  BY EditionsAreSized DEF Editions, Unasked, Answers

LEMMA InitIInv == Init => IInv
<1> SUFFICES ASSUME Init PROVE IInv
  OBVIOUS
<1>1. [ed |-> 1, state |-> "whole"] \in Copies
  BY FirstEdition DEF Copies
<1>2. Typed
  <2>1. copy \in [Files -> Copies \cup {NoCopy}]
    BY <1>1 DEF Init
  <2>2. registered \in BOOLEAN
    BY DEF Init
  <2>3. QED
    BY <2>1, <2>2, FirstEdition DEF Init, Typed, Stages
<1>3. cache = [p \in Paths |-> None] /\ "read" \in Paths
  BY DEF Init, Paths
<1>4. StepsFind /\ DoneIsOnTheCard
  BY DEF Init, StepsFind, DoneIsOnTheCard
<1>5. CachesMatch /\ ReadCacheHasItsFile
  BY <1>3 DEF Init, CachesMatch, ReadCacheHasItsFile
<1> QED
  BY <1>2, <1>4, <1>5 DEF IInv

\* ------------------------------------------------------- the user's own steps
(* Clearing the cache of a path leaves it without one, or is remembered. *)
LEMMA CacheCleared ==
  ASSUME Typed, NEW p \in Paths, clearCacheOf(p)
  PROVE  /\ cache' \in [Paths -> Editions \cup {None}] /\ missed' \in BOOLEAN /\ faults' \in Nat
         /\ missed' \/ (missed' = missed /\ \A q \in Paths : cache'[q] = IF q = p THEN None ELSE cache[q])
<1>1. CASE cache' = [cache EXCEPT ![p] = None] /\ UNCHANGED <<missed, faults>>
  BY <1>1 DEF Typed
<1>2. CASE cache[p] # None /\ Fault /\ missed' = TRUE /\ UNCHANGED cache
  BY <1>2 DEF Typed, Fault
<1> QED
  BY <1>1, <1>2 DEF clearCacheOf

LEMMA ReadKeepsIInv == ASSUME IInv, NEW p \in Paths, Read(p) PROVE IInv'
<1> USE DEF Files, Paths, IInv
<1>1. Sections(p) \in Editions
  BY SectionsShown DEF Typed, Read, Readable, Whole, Copies, None
<1>2. Typed'
  BY <1>1, FirstEdition DEF Typed, Read, GoesOn
<1>3. StepsFind' /\ DoneIsOnTheCard' /\ ReadCacheHasItsFile'
  BY DEF Read, GoesOn, Readable, Whole, StepsFind, DoneIsOnTheCard, ReadCacheHasItsFile, Busy, Typed, Received, Checked
<1>4. CachesMatch'
  BY SectionsShown DEF Read, GoesOn, Busy, CachesMatch, IsDue, Whole, Typed
<1> QED BY <1>2, <1>3, <1>4

LEMMA FinishKeepsIInv == ASSUME IInv, NEW p \in Paths, Finish(p) PROVE IInv'
<1> USE DEF Files, Paths, IInv
<1>1. Sections(p) \in Editions
  BY SectionsShown DEF Typed, Finish, Readable, Whole, Copies, None
<1>2. faults' \in Nat /\ copy' \in {copy, Moved(p, "read")}
  BY DEF Finish, Fault, Typed
<1>3. Moved(p, "read") \in [Files -> Copies \cup {NoCopy}]
  BY DEF Moved, Typed
<1>4. cache' \in [Paths -> Editions \cup {None}]
  BY <1>1 DEF Finish, Typed
<1>5. Typed'
  BY <1>2, <1>3, <1>4, FirstEdition DEF Typed, Finish, GoesOn
<1>6. StepsFind' /\ DoneIsOnTheCard'
  BY DEF Finish, GoesOn, StepsFind, DoneIsOnTheCard, Busy
<1>7. ReadCacheHasItsFile'
  BY DEF Finish, ReadCacheHasItsFile, Typed, Moved, Readable, Whole
<1>8. CachesMatch'
  BY SectionsShown DEF Finish, GoesOn, Busy, CachesMatch, IsDue, Whole, Typed, Moved, ReadCacheHasItsFile
<1> QED BY <1>5, <1>6, <1>7, <1>8

LEMMA DeleteKeepsIInv == ASSUME IInv, NEW p \in Paths, Delete(p) PROVE IInv'
<1> USE DEF IInv
<1>1. /\ cache' \in [Paths -> Editions \cup {None}] /\ missed' \in BOOLEAN /\ faults' \in Nat
      /\ missed' \/ (missed' = missed /\ \A q \in Paths : cache'[q] = IF q = p THEN None ELSE cache[q])
  <2>1. CASE clearCacheOf(p)
    BY <2>1, CacheCleared
  <2>2. CASE Fault /\ cache' = [cache EXCEPT ![p] = None] /\ UNCHANGED missed
    BY <2>2 DEF Fault, Typed
  <2> QED BY <2>1, <2>2 DEF Delete
<1>2. /\ copy' \in [Files -> Copies \cup {NoCopy}]
      /\ \A q \in Paths : copy'[q] = copy[q] \/ (q = p /\ copy'[q] = NoCopy)
  BY DEF Delete, Typed, Files, Paths
<1>3. Typed'
  BY <1>1, <1>2, FirstEdition DEF Delete, GoesOn, Typed
<1>4. StepsFind' /\ DoneIsOnTheCard'
  BY DEF Delete, GoesOn, StepsFind, DoneIsOnTheCard, Busy
<1>5. ReadCacheHasItsFile'
  BY <1>1, <1>2 DEF ReadCacheHasItsFile, Paths
<1>6. CachesMatch'
  BY <1>1, <1>2 DEF Delete, GoesOn, Busy, CachesMatch, IsDue, Whole
<1> QED BY <1>3, <1>4, <1>5, <1>6

\* --------------------------------------------------------------- the download
LEMMA ResolveKeepsIInv == ASSUME IInv, NEW a \in Answers, Resolve(a) PROVE IInv'
<1> USE DEF Files, Paths, IInv
<1>1. Typed'
  BY DEF Resolve, Typed, Stages
<1>2. StepsFind' /\ DoneIsOnTheCard' /\ ReadCacheHasItsFile'
  BY DEF Resolve, StepsFind, DoneIsOnTheCard, ReadCacheHasItsFile
<1>3. CachesMatch'
  BY DEF Resolve, Busy, CachesMatch, IsDue, Whole
<1> QED BY <1>1, <1>2, <1>3

(* The clearing of the titled copy's cache, when it fails, is a fault missed. *)
LEMMA Clearing ==
  ASSUME Typed, clearBookCache
  PROVE  /\ cache' \in [Paths -> Editions \cup {None}] /\ missed' \in BOOLEAN /\ faults' \in Nat
         /\ missed' \/ (missed' = missed /\ cache' = [cache EXCEPT !["titled"] = None])
         /\ cache'["read"] = cache["read"] /\ cache'["cdn"] = cache["cdn"]
<1>1. CASE cache' = [cache EXCEPT !["titled"] = None] /\ UNCHANGED <<missed, faults>>
  BY <1>1 DEF Typed, Paths
<1>2. CASE Fault /\ missed' = TRUE /\ UNCHANGED cache
  BY <1>2 DEF Typed, Fault
<1> QED BY <1>1, <1>2 DEF clearBookCache, clearCacheOf

(* The copy with the CDN's name, and then its cache, under the title. *)
LEMMA MigrationKeepsIInv == ASSUME IInv, MoveCdnCopy \/ ClearForMoved \/ MoveCdnCache PROVE IInv'
<1> USE DEF Files, Paths, IInv
<1>1. CASE MoveCdnCopy
  <2>1. Typed'
    BY <1>1 DEF MoveCdnCopy, Moved, Goto, Fault, job, Typed, Stages
  <2>2. StepsFind' /\ DoneIsOnTheCard' /\ ReadCacheHasItsFile'
    BY <1>1 DEF MoveCdnCopy, Moved, Goto, job, StepsFind, DoneIsOnTheCard, ReadCacheHasItsFile, Typed
  <2>3. CachesMatch'
    BY <1>1 DEF MoveCdnCopy, Moved, Goto, job, CachesMatch, IsDue, Whole, Typed, StepsFind
  <2> QED BY <2>1, <2>2, <2>3
<1>2. CASE ClearForMoved
  <2>1. Typed'
    BY <1>2, Clearing DEF ClearForMoved, Goto, job, Typed, Stages
  <2>2. StepsFind' /\ DoneIsOnTheCard' /\ ReadCacheHasItsFile'
    BY <1>2, Clearing DEF ClearForMoved, Goto, job, StepsFind, DoneIsOnTheCard, ReadCacheHasItsFile, Typed
  <2>3. CachesMatch'
    BY <1>2, Clearing DEF ClearForMoved, Goto, job, CachesMatch, IsDue, Whole, Typed
  <2> QED BY <2>1, <2>2, <2>3
<1>3. CASE MoveCdnCache
  <2>1. Typed'
    BY <1>3 DEF MoveCdnCache, Goto, Fault, job, Typed, Stages
  <2>2. StepsFind' /\ DoneIsOnTheCard' /\ ReadCacheHasItsFile'
    BY <1>3 DEF MoveCdnCache, Goto, job, StepsFind, DoneIsOnTheCard, ReadCacheHasItsFile, Typed
  <2>3. CachesMatch'
    BY <1>3 DEF MoveCdnCache, Goto, job, CachesMatch, IsDue, Whole, Typed, StepsFind
  <2> QED BY <2>1, <2>2, <2>3
<1> QED BY <1>1, <1>2, <1>3

(* The same size is the same edition, and no edition is empty.                *)
LEMMA SizeTells ==
  ASSUME Typed, alreadyOnCard(copy["titled"])
  PROVE  Received("titled")
<1>1. Size[answer.ed] # 0 /\ answer.ed \in Editions
  BY EditionsAreSized DEF Typed, Answers
<1>2. copy["titled"] \in Copies
  BY DEF alreadyOnCard, Typed, Files, Paths
<1>3. copy["titled"].state # "short" /\ Size[copy["titled"].ed] = Size[answer.ed]
  BY <1>1 DEF alreadyOnCard, Bytes
<1>4. copy["titled"].ed = answer.ed
  BY <1>1, <1>2, <1>3, EditionsDiffer DEF Copies
<1> QED
  BY <1>3, <1>4 DEF Received, alreadyOnCard

LEMMA SkipKeepsIInv == ASSUME IInv, Skip PROVE IInv'
<1> USE DEF Files, Paths, IInv
<1>1. Typed'
  BY DEF Skip, Goto, job, Typed, Stages
<1>2. StepsFind' /\ DoneIsOnTheCard' /\ ReadCacheHasItsFile'
  BY SizeTells DEF Skip, Goto, job, StepsFind, DoneIsOnTheCard, ReadCacheHasItsFile, Received
<1>3. CachesMatch'
  BY DEF Skip, Goto, job, CachesMatch, IsDue, Whole
<1> QED BY <1>1, <1>2, <1>3

LEMMA FetchKeepsIInv == ASSUME IInv, Fetch PROVE IInv'
<1> USE DEF Files, Paths, IInv
<1> DEFINE new == [ed |-> answer.ed, state |-> "short"]
<1>1. partOrInPlace \in {"titled", "part"} /\ new \in Copies /\ new # NoCopy
  BY CopiesAreApart DEF partOrInPlace, Copies, Typed, Answers
<1>2. Typed'
  BY <1>1 DEF Fetch, Goto, Typed, Stages
<1>3. StepsFind' /\ DoneIsOnTheCard' /\ ReadCacheHasItsFile'
  BY <1>1 DEF Fetch, Goto, StepsFind, DoneIsOnTheCard, ReadCacheHasItsFile, Typed
<1>4. CachesMatch'
  BY <1>1 DEF Fetch, Goto, CachesMatch, IsDue, Whole, Typed
<1> QED BY <1>2, <1>3, <1>4

LEMMA FetchedKeepsIInv == ASSUME ~CloseMayFail, IInv, Fetched PROVE IInv'
<1> USE DEF Files, Paths, IInv
<1>1. copy[writePath] \in Copies /\ copy[writePath].ed = answer.ed
  BY DEF Fetched, StepsFind, Typed
<1>2. PICK s \in {"whole", "damaged"} : copy' = [copy EXCEPT ![writePath] = [ed |-> answer.ed, state |-> s]]
  BY <1>1 DEF Fetched, Copies
<1>3. [ed |-> answer.ed, state |-> "whole"] \in Copies /\ [ed |-> answer.ed, state |-> "damaged"] \in Copies
  BY DEF Copies, Typed, Answers
<1>4. faults' \in Nat
  BY DEF Fetched, Fault, Typed
<1>5. Typed'
  BY <1>2, <1>3, <1>4 DEF Fetched, Goto, job, Typed, Stages
<1>6. StepsFind' /\ DoneIsOnTheCard' /\ ReadCacheHasItsFile'
  BY <1>2, <1>3, CopiesAreApart DEF Fetched, Goto, job, StepsFind, DoneIsOnTheCard, ReadCacheHasItsFile, Typed, Received
<1>7. CachesMatch'
  BY <1>2 DEF Fetched, Goto, job, CachesMatch, IsDue, Whole, Typed
<1> QED BY <1>5, <1>6, <1>7

(* A download that fails leaves its file, or takes it away.                   *)
LEMMA FailureKeepsIInv == ASSUME IInv, NotFetched \/ Mismatch PROVE IInv'
<1> USE DEF Files, Paths, IInv
<1>1. copy' \in {copy, [copy EXCEPT ![writePath] = NoCopy]} /\ faults' \in Nat
  BY DEF NotFetched, Mismatch, Discard, Fault, Typed
<1>2. /\ stage \in {"fetching", "fetched"} /\ Ends("failed")
      /\ UNCHANGED <<cache, parked, registered, missed, answer, writePath, jobs>>
  BY DEF NotFetched, Mismatch, job
<1>3. stage = "fetching" => copy[writePath].state = "short"
  BY DEF StepsFind
<1>4. copy' = copy => ~Whole(copy[writePath])
  BY <1>3, CopiesAreApart DEF NotFetched, Mismatch, Whole, StepsFind, Received, Typed
<1>5. Typed'
  BY <1>1, <1>2 DEF Ends, Typed, Stages
<1>6. StepsFind' /\ DoneIsOnTheCard' /\ ReadCacheHasItsFile'
  BY <1>1, <1>2 DEF Ends, StepsFind, DoneIsOnTheCard, ReadCacheHasItsFile, Typed
<1>7. CachesMatch'
  BY <1>1, <1>2, <1>4 DEF Ends, CachesMatch, IsDue, Whole, Typed
<1> QED BY <1>5, <1>6, <1>7

LEMMA MatchKeepsIInv == ASSUME IInv, Match PROVE IInv'
<1> USE DEF Files, Paths, IInv
<1>1. Typed'
  BY DEF Match, Goto, job, Typed, Stages
<1>2. StepsFind' /\ DoneIsOnTheCard' /\ ReadCacheHasItsFile'
  BY DEF Match, matchesChecksum, Goto, job, StepsFind, DoneIsOnTheCard, ReadCacheHasItsFile, Received, Checked, Whole, Typed
<1>3. CachesMatch'
  BY DEF Match, Goto, job, CachesMatch, IsDue, Whole, Typed
<1> QED BY <1>1, <1>2, <1>3

(* The replaced copy goes, and the part file takes its name.                  *)
LEMMA ReplaceKeepsIInv == ASSUME IInv, RemoveOld \/ RenamePart PROVE IInv'
<1> USE DEF Files, Paths, IInv
<1>1. faults' \in Nat
  BY DEF RemoveOld, RenamePart, Fault, Typed
<1>2. CASE RemoveOld
  <2>1. Typed'
    BY <1>1, <1>2 DEF RemoveOld, Goto, job, Typed, Stages
  <2>2. StepsFind' /\ DoneIsOnTheCard' /\ ReadCacheHasItsFile'
    BY <1>2 DEF RemoveOld, Goto, job, StepsFind, DoneIsOnTheCard, ReadCacheHasItsFile, Received, Checked, Whole, Typed
  <2>3. CachesMatch'
    BY <1>2 DEF RemoveOld, Goto, job, CachesMatch, IsDue, Whole, Typed
  <2> QED BY <2>1, <2>2, <2>3
<1>3. CASE RenamePart
  <2>1. Typed'
    BY <1>1, <1>3 DEF RenamePart, Goto, Ends, job, Typed, Stages
  <2>2. StepsFind' /\ DoneIsOnTheCard' /\ ReadCacheHasItsFile'
    BY <1>3 DEF RenamePart, Goto, Ends, job, StepsFind, DoneIsOnTheCard, ReadCacheHasItsFile, Received, Checked, Whole, Typed
  <2>3. CachesMatch'
    BY <1>3 DEF RenamePart, Goto, Ends, job, CachesMatch, IsDue, Whole, Typed
  <2> QED BY <2>1, <2>2, <2>3
<1> QED BY <1>2, <1>3

LEMMA ClearForNewKeepsIInv == ASSUME IInv, ClearForNew PROVE IInv'
<1> USE DEF Files, Paths, IInv
<1>1. Typed'
  BY Clearing DEF ClearForNew, Goto, job, Typed, Stages
<1>2. StepsFind' /\ DoneIsOnTheCard' /\ ReadCacheHasItsFile'
  BY Clearing DEF ClearForNew, Goto, job, StepsFind, DoneIsOnTheCard, ReadCacheHasItsFile, Received, Checked, Whole, Typed
<1>3. CachesMatch'
  BY Clearing DEF ClearForNew, Goto, job, CachesMatch, IsDue, Whole, Typed
<1> QED BY <1>1, <1>2, <1>3

LEMMA RecordKeepsIInv == ASSUME IInv, Record PROVE IInv'
<1> USE DEF Files, Paths, IInv
<1>1. faults' \in Nat /\ registered' \in BOOLEAN /\ (faults' = 0 => registered')
  <2>1. CASE registered' = TRUE /\ UNCHANGED faults
    BY <2>1 DEF Typed
  <2>2. CASE Fault /\ UNCHANGED registered
    <3>1. faults' \in Nat /\ faults' # 0
      BY <2>2 DEF Fault, Typed
    <3> QED BY <2>2, <3>1 DEF Typed
  <2> QED BY <2>1, <2>2 DEF Record
<1>2. Typed'
  BY <1>1 DEF Record, Ends, job, Typed, Stages
<1>3. StepsFind' /\ DoneIsOnTheCard' /\ ReadCacheHasItsFile'
  BY <1>1 DEF Record, Ends, job, StepsFind, DoneIsOnTheCard, ReadCacheHasItsFile, Received, Checked, Whole, Typed
<1>4. CachesMatch'
  BY DEF Record, Ends, job, CachesMatch, IsDue, Whole, Typed
<1> QED BY <1>2, <1>3, <1>4

LEMMA PowerCutKeepsIInv == ASSUME IInv, PowerCut PROVE IInv'
<1> USE DEF Files, Paths, IInv
<1>1. Typed'
  BY FirstEdition DEF PowerCut, Fault, Typed, Stages
<1>2. StepsFind' /\ DoneIsOnTheCard' /\ ReadCacheHasItsFile'
  BY DEF PowerCut, StepsFind, DoneIsOnTheCard, ReadCacheHasItsFile
<1>3. CachesMatch'
  BY CopiesAreApart DEF PowerCut, CacheIsDue, CachesMatch, IsDue, Whole, StepsFind, Typed
<1> QED BY <1>1, <1>2, <1>3

LEMMA NextIInv == ASSUME ~CloseMayFail, IInv, [Next]_vars PROVE IInv'
<1>1. CASE UNCHANGED vars
  BY <1>1 DEF vars, IInv, Typed, StepsFind, DoneIsOnTheCard, CachesMatch, IsDue, ReadCacheHasItsFile,
              Received, Checked, Whole
<1>2. CASE Next
  BY <1>2, ReadKeepsIInv, FinishKeepsIInv, DeleteKeepsIInv, ResolveKeepsIInv, MigrationKeepsIInv, SkipKeepsIInv,
     FetchKeepsIInv, FetchedKeepsIInv, FailureKeepsIInv, MatchKeepsIInv, ReplaceKeepsIInv, ClearForNewKeepsIInv,
     RecordKeepsIInv, PowerCutKeepsIInv DEF Next
<1> QED BY <1>1, <1>2

LEMMA Invariant == ASSUME ~CloseMayFail PROVE Spec => []IInv
<1>1. Init => IInv
  BY InitIInv
<1>2. IInv /\ [Next]_vars => IInv'
  BY NextIInv
<1> QED
  BY <1>1, <1>2, PTL DEF Spec

(* A reader of a path shows its file. *)
LEMMA IInvShows == IInv => SectionsAreOfTheFile
<1> SUFFICES ASSUME IInv, NEW p \in Paths, ~Busy, ~missed, Whole(copy[p]) PROVE Sections(p) = copy[p].ed
  BY DEF SectionsAreOfTheFile
<1>1. cache[p] # None => cache[p] = copy[p].ed
  BY DEF IInv, CachesMatch, IsDue, Busy
<1> QED
  BY <1>1, SectionsShown

\* --------------------------------------------------------------- the theorems
(* What download reports done is on the card, of the edition the API named,   *)
(* and of its checksum where a checksum was to be had; if closing the fetched *)
(* file, here and in the theorems below, does not lose its end.               *)
THEOREM ReportsWhatIsThere == ASSUME ~CloseMayFail PROVE Spec => []DoneIsOnTheCard
<1>1. IInv => DoneIsOnTheCard
  BY DEF IInv
<1> QED
  BY <1>1, Invariant, PTL

(* No reading cache and no parked book of another edition is shown for a      *)
(* path's file, unless the very step that clears a cache failed.              *)
THEOREM ShownFromItsEdition == ASSUME ~CloseMayFail PROVE Spec => []SectionsAreOfTheFile
<1>1. IInv => SectionsAreOfTheFile
  BY IInvShows
<1> QED
  BY <1>1, Invariant, PTL

(* A whole copy goes only once download holds its replacement, complete and   *)
(* checked, in the part file: whatever else than the close of that file fails,*)
(* and wherever the power is cut.                                             *)
THEOREM NeverTornInPlace == ASSUME ~CloseMayFail PROVE Spec => GivenUpForAWholeOne
<1> DEFINE GivesUp == Busy /\ ~(stage = "fetched" /\ writePath = "titled") /\ Whole(copy["titled"])
                        /\ copy'["titled"] # copy["titled"]
           HasNew == /\ copy'["titled"] = NoCopy
                     /\ copy["part"] # NoCopy /\ copy["part"].ed = answer.ed /\ copy["part"].state # "short"
                     /\ answer.summed => Whole(copy["part"])
<1>1. IInv /\ [Next]_vars => (GivesUp => HasNew)
  <2> SUFFICES ASSUME IInv, [Next]_vars, GivesUp PROVE HasNew
    OBVIOUS
  <2> USE DEF Files, Paths
  <2>1. CASE RemoveOld
    BY <2>1 DEF RemoveOld, IInv, Typed, StepsFind, Checked, Received
  <2>2. ~ MoveCdnCopy
    BY DEF MoveCdnCopy, IInv, StepsFind, Whole
  <2>3. ~ Fetch
    BY DEF Fetch, partOrInPlace, IInv, Typed, Whole
  <2>4. ~ (Fetched \/ NotFetched)
    BY DEF Fetched, NotFetched, Discard, IInv, Typed, StepsFind, Whole
  <2>5. ~ Mismatch
    BY DEF Mismatch, Discard, IInv, Typed
  <2>6. ~ RenamePart
    BY DEF RenamePart, Whole
  <2>7. UNCHANGED copy \/ RemoveOld
    BY <2>2, <2>3, <2>4, <2>5, <2>6
       DEF Next, vars, Read, Finish, Delete, GoesOn, Resolve, Busy, ClearForMoved, MoveCdnCache, Skip, Match,
           ClearForNew, Record, PowerCut
  <2> QED BY <2>1, <2>7
<1>2. IInv /\ [Next]_vars => [GivesUp => HasNew]_vars
  BY <1>1
<1> QED
  BY <1>2, Invariant, PTL DEF Spec, GivenUpForAWholeOne

-----------------------------------------------------------------------------
(* The web server. *)

(* A request finds no download in hand and leaves nothing reported. *)
LEMMA NothingReported ==
  ASSUME Serves PROVE StepsFind' /\ DoneIsOnTheCard' /\ stage' = "idle" /\ ~Busy
  BY DEF Serves, Busy, StepsFind, DoneIsOnTheCard

(* ... so a request keeps the invariant if it keeps the types and the caches. *)
LEMMA RequestKeepsIInv ==
  ASSUME IInv, Serves,
         copy' \in [Files -> Copies \cup {NoCopy}], cache' \in [Paths -> Editions \cup {None}],
         missed' \in BOOLEAN, faults' \in Nat, CachesMatch', ReadCacheHasItsFile'
  PROVE  IInv'
<1>1. Typed'
  BY FirstEdition DEF IInv, Typed, Serves
<1> QED
  BY <1>1, NothingReported DEF IInv

(* What a request writes is a copy. *)
LEMMA CopiesHeld ==
  ASSUME Typed, NEW p \in Paths, NEW e \in Editions, NEW state \in {"whole", "short"},
         Holds(p, e, state)
  PROVE  /\ copy' \in [Files -> Copies \cup {NoCopy}]
         /\ copy'[p] = [ed |-> e, state |-> state] /\ copy'[p] # NoCopy
         /\ \A q \in Paths : q # p => copy'[q] = copy[q]
<1>1. [ed |-> e, state |-> state] \in Copies
  BY DEF Copies
<1> QED
  BY <1>1, CopiesAreApart DEF Holds, Typed, Files

LEMMA FaultTyped == ASSUME Typed, Interrupted PROVE faults' \in Nat
  BY DEF Interrupted, Fault, Typed

LEMMA UploadKeepsIInv ==
  ASSUME IInv, NEW p \in Paths, NEW e \in Editions, Upload(p, e) \/ Put(p, e) PROVE IInv'
<1> USE DEF IInv
<1>1. Serves
  BY DEF Upload, Put
<1>2. CASE Holds(p, e, "whole") /\ clearCacheOf(p)
  <2>1. /\ copy' \in [Files -> Copies \cup {NoCopy}]
        /\ \A q \in Paths : q # p => copy'[q] = copy[q]
    BY <1>2, CopiesHeld
  <2>2. missed' \/ (missed' = missed /\ cache'[p] = None /\ \A q \in Paths : q # p => cache'[q] = cache[q])
    BY <1>2, CacheCleared
  <2>3. CachesMatch'
    BY <1>1, <2>1, <2>2 DEF CachesMatch, Serves, Busy, IsDue, Whole
  <2>4. ReadCacheHasItsFile'
    BY <2>1, <2>2 DEF ReadCacheHasItsFile, Paths
  <2> QED
    BY <1>1, <1>2, <2>1, <2>3, <2>4, CacheCleared, RequestKeepsIInv
<1>3. CASE Interrupted /\ CacheIsLeft(p) /\ (Gives(p) \/ Holds(p, e, "whole") \/ Holds(p, e, "short"))
  <2>1. /\ copy' \in [Files -> Copies \cup {NoCopy}]
        /\ \A q \in Paths : q # p => copy'[q] = copy[q]
    BY <1>3, CopiesHeld DEF Gives, Typed, Files
  <2>2. /\ cache' = cache /\ cache' \in [Paths -> Editions \cup {None}]
        /\ missed' \in BOOLEAN
        /\ missed' \/ (missed' = missed /\ (cache[p] = None \/ copy'[p] = copy[p]))
    BY <1>3 DEF CacheIsLeft, Typed
  <2>3. CachesMatch'
    BY <1>1, <2>1, <2>2 DEF CachesMatch, Serves, Busy, IsDue, Whole
  <2>4. ReadCacheHasItsFile'
    BY <2>1, <2>2 DEF ReadCacheHasItsFile, Paths
  <2> QED
    BY <1>1, <1>3, <2>1, <2>2, <2>3, <2>4, FaultTyped, RequestKeepsIInv
<1> QED
  BY <1>2, <1>3 DEF Upload, Put

LEMMA RemoveKeepsIInv ==
  ASSUME IInv, NEW p \in Paths, Remove(p) PROVE IInv'
<1> USE DEF IInv
<1>1. Serves
  BY DEF Remove
<1>2. Gives(p) => /\ copy' \in [Files -> Copies \cup {NoCopy}] /\ copy'[p] = NoCopy
                  /\ \A q \in Paths : q # p => copy'[q] = copy[q]
  BY DEF Gives, Typed, Files
<1>3. CASE Gives(p) /\ clearCacheOf(p)
  <2>1. CachesMatch'
    BY <1>1, <1>2, <1>3, CacheCleared DEF CachesMatch, Serves, Busy, IsDue, Whole, Typed
  <2>2. ReadCacheHasItsFile'
    BY <1>2, <1>3, CacheCleared DEF ReadCacheHasItsFile, Typed, Paths
  <2> QED
    BY <1>1, <1>2, <1>3, <2>1, <2>2, CacheCleared, RequestKeepsIInv
<1>4. CASE Interrupted /\ Gives(p) /\ CacheIsLeft(p)
  <2>1. /\ cache' = cache /\ cache' \in [Paths -> Editions \cup {None}]
        /\ missed' \in BOOLEAN
        /\ missed' \/ (missed' = missed /\ (cache[p] = None \/ copy'[p] = copy[p]))
    BY <1>4 DEF CacheIsLeft, Typed
  <2>2. CachesMatch'
    BY <1>1, <1>2, <1>4, <2>1 DEF CachesMatch, Serves, Busy, IsDue, Whole
  <2>3. ReadCacheHasItsFile'
    BY <1>2, <1>4, <2>1 DEF ReadCacheHasItsFile, Paths
  <2> QED
    BY <1>1, <1>2, <1>4, <2>1, <2>2, <2>3, FaultTyped, RequestKeepsIInv
<1>5. CASE Interrupted /\ UNCHANGED <<copy, missed>> /\ cache' = [cache EXCEPT ![p] = None]
  <2>1. CachesMatch' /\ ReadCacheHasItsFile' /\ cache' \in [Paths -> Editions \cup {None}]
    BY <1>1, <1>5 DEF CachesMatch, ReadCacheHasItsFile, Serves, Busy, IsDue, Whole, Typed, Paths
  <2> QED
    BY <1>1, <1>5, <2>1, FaultTyped, RequestKeepsIInv DEF Typed
<1> QED
  BY <1>3, <1>4, <1>5 DEF Remove

(* The path a file is moved or copied to has no cache to be taken for the file's. *)
LEMMA MoveKeepsIInv ==
  ASSUME ~OntoACache, IInv, NEW p \in Paths, NEW q \in Paths, MoveTo(p, q) PROVE IInv'
<1> USE DEF IInv
<1>1. Serves /\ p # q /\ cache[q] = None
  BY DEF MoveTo, Onto
<1>2. CASE copy' = Moved(p, q) /\ clearCacheOf(p)
  <2>1. /\ copy' \in [Files -> Copies \cup {NoCopy}] /\ copy'[p] = NoCopy
        /\ \A r \in Paths : r # p /\ r # q => copy'[r] = copy[r]
        /\ copy'[q] = copy[p]
    BY <1>1, <1>2 DEF Moved, Typed, Files
  <2>2. copy[p] # NoCopy
    BY DEF MoveTo, Onto
  <2>3. CachesMatch'
    BY <1>1, <1>2, <2>1, CacheCleared DEF CachesMatch, Serves, Busy, IsDue, Whole, Typed
  <2>4. ReadCacheHasItsFile'
    BY <1>1, <1>2, <2>1, <2>2, CacheCleared DEF ReadCacheHasItsFile, Typed, Paths
  <2> QED
    BY <1>1, <1>2, <2>1, <2>3, <2>4, CacheCleared, RequestKeepsIInv
<1>3. CASE /\ Interrupted /\ UNCHANGED missed
           /\ Gives(q) \/ UNCHANGED copy
           /\ cache' \in {cache, [cache EXCEPT ![p] = None]}
  <2>1. /\ copy' \in [Files -> Copies \cup {NoCopy}]
        /\ \A r \in Paths : r # q => copy'[r] = copy[r]
        /\ copy'[q] \in {copy[q], NoCopy}
    BY <1>3 DEF Gives, Typed, Files
  <2>2. /\ cache' \in [Paths -> Editions \cup {None}]
        /\ \A r \in Paths : cache'[r] \in {cache[r], None}
    BY <1>3 DEF Typed
  <2>3. CachesMatch'
    BY <1>1, <1>3, <2>1, <2>2 DEF CachesMatch, Serves, Busy, IsDue, Whole
  <2>4. ReadCacheHasItsFile'
    BY <1>1, <1>3, <2>1, <2>2 DEF ReadCacheHasItsFile, Paths
  <2> QED
    BY <1>1, <1>3, <2>1, <2>2, <2>3, <2>4, FaultTyped, RequestKeepsIInv DEF Typed
<1> QED
  BY <1>2, <1>3 DEF MoveTo

LEMMA CopyKeepsIInv ==
  ASSUME ~OntoACache, IInv, NEW p \in Paths, NEW q \in Paths, CopyTo(p, q) PROVE IInv'
<1> USE DEF IInv
<1>1. Serves /\ cache[q] = None /\ copy[p] # NoCopy /\ UNCHANGED <<cache, missed>>
  BY DEF CopyTo, Onto
<1>2. copy[p] \in Copies /\ copy[p].ed \in Editions
  BY <1>1 DEF Typed, Files, Copies
<1>3. /\ copy' \in [Files -> Copies \cup {NoCopy}]
      /\ \A r \in Paths : r # q => copy'[r] = copy[r]
  BY <1>2, CopiesHeld DEF CopyTo, Gives, Typed, Files
<1>4. CachesMatch'
  BY <1>1, <1>3 DEF CachesMatch, Serves, Busy, IsDue, Whole
<1>5. ReadCacheHasItsFile'
  BY <1>1, <1>3 DEF ReadCacheHasItsFile, Paths
<1>6. faults' \in Nat
  BY FaultTyped DEF CopyTo, Typed
<1> QED
  BY <1>1, <1>3, <1>4, <1>5, <1>6, RequestKeepsIInv DEF Typed

LEMMA TransferInvariant == ASSUME ~CloseMayFail, ~OntoACache PROVE TSpec => []IInv
<1>1. TInit => IInv
  BY InitIInv DEF TInit
<1>2. IInv /\ [TNext]_tvars => IInv'
  <2> SUFFICES ASSUME IInv, [TNext]_tvars PROVE IInv'
    OBVIOUS
  <2>1. CASE Next \/ UNCHANGED tvars
    BY <2>1, NextIInv DEF tvars
  <2>2. CASE ~Next /\ ~UNCHANGED tvars
    BY <2>2, UploadKeepsIInv, RemoveKeepsIInv, MoveKeepsIInv, CopyKeepsIInv DEF TNext
  <2> QED
    BY <2>1, <2>2
<1> QED
  BY <1>1, <1>2, PTL DEF TSpec

\* --------------------------------------------------------------- the theorems
(* Whatever the web server is asked for between readings and downloads, and   *)
(* wherever a request is cut short, no path's file is shown from the cache    *)
(* or the parked book of another edition, unless the step that clears a cache *)
(* failed, or the cache belonged to a path a file was moved or copied to.     *)
THEOREM ShownAfterTransfers == ASSUME ~CloseMayFail, ~OntoACache PROVE TSpec => []SectionsAreOfTheFile
<1>1. IInv => SectionsAreOfTheFile
  BY IInvShows
<1> QED
  BY <1>1, TransferInvariant, PTL

(* Nor does a request leave a download's report standing for a file that the  *)
(* request has changed.                                                      *)
THEOREM ReportsStand == ASSUME ~CloseMayFail, ~OntoACache PROVE TSpec => []DoneIsOnTheCard
<1>1. IInv => DoneIsOnTheCard
  BY DEF IInv
<1> QED
  BY <1>1, TransferInvariant, PTL
=============================================================================
