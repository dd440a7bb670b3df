------------------------ MODULE PublicationDownload ------------------------
(***************************************************************************)
(* One publication and its copies on the card: publication::download, the  *)
(* registry that records its identity (PubKeyRegistry), the reading        *)
(* cache of each path and the one parked book (ParkedBookOf).              *)
(*                                                                         *)
(* A copy is found under the title the downloader gives it, under the name *)
(* the CDN gave it (older builds), or in /read, where the reader moves a   *)
(* finished book.  A download writes a first copy in place and a           *)
(* replacement into a .part file.  Reading caches are keyed on the path and *)
(* do not record what edition the file is.                                 *)
(***************************************************************************)
EXTENDS Integers

CONSTANTS
  MaxEditions,    \* bound: editions of the publication
  Size,           \* [edition -> its number of bytes]
  NoCopy,         \* there is no such file
  MaxJobs,        \* bound: downloads begun
  CloseMayFail,   \* whether the close of a fetched file may lose its end, which nothing looks at
  MaxFaults       \* bound: power cuts, damaged bodies, failed card operations

Editions == 1..MaxEditions
Paths == {"titled", "cdn", "read"}
Files == Paths \cup {"part"}                       \* part is <titled>.part
Copies == [ed : Editions, state : {"whole", "damaged", "short"}]
None == 0

ASSUME EditionsAreSized == MaxEditions \in Nat \ {0} /\ Size \in [Editions -> Nat \ {0}]
(* The code tells editions apart by the number of bytes alone. *)
ASSUME EditionsDiffer == \A d, e \in Editions : Size[d] = Size[e] => d = e
ASSUME CopiesAreApart == NoCopy \notin Copies

VARIABLES
  copy,           \* [Files -> Copies or NoCopy]
  cache,          \* [Paths -> the edition its cache directory was built from, or None]
  parked,         \* the parked book: its path, the file's size then, the edition of its cache
  registered,     \* pubkeys.json has the titled copy's identity
  missed,         \* history: a fault or a cut came where a cache was to be cleared or moved
  answer,         \* what the media API said, and the user's force
  stage, writePath, result,   \* the download: its next step, its file, what it reported
  jobs, faults

vars == <<copy, cache, parked, registered, missed, answer, stage, writePath, result, jobs, faults>>
job == <<answer, writePath, jobs>>

Whole(c) == c # NoCopy /\ c.state = "whole"
Bytes(c) == IF c = NoCopy \/ c.state = "short" THEN 0 ELSE Size[c.ed]
Unread == [path |-> "titled", bytes |-> 0, ed |-> None]

Fault == faults < MaxFaults /\ faults' = faults + 1

(* While a download runs the loop task does nothing else; its report is shown until the *)
(* user goes on.                                                                        *)
Busy == stage # "idle"
Unasked == [ed |-> 1, sized |-> FALSE, summed |-> FALSE, force |-> FALSE]
GoesOn == ~Busy /\ result' = "none" /\ answer' = Unasked /\ UNCHANGED <<writePath, jobs>>

\* ------------------------------------------------------------------- reading
(* ParkedBookOf::take, and Epub::reopenCache against book.bin. *)
samePathIsEnough(p) == parked.ed # None /\ parked.path = p
Taken(p) ==
  parked.ed # None /\ parked.path = p /\ parked.bytes = Bytes(copy[p]) /\ parked.bytes # 0 /\ cache[p] = parked.ed

(* With a cache, a reader looks no further; without, it builds one from the file. *)
Readable(p) == Whole(copy[p]) \/ (copy[p] # NoCopy /\ cache[p] # None)
Sections(p) == IF Taken(p) THEN parked.ed ELSE IF cache[p] # None THEN cache[p] ELSE copy[p].ed

Read(p) ==
  /\ GoesOn /\ Readable(p)
  /\ cache' = [cache EXCEPT ![p] = Sections(p)]
  /\ parked' = [path |-> p, bytes |-> Bytes(copy[p]), ed |-> IF Bytes(copy[p]) = 0 THEN None ELSE Sections(p)]
  /\ UNCHANGED <<copy, registered, missed, stage, faults>>

Moved(from, to) == [copy EXCEPT ![from] = NoCopy, ![to] = copy[from]]

(* moveFinishedBookToReadFolder, as the reader is left at the end of the book. *)
Finish(p) ==
  /\ GoesOn /\ p # "read" /\ Readable(p) /\ copy["read"] = NoCopy /\ parked' = Unread
  /\ \/ /\ copy' = Moved(p, "read") /\ cache["read"] = None /\ UNCHANGED faults
        /\ cache' = [cache EXCEPT ![p] = None, !["read"] = Sections(p)]
     \/ Fault /\ copy' \in {copy, Moved(p, "read")} /\ cache' = [cache EXCEPT ![p] = Sections(p)]
  /\ UNCHANGED <<registered, missed, stage>>

(* Only a log line tells of a cache directory that could not be removed. *)
clearCacheOf(p) ==
  \/ cache' = [cache EXCEPT ![p] = None] /\ UNCHANGED <<missed, faults>>
  \/ cache[p] # None /\ Fault /\ missed' = TRUE /\ UNCHANGED cache

(* The file browser clears the cache, then removes the file; FileTransfer has the web server's requests. *)
Delete(p) ==
  /\ GoesOn /\ copy[p] # NoCopy
  /\ \/ copy' = [copy EXCEPT ![p] = NoCopy] /\ clearCacheOf(p)
     \/ Fault /\ cache' = [cache EXCEPT ![p] = None] /\ UNCHANGED <<copy, missed>>
  /\ UNCHANGED <<parked, registered, stage>>

\* -------------------------------------------------------------- the download
Goto(s) == stage' = s /\ UNCHANGED result
Ends(r) == stage' = "idle" /\ result' = r

(* What the API may say: an edition, and perhaps its size and its checksum. *)
Answers == [ed : Editions, sized : BOOLEAN, summed : BOOLEAN, force : BOOLEAN]

Resolve(a) ==
  /\ ~Busy /\ jobs < MaxJobs /\ jobs' = jobs + 1
  /\ answer' = a /\ result' = "none"
  /\ stage' = IF copy["titled"] = NoCopy /\ copy["cdn"] # NoCopy THEN "moving" ELSE "checking"
  /\ UNCHANGED <<copy, cache, parked, registered, missed, writePath, faults>>

(* migrateCdnNamedCopy: the file, then its caches (then the lists that name it). *)
MoveCdnCopy ==
  /\ stage = "moving"
  /\ \/ copy' = Moved("cdn", "titled") /\ Goto("movedClearing") /\ UNCHANGED faults
     \/ Fault /\ Goto("checking") /\ UNCHANGED copy
  /\ UNCHANGED <<cache, parked, registered, missed, job>>

nothingCleared == UNCHANGED <<cache, missed, faults>>
clearBookCache == clearCacheOf("titled")

ClearForMoved ==
  /\ stage = "movedClearing" /\ clearBookCache /\ Goto("movingCache")
  /\ UNCHANGED <<copy, parked, registered, job>>

MoveCdnCache ==
  /\ stage = "movingCache" /\ Goto("checking")
  /\ \/ /\ cache["titled"] = None /\ UNCHANGED faults
        /\ cache' = [cache EXCEPT !["cdn"] = None, !["titled"] = cache["cdn"]]
     \/ UNCHANGED cache /\ (Fault \/ (cache["titled"] # None /\ UNCHANGED faults))
  /\ UNCHANGED <<copy, parked, registered, missed, job>>

(* Only the size is compared; an answer without one matches nothing. *)
anyCopy(c) == c # NoCopy
alreadyOnCard(c) == c # NoCopy /\ answer.sized /\ Bytes(c) = Size[answer.ed]

Skip ==
  /\ stage = "checking" /\ ~answer.force /\ alreadyOnCard(copy["titled"])
  /\ Goto("recordingSkip")
  /\ UNCHANGED <<copy, cache, parked, registered, missed, job, faults>>

inPlace == "titled"
partOrInPlace == IF copy["titled"] # NoCopy THEN "part" ELSE "titled"

Fetch ==
  /\ stage = "checking" /\ (answer.force \/ ~alreadyOnCard(copy["titled"]))
  /\ writePath' = partOrInPlace /\ Goto("fetching")
  /\ copy' = [copy EXCEPT ![partOrInPlace] = [ed |-> answer.ed, state |-> "short"]]
  /\ UNCHANGED <<cache, parked, registered, missed, answer, jobs, faults>>

Fetched ==
  /\ stage = "fetching" /\ Goto("fetched")
  /\ \/ copy' = [copy EXCEPT ![writePath].state = "whole"] /\ UNCHANGED faults
     \/ copy' = [copy EXCEPT ![writePath].state = "damaged"] /\ Fault
     \/ CloseMayFail /\ Fault /\ UNCHANGED copy
  /\ UNCHANGED <<cache, parked, registered, missed, job>>

Discard == \/ copy' = [copy EXCEPT ![writePath] = NoCopy] /\ UNCHANGED faults
           \/ Fault /\ UNCHANGED copy

(* Cancelled, or the connection or the card failed. *)
NotFetched ==
  /\ stage = "fetching" /\ Discard /\ Ends("failed")
  /\ UNCHANGED <<cache, parked, registered, missed, job>>

matchesChecksum == answer.summed => Whole(copy[writePath])

Mismatch ==
  /\ stage = "fetched" /\ answer.summed /\ Ends("failed")
  /\ \/ ~Whole(copy[writePath]) /\ Discard
     \/ copy' = [copy EXCEPT ![writePath] = NoCopy] /\ Fault    \* it could not be read back
  /\ UNCHANGED <<cache, parked, registered, missed, job>>

Match ==
  /\ stage = "fetched" /\ matchesChecksum
  /\ Goto(IF writePath = "part" THEN "removing" ELSE "clearing")
  /\ UNCHANGED <<copy, cache, parked, registered, missed, job, faults>>

(* Storage.remove's result is not looked at; the rename then finds the name taken. *)
RemoveOld ==
  /\ stage = "removing" /\ Goto("renaming")
  /\ \/ copy' = [copy EXCEPT !["titled"] = NoCopy] /\ UNCHANGED faults
     \/ Fault /\ UNCHANGED copy
  /\ UNCHANGED <<cache, parked, registered, missed, job>>

RenamePart ==
  /\ stage = "renaming"
  /\ \/ /\ copy["titled"] = NoCopy /\ Goto("clearing") /\ UNCHANGED faults
        /\ copy' = [copy EXCEPT !["titled"] = copy["part"], !["part"] = NoCopy]
     \/ /\ Ends("failed") /\ UNCHANGED copy
        /\ Fault \/ (copy["titled"] # NoCopy /\ UNCHANGED faults)
  /\ UNCHANGED <<cache, parked, registered, missed, job>>

ClearForNew ==
  /\ stage = "clearing" /\ clearBookCache /\ Goto("recording")
  /\ UNCHANGED <<copy, parked, registered, job>>

(* PubKeyRegistry::record; its result is not looked at. *)
Record ==
  /\ stage \in {"recording", "recordingSkip"}
  /\ Ends(IF stage = "recording" THEN "ok" ELSE "already")
  /\ \/ registered' = TRUE /\ UNCHANGED faults
     \/ Fault /\ UNCHANGED registered
  /\ UNCHANGED <<copy, cache, parked, missed, job>>

CacheIsDue == stage \in {"movedClearing", "clearing"} \/ (stage = "fetched" /\ writePath = "titled")

(* What a power cut leaves: the card. *)
PowerCut ==
  /\ Fault /\ stage' = "idle" /\ result' = "none" /\ answer' = Unasked /\ parked' = Unread
  /\ missed' = (missed \/ CacheIsDue)
  /\ UNCHANGED <<copy, cache, registered, writePath, jobs>>

Init ==
  /\ copy \in [Files -> {NoCopy, [ed |-> 1, state |-> "whole"]}]
  /\ copy["part"] = NoCopy /\ copy["read"] = NoCopy
  /\ cache = [p \in Paths |-> None] /\ parked = Unread /\ missed = FALSE
  /\ registered \in {FALSE, copy["titled"] # NoCopy}
  /\ answer = Unasked /\ writePath = "titled"
  /\ stage = "idle" /\ result = "none" /\ jobs = 0 /\ faults = 0

Next ==
  \/ \E p \in Paths : Read(p) \/ Finish(p) \/ Delete(p)
  \/ \E a \in Answers : Resolve(a)
  \/ MoveCdnCopy \/ ClearForMoved \/ MoveCdnCache
  \/ Skip \/ Fetch \/ Fetched \/ NotFetched \/ Mismatch \/ Match
  \/ RemoveOld \/ RenamePart \/ ClearForNew \/ Record
  \/ PowerCut

Spec == Init /\ [][Next]_vars

\* ---------------------------------------------------------------- properties
(* A download gives up a whole copy it found only once its replacement is     *)
(* complete beside it, and of the published checksum where there is one;     *)
(* whatever fails, and wherever the power goes, it never tears it in place.  *)
GivenUpForAWholeOne ==
  [][Busy /\ ~(stage = "fetched" /\ writePath = "titled") /\ Whole(copy["titled"]) /\ copy'["titled"] # copy["titled"] =>
       /\ copy'["titled"] = NoCopy
       /\ copy["part"] # NoCopy /\ copy["part"].ed = answer.ed /\ copy["part"].state # "short"
       /\ answer.summed => Whole(copy["part"])]_vars

(* A book is shown from its own edition: no cache, and no parked book, left   *)
(* by another file of the path is used for it. A fault at the very step that *)
(* clears a cache is the exception: nothing clears it later.                 *)
SectionsAreOfTheFile ==
  \A p \in Paths : ~Busy /\ ~missed /\ Whole(copy[p]) => Sections(p) = copy[p].ed

(* What is reported done is there: the edition that was asked for, whole if   *)
(* its checksum was known, and complete even if only its size was compared;  *)
(* and its identity is recorded, unless the registry could not be written.   *)
DoneIsOnTheCard ==
  result \in {"ok", "already"} =>
    /\ copy["titled"] # NoCopy /\ copy["titled"].ed = answer.ed /\ copy["titled"].state # "short"
    /\ result = "ok" /\ answer.summed => Whole(copy["titled"])
    /\ faults = 0 => registered
=============================================================================
