----------------------------- MODULE BibleSearch ----------------------------
(***************************************************************************)
(* The Bible search screen (src/activities/reader/BibleSearchActivity.cpp) *)
(* over the store that reads the index (src/study/BibleSearchStore.cpp)    *)
(* and the indexer that builds it one document per loop pass               *)
(* (src/study/BibleSearchIndexer.cpp).  All of it runs on the main task:   *)
(* an action is one pass of loop(), and what comes between two is a power  *)
(* cut, the user, or the Bible on the card being replaced while search is  *)
(* closed.  A book is one document; a book whose map cannot be read is     *)
(* lost whole.  Two Bibles differ in size or spine count.                  *)
(***************************************************************************)
EXTENDS Integers, Sequences, Ascending

CONSTANTS
    Bibles,           \* the editions that may be on the card
    Books,            \* numbers, in canonical order
    Malformed,        \* of each Bible, the documents the scanner rejects
    Continues,        \* the documents that start inside the previous one's verse
    LostSets,         \* sets of books a resolve may fail to map
    CHECKPOINT_EVERY,
    None,
    MaxCuts,          \* bound: power cuts
    MaxReplaced       \* bound: replacements of the Bible

BIBLE_BOOKS == 66

ASSUME BooksAreNumbered == Books \subseteq 1..BIBLE_BOOKS

VARIABLES
    bible,            \* the card: the Bible,
    index,            \*   bible.idx,
    partial,          \*   bible.partial,
    record,           \*   and search-fingerprint.bin
    store,            \* what BibleSearchStore keeps of the Bible it identified
    reader,           \* its reader, held between visits
    state,            \* the screen's state; "Closed" when it is not there
    job,              \* the indexer, None when there is none
    cuts, replaced    \* bounds

card == <<bible, index, partial, record>>
vars == <<card, store, reader, state, job, cuts, replaced>>

Fingerprint(list) == [bible |-> bible, list |-> list]

Order(list) == InOrder(list)

Forgotten == [bible |-> None, fp |-> None, load |-> "unread", recFp |-> None, docs |-> None]

Init ==
    /\ bible \in Bibles /\ index = None /\ partial = None /\ record = None
    /\ store = Forgotten /\ reader = None /\ state = "Closed" /\ job = None
    /\ cuts = 0 /\ replaced = 0

-----------------------------------------------------------------------------
(* BibleSearchStore.  `e` says how the card behaves in this pass: whether  *)
(* the EPUB can be sized and the record read, which books are lost, and    *)
(* what a save of the record leaves.                                       *)
Passes == [sized : BOOLEAN, readable : BOOLEAN, lost : LostSets, saved : {"new", "old", "gone"}]

Replaces(file, new, outcome) ==
    CASE outcome = "new" -> new [] outcome = "gone" -> None [] OTHER -> file

(* Mutation: the path alone identifies the Bible. *)
samePath(s) == s.bible # None

sameBible(s) == s.bible = bible

identify(s, e) ==
    IF ~e.sized THEN Forgotten
    ELSE IF sameBible(s) THEN s ELSE [Forgotten EXCEPT !.bible = bible]

loadRecord(s, e) ==
    IF s.load # "unread" \/ record = None THEN [s EXCEPT !.load = IF @ = "unread" THEN "missing" ELSE @]
    ELSE IF ~e.readable THEN [s EXCEPT !.load = "unreadable"]
    ELSE IF record.bible # s.bible THEN [s EXCEPT !.load = "stale"]
    ELSE [s EXCEPT !.load = "ok", !.recFp = record.fp]

mayOverwrite(load) == load # "unreadable"

(* Mutation: whatever was resolved is worth a record. *)
anyBook(list) == TRUE

coversEveryBook(list) == list = Books

persistFingerprint(s, e) ==
    LET l == loadRecord(s, e)
        idle == (l.load = "ok" /\ l.recFp = l.fp) \/ ~mayOverwrite(l.load)
    IN  IF ~coversEveryBook(s.docs) THEN [mem |-> s, file |-> record]
        ELSE IF idle THEN [mem |-> l, file |-> record]
        ELSE [mem |-> IF e.saved = "new" THEN [l EXCEPT !.load = "ok", !.recFp = l.fp] ELSE l,
              file |-> Replaces(record, [bible |-> l.bible, fp |-> l.fp], e.saved)]

resolveDocuments(s, e) ==
    LET list == Books \ e.lost
    IN  IF list = {} THEN [mem |-> [s EXCEPT !.docs = None], file |-> record]
        ELSE persistFingerprint([s EXCEPT !.docs = list, !.fp = Fingerprint(list)], e)

fingerprintFor(s, e) ==
    LET l == loadRecord(s, e)
    IN  IF s.bible = None \/ s.fp # None THEN [mem |-> s, file |-> record]
        ELSE IF l.load = "ok" THEN [mem |-> [l EXCEPT !.fp = l.recFp], file |-> record]
        ELSE resolveDocuments(l, e)

documents(s, e) ==
    IF s.bible = None \/ s.docs # None THEN [mem |-> s, file |-> record] ELSE resolveDocuments(s, e)

(* forgetBible releases the reader with the rest. *)
readerAfter(s) == IF s.bible = store.bible THEN reader ELSE None

-----------------------------------------------------------------------------
(* The screen opens: open() reuses a held reader of this fingerprint while *)
(* bible.idx is the file it was opened on, else opens bible.idx.           *)
Enter ==
    /\ state = "Closed" /\ state' = "Opening"
    /\ UNCHANGED <<card, store, reader, job, cuts, replaced>>

usable(file, s) == file # None /\ s.fp # None /\ file.fp = s.fp

(* The header tells the fingerprint and how much there is, not the verses. *)
heldIndexMatches(held) ==
    held # None /\ index # None /\ held.fp = index.fp /\ Len(held.built) = Len(index.built)

OpenIndex ==
    /\ state \in {"Opening", "Ready"}
    /\ \E e \in Passes, opens \in BOOLEAN :
         LET s == identify(store, e)
             f == fingerprintFor(s, e)
             held == readerAfter(s)
         IN  /\ store' = f.mem /\ record' = f.file
             /\ reader' = IF ~opens THEN None
                          ELSE IF usable(held, f.mem) /\ heldIndexMatches(held) THEN held
                          ELSE IF usable(index, f.mem) THEN index ELSE None
    /\ state' = IF reader' # None THEN "Query" ELSE "Asking"
    /\ UNCHANGED <<bible, index, partial, job, cuts, replaced>>

(* Without a reader the screen asks status(), which identifies the Bible   *)
(* and fingerprints it again, and prompts.                                 *)
AskStatus ==
    /\ state = "Asking" /\ state' = "Prompt"
    /\ \E e \in Passes :
         LET f == fingerprintFor(identify(store, e), e)
         IN  store' = f.mem /\ record' = f.file
    /\ UNCHANGED <<bible, index, partial, reader, job, cuts, replaced>>

(* A query that cannot read the index closes the reader and prompts. *)
QueryFails ==
    /\ state = "Query" /\ state' = "Prompt" /\ reader' = None
    /\ UNCHANGED <<card, store, job, cuts, replaced>>

Confirm ==
    /\ state = "Prompt" /\ state' = "Starting"
    /\ UNCHANGED <<card, store, reader, job, cuts, replaced>>

-----------------------------------------------------------------------------
(* BibleSearchIndexer.  A job holds its own copy of the list, the verses   *)
(* built so far as one entry per document, docsDone and                    *)
(* lastCheckpointDocs.  `pass` flips with every pass that works on it: one *)
(* that achieves nothing still runs, and is what a loop would be made of.  *)

total(j) == Len(j.list)
allDocumentsIndexed(j) == j.done >= total(j)

(* Mutation: a checkpoint of any Bible is resumed. *)
anyCheckpoint(j) == TRUE

isForThis(j) == partial.fp = j.fp

(* A load that fails part way leaves the builder half filled; it is        *)
(* replaced, and the build starts over.                                    *)
resumeFromCheckpoint(j, loads) ==
    IF partial # None /\ loads /\ isForThis(j) /\ partial.done <= total(j)
    THEN [j EXCEPT !.built = partial.built, !.done = partial.done, !.saved = partial.done]
    ELSE j

Begin ==
    /\ state = "Starting"
    /\ reader' = None
    /\ \E e \in Passes, memory, loads \in BOOLEAN :
         LET f == documents(identify(store, e), e)
             j == [fp |-> Fingerprint(f.mem.docs), list |-> Order(f.mem.docs), built |-> <<>>,
                   done |-> 0, saved |-> 0, retried |-> FALSE, pass |-> FALSE]
         IN  /\ store' = f.mem /\ record' = f.file
             /\ job' = IF f.mem.docs = None \/ ~memory THEN None ELSE resumeFromCheckpoint(j, loads)
    /\ state' = IF job' = None THEN "Failed"
                ELSE IF allDocumentsIndexed(job') THEN "Finishing" ELSE "Building"
    /\ UNCHANGED <<bible, index, partial, cuts, replaced>>

wellFormed(b, d) == d \notin Malformed[b]

(* A document that starts inside a verse adds to the last verse there is. *)
appendToLastVerse(built, d) ==
    IF d \in Continues /\ built # <<>>
    THEN [built EXCEPT ![Len(built)].tail = @ \cup {d}]
    ELSE built

indexDocument(built, d) == Append(appendToLastVerse(built, d), [doc |-> d, tail |-> {}])

checkpointOf(j) == [fp |-> j.fp, built |-> j.built, done |-> j.done]

(* What a write of bible.partial or bible.idx may leave: the new file; the *)
(* old one, after a short write or too large a build; neither, between the *)
(* remove and the rename; or the old one and a builder out of memory.      *)
Writes == {"new", "old", "gone", "memory"}

indexedOrSkipped(j, b, d) ==
    [j EXCEPT !.built = IF wellFormed(b, d) THEN indexDocument(@, d) ELSE @,
              !.done = @ + 1, !.pass = ~@]

freedAfter(j) == None

StepFails ==
    /\ state = "Building" /\ state' = "Failed" /\ job' = freedAfter(job)
    /\ UNCHANGED <<card, store, reader, cuts, replaced>>

checkpointDue(j) == j.done % CHECKPOINT_EVERY = 0 /\ ~allDocumentsIndexed(j)

StepIndexes ==
    /\ state = "Building"
    /\ \E w \in Writes :
         LET j == indexedOrSkipped(job, bible, job.list[job.done + 1])
             due == checkpointDue(j)
             failed == due /\ w = "memory"
         IN  /\ partial' = IF due THEN Replaces(partial, checkpointOf(j), w) ELSE partial
             /\ job' = IF failed THEN freedAfter(j)
                       ELSE IF due /\ w = "new" THEN [j EXCEPT !.saved = j.done] ELSE j
             /\ state' = IF failed THEN "Failed"
                         ELSE IF allDocumentsIndexed(j) THEN "Finishing" ELSE "Building"
    /\ UNCHANGED <<bible, index, record, store, reader, cuts, replaced>>

UserCancels ==
    /\ state = "Building" /\ state' = "Saving"
    /\ UNCHANGED <<card, store, reader, job, cuts, replaced>>

(* cancel(): the work is checkpointed and the build freed. *)
cancel(j) ==
    /\ job' = None
    /\ IF j # None /\ j.done > j.saved
       THEN \E w \in Writes : partial' = Replaces(partial, checkpointOf(j), w)
       ELSE partial' = partial

(* Mutation: the retry is not remembered. *)
triedForever(j) == [j EXCEPT !.pass = ~@]

tried(j) == [j EXCEPT !.retried = TRUE, !.pass = ~@]

FinishWrites ==
    /\ state = "Finishing" /\ state' = "Ready"
    /\ index' = [fp |-> job.fp, built |-> job.built]
    /\ partial' \in {None, partial}
    /\ job' = None
    /\ UNCHANGED <<bible, record, store, reader, cuts, replaced>>

FinishFails ==
    /\ state = "Finishing"
    /\ \E w \in Writes \ {"new"} :
         /\ index' = Replaces(index, index, w)
         /\ IF w = "memory" THEN job' = None /\ partial' = partial /\ state' = "Failed"
            ELSE IF ~job.retried THEN job' = tried(job) /\ UNCHANGED <<partial, state>>
            ELSE cancel(job) /\ state' = "Failed"
    /\ UNCHANGED <<bible, record, store, reader, cuts, replaced>>

-----------------------------------------------------------------------------
(* onExit(): a build is cancelled, and the reader kept while PSRAM allows. *)
Exit ==
    /\ state' = "Closed"
    /\ cancel(job)
    /\ reader' \in {reader, None}
    /\ UNCHANGED <<bible, index, record, store, cuts, replaced>>

CancelBuild == state = "Saving" /\ Exit

Leave == state \notin {"Closed", "Saving"} /\ Exit

(* Most ways of replacing the Bible delete its cache directory, and the    *)
(* record with it; a WebDAV MOVE over it does not.                         *)
ReplaceBible ==
    /\ state = "Closed" /\ replaced < MaxReplaced
    /\ bible' \in Bibles \ {bible} /\ record' \in {None, record}
    /\ replaced' = replaced + 1
    /\ UNCHANGED <<index, partial, store, reader, state, job, cuts>>

PowerCut ==
    /\ cuts < MaxCuts /\ cuts' = cuts + 1
    /\ store' = Forgotten /\ reader' = None /\ state' = "Closed" /\ job' = None
    /\ UNCHANGED <<card, replaced>>

LoopPass ==
    OpenIndex \/ AskStatus \/ Begin \/ StepFails \/ StepIndexes \/ CancelBuild \/ FinishWrites \/ FinishFails

Next ==
    \/ LoopPass
    \/ Enter \/ QueryFails \/ Confirm \/ UserCancels \/ Leave
    \/ ReplaceBible \/ PowerCut

Spec == Init /\ [][Next]_vars

(* loop() runs for as long as the screen is up. *)
FairSpec == Spec /\ WF_vars(LoopPass)

-----------------------------------------------------------------------------
Fingerprints == [bible : Bibles, list : (SUBSET Books) \ {{}}]
Built == Seq([doc : Books, tail : SUBSET Books])

(* Every variable keeps the shape the code gives it, and a screen that     *)
(* builds has an indexer: the loop calls it without asking.                *)
TypeOK ==
    /\ bible \in Bibles
    /\ index = None \/ (index.fp \in Fingerprints /\ index.built \in Built)
    /\ partial = None \/ (partial.fp \in Fingerprints /\ partial.built \in Built /\ partial.done \in Nat)
    /\ record = None \/ (record.bible \in Bibles /\ record.fp \in Fingerprints)
    /\ store.bible \in Bibles \cup {None} /\ store.fp \in Fingerprints \cup {None}
    /\ store.docs \in (SUBSET Books) \cup {None}
    /\ state \in {"Closed", "Opening", "Asking", "Prompt", "Starting", "Building", "Saving",
                  "Finishing", "Failed", "Ready", "Query"}
    /\ (job # None) <=> state \in {"Building", "Saving", "Finishing"}

wellFormedUpTo(fp, n) == {d \in {Order(fp.list)[i] : i \in 1..n} : wellFormed(fp.bible, d)}

Holds(built, fp, n) ==
    /\ {built[i].doc : i \in DOMAIN built} = wellFormedUpTo(fp, n)
    /\ \A i, j \in DOMAIN built : i < j => built[i].doc < built[j].doc

(* An index holds the verses of every document its fingerprint lists that  *)
(* can be parsed, once each and in order; a checkpoint and a build in hand *)
(* hold those of the documents they count as done.  BibleSearchStore.h:58: *)
(* "a checkpoint's docsDone indexes the same list it was written against". *)
IndexIsItsList ==
    /\ index # None => Holds(index.built, index.fp, Len(Order(index.fp.list)))
    /\ partial # None => Holds(partial.built, partial.fp, partial.done)
    /\ job # None => Holds(job.built, job.fp, job.done)

(* A query is answered from an index of the Bible that is on the card, the *)
(* one in bible.idx, whatever was held from an earlier visit.              *)
SearchesThisBible == state = "Query" => reader = index /\ reader.fp.bible = bible

(* An index that misses a book answers queries only in the boot that could *)
(* not resolve it.  BibleSearchFingerprintFile.h:69: "a book lost to a     *)
(* transient read failure would otherwise outlive the boot".               *)
HoleEndsWithTheBoot ==
    state = "Query" /\ reader.fp.list # Books => store.docs = reader.fp.list

(* A build the user confirmed ends, in an index, a refusal or the screen's *)
(* exit: a document that can never be parsed does not hold it up, and a    *)
(* card that cannot be written is not tried for ever.                      *)
ConfirmedBuildEnds == state = "Starting" ~> state \in {"Ready", "Failed", "Closed"}

(* Text that opens a document in the middle of a verse is found under the  *)
(* verse it belongs to.  VerseTextScanner.h:62: text before the first     *)
(* verse marker "would belong to the previous document's last verse". It   *)
(* does not hold when the document before was rejected.                    *)
ContinuationsStayPut ==
    index # None =>
        \A i \in DOMAIN index.built : \A d \in index.built[i].tail :
            \A c \in index.fp.list : c < d => c <= index.built[i].doc
=============================================================================
