--------------------------- MODULE UnitIndexCache ---------------------------
(***************************************************************************)
(* The unit index of one publication key (src/study/UnitIndexCache): for   *)
(* each document of the EPUB its addressable units, scanned on first use   *)
(* and kept in units/<pubKey>.bin, beside a map from documents to books of *)
(* the Bible.  The Bible's key carries no language, so the editions on the *)
(* card share one file and tell whose it is by the EPUB's size alone.      *)
(*                                                                         *)
(* The file is a header, one fixed cell per document and one for the book  *)
(* map, then the blocks of anchors.  A file whose creation was cut short   *)
(* is a prefix of that, and anchors appended to it fall among the cells;   *)
(* such a cell is "junk" and reads as whatever its bytes happen to say.    *)
(***************************************************************************)
EXTENDS Naturals, FiniteSets

CONSTANTS
  Editions,     \* EPUBs that resolve to this key
  DocCount,     \* documents of each of them
  Kinds, Books, \* [Editions -> [Docs -> what the text holds]]
  SourceSize,   \* [Editions -> size of the EPUB]
  MaxFaults,    \* bound: failed reads, writes, scans and power cuts
  MaxOpens      \* bound: times the publication is opened

Docs == 1..DocCount
MapCell == DocCount + 1
Kind == {"none", "paragraph", "verse"}
MaxBook == 2   \* bound: books told apart; 0 is "unknown"

ASSUME SomeDocuments == DocCount \in Nat \ {0}
ASSUME BoundsAreNumbers == MaxFaults \in Nat /\ MaxOpens \in Nat
ASSUME TextsAreTyped ==
  /\ Kinds \in [Editions -> [Docs -> Kind]]
  /\ Books \in [Editions -> [Docs -> 1..MaxBook]]
  /\ SourceSize \in [Editions -> Nat \ {0}]
(* A replacement of the same size is not told from the original: the code   *)
(* leaves it to the fingerprint each passage carries.                      *)
ASSUME SizesDiffer == \A e, f \in Editions : SourceSize[e] = SourceSize[f] => e = f

VARIABLES
  file,         \* units/<pubKey>.bin
  session,      \* the UnitIndexCache object: "none", "open" in a reader, "parked" with its book
  edition,      \* the EPUB it was made for
  ready, mapBuilt, \* ready_, bookMapBuilt_
  cached,       \* cachedSpine_, cached_, cachedBuildFailed_
  hand,         \* how far buildDocument has come
  faults, opens

index == <<session, edition, ready>>
vars == <<file, index, mapBuilt, cached, hand, faults, opens>>

\* ------------------------------------------------------------ what is kept
(* DocumentUnits: the document they were scanned from stands for the anchors. *)
Units(kind, anchors, book) == [kind |-> kind, anchors |-> anchors, book |-> book]
Placeholder == Units("none", {}, 0)
Scanned(e, d) == Units(Kinds[e][d], IF Kinds[e][d] = "none" THEN {} ELSE {<<e, d>>}, 0)

(* One cell of the table; sound says that the anchors it points at still match its CRC. *)
Cell(state, units, sound, inTable) == [state |-> state, units |-> units, sound |-> sound, inTable |-> inTable]
Blank == Cell("blank", Placeholder, TRUE, FALSE)
Junk == Cell("junk", Placeholder, FALSE, FALSE)
Entry(units, inTable) == Cell("entry", units, TRUE, inTable)

NoMap == [d \in Docs |-> 0]
NoFile == [headed |-> FALSE, size |-> 0, cells |-> 0, slot |-> [d \in Docs |-> Blank], map |-> NoMap, mapJunk |-> FALSE]
Laid(size, n) == [NoFile EXCEPT !.headed = TRUE, !.size = size, !.cells = n]

NotCached == [doc |-> 0, units |-> Placeholder, failed |-> FALSE]
Idle == [doc |-> 0, step |-> "idle", units |-> Placeholder, inTable |-> FALSE]

Fault(n) == faults + n <= MaxFaults /\ faults' = faults + n
Spend(fails) == IF fails THEN Fault(1) ELSE faults' = faults

\* ---------------------------------------------------------------- begin
staleIfSmaller(f, size) == f.size < size
headerIsStale(f, size) == f.size # size
Readable(f, size) == f.headed /\ ~headerIsStale(f, size)
CoversMap(f) == f.cells = MapCell

Keep(size) ==
  /\ Readable(file, size)
  /\ file' = file /\ ready' = TRUE /\ mapBuilt' = CoversMap(file)

Rebuild(size) == file' = Laid(size, MapCell) /\ ready' = TRUE /\ mapBuilt' = FALSE

(* The file could not be created, its header not written, or the blank table only in part. *)
RebuildFails(size) ==
  /\ file' \in {file, NoFile} \cup {Laid(size, n) : n \in 0..DocCount}
  /\ ready' = FALSE /\ mapBuilt' = FALSE

(* openPublication: a new object, then begin(); 0 is an EPUB that could not be measured. *)
begin(e) ==
  /\ opens < MaxOpens /\ opens' = opens + 1
  /\ session' = "open" /\ edition' = e
  /\ cached' = NotCached /\ hand' = Idle
  /\ \E unmeasured, unread, fails \in BOOLEAN :
       LET size == IF unmeasured THEN 0 ELSE SourceSize[e]
           faulty == Cardinality({x \in 1..3 : <<unmeasured, unread, fails>>[x]})
       IN /\ Fault(faulty)
          /\ \/ ~unread /\ ~fails /\ Keep(size)
             \/ /\ unread \/ ~Readable(file, size)
                /\ IF fails THEN RebuildFails(size) ELSE Rebuild(size)

OpenPublication(e) == hand = Idle /\ session # "open" /\ begin(e)

\* ------------------------------------------------------- one document's units
(* readEntry and loadAnchors: what a cell may be taken for. Its CRC is taken  *)
(* never to match by chance; no CRC guards an entry without anchors.         *)
Loadable(d) ==
  LET c == file.slot[d]
  IN IF d > file.cells \/ c.state = "blank" THEN {}
     ELSE IF c.state = "junk" THEN [kind : Kind, anchors : {{}}, book : 0..MaxBook]
     ELSE IF c.units.anchors = {} \/ c.sound THEN {c.units} ELSE {}

InRam(d, units, failed) == [doc |-> d, units |-> units, failed |-> failed]

loadIndexedIntoCache(d) == \E u \in Loadable(d) : cached' = InRam(d, u, FALSE)

(* The entry may go unread for a transient failure, or because junk reads as not indexed. *)
NotLoaded(d) ==
  \/ (Loadable(d) = {} \/ file.slot[d].state = "junk") /\ faults' = faults
  \/ Fault(1)

MayCall(d) == session = "open" /\ hand = Idle /\ ready /\ cached.doc # d

LoadUnits(d) ==
  /\ MayCall(d) /\ loadIndexedIntoCache(d)
  /\ UNCHANGED <<file, index, mapBuilt, hand, faults, opens>>

BuildFailed(d) == cached' = InRam(d, Placeholder, TRUE) /\ hand' = Idle

(* unitsFor: the document is streamed through the scanner. *)
ScanDocument(d) ==
  /\ MayCall(d) /\ NotLoaded(d)
  /\ cached' = cached
  /\ hand' = [doc |-> d, step |-> IF Kinds[edition][d] = "verse" THEN "book" ELSE "append",
              units |-> Scanned(edition, d), inTable |-> FALSE]
  /\ UNCHANGED <<file, index, mapBuilt, opens>>

ScanFails(d) ==
  /\ MayCall(d) /\ (Loadable(d) = {} \/ file.slot[d].state = "junk")
  /\ Fault(1) /\ BuildFailed(d)
  /\ UNCHANGED <<file, index, mapBuilt, opens>>

\* ------------------------------------------------------------- the book map
(* Writing over part of the table damages the anchors that were appended into it. *)
Hurt(slot, spoilt) == [d \in Docs |-> IF d \in spoilt THEN [slot[d] EXCEPT !.sound = FALSE] ELSE slot[d]]
InTable(f) == {d \in Docs : f.slot[d].inTable}

(* A chapter page that cannot be read leaves its book's documents at 0. *)
MapOf(e, unread) == [d \in Docs |-> IF Kinds[e][d] = "verse" /\ Books[e][d] \notin unread THEN Books[e][d] ELSE 0]

MapOverTable(spoilt, unread) ==
  file' = [file EXCEPT !.map = MapOf(edition, unread), !.mapJunk = FALSE, !.cells = MapCell, !.slot[1] = Junk]

(* buildBookMap: the pages are streamed, then the map is written in place. *)
WriteMap(spoilt, unread) ==
  file' = [file EXCEPT !.map = MapOf(edition, unread), !.mapJunk = FALSE, !.cells = MapCell,
                       !.slot = Hurt(@, spoilt)]

buildBookMap ==
  /\ file.cells >= DocCount                   \* else the seek to the map fails
  /\ mapBuilt' = TRUE
  /\ \E unread \in SUBSET (1..MaxBook), spoilt \in SUBSET InTable(file) :
       Fault(Cardinality(unread)) /\ WriteMap(spoilt, unread)

BookMapFails ==
  /\ Spend(file.cells >= DocCount)            \* no navigation page, out of memory, a failed write
  /\ UNCHANGED <<file, mapBuilt>>

BooksRead(d) == IF file.mapJunk THEN 0..MaxBook ELSE {file.map[d]}

(* bookFor: 0 when the map can be neither built nor read. *)
BookOfDocument ==
  /\ hand.step = "book"
  /\ \/ /\ ~mapBuilt /\ buildBookMap
        /\ hand' = [hand EXCEPT !.step = "append", !.units.book = file'.map[hand.doc]]
     \/ /\ ~mapBuilt /\ BookMapFails
        /\ hand' = [hand EXCEPT !.step = "append"]
     \/ /\ mapBuilt
        /\ \E b \in BooksRead(hand.doc) : hand' = [hand EXCEPT !.step = "append", !.units.book = b]
        /\ UNCHANGED <<file, mapBuilt, faults>>
  /\ UNCHANGED <<index, cached, opens>>

(* spineIndicesForBook, called by searches and by a passage whose hint is stale. *)
SpineIndicesForBook ==
  /\ session = "open" /\ hand = Idle /\ ready /\ ~mapBuilt
  /\ buildBookMap \/ BookMapFails
  /\ UNCHANGED <<index, cached, hand, opens>>

\* ------------------------------------------------------ the rest of buildDocument
(* Anchors appended to a short file make junk of the cells they cover. *)
Grown(f, n) == [f EXCEPT !.cells = n, !.mapJunk = @ \/ (n = MapCell /\ f.cells < MapCell),
                         !.slot = [d \in Docs |-> IF f.cells < d /\ d <= n THEN Junk ELSE @[d]]]

AppendAnchors ==
  /\ hand.step = "append"
  /\ hand' = [hand EXCEPT !.step = "entry", !.inTable = hand.units.anchors # {} /\ file.cells < MapCell]
  /\ IF hand.units.anchors = {} THEN file' = file
     ELSE \E n \in file.cells..MapCell : file' = Grown(file, n)
  /\ UNCHANGED <<index, mapBuilt, cached, faults, opens>>

(* The anchors are not, or only in part, appended: nothing points at them. *)
AppendFails ==
  /\ hand.step = "append" /\ hand.units.anchors # {}
  /\ Fault(1) /\ BuildFailed(hand.doc)
  /\ \E n \in file.cells..MapCell : file' = Grown(file, n)
  /\ UNCHANGED <<index, mapBuilt, opens>>

(* writeEntry, last of all; a slot past the end of a short file cannot be reached. *)
Reachable(d) == d <= file.cells + 1
Larger(n, m) == IF n >= m THEN n ELSE m

WriteEntry ==
  /\ hand.step = "entry" /\ Reachable(hand.doc)
  /\ \E spoilt \in SUBSET (InTable(file) \ {hand.doc}), ownSpoilt \in BOOLEAN :
       /\ ownSpoilt => hand.inTable
       /\ file' = [file EXCEPT !.cells = Larger(@, hand.doc),
                               !.slot = [Hurt(@, spoilt) EXCEPT ![hand.doc] =
                                           [Entry(hand.units, hand.inTable) EXCEPT !.sound = ~ownSpoilt]]]
  /\ cached' = InRam(hand.doc, hand.units, FALSE) /\ hand' = Idle
  /\ UNCHANGED <<index, mapBuilt, faults, opens>>

(* The write fails, before the entry is changed or across a sector boundary. *)
EntryFails ==
  /\ hand.step = "entry"
  /\ Spend(Reachable(hand.doc)) /\ BuildFailed(hand.doc)
  /\ \/ file' = file
     \/ Reachable(hand.doc) /\ file' = [file EXCEPT !.cells = Larger(@, hand.doc), !.slot[hand.doc] = Junk]
  /\ UNCHANGED <<index, mapBuilt, opens>>

\* -------------------------------------------------------------- sessions
(* The reader leaves and its book is parked; it comes back to the same file, *)
(* or openPublication starts over.  The boot's migration has its own object, *)
(* opened and dropped before any reader.                                    *)
Park == session = "open" /\ hand = Idle /\ session' = "parked"
        /\ UNCHANGED <<file, edition, ready, mapBuilt, cached, hand, faults, opens>>
ResumePublication == session = "parked" /\ ready /\ session' = "open"
        /\ UNCHANGED <<file, edition, ready, mapBuilt, cached, hand, faults, opens>>

Gone == session' = "none" /\ ready' = FALSE /\ mapBuilt' = FALSE /\ cached' = NotCached /\ hand' = Idle
ClosePublication == hand = Idle /\ session # "none" /\ Gone /\ UNCHANGED <<file, edition, faults, opens>>
PowerCut == session # "none" /\ Gone /\ Fault(1) /\ UNCHANGED <<file, edition, opens>>

Init ==
  /\ file = NoFile /\ session = "none" /\ edition \in Editions
  /\ ready = FALSE /\ mapBuilt = FALSE /\ cached = NotCached /\ hand = Idle
  /\ faults = 0 /\ opens = 0

Next ==
  \/ \E e \in Editions : OpenPublication(e)
  \/ \E d \in Docs : LoadUnits(d) \/ ScanDocument(d) \/ ScanFails(d)
  \/ BookOfDocument \/ SpineIndicesForBook
  \/ AppendAnchors \/ AppendFails \/ WriteEntry \/ EntryFails
  \/ Park \/ ResumePublication \/ ClosePublication \/ PowerCut

Spec == Init /\ [][Next]_vars

\* ------------------------------------------------------------- properties
(* Every variable stays in its type, and one document is in work at a time. *)
TypeOK ==
  LET UnitsType == [kind : Kind, anchors : SUBSET (Editions \X Docs), book : 0..MaxBook]
  IN /\ file.headed \in BOOLEAN /\ file.mapJunk \in BOOLEAN
     /\ file.size \in {0} \cup {SourceSize[e] : e \in Editions}
     /\ file.cells \in 0..MapCell /\ file.map \in [Docs -> 0..MaxBook]
     /\ file.slot \in [Docs -> [state : {"blank", "junk", "entry"}, units : UnitsType, sound : BOOLEAN, inTable : BOOLEAN]]
     /\ session \in {"none", "open", "parked"} /\ edition \in Editions
     /\ ready \in BOOLEAN /\ mapBuilt \in BOOLEAN
     /\ cached \in [doc : {0} \cup Docs, units : UnitsType, failed : BOOLEAN]
     /\ hand \in [doc : {0} \cup Docs, step : {"idle", "book", "append", "entry"}, units : UnitsType, inTable : BOOLEAN]
     /\ faults \in 0..MaxFaults /\ opens \in 0..MaxOpens
     /\ (hand.step = "idle") = (hand.doc = 0)
     /\ hand # Idle => session = "open" /\ ready

(* The units given out for a document are those of the edition that is open,  *)
(* never another edition's that share its file and never anchors that a cut  *)
(* or failed write left behind; an answer without anchors for a text that    *)
(* has some is admitted by indexFailed(); and a verse's book is its own or   *)
(* unknown.  An EPUB that could not be measured vouches for nothing, and a   *)
(* cell or map of a file cut short may be read as a text without units.      *)
AnswersAreTrue ==
  cached.doc # 0 /\ file.size # 0 =>
    LET d == cached.doc
        u == cached.units
    IN /\ u.anchors # {} => u.anchors = {<<edition, d>>} /\ u.kind = Kinds[edition][d]
       /\ u.anchors = {} => cached.failed \/ Kinds[edition][d] = "none" \/ file.slot[d].state = "junk"
       /\ u.anchors # {} /\ u.kind = "verse" => u.book \in {0, Books[edition][d]} \/ file.mapJunk

(* What was indexed is not scanned twice: without a fault only the opening of *)
(* another edition takes a document's entry away, whatever else is appended, *)
(* built, parked or reopened meanwhile.                                      *)
IndexIsKept ==
  [][\A d \in Docs :
       LET c == file.slot[d]
       IN /\ c.state = "entry" /\ c.sound /\ ~c.inTable
          /\ faults' = faults /\ file.size # 0
          /\ opens' # opens => SourceSize[edition'] = file.size
          => file'.slot[d].state = "entry" /\ file'.slot[d].sound
             /\ file'.slot[d].units.anchors = c.units.anchors]_vars

(* UnitIndexFormat.h:47 has the file say whether the map was built, and the  *)
(* header of the class that it is built once and then persisted: a map taken *)
(* for built gives every verse document its book.                            *)
BookMapIsBuilt == mapBuilt => file.map = MapOf(edition, {})
=============================================================================
