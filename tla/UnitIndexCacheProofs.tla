------------------------ MODULE UnitIndexCacheProofs ------------------------
(***************************************************************************)
(* Proofs about UnitIndexCache, for any number of editions and documents,  *)
(* whatever the documents hold and however often the index is opened, cut  *)
(* short or failed.                                                        *)
(***************************************************************************)
EXTENDS UnitIndexCache, FiniteSetTheorems, TLAPS

UnitsType == [kind : Kind, anchors : SUBSET (Editions \X Docs), book : 0..MaxBook]
CellType == [state : {"blank", "junk", "entry"}, units : UnitsType, sound : BOOLEAN, inTable : BOOLEAN]

FileType ==
  [headed : BOOLEAN, size : {0} \cup {SourceSize[e] : e \in Editions}, cells : 0..MapCell,
   slot : [Docs -> CellType], map : [Docs -> 0..MaxBook], mapJunk : BOOLEAN]
HandType == [doc : {0} \cup Docs, step : {"idle", "book", "append", "entry"}, units : UnitsType, inTable : BOOLEAN]
CachedType == [doc : {0} \cup Docs, units : UnitsType, failed : BOOLEAN]

(* TypeOK, with the records as sets of records. *)
Types ==
  /\ file \in FileType /\ session \in {"none", "open", "parked"} /\ edition \in Editions
  /\ ready \in BOOLEAN /\ mapBuilt \in BOOLEAN
  /\ cached \in CachedType /\ hand \in HandType
  /\ faults \in 0..MaxFaults /\ opens \in 0..MaxOpens

OneInWork ==
  /\ hand.step = "idle" <=> hand.doc = 0
  /\ hand # Idle => session = "open" /\ ready

(* The edition the file was laid out for; a file of size 0 has none. *)
Owner(e) == file.size = SourceSize[e]

(* The index can be used, and its book map counts as built although anchors *)
(* were appended where it should be: what is read there is anybody's guess. *)
JunkIsRead == file.mapJunk /\ CoversMap(file) /\ (ready => mapBuilt)

(* The units of a document of an edition, as a scan finds them.             *)
OfText(u, e, d) == u.kind = Kinds[e][d] /\ u.anchors = Scanned(e, d).anchors
BookIsTrue(u, e, d) == u.kind = "verse" => u.book \in {0, Books[e][d]} \/ JunkIsRead

(* The file: a header is of a known size, entries lie within the table and  *)
(* are of the owner's texts, and so is the map.                             *)
FileIsWellFormed ==
  /\ file.size # 0 => file.headed
  /\ \A d \in Docs : file.slot[d].state = "entry" =>
       /\ d <= file.cells
       /\ file.slot[d].units.anchors # {} /\ ~file.slot[d].inTable => CoversMap(file)

EntriesAreTrue ==
  \A e \in Editions, d \in Docs : Owner(e) /\ file.slot[d].state = "entry" =>
    OfText(file.slot[d].units, e, d) /\ BookIsTrue(file.slot[d].units, e, d)

MapIsTrue ==
  \A e \in Editions, d \in Docs : Owner(e) /\ Kinds[e][d] = "verse" => file.map[d] \in {0, Books[e][d]}

(* The object in use: its file is its edition's, unless it was not measured. *)
SessionIsOwners ==
  /\ ready => file.size = 0 \/ Owner(edition)
  /\ ready /\ mapBuilt => CoversMap(file)
  /\ cached.doc # 0 => ready

(* The document in work is scanned from the open edition. *)
HandIsTrue ==
  LET u == hand.units
      d == hand.doc
  IN d # 0 =>
       /\ OfText(u, edition, d)
       /\ Owner(edition) => BookIsTrue(u, edition, d)
       /\ hand.inTable => u.anchors # {}
       /\ hand.step = "entry" /\ u.anchors # {} /\ ~hand.inTable => CoversMap(file)
       /\ hand.step = "entry" /\ hand.inTable /\ Owner(edition) =>
            ~(file.slot[d].state = "entry" /\ ~file.slot[d].inTable)

CachedIsTrue ==
  LET u == cached.units
      d == cached.doc
  IN d # 0 /\ Owner(edition) =>
       /\ u.anchors # {} => OfText(u, edition, d) /\ BookIsTrue(u, edition, d)
       /\ u.anchors = {} => cached.failed \/ Kinds[edition][d] = "none" \/ file.slot[d].state = "junk"

IInv == Types /\ OneInWork /\ FileIsWellFormed /\ EntriesAreTrue /\ MapIsTrue /\ SessionIsOwners /\ HandIsTrue /\ CachedIsTrue

\* ------------------------------------------------------------------ types

(* The documents are numbered from 1, and the cell of the book map follows *)
(* theirs.                                                                 *)
LEMMA DocsAre == DocCount \in Nat /\ DocCount >= 1 /\ MapCell = DocCount + 1 /\ MapCell \in Nat /\ Docs = 1..DocCount
BY SomeDocuments DEF MapCell, Docs

(* The records the actions write are of their types. *)
LEMMA MadeOfType ==
  /\ \A k \in Kind, a \in SUBSET (Editions \X Docs), b \in 0..MaxBook : Units(k, a, b) \in UnitsType
  /\ Placeholder \in UnitsType /\ Placeholder.anchors = {}
  /\ Blank \in CellType /\ Junk \in CellType /\ Blank.state = "blank" /\ Junk.state = "junk"
  /\ \A u \in UnitsType, t \in BOOLEAN : Entry(u, t) \in CellType
  /\ NotCached \in CachedType /\ NotCached.doc = 0
  /\ Idle \in HandType /\ Idle.doc = 0 /\ Idle.step = "idle"
<1>1. \A k \in Kind, a \in SUBSET (Editions \X Docs), b \in 0..MaxBook : Units(k, a, b) \in UnitsType
  BY DEF Units, UnitsType
<1>2. Placeholder \in UnitsType /\ Placeholder.anchors = {}
  BY DEF Placeholder, Units, UnitsType, Kind, MaxBook
<1> QED BY <1>1, <1>2 DEF Blank, Junk, Entry, Cell, CellType, NotCached, CachedType, Idle, HandType

(* A scan finds the units of the text it is given, and no book yet. *)
LEMMA ScannedOfType ==
  ASSUME NEW e \in Editions, NEW d \in Docs
  PROVE  /\ Scanned(e, d) \in UnitsType /\ Scanned(e, d).book = 0 /\ OfText(Scanned(e, d), e, d)
         /\ Scanned(e, d).anchors = IF Kinds[e][d] = "none" THEN {} ELSE {<<e, d>>}
<1>1. Kinds[e][d] \in Kind
  BY TextsAreTyped
<1> QED BY <1>1 DEF Scanned, Units, UnitsType, MaxBook, OfText

(* A file laid out anew, in part or not at all has blank cells and an empty*)
(* map.                                                                    *)
LEMMA LaidOfType ==
  ASSUME NEW n \in 0..MapCell, NEW size \in {0} \cup {SourceSize[e] : e \in Editions}
  PROVE  /\ Laid(size, n) \in FileType /\ Laid(size, n).headed /\ Laid(size, n).size = size /\ Laid(size, n).cells = n
         /\ NoFile \in FileType /\ NoFile.size = 0
         /\ \A d \in Docs : /\ Laid(size, n).slot[d].state = "blank" /\ NoFile.slot[d].state = "blank"
                            /\ Laid(size, n).map[d] = 0
<1>1. NoFile \in FileType /\ NoFile.size = 0 /\ \A d \in Docs : NoFile.slot[d] = Blank /\ NoFile.map[d] = 0
  BY DocsAre, MadeOfType DEF NoFile, FileType, NoMap, MaxBook
<1>2. Laid(size, n) = [NoFile EXCEPT !.headed = TRUE, !.size = size, !.cells = n]
  BY DEF Laid
<1>3. /\ Laid(size, n) \in FileType /\ Laid(size, n).headed /\ Laid(size, n).size = size /\ Laid(size, n).cells = n
      /\ Laid(size, n).slot = NoFile.slot /\ Laid(size, n).map = NoFile.map
  BY <1>1, <1>2 DEF FileType
<1> QED BY <1>1, <1>3, MadeOfType

(* What every step that writes over cells of the table leaves. *)
LEMMA HurtCells ==
  ASSUME NEW slot \in [Docs -> CellType], NEW spoilt
  PROVE  /\ Hurt(slot, spoilt) \in [Docs -> CellType]
         /\ \A d \in Docs : LET c == Hurt(slot, spoilt)[d]
                            IN /\ c.state = slot[d].state /\ c.units = slot[d].units /\ c.inTable = slot[d].inTable
                               /\ d \notin spoilt => c = slot[d]
BY DEF Hurt, CellType

(* A file that anchors were appended to keeps the cells it had. *)
LEMMA GrownFile ==
  ASSUME NEW f \in FileType, NEW n \in f.cells..MapCell
  PROVE  LET g == Grown(f, n)
         IN /\ g \in FileType /\ g.cells = n /\ g.headed = f.headed /\ g.size = f.size /\ g.map = f.map
            /\ (f.mapJunk => g.mapJunk) /\ (CoversMap(f) => g.mapJunk = f.mapJunk /\ CoversMap(g))
            /\ \A d \in Docs : \/ d <= f.cells /\ g.slot[d] = f.slot[d]
                               \/ f.cells < d /\ n < d /\ g.slot[d] = f.slot[d]
                               \/ f.cells < d /\ g.slot[d] = Junk
<1> DEFINE g == Grown(f, n)
           slots == [d \in Docs |-> IF f.cells < d /\ d <= n THEN Junk ELSE f.slot[d]]
<1>1. slots \in [Docs -> CellType]
  BY MadeOfType DEF FileType
<1>2. n \in 0..MapCell /\ f.cells \in 0..MapCell
  BY DocsAre DEF FileType
<1>3. g = [f EXCEPT !.cells = n, !.mapJunk = f.mapJunk \/ (n = MapCell /\ f.cells < MapCell), !.slot = slots]
  BY DEF Grown
<1> HIDE DEF g, slots
<1>4. /\ g \in FileType /\ g.cells = n /\ g.headed = f.headed /\ g.size = f.size /\ g.map = f.map /\ g.slot = slots
      /\ g.mapJunk = (f.mapJunk \/ (n = MapCell /\ f.cells < MapCell))
  BY <1>1, <1>2, <1>3 DEF FileType
<1>5. \A d \in Docs : \/ d <= f.cells /\ slots[d] = f.slot[d]
                      \/ f.cells < d /\ n < d /\ slots[d] = f.slot[d]
                      \/ f.cells < d /\ slots[d] = Junk
  BY <1>2, DocsAre DEF slots
<1>6. CoversMap(f) => n = MapCell /\ ~(f.cells < MapCell)
  BY <1>2, DocsAre DEF CoversMap
<1> QED BY <1>4, <1>5, <1>6 DEF CoversMap, g, FileType

(* The map that is built names each verse document's own book, or none. *)
LEMMA MapOfType ==
  ASSUME NEW e \in Editions, NEW unread
  PROVE  MapOf(e, unread) \in [Docs -> 0..MaxBook]
         /\ \A d \in Docs : Kinds[e][d] = "verse" => MapOf(e, unread)[d] \in {0, Books[e][d]}
<1>1. \A d \in Docs : Books[e][d] \in 0..MaxBook /\ 0 \in 0..MaxBook
  BY TextsAreTyped DEF MaxBook
<1> QED BY <1>1 DEF MapOf

(* What is loaded is the entry, or something without anchors out of junk. *)
LEMMA LoadedUnits ==
  ASSUME Types, NEW d \in Docs, NEW u \in Loadable(d)
  PROVE  /\ u \in UnitsType
         /\ \/ file.slot[d].state = "entry" /\ u = file.slot[d].units
            \/ file.slot[d].state = "junk" /\ u.anchors = {}
<1>1. file.slot[d] \in CellType
  BY DEF Types, FileType
<1>2. CASE file.slot[d].state = "junk"
  <2>1. u \in [kind : Kind, anchors : {{}}, book : 0..MaxBook]
    BY <1>2 DEF Loadable
  <2> QED BY <1>2, <2>1 DEF UnitsType
<1>3. CASE file.slot[d].state # "junk"
  <2>1. file.slot[d].state # "blank" /\ u = file.slot[d].units
    BY <1>3 DEF Loadable
  <2> QED BY <1>1, <1>3, <2>1 DEF CellType
<1> QED BY <1>2, <1>3

(* The budget of faults is kept, and a fault shows in it. *)
LEMMA FaultCounts ==
  ASSUME Types, NEW n \in Nat, Fault(n)
  PROVE  faults' \in 0..MaxFaults /\ (faults' = faults => n = 0)
BY BoundsAreNumbers DEF Types, Fault

(* The same, for a step that fails only sometimes. *)
LEMMA SpendCounts ==
  ASSUME Types, NEW fails, Spend(fails)
  PROVE  faults' \in 0..MaxFaults /\ (faults' = faults => ~fails)
<1>1. Fault(1) => faults' \in 0..MaxFaults /\ faults' # faults
  BY FaultCounts, BoundsAreNumbers DEF Fault, Types
<1>2. faults' = faults => faults' \in 0..MaxFaults
  BY DEF Types
<1> QED BY <1>1, <1>2 DEF Spend

(* The types of what the actions look at most. *)
LEMMA CellsInUse ==
  ASSUME Types
  PROVE  /\ file.cells \in 0..MapCell /\ file.slot \in [Docs -> CellType] /\ file.map \in [Docs -> 0..MaxBook]
         /\ hand.units \in UnitsType /\ hand.doc \in {0} \cup Docs /\ cached.doc \in {0} \cup Docs
         /\ hand.inTable \in BOOLEAN /\ cached.units \in UnitsType
BY DEF Types, FileType, HandType, CachedType

(* Opening: the object is new, and the file is kept, laid out anew or left in part. *)
LEMMA Beginning ==
  ASSUME Types, NEW e \in Editions, OpenPublication(e)
  PROVE  /\ session' = "open" /\ edition' = e /\ cached' = NotCached /\ hand' = Idle
         /\ faults' \in 0..MaxFaults /\ opens' \in 0..MaxOpens /\ opens' # opens
         /\ \E size \in {0, SourceSize[e]} :
              \/ Keep(size)
              \/ Rebuild(size) /\ (faults' = faults => ~Readable(file, size))
              \/ RebuildFails(size) /\ faults' # faults
         /\ faults' = faults => \/ Keep(SourceSize[e])
                                \/ Rebuild(SourceSize[e]) /\ ~Readable(file, SourceSize[e])
<1>1. PICK unmeasured \in BOOLEAN, unread \in BOOLEAN, fails \in BOOLEAN :
         LET size == IF unmeasured THEN 0 ELSE SourceSize[e]
             faulty == Cardinality({x \in 1..3 : <<unmeasured, unread, fails>>[x]})
         IN /\ Fault(faulty)
            /\ \/ ~unread /\ ~fails /\ Keep(size)
               \/ /\ unread \/ ~Readable(file, size)
                  /\ IF fails THEN RebuildFails(size) ELSE Rebuild(size)
  BY DEF OpenPublication, begin
<1> DEFINE failed == {x \in 1..3 : <<unmeasured, unread, fails>>[x]}
<1>2. IsFiniteSet(failed) /\ Cardinality(failed) \in Nat /\ (Cardinality(failed) = 0 => failed = {})
  <2>1. IsFiniteSet(1..3)
    <3>1. 1 \in Int /\ 3 \in Int
      OBVIOUS
    <3> QED BY <3>1, FS_Interval
  <2>2. IsFiniteSet(failed)
    BY <2>1, FS_Subset
  <2> QED BY <2>2, FS_CardinalityType, FS_EmptySet
<1>3. Fault(Cardinality(failed))
  BY <1>1
<1> HIDE DEF failed
<1>4. faults' \in 0..MaxFaults /\ (faults' = faults => failed = {})
  BY <1>2, <1>3, FaultCounts
<1>5. failed = {} => ~unmeasured /\ ~unread /\ ~fails
  <2> SUFFICES ASSUME failed = {} PROVE ~unmeasured /\ ~unread /\ ~fails
    OBVIOUS
  <2>1. \A x \in 1..3 : ~<<unmeasured, unread, fails>>[x]
    BY DEF failed
  <2>2. ~<<unmeasured, unread, fails>>[1] /\ ~<<unmeasured, unread, fails>>[2] /\ ~<<unmeasured, unread, fails>>[3]
    BY <2>1
  <2> QED BY <2>2
<1>6. session' = "open" /\ edition' = e /\ cached' = NotCached /\ hand' = Idle /\ opens' = opens + 1 /\ opens < MaxOpens
  BY DEF OpenPublication, begin
<1>7. opens' \in 0..MaxOpens /\ opens' # opens
  BY <1>6, BoundsAreNumbers DEF Types
<1> QED BY <1>1, <1>4, <1>5, <1>6, <1>7

\* ------------------------------------------------------------ the invariant

(* The invariant holds before the first publication is opened. *)
LEMMA InitIInv == Init => IInv
<1> SUFFICES ASSUME Init PROVE IInv
  OBVIOUS
<1>1. NoFile \in FileType /\ NoFile.size = 0 /\ \A d \in Docs : NoFile.slot[d].state = "blank"
  BY LaidOfType, DocsAre
<1>2. \A e \in Editions : SourceSize[e] # 0
  BY TextsAreTyped
<1>3. Types
  <2>1. file \in FileType /\ cached \in CachedType /\ hand \in HandType
    BY <1>1, MadeOfType DEF Init
  <2>2. faults \in 0..MaxFaults /\ opens \in 0..MaxOpens
    BY BoundsAreNumbers DEF Init
  <2> QED BY <2>1, <2>2 DEF Init, Types
<1>7. OneInWork
  BY MadeOfType DEF Init, OneInWork
<1>4. FileIsWellFormed /\ EntriesAreTrue /\ MapIsTrue
  BY <1>1, <1>2 DEF Init, FileIsWellFormed, EntriesAreTrue, MapIsTrue, Owner
<1>5. SessionIsOwners /\ HandIsTrue /\ CachedIsTrue
  BY MadeOfType DEF Init, SessionIsOwners, HandIsTrue, CachedIsTrue
<1> QED BY <1>3, <1>4, <1>5, <1>7 DEF IInv

(* OpenPublication: a file of the edition's own size is used, any other is *)
(* laid out anew.                                                          *)
LEMMA OpenSteps ==
  ASSUME IInv, NEW e \in Editions, OpenPublication(e) PROVE IInv'
<1>1. PICK size \in {0, SourceSize[e]} : Keep(size) \/ Rebuild(size) \/ RebuildFails(size)
  BY Beginning DEF IInv
<1>2. /\ session' = "open" /\ edition' = e /\ cached' = NotCached /\ hand' = Idle
      /\ faults' \in 0..MaxFaults /\ opens' \in 0..MaxOpens
  BY Beginning DEF IInv
<1>3. size \in {0} \cup {SourceSize[x] : x \in Editions} /\ DocCount \in Nat /\ MapCell \in 0..MapCell
      /\ \A x \in Editions : SourceSize[x] # 0
  BY TextsAreTyped, DocsAre
<1>4. OneInWork' /\ HandIsTrue' /\ CachedIsTrue'
  BY <1>2, MadeOfType DEF OneInWork, HandIsTrue, CachedIsTrue
<1>5. cached' \in CachedType /\ hand' \in HandType /\ cached'.doc = 0
  BY <1>2, MadeOfType
<1>6. CASE Keep(size)
  <2>1. file' = file /\ ready' = TRUE /\ mapBuilt' = CoversMap(file) /\ file.size = size
    BY <1>6 DEF Keep, Readable, headerIsStale
  <2>2. Types'
    BY <1>2, <1>5, <2>1 DEF IInv, Types, CoversMap
  <2>3. FileIsWellFormed' /\ MapIsTrue'
    BY <2>1 DEF IInv, FileIsWellFormed, MapIsTrue, Owner, CoversMap
  <2>4. EntriesAreTrue'
    BY <2>1 DEF IInv, EntriesAreTrue, Owner, OfText, BookIsTrue, JunkIsRead, CoversMap
  <2>5. SessionIsOwners'
    BY <1>2, <1>5, <2>1 DEF SessionIsOwners, Owner, CoversMap
  <2> QED BY <1>4, <2>2, <2>3, <2>4, <2>5 DEF IInv
<1>7. ASSUME NEW n \in 0..MapCell, file' = Laid(size, n) \/ file' = NoFile,
             ready' \in BOOLEAN, mapBuilt' = FALSE, ready' => file'.size = size
      PROVE  IInv'
  <2>1. /\ file' \in FileType /\ (file'.size = 0 \/ (file'.size = size /\ file'.headed))
        /\ \A d \in Docs : file'.slot[d].state = "blank"
        /\ \A d \in Docs : file'.size # 0 => file'.map[d] = 0
    <3>1. CASE file' = Laid(size, n)
      <4>1. /\ Laid(size, n) \in FileType /\ Laid(size, n).headed /\ Laid(size, n).size = size
            /\ \A d \in Docs : Laid(size, n).slot[d].state = "blank" /\ Laid(size, n).map[d] = 0
        BY <1>3, LaidOfType
      <4> QED BY <3>1, <4>1
    <3>2. CASE file' = NoFile
      BY <1>3, <3>2, LaidOfType
    <3> QED BY <1>7, <3>1, <3>2
  <2>2. Types'
    BY <1>2, <1>5, <1>7, <2>1 DEF Types
  <2>3. FileIsWellFormed' /\ MapIsTrue' /\ EntriesAreTrue'
    BY <1>3, <2>1 DEF FileIsWellFormed, MapIsTrue, EntriesAreTrue, Owner
  <2>4. SessionIsOwners'
    BY <1>2, <1>5, <1>7 DEF SessionIsOwners, Owner
  <2> QED BY <1>4, <2>2, <2>3, <2>4 DEF IInv
<1>8. CASE Rebuild(size)
  <2>1. file' = Laid(size, MapCell) /\ ready' = TRUE /\ mapBuilt' = FALSE /\ Laid(size, MapCell).size = size
    BY <1>3, <1>8, LaidOfType DEF Rebuild
  <2> QED BY <1>3, <1>7, <2>1
<1>9. CASE RebuildFails(size)
  <2>1. ready' = FALSE /\ mapBuilt' = FALSE
    BY <1>9 DEF RebuildFails
  <2>2. CASE file' = file
    <3>1. Types'
      BY <1>2, <1>5, <2>1, <2>2 DEF IInv, Types
    <3>2. FileIsWellFormed' /\ MapIsTrue'
      BY <2>2 DEF IInv, FileIsWellFormed, MapIsTrue, Owner, CoversMap
    <3>3. EntriesAreTrue'
      BY <2>1, <2>2 DEF IInv, EntriesAreTrue, Owner, OfText, BookIsTrue, JunkIsRead, CoversMap
    <3>4. SessionIsOwners'
      BY <1>5, <2>1 DEF SessionIsOwners
    <3> QED BY <1>4, <3>1, <3>2, <3>3, <3>4 DEF IInv
  <2>3. CASE file' = NoFile
    BY <1>3, <1>7, <2>1, <2>3
  <2>4. CASE file' \in {Laid(size, n) : n \in 0..DocCount}
    <3>1. PICK n \in 0..DocCount : file' = Laid(size, n)
      BY <2>4
    <3>2. n \in 0..MapCell
      BY DocsAre
    <3> QED BY <1>7, <2>1, <3>1, <3>2
  <2> QED BY <1>9, <2>2, <2>3, <2>4 DEF RebuildFails
<1> QED BY <1>1, <1>6, <1>8, <1>9

(* The file is as it was. *)
LEMMA FileStays ==
  ASSUME IInv, file' = file, ready' = ready, mapBuilt' = mapBuilt
  PROVE  FileIsWellFormed' /\ EntriesAreTrue' /\ MapIsTrue' /\ (JunkIsRead => JunkIsRead')
<1>1. FileIsWellFormed' /\ MapIsTrue'
  BY DEF IInv, FileIsWellFormed, MapIsTrue, Owner, CoversMap
<1>2. EntriesAreTrue'
  BY DEF IInv, EntriesAreTrue, Owner, OfText, BookIsTrue, JunkIsRead, CoversMap
<1> QED BY <1>1, <1>2 DEF JunkIsRead, CoversMap

(* LoadUnits: an entry of a file of the open edition is of that edition. *)
LEMMA LoadSteps ==
  ASSUME IInv, NEW d \in Docs, LoadUnits(d) PROVE IInv'
<1>1. PICK u \in Loadable(d) : cached' = InRam(d, u, FALSE)
  BY DEF LoadUnits, loadIndexedIntoCache
<1>2. /\ UNCHANGED <<file, session, edition, ready, mapBuilt, hand, faults, opens>>
      /\ ready /\ session = "open"
  BY DEF LoadUnits, MayCall, index
<1>3. /\ u \in UnitsType
      /\ \/ file.slot[d].state = "entry" /\ u = file.slot[d].units
         \/ file.slot[d].state = "junk" /\ u.anchors = {}
  BY LoadedUnits DEF IInv
<1>4. cached' \in CachedType /\ cached'.doc = d /\ cached'.units = u /\ d # 0
  BY <1>1, <1>3, DocsAre DEF InRam, CachedType
<1>5. Types' /\ OneInWork'
  BY <1>2, <1>4 DEF IInv, Types, OneInWork
<1>6. FileIsWellFormed' /\ EntriesAreTrue' /\ MapIsTrue'
  BY <1>2, FileStays
<1>7. SessionIsOwners' /\ HandIsTrue'
  BY <1>2 DEF IInv, SessionIsOwners, HandIsTrue, Owner, OfText, BookIsTrue, JunkIsRead, CoversMap
<1>8. CachedIsTrue'
  <2>1. SUFFICES ASSUME Owner(edition)
                 PROVE  /\ u.anchors # {} => OfText(u, edition, d) /\ BookIsTrue(u, edition, d)
                        /\ u.anchors = {} => Kinds[edition][d] = "none" \/ file.slot[d].state = "junk"
    BY <1>2, <1>4 DEF CachedIsTrue, Owner, OfText, BookIsTrue, JunkIsRead, CoversMap
  <2>2. edition \in Editions
    BY DEF IInv, Types
  <2>3. file.slot[d].state = "entry" => OfText(file.slot[d].units, edition, d) /\ BookIsTrue(file.slot[d].units, edition, d)
    BY <2>1, <2>2 DEF IInv, EntriesAreTrue
  <2>4. Scanned(edition, d).anchors = {} => Kinds[edition][d] = "none"
    BY <2>2, ScannedOfType
  <2> QED BY <1>3, <2>3, <2>4 DEF OfText
<1> QED BY <1>5, <1>6, <1>7, <1>8 DEF IInv

(* The step leaves the file and the answer kept in RAM alone. *)
LEMMA CachedStays ==
  ASSUME IInv, cached' = cached, edition' = edition, file'.size = file.size, JunkIsRead => JunkIsRead',
         \A d \in Docs : file.slot[d].state = "junk" => file'.slot[d].state = "junk"
  PROVE  CachedIsTrue'
<1>1. cached.doc \in {0} \cup Docs
  BY CellsInUse DEF IInv
<1> QED BY <1>1 DEF IInv, CachedIsTrue, Owner, OfText, BookIsTrue

(* ScanDocument puts the open edition's units in hand. *)
LEMMA ScanSteps ==
  ASSUME IInv, NEW d \in Docs, ScanDocument(d) PROVE IInv'
<1>1. /\ UNCHANGED <<file, session, edition, ready, mapBuilt, cached, opens>>
      /\ ready /\ session = "open" /\ NotLoaded(d)
  BY DEF ScanDocument, MayCall, index
<1>2. edition \in Editions /\ d # 0
  BY DocsAre DEF IInv, Types
<1>3. /\ hand' \in HandType /\ hand'.doc = d /\ hand'.step \in {"book", "append"}
      /\ hand'.units = Scanned(edition, d) /\ hand'.inTable = FALSE
  <2>1. hand' = [doc |-> d, step |-> IF Kinds[edition][d] = "verse" THEN "book" ELSE "append",
                 units |-> Scanned(edition, d), inTable |-> FALSE]
    BY DEF ScanDocument
  <2> QED BY <1>2, <2>1, ScannedOfType DEF HandType
<1>4. faults' \in 0..MaxFaults
  <2>1. faults' = faults \/ Fault(1)
    BY <1>1 DEF NotLoaded
  <2> QED BY <2>1, FaultCounts DEF IInv, Types
<1>5. Types' /\ OneInWork'
  BY <1>1, <1>2, <1>3, <1>4 DEF IInv, Types, OneInWork
<1>6. FileIsWellFormed' /\ EntriesAreTrue' /\ MapIsTrue' /\ (JunkIsRead => JunkIsRead')
  BY <1>1, FileStays
<1>7. SessionIsOwners' /\ CachedIsTrue'
  BY <1>1, <1>6, CachedStays DEF IInv, SessionIsOwners, Owner, CoversMap
<1>8. HandIsTrue'
  <2>1. hand'.units.kind = Kinds[edition][d] /\ hand'.units.anchors = Scanned(edition, d).anchors
        /\ hand'.units.book = 0
    <3>1. Scanned(edition, d).book = 0 /\ OfText(Scanned(edition, d), edition, d)
      BY <1>2, ScannedOfType
    <3> QED BY <1>3, <3>1 DEF OfText
  <2>2. ~hand'.inTable /\ hand'.step # "entry" /\ edition' = edition /\ hand'.doc = d
    BY <1>1, <1>3
  <2> QED BY <2>1, <2>2 DEF HandIsTrue, OfText, BookIsTrue
<1> QED BY <1>5, <1>6, <1>7, <1>8 DEF IInv

(* A failed build leaves a placeholder that admits it, and nothing in work. *)
LEMMA FailedBuild ==
  ASSUME IInv, NEW d \in Docs, BuildFailed(d), ready' = TRUE, session' = "open"
  PROVE  /\ cached' \in CachedType /\ cached'.doc # 0 /\ hand' \in HandType
         /\ OneInWork' /\ HandIsTrue' /\ CachedIsTrue'
<1>1. /\ cached' \in CachedType /\ cached'.doc # 0 /\ cached'.units.anchors = {} /\ cached'.failed
      /\ hand' \in HandType /\ hand'.doc = 0 /\ hand'.step = "idle" /\ hand' = Idle
  BY MadeOfType, DocsAre DEF BuildFailed, InRam, CachedType
<1> QED BY <1>1 DEF OneInWork, HandIsTrue, CachedIsTrue

(* ScanFails leaves nothing but an answer that admits it. *)
LEMMA ScanFailSteps ==
  ASSUME IInv, NEW d \in Docs, ScanFails(d) PROVE IInv'
<1>1. /\ UNCHANGED <<file, session, edition, ready, mapBuilt, opens>>
      /\ ready /\ session = "open" /\ BuildFailed(d) /\ faults' \in 0..MaxFaults
  <2>1. Fault(1)
    BY DEF ScanFails
  <2> QED BY <2>1, FaultCounts DEF IInv, ScanFails, MayCall, index
<1>2. cached' \in CachedType /\ hand' \in HandType /\ OneInWork' /\ HandIsTrue' /\ CachedIsTrue'
  BY <1>1, FailedBuild
<1>3. Types'
  BY <1>1, <1>2 DEF IInv, Types
<1>4. FileIsWellFormed' /\ EntriesAreTrue' /\ MapIsTrue'
  BY <1>1, FileStays
<1>5. SessionIsOwners'
  BY <1>1 DEF IInv, SessionIsOwners, Owner, CoversMap
<1> QED BY <1>2, <1>3, <1>4, <1>5 DEF IInv

\* ------------------------------------------------------------ the book map
(* Writing the map takes a built map for granted from then on, and tells every book truly. *)
LEMMA MapWritten ==
  ASSUME IInv, ready, buildBookMap, ~mapBuilt, UNCHANGED index
  PROVE  /\ file' \in FileType /\ file'.size = file.size /\ CoversMap(file)' /\ mapBuilt' = TRUE
         /\ faults' \in 0..MaxFaults
         /\ \A d \in Docs : /\ file'.slot[d].state = file.slot[d].state
                            /\ file'.slot[d].inTable = file.slot[d].inTable
                            /\ Kinds[edition][d] = "verse" => file'.map[d] \in {0, Books[edition][d]}
                            /\ file'.map[d] \in 0..MaxBook
         /\ ~JunkIsRead
         /\ FileIsWellFormed' /\ EntriesAreTrue' /\ MapIsTrue'
<1>1. PICK unread \in SUBSET (1..MaxBook), spoilt \in SUBSET InTable(file) :
         Fault(Cardinality(unread)) /\ WriteMap(spoilt, unread)
  BY DEF buildBookMap
<1> DEFINE slots == Hurt(file.slot, spoilt)
           books == MapOf(edition, unread)
<1>2. file \in FileType /\ edition \in Editions /\ MapCell \in 0..MapCell /\ DocCount \in Nat /\ MapCell = DocCount + 1
  BY DocsAre DEF IInv, Types
<1>3. /\ slots \in [Docs -> CellType]
      /\ \A d \in Docs : slots[d].state = file.slot[d].state /\ slots[d].units = file.slot[d].units
                         /\ slots[d].inTable = file.slot[d].inTable
  BY HurtCells, CellsInUse DEF IInv
<1>4. /\ books \in [Docs -> 0..MaxBook]
      /\ \A d \in Docs : Kinds[edition][d] = "verse" => books[d] \in {0, Books[edition][d]}
  BY <1>2, MapOfType
<1>5. file' = [file EXCEPT !.map = books, !.mapJunk = FALSE, !.cells = MapCell, !.slot = slots]
  BY <1>1 DEF WriteMap
<1> HIDE DEF slots, books
<1>6. /\ file' \in FileType /\ file'.headed = file.headed /\ file'.size = file.size /\ file'.cells = MapCell
      /\ file'.slot = slots /\ file'.map = books /\ file'.mapJunk = FALSE
  BY <1>2, <1>3, <1>4, <1>5 DEF FileType
<1>7. faults' \in 0..MaxFaults
  <2>1. IsFiniteSet(1..MaxBook)
    <3>1. 1 \in Int /\ 2 \in Int
      OBVIOUS
    <3> QED BY <3>1, FS_Interval DEF MaxBook
  <2>2. Cardinality(unread) \in Nat
    BY <2>1, FS_Subset, FS_CardinalityType
  <2> QED BY <1>1, <2>2, FaultCounts DEF IInv
<1>8. mapBuilt' = TRUE /\ ~JunkIsRead /\ CoversMap(file)'
  BY <1>6 DEF buildBookMap, JunkIsRead, CoversMap
<1>9. FileIsWellFormed'
  <2>1. \A d \in Docs : d <= MapCell
    BY DocsAre
  <2> QED BY <1>3, <1>6, <2>1 DEF IInv, FileIsWellFormed, CoversMap
<1>10. EntriesAreTrue'
  BY <1>3, <1>6, <1>8 DEF IInv, EntriesAreTrue, Owner, OfText, BookIsTrue
<1>11. MapIsTrue'
  <2>1. \A e \in Editions : SourceSize[e] # 0
    BY TextsAreTyped
  <2>2. file.size = 0 \/ Owner(edition)
    BY DEF IInv, SessionIsOwners
  <2>3. \A e \in Editions : Owner(e) => e = edition
    BY <1>2, <2>1, <2>2, SizesDiffer DEF Owner
  <2> QED BY <1>4, <1>6, <2>3 DEF MapIsTrue, Owner
<1> QED BY <1>3, <1>4, <1>6, <1>7, <1>8, <1>9, <1>10, <1>11

(* BookOfDocument: the book is the document's own, unknown, or read from   *)
(* junk.                                                                   *)
LEMMA BookSteps ==
  ASSUME IInv, BookOfDocument PROVE IInv'
<1> DEFINE d == hand.doc
<1>1. hand.step = "book" /\ UNCHANGED <<session, edition, ready, cached, opens>> /\ UNCHANGED index
  BY DEF BookOfDocument, index
<1>2. d \in Docs /\ d # 0 /\ ready /\ session = "open" /\ hand \in HandType /\ edition \in Editions
  BY <1>1, CellsInUse, DocsAre, MadeOfType DEF IInv, OneInWork, Types
<1>3. hand' = [hand EXCEPT !.step = "append"] \/ \E b : hand' = [hand EXCEPT !.step = "append", !.units.book = b]
  BY DEF BookOfDocument
<1>4. /\ hand'.doc = d /\ hand'.step = "append" /\ hand'.inTable = hand.inTable
      /\ hand'.units.kind = hand.units.kind /\ hand'.units.anchors = hand.units.anchors
  <2>1. CASE hand' = [hand EXCEPT !.step = "append"]
    BY <1>2, <2>1 DEF HandType
  <2>2. ASSUME NEW b, hand' = [hand EXCEPT !.step = "append", !.units.book = b]
        PROVE  /\ hand'.doc = d /\ hand'.step = "append" /\ hand'.inTable = hand.inTable
               /\ hand'.units.kind = hand.units.kind /\ hand'.units.anchors = hand.units.anchors
    <3>1. hand.units \in UnitsType
      BY <1>2 DEF HandType
    <3>2. hand'.units = [hand.units EXCEPT !.book = b] /\ hand'.doc = d /\ hand'.step = "append"
          /\ hand'.inTable = hand.inTable
      BY <1>2, <2>2 DEF HandType
    <3> QED BY <3>1, <3>2 DEF UnitsType
  <2> QED BY <1>3, <2>1, <2>2
<1>5. ASSUME hand' \in HandType, file' \in FileType, mapBuilt' \in BOOLEAN, faults' \in 0..MaxFaults,
             FileIsWellFormed', EntriesAreTrue', MapIsTrue', JunkIsRead => JunkIsRead', file'.size = file.size,
             mapBuilt' => CoversMap(file)',
             \A x \in Docs : file.slot[x].state = "junk" => file'.slot[x].state = "junk",
             Owner(edition) /\ hand.units.kind = "verse" => hand'.units.book \in {0, Books[edition][d]} \/ JunkIsRead'
      PROVE  IInv'
  <2>1. Types' /\ OneInWork'
    BY <1>1, <1>2, <1>4, <1>5, MadeOfType DEF IInv, Types, OneInWork
  <2>2. SessionIsOwners' /\ CachedIsTrue'
    BY <1>1, <1>5, CachedStays DEF IInv, SessionIsOwners, Owner
  <2>3. HandIsTrue'
    <3>1. OfText(hand.units, edition, d) /\ (hand.inTable => hand.units.anchors # {})
      BY <1>2 DEF IInv, HandIsTrue
    <3>2. edition' = edition /\ (Owner(edition)' => Owner(edition))
      BY <1>1, <1>5 DEF Owner
    <3> QED BY <1>4, <1>5, <3>1, <3>2 DEF HandIsTrue, OfText, BookIsTrue
  <2> QED BY <1>5, <2>1, <2>2, <2>3 DEF IInv
<1>6. CASE ~mapBuilt /\ buildBookMap /\ hand' = [hand EXCEPT !.step = "append", !.units.book = file'.map[hand.doc]]
  <2>1. /\ file' \in FileType /\ file'.size = file.size /\ CoversMap(file)' /\ mapBuilt' = TRUE
        /\ faults' \in 0..MaxFaults /\ ~JunkIsRead
        /\ FileIsWellFormed' /\ EntriesAreTrue' /\ MapIsTrue'
        /\ \A x \in Docs : file'.slot[x].state = file.slot[x].state
    BY <1>1, <1>2, <1>6, MapWritten
  <2>2. file'.map[d] \in 0..MaxBook /\ (Kinds[edition][d] = "verse" => file'.map[d] \in {0, Books[edition][d]})
    BY <1>1, <1>2, <1>6, MapWritten
  <2>3. hand' \in HandType /\ hand'.units.book = file'.map[d]
    BY <1>2, <1>6, <2>2 DEF HandType, UnitsType
  <2>4. hand.units.kind = Kinds[edition][d]
    BY <1>2 DEF IInv, HandIsTrue, OfText
  <2> QED BY <1>5, <2>1, <2>2, <2>3, <2>4
<1>7. CASE ~mapBuilt /\ BookMapFails /\ hand' = [hand EXCEPT !.step = "append"]
  <2>1. file' = file /\ mapBuilt' = mapBuilt /\ faults' \in 0..MaxFaults
    <3>1. Spend(file.cells >= DocCount)
      BY <1>7 DEF BookMapFails
    <3> QED BY <1>7, <3>1, SpendCounts DEF BookMapFails, IInv
  <2>2. FileIsWellFormed' /\ EntriesAreTrue' /\ MapIsTrue' /\ (JunkIsRead => JunkIsRead')
    BY <1>1, <2>1, FileStays
  <2>3. hand' \in HandType /\ hand'.units = hand.units
    BY <1>2, <1>7 DEF HandType
  <2>4. Owner(edition) /\ hand.units.kind = "verse" => hand.units.book \in {0, Books[edition][d]} \/ JunkIsRead'
    BY <1>2, <2>2 DEF IInv, HandIsTrue, BookIsTrue
  <2> QED BY <1>5, <1>7, <2>1, <2>2, <2>3, <2>4 DEF IInv, Types
<1>8. CASE mapBuilt /\ UNCHANGED <<file, mapBuilt, faults>>
           /\ \E b \in BooksRead(d) : hand' = [hand EXCEPT !.step = "append", !.units.book = b]
  <2>1. PICK b \in BooksRead(d) : hand' = [hand EXCEPT !.step = "append", !.units.book = b]
    BY <1>8
  <2>2. FileIsWellFormed' /\ EntriesAreTrue' /\ MapIsTrue' /\ (JunkIsRead => JunkIsRead')
    BY <1>1, <1>8, FileStays
  <2>3. CoversMap(file)
    BY <1>2, <1>8 DEF IInv, SessionIsOwners
  <2>4. b \in 0..MaxBook /\ (Owner(edition) /\ Kinds[edition][d] = "verse" => b \in {0, Books[edition][d]} \/ JunkIsRead)
    <3>1. CASE file.mapJunk
      BY <1>8, <2>3, <3>1 DEF BooksRead, JunkIsRead
    <3>2. CASE ~file.mapJunk
      BY <1>2, <3>2, CellsInUse DEF BooksRead, IInv, MapIsTrue
    <3> QED BY <3>1, <3>2
  <2>5. hand' \in HandType /\ hand'.units.book = b
    BY <1>2, <2>1, <2>4 DEF HandType, UnitsType
  <2>6. hand.units.kind = Kinds[edition][d]
    BY <1>2 DEF IInv, HandIsTrue, OfText
  <2> QED BY <1>5, <1>8, <2>2, <2>3, <2>4, <2>5, <2>6 DEF IInv, Types, CoversMap
<1> QED BY <1>6, <1>7, <1>8 DEF BookOfDocument

(* SpineIndicesForBook builds the map, or does not. *)
LEMMA SpineSteps ==
  ASSUME IInv, SpineIndicesForBook PROVE IInv'
<1>1. UNCHANGED <<session, edition, ready, cached, hand, opens>> /\ UNCHANGED index /\ ~mapBuilt /\ ready
      /\ hand = Idle /\ hand.doc = 0
  BY MadeOfType DEF SpineIndicesForBook, index
<1>2. OneInWork' /\ HandIsTrue'
  BY <1>1 DEF IInv, OneInWork, HandIsTrue
<1>3. CASE buildBookMap
  <2>1. /\ file' \in FileType /\ file'.size = file.size /\ CoversMap(file)' /\ mapBuilt' = TRUE
        /\ faults' \in 0..MaxFaults /\ ~JunkIsRead
        /\ FileIsWellFormed' /\ EntriesAreTrue' /\ MapIsTrue'
        /\ \A x \in Docs : file'.slot[x].state = file.slot[x].state
    BY <1>1, <1>3, MapWritten
  <2>2. Types' /\ SessionIsOwners' /\ CachedIsTrue'
    BY <1>1, <2>1, CachedStays DEF IInv, Types, SessionIsOwners, Owner
  <2> QED BY <1>2, <2>1, <2>2 DEF IInv
<1>4. CASE BookMapFails
  <2>1. file' = file /\ mapBuilt' = mapBuilt /\ faults' \in 0..MaxFaults
    <3>1. Spend(file.cells >= DocCount)
      BY <1>4 DEF BookMapFails
    <3> QED BY <1>4, <3>1, SpendCounts DEF BookMapFails, IInv
  <2>2. FileIsWellFormed' /\ EntriesAreTrue' /\ MapIsTrue' /\ (JunkIsRead => JunkIsRead')
    BY <1>1, <2>1, FileStays
  <2>3. Types' /\ SessionIsOwners' /\ CachedIsTrue'
    BY <1>1, <2>1, <2>2, CachedStays DEF IInv, Types, SessionIsOwners, Owner, CoversMap
  <2> QED BY <1>2, <2>2, <2>3 DEF IInv
<1> QED BY <1>3, <1>4 DEF SpineIndicesForBook

\* ------------------------------------------------- the rest of buildDocument
(* Appended anchors push no entry out: what they fall upon was not yet written. *)
LEMMA GrownKeeps ==
  ASSUME IInv, NEW n \in file.cells..MapCell, file' = Grown(file, n), UNCHANGED index, mapBuilt' = mapBuilt
  PROVE  /\ file' \in FileType /\ file'.size = file.size /\ (CoversMap(file) => CoversMap(file)')
         /\ \A d \in Docs : \/ d <= file.cells /\ file'.slot[d] = file.slot[d]
                            \/ file.cells < d /\ file'.slot[d] = Junk
                            \/ file.cells < d /\ file'.slot[d] = file.slot[d]
         /\ FileIsWellFormed' /\ EntriesAreTrue' /\ MapIsTrue' /\ (JunkIsRead => JunkIsRead')
<1>1. file \in FileType /\ file.cells \in 0..MapCell /\ DocCount \in Nat /\ MapCell = DocCount + 1
  BY DocsAre DEF IInv, Types, FileType
<1>2. /\ file' \in FileType /\ file'.cells = n /\ file'.headed = file.headed /\ file'.size = file.size
      /\ file'.map = file.map
      /\ (file.mapJunk => file'.mapJunk) /\ (CoversMap(file) => CoversMap(file)')
      /\ \A d \in Docs : \/ d <= file.cells /\ file'.slot[d] = file.slot[d]
                         \/ file.cells < d /\ n < d /\ file'.slot[d] = file.slot[d]
                         \/ file.cells < d /\ file'.slot[d] = Junk
  BY <1>1, GrownFile
<1>3. \A d \in Docs : file'.slot[d].state = "entry" => file'.slot[d] = file.slot[d]
  BY <1>2, MadeOfType
<1>4. JunkIsRead => JunkIsRead'
  BY <1>2 DEF JunkIsRead, index
<1>5. FileIsWellFormed'
  <2>1. \A d \in Docs : d <= file.cells => d <= n
    BY <1>1, DocsAre
  <2> QED BY <1>2, <1>3, <2>1 DEF IInv, FileIsWellFormed
<1>6. EntriesAreTrue'
  BY <1>2, <1>3, <1>4 DEF IInv, EntriesAreTrue, Owner, OfText, BookIsTrue
<1>7. MapIsTrue'
  BY <1>2 DEF IInv, MapIsTrue, Owner
<1> QED BY <1>2, <1>4, <1>5, <1>6, <1>7

(* While a document is in work its units are those of the open edition. *)
LEMMA HandInWork ==
  ASSUME IInv, hand.step # "idle"
  PROVE  /\ hand.doc \in Docs /\ hand.doc # 0 /\ ready /\ session = "open" /\ hand \in HandType /\ edition \in Editions
         /\ OfText(hand.units, edition, hand.doc) /\ (hand.inTable => hand.units.anchors # {})
         /\ Owner(edition) => BookIsTrue(hand.units, edition, hand.doc)
<1>1. hand.doc \in Docs /\ hand.doc # 0 /\ hand # Idle /\ hand \in HandType /\ edition \in Editions
  BY CellsInUse, DocsAre, MadeOfType DEF IInv, OneInWork, Types
<1> QED BY <1>1 DEF IInv, OneInWork, HandIsTrue

(* AppendAnchors grows the file and keeps what it held. *)
LEMMA AppendSteps ==
  ASSUME IInv, AppendAnchors PROVE IInv'
<1> DEFINE d == hand.doc
           anchored == hand.units.anchors # {}
           within == file.cells < MapCell
<1>1. /\ hand.step = "append" /\ UNCHANGED index /\ UNCHANGED <<session, edition, ready, mapBuilt, cached, faults, opens>>
      /\ hand' = [hand EXCEPT !.step = "entry", !.inTable = anchored /\ within]
  BY DEF AppendAnchors, index
<1>2. /\ d \in Docs /\ d # 0 /\ ready /\ session = "open" /\ hand \in HandType /\ edition \in Editions
      /\ OfText(hand.units, edition, d)
      /\ (Owner(edition) => BookIsTrue(hand.units, edition, d))
  BY <1>1, HandInWork
<1>3. /\ hand'.doc = d /\ hand'.step = "entry" /\ hand'.units = hand.units
      /\ hand'.inTable = (anchored /\ within) /\ hand' \in HandType
  BY <1>1, <1>2 DEF HandType
<1>4. OneInWork'
  BY <1>1, <1>2, <1>3, MadeOfType DEF OneInWork
<1>5. CASE ~anchored
  <2>1. file' = file
    BY <1>5 DEF AppendAnchors
  <2>2. FileIsWellFormed' /\ EntriesAreTrue' /\ MapIsTrue' /\ (JunkIsRead => JunkIsRead')
    BY <1>1, <2>1, FileStays
  <2>3. Types' /\ SessionIsOwners' /\ CachedIsTrue'
    BY <1>1, <1>3, <2>1, <2>2, CachedStays DEF IInv, Types, SessionIsOwners, Owner, CoversMap
  <2>4. ~hand'.inTable /\ hand'.units.anchors = {}
    BY <1>3, <1>5
  <2>5. HandIsTrue'
    BY <1>1, <1>2, <1>3, <2>1, <2>2, <2>4 DEF HandIsTrue, OfText, BookIsTrue, Owner
  <2> QED BY <1>4, <2>2, <2>3, <2>5 DEF IInv
<1>6. CASE anchored
  <2>1. PICK n \in file.cells..MapCell : file' = Grown(file, n)
    BY <1>6 DEF AppendAnchors
  <2>2. /\ file' \in FileType /\ file'.size = file.size /\ (CoversMap(file) => CoversMap(file)')
        /\ \A x \in Docs : \/ x <= file.cells /\ file'.slot[x] = file.slot[x]
                           \/ file.cells < x /\ file'.slot[x] = Junk
                           \/ file.cells < x /\ file'.slot[x] = file.slot[x]
        /\ FileIsWellFormed' /\ EntriesAreTrue' /\ MapIsTrue' /\ (JunkIsRead => JunkIsRead')
    BY <1>1, <2>1, GrownKeeps
  <2>3. \A x \in Docs : file.slot[x].state = "junk" => file'.slot[x].state = "junk"
    BY <2>2, MadeOfType
  <2>4. Types' /\ SessionIsOwners' /\ CachedIsTrue'
    BY <1>1, <1>3, <2>2, <2>3, CachedStays DEF IInv, Types, SessionIsOwners, Owner
  <2>5. (~hand'.inTable => CoversMap(file)') /\ (hand'.inTable => ~CoversMap(file))
    <3>1. file.cells \in 0..MapCell /\ MapCell \in Nat
      BY CellsInUse, DocsAre DEF IInv
    <3>2. CoversMap(file) <=> ~within
      BY <3>1 DEF CoversMap
    <3> QED BY <1>3, <1>6, <2>2, <3>2
  <2>6. hand'.inTable /\ Owner(edition) => ~(file'.slot[d].state = "entry" /\ ~file'.slot[d].inTable)
    <3> SUFFICES ASSUME hand'.inTable, Owner(edition), file'.slot[d].state = "entry", ~file'.slot[d].inTable
                 PROVE  FALSE
      OBVIOUS
    <3>1. file'.slot[d] = file.slot[d]
      BY <1>2, <2>2, MadeOfType
    <3>2. file.slot[d].units.anchors = hand.units.anchors
      BY <1>2, <3>1 DEF IInv, EntriesAreTrue, OfText
    <3>3. CoversMap(file)
      BY <1>2, <1>6, <3>1, <3>2 DEF IInv, FileIsWellFormed
    <3> QED BY <2>5, <3>3
  <2>7. HandIsTrue'
    BY <1>1, <1>2, <1>3, <1>6, <2>2, <2>5, <2>6 DEF HandIsTrue, OfText, BookIsTrue, Owner
  <2> QED BY <1>4, <2>2, <2>4, <2>7 DEF IInv
<1> QED BY <1>5, <1>6

(* AppendFails too, and nothing points at what was appended. *)
LEMMA AppendFailSteps ==
  ASSUME IInv, AppendFails PROVE IInv'
<1>1. /\ hand.step = "append" /\ UNCHANGED index /\ UNCHANGED <<session, edition, ready, mapBuilt, opens>>
      /\ BuildFailed(hand.doc) /\ Fault(1)
  BY DEF AppendFails, index
<1>2. hand.doc \in Docs /\ ready /\ session = "open"
  BY <1>1, HandInWork
<1>3. faults' \in 0..MaxFaults
  BY <1>1, FaultCounts DEF IInv
<1>4. cached' \in CachedType /\ hand' \in HandType /\ OneInWork' /\ HandIsTrue' /\ CachedIsTrue'
  BY <1>1, <1>2, FailedBuild DEF IInv, Types
<1>5. PICK n \in file.cells..MapCell : file' = Grown(file, n)
  BY DEF AppendFails
<1>6. /\ file' \in FileType /\ file'.size = file.size /\ (CoversMap(file) => CoversMap(file)')
      /\ FileIsWellFormed' /\ EntriesAreTrue' /\ MapIsTrue'
  BY <1>1, <1>5, GrownKeeps
<1>7. Types' /\ SessionIsOwners'
  BY <1>1, <1>2, <1>3, <1>4, <1>6 DEF IInv, Types, SessionIsOwners, Owner
<1> QED BY <1>4, <1>6, <1>7 DEF IInv

(* One more cell of the table may be reached, never fewer. *)
LEMMA CellsReached ==
  ASSUME Types, NEW d \in Docs, Reachable(d)
  PROVE  /\ Larger(file.cells, d) \in 0..MapCell /\ d <= Larger(file.cells, d)
         /\ (CoversMap(file) => Larger(file.cells, d) = MapCell)
         /\ \A x \in Docs : x <= file.cells => x <= Larger(file.cells, d)
<1>1. file.cells \in 0..MapCell /\ d \in 1..DocCount /\ DocCount \in Nat /\ MapCell = DocCount + 1
      /\ Docs = 1..DocCount
  BY CellsInUse, DocsAre
<1> QED BY <1>1 DEF Larger, CoversMap

(* WriteEntry: the entry is the scanned one, and the others keep their     *)
(* units.                                                                  *)
LEMMA EntrySteps ==
  ASSUME IInv, WriteEntry PROVE IInv'
<1> DEFINE d == hand.doc
<1>1. /\ hand.step = "entry" /\ Reachable(d) /\ UNCHANGED index
      /\ UNCHANGED <<session, edition, ready, mapBuilt, faults, opens>>
      /\ cached' = InRam(d, hand.units, FALSE) /\ hand' = Idle
  BY DEF WriteEntry, index
<1>2. /\ d \in Docs /\ d # 0 /\ ready /\ session = "open" /\ hand \in HandType /\ edition \in Editions
      /\ OfText(hand.units, edition, d)
      /\ (Owner(edition) => BookIsTrue(hand.units, edition, d))
  BY <1>1, HandInWork
<1>3. PICK spoilt \in SUBSET (InTable(file) \ {d}), ownSpoilt \in BOOLEAN :
         file' = [file EXCEPT !.cells = Larger(@, d),
                              !.slot = [Hurt(@, spoilt) EXCEPT ![d] = [Entry(hand.units, hand.inTable) EXCEPT !.sound = ~ownSpoilt]]]
  BY DEF WriteEntry
<1> DEFINE own == [Entry(hand.units, hand.inTable) EXCEPT !.sound = ~ownSpoilt]
           slots == [Hurt(file.slot, spoilt) EXCEPT ![d] = own]
<1>4. /\ own \in CellType /\ own.state = "entry" /\ own.units = hand.units /\ own.inTable = hand.inTable
  <2>1. hand.units \in UnitsType /\ hand.inTable \in BOOLEAN
    BY <1>2 DEF HandType
  <2> QED BY <2>1 DEF Entry, Cell, CellType
<1>5. /\ slots \in [Docs -> CellType] /\ slots[d] = own
      /\ \A x \in Docs \ {d} : /\ slots[x].state = file.slot[x].state /\ slots[x].units = file.slot[x].units
                               /\ slots[x].inTable = file.slot[x].inTable
  <2>1. /\ Hurt(file.slot, spoilt) \in [Docs -> CellType]
        /\ \A x \in Docs : /\ Hurt(file.slot, spoilt)[x].state = file.slot[x].state
                           /\ Hurt(file.slot, spoilt)[x].units = file.slot[x].units
                           /\ Hurt(file.slot, spoilt)[x].inTable = file.slot[x].inTable
    BY HurtCells, CellsInUse DEF IInv
  <2> QED BY <1>2, <1>4, <2>1
<1>6. file \in FileType /\ Larger(file.cells, d) \in 0..MapCell
      /\ d <= Larger(file.cells, d) /\ (CoversMap(file) => Larger(file.cells, d) = MapCell)
      /\ \A x \in Docs : x <= file.cells => x <= Larger(file.cells, d)
  BY <1>1, <1>2, CellsReached DEF IInv, Types
<1>7. file' = [file EXCEPT !.cells = Larger(file.cells, d), !.slot = slots]
  BY <1>3
<1> HIDE DEF own, slots
<1>8. /\ file' \in FileType /\ file'.headed = file.headed /\ file'.size = file.size /\ file'.map = file.map
      /\ file'.mapJunk = file.mapJunk /\ file'.cells = Larger(file.cells, d) /\ file'.slot = slots
  BY <1>5, <1>6, <1>7 DEF FileType
<1>9. (CoversMap(file) => CoversMap(file)') /\ (JunkIsRead => JunkIsRead')
  BY <1>1, <1>6, <1>8 DEF CoversMap, JunkIsRead
<1>10. FileIsWellFormed'
  <2>1. hand.units.anchors # {} /\ ~hand.inTable => CoversMap(file)
    BY <1>1, <1>2 DEF IInv, HandIsTrue
  <2>2. ASSUME NEW x \in Docs, file'.slot[x].state = "entry"
        PROVE  x <= file'.cells /\ (file'.slot[x].units.anchors # {} /\ ~file'.slot[x].inTable => CoversMap(file)')
    <3>1. CASE x = d
      BY <1>4, <1>5, <1>6, <1>8, <1>9, <2>1, <3>1
    <3>2. CASE x # d
      BY <1>5, <1>6, <1>8, <1>9, <2>2, <3>2 DEF IInv, FileIsWellFormed
    <3> QED BY <3>1, <3>2
  <2> QED BY <1>8, <2>2 DEF IInv, FileIsWellFormed
<1>11. file.size = 0 \/ \A e \in Editions : Owner(e) => e = edition
  <2>1. file.size = 0 \/ Owner(edition)
    BY <1>2 DEF IInv, SessionIsOwners
  <2> QED BY <1>2, <2>1, SizesDiffer DEF Owner
<1>12. EntriesAreTrue'
  <2> SUFFICES ASSUME NEW e \in Editions, NEW x \in Docs, Owner(e), slots[x].state = "entry"
               PROVE  /\ OfText(slots[x].units, e, x)
                      /\ slots[x].units.kind = "verse" => slots[x].units.book \in {0, Books[e][x]} \/ JunkIsRead'
    BY <1>8 DEF EntriesAreTrue, Owner, OfText, BookIsTrue
  <2>1. CASE x = d
    <3>1. e = edition
      BY <1>11, TextsAreTyped DEF Owner
    <3> QED BY <1>2, <1>4, <1>5, <1>9, <2>1, <3>1 DEF BookIsTrue
  <2>2. CASE x # d
    BY <1>5, <1>9, <2>2 DEF IInv, EntriesAreTrue, OfText, BookIsTrue
  <2> QED BY <2>1, <2>2
<1>13. MapIsTrue'
  BY <1>8 DEF IInv, MapIsTrue, Owner
<1>14. cached' \in CachedType /\ cached'.doc = d /\ cached'.units = hand.units /\ hand' \in HandType
       /\ hand'.doc = 0 /\ hand'.step = "idle"
  BY <1>1, <1>2, MadeOfType DEF InRam, CachedType, HandType
<1>15. Types' /\ OneInWork' /\ SessionIsOwners' /\ HandIsTrue'
  BY <1>1, <1>2, <1>8, <1>9, <1>14 DEF IInv, Types, OneInWork, SessionIsOwners, Owner, HandIsTrue
<1>16. CachedIsTrue'
  <2>1. Scanned(edition, d).anchors = {} => Kinds[edition][d] = "none"
    BY <1>2, ScannedOfType
  <2> QED BY <1>1, <1>2, <1>8, <1>9, <1>14, <2>1 DEF CachedIsTrue, Owner, OfText, BookIsTrue
<1> QED BY <1>10, <1>12, <1>13, <1>15, <1>16 DEF IInv

(* EntryFails leaves the cell as it was, or junk. *)
LEMMA EntryFailSteps ==
  ASSUME IInv, EntryFails PROVE IInv'
<1> DEFINE d == hand.doc
<1>1. /\ hand.step = "entry" /\ UNCHANGED index /\ UNCHANGED <<session, edition, ready, mapBuilt, opens>>
      /\ BuildFailed(d) /\ Spend(Reachable(d))
  BY DEF EntryFails, index
<1>2. d \in Docs /\ ready /\ session = "open"
  BY <1>1, HandInWork
<1>3. faults' \in 0..MaxFaults
  BY <1>1, SpendCounts DEF IInv
<1>4. cached' \in CachedType /\ hand' \in HandType /\ OneInWork' /\ HandIsTrue' /\ CachedIsTrue'
  BY <1>1, <1>2, FailedBuild DEF IInv, Types
<1>5. CASE file' = file
  <2>1. FileIsWellFormed' /\ EntriesAreTrue' /\ MapIsTrue'
    BY <1>1, <1>5, FileStays
  <2>2. Types' /\ SessionIsOwners'
    BY <1>1, <1>2, <1>3, <1>4, <1>5 DEF IInv, Types, SessionIsOwners, Owner, CoversMap
  <2> QED BY <1>4, <2>1, <2>2 DEF IInv
<1>6. CASE Reachable(d) /\ file' = [file EXCEPT !.cells = Larger(@, d), !.slot[d] = Junk]
  <2> DEFINE slots == [file.slot EXCEPT ![d] = Junk]
  <2>1. slots \in [Docs -> CellType] /\ slots[d] = Junk /\ \A x \in Docs \ {d} : slots[x] = file.slot[x]
    BY <1>2, CellsInUse, MadeOfType DEF IInv
  <2>2. file \in FileType /\ Larger(file.cells, d) \in 0..MapCell
        /\ (CoversMap(file) => Larger(file.cells, d) = MapCell)
        /\ \A x \in Docs : x <= file.cells => x <= Larger(file.cells, d)
    BY <1>2, <1>6, CellsReached DEF IInv, Types
  <2>3. file' = [file EXCEPT !.cells = Larger(file.cells, d), !.slot = slots]
    BY <1>6
  <2> HIDE DEF slots
  <2>4. /\ file' \in FileType /\ file'.headed = file.headed /\ file'.size = file.size /\ file'.map = file.map
        /\ file'.mapJunk = file.mapJunk /\ file'.cells = Larger(file.cells, d) /\ file'.slot = slots
    BY <2>1, <2>2, <2>3 DEF FileType
  <2>5. (CoversMap(file) => CoversMap(file)') /\ (JunkIsRead => JunkIsRead')
    BY <1>1, <2>2, <2>4 DEF CoversMap, JunkIsRead
  <2>6. \A x \in Docs : slots[x].state = "entry" => slots[x] = file.slot[x]
    BY <2>1, MadeOfType
  <2>7. FileIsWellFormed' /\ MapIsTrue'
    BY <2>2, <2>4, <2>5, <2>6 DEF IInv, FileIsWellFormed, MapIsTrue, Owner
  <2>8. EntriesAreTrue'
    BY <2>4, <2>5, <2>6 DEF IInv, EntriesAreTrue, Owner, OfText, BookIsTrue
  <2>9. Types' /\ SessionIsOwners'
    BY <1>1, <1>2, <1>3, <1>4, <2>4, <2>5 DEF IInv, Types, SessionIsOwners, Owner
  <2> QED BY <1>4, <2>7, <2>8, <2>9 DEF IInv
<1> QED BY <1>5, <1>6 DEF EntryFails

(* Parking and coming back, closing, and a power cut leave the card alone. *)
LEMMA SessionSteps ==
  ASSUME IInv, Park \/ ResumePublication \/ ClosePublication \/ PowerCut PROVE IInv'
<1>1. CASE Park \/ ResumePublication
  <2>1. UNCHANGED <<file, edition, ready, mapBuilt, cached, hand, faults, opens>> /\ session' \in {"open", "parked"}
        /\ hand.doc = 0
    <3>1. Park => hand.doc = 0
      BY MadeOfType DEF Park
    <3>2. session = "parked" => hand.doc = 0
      BY MadeOfType DEF IInv, OneInWork
    <3> QED BY <1>1, <3>1, <3>2 DEF Park, ResumePublication
  <2>2. FileIsWellFormed' /\ EntriesAreTrue' /\ MapIsTrue' /\ (JunkIsRead => JunkIsRead')
    BY <2>1, FileStays
  <2>3. hand = Idle
    <3>1. Park => hand = Idle
      BY DEF Park
    <3>2. session = "parked" => hand = Idle
      BY DEF IInv, OneInWork
    <3> QED BY <1>1, <3>1, <3>2 DEF ResumePublication
  <2>4. Types' /\ OneInWork' /\ SessionIsOwners' /\ HandIsTrue'
    BY <2>1, <2>3 DEF IInv, Types, OneInWork, SessionIsOwners, Owner, CoversMap, HandIsTrue
  <2>5. CachedIsTrue'
    BY <2>1, <2>2, CachedStays
  <2> QED BY <2>2, <2>4, <2>5 DEF IInv
<1>2. CASE ClosePublication \/ PowerCut
  <2>1. /\ UNCHANGED <<file, edition, opens>> /\ session' = "none" /\ ready' = FALSE /\ mapBuilt' = FALSE
        /\ cached' = NotCached /\ hand' = Idle
    BY <1>2 DEF ClosePublication, PowerCut, Gone
  <2>2. faults' \in 0..MaxFaults
    <3>1. faults' = faults \/ Fault(1)
      BY <1>2 DEF ClosePublication, PowerCut
    <3> QED BY <3>1, FaultCounts DEF IInv, Types
  <2>3. Types' /\ OneInWork' /\ SessionIsOwners' /\ HandIsTrue' /\ CachedIsTrue'
    BY <2>1, <2>2, MadeOfType DEF IInv, Types, OneInWork, SessionIsOwners, HandIsTrue, CachedIsTrue
  <2>4. FileIsWellFormed' /\ MapIsTrue'
    BY <2>1 DEF IInv, FileIsWellFormed, MapIsTrue, Owner, CoversMap
  <2>5. EntriesAreTrue'
    BY <2>1 DEF IInv, EntriesAreTrue, Owner, OfText, BookIsTrue, JunkIsRead, CoversMap
  <2> QED BY <2>3, <2>4, <2>5 DEF IInv
<1> QED BY <1>1, <1>2

(* Every step keeps the invariant. *)
LEMMA NextIInv == IInv /\ [Next]_vars => IInv'
<1> SUFFICES ASSUME IInv, [Next]_vars PROVE IInv'
  OBVIOUS
<1>1. CASE UNCHANGED vars
  <2>1. UNCHANGED <<file, session, edition, ready, mapBuilt, cached, hand, faults, opens>>
    BY <1>1 DEF vars, index
  <2>2. FileIsWellFormed' /\ EntriesAreTrue' /\ MapIsTrue' /\ (JunkIsRead => JunkIsRead')
    BY <2>1, FileStays
  <2>3. Types' /\ OneInWork' /\ SessionIsOwners'
    BY <2>1 DEF IInv, Types, OneInWork, SessionIsOwners, Owner, CoversMap
  <2>4. HandIsTrue' /\ CachedIsTrue'
    BY <2>1 DEF IInv, HandIsTrue, CachedIsTrue, Owner, OfText, BookIsTrue, JunkIsRead, CoversMap
  <2> QED BY <2>2, <2>3, <2>4 DEF IInv
<1> QED BY <1>1, OpenSteps, LoadSteps, ScanSteps, ScanFailSteps, BookSteps, SpineSteps, AppendSteps, AppendFailSteps,
           EntrySteps, EntryFailSteps, SessionSteps DEF Next

(* A sound entry that changes without a fault was written again with the   *)
(* same units.                                                             *)
LEMMA EntryStays ==
  ASSUME IInv, Next, NEW d \in Docs, file.slot[d].state = "entry", file.slot[d].sound, ~file.slot[d].inTable,
         faults' = faults, file.size # 0, opens' # opens => SourceSize[edition'] = file.size,
         file'.slot[d] # file.slot[d]
  PROVE  file'.slot[d].state = "entry" /\ file'.slot[d].sound
         /\ file'.slot[d].units.anchors = file.slot[d].units.anchors
<1>1. Types /\ file.slot \in [Docs -> CellType] /\ d <= file.cells /\ file.cells \in 0..MapCell
  BY CellsInUse DEF IInv, FileIsWellFormed
<1>2. ~Fault(1)
  BY <1>1, FaultCounts
<1>3. ASSUME NEW e \in Editions, OpenPublication(e) PROVE FALSE
  <2>1. edition' = e /\ opens' # opens
        /\ (Keep(SourceSize[e]) \/ ~Readable(file, SourceSize[e]))
    BY <1>1, <1>3, Beginning
  <2>2. file.headed /\ file.size = SourceSize[e]
    BY <2>1 DEF IInv, FileIsWellFormed
  <2>3. Keep(SourceSize[e])
    BY <2>1, <2>2 DEF Readable, headerIsStale
  <2> QED BY <2>3 DEF Keep
<1>4. file' # file
  OBVIOUS
<1>5. ~buildBookMap
  <2> SUFFICES ASSUME buildBookMap PROVE FALSE
    OBVIOUS
  <2>1. PICK unread \in SUBSET (1..MaxBook), spoilt \in SUBSET InTable(file) : WriteMap(spoilt, unread)
    BY DEF buildBookMap
  <2>2. d \notin spoilt
    BY DEF InTable
  <2>3. file'.slot = Hurt(file.slot, spoilt)
    BY <2>1 DEF WriteMap, IInv, Types, FileType
  <2> QED BY <1>1, <2>2, <2>3, HurtCells
<1>6. ~BookOfDocument /\ ~SpineIndicesForBook
  BY <1>4, <1>5 DEF BookOfDocument, SpineIndicesForBook, BookMapFails
<1>7. ~AppendAnchors
  <2> SUFFICES ASSUME AppendAnchors PROVE FALSE
    OBVIOUS
  <2>1. PICK n \in file.cells..MapCell : file' = Grown(file, n)
    BY <1>4 DEF AppendAnchors
  <2>2. file'.slot[d] = file.slot[d]
    <3>1. file \in FileType /\ file.cells \in Nat /\ d \in Nat /\ ~(file.cells < d)
      BY <1>1, DocsAre DEF Types
    <3>2. \/ d <= file.cells /\ file'.slot[d] = file.slot[d]
          \/ file.cells < d /\ n < d /\ file'.slot[d] = file.slot[d]
          \/ file.cells < d /\ file'.slot[d] = Junk
      BY <2>1, <3>1, GrownFile
    <3> QED BY <3>1, <3>2
  <2> QED BY <2>2
<1>8. CASE WriteEntry
  <2>1. hand.doc = d
    <3>1. PICK spoilt \in SUBSET (InTable(file) \ {hand.doc}) : \E own :
             file'.slot = [Hurt(file.slot, spoilt) EXCEPT ![hand.doc] = own]
      BY <1>1, <1>8 DEF WriteEntry, Types, FileType
    <3>2. Hurt(file.slot, spoilt) \in [Docs -> CellType]
          /\ (d \notin spoilt => Hurt(file.slot, spoilt)[d] = file.slot[d])
      BY <1>1, HurtCells
    <3>3. d \notin spoilt
      BY DEF InTable
    <3>4. hand.doc # d => file'.slot[d] = Hurt(file.slot, spoilt)[d]
      BY <3>1, <3>2
    <3> QED BY <3>2, <3>3, <3>4
  <2>2. PICK spoilt \in SUBSET InTable(file), ownSpoilt \in BOOLEAN :
           /\ ownSpoilt => hand.inTable
           /\ file'.slot = [Hurt(file.slot, spoilt) EXCEPT ![d] = [Entry(hand.units, hand.inTable) EXCEPT !.sound = ~ownSpoilt]]
    BY <1>1, <1>8, <2>1 DEF WriteEntry, Types, FileType
  <2>3. /\ file'.slot[d] = [Entry(hand.units, hand.inTable) EXCEPT !.sound = ~ownSpoilt]
    BY <1>1, <2>2, HurtCells
  <2>4. file'.slot[d].state = "entry" /\ file'.slot[d].units = hand.units /\ file'.slot[d].sound = ~ownSpoilt
    BY <2>3 DEF Entry, Cell
  <2>5. hand.step = "entry" /\ OfText(hand.units, edition, d) /\ Owner(edition) /\ edition \in Editions
    BY <1>8, <2>1, HandInWork DEF WriteEntry, IInv, SessionIsOwners
  <2>6. OfText(file.slot[d].units, edition, d)
    BY <2>5 DEF IInv, EntriesAreTrue
  <2>7. ~hand.inTable
    BY <1>1, <1>8, <2>1, <2>5, HandInWork DEF IInv, HandIsTrue
  <2> QED BY <2>2, <2>4, <2>5, <2>6, <2>7 DEF OfText
<1>9. ~AppendFails
  BY <1>2 DEF AppendFails
<1>10. ~EntryFails
  <2>1. EntryFails => Reachable(hand.doc) /\ Spend(Reachable(hand.doc))
    BY <1>4 DEF EntryFails
  <2> QED BY <1>2, <2>1 DEF Spend
<1>11. ASSUME NEW x \in Docs, LoadUnits(x) \/ ScanDocument(x) \/ ScanFails(x) PROVE FALSE
  BY <1>4, <1>11 DEF LoadUnits, ScanDocument, ScanFails
<1>12. ~(Park \/ ResumePublication \/ ClosePublication \/ PowerCut)
  BY <1>4 DEF Park, ResumePublication, ClosePublication, PowerCut
<1> QED BY <1>3, <1>6, <1>7, <1>8, <1>9, <1>10, <1>11, <1>12 DEF Next

\* --------------------------------------------------------------- theorems

(* The file, the document in work and the answer in RAM stay those of one  *)
(* edition.                                                                *)
THEOREM InvariantHolds == Spec => []IInv
<1> QED BY InitIInv, NextIInv, PTL DEF Spec

(* TypeOK: every variable stays in its type whatever fails, one document is *)
(* in work at a time, and only for an index that can be used.              *)
THEOREM TypeCorrect == Spec => []TypeOK
<1>1. IInv => TypeOK
  <2> SUFFICES ASSUME IInv PROVE TypeOK
    OBVIOUS
  <2>1. Types /\ OneInWork
    BY DEF IInv
  <2> QED BY <2>1 DEF Types, OneInWork, TypeOK, FileType, HandType, CachedType, CellType, UnitsType
<1> QED BY <1>1, InvariantHolds, PTL

(* AnswersAreTrue: what unitsFor hands out is of the open edition, or admits *)
(* that it is not, for any number of editions under one key.                *)
THEOREM UnitsAreTrue == Spec => []AnswersAreTrue
<1>1. IInv => AnswersAreTrue
  <2> SUFFICES ASSUME IInv, cached.doc # 0, file.size # 0
               PROVE  LET d == cached.doc
                          u == cached.units
                      IN /\ u.anchors # {} => u.anchors = {<<edition, d>>} /\ u.kind = Kinds[edition][d]
                         /\ u.anchors = {} => cached.failed \/ Kinds[edition][d] = "none" \/ file.slot[d].state = "junk"
                         /\ u.anchors # {} /\ u.kind = "verse" => u.book \in {0, Books[edition][d]} \/ file.mapJunk
    BY DEF AnswersAreTrue
  <2>1. Owner(edition) /\ edition \in Editions /\ cached.doc \in Docs
    BY CellsInUse DEF IInv, SessionIsOwners, Types
  <2>2. Scanned(edition, cached.doc).anchors \in {{}, {<<edition, cached.doc>>}}
    BY <2>1, ScannedOfType
  <2> QED BY <2>1, <2>2 DEF IInv, CachedIsTrue, OfText, BookIsTrue, JunkIsRead
<1> QED BY <1>1, InvariantHolds, PTL

(* IndexIsKept: without a fault, an indexed document stays indexed until    *)
(* another edition is opened, whatever is appended, built or reopened.     *)
THEOREM IndexStays == Spec => IndexIsKept
<1> DEFINE Kept == \A d \in Docs :
               LET c == file.slot[d]
               IN /\ c.state = "entry" /\ c.sound /\ ~c.inTable
                  /\ faults' = faults /\ file.size # 0
                  /\ opens' # opens => SourceSize[edition'] = file.size
                  => file'.slot[d].state = "entry" /\ file'.slot[d].sound
                     /\ file'.slot[d].units.anchors = c.units.anchors
<1>1. ASSUME IInv, Next PROVE Kept
  BY <1>1, EntryStays
<1>2. IInv /\ [Next]_vars => [Kept]_vars
  BY <1>1
<1> QED BY <1>2, InvariantHolds, PTL DEF Spec, IndexIsKept
=============================================================================
