-------------------------- MODULE BibleSearchProofs --------------------------
(***************************************************************************)
(* Proofs about BibleSearch, for any Bibles, any books of them, any        *)
(* documents that cannot be parsed and any number of cuts and replacements *)
(* of the Bible.                                                           *)
(***************************************************************************)
EXTENDS BibleSearch, WellFoundedInduction, FiniteSetTheorems, SequenceTheorems, TLAPS

Verses == [doc : Books, tail : SUBSET Books]

(* The document that continues a verse adds to the entry before its own. *)
TailsFollow(built) ==
    \A i \in 1..Len(built) :
        built[i].tail = IF i < Len(built) /\ built[i + 1].doc \in Continues THEN {built[i + 1].doc} ELSE {}

(* built holds the first n documents of the list, each with its tail. *)
Complete(built, fp, n) == built \in Built /\ Holds(built, fp, n) /\ TailsFollow(built)

Last(fp) == Len(Order(fp.list))

(* An index file, a checkpoint and a fingerprint record. *)
IndexOK(x) == x \in [fp : Fingerprints, built : Built] /\ Complete(x.built, x.fp, Last(x.fp))
CheckpointOK(x) == x.fp \in Fingerprints /\ x.done \in 0..Last(x.fp) /\ Complete(x.built, x.fp, x.done)
RecordOK(x) == x.bible \in Bibles /\ x.fp \in Fingerprints /\ x.fp.bible = x.bible /\ x.fp.list = Books

(* What is on the card and in the reader is whole, whatever was cut off.   *)
CardHolds ==
    /\ bible \in Bibles
    /\ index # None => IndexOK(index)
    /\ partial # None => CheckpointOK(partial)
    /\ record # None => RecordOK(record)
    /\ reader # None => IndexOK(reader)

StoreType == [bible : Bibles \cup {None}, fp : Fingerprints \cup {None},
              load : {"unread", "missing", "unreadable", "stale", "ok"}, recFp : Fingerprints \cup {None},
              docs : ((SUBSET Books) \ {{}}) \cup {None}]

(* A fingerprint is of the Bible that was identified, and one that misses  *)
(* a book was made of the documents in memory, never read from the record. *)
StoreOK(s) ==
    /\ s \in StoreType
    /\ s.bible = None => s.fp = None /\ s.docs = None
    /\ s.fp # None => s.fp \in Fingerprints /\ s.fp.bible = s.bible /\ (s.fp.list = Books \/ s.docs = s.fp.list)
    /\ s.load = "ok" => s.recFp \in Fingerprints /\ s.recFp.bible = s.bible /\ s.recFp.list = Books

JobType == [fp : Fingerprints, list : Seq(Books), built : Built, done : Nat, saved : Nat,
            retried : BOOLEAN, pass : BOOLEAN]

(* A build holds the documents it counts as done, of its own list. *)
JobOK(j) ==
    /\ j \in JobType /\ j.fp.bible = bible /\ j.list = Order(j.fp.list) /\ j.done \in 0..Len(j.list)
    /\ Complete(j.built, j.fp, j.done)

(* A build in hand is of the Bible on the card; a step finds a document to *)
(* index, and an index is written when all of them are.                    *)
BuildHolds ==
    /\ state \in {"Building", "Saving", "Finishing"} => JobOK(job)
    /\ state = "Building" => job.done < Len(job.list)
    /\ state = "Finishing" => job.done = Len(job.list)
    /\ state \notin {"Building", "Saving", "Finishing"} => job = None

QueryReadsTheStore ==
    state = "Query" => reader # None /\ reader = index /\ store.fp = reader.fp /\ store.fp # None /\ store.bible = bible

(* The inductive invariant. *)
IInv == CardHolds /\ StoreOK(store) /\ BuildHolds /\ QueryReadsTheStore

-----------------------------------------------------------------------------

(* A set of natural numbers has a least element: what stands here for      *)
(* induction.                                                              *)
LEMMA Least == ASSUME NEW S \in SUBSET Nat, S # {} PROVE \E x \in S : \A y \in S : x <= y
<1>1. PICK x \in S : \A y \in S : ~ (<<y, x>> \in OpToRel(<, Nat))
  BY NatLessThanWellFounded, WFMin
<1>2. \A y \in S : ~(y < x)
  BY <1>1, Zenon DEF OpToRel
<1> QED BY <1>2

(* The members of S in ascending order. *)
Rising(s, n, S) == s \in [1..n -> S] /\ \A i, j \in 1..n : i < j => s[i] < s[j]

(* Every set of positions can be put in ascending order. *)
LEMMA RisingExists ==
  ASSUME NEW k \in Nat, NEW S \in SUBSET (1..k)
  PROVE  \E s : Rising(s, Cardinality(S), S)
<1> DEFINE Bad == {n \in Nat : \E A \in SUBSET (1..n) : ~ \E s : Rising(s, Cardinality(A), A)}
<1> SUFFICES Bad = {}
  OBVIOUS
<1> SUFFICES ASSUME Bad # {} PROVE FALSE
  OBVIOUS
<1>1. PICK n \in Bad : \A m \in Bad : n <= m
  <2>1. Bad \in SUBSET Nat
    OBVIOUS
  <2> QED BY <2>1, Least
<1>2. PICK A \in SUBSET (1..n) : ~ \E s : Rising(s, Cardinality(A), A)
  OBVIOUS
<1>3. n # 0
  <2> SUFFICES ASSUME n = 0 PROVE FALSE
    OBVIOUS
  <2>1. A = {}
    BY <1>2
  <2>2. Rising(<<>>, Cardinality(A), A)
    BY <2>1, FS_EmptySet DEF Rising
  <2> QED BY <1>2, <2>2
<1>4. n \in Nat /\ n - 1 \in Nat /\ n - 1 \notin Bad
  <2>1. n \in Nat /\ n - 1 \in Nat /\ ~(n <= n - 1)
    BY <1>3
  <2> HIDE DEF Bad
  <2> QED BY <2>1, <1>1
<1> HIDE DEF Bad
<1>5. n \in A
  <2> SUFFICES ASSUME n \notin A PROVE FALSE
    OBVIOUS
  <2>1. A \in SUBSET (1..(n-1))
    BY <1>2, <1>4
  <2> QED BY <1>2, <1>4, <2>1 DEF Bad
<1>6. IsFiniteSet(A) /\ Cardinality(A) \in Nat
  <2>1. IsFiniteSet(1..n)
    BY <1>4, FS_Interval
  <2> QED BY <2>1, FS_Subset, FS_CardinalityType
<1> DEFINE B == A \ {n}
<1>7. Cardinality(B) = Cardinality(A) - 1 /\ B \in SUBSET (1..(n-1))
  <2>1. B \in SUBSET (1..(n-1))
    BY <1>2, <1>4
  <2> QED BY <1>5, <1>6, <2>1, FS_RemoveElement
<1>8. PICK s : Rising(s, Cardinality(B), B)
  BY <1>4, <1>7 DEF Bad
<1>9. Cardinality(A) - 1 \in Nat
  <2>1. Cardinality(A) # 0
    BY <1>5, <1>6, FS_EmptySet
  <2> QED BY <2>1, <1>6
<1> HIDE DEF B
<1> DEFINE c == Cardinality(A)
           t == [i \in 1..c |-> IF i = c THEN n ELSE s[i]]
<1>11. s \in [1..(c - 1) -> B] /\ \A i, j \in 1..(c - 1) : i < j => s[i] < s[j]
  BY <1>7, <1>8 DEF Rising
<1>12. c \in Nat /\ c - 1 \in Nat /\ n \in Nat
  BY <1>4, <1>6, <1>9
<1> HIDE DEF c
<1>10. Rising(t, c, A)
  <2>1. \A i \in 1..c : i # c => i \in 1..(c-1)
    BY <1>12
  <2>0. \A x \in B : x \in A /\ x < n /\ x \in Nat
    BY <1>12, <1>2 DEF B
  <2>2. \A i \in 1..c : i # c => s[i] \in B /\ s[i] \in A /\ s[i] < n /\ s[i] \in Nat
    BY <2>0, <2>1, <1>11
  <2>3. t \in [1..c -> A]
    BY <2>2, <1>5
  <2>4. ASSUME NEW i \in 1..c, NEW j \in 1..c, i < j PROVE t[i] < t[j]
    <3>1. i # c /\ t[i] = s[i]
      BY <2>4, <1>12
    <3>2. CASE j = c
      BY <3>1, <3>2, <2>2
    <3>3. CASE j # c
      BY <3>1, <3>3, <2>1, <2>4, <1>11
    <3> QED BY <3>2, <3>3
  <2> QED BY <2>3, <2>4 DEF Rising
<1> QED BY <1>2, <1>10 DEF c

(* InOrder is such an order. *)
LEMMA InOrderRises ==
  ASSUME NEW k \in Nat, NEW S \in SUBSET (1..k)
  PROVE  Rising(InOrder(S), Cardinality(S), S) /\ Cardinality(S) \in Nat /\ Cardinality(S) <= k
<1>1. \E s : Rising(s, Cardinality(S), S)
  BY RisingExists
<1>2. Cardinality(S) \in Nat /\ Cardinality(S) <= k
  <2>1. IsFiniteSet(1..k) /\ Cardinality(1..k) = k
    BY FS_Interval
  <2> QED BY <2>1, FS_Subset, FS_CardinalityType
<1> QED BY <1>1, <1>2 DEF InOrder, Rising


-----------------------------------------------------------------------------
(* Lists *)

(* The documents of a list are visited once each, in the order of the      *)
(* books.                                                                  *)
LEMMA OrderIs ==
  ASSUME NEW list \in SUBSET Books
  PROVE  Order(list) \in Seq(Books) /\ \A i, j \in 1..Len(Order(list)) : i < j => Order(list)[i] < Order(list)[j]
<1>1. 66 \in Nat /\ list \in SUBSET (1..66)
  BY BooksAreNumbered DEF BIBLE_BOOKS
<1>2. Rising(InOrder(list), Cardinality(list), list) /\ Cardinality(list) \in Nat
  BY <1>1, InOrderRises
<1> DEFINE n == Cardinality(list)
           s == InOrder(list)
<1> HIDE DEF n, s
<1>3. s \in [1..n -> list] /\ n \in Nat /\ \A i, j \in 1..n : i < j => s[i] < s[j]
  BY <1>2 DEF Rising, n, s
<1>4. s \in Seq(Books) /\ Len(s) = n
  BY <1>3
<1> QED BY <1>3, <1>4 DEF Order, s

(* Books are numbers. *)
LEMMA BooksAreNumbers == Books \subseteq Nat
BY BooksAreNumbered DEF BIBLE_BOOKS

(* What a build holds is a sequence of verses. *)
LEMMA BuiltIs == ASSUME NEW built \in Built
  PROVE  built \in Seq(Verses) /\ Len(built) \in Nat /\ DOMAIN built = 1..Len(built)
         /\ \A i \in 1..Len(built) : built[i] \in Verses
<1>1. built \in Seq(Verses)
  BY DEF Built, Verses
<1> QED BY <1>1

(* A build that begins holds nothing, as it should. *)
LEMMA NothingHeld == ASSUME NEW fp \in Fingerprints PROVE Complete(<<>>, fp, 0)
BY DEF Complete, Built, Holds, wellFormedUpTo, TailsFollow

(* A document that cannot be parsed is passed over. *)
LEMMA OneMoreSkipped ==
  ASSUME NEW fp, NEW built, NEW n \in Nat, Complete(built, fp, n), ~wellFormed(fp.bible, Order(fp.list)[n + 1])
  PROVE  Complete(built, fp, n + 1)
<1>1. wellFormedUpTo(fp, n + 1) = wellFormedUpTo(fp, n)
  <2>1. 1..(n + 1) = 1..n \cup {n + 1}
    OBVIOUS
  <2> QED BY <2>1 DEF wellFormedUpTo
<1> QED BY <1>1 DEF Complete, Holds

(* Only the last verse gets a tail, and keeps its document. *)
LEMMA TailAdded ==
  ASSUME NEW built \in Built, NEW d \in Books
  PROVE  LET b == appendToLastVerse(built, d)
         IN /\ b \in Built /\ Len(b) = Len(built)
            /\ \A i \in 1..Len(built) :
                  /\ b[i].doc = built[i].doc
                  /\ b[i].tail = IF i = Len(built) /\ d \in Continues THEN built[i].tail \cup {d} ELSE built[i].tail
<1>1. built \in Seq(Verses) /\ Len(built) \in Nat /\ \A i \in 1..Len(built) : built[i] \in Verses
  BY BuiltIs
<1>2. CASE d \in Continues /\ built # <<>>
  <2> DEFINE last == [built[Len(built)] EXCEPT !.tail = @ \cup {d}]
             b == [built EXCEPT ![Len(built)] = last]
  <2>1. Len(built) \in 1..Len(built)
    BY <1>1, <1>2, EmptySeq
  <2>2. last \in Verses /\ last.doc = built[Len(built)].doc /\ last.tail = built[Len(built)].tail \cup {d}
    BY <1>1, <2>1 DEF Verses
  <2> HIDE DEF last
  <2>3. b \in Seq(Verses) /\ Len(b) = Len(built) /\ b[Len(built)] = last
        /\ \A i \in 1..Len(built) : i # Len(built) => b[i] = built[i]
    BY <1>1, <2>1, <2>2, ExceptSeq
  <2>4. appendToLastVerse(built, d) = b
    BY <1>2 DEF appendToLastVerse, last
  <2> QED BY <1>2, <2>2, <2>3, <2>4 DEF Built, Verses
<1>3. CASE ~(d \in Continues /\ built # <<>>)
  <2>1. appendToLastVerse(built, d) = built
    BY <1>3 DEF appendToLastVerse
  <2>2. built = <<>> => Len(built) = 0
    OBVIOUS
  <2> QED BY <1>1, <1>3, <2>1, <2>2
<1> QED BY <1>2, <1>3

(* A document that can be parsed is added, after its tail went to the one  *)
(* before.                                                                 *)
LEMMA OneMoreIndexed ==
  ASSUME NEW fp \in Fingerprints, NEW built, NEW n \in Nat, n < Last(fp), Complete(built, fp, n),
         wellFormed(fp.bible, Order(fp.list)[n + 1])
  PROVE  Complete(indexDocument(built, Order(fp.list)[n + 1]), fp, n + 1)
<1> DEFINE d == Order(fp.list)[n + 1]
           b == appendToLastVerse(built, d)
           e == [doc |-> d, tail |-> {}]
           new == Append(b, e)
           k == Len(built)
<1>1. /\ Order(fp.list) \in Seq(Books) /\ Last(fp) \in Nat
      /\ \A i, j \in 1..Last(fp) : i < j => Order(fp.list)[i] < Order(fp.list)[j]
  BY OrderIs DEF Fingerprints, Last
<1>2. d \in Books /\ \A i \in 1..n : Order(fp.list)[i] < d
  <2>1. n + 1 \in 1..Last(fp) /\ \A i \in 1..n : i \in 1..Last(fp) /\ i < n + 1
    BY <1>1
  <2> QED BY <1>1, <2>1 DEF Last
<1>3. built \in Built /\ Holds(built, fp, n) /\ TailsFollow(built) /\ k \in Nat /\ DOMAIN built = 1..k
  BY BuiltIs DEF Complete
<1>4. /\ b \in Built /\ Len(b) = k
      /\ \A i \in 1..k : b[i].doc = built[i].doc
                         /\ b[i].tail = IF i = k /\ d \in Continues THEN built[i].tail \cup {d} ELSE built[i].tail
  BY <1>2, <1>3, TailAdded
<1>5. indexDocument(built, d) = new
  BY DEF indexDocument
<1> HIDE DEF d, b
<1>6. e \in Verses /\ e.doc = d /\ e.tail = {}
  BY <1>2 DEF Verses
<1> HIDE DEF e
<1>7. /\ new \in Built /\ Len(new) = k + 1 /\ DOMAIN new = 1..(k + 1) /\ new[k + 1] = e
      /\ \A i \in 1..k : new[i] = b[i]
  <2>1. b \in Seq(Verses) /\ Seq(Verses) = Built
    BY <1>4, BuiltIs DEF Built, Verses
  <2>2. new = Append(b, e)
    BY DEF new
  <2>3. new \in Seq(Verses) /\ Len(new) = Len(b) + 1 /\ new[Len(b) + 1] = e /\ \A i \in 1..Len(b) : new[i] = b[i]
    BY <1>6, <2>1, <2>2, AppendProperties
  <2> HIDE DEF k
  <2>4. new \in Built /\ Len(new) = k + 1
    BY <1>4, <2>1, <2>3
  <2>5. DOMAIN new = 1..(k + 1)
    BY <2>4, BuiltIs
  <2> QED BY <1>4, <2>3, <2>4, <2>5
<1> HIDE DEF new, k
<1>8. \A i \in 1..k : new[i].doc = built[i].doc /\ built[i].doc < d
  <2>1. \A i \in 1..k : built[i].doc \in wellFormedUpTo(fp, n)
    BY <1>3 DEF Holds
  <2> QED BY <1>2, <1>4, <1>7, <2>1 DEF wellFormedUpTo
<1>9. {new[i].doc : i \in DOMAIN new} = wellFormedUpTo(fp, n + 1)
  <2>1. 1..(n + 1) = 1..n \cup {n + 1} /\ 1..(k + 1) = 1..k \cup {k + 1}
    BY <1>3
  <2>2. wellFormedUpTo(fp, n + 1) = wellFormedUpTo(fp, n) \cup {d}
    BY <2>1 DEF wellFormedUpTo, d
  <2>3. {new[i].doc : i \in DOMAIN new} = {built[i].doc : i \in 1..k} \cup {d}
    BY <1>6, <1>7, <1>8, <2>1
  <2> QED BY <1>3, <2>2, <2>3 DEF Holds
<1>10. \A i, j \in DOMAIN new : i < j => new[i].doc < new[j].doc
  <2> SUFFICES ASSUME NEW i \in 1..(k + 1), NEW j \in 1..(k + 1), i < j PROVE new[i].doc < new[j].doc
    BY <1>7
  <2>1. i \in 1..k
    BY <1>3
  <2>2. CASE j = k + 1
    BY <1>6, <1>7, <1>8, <2>1, <2>2
  <2>3. CASE j # k + 1
    <3>1. j \in 1..k
      BY <1>3, <2>3
    <3> QED BY <1>3, <1>8, <2>1, <3>1 DEF Holds
  <2> QED BY <2>2, <2>3
<1>11. TailsFollow(new)
  <2> SUFFICES ASSUME NEW i \in 1..(k + 1)
               PROVE  new[i].tail = IF i < k + 1 /\ new[i + 1].doc \in Continues THEN {new[i + 1].doc} ELSE {}
    BY <1>7 DEF TailsFollow
  <2>1. CASE i = k + 1
    <3>1. ~(i < k + 1)
      BY <1>3, <2>1
    <3>2. new[i].tail = {}
      BY <1>6, <1>7, <2>1
    <3> QED BY <3>1, <3>2
  <2>2. CASE i = k
    <3>1. i \in 1..k /\ i + 1 = k + 1 /\ i < k + 1 /\ ~(i < k)
      BY <1>3, <2>2
    <3>2. built[i].tail = {}
      BY <1>3, <3>1 DEF TailsFollow, k
    <3> QED BY <1>4, <1>6, <1>7, <2>2, <3>1, <3>2
  <2>3. CASE i < k
    <3>1. i \in 1..k /\ i + 1 \in 1..k /\ i < k + 1 /\ i # k
      BY <1>3, <2>3
    <3>2. built[i].tail = IF built[i + 1].doc \in Continues THEN {built[i + 1].doc} ELSE {}
      BY <1>3, <2>3, <3>1 DEF TailsFollow, k
    <3> QED BY <1>4, <1>7, <1>8, <3>1, <3>2
  <2> QED BY <1>3, <2>1, <2>2, <2>3
<1> QED BY <1>5, <1>7, <1>9, <1>10, <1>11 DEF Complete, Holds, d

(* The documents and how many of them are held say what is held. *)
LEMMA SameBuilt ==
  ASSUME NEW fp, NEW n, NEW f, NEW g, Complete(f, fp, n), Complete(g, fp, n), Len(f) = Len(g)
  PROVE  f = g
<1> DEFINE k == Len(f)
           Bad == {i \in 1..k : f[i].doc # g[i].doc}
<1>1. /\ f \in Seq(Verses) /\ g \in Seq(Verses) /\ k \in Nat /\ DOMAIN f = 1..k /\ DOMAIN g = 1..k
      /\ \A i \in 1..k : f[i] \in Verses /\ g[i] \in Verses
  BY BuiltIs DEF Complete
<1>2. /\ {f[i].doc : i \in 1..k} = {g[i].doc : i \in 1..k}
      /\ \A i, j \in 1..k : i < j => f[i].doc < f[j].doc /\ g[i].doc < g[j].doc
  BY <1>1 DEF Complete, Holds
<1>3. \A i \in 1..k : f[i].doc \in Nat /\ g[i].doc \in Nat
  BY <1>1, BooksAreNumbers DEF Verses
<1>4. Bad = {}
  <2> SUFFICES ASSUME Bad # {} PROVE FALSE
    OBVIOUS
  <2>1. PICK i \in Bad : \A j \in Bad : i <= j
    <3>1. Bad \in SUBSET Nat
      OBVIOUS
    <3> QED BY <3>1, Least
  <2>2. i \in 1..k /\ f[i].doc # g[i].doc
    OBVIOUS
  <2>3. \A j \in 1..k : j < i => f[j].doc = g[j].doc
    <3> SUFFICES ASSUME NEW j \in 1..k, j < i, f[j].doc # g[j].doc PROVE FALSE
      OBVIOUS
    <3>1. j \in Bad
      OBVIOUS
    <3>2. i <= j
      <4> HIDE DEF Bad
      <4> QED BY <2>1, <3>1
    <3> QED BY <2>2, <3>2
  <2> HIDE DEF Bad, k
  <2>4. PICK j \in 1..k : f[i].doc = g[j].doc
    BY <1>2, <2>2
  <2>5. PICK m \in 1..k : g[i].doc = f[m].doc
    BY <1>2, <2>2
  <2>6. i < j
    BY <1>2, <1>3, <2>2, <2>3, <2>4
  <2>7. i < m
    BY <1>2, <1>3, <2>2, <2>3, <2>5
  <2> QED BY <1>2, <1>3, <2>2, <2>4, <2>5, <2>6, <2>7
<1>5. ASSUME NEW i \in 1..k PROVE f[i] = g[i]
  <2>1. f[i].doc = g[i].doc
    BY <1>4
  <2>2. f[i].tail = g[i].tail
    <3>1. i < k => i + 1 \in 1..k
      BY <1>1
    <3>2. i < k => f[i + 1].doc = g[i + 1].doc
      BY <1>4, <3>1
    <3> QED BY <3>2 DEF Complete, TailsFollow
  <2> QED BY <1>1, <2>1, <2>2 DEF Verses
<1> QED BY <1>1, <1>5, SeqEqual

(* Either way one more document is done. *)
LEMMA OnceIndexed ==
  ASSUME NEW fp \in Fingerprints, NEW built, NEW n \in Nat, n < Last(fp), Complete(built, fp, n)
  PROVE  Complete(IF wellFormed(fp.bible, Order(fp.list)[n + 1])
                  THEN indexDocument(built, Order(fp.list)[n + 1]) ELSE built, fp, n + 1)
BY OneMoreIndexed, OneMoreSkipped

-----------------------------------------------------------------------------
(* The store *)

(* A store that has identified no Bible. *)
LEMMA Forgets == StoreOK(Forgotten)
BY DEF StoreOK, StoreType, Forgotten

(* What a pass of the store does to the store and the record. *)
StoreKept(f) ==
    /\ StoreOK(f.mem) /\ f.mem.bible \in {None, bible}
    /\ f.file # None => RecordOK(f.file)

(* The store identifies the Bible on the card or none. *)
LEMMA Identified ==
  ASSUME bible \in Bibles, StoreOK(store), NEW e, NEW s, s = identify(store, e)
  PROVE  StoreOK(s) /\ s.bible \in {None, bible}
<1>1. CASE ~e.sized
  <2>1. identify(store, e) = Forgotten
    BY <1>1 DEF identify
  <2> QED BY <2>1, Forgets DEF Forgotten
<1>2. CASE e.sized /\ sameBible(store)
  <2>1. identify(store, e) = store
    BY <1>2 DEF identify
  <2> QED BY <1>2, <2>1 DEF sameBible
<1>3. CASE e.sized /\ ~sameBible(store)
  <2>1. s = [Forgotten EXCEPT !.bible = bible]
    BY <1>3 DEF identify
  <2>2. s = [bible |-> bible, fp |-> None, load |-> "unread", recFp |-> None, docs |-> None]
    BY <2>1 DEF Forgotten
  <2>3. s \in StoreType /\ s.fp = None /\ s.docs = None /\ s.load = "unread" /\ s.bible = bible
    BY <2>2 DEF StoreType
  <2> QED BY <2>3 DEF StoreOK
<1> QED BY <1>1, <1>2, <1>3

(* A record that was not taken changes no fingerprint. *)
LEMMA LoadSet ==
  ASSUME NEW s, StoreOK(s), NEW load \in {"missing", "unreadable", "stale"}, NEW l, l = [s EXCEPT !.load = load]
  PROVE  StoreOK(l) /\ l.bible = s.bible /\ l.fp = s.fp /\ l.docs = s.docs
<1>1. s \in StoreType
  BY DEF StoreOK
<1>2. /\ l \in StoreType /\ l.load # "ok"
      /\ l.bible = s.bible /\ l.fp = s.fp /\ l.docs = s.docs
  BY <1>1 DEF StoreType
<1> QED BY <1>2 DEF StoreOK

(* One that was taken is of the same Bible and of every book. *)
LEMMA LoadedFromTheRecord ==
  ASSUME NEW s, StoreOK(s), NEW fp \in Fingerprints, fp.bible = s.bible, fp.list = Books,
         NEW l, l = [s EXCEPT !.load = "ok", !.recFp = fp]
  PROVE  StoreOK(l) /\ l.bible = s.bible /\ l.fp = s.fp /\ l.docs = s.docs
<1>1. s \in StoreType
  BY DEF StoreOK
<1>2. /\ l \in StoreType /\ l.recFp = fp
      /\ l.bible = s.bible /\ l.fp = s.fp /\ l.docs = s.docs
  BY <1>1 DEF StoreType
<1> QED BY <1>2 DEF StoreOK

(* Loading the record keeps the fingerprint in memory. *)
LEMMA RecordLoaded ==
  ASSUME NEW s, StoreOK(s), NEW e, record # None => RecordOK(record), NEW l, l = loadRecord(s, e)
  PROVE  StoreOK(l) /\ l.bible = s.bible /\ l.fp = s.fp /\ l.docs = s.docs
<1>0. s \in StoreType
  BY DEF StoreOK
<1>1. CASE s.load # "unread"
  <2>1. l = [s EXCEPT !.load = s.load]
    BY <1>1 DEF loadRecord
  <2>2. l = s
    BY <1>0, <2>1 DEF StoreType
  <2> QED BY <2>2
<1>2. CASE s.load = "unread" /\ record = None
  <2>1. l = [s EXCEPT !.load = "missing"]
    BY <1>2 DEF loadRecord
  <2> QED BY <2>1, LoadSet
<1>3. CASE s.load = "unread" /\ record # None /\ ~e.readable
  <2>1. l = [s EXCEPT !.load = "unreadable"]
    BY <1>3 DEF loadRecord
  <2> QED BY <2>1, LoadSet
<1>4. CASE s.load = "unread" /\ record # None /\ e.readable /\ record.bible # s.bible
  <2>1. l = [s EXCEPT !.load = "stale"]
    BY <1>4 DEF loadRecord
  <2> QED BY <2>1, LoadSet
<1>5. CASE s.load = "unread" /\ record # None /\ e.readable /\ record.bible = s.bible
  <2>1. l = [s EXCEPT !.load = "ok", !.recFp = record.fp]
    BY <1>5 DEF loadRecord
  <2>2. record.fp \in Fingerprints /\ record.fp.bible = s.bible /\ record.fp.list = Books
    BY <1>5 DEF RecordOK
  <2> QED BY <2>1, <2>2, LoadedFromTheRecord
<1> QED BY <1>1, <1>2, <1>3, <1>4, <1>5

(* Only a fingerprint of every book is written. *)
LEMMA Persisted ==
  ASSUME bible \in Bibles, NEW s, StoreOK(s), s.bible = bible, s.fp \in Fingerprints,
         s.fp.bible = bible, s.docs = s.fp.list, NEW e \in Passes,
         record # None => RecordOK(record), NEW f, f = persistFingerprint(s, e)
  PROVE  StoreKept(f) /\ f.mem.bible = bible /\ f.mem.fp = s.fp /\ f.mem.docs = s.docs
<1> DEFINE l == loadRecord(s, e)
           idle == (l.load = "ok" /\ l.recFp = l.fp) \/ ~mayOverwrite(l.load)
<1>1. StoreOK(l) /\ l.bible = bible /\ l.fp = s.fp /\ l.docs = s.docs
  BY RecordLoaded
<1>2. CASE ~coversEveryBook(s.docs)
  <2>1. f = [mem |-> s, file |-> record]
    BY <1>2 DEF persistFingerprint
  <2>2. f.mem = s /\ f.file = record
    BY <2>1
  <2> QED BY <2>2 DEF StoreKept
<1>3. CASE coversEveryBook(s.docs) /\ idle
  <2>1. f = [mem |-> l, file |-> record]
    BY <1>3 DEF persistFingerprint
  <2>2. f.mem = l /\ f.file = record
    BY <2>1
  <2> HIDE DEF l
  <2> QED BY <1>1, <2>2 DEF StoreKept
<1>4. CASE coversEveryBook(s.docs) /\ ~idle
  <2> DEFINE m == IF e.saved = "new" THEN [l EXCEPT !.load = "ok", !.recFp = l.fp] ELSE l
             r == [bible |-> l.bible, fp |-> l.fp]
  <2>1. f = [mem |-> m, file |-> Replaces(record, r, e.saved)]
    BY <1>4 DEF persistFingerprint
  <2> HIDE DEF l
  <2>2. l.fp \in Fingerprints /\ l.fp.bible = bible /\ l.fp.list = Books
    BY <1>1, <1>4 DEF StoreOK, coversEveryBook
  <2>3. RecordOK(r)
    BY <1>1, <2>2 DEF RecordOK
  <2>4. StoreOK(m) /\ m.bible = bible /\ m.fp = s.fp /\ m.docs = s.docs
    <3>1. CASE e.saved = "new"
      <4>1. m = [l EXCEPT !.load = "ok", !.recFp = l.fp]
        BY <3>1
      <4>2. l.fp.bible = l.bible
        BY <1>1, <2>2
      <4> HIDE DEF m
      <4>3. StoreOK(m) /\ m.bible = l.bible /\ m.fp = l.fp /\ m.docs = l.docs
        BY ONLY <1>1, <2>2, <4>1, <4>2, LoadedFromTheRecord
      <4> QED BY <1>1, <4>3
    <3>2. CASE e.saved # "new"
      BY <1>1, <3>2
    <3> QED BY <3>1, <3>2
  <2>5. Replaces(record, r, e.saved) \in {record, r, None}
    <3> HIDE DEF r
    <3>1. e.saved \in {"new", "old", "gone"}
      BY DEF Passes
    <3> QED BY <3>1 DEF Replaces
  <2>6. f.mem = m /\ f.file \in {record, r, None}
    BY <2>1, <2>5
  <2> HIDE DEF m, r
  <2> QED BY <2>3, <2>4, <2>6 DEF StoreKept
<1> QED BY <1>2, <1>3, <1>4

(* A pass over the documents fingerprints what it found, and writes it only*)
(* if it found every book.                                                 *)
LEMMA Resolved ==
  ASSUME bible \in Bibles, bible # None, NEW s, StoreOK(s), s.bible = bible, NEW e \in Passes,
         record # None => RecordOK(record), NEW f, f = resolveDocuments(s, e), s.fp = None \/ s.docs = None
  PROVE  StoreKept(f) /\ f.mem.bible = bible
<1> DEFINE list == Books \ e.lost
<1>0. s \in StoreType
  BY DEF StoreOK
<1>1. CASE list = {}
  <2> DEFINE m == [s EXCEPT !.docs = None]
  <2>1. f.mem = m /\ f.file = record
    BY <1>1 DEF resolveDocuments
  <2>2. m \in StoreType /\ m.bible = s.bible /\ m.fp = s.fp /\ m.load = s.load /\ m.recFp = s.recFp /\ m.docs = None
    BY <1>0 DEF StoreType
  <2> HIDE DEF m
  <2>3. StoreOK(m)
    BY <2>2 DEF StoreOK
  <2> QED BY <2>1, <2>2, <2>3 DEF StoreKept
<1>2. CASE list # {}
  <2> DEFINE m == [s EXCEPT !.docs = list, !.fp = Fingerprint(list)]
  <2>1. f = persistFingerprint(m, e)
    BY <1>2 DEF resolveDocuments
  <2>2. Fingerprint(list) \in Fingerprints /\ Fingerprint(list).bible = bible /\ Fingerprint(list).list = list
    BY <1>2 DEF Fingerprint, Fingerprints
  <2>3. /\ m \in StoreType /\ m.bible = bible /\ m.fp = Fingerprint(list) /\ m.docs = list
        /\ m.load = s.load /\ m.recFp = s.recFp
    BY <1>0, <1>2, <2>2 DEF StoreType
  <2> HIDE DEF m, list
  <2>4. StoreOK(m) /\ m.docs = m.fp.list
    BY <2>2, <2>3 DEF StoreOK
  <2> QED BY <2>1, <2>2, <2>3, <2>4, Persisted
<1> QED BY <1>1, <1>2

(* Asking for the fingerprint keeps the store and the record sound. *)
LEMMA Fingerprinted ==
  ASSUME bible \in Bibles, NEW s, StoreOK(s), s.bible \in {None, bible}, NEW e \in Passes,
         record # None => RecordOK(record), NEW f, f = fingerprintFor(s, e)
  PROVE  StoreKept(f)
<1> DEFINE l == loadRecord(s, e)
<1>1. CASE s.bible = None \/ s.fp # None
  <2>1. f.mem = s /\ f.file = record
    BY <1>1 DEF fingerprintFor
  <2> QED BY <2>1 DEF StoreKept
<1>2. CASE ~(s.bible = None \/ s.fp # None)
  <2>1. StoreOK(l) /\ l.bible = bible /\ bible # None /\ l.fp = None
    BY <1>2, RecordLoaded
  <2>2. CASE l.load = "ok"
    <3> DEFINE m == [l EXCEPT !.fp = l.recFp]
    <3>1. f.mem = m /\ f.file = record
      BY <1>2, <2>2 DEF fingerprintFor
    <3> HIDE DEF l
    <3>2. l \in StoreType /\ l.recFp \in Fingerprints /\ l.recFp.bible = bible /\ l.recFp.list = Books
      BY <2>1, <2>2 DEF StoreOK
    <3>3. /\ m \in StoreType /\ m.bible = bible /\ m.fp = l.recFp /\ m.recFp = l.recFp /\ m.docs = l.docs
      BY <2>1, <3>2 DEF StoreType
    <3> HIDE DEF m
    <3>4. StoreOK(m)
      BY <2>1, <3>2, <3>3 DEF StoreOK
    <3> QED BY <3>1, <3>3, <3>4 DEF StoreKept
  <2>3. CASE l.load # "ok"
    <3>1. f = resolveDocuments(l, e)
      BY <1>2, <2>3 DEF fingerprintFor
    <3> HIDE DEF l
    <3> QED BY <2>1, <3>1, Resolved
  <2> QED BY <2>2, <2>3
<1> QED BY <1>1, <1>2

(* So does asking for the documents. *)
LEMMA Documented ==
  ASSUME bible \in Bibles, NEW s, StoreOK(s), s.bible \in {None, bible}, NEW e \in Passes,
         record # None => RecordOK(record), NEW f, f = documents(s, e)
  PROVE  StoreKept(f)
<1>1. CASE s.bible = None \/ s.docs # None
  <2>1. f.mem = s /\ f.file = record
    BY <1>1 DEF documents
  <2> QED BY <2>1 DEF StoreKept
<1>2. CASE ~(s.bible = None \/ s.docs # None)
  <2>1. f = resolveDocuments(s, e) /\ s.bible = bible /\ bible # None
    BY <1>2 DEF documents
  <2> QED BY <1>2, <2>1, Resolved
<1> QED BY <1>1, <1>2

-----------------------------------------------------------------------------
(* Initially, and one step per action *)

(* A card without an index satisfies the invariant. *)
LEMMA InitIInv == Init => IInv
<1> SUFFICES ASSUME Init PROVE IInv
  OBVIOUS
<1> QED BY Forgets DEF Init, IInv, CardHolds, BuildHolds, QueryReadsTheStore

(* The card stays whole while only the record is written, whole. *)
LEMMA CardKept ==
  ASSUME CardHolds, UNCHANGED <<bible, index, partial>>, reader' \in {reader, index, None},
         record' # None => RecordOK(record')
  PROVE  CardHolds'
<1>1. (bible \in Bibles)' /\ (record' # None => RecordOK(record'))
  BY DEF CardHolds
<1>2. index' # None => IndexOK(index')
  BY DEF CardHolds
<1>3. partial' # None => CheckpointOK(partial')
  BY DEF CardHolds
<1>4. reader' # None => IndexOK(reader')
  BY DEF CardHolds
<1> QED BY <1>1, <1>2, <1>3, <1>4 DEF CardHolds

(* An untouched store stays sound. *)
LEMMA StoreKeepsItself == ASSUME StoreOK(store), UNCHANGED store PROVE StoreOK(store)'
BY DEF StoreOK

(* So does an untouched build, of the same Bible. *)
LEMMA JobKept == ASSUME JobOK(job), UNCHANGED <<bible, job>> PROVE JobOK(job)'
BY DEF JobOK, Complete, Holds, wellFormedUpTo, wellFormed, TailsFollow

(* Steps of the screen alone leave a build as it was. *)
LEMMA BuildKept ==
  ASSUME BuildHolds, UNCHANGED <<bible, state, job>>
  PROVE  BuildHolds'
BY JobKept DEF BuildHolds

(* Where nothing is built there is nothing to say. *)
LEMMA NoBuild ==
  ASSUME state' \notin {"Building", "Saving", "Finishing"}, job' = None
  PROVE  BuildHolds'
BY DEF BuildHolds

(* Nor where nothing is searched. *)
LEMMA NotSearching == ASSUME state' # "Query" PROVE QueryReadsTheStore'
BY DEF QueryReadsTheStore

(* Enter: nothing is searched or built yet. *)
LEMMA EnterKeeps == ASSUME IInv, Enter PROVE IInv'
<1>1. CardHolds'
  BY CardKept DEF IInv, Enter, card, CardHolds
<1>2. StoreOK(store)'
  BY StoreKeepsItself DEF IInv, Enter
<1>3. BuildHolds'
  BY NoBuild DEF IInv, BuildHolds, Enter
<1> QED BY <1>1, <1>2, <1>3, NotSearching DEF IInv, Enter

(* A held reader that has the index's fingerprint and as much text has its text. *)
LEMMA HeldIsTheIndex ==
  ASSUME CardHolds, NEW held \in {reader, None}, heldIndexMatches(held)
  PROVE  held = index
<1>1. held # None /\ index # None /\ held = reader /\ held.fp = index.fp /\ Len(held.built) = Len(index.built)
  BY DEF heldIndexMatches
<1>2. IndexOK(held) /\ IndexOK(index)
  BY <1>1 DEF CardHolds
<1>3. held.built = index.built
  BY <1>1, <1>2, SameBuilt DEF IndexOK
<1> QED BY <1>1, <1>2, <1>3 DEF IndexOK

(* OpenIndex: a query begins on the index on the card, of the fingerprint  *)
(* just read.                                                              *)
LEMMA OpenIndexKeeps == ASSUME IInv, OpenIndex PROVE IInv'
<1> PICK e \in Passes, opens \in BOOLEAN :
      LET s == identify(store, e)
          f == fingerprintFor(s, e)
          held == readerAfter(s)
      IN  /\ store' = f.mem /\ record' = f.file
          /\ reader' = IF ~opens THEN None
                       ELSE IF usable(held, f.mem) /\ heldIndexMatches(held) THEN held
                       ELSE IF usable(index, f.mem) THEN index ELSE None
  BY Zenon DEF OpenIndex
<1> DEFINE s == identify(store, e)
           f == fingerprintFor(s, e)
           held == readerAfter(s)
<1>1. store' = f.mem /\ record' = f.file
  OBVIOUS
<1>2. reader' = IF ~opens THEN None
                ELSE IF usable(held, f.mem) /\ heldIndexMatches(held) THEN held
                ELSE IF usable(index, f.mem) THEN index ELSE None
  OBVIOUS
<1>3. /\ state \in {"Opening", "Ready"} /\ UNCHANGED <<bible, index, partial, job, cuts, replaced>>
      /\ state' = IF reader' # None THEN "Query" ELSE "Asking"
  BY DEF OpenIndex
<1>4. CardHolds /\ StoreOK(store) /\ BuildHolds /\ bible \in Bibles /\ (record # None => RecordOK(record))
  BY DEF IInv, CardHolds
<1>5. StoreOK(s) /\ s.bible \in {None, bible}
  BY <1>4, Identified
<1>6. held \in {reader, None}
  BY DEF readerAfter
<1> HIDE DEF s
<1>7. StoreKept(f)
  BY <1>4, <1>5, Fingerprinted
<1> HIDE DEF f, held
<1>8. reader' \in {index, None} /\ (reader' # None => usable(reader', f.mem))
  BY <1>2, <1>4, <1>6, HeldIsTheIndex
<1>9. CardHolds'
  BY <1>1, <1>3, <1>4, <1>7, <1>8, CardKept DEF StoreKept
<1>10. StoreOK(store')
  BY <1>1, <1>7 DEF StoreKept
<1>11. BuildHolds'
  BY <1>3, <1>4, NoBuild DEF BuildHolds
<1>12. QueryReadsTheStore'
  <2>1. f.mem.fp # None => f.mem.bible = bible
    BY <1>7 DEF StoreKept, StoreOK
  <2> QED BY <1>1, <1>3, <1>8, <2>1 DEF QueryReadsTheStore, usable
<1> QED BY <1>9, <1>10, <1>11, <1>12 DEF IInv

(* AskStatus: the Bible is fingerprinted once more. *)
LEMMA AskStatusKeeps == ASSUME IInv, AskStatus PROVE IInv'
<1> PICK e \in Passes :
      LET f == fingerprintFor(identify(store, e), e)
      IN  store' = f.mem /\ record' = f.file
  BY Zenon DEF AskStatus
<1> DEFINE s == identify(store, e)
           f == fingerprintFor(s, e)
<1>1. store' = f.mem /\ record' = f.file
  OBVIOUS
<1>2. state = "Asking" /\ state' = "Prompt" /\ UNCHANGED <<bible, index, partial, reader, job, cuts, replaced>>
  BY DEF AskStatus
<1>3. CardHolds /\ StoreOK(store) /\ BuildHolds /\ bible \in Bibles /\ (record # None => RecordOK(record))
  BY DEF IInv, CardHolds
<1>4. StoreOK(s) /\ s.bible \in {None, bible}
  BY <1>3, Identified
<1> HIDE DEF s
<1>5. StoreKept(f)
  BY <1>3, <1>4, Fingerprinted
<1> HIDE DEF f
<1>6. CardHolds'
  BY <1>1, <1>2, <1>3, <1>5, CardKept DEF StoreKept
<1>7. StoreOK(store')
  BY <1>1, <1>5 DEF StoreKept
<1>8. BuildHolds'
  BY <1>2, <1>3, NoBuild DEF BuildHolds
<1> QED BY <1>2, <1>6, <1>7, <1>8, NotSearching DEF IInv

(* QueryFails: a reader that fails is dropped. *)
LEMMA QueryFailsKeeps == ASSUME IInv, QueryFails PROVE IInv'
<1>1. CardHolds'
  BY CardKept DEF IInv, QueryFails, card, CardHolds
<1>2. StoreOK(store)'
  BY StoreKeepsItself DEF IInv, QueryFails
<1>3. BuildHolds'
  BY NoBuild DEF IInv, BuildHolds, QueryFails
<1> QED BY <1>1, <1>2, <1>3, NotSearching DEF IInv, QueryFails

(* Confirm: nothing is built yet. *)
LEMMA ConfirmKeeps == ASSUME IInv, Confirm PROVE IInv'
<1>1. CardHolds'
  BY CardKept DEF IInv, Confirm, card, CardHolds
<1>2. StoreOK(store)'
  BY StoreKeepsItself DEF IInv, Confirm
<1>3. BuildHolds'
  BY NoBuild DEF IInv, BuildHolds, Confirm
<1> QED BY <1>1, <1>2, <1>3, NotSearching DEF IInv, Confirm

(* A build that begins is of the type of builds. *)
LEMMA JobTyped ==
  ASSUME NEW fp \in Fingerprints, NEW list \in Seq(Books), NEW built \in Built, NEW n \in Nat
  PROVE  [fp |-> fp, list |-> list, built |-> built, done |-> n, saved |-> n, retried |-> FALSE, pass |-> FALSE] \in JobType
BY DEF JobType

(* A build starts with nothing, or with what a checkpoint of the same list holds. *)
LEMMA Resumed ==
  ASSUME CardHolds, NEW docs \in (SUBSET Books) \ {{}}, NEW loads \in BOOLEAN, NEW j, NEW new,
         j = [fp |-> Fingerprint(docs), list |-> Order(docs), built |-> <<>>,
              done |-> 0, saved |-> 0, retried |-> FALSE, pass |-> FALSE],
         new = resumeFromCheckpoint(j, loads)
  PROVE  JobOK(new)
<1>1. Fingerprint(docs) \in Fingerprints /\ Fingerprint(docs).bible = bible /\ Fingerprint(docs).list = docs
  BY DEF CardHolds, Fingerprint, Fingerprints
<1>2. Order(docs) \in Seq(Books)
  BY OrderIs
<1>3. Complete(<<>>, Fingerprint(docs), 0) /\ <<>> \in Built
  BY <1>1, NothingHeld DEF Complete
<1>4. JobOK(j)
  <2>1. j \in JobType
    BY <1>1, <1>2, <1>3 DEF JobType
  <2> QED BY <1>1, <1>2, <1>3, <2>1 DEF JobOK
<1>5. CASE new = j
  BY <1>4, <1>5
<1>6. CASE /\ partial # None /\ isForThis(j) /\ partial.done <= total(j)
           /\ new = [j EXCEPT !.built = partial.built, !.done = partial.done, !.saved = partial.done]
  <2>1. partial.fp = Fingerprint(docs) /\ partial.done <= Len(Order(docs))
    BY <1>6 DEF isForThis, total
  <2>2. CheckpointOK(partial)
    BY <1>6 DEF CardHolds
  <2>3. partial.done \in 0..Len(Order(docs)) /\ Complete(partial.built, Fingerprint(docs), partial.done) /\ partial.built \in Built
    BY <1>1, <2>1, <2>2 DEF CheckpointOK, Last, Complete
  <2>4. new = [fp |-> Fingerprint(docs), list |-> Order(docs), built |-> partial.built,
               done |-> partial.done, saved |-> partial.done, retried |-> FALSE, pass |-> FALSE]
    BY <1>6
  <2>5. new \in JobType
    <3>1. Len(Order(docs)) \in Nat
      BY <1>2
    <3> DEFINE n == Len(Order(docs))
    <3> HIDE DEF n
    <3>2. partial.done \in Nat
      BY <2>3, <3>1 DEF n
    <3> QED BY <1>1, <1>2, <2>3, <2>4, <3>2, JobTyped
  <2> QED BY <1>1, <2>3, <2>4, <2>5 DEF JobOK
<1> QED BY <1>5, <1>6 DEF resumeFromCheckpoint

(* A sound build, taken up. *)
LEMMA JobTaken == ASSUME NEW j, JobOK(j), job' = j, bible' = bible PROVE JobOK(job)'
BY DEF JobOK, Complete, Holds, wellFormedUpTo, wellFormed, TailsFollow

(* What a build counts is within its list. *)
LEMMA JobCounts ==
  ASSUME NEW j, JobOK(j)
  PROVE  /\ j \in JobType /\ j.fp \in Fingerprints /\ j.list \in Seq(Books) /\ Len(j.list) \in Nat /\ j.done \in Nat
         /\ j.done <= Len(j.list) /\ Len(j.list) = Last(j.fp)
<1>1. j \in JobType /\ j.list = Order(j.fp.list) /\ j.done \in 0..Len(j.list)
  BY DEF JobOK
<1>2. j.fp \in Fingerprints /\ j.list \in Seq(Books) /\ j.done \in Nat
  BY <1>1 DEF JobType
<1>3. Len(j.list) \in Nat
  BY <1>2
<1> QED BY <1>1, <1>2, <1>3 DEF Last

(* Begin: the fingerprint is of the Bible on the card, and what is resumed *)
(* is of its list.                                                         *)
LEMMA BeginKeeps == ASSUME IInv, Begin PROVE IInv'
<1> PICK e \in Passes, memory \in BOOLEAN, loads \in BOOLEAN :
      LET f == documents(identify(store, e), e)
          j == [fp |-> Fingerprint(f.mem.docs), list |-> Order(f.mem.docs), built |-> <<>>,
                done |-> 0, saved |-> 0, retried |-> FALSE, pass |-> FALSE]
      IN  /\ store' = f.mem /\ record' = f.file
          /\ job' = IF f.mem.docs = None \/ ~memory THEN None ELSE resumeFromCheckpoint(j, loads)
  BY Zenon DEF Begin
<1> DEFINE s == identify(store, e)
           f == documents(s, e)
           docs == f.mem.docs
           j == [fp |-> Fingerprint(docs), list |-> Order(docs), built |-> <<>>,
                 done |-> 0, saved |-> 0, retried |-> FALSE, pass |-> FALSE]
<1>1. store' = f.mem /\ record' = f.file /\ job' = IF docs = None \/ ~memory THEN None ELSE resumeFromCheckpoint(j, loads)
  OBVIOUS
<1>2. /\ state = "Starting" /\ reader' = None /\ UNCHANGED <<bible, index, partial, cuts, replaced>>
      /\ state' = IF job' = None THEN "Failed" ELSE IF allDocumentsIndexed(job') THEN "Finishing" ELSE "Building"
  BY DEF Begin
<1>3. CardHolds /\ StoreOK(store) /\ BuildHolds /\ bible \in Bibles /\ (record # None => RecordOK(record))
  BY DEF IInv, CardHolds
<1>4. StoreOK(s) /\ s.bible \in {None, bible}
  BY <1>3, Identified
<1> HIDE DEF s
<1>5. StoreKept(f)
  BY <1>3, <1>4, Documented
<1> HIDE DEF f
<1>6. CardHolds'
  BY <1>1, <1>2, <1>3, <1>5, CardKept DEF StoreKept
<1>7. StoreOK(store')
  BY <1>1, <1>5 DEF StoreKept
<1>8. docs # None => docs \in (SUBSET Books) \ {{}}
  BY <1>5 DEF StoreKept, StoreOK, StoreType
<1> HIDE DEF docs
<1>9. CASE job' = None
  BY <1>2, <1>6, <1>7, <1>9, NoBuild, NotSearching DEF IInv
<1>10. CASE job' # None
  <2>1. job' = resumeFromCheckpoint(j, loads) /\ docs # None
    BY <1>1, <1>10
  <2>2. docs \in (SUBSET Books) \ {{}}
    BY <1>8, <2>1
  <2> HIDE DEF j
  <2>3. JobOK(job')
    BY <1>3, <2>1, <2>2, Resumed DEF j
  <2>4. JobOK(job)'
    BY <1>2, <2>3, JobTaken
  <2>5. allDocumentsIndexed(job') => job'.done = Len(job'.list)
    BY <2>3, JobCounts DEF allDocumentsIndexed, total
  <2>6. ~allDocumentsIndexed(job') => job'.done < Len(job'.list)
    BY <2>3, JobCounts DEF allDocumentsIndexed, total
  <2>7. BuildHolds'
    BY <1>2, <1>10, <2>4, <2>5, <2>6 DEF BuildHolds
  <2> QED BY <1>2, <1>6, <1>7, <1>10, <2>7, NotSearching DEF IInv
<1> QED BY <1>9, <1>10

(* StepFails: the build is freed, the card stays as it was. *)
LEMMA StepFailsKeeps == ASSUME IInv, StepFails PROVE IInv'
<1>1. CardHolds'
  BY CardKept DEF IInv, StepFails, card, CardHolds
<1>2. StoreOK(store)'
  BY StoreKeepsItself DEF IInv, StepFails
<1>3. BuildHolds'
  BY NoBuild DEF StepFails, freedAfter
<1> QED BY <1>1, <1>2, <1>3, NotSearching DEF IInv, StepFails

(* UserCancels: the build stays in hand until it is saved. *)
LEMMA UserCancelsKeeps == ASSUME IInv, UserCancels PROVE IInv'
<1>1. CardHolds'
  BY CardKept DEF IInv, UserCancels, card, CardHolds
<1>2. StoreOK(store)'
  BY StoreKeepsItself DEF IInv, UserCancels
<1>3. BuildHolds'
  BY JobKept DEF IInv, BuildHolds, UserCancels, card
<1> QED BY <1>1, <1>2, <1>3, NotSearching DEF IInv, UserCancels

(* ReplaceBible: no screen is open, and the index on the card stays true of*)
(* the Bible it was made of.                                               *)
LEMMA ReplaceBibleKeeps == ASSUME IInv, ReplaceBible PROVE IInv'
<1>1. CardHolds'
  BY DEF IInv, CardHolds, ReplaceBible
<1>2. StoreOK(store)'
  BY StoreKeepsItself DEF IInv, ReplaceBible
<1>3. BuildHolds'
  BY NoBuild DEF IInv, BuildHolds, ReplaceBible
<1> QED BY <1>1, <1>2, <1>3, NotSearching DEF IInv, ReplaceBible

(* PowerCut: memory goes, the card stays. *)
LEMMA PowerCutKeeps == ASSUME IInv, PowerCut PROVE IInv'
<1>1. CardHolds'
  BY CardKept DEF IInv, PowerCut, card, CardHolds
<1>2. StoreOK(store')
  BY Forgets DEF PowerCut
<1>3. BuildHolds'
  BY NoBuild DEF PowerCut
<1> QED BY <1>1, <1>2, <1>3, NotSearching DEF IInv, PowerCut

(* A pass that indexes a document holds one document more. *)
LEMMA OneMore ==
  ASSUME NEW j, JobOK(j), j.done < Len(j.list), NEW new, new = indexedOrSkipped(j, bible, j.list[j.done + 1])
  PROVE  JobOK(new) /\ new.list = j.list
<1> DEFINE d == j.list[j.done + 1]
           b == IF wellFormed(bible, d) THEN indexDocument(j.built, d) ELSE j.built
<1>1. /\ j \in JobType /\ j.fp.bible = bible /\ j.list = Order(j.fp.list) /\ Complete(j.built, j.fp, j.done)
      /\ j.fp \in Fingerprints /\ j.list \in Seq(Books) /\ Len(j.list) \in Nat /\ j.done \in Nat /\ Len(j.list) = Last(j.fp)
  BY JobCounts DEF JobOK
<1>2. Complete(b, j.fp, j.done + 1)
  <2>1. j.done < Last(j.fp) /\ d = Order(j.fp.list)[j.done + 1]
    BY <1>1
  <2> QED BY <1>1, <2>1, OnceIndexed
<1>3. new = [j EXCEPT !.built = b, !.done = j.done + 1, !.pass = ~j.pass]
  BY DEF indexedOrSkipped
<1> HIDE DEF b
<1>4. b \in Built /\ j.done + 1 \in Nat /\ j.done + 1 \in 0..Len(j.list)
  BY <1>1, <1>2 DEF Complete
<1>5. /\ new \in JobType /\ new.fp = j.fp /\ new.list = j.list /\ new.built = b /\ new.done = j.done + 1
  BY <1>1, <1>3, <1>4 DEF JobType
<1> QED BY <1>1, <1>2, <1>4, <1>5 DEF JobOK

(* A checkpoint holds what the build holds. *)
LEMMA CheckpointMade == ASSUME NEW j, JobOK(j) PROVE CheckpointOK(checkpointOf(j))
<1>1. j.fp \in Fingerprints /\ j.done \in 0..Last(j.fp) /\ Complete(j.built, j.fp, j.done)
  BY JobCounts DEF JobOK
<1>2. checkpointOf(j).fp = j.fp /\ checkpointOf(j).built = j.built /\ checkpointOf(j).done = j.done
  BY DEF checkpointOf
<1> QED BY <1>1, <1>2 DEF CheckpointOK

(* A checkpoint that fails to be written leaves the old one, none, or the  *)
(* new one.                                                                *)
LEMMA PartialWritten ==
  ASSUME CardHolds, NEW j, JobOK(j), NEW w \in Writes, NEW p, p \in {partial, Replaces(partial, checkpointOf(j), w)}
  PROVE  p # None => CheckpointOK(p)
<1>1. Replaces(partial, checkpointOf(j), w) \in {partial, checkpointOf(j), None}
  BY DEF Replaces, Writes
<1> QED BY <1>1, CheckpointMade DEF CardHolds

(* Noting what was saved changes nothing that is held. *)
LEMMA JobSaved ==
  ASSUME NEW j, JobOK(j), NEW new, new = [j EXCEPT !.saved = j.done]
  PROVE  JobOK(new) /\ new.done = j.done /\ new.list = j.list
<1>1. j \in JobType /\ j.done \in Nat
  BY JobCounts
<1>2. /\ new \in JobType /\ new.fp = j.fp /\ new.list = j.list /\ new.built = j.built /\ new.done = j.done
  BY <1>1 DEF JobType
<1> QED BY <1>2 DEF JobOK

(* Nor does a second attempt. *)
LEMMA JobTried ==
  ASSUME NEW j, JobOK(j), NEW new, new = tried(j)
  PROVE  JobOK(new) /\ new.done = j.done /\ new.list = j.list
<1>1. j \in JobType
  BY JobCounts
<1>2. /\ new \in JobType /\ new.fp = j.fp /\ new.list = j.list /\ new.built = j.built /\ new.done = j.done
  BY <1>1 DEF JobType, tried
<1> QED BY <1>2 DEF JobOK

(* StepIndexes: one document more, and a checkpoint when one is due. *)
LEMMA StepIndexesKeeps == ASSUME IInv, StepIndexes PROVE IInv'
<1> PICK w \in Writes :
         LET j == indexedOrSkipped(job, bible, job.list[job.done + 1])
             due == checkpointDue(j)
             failed == due /\ w = "memory"
         IN  /\ partial' = IF due THEN Replaces(partial, checkpointOf(j), w) ELSE partial
             /\ job' = IF failed THEN freedAfter(j)
                       ELSE IF due /\ w = "new" THEN [j EXCEPT !.saved = j.done] ELSE j
             /\ state' = IF failed THEN "Failed"
                         ELSE IF allDocumentsIndexed(j) THEN "Finishing" ELSE "Building"
  BY Zenon DEF StepIndexes
<1> DEFINE j == indexedOrSkipped(job, bible, job.list[job.done + 1])
           due == checkpointDue(j)
           failed == due /\ w = "memory"
<1>1. /\ partial' \in {partial, Replaces(partial, checkpointOf(j), w)}
      /\ job' = IF failed THEN None ELSE IF due /\ w = "new" THEN [j EXCEPT !.saved = j.done] ELSE j
      /\ state' = IF failed THEN "Failed" ELSE IF allDocumentsIndexed(j) THEN "Finishing" ELSE "Building"
  BY DEF freedAfter
<1>2. state = "Building" /\ UNCHANGED <<bible, index, record, store, reader, cuts, replaced>>
  BY DEF StepIndexes
<1>3. CardHolds /\ StoreOK(store) /\ BuildHolds /\ JobOK(job) /\ job.done < Len(job.list)
  BY <1>2 DEF IInv, BuildHolds
<1>4. JobOK(j)
  BY <1>3, OneMore
<1> HIDE DEF j, due, failed
<1>5. CardHolds'
  <2>1. partial' # None => CheckpointOK(partial')
    BY <1>1, <1>3, <1>4, PartialWritten
  <2>2. (bible \in Bibles)' /\ (record' # None => RecordOK(record'))
    BY <1>2, <1>3 DEF CardHolds
  <2>3. (index' # None => IndexOK(index')) /\ (reader' # None => IndexOK(reader'))
    BY <1>2, <1>3 DEF CardHolds
  <2> QED BY <2>1, <2>2, <2>3 DEF CardHolds
<1>6. StoreOK(store)'
  BY <1>2, <1>3, StoreKeepsItself
<1>7. CASE failed
  <2>1. job' = None /\ state' = "Failed"
    BY <1>1, <1>7
  <2> QED BY <1>5, <1>6, <2>1, NoBuild, NotSearching DEF IInv
<1>8. CASE ~failed
  <2>1. JobOK(job') /\ job'.done = j.done /\ job'.list = j.list
    BY <1>1, <1>4, <1>8, JobSaved
  <2>2. JobOK(job)'
    BY <1>2, <2>1, JobTaken
  <2>3. allDocumentsIndexed(j) => job'.done = Len(job'.list)
    BY <1>4, <2>1, JobCounts DEF allDocumentsIndexed, total
  <2>4. ~allDocumentsIndexed(j) => job'.done < Len(job'.list)
    BY <1>4, <2>1, JobCounts DEF allDocumentsIndexed, total
  <2>5. BuildHolds' /\ state' # "Query"
    BY <1>1, <1>8, <2>2, <2>3, <2>4 DEF BuildHolds
  <2> QED BY <1>5, <1>6, <2>5, NotSearching DEF IInv
<1> QED BY <1>7, <1>8

(* FinishWrites: the index that is written holds every document of its     *)
(* list.                                                                   *)
LEMMA FinishWritesKeeps == ASSUME IInv, FinishWrites PROVE IInv'
<1>1. /\ state = "Finishing" /\ state' = "Ready" /\ index' = [fp |-> job.fp, built |-> job.built]
      /\ partial' \in {None, partial} /\ job' = None
      /\ UNCHANGED <<bible, record, store, reader, cuts, replaced>>
  BY DEF FinishWrites
<1>2. CardHolds /\ StoreOK(store) /\ JobOK(job) /\ job.done = Len(job.list)
  BY <1>1 DEF IInv, BuildHolds
<1>3. job.fp \in Fingerprints /\ job.built \in Built /\ Complete(job.built, job.fp, Last(job.fp))
  BY <1>2, JobCounts DEF JobOK, Complete
<1>4. index'.fp = job.fp /\ index'.built = job.built /\ index' \in [fp : Fingerprints, built : Built]
  BY <1>1, <1>3
<1>5. CardHolds'
  <2>1. IndexOK(index')
    BY <1>3, <1>4 DEF IndexOK
  <2>2. (bible \in Bibles)' /\ (record' # None => RecordOK(record'))
    BY <1>1, <1>2 DEF CardHolds
  <2>3. (partial' # None => CheckpointOK(partial')) /\ (reader' # None => IndexOK(reader'))
    BY <1>1, <1>2 DEF CardHolds
  <2> QED BY <2>1, <2>2, <2>3 DEF CardHolds
<1>6. StoreOK(store)'
  BY <1>1, <1>2, StoreKeepsItself
<1> QED BY <1>1, <1>5, <1>6, NoBuild, NotSearching DEF IInv

(* A build that failed leaves the index as it was, or none. *)
LEMMA Failed ==
  ASSUME IInv, UNCHANGED <<bible, record, store, reader>>, index' \in {index, None},
         partial' # None => CheckpointOK(partial'), state' # "Query"
  PROVE  CardHolds' /\ StoreOK(store)' /\ QueryReadsTheStore'
<1>1. CardHolds /\ StoreOK(store)
  BY DEF IInv
<1>2. (bible \in Bibles)' /\ (record' # None => RecordOK(record'))
  BY <1>1 DEF CardHolds
<1>3. (index' # None => IndexOK(index')) /\ (reader' # None => IndexOK(reader'))
  BY <1>1 DEF CardHolds
<1>4. CardHolds'
  BY <1>2, <1>3 DEF CardHolds
<1> QED BY <1>1, <1>4, StoreKeepsItself, NotSearching

(* Cancelling writes a checkpoint of what is held, or none. *)
LEMMA Cancelled ==
  ASSUME IInv, cancel(job), job # None => JobOK(job)
  PROVE  partial' # None => CheckpointOK(partial')
<1>1. CardHolds
  BY DEF IInv
<1>2. CASE job # None /\ job.done > job.saved
  <2>1. PICK w \in Writes : partial' = Replaces(partial, checkpointOf(job), w)
    BY <1>2 DEF cancel
  <2> QED BY <1>1, <1>2, <2>1, PartialWritten
<1>3. CASE ~(job # None /\ job.done > job.saved)
  <2>1. partial' = partial
    BY <1>3 DEF cancel
  <2> QED BY <1>1, <2>1 DEF CardHolds
<1> QED BY <1>2, <1>3

(* FinishFails: the index stays as it was or goes; the build is tried      *)
(* again, saved or freed.                                                  *)
LEMMA FinishFailsKeeps == ASSUME IInv, FinishFails PROVE IInv'
<1> PICK w \in Writes \ {"new"} :
         /\ index' = Replaces(index, index, w)
         /\ IF w = "memory" THEN job' = None /\ partial' = partial /\ state' = "Failed"
            ELSE IF ~job.retried THEN job' = tried(job) /\ UNCHANGED <<partial, state>>
            ELSE cancel(job) /\ state' = "Failed"
  BY Zenon DEF FinishFails
<1>1. state = "Finishing" /\ UNCHANGED <<bible, record, store, reader, cuts, replaced>>
  BY DEF FinishFails
<1>2. CardHolds /\ JobOK(job) /\ job.done = Len(job.list)
  BY <1>1 DEF IInv, BuildHolds
<1>3. index' \in {index, None}
  BY DEF Replaces, Writes
<1>4. CASE w = "memory"
  <2>1. partial' # None => CheckpointOK(partial')
    BY <1>2, <1>4 DEF CardHolds
  <2>2. job' = None /\ state' = "Failed"
    BY <1>4
  <2> QED BY <1>1, <1>3, <2>1, <2>2, Failed, NoBuild DEF IInv
<1>5. CASE w # "memory" /\ ~job.retried
  <2>1. job' = tried(job) /\ UNCHANGED <<partial, state>>
    BY <1>5
  <2>2. partial' # None => CheckpointOK(partial')
    BY <1>2, <2>1 DEF CardHolds
  <2>3. JobOK(job') /\ job'.done = Len(job'.list)
    BY <1>2, <2>1, JobTried
  <2>4. JobOK(job)'
    BY <1>1, <2>3, JobTaken
  <2>5. BuildHolds' /\ state' # "Query"
    BY <1>1, <2>1, <2>3, <2>4 DEF BuildHolds
  <2> QED BY <1>1, <1>3, <2>2, <2>5, Failed DEF IInv
<1>6. CASE w # "memory" /\ job.retried
  <2>1. cancel(job) /\ state' = "Failed"
    BY <1>6
  <2>2. partial' # None => CheckpointOK(partial')
    BY <1>2, <2>1, Cancelled
  <2>3. job' = None
    BY <2>1 DEF cancel
  <2> QED BY <1>1, <1>3, <2>1, <2>2, <2>3, Failed, NoBuild DEF IInv
<1> QED BY <1>4, <1>5, <1>6

(* Exit: a build in hand is cancelled. *)
LEMMA ExitKeeps == ASSUME IInv, Exit PROVE IInv'
<1>1. /\ state' = "Closed" /\ cancel(job) /\ reader' \in {reader, None} /\ UNCHANGED <<bible, index, record, store>>
  BY DEF Exit
<1>2. CardHolds /\ StoreOK(store) /\ (job # None => JobOK(job))
  BY DEF IInv, BuildHolds
<1>3. CardHolds'
  <2>1. partial' # None => CheckpointOK(partial')
    BY <1>1, <1>2, Cancelled
  <2>2. (bible \in Bibles)' /\ (record' # None => RecordOK(record'))
    BY <1>1, <1>2 DEF CardHolds
  <2>3. (index' # None => IndexOK(index')) /\ (reader' # None => IndexOK(reader'))
    BY <1>1, <1>2 DEF CardHolds
  <2> QED BY <2>1, <2>2, <2>3 DEF CardHolds
<1>4. StoreOK(store)'
  BY <1>1, <1>2, StoreKeepsItself
<1>5. BuildHolds'
  BY <1>1, NoBuild DEF cancel
<1> QED BY <1>1, <1>3, <1>4, <1>5, NotSearching DEF IInv

(* A stutter changes nothing. *)
LEMMA NothingChanges == ASSUME IInv, UNCHANGED vars PROVE IInv'
<1>1. CardHolds'
  BY CardKept DEF IInv, vars, card, CardHolds
<1>2. StoreOK(store)'
  BY StoreKeepsItself DEF IInv, vars
<1>3. BuildHolds'
  BY BuildKept DEF IInv, vars, card
<1> QED BY <1>1, <1>2, <1>3 DEF IInv, QueryReadsTheStore, vars, card

(* Every step keeps the invariant. *)
LEMMA NextIInv == IInv /\ [Next]_vars => IInv'
<1> SUFFICES ASSUME IInv, [Next]_vars PROVE IInv'
  OBVIOUS
<1>1. CASE LoopPass
  BY <1>1, OpenIndexKeeps, AskStatusKeeps, BeginKeeps, StepFailsKeeps, StepIndexesKeeps, ExitKeeps,
     FinishWritesKeeps, FinishFailsKeeps DEF LoopPass, CancelBuild
<1>2. CASE Enter \/ QueryFails \/ Confirm \/ UserCancels \/ Leave
  BY <1>2, EnterKeeps, QueryFailsKeeps, ConfirmKeeps, UserCancelsKeeps, ExitKeeps DEF Leave
<1>3. CASE ReplaceBible \/ PowerCut
  BY <1>3, ReplaceBibleKeeps, PowerCutKeeps
<1>4. CASE UNCHANGED vars
  BY <1>4, NothingChanges
<1> QED BY <1>1, <1>2, <1>3, <1>4 DEF Next

-----------------------------------------------------------------------------

(* Every reachable state of the Bible search satisfies the inductive       *)
(* invariant.                                                              *)
THEOREM InvariantHolds == Spec => []IInv
BY InitIInv, NextIInv, PTL DEF Spec

(* An index on the card, a checkpoint and a build in hand hold the         *)
(* documents of their own list that could be parsed and no others, once    *)
(* each and in the order of the books, however many builds were cut short  *)
(* and resumed.                                                            *)
THEOREM IndexStays == Spec => []IndexIsItsList
<1>1. IInv => IndexIsItsList
  <2> SUFFICES ASSUME IInv PROVE IndexIsItsList
    OBVIOUS
  <2>1. index # None => Holds(index.built, index.fp, Len(Order(index.fp.list)))
    BY DEF IInv, CardHolds, IndexOK, Complete, Last
  <2>2. partial # None => Holds(partial.built, partial.fp, partial.done)
    BY DEF IInv, CardHolds, CheckpointOK, Complete
  <2>3. job # None => Holds(job.built, job.fp, job.done)
    BY DEF IInv, BuildHolds, JobOK, Complete
  <2> QED BY <2>1, <2>2, <2>3 DEF IndexIsItsList
<1> QED BY <1>1, InvariantHolds, PTL

(* A query reads an index of the Bible that is on the card, the one in     *)
(* bible.idx.                                                              *)
THEOREM QueriesReadThisBible == Spec => []SearchesThisBible
<1>1. IInv => SearchesThisBible
  BY DEF IInv, QueryReadsTheStore, SearchesThisBible, StoreOK
<1> QED BY <1>1, InvariantHolds, PTL

(* An index that misses a book answers queries only in the boot that could *)
(* not resolve that book.                                                  *)
THEOREM HolesAreOfTheBoot == Spec => []HoleEndsWithTheBoot
<1>1. IInv => HoleEndsWithTheBoot
  BY DEF IInv, QueryReadsTheStore, HoleEndsWithTheBoot, StoreOK
<1> QED BY <1>1, InvariantHolds, PTL
=============================================================================
