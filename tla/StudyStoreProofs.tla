-------------------------- MODULE StudyStoreProofs --------------------------
(***************************************************************************)
(* Proofs about StudyStore and about MigrationRunner, which fills the same *)
(* files: for any names, places, editions, publications and limits, and    *)
(* any number of edits, power cuts and runs.  What a step does to the      *)
(* passages is proved for passages with tags among some known labels, and  *)
(* used twice: with the labels on the card, and with all labels.           *)
(***************************************************************************)
EXTENDS MigrationRunner, WellFoundedInduction, FiniteSetTheorems, SequenceTheorems, TLAPS

(* A set of natural numbers has a least element: what stands here for      *)
(* induction.                                                              *)
LEMMA Least == ASSUME NEW S \in SUBSET Nat, S # {} PROVE \E x \in S : \A y \in S : x <= y
<1>1. PICK x \in S : \A y \in S : ~ (<<y, x>> \in OpToRel(<, Nat))
  BY NatLessThanWellFounded, WFMin
<1>2. \A y \in S : ~(y < x)
  BY <1>1, Zenon DEF OpToRel
<1> QED BY <1>2

(* Removing a row: the rows after it move up. *)
LEMMA RemoveAtIs ==
  ASSUME NEW T, NEW d \in Seq(T), NEW i \in 1..Len(d)
  PROVE  /\ RemoveAt(d, i) \in Seq(T)
         /\ Len(RemoveAt(d, i)) = Len(d) - 1
         /\ \A j \in 1..(Len(d) - 1) : RemoveAt(d, i)[j] = IF j < i THEN d[j] ELSE d[j + 1]
<1> DEFINE a == SubSeq(d, 1, i-1)
           b == SubSeq(d, i+1, Len(d))
<1>1. a \in Seq(T) /\ Len(a) = i-1 /\ \A j \in 1..(i-1) : a[j] = d[j]
  BY SubSeqProperties, ElementOfSeq
<1>2. b \in Seq(T) /\ Len(b) = Len(d)-i /\ \A j \in 1..(Len(d)-i) : b[j] = d[i+j]
  BY SubSeqProperties, ElementOfSeq
<1>3. RemoveAt(d, i) = a \o b
  BY DEF RemoveAt
<1> HIDE DEF a, b
<1>4. /\ a \o b \in Seq(T) /\ Len(a \o b) = Len(a) + Len(b)
      /\ \A j \in 1..Len(a) + Len(b) : (a \o b)[j] = IF j <= Len(a) THEN a[j] ELSE b[j - Len(a)]
  BY <1>1, <1>2, ConcatProperties
<1>5. Len(d) \in Nat
  OBVIOUS
<1>6. Len(a) + Len(b) = Len(d) - 1
  BY <1>1, <1>2, <1>5
<1>7. ASSUME NEW j \in 1..(Len(d) - 1) PROVE (a \o b)[j] = IF j < i THEN d[j] ELSE d[j + 1]
  <2>1. CASE j < i
    BY <2>1, <1>1, <1>4, <1>5, <1>6
  <2>2. CASE ~(j < i)
    <3>1. (a \o b)[j] = b[j - (i - 1)]
      BY <2>2, <1>1, <1>4, <1>5, <1>6
    <3>2. j - (i - 1) \in 1..(Len(d) - i)
      BY <2>2, <1>5
    <3> QED BY <2>2, <3>1, <3>2, <1>2, <1>5
  <2> QED BY <2>1, <2>2
<1> QED BY <1>3, <1>4, <1>6, <1>7

(* The members of S in ascending order.                                    *)
Rising(s, n, S) == s \in [1..n -> S] /\ \A i, j \in 1..n : i < j => s[i] < s[j]

(* Every set of positions can be put in ascending order. *)
LEMMA RisingExists ==
  ASSUME NEW k \in Nat, NEW S \in SUBSET (1..k)
  PROVE  \E s : Rising(s, Cardinality(S), S)
<1> DEFINE Bad == {n \in Nat : \E A \in SUBSET (1..n) : ~ \E s : Rising(s, Cardinality(A), A)}
<1> SUFFICES Bad = {}
  OBVIOUS
<1> SUFFICES ASSUME Bad # {} PROVE FALSE
  OBVIOUS
<1>1. PICK n \in Bad : \A m \in Bad : n <= m
  <2>1. Bad \in SUBSET Nat
    OBVIOUS
  <2> QED BY <2>1, Least
<1>2. PICK A \in SUBSET (1..n) : ~ \E s : Rising(s, Cardinality(A), A)
  OBVIOUS
<1>3. n # 0
  <2> SUFFICES ASSUME n = 0 PROVE FALSE
    OBVIOUS
  <2>1. A = {}
    BY <1>2
  <2>2. Rising(<<>>, Cardinality(A), A)
    BY <2>1, FS_EmptySet DEF Rising
  <2> QED BY <1>2, <2>2
<1>4. n \in Nat /\ n - 1 \in Nat /\ n - 1 \notin Bad
  <2>1. n \in Nat /\ n - 1 \in Nat /\ ~(n <= n - 1)
    BY <1>3
  <2> HIDE DEF Bad
  <2> QED BY <2>1, <1>1
<1> HIDE DEF Bad
<1>5. n \in A
  <2> SUFFICES ASSUME n \notin A PROVE FALSE
    OBVIOUS
  <2>1. A \in SUBSET (1..(n-1))
    BY <1>2, <1>4
  <2> QED BY <1>2, <1>4, <2>1 DEF Bad
<1>6. IsFiniteSet(A) /\ Cardinality(A) \in Nat
  <2>1. IsFiniteSet(1..n)
    BY <1>4, FS_Interval
  <2> QED BY <2>1, FS_Subset, FS_CardinalityType
<1> DEFINE B == A \ {n}
<1>7. Cardinality(B) = Cardinality(A) - 1 /\ B \in SUBSET (1..(n-1))
  <2>1. B \in SUBSET (1..(n-1))
    BY <1>2, <1>4
  <2> QED BY <1>5, <1>6, <2>1, FS_RemoveElement
<1>8. PICK s : Rising(s, Cardinality(B), B)
  BY <1>4, <1>7 DEF Bad
<1>9. Cardinality(A) - 1 \in Nat
  <2>1. Cardinality(A) # 0
    BY <1>5, <1>6, FS_EmptySet
  <2> QED BY <2>1, <1>6
<1> HIDE DEF B
<1> DEFINE c == Cardinality(A)
           t == [i \in 1..c |-> IF i = c THEN n ELSE s[i]]
<1>11. s \in [1..(c - 1) -> B] /\ \A i, j \in 1..(c - 1) : i < j => s[i] < s[j]
  BY <1>7, <1>8 DEF Rising
<1>12. c \in Nat /\ c - 1 \in Nat /\ n \in Nat
  BY <1>4, <1>6, <1>9
<1> HIDE DEF c
<1>10. Rising(t, c, A)
  <2>1. \A i \in 1..c : i # c => i \in 1..(c-1)
    BY <1>12
  <2>0. \A x \in B : x \in A /\ x < n /\ x \in Nat
    BY <1>12, <1>2 DEF B
  <2>2. \A i \in 1..c : i # c => s[i] \in B /\ s[i] \in A /\ s[i] < n /\ s[i] \in Nat
    BY <2>0, <2>1, <1>11
  <2>3. t \in [1..c -> A]
    BY <2>2, <1>5
  <2>4. ASSUME NEW i \in 1..c, NEW j \in 1..c, i < j PROVE t[i] < t[j]
    <3>1. i # c /\ t[i] = s[i]
      BY <2>4, <1>12
    <3>2. CASE j = c
      BY <3>1, <3>2, <2>2
    <3>3. CASE j # c
      BY <3>1, <3>3, <2>1, <2>4, <1>11
    <3> QED BY <3>2, <3>3
  <2> QED BY <2>3, <2>4 DEF Rising
<1> QED BY <1>2, <1>10 DEF c

(* InOrder is such an order. *)
LEMMA InOrderRises ==
  ASSUME NEW k \in Nat, NEW S \in SUBSET (1..k)
  PROVE  Rising(InOrder(S), Cardinality(S), S) /\ Cardinality(S) \in Nat /\ Cardinality(S) <= k
<1>1. \E s : Rising(s, Cardinality(S), S)
  BY RisingExists
<1>2. Cardinality(S) \in Nat /\ Cardinality(S) <= k
  <2>1. IsFiniteSet(1..k) /\ Cardinality(1..k) = k
    BY FS_Interval
  <2> QED BY <2>1, FS_Subset, FS_CardinalityType
<1> QED BY <1>1, <1>2 DEF InOrder, Rising

(* The ascending order of all positions is the identity. *)
LEMMA InOrderOfAll ==
  ASSUME NEW k \in Nat
  PROVE  InOrder(1..k) = [i \in 1..k |-> i]
<1>1. Cardinality(1..k) = k
  BY FS_Interval
<1> DEFINE s == InOrder(1..k)
<1>2. s \in [1..k -> 1..k] /\ \A i, j \in 1..k : i < j => s[i] < s[j]
  BY <1>1, InOrderRises DEF Rising
<1> HIDE DEF s
<1> DEFINE Low == {i \in 1..k : s[i] < i}
           High == {i \in Nat : \E j \in 1..k : i = k - j /\ s[j] > j}
<1>3. Low = {}
  <2> SUFFICES ASSUME Low # {} PROVE FALSE
    OBVIOUS
  <2>1. PICK i \in Low : \A j \in Low : i <= j
    <3>1. Low \in SUBSET Nat
      OBVIOUS
    <3> QED BY <3>1, Least
  <2>2. s[i] \in 1..k /\ s[i] < i
    BY <1>2
  <2>3. s[s[i]] < s[i]
    BY <2>1, <2>2, <1>2
  <2>4. s[i] \in Low
    BY <2>2, <2>3
  <2>5. i <= s[i]
    <3> HIDE DEF Low
    <3> QED BY <2>1, <2>4
  <2> QED BY <2>2, <2>5
<1>4. High = {}
  <2> SUFFICES ASSUME High # {} PROVE FALSE
    OBVIOUS
  <2>1. PICK i \in High : \A j \in High : i <= j
    <3>1. High \in SUBSET Nat
      OBVIOUS
    <3> QED BY <3>1, Least
  <2>2. PICK j \in 1..k : i = k - j /\ s[j] > j
    OBVIOUS
  <2>3. s[j] \in 1..k /\ s[s[j]] > s[j] /\ k - s[j] \in Nat
    <3>1. s[j] \in 1..k /\ j < s[j]
      BY <2>2, <1>2
    <3>2. s[j] < s[s[j]] /\ s[s[j]] \in 1..k
      BY <3>1, <1>2
    <3> QED BY <3>1, <3>2
  <2>4. k - s[j] \in High
    BY <2>3
  <2>5. k - j <= k - s[j]
    <3> HIDE DEF High
    <3> QED BY <2>1, <2>2, <2>4
  <2> QED BY <2>2, <2>3, <2>5
<1>5. \A i \in 1..k : s[i] = i
  <2> TAKE i \in 1..k
  <2>1. ~(s[i] < i)
    BY <1>3
  <2>2. ~(s[i] > i)
    <3>1. k - i \in Nat
      OBVIOUS
    <3> QED BY <3>1, <1>4
  <2> QED BY <2>1, <2>2, <1>2
<1> QED BY <1>2, <1>5 DEF s

(* Max is the bound that is a member. *)
LEMMA MaxIs ==
  ASSUME NEW S \in SUBSET Nat, NEW m \in S, \A x \in S : x <= m PROVE Max(S) = m
<1>1. Max(S) \in S /\ \A y \in S : Max(S) >= y
  BY DEF Max
<1>2. Max(S) \in Nat /\ m \in Nat /\ Max(S) >= m /\ Max(S) <= m
  BY <1>1
<1> QED BY <1>2

(* Min is a member, and a bound. *)
LEMMA MinIs ==
  ASSUME NEW S \in SUBSET Nat, S # {} PROVE Min(S) \in S /\ \A x \in S : Min(S) <= x
BY Least DEF Min

-----------------------------------------------------------------------------
(* A tag as a passage carries it. *)
Label(e) == [id |-> e.id, name |-> e.name]
Active(p) == {i \in DOMAIN p.entries : p.entries[i].active}
Labels(p) == {Label(p.entries[i]) : i \in DOMAIN p.entries}
ActiveLabels(p) == {Label(p.entries[i]) : i \in Active(p)}

(* A palette in use: ids from 1 up to the next one, and none twice. *)
PaletteOf(p, n, e, m) ==
    /\ p = [entries |-> e, next |-> m]
    /\ n \in Nat /\ e \in [1..n -> Entry]
    /\ m \in Nat \ {0} /\ m <= MaxRaw
    /\ \A i \in 1..n : e[i].id \in 1..(m - 1)
    /\ \A i, j \in 1..n : e[i].id = e[j].id => i = j

PaletteOK(p) == \E n, e, m : PaletteOf(p, n, e, m)

(* What a palette in use is made of. *)
LEMMA PaletteIs ==
  ASSUME NEW p, NEW n, NEW e, NEW m, PaletteOf(p, n, e, m)
  PROVE  /\ p \in Palette /\ p.entries = e /\ p.next = m /\ DOMAIN e = 1..n
         /\ Active(p) \in SUBSET (1..n) /\ IsFiniteSet(Active(p)) /\ Cardinality(Active(p)) \in Nat
<1>1. p.entries = e /\ p.next = m /\ DOMAIN e = 1..n
  BY DEF PaletteOf
<1>2. Active(p) \in SUBSET (1..n)
  BY <1>1 DEF Active
<1>3. IsFiniteSet(1..n)
  BY FS_Interval DEF PaletteOf
<1>4. IsFiniteSet(Active(p)) /\ Cardinality(Active(p)) \in Nat
  BY <1>2, <1>3, FS_Subset, FS_CardinalityType
<1>5. e \in Seq(Entry) /\ m \in TagId
  BY SomeIds DEF PaletteOf, TagId
<1>6. p \in Palette
  BY <1>5 DEF PaletteOf, Palette
<1> QED BY <1>1, <1>2, <1>4, <1>6

(* The palette of a new device is one in use, without labels. *)
LEMMA EmptyPaletteOK == PaletteOK(EmptyPalette) /\ Labels(EmptyPalette) = {} /\ ActiveLabels(EmptyPalette) = {}
<1>1. PaletteOf(EmptyPalette, 0, <<>>, 1)
  BY SomeIds DEF PaletteOf, EmptyPalette
<1>2. DOMAIN EmptyPalette.entries = {}
  BY DEF EmptyPalette
<1> QED BY <1>1, <1>2 DEF PaletteOK, Labels, ActiveLabels, Active

(* In a palette in use, the first entry with a label's id has its name: ids*)
(* do not repeat.                                                          *)
LEMMA NameOfLabel ==
  ASSUME NEW p, PaletteOK(p), NEW t \in Labels(p) PROVE nameOf(p, t.id) = t.name
<1>0. PICK n, e, m : PaletteOf(p, n, e, m)
  BY DEF PaletteOK
<1>1. p.entries = e /\ DOMAIN e = 1..n /\ n \in Nat
  BY <1>0, PaletteIs DEF PaletteOf
<1>2. PICK i \in 1..n : t = Label(e[i])
  BY <1>1 DEF Labels
<1>3. {k \in 1..n : e[k].id = t.id} = {i}
  BY <1>0, <1>2 DEF PaletteOf, Label
<1>4. Min({i}) = i
  BY <1>1, MinIs
<1> QED BY <1>1, <1>2, <1>3, <1>4 DEF nameOf, Label

(* A bounded set of numbers has its Max. *)
LEMMA HighestIs ==
  ASSUME NEW S, \A x \in S : x \in Nat, NEW b \in Nat, \A x \in S : x <= b, S # {}
  PROVE  Max(S) \in S
<1> DEFINE bounds == {c \in Nat : \A x \in S : x <= c}
<1>1. bounds \in SUBSET Nat /\ bounds # {}
  OBVIOUS
<1>2. PICK c \in bounds : \A d \in bounds : c <= d
  BY <1>1, Least
<1>3. c \in S
  <2> SUFFICES ASSUME c \notin S PROVE FALSE
    OBVIOUS
  <2>1. PICK y : y \in S
    OBVIOUS
  <2>2. c \in Nat /\ y \in Nat /\ y <= c /\ y # c
    BY <2>1
  <2>3. c - 1 \in Nat
    BY <2>2
  <2>4. \A x \in S : x <= c - 1
    <3> TAKE x \in S
    <3>1. x \in Nat /\ x <= c /\ x # c
      OBVIOUS
    <3> QED BY <2>2, <3>1
  <2>5. c - 1 \in bounds
    BY <2>3, <2>4
  <2>6. c <= c - 1
    BY <1>2, <2>5
  <2> QED BY <2>2, <2>6
<1>4. S \in SUBSET Nat
  OBVIOUS
<1>5. Max(S) = c
  BY <1>2, <1>3, <1>4, MaxIs
<1> QED BY <1>3, <1>5

(* A load changes nothing of a palette that was saved: no id is 0 or       *)
(* repeats, and the next id is higher than all.                            *)
LEMMA FromJsonKeeps ==
  ASSUME NEW p, PaletteOK(p) PROVE fromJson(p) = p
<1>0. PICK n, e, m : PaletteOf(p, n, e, m)
  BY DEF PaletteOK
<1>1. /\ n \in Nat /\ e \in [1..n -> Entry] /\ m \in Nat \ {0} /\ m <= MaxRaw /\ MaxRaw \in Nat
      /\ \A i \in 1..n : e[i].id \in 1..(m - 1)
      /\ \A i, j \in 1..n : e[i].id = e[j].id => i = j
  BY <1>0, SomeIds DEF PaletteOf
<1>2. {i \in 1..n : e[i].id # UNLABELLED /\ \A j \in 1..(i - 1) : e[j].id # e[i].id} = 1..n
  BY <1>1 DEF UNLABELLED
<1>3. InOrder(1..n) = [k \in 1..n |-> k]
  BY <1>1, InOrderOfAll
<1> DEFINE ids == {e[i].id : i \in 1..n} \cup {0}
<1>4. \A x \in ids : x \in Nat /\ x <= m - 1
  BY <1>1
<1>5. Max(ids) \in Nat /\ Max(ids) <= m - 1
  <2>1. m - 1 \in Nat /\ ids # {}
    BY <1>1
  <2> HIDE DEF ids
  <2> QED BY <2>1, <1>4, HighestIs
<1>6. Max({m, Max(ids) + 1}) = m
  <2> HIDE DEF ids
  <2> QED BY <1>1, <1>5, MaxIs
<1>7. m % (MaxRaw + 1) = m
  BY <1>1
<1>8. p.entries = e /\ p.next = m /\ DOMAIN e = 1..n
  BY <1>0, PaletteIs
<1>9. fromJson(p) = [entries |-> [k \in 1..n |-> e[[j \in 1..n |-> j][k]]], next |-> m]
  <2> DEFINE firsts == {i \in DOMAIN p.entries : p.entries[i].id # UNLABELLED
                           /\ \A j \in 1..(i - 1) : p.entries[j].id # p.entries[i].id}
  <2>1. firsts = 1..n
    BY <1>2, <1>8
  <2>2. {p.entries[i].id : i \in firsts} \cup {0} = ids
    BY <2>1, <1>8
  <2> HIDE DEF ids
  <2>3. fromJson(p) = [entries |-> [k \in DOMAIN InOrder(firsts) |-> p.entries[InOrder(firsts)[k]]],
                       next |-> Max({p.next, Max({p.entries[i].id : i \in firsts} \cup {0}) + 1}) % (MaxRaw + 1)]
    BY Zenon DEF fromJson
  <2> HIDE DEF firsts
  <2>4. DOMAIN InOrder(firsts) = 1..n
    BY <1>3, <2>1
  <2>5. fromJson(p) = [entries |-> [k \in 1..n |-> e[InOrder(1..n)[k]]], next |-> m]
    BY <1>6, <1>7, <1>8, <2>1, <2>2, <2>3, <2>4
  <2> QED BY <1>3, <2>5
<1>10. [k \in 1..n |-> e[[j \in 1..n |-> j][k]]] = e
  BY <1>1
<1> QED BY <1>0, <1>9, <1>10 DEF PaletteOf

(* Switching an entry on or off keeps its id and name. *)
LEMMA Switched ==
  ASSUME NEW x \in Entry, NEW b \in BOOLEAN
  PROVE  LET y == [x EXCEPT !.active = b]
         IN  y \in Entry /\ y.id = x.id /\ y.name = x.name /\ y.active = b
<1> DEFINE y == [x EXCEPT !.active = b]
<1>1. y.id = x.id /\ y.name = x.name
  BY DEF Entry
<1>2. y = [id |-> x.id, name |-> x.name, active |-> b]
  <2>1. DOMAIN y = {"id", "name", "active"} /\ y.active = b
    BY DEF Entry
  <2> HIDE DEF y
  <2>2. y = [f \in DOMAIN y |-> y[f]]
    BY Zenon DEF y
  <2> QED BY <1>1, <2>1, <2>2
<1>3. x.id \in TagId /\ x.name \in Name
  BY DEF Entry
<1>4. y \in Entry /\ y.active = b
  BY <1>2, <1>3, Zenon DEF Entry
<1> QED BY <1>1, <1>4

(* Retiring a tag keeps every label, and takes those with its id from the  *)
(* active ones.                                                            *)
LEMMA Retiring ==
  ASSUME NEW p, PaletteOK(p), NEW id
  PROVE  /\ PaletteOK(retire(p, id)) /\ Labels(retire(p, id)) = Labels(p)
         /\ ActiveLabels(retire(p, id)) = {t \in ActiveLabels(p) : t.id # id}
<1>0. PICK n, e, m : PaletteOf(p, n, e, m)
  BY DEF PaletteOK
<1> DEFINE f == [i \in 1..n |-> IF e[i].id = id THEN [e[i] EXCEPT !.active = FALSE] ELSE e[i]]
           q == retire(p, id)
<1>1. p.entries = e /\ DOMAIN e = 1..n
  BY <1>0, PaletteIs
<1>2. q = [entries |-> f, next |-> m]
  <2>1. q = [p EXCEPT !.entries = f]
    BY <1>1, Zenon DEF retire
  <2> HIDE DEF f
  <2> QED BY <1>0, <2>1 DEF PaletteOf
<1>3. \A i \in 1..n : /\ f[i] \in Entry /\ f[i].id = e[i].id /\ f[i].name = e[i].name
                      /\ f[i].active <=> e[i].active /\ e[i].id # id
  <2> TAKE i \in 1..n
  <2>1. e[i] \in Entry
    BY <1>0 DEF PaletteOf
  <2>2. CASE e[i].id = id
    <3>1. f[i] = [e[i] EXCEPT !.active = FALSE]
      BY <2>2
    <3> QED BY <2>1, <2>2, <3>1, Switched
  <2>3. CASE e[i].id # id
    BY <2>1, <2>3
  <2> QED BY <2>2, <2>3
<1> HIDE DEF f, q
<1>4. f \in [1..n -> Entry]
  BY <1>3 DEF f
<1>5. PaletteOf(q, n, f, m)
  BY <1>0, <1>2, <1>3, <1>4 DEF PaletteOf
<1>6. q.entries = f /\ DOMAIN f = 1..n
  BY <1>5, PaletteIs
<1>7. \A i \in 1..n : Label(f[i]) = Label(e[i]) /\ Label(e[i]).id = e[i].id
  BY <1>3 DEF Label
<1>8. Labels(q) = Labels(p)
  BY <1>1, <1>6, <1>7 DEF Labels
<1>9. Active(q) = {i \in Active(p) : e[i].id # id} /\ Active(p) \subseteq 1..n
  BY <1>1, <1>3, <1>6 DEF Active
<1>10. ActiveLabels(q) = {t \in ActiveLabels(p) : t.id # id}
  BY <1>1, <1>6, <1>7, <1>9 DEF ActiveLabels
<1> QED BY <1>5, <1>8, <1>10 DEF q, PaletteOK

(* Active labels are labels. *)
LEMMA ActiveAreLabels == ASSUME NEW p PROVE ActiveLabels(p) \subseteq Labels(p)
BY DEF ActiveLabels, Labels, Active

(* Labels are tags. *)
LEMMA LabelsAreTags ==
  ASSUME NEW p, PaletteOK(p) PROVE Labels(p) \subseteq Tag /\ ActiveLabels(p) \subseteq Tag
<1>1. PICK n, e, m : PaletteOf(p, n, e, m)
  BY DEF PaletteOK
<1>2. p.entries = e /\ DOMAIN e = 1..n
  BY <1>1, PaletteIs
<1>3. \A i \in 1..n : Label(e[i]) \in Tag
  <2> TAKE i \in 1..n
  <2>1. e[i].id \in TagId \ {UNLABELLED} /\ e[i].name \in Name
    BY <1>1, SomeIds DEF PaletteOf, Entry, UNLABELLED, TagId
  <2> QED BY <2>1 DEF Label, Tag
<1>4. Labels(p) \subseteq Tag
  BY <1>2, <1>3 DEF Labels
<1> QED BY <1>4, ActiveAreLabels

(* A new tag takes an id that no entry has; no label is lost, and only the *)
(* new one can become active.                                              *)
LEMMA Adding ==
  ASSUME NEW p, PaletteOK(p), NEW name \in Name
  PROVE  LET q == addName(p, name) IN
         /\ PaletteOK(q.palette) /\ Labels(p) \subseteq Labels(q.palette)
         /\ \A t \in ActiveLabels(q.palette) : t \in ActiveLabels(p) \/ t.id = q.id
         /\ activeCount(q.palette) = activeCount(p) => ActiveLabels(q.palette) = ActiveLabels(p)
<1>0. PICK n, e, m : PaletteOf(p, n, e, m)
  BY DEF PaletteOK
<1> DEFINE known == {i \in 1..n : e[i].name = name}
           q == addName(p, name)
<1>1. /\ p.entries = e /\ p.next = m /\ DOMAIN e = 1..n /\ n \in Nat
      /\ Active(p) \in SUBSET (1..n) /\ IsFiniteSet(Active(p)) /\ Cardinality(Active(p)) \in Nat
  BY <1>0, PaletteIs DEF PaletteOf
<1>2. CASE known # {}
  <2> DEFINE k == Min(known)
             new == [e[k] EXCEPT !.active = TRUE]
             f == [e EXCEPT ![k] = new]
  <2>1. k \in known /\ k \in 1..n
    <3>1. known \in SUBSET Nat
      BY <1>1
    <3> QED BY <3>1, <1>2, MinIs
  <2>2. q = [palette |-> [p EXCEPT !.entries[k].active = TRUE], id |-> e[k].id]
    BY <1>1, <1>2 DEF addName
  <2> HIDE DEF k, q
  <2>3. q.palette = [entries |-> f, next |-> m] /\ q.id = e[k].id
    BY <2>2, <1>0 DEF PaletteOf
  <2>4. new \in Entry /\ new.id = e[k].id /\ new.name = e[k].name /\ new.active
    <3>1. e[k] \in Entry
      BY <1>0, <2>1 DEF PaletteOf
    <3> QED BY <3>1, Switched
  <2> HIDE DEF new
  <2>5. f \in [1..n -> Entry] /\ \A i \in 1..n : f[i] = IF i = k THEN new ELSE e[i]
    BY <1>0, <2>1, <2>4 DEF PaletteOf
  <2> HIDE DEF f
  <2>6. PaletteOf(q.palette, n, f, m)
    BY <1>0, <2>1, <2>3, <2>4, <2>5 DEF PaletteOf
  <2>7. \A i \in 1..n : Label(f[i]) = Label(e[i])
    BY <2>4, <2>5 DEF Label
  <2>8. q.palette.entries = f /\ DOMAIN f = 1..n
    BY <2>6, PaletteIs
  <2>9. Labels(p) \subseteq Labels(q.palette)
    BY <1>1, <2>7, <2>8 DEF Labels
  <2>10. Active(q.palette) = Active(p) \cup {k}
    BY <1>1, <2>1, <2>4, <2>5, <2>8 DEF Active
  <2>11. \A t \in ActiveLabels(q.palette) : t \in ActiveLabels(p) \/ t.id = q.id
    <3>1. \A i \in Active(p) : Label(f[i]) \in ActiveLabels(p)
      BY <1>1, <2>7 DEF ActiveLabels
    <3>2. Label(f[k]).id = q.id
      BY <2>1, <2>3, <2>7 DEF Label
    <3> QED BY <3>1, <3>2, <2>8, <2>10 DEF ActiveLabels
  <2>12. ASSUME activeCount(q.palette) = activeCount(p) PROVE ActiveLabels(q.palette) = ActiveLabels(p)
    <3>1. Cardinality(Active(p) \cup {k}) = Cardinality(Active(p))
      BY <2>10, <2>12 DEF activeCount, Active
    <3>2. k \in Active(p)
      <4> SUFFICES ASSUME k \notin Active(p) PROVE FALSE
        OBVIOUS
      <4>1. Cardinality(Active(p) \cup {k}) = Cardinality(Active(p)) + 1
        BY <1>1, FS_AddElement
      <4> QED BY <3>1, <4>1, <1>1
    <3>3. Active(q.palette) = Active(p)
      BY <2>10, <3>2
    <3> QED BY <1>1, <3>3, <2>7, <2>8 DEF ActiveLabels
  <2> QED BY <2>6, <2>9, <2>11, <2>12 DEF q, PaletteOK
<1>3. CASE known = {} /\ (activeCount(p) >= MaxActive \/ p.next = MaxRaw)
  <2>1. q.palette = p
    BY <1>1, <1>3 DEF addName
  <2> QED BY <2>1
<1>4. CASE known = {} /\ ~(activeCount(p) >= MaxActive \/ p.next = MaxRaw)
  <2> DEFINE new == [id |-> m, name |-> name, active |-> TRUE]
             f == Append(e, new)
  <2>1. q = [palette |-> [entries |-> f, next |-> m + 1], id |-> m]
    BY <1>1, <1>4 DEF addName, nextId
  <2>2. m \in Nat \ {0} /\ m + 1 <= MaxRaw /\ MaxRaw \in Nat
    BY <1>0, <1>1, <1>4, SomeIds DEF PaletteOf
  <2>3. new \in Entry /\ new.id = m /\ new.name = name /\ new.active
    BY <2>2 DEF Entry, TagId
  <2> HIDE DEF q, new
  <2>4. /\ f \in [1..(n + 1) -> Entry] /\ f[n + 1] = new
        /\ \A i \in 1..n : f[i] = e[i]
    <3>1. e \in Seq(Entry) /\ Len(e) = n
      BY <1>0 DEF PaletteOf
    <3>2. f \in Seq(Entry) /\ Len(f) = n + 1 /\ f[n + 1] = new /\ \A i \in 1..n : f[i] = e[i]
      BY <3>1, <2>3, AppendProperties
    <3> HIDE DEF f
    <3> QED BY <3>2, LenProperties
  <2> HIDE DEF f
  <2>5. /\ \A i \in 1..(n + 1) : i \in 1..n \/ i = n + 1
        /\ 1..n \subseteq 1..(n + 1) /\ n + 1 \in 1..(n + 1) /\ n + 1 \notin 1..n
    BY <1>1
  <2>6. PaletteOf(q.palette, n + 1, f, m + 1)
    <3>1. \A i \in 1..n : f[i].id \in 1..(m - 1)
      BY <1>0, <2>4 DEF PaletteOf
    <3>2. \A i, j \in 1..n : f[i].id = f[j].id => i = j
      BY <1>0, <2>4 DEF PaletteOf
    <3>3. \A i \in 1..n : f[i].id \in Nat /\ f[i].id < m /\ f[i].id # 0
      BY <3>1, <2>2
    <3>4. f[n + 1].id = m
      BY <2>3, <2>4
    <3>5. \A i \in 1..(n + 1) : f[i].id \in 1..((m + 1) - 1)
      BY <2>2, <2>5, <3>3, <3>4
    <3>6. \A i, j \in 1..(n + 1) : f[i].id = f[j].id => i = j
      BY <2>2, <2>5, <3>2, <3>3, <3>4
    <3> QED BY <1>1, <2>1, <2>2, <2>4, <3>5, <3>6 DEF PaletteOf
  <2>7. q.palette.entries = f /\ DOMAIN f = 1..(n + 1)
    BY <2>6, PaletteIs
  <2>8. Labels(p) \subseteq Labels(q.palette)
    BY <1>1, <2>4, <2>5, <2>7 DEF Labels
  <2>9. Active(q.palette) = Active(p) \cup {n + 1}
    BY <1>1, <2>3, <2>4, <2>5, <2>7 DEF Active
  <2>10. \A t \in ActiveLabels(q.palette) : t \in ActiveLabels(p) \/ t.id = q.id
    <3>1. \A i \in Active(p) : Label(f[i]) \in ActiveLabels(p)
      BY <1>1, <2>4 DEF ActiveLabels
    <3>2. Label(f[n + 1]).id = q.id
      BY <2>1, <2>3, <2>4 DEF Label
    <3> QED BY <3>1, <3>2, <2>7, <2>9 DEF ActiveLabels
  <2>11. activeCount(q.palette) # activeCount(p)
    <3>1. n + 1 \notin Active(p)
      BY <1>1, <2>5
    <3>2. Cardinality(Active(p) \cup {n + 1}) = Cardinality(Active(p)) + 1
      BY <3>1, <1>1, FS_AddElement
    <3>3. Cardinality(Active(q.palette)) # Cardinality(Active(p))
      BY <1>1, <2>9, <3>2
    <3> QED BY <3>3 DEF activeCount, Active
  <2> QED BY <2>6, <2>8, <2>10, <2>11 DEF q, PaletteOK
<1> QED BY <1>2, <1>3, <1>4

-----------------------------------------------------------------------------
(* What normaliseLinks leaves alone. *)
CleanLinks(links, at) ==
    /\ Len(links) <= MaxLinks
    /\ \A i \in 1..Len(links) : links[i] # at
    /\ \A i, j \in 1..Len(links) : links[i] = links[j] => i = j

(* Passages whose tags are among the known labels and whose links need no  *)
(* repair; own: and whose text is of their own edition.                    *)
Sound(known, own) ==
    {p \in Passage : /\ p.tags \subseteq known
                     /\ CleanLinks(p.links, p.at)
                     /\ own => p.of \in Edition /\ p.text \in {Unknown, p.of}}

(* Links that need no repair are left as they are. *)
LEMMA CleanStays ==
  ASSUME NEW links \in Seq(Place), NEW at, CleanLinks(links, at) PROVE normaliseLinks(links, at) = links
<1> DEFINE n == Len(links)
           valid == {i \in DOMAIN links : links[i] # at /\ \A j \in 1..(i - 1) : links[j] # links[i]}
           order == InOrder(valid)
<1>1. n \in Nat /\ DOMAIN links = 1..n /\ links = [k \in 1..n |-> links[k]] /\ n <= MaxLinks
  BY DEF CleanLinks
<1>2. valid = 1..n
  <2>1. \A i \in 1..n : \A j \in 1..(i - 1) : j \in 1..n /\ i # j
    BY <1>1
  <2> HIDE DEF n
  <2>2. \A i \in 1..n : links[i] # at /\ \A j \in 1..(i - 1) : links[j] # links[i]
    BY <2>1 DEF CleanLinks, n
  <2> QED BY <1>1, <2>2
<1>3. normaliseLinks(links, at) = [k \in {i \in DOMAIN order : i <= MaxLinks} |-> links[order[k]]]
  BY Zenon DEF normaliseLinks
<1> HIDE DEF valid, n
<1>4. order = [k \in 1..n |-> k]
  BY <1>1, <1>2, InOrderOfAll
<1> HIDE DEF order
<1>5. {i \in DOMAIN order : i <= MaxLinks} = 1..n
  BY <1>1, <1>4, LinksAreBounded
<1>6. normaliseLinks(links, at) = [k \in 1..n |-> links[order[k]]]
  BY <1>3, <1>5
<1>7. normaliseLinks(links, at) = [k \in 1..n |-> links[k]]
  BY <1>4, <1>6
<1> QED BY <1>1, <1>7

(* No tag has the id of UNLABELLED. *)
LEMMA TagsStay == ASSUME NEW tags \in SUBSET Tag PROVE normaliseTags(tags) = tags
BY DEF normaliseTags, Tag, UNLABELLED

(* The fields of a sound passage. *)
LEMMA PassageIs ==
  ASSUME NEW known, NEW own, NEW p \in Sound(known, own)
  PROVE  /\ p = [at |-> p.at, tags |-> p.tags, links |-> p.links, of |-> p.of, text |-> p.text]
         /\ p \in Passage /\ p.at \in Place /\ p.tags \in SUBSET Tag /\ p.tags \subseteq known
         /\ p.links \in Seq(Place) /\ CleanLinks(p.links, p.at)
         /\ p.of \in Edition \cup {Unknown} /\ p.text \in Edition \cup {Unknown}
         /\ own => p.of \in Edition /\ p.text \in {Unknown, p.of}
BY DEF Sound, Passage

(* A passage with other tags. *)
LEMMA TagsReplaced ==
  ASSUME NEW p \in Passage, NEW new
  PROVE  [p EXCEPT !.tags = new] = [at |-> p.at, tags |-> new, links |-> p.links, of |-> p.of, text |-> p.text]
BY DEF Passage

(* A passage with other links. *)
LEMMA LinksReplaced ==
  ASSUME NEW p \in Passage, NEW new
  PROVE  [p EXCEPT !.links = new] = [at |-> p.at, tags |-> p.tags, links |-> new, of |-> p.of, text |-> p.text]
BY DEF Passage

(* Putting the old tags or links back undoes the edit. *)
LEMMA PutBack ==
  ASSUME NEW p \in Passage, NEW new
  PROVE  /\ [p EXCEPT !.tags = p.tags, !.links = p.links] = p
         /\ [[p EXCEPT !.tags = new] EXCEPT !.tags = p.tags] = p
         /\ [[p EXCEPT !.links = new] EXCEPT !.links = p.links] = p
<1>1. [p EXCEPT !.tags = p.tags, !.links = p.links] = p
  BY DEF Passage
<1>2. [[p EXCEPT !.tags = new] EXCEPT !.tags = p.tags] = p
  BY DEF Passage
<1>3. [[p EXCEPT !.links = new] EXCEPT !.links = p.links] = p
  BY DEF Passage
<1> QED BY <1>1, <1>2, <1>3

(* A sound passage is added as it is. *)
LEMMA AddToIs ==
  ASSUME NEW known, NEW own, NEW doc, NEW p \in Sound(known, own)
  PROVE  addTo(doc, p) = Append(doc, p)
<1>1. normaliseTags(p.tags) = p.tags /\ normaliseLinks(p.links, p.at) = p.links
  BY PassageIs, CleanStays, TagsStay
<1>2. [p EXCEPT !.tags = p.tags, !.links = p.links] = p
  <2>1. p \in Passage
    BY PassageIs
  <2> QED BY <2>1, PutBack
<1> QED BY <1>1, <1>2 DEF addTo

(* Other tags keep a document sound, and can be undone. *)
LEMMA Retagged ==
  ASSUME NEW known, NEW own, NEW doc \in Seq(Sound(known, own)), NEW i \in 1..Len(doc),
         NEW tags \in SUBSET Tag, tags \subseteq known
  PROVE  /\ setTags(doc, i, tags) \in Seq(Sound(known, own))
         /\ setTags(doc, i, tags) = [doc EXCEPT ![i] = [doc[i] EXCEPT !.tags = tags]]
         /\ setTags(setTags(doc, i, tags), i, doc[i].tags) = doc
<1> DEFINE T == Sound(known, own)
           p == doc[i]
           q == [p EXCEPT !.tags = tags]
<1>1. p \in T /\ p.tags \in SUBSET Tag
  BY PassageIs, ElementOfSeq
<1>2. setTags(doc, i, tags) = [doc EXCEPT ![i] = q]
  BY TagsStay DEF setTags
<1>3. q \in T /\ [q EXCEPT !.tags = p.tags] = p
  <2>1. q = [at |-> p.at, tags |-> tags, links |-> p.links, of |-> p.of, text |-> p.text]
    <3>1. p \in Passage
      BY <1>1, PassageIs
    <3> HIDE DEF T, p
    <3> QED BY <3>1, TagsReplaced
  <2> HIDE DEF q
  <2>2. q \in Passage
    BY <1>1, <2>1, PassageIs DEF Passage
  <2>3. q \in T
    BY <1>1, <2>1, <2>2, PassageIs DEF Sound
  <2>4. [q EXCEPT !.tags = p.tags] = p
    <3>1. p \in Passage
      BY <1>1, PassageIs
    <3> HIDE DEF p
    <3> QED BY <3>1, PutBack DEF q
  <2> QED BY <2>3, <2>4
<1> HIDE DEF T, q
<1>4. [doc EXCEPT ![i] = q] \in Seq(T) /\ DOMAIN doc = 1..Len(doc)
  BY <1>3, ExceptSeq DEF T
<1>5. setTags([doc EXCEPT ![i] = q], i, p.tags) = [doc EXCEPT ![i] = [q EXCEPT !.tags = p.tags]]
  BY <1>1, <1>4, TagsStay DEF setTags
<1>6. [doc EXCEPT ![i] = p] = doc
  BY DEF T
<1> QED BY <1>2, <1>3, <1>4, <1>5, <1>6 DEF T, q

(* Removing a tag everywhere keeps every row. *)
LEMMA Untagged ==
  ASSUME NEW known, NEW own, NEW doc \in Seq(Sound(known, own)), NEW id
  PROVE  LET rest == removeTagEverywhere(doc, id)
         IN  /\ rest \in Seq(Sound(known, own)) /\ Len(rest) = Len(doc)
             /\ \A i \in 1..Len(doc) : rest[i].at = doc[i].at /\ rest[i].text = doc[i].text
<1> DEFINE T == Sound(known, own)
           n == Len(doc)
           less(p) == [p EXCEPT !.tags = {t \in p.tags : t.id # id}]
           rest == [i \in 1..n |-> less(doc[i])]
<1>1. n \in Nat /\ DOMAIN doc = 1..n /\ \A i \in 1..n : doc[i] \in T
  BY LenProperties
<1>2. removeTagEverywhere(doc, id) = rest
  BY <1>1, Zenon DEF removeTagEverywhere
<1>3. ASSUME NEW p \in T PROVE less(p) \in T /\ less(p).at = p.at /\ less(p).text = p.text
  <2>1. less(p) = [at |-> p.at, tags |-> {t \in p.tags : t.id # id}, links |-> p.links, of |-> p.of, text |-> p.text]
    <3>1. p \in Passage
      BY <1>3, PassageIs
    <3> HIDE DEF T
    <3> QED BY <3>1, TagsReplaced, Zenon
  <2> HIDE DEF less
  <2>2. less(p) \in Passage
    BY <1>3, <2>1, PassageIs DEF Passage
  <2> QED BY <1>3, <2>1, <2>2, PassageIs DEF Sound
<1> HIDE DEF n, less, T
<1>4. \A i \in 1..n : rest[i] = less(doc[i])
  OBVIOUS
<1>5. rest \in Seq(T) /\ Len(rest) = n
  BY <1>1, <1>3
<1>6. \A i \in 1..n : rest[i].at = doc[i].at /\ rest[i].text = doc[i].text
  BY <1>1, <1>3, <1>4
<1> QED BY <1>2, <1>5, <1>6 DEF n, T

(* A repair gives texts to passages that had none, of their own edition. *)
LEMMA Rebuilt ==
  ASSUME NEW known, NEW own, NEW doc \in Seq(Sound(known, own)),
         NEW rows \in SUBSET (1..Len(doc)), NEW edition \in Edition,
         \A i \in rows : doc[i].text = Unknown /\ (own => doc[i].of = edition)
  PROVE  LET new == setWholeTexts(doc, rows, edition)
         IN  /\ new \in Seq(Sound(known, own)) /\ Len(new) = Len(doc)
             /\ \A i \in 1..Len(doc) : new[i].at = doc[i].at /\ (doc[i].text # Unknown => new[i].text # Unknown)
<1> DEFINE T == Sound(known, own)
           n == Len(doc)
           whole(p) == [p EXCEPT !.text = edition]
           new == [i \in 1..n |-> IF i \in rows THEN whole(doc[i]) ELSE doc[i]]
<1>1. n \in Nat /\ DOMAIN doc = 1..n /\ \A i \in 1..n : doc[i] \in T
  BY LenProperties
<1>2. setWholeTexts(doc, rows, edition) = new
  BY <1>1, Zenon DEF setWholeTexts
<1>3. ASSUME NEW p \in T, own => p.of = edition
      PROVE  whole(p) \in T /\ whole(p).at = p.at /\ whole(p).text = edition
  <2>1. whole(p) = [at |-> p.at, tags |-> p.tags, links |-> p.links, of |-> p.of, text |-> edition]
    BY <1>3, PassageIs
  <2> HIDE DEF whole
  <2>2. whole(p) \in Passage
    BY <1>3, <2>1, PassageIs DEF Passage
  <2> QED BY <1>3, <2>1, <2>2, PassageIs DEF Sound
<1> HIDE DEF n, whole, T
<1>4. \A i \in 1..n : new[i] = IF i \in rows THEN whole(doc[i]) ELSE doc[i]
  OBVIOUS
<1>5. new \in Seq(T) /\ Len(new) = n
  BY <1>1, <1>3
<1>6. \A i \in 1..n : new[i].at = doc[i].at /\ (doc[i].text # Unknown => new[i].text # Unknown)
  BY <1>1, <1>3, <1>4, UnknownIsNoEdition
<1> QED BY <1>2, <1>5, <1>6 DEF n, T

(* A link that is made keeps the document sound and can be undone. *)
LEMMA LinkedTo ==
  ASSUME NEW known, NEW own, NEW doc \in Seq(Sound(known, own)), NEW s \in 1..Len(doc), NEW t \in 1..Len(doc),
         linkResult(doc, s, t) = "Linked"
  PROVE  LET linked == link(doc, s, t)
         IN  /\ linked \in Seq(Sound(known, own))
             /\ linked = [doc EXCEPT ![s] = [doc[s] EXCEPT !.links = Append(@, doc[t].at)]]
             /\ removeLinkAt(linked, s, Len(linked[s].links)) = doc
<1> DEFINE T == Sound(known, own)
           p == doc[s]
           at == doc[t].at
           q == [p EXCEPT !.links = Append(p.links, at)]
           n == Len(p.links)
<1>1. p \in T /\ at \in Place /\ DOMAIN doc = 1..Len(doc)
  BY PassageIs, ElementOfSeq
<1>2. link(doc, s, t) = [doc EXCEPT ![s] = q]
  BY <1>1 DEF link
<1>3. at # p.at /\ n < MaxLinks /\ \A i \in 1..n : p.links[i] # at
  <2>1. at # p.at /\ ~(n >= MaxLinks) /\ ~Contains(p.links, at)
    BY DEF linkResult
  <2>2. n \in Nat
    BY <1>1, PassageIs
  <2> QED BY <2>1, <2>2, LinksAreBounded DEF Contains
<1>4. p.links \in Seq(Place) /\ n \in Nat /\ CleanLinks(p.links, p.at)
  BY <1>1, PassageIs
<1>5. /\ Append(p.links, at) \in Seq(Place) /\ Len(Append(p.links, at)) = n + 1
      /\ Append(p.links, at)[n + 1] = at /\ \A i \in 1..n : Append(p.links, at)[i] = p.links[i]
  BY <1>1, <1>4, AppendProperties
<1> DEFINE longer == Append(p.links, at)
<1>6. CleanLinks(longer, p.at)
  <2> HIDE DEF longer
  <2>1. /\ \A i \in 1..(n + 1) : i \in 1..n \/ i = n + 1
        /\ n + 1 \notin 1..n /\ n + 1 <= MaxLinks
    BY <1>3, <1>4, LinksAreBounded
  <2>2. /\ \A i \in 1..n : longer[i] # p.at /\ longer[i] # at
        /\ \A i, j \in 1..n : longer[i] = longer[j] => i = j
        /\ longer[n + 1] = at /\ Len(longer) = n + 1
    BY <1>3, <1>4, <1>5 DEF CleanLinks, longer
  <2> HIDE DEF n, at, p
  <2> QED BY <1>3, <2>1, <2>2 DEF CleanLinks
<1>7. q = [at |-> p.at, tags |-> p.tags, links |-> longer, of |-> p.of, text |-> p.text]
  <2>1. p \in Passage
    BY <1>1, PassageIs
  <2> HIDE DEF T, p, longer
  <2> QED BY <2>1, LinksReplaced DEF longer
<1>8. RemoveAt(longer, n + 1) = p.links
  <2> HIDE DEF longer
  <2>1. /\ RemoveAt(longer, n + 1) \in Seq(Place)
        /\ Len(RemoveAt(longer, n + 1)) = n
        /\ \A i \in 1..n : RemoveAt(longer, n + 1)[i] = IF i < n + 1 THEN longer[i] ELSE longer[i + 1]
    <3>1. longer \in Seq(Place) /\ Len(longer) = n + 1 /\ n + 1 \in 1..(n + 1) /\ (n + 1) - 1 = n
      BY <1>4, <1>5 DEF longer
    <3> HIDE DEF n
    <3> QED BY <3>1, RemoveAtIs
  <2>2. \A i \in 1..n : RemoveAt(longer, n + 1)[i] = p.links[i]
    BY <1>4, <1>5, <2>1 DEF longer
  <2> QED BY <1>4, <2>1, <2>2, SeqEqual
<1> HIDE DEF q
<1>9. q \in T
  <2>1. q \in Passage
    BY <1>1, <1>5, <1>7, PassageIs DEF Passage
  <2> QED BY <1>1, <1>6, <1>7, <2>1, PassageIs DEF Sound
<1>10. [q EXCEPT !.links = p.links] = p
  BY <1>1, <1>7, PassageIs
<1> HIDE DEF T
<1>11. [doc EXCEPT ![s] = q] \in Seq(T)
  BY <1>9, ExceptSeq DEF T
<1>12. removeLinkAt([doc EXCEPT ![s] = q], s, Len(q.links)) = [doc EXCEPT ![s] = [q EXCEPT !.links = RemoveAt(@, n + 1)]]
  <2>1. Len(q.links) = n + 1
    BY <1>5, <1>7
  <2> QED BY <1>1, <2>1 DEF removeLinkAt
<1>13. [q EXCEPT !.links = RemoveAt(@, n + 1)] = p
  BY <1>7, <1>8, <1>10
<1>14. [doc EXCEPT ![s] = p] = doc
  BY DEF T
<1>15. [doc EXCEPT ![s] = q][s] = q
  BY <1>1
<1> QED BY <1>2, <1>11, <1>12, <1>13, <1>14, <1>15 DEF T, q

(* So does a link that is removed. *)
LEMMA Unlinked ==
  ASSUME NEW known, NEW own, NEW doc \in Seq(Sound(known, own)), NEW i \in 1..Len(doc),
         NEW l \in DOMAIN doc[i].links
  PROVE  LET rest == removeLinkAt(doc, i, l)
         IN  /\ rest \in Seq(Sound(known, own))
             /\ rest = [doc EXCEPT ![i] = [doc[i] EXCEPT !.links = RemoveAt(@, l)]]
             /\ setLinks(rest, i, doc[i].links) = doc
<1> DEFINE T == Sound(known, own)
           p == doc[i]
           fewer == RemoveAt(p.links, l)
           q == [p EXCEPT !.links = fewer]
           n == Len(p.links)
<1>1. p \in T /\ DOMAIN doc = 1..Len(doc)
  BY ElementOfSeq
<1>2. p.links \in Seq(Place) /\ n \in Nat /\ DOMAIN p.links = 1..n /\ CleanLinks(p.links, p.at) /\ n <= MaxLinks
  BY <1>1, PassageIs DEF CleanLinks
<1>3. /\ fewer \in Seq(Place) /\ Len(fewer) = n - 1
      /\ \A j \in 1..(n - 1) : fewer[j] = IF j < l THEN p.links[j] ELSE p.links[j + 1]
  BY <1>2, RemoveAtIs
<1>4. removeLinkAt(doc, i, l) = [doc EXCEPT ![i] = q]
  BY DEF removeLinkAt
<1> HIDE DEF fewer
<1>5. CleanLinks(fewer, p.at)
  <2>1. \A j \in 1..(n - 1) : j \in 1..n /\ j + 1 \in 1..n
    BY <1>2
  <2>2. \A j \in 1..n : p.links[j] # p.at /\ \A k \in 1..n : p.links[j] = p.links[k] => j = k
    BY <1>2 DEF CleanLinks
  <2>3. n - 1 <= MaxLinks
    BY <1>2, LinksAreBounded
  <2>4. \A j \in 1..(n - 1) : fewer[j] # p.at
    BY <1>3, <2>1, <2>2
  <2>5. \A j, k \in 1..(n - 1) : fewer[j] = fewer[k] => j = k
    <3> TAKE j, k \in 1..(n - 1)
    <3> DEFINE up(m) == IF m < l THEN m ELSE m + 1
    <3>1. fewer[j] = p.links[up(j)] /\ fewer[k] = p.links[up(k)] /\ up(j) \in 1..n /\ up(k) \in 1..n
      BY <1>3, <2>1
    <3>2. up(j) = up(k) => j = k
      BY <1>2
    <3> QED BY <2>2, <3>1, <3>2
  <2> QED BY <1>3, <2>3, <2>4, <2>5 DEF CleanLinks
<1>6. q = [at |-> p.at, tags |-> p.tags, links |-> fewer, of |-> p.of, text |-> p.text]
  BY <1>1, PassageIs
<1> HIDE DEF q
<1>7. q \in T
  <2>1. q \in Passage
    BY <1>1, <1>3, <1>6, PassageIs DEF Passage
  <2> QED BY <1>1, <1>5, <1>6, <2>1, PassageIs DEF Sound
<1>8. [q EXCEPT !.links = p.links] = p
  BY <1>1, <1>6, PassageIs
<1> HIDE DEF T
<1>9. [doc EXCEPT ![i] = q] \in Seq(T)
  BY <1>7, ExceptSeq DEF T
<1>10. setLinks([doc EXCEPT ![i] = q], i, p.links) = [doc EXCEPT ![i] = [q EXCEPT !.links = p.links]]
  <2>1. [doc EXCEPT ![i] = q][i] = q /\ q.at = p.at
    BY <1>1, <1>6
  <2>2. normaliseLinks(p.links, q.at) = p.links
    BY <1>2, <2>1, CleanStays
  <2> QED BY <1>1, <2>1, <2>2 DEF setLinks
<1>11. [doc EXCEPT ![i] = p] = doc
  BY DEF T
<1> QED BY <1>4, <1>8, <1>9, <1>10, <1>11 DEF T, q, fewer

-----------------------------------------------------------------------------
PlaceOf(doc, at) == {i \in DOMAIN doc : doc[i].at = at}
WholeOf(doc, at) == {i \in DOMAIN doc : doc[i].at = at /\ doc[i].text # Unknown}

(* Every passage of doc is still in new, in its row; new may have more, and*)
(* more texts.                                                             *)
Grows(doc, new) ==
    /\ Len(doc) <= Len(new)
    /\ \A i \in 1..Len(doc) : new[i].at = doc[i].at /\ (doc[i].text # Unknown => new[i].text # Unknown)

(* The same passages and texts, with other tags or links. *)
SameRows(doc, new) ==
    /\ Len(doc) = Len(new)
    /\ \A i \in 1..Len(doc) : new[i].at = doc[i].at /\ new[i].text = doc[i].text

(* The counts are those of finite sets of rows. *)
LEMMA CountsAre ==
  ASSUME NEW T, NEW doc \in Seq(T), NEW at
  PROVE  /\ Count(doc, at) = Cardinality(PlaceOf(doc, at)) /\ CountWhole(doc, at) = Cardinality(WholeOf(doc, at))
         /\ IsFiniteSet(PlaceOf(doc, at)) /\ IsFiniteSet(WholeOf(doc, at))
         /\ Count(doc, at) \in Nat /\ CountWhole(doc, at) \in Nat
<1>1. Count(doc, at) = Cardinality(PlaceOf(doc, at)) /\ CountWhole(doc, at) = Cardinality(WholeOf(doc, at))
  BY DEF Count, CountWhole, PlaceOf, WholeOf
<1>2. PlaceOf(doc, at) \in SUBSET (1..Len(doc)) /\ WholeOf(doc, at) \in SUBSET (1..Len(doc)) /\ Len(doc) \in Nat
  BY DEF PlaceOf, WholeOf
<1>3. IsFiniteSet(1..Len(doc))
  BY <1>2, FS_Interval
<1>4. IsFiniteSet(PlaceOf(doc, at)) /\ IsFiniteSet(WholeOf(doc, at))
  BY <1>2, <1>3, FS_Subset
<1> QED BY <1>1, <1>4, FS_CardinalityType

(* A document that keeps its rows counts as much at every place. *)
LEMMA GrownCounts ==
  ASSUME NEW T, NEW doc \in Seq(T), NEW new \in Seq(T), Grows(doc, new), NEW at
  PROVE  Count(doc, at) <= Count(new, at) /\ CountWhole(doc, at) <= CountWhole(new, at)
<1>1. PlaceOf(doc, at) \in SUBSET PlaceOf(new, at) /\ WholeOf(doc, at) \in SUBSET WholeOf(new, at)
  <2>1. Len(doc) \in Nat /\ Len(new) \in Nat /\ DOMAIN doc = 1..Len(doc) /\ DOMAIN new = 1..Len(new)
    OBVIOUS
  <2>2. DOMAIN doc \subseteq DOMAIN new
    BY <2>1 DEF Grows
  <2> QED BY <2>1, <2>2 DEF Grows, PlaceOf, WholeOf
<1> QED BY <1>1, CountsAre, FS_Subset

(* With the same rows it counts the same. *)
LEMMA SameCounts ==
  ASSUME NEW T, NEW doc \in Seq(T), NEW new \in Seq(T), SameRows(doc, new), NEW at
  PROVE  Count(doc, at) = Count(new, at) /\ CountWhole(doc, at) = CountWhole(new, at)
<1>1. DOMAIN doc = 1..Len(doc) /\ DOMAIN new = 1..Len(doc)
  BY DEF SameRows
<1>2. PlaceOf(doc, at) = PlaceOf(new, at) /\ WholeOf(doc, at) = WholeOf(new, at)
  BY <1>1 DEF SameRows, PlaceOf, WholeOf
<1> QED BY <1>2, CountsAre

(* A removed passage that is added at the end counts as before. *)
LEMMA MovedLast ==
  ASSUME NEW T, NEW doc \in Seq(T), NEW i \in 1..Len(doc), NEW at
  PROVE  LET new == Append(RemoveAt(doc, i), doc[i])
         IN  Count(doc, at) = Count(new, at) /\ CountWhole(doc, at) = CountWhole(new, at)
<1> DEFINE n == Len(doc)
           new == Append(RemoveAt(doc, i), doc[i])
           from == [j \in 1..n |-> IF j < i THEN j ELSE IF j = n THEN i ELSE j + 1]
<1>1. n \in Nat /\ DOMAIN doc = 1..n /\ doc[i] \in T /\ i \in 1..n
  BY ElementOfSeq
<1>2. /\ new \in Seq(T) /\ Len(new) = n
      /\ \A j \in 1..(n - 1) : new[j] = IF j < i THEN doc[j] ELSE doc[j + 1]
      /\ new[n] = doc[i]
  <2> DEFINE rest == RemoveAt(doc, i)
  <2>1. /\ rest \in Seq(T) /\ Len(rest) = n - 1
        /\ \A j \in 1..(n - 1) : rest[j] = IF j < i THEN doc[j] ELSE doc[j + 1]
    BY RemoveAtIs
  <2> HIDE DEF rest
  <2>2. /\ Append(rest, doc[i]) \in Seq(T) /\ Len(Append(rest, doc[i])) = Len(rest) + 1
        /\ \A j \in 1..Len(rest) : Append(rest, doc[i])[j] = rest[j]
        /\ Append(rest, doc[i])[Len(rest) + 1] = doc[i]
    <3> DEFINE x == doc[i]
    <3>1. x \in T /\ rest \in Seq(T)
      BY <1>1, <2>1
    <3> HIDE DEF x
    <3>2. /\ Append(rest, x) \in Seq(T) /\ Len(Append(rest, x)) = Len(rest) + 1
          /\ \A j \in 1..Len(rest) : Append(rest, x)[j] = rest[j]
          /\ Append(rest, x)[Len(rest) + 1] = x
      BY <3>1, AppendProperties
    <3> QED BY <3>2 DEF x
  <2>3. (n - 1) + 1 = n
    BY <1>1
  <2> HIDE DEF n
  <2> QED BY <2>1, <2>2, <2>3 DEF rest
<1> HIDE DEF new, n
<1>3. \A j \in 1..n : from[j] \in 1..n /\ new[j] = doc[from[j]]
  BY <1>1, <1>2
<1>4. \A j, k \in 1..n : from[j] = from[k] => j = k
  BY <1>1
<1>5. \A k \in 1..n : \E j \in 1..n : from[j] = k
  <2> TAKE k \in 1..n
  <2>1. CASE k < i
    BY <2>1, <1>1
  <2>2. CASE k = i
    BY <2>2, <1>1
  <2>3. CASE k > i
    <3>1. k - 1 \in 1..n /\ ~(k - 1 < i) /\ k - 1 # n /\ (k - 1) + 1 = k
      BY <2>3, <1>1
    <3>2. from[k - 1] = k
      BY <3>1
    <3> QED BY <3>1, <3>2
  <2> QED BY <2>1, <2>2, <2>3, <1>1
<1>6. DOMAIN new = 1..n
  BY <1>2
<1> HIDE DEF from
<1>7. ASSUME NEW A \in SUBSET (1..n), NEW B \in SUBSET (1..n), \A j \in 1..n : j \in B <=> from[j] \in A,
             IsFiniteSet(B)
      PROVE  Cardinality(A) = Cardinality(B)
  <2> DEFINE f == [j \in B |-> from[j]]
  <2>1. f \in [B -> A]
    BY <1>7
  <2>2. \A j, k \in B : f[j] = f[k] => j = k
    BY <1>4, <1>7
  <2>3. \A a \in A : \E j \in B : f[j] = a
    BY <1>5, <1>7
  <2> HIDE DEF f
  <2>4. f \in Bijection(B, A)
    BY <2>1, <2>2, <2>3 DEF Bijection, Injection, Surjection, IsInjective
  <2> QED BY <2>4, <1>7, FS_Bijection DEF ExistsBijection
<1>8. PlaceOf(doc, at) \in SUBSET (1..n) /\ PlaceOf(new, at) \in SUBSET (1..n)
      /\ \A j \in 1..n : j \in PlaceOf(new, at) <=> from[j] \in PlaceOf(doc, at)
  BY <1>1, <1>3, <1>6 DEF PlaceOf
<1>9. WholeOf(doc, at) \in SUBSET (1..n) /\ WholeOf(new, at) \in SUBSET (1..n)
      /\ \A j \in 1..n : j \in WholeOf(new, at) <=> from[j] \in WholeOf(doc, at)
  BY <1>1, <1>3, <1>6 DEF WholeOf
<1>10. IsFiniteSet(PlaceOf(new, at)) /\ IsFiniteSet(WholeOf(new, at))
  BY <1>2, CountsAre
<1>11. Cardinality(PlaceOf(doc, at)) = Cardinality(PlaceOf(new, at))
       /\ Cardinality(WholeOf(doc, at)) = Cardinality(WholeOf(new, at))
  BY <1>7, <1>8, <1>9, <1>10
<1>12. Count(doc, at) = Count(new, at) /\ CountWhole(doc, at) = CountWhole(new, at)
  BY <1>2, <1>11, CountsAre
<1> QED BY <1>12 DEF new

-----------------------------------------------------------------------------
(* The labels the card knows, active or retired; any, once the palette was *)
(* given up.                                                               *)
Known == IF paletteLost THEN Tag ELSE Labels(paletteStored)
OwnTexts == ~UnitMayFail
SoundNow == Sound(Known, OwnTexts)

(* Memory offers nothing that the card does not know, and nothing at all   *)
(* while a palette that is there was not seen; else it has every label of  *)
(* the card.                                                               *)
PaletteMatches ==
    /\ paletteFile = Absent \/ "palette" \in overlooked => ActiveLabels(palette) = {}
    /\ MayEdit /\ "palette" \notin overlooked => Labels(paletteStored) \subseteq Labels(palette)
    /\ MayEdit => ActiveLabels(palette) \subseteq Labels(paletteStored)

(* The palettes are well made, and match until the card's was given up. *)
PalettesAgree ==
    /\ PaletteOK(palette)
    /\ paletteFile = Absent \/ PaletteOK(paletteFile)
    /\ openPub = Absent => palette = EmptyPalette
    /\ paletteLost \in BOOLEAN
    /\ ~paletteLost => PaletteMatches

(* A publication that may be edited was loaded, and only it is repaired or *)
(* retired from.                                                           *)
SessionAgrees ==
    /\ openPub \in Pub \cup {Absent} /\ (openPub # Absent => book \in Edition)
    /\ MayEdit => loadedCleanly
    /\ opened => openPub # Absent
    /\ retiring # NoId => MayEdit

(* What the next load finds is a sequence of sound passages ... *)
FilesLoad(T) == passageFile \in [Pub -> Seq(T) \cup {Absent}]

(* ... and within the byte budget. *)
FilesFit == \A pub \in Pub : passageFile[pub] = Absent \/ fits(passageFile[pub])

SourceIsMarked == linkSource # 0 => linkSource \in 1..Len(passages) /\ passages[linkSource].at = marked

(* Memory and card agree on what a sound passage is. *)
Consistent(known, own) ==
    /\ PaletteOK(palette) /\ (MayEdit => ActiveLabels(palette) \subseteq known)
    /\ SessionAgrees /\ SourceIsMarked
    /\ passages \in Seq(Sound(known, own)) /\ FilesLoad(Sound(known, own))
    /\ own => ~UnitMayFail

(* The inductive invariant: the tags of every passage, resident or stored, *)
(* are labels of the card.                                                 *)
IInv == PalettesAgree /\ Consistent(Known, OwnTexts) /\ FilesFit

(* The stored palette is one in use. *)
LEMMA PaletteStoredOK == ASSUME PalettesAgree PROVE PaletteOK(paletteStored)
BY EmptyPaletteOK DEF PalettesAgree, paletteStored

(* A palette in use is no missing file. *)
LEMMA PalettePalette == ASSUME NEW p, PaletteOK(p) PROVE p \in Palette /\ p # Absent
<1>1. p \in Palette
  BY PaletteIs DEF PaletteOK
<1> QED BY <1>1, AbsentIsNoFile

(* The card knows tags. *)
LEMMA KnownAreTags == ASSUME PalettesAgree PROVE Known \subseteq Tag
BY PaletteStoredOK, LabelsAreTags DEF Known

(* What a palette save can leave. *)
LEMMA PaletteSaves ==
  ASSUME NEW new, NEW ok \in BOOLEAN, savePalette(ok, new), PaletteOK(new), paletteLost \in BOOLEAN
  PROVE  /\ ok => paletteFile' = new /\ "palette" \notin overlooked'
         /\ ~ok => overlooked' = overlooked
         /\ paletteFile' \in {new, paletteFile, Absent}
         /\ paletteLost' \in BOOLEAN /\ (paletteLost => paletteLost')
         /\ ~paletteLost' => \/ paletteFile' = paletteFile
                             \/ paletteFile' = new /\ new # Absent /\ "palette" \notin overlooked
         /\ passageFile' = passageFile
<1>1. new # Absent
  BY PalettePalette
<1>2. paletteFile' \in {new, paletteFile, Absent} /\ (ok => paletteFile' = new)
  BY DEF savePalette, writePalette, AfterFailure, AfterCut
<1>3. overlooked' = IF ok THEN overlooked \ {"palette"} ELSE overlooked
  BY DEF savePalette, seen
<1>4. paletteLost' = (paletteLost \/ (paletteFile' # paletteFile /\ ("palette" \in overlooked \/ paletteFile' = Absent)))
  BY DEF savePalette, writePalette
<1>5. paletteLost' \in BOOLEAN /\ (paletteLost => paletteLost')
  BY <1>4
<1>6. ~paletteLost' => paletteFile' = paletteFile \/ ("palette" \notin overlooked /\ paletteFile' # Absent)
  BY <1>4
<1> QED BY <1>1, <1>2, <1>3, <1>5, <1>6 DEF savePalette

(* A palette edit is saved before its new label can be picked, or the label*)
(* is retired again: the labels the card knows only grow.                  *)
LEMMA PaletteWritten ==
  ASSUME PalettesAgree, MayEdit, NEW new, NEW kept, NEW ok \in BOOLEAN, savePalette(ok, new),
         PaletteOK(new), PaletteOK(kept), Labels(palette) \subseteq Labels(new), Labels(new) = Labels(kept),
         ActiveLabels(kept) \subseteq ActiveLabels(palette),
         palette' = IF ok THEN new ELSE kept, UNCHANGED <<openPub, saveDisabled>>
  PROVE  PalettesAgree' /\ Known \subseteq Known'
<1>1. /\ ok => paletteFile' = new /\ "palette" \notin overlooked'
      /\ ~ok => overlooked' = overlooked
      /\ paletteFile' \in {new, paletteFile, Absent}
      /\ paletteLost' \in BOOLEAN /\ (paletteLost => paletteLost')
      /\ ~paletteLost' => \/ paletteFile' = paletteFile
                          \/ paletteFile' = new /\ new # Absent /\ "palette" \notin overlooked
  BY PaletteSaves DEF PalettesAgree
<1>2. new # Absent /\ openPub' # Absent /\ PaletteOK(palette') /\ Labels(palette') = Labels(new) /\ MayEdit'
  BY PalettePalette DEF MayEdit
<1>3. paletteFile' = Absent \/ PaletteOK(paletteFile')
  BY <1>1 DEF PalettesAgree
<1>4. ActiveLabels(new) \subseteq Labels(new) /\ ActiveLabels(kept) \subseteq Labels(kept)
  BY ActiveAreLabels
<1>5. CASE paletteLost'
  BY <1>1, <1>2, <1>3, <1>5, KnownAreTags DEF PalettesAgree, Known
<1>6. ASSUME ~paletteLost' PROVE PaletteMatches' /\ Known \subseteq Known'
  <2>1. PaletteMatches /\ Known = Labels(paletteStored) /\ Known' = Labels(paletteStored)'
    BY <1>1, <1>6 DEF PalettesAgree, Known
  <2>2. CASE paletteFile' = paletteFile
    <3>1. paletteStored' = paletteStored
      BY <2>2 DEF paletteStored
    <3>2. CASE ok
      <4>1. paletteStored' = new /\ palette' = new
        BY <1>1, <1>2, <3>2 DEF paletteStored
      <4> QED BY <1>1, <1>2, <1>4, <2>1, <3>1, <3>2, <4>1 DEF PaletteMatches
    <3>3. CASE ~ok
      <4>1. palette' = kept /\ overlooked' = overlooked
        BY <1>1, <3>3
      <4> QED BY <2>1, <2>2, <3>1, <4>1 DEF PaletteMatches
    <3> QED BY <3>2, <3>3
  <2>3. CASE paletteFile' = new /\ "palette" \notin overlooked
    <3>1. paletteStored' = new
      BY <1>2, <2>3 DEF paletteStored
    <3>2. "palette" \notin overlooked' /\ Labels(paletteStored) \subseteq Labels(new)
      BY <1>1, <2>1, <2>3 DEF PaletteMatches
    <3>3. ActiveLabels(palette') \subseteq Labels(new)
      BY <1>4
    <3> QED BY <1>2, <2>1, <2>3, <3>1, <3>2, <3>3 DEF PaletteMatches
  <2> QED BY <1>1, <1>6, <2>2, <2>3
<1> QED BY <1>1, <1>2, <1>3, <1>5, <1>6 DEF PalettesAgree

(* Nothing about the palettes changes. *)
PaletteKept ==
    /\ UNCHANGED <<paletteFile, paletteLost, palette, openPub, saveDisabled>>
    /\ "palette" \in overlooked' <=> "palette" \in overlooked

(* Other steps leave the palettes as they are. *)
LEMMA PalettesUnchanged ==
  ASSUME PalettesAgree, PaletteKept PROVE PalettesAgree' /\ Known' = Known
<1>1. paletteStored' = paletteStored /\ (MayEdit' <=> MayEdit)
  BY DEF PaletteKept, paletteStored, MayEdit
<1>2. Known' = Known
  BY <1>1 DEF PaletteKept, Known
<1>3. PaletteMatches => PaletteMatches'
  BY <1>1 DEF PaletteMatches, PaletteKept
<1> QED BY <1>2, <1>3 DEF PalettesAgree, PaletteKept

(* Saving passages is such a step. *)
LEMMA SavingPassages ==
  ASSUME NEW ok, NEW new, save(ok, new)
  PROVE  UNCHANGED <<paletteFile, paletteLost>> /\ ("palette" \in overlooked' <=> "palette" \in overlooked)
BY DEF save, seen

(* What openPublication reads of the palette. *)
LEMMA PaletteOpened ==
  ASSUME PalettesAgree, NEW pub \in Pub, openPublication(pub) PROVE PalettesAgree' /\ Known \subseteq Known'
<1>1. paletteFile' = paletteFile /\ paletteLost' = paletteLost /\ paletteStored' = paletteStored /\ Known' = Known
  BY DEF openPublication, paletteStored, Known
<1>2. openPub' # Absent
  BY AbsentIsNoFile DEF openPublication
<1>3. PICK p \in AdoptedLoad(paletteFile) :
         /\ palette' = IF p = "Loaded" THEN fromJson(paletteFile) ELSE palette
         /\ p = "Failed" => saveDisabled'
         /\ saveDisabled => saveDisabled'
         /\ "palette" \in overlooked' <=>
                p # "Loaded" /\ ("palette" \in overlooked \/ (palette = EmptyPalette /\ paletteFile # Absent))
  <2>1. PICK p \in AdoptedLoad(paletteFile), q \in AdoptedLoad(passageFile[pub]) :
           /\ palette' = IF p = "Loaded" THEN fromJson(paletteFile) ELSE palette
           /\ saveDisabled' = (saveDisabled \/ "Failed" \in {p, q})
           /\ overlooked' = {file \in {"palette", "passages"} :
                  \/ /\ file = "palette" /\ p # "Loaded"
                     /\ file \in overlooked \/ (palette = EmptyPalette /\ paletteFile # Absent)
                  \/ file = "passages" /\ q = "Empty" /\ passageFile[pub] # Absent}
    BY DEF openPublication
  <2>2. "palette" \in overlooked' <=>
           p # "Loaded" /\ ("palette" \in overlooked \/ (palette = EmptyPalette /\ paletteFile # Absent))
    BY <2>1
  <2>3. (p = "Failed" => saveDisabled') /\ (saveDisabled => saveDisabled')
    BY <2>1
  <2> QED BY <2>1, <2>2, <2>3
<1>4. CASE p = "Loaded"
  <2>1. paletteFile # Absent
    BY <1>3, <1>4 DEF AdoptedLoad
  <2>2. PaletteOK(paletteFile) /\ palette' = paletteFile /\ paletteStored' = paletteFile
    BY <1>1, <1>3, <1>4, <2>1, FromJsonKeeps DEF PalettesAgree, paletteStored
  <2>3. PaletteMatches'
    BY <1>1, <1>3, <1>4, <2>1, <2>2, ActiveAreLabels DEF PaletteMatches
  <2> QED BY <1>1, <1>2, <2>2, <2>3 DEF PalettesAgree
<1>5. CASE p # "Loaded"
  <2>1. palette' = palette
    BY <1>3, <1>5
  <2>2. ASSUME ~paletteLost PROVE PaletteMatches'
    <3>1. PaletteMatches
      BY <2>2 DEF PalettesAgree
    <3>2. "palette" \in overlooked' <=> ("palette" \in overlooked \/ (palette = EmptyPalette /\ paletteFile # Absent))
      BY <1>3, <1>5
    <3>3. paletteFile = Absent \/ "palette" \in overlooked' => ActiveLabels(palette) = {}
      BY <3>1, <3>2, EmptyPaletteOK DEF PaletteMatches
    <3>4. paletteFile = Absent => Labels(paletteStored) = {}
      BY EmptyPaletteOK DEF paletteStored
    <3>5. ASSUME MayEdit', paletteFile # Absent, "palette" \notin overlooked'
          PROVE  Labels(paletteStored) \subseteq Labels(palette) /\ ActiveLabels(palette) \subseteq Labels(paletteStored)
      <4>1. palette # EmptyPalette /\ "palette" \notin overlooked
        BY <3>2, <3>5
      <4>2. MayEdit
        BY <1>3, <3>5, <4>1 DEF MayEdit, PalettesAgree
      <4> QED BY <3>1, <4>1, <4>2 DEF PaletteMatches
    <3> QED BY <1>1, <2>1, <3>3, <3>4, <3>5 DEF PaletteMatches
  <2> QED BY <1>1, <1>2, <2>1, <2>2 DEF PalettesAgree
<1> QED BY <1>1, <1>4, <1>5

(* No step takes a label from those the card knows, and none offers one    *)
(* the card does not know.                                                 *)
LEMMA PaletteSteps ==
  ASSUME PalettesAgree, Next PROVE PalettesAgree' /\ Known \subseteq Known'
<1>1. ASSUME NEW pub \in Pub, openPublication(pub) PROVE PalettesAgree' /\ Known \subseteq Known'
  BY <1>1, PaletteOpened
<1>2. ASSUME NEW name \in Name, addTagName(name) PROVE PalettesAgree' /\ Known \subseteq Known'
  <2> DEFINE added == addName(palette, name)
  <2>1. /\ PaletteOK(added.palette) /\ Labels(palette) \subseteq Labels(added.palette)
        /\ \A t \in ActiveLabels(added.palette) : t \in ActiveLabels(palette) \/ t.id = added.id
        /\ activeCount(added.palette) = activeCount(palette) => ActiveLabels(added.palette) = ActiveLabels(palette)
    BY <1>2, Adding DEF PalettesAgree
  <2>2. MayEdit /\ UNCHANGED <<openPub, saveDisabled>>
    BY <1>2 DEF addTagName, session
  <2>3. CASE activeCount(added.palette) = activeCount(palette)
    <3>1. palette' = added.palette /\ UNCHANGED <<paletteFile, paletteLost, overlooked>>
      BY <1>2, <2>3 DEF addTagName, files
    <3>2. paletteStored' = paletteStored /\ Known' = Known
      BY <3>1 DEF paletteStored, Known
    <3> HIDE DEF added
    <3>3. PaletteMatches => PaletteMatches'
      BY <2>1, <2>2, <2>3, <3>1, <3>2 DEF PaletteMatches, MayEdit
    <3> QED BY <2>1, <2>2, <2>3, <3>1, <3>2, <3>3 DEF PalettesAgree, MayEdit
  <2>4. CASE activeCount(added.palette) # activeCount(palette)
    <3>1. PICK ok \in BOOLEAN :
             savePalette(ok, added.palette)
             /\ palette' = IF ok THEN added.palette ELSE retire(added.palette, added.id)
      BY <1>2, <2>4 DEF addTagName
    <3> HIDE DEF added
    <3>2. /\ PaletteOK(retire(added.palette, added.id))
          /\ Labels(retire(added.palette, added.id)) = Labels(added.palette)
          /\ ActiveLabels(retire(added.palette, added.id)) \subseteq ActiveLabels(palette)
      BY <2>1, Retiring
    <3> QED BY <2>1, <2>2, <3>1, <3>2, PaletteWritten
  <2> QED BY <2>3, <2>4
<1>3. ASSUME NEW id, retireTag(id) PROVE PalettesAgree' /\ Known \subseteq Known'
  <2>1. /\ PaletteOK(retire(palette, id)) /\ Labels(retire(palette, id)) = Labels(palette)
        /\ ActiveLabels(retire(palette, id)) \subseteq ActiveLabels(palette)
    BY Retiring DEF PalettesAgree
  <2>2. MayEdit /\ UNCHANGED <<openPub, saveDisabled>> /\ palette' = retire(palette, id)
    BY <1>3 DEF retireTag, session
  <2>3. PICK ok \in BOOLEAN : savePalette(ok, retire(palette, id))
    BY <1>3 DEF retireTag
  <2> QED BY <2>1, <2>2, <2>3, PaletteWritten
<1>4. CASE PowerLoss
  <2>1. /\ palette' = EmptyPalette /\ openPub' = Absent /\ overlooked' = {} /\ ~MayEdit'
        /\ paletteFile' \in {paletteFile, Absent}
        /\ paletteLost' = (paletteLost \/ paletteFile' # paletteFile)
    BY <1>4 DEF PowerLoss, memoryLost, cutShort, AfterCut, MayEdit
  <2>2. ActiveLabels(palette') = {} /\ PaletteOK(palette')
    BY <2>1, EmptyPaletteOK
  <2>3. PalettesAgree'
    BY <2>1, <2>2 DEF PalettesAgree, PaletteMatches
  <2>4. CASE paletteFile' = paletteFile
    BY <2>1, <2>3, <2>4 DEF Known, paletteStored, PalettesAgree
  <2>5. CASE paletteFile' # paletteFile
    BY <2>1, <2>3, <2>5, KnownAreTags DEF Known
  <2> QED BY <2>3, <2>4, <2>5
<1>5. ASSUME PaletteKept PROVE PalettesAgree' /\ Known \subseteq Known'
  BY <1>5, PalettesUnchanged
<1>6. CASE resumePublication \/ repairTexts \/ retireFromPassages
  <2>1. CASE resumePublication
    BY <1>5, <2>1 DEF resumePublication, files, session, PaletteKept
  <2>2. CASE repairTexts
    <3>1. UNCHANGED files \/ \E ok, new : save(ok, new)
      BY <2>2 DEF repairTexts
    <3> QED BY <1>5, <2>2, <3>1, SavingPassages DEF repairTexts, files, session, PaletteKept
  <2>3. CASE retireFromPassages
    <3>1. \E ok, new : save(ok, new)
      BY <2>3 DEF retireFromPassages
    <3> QED BY <1>5, <2>3, <3>1, SavingPassages DEF retireFromPassages, session, PaletteKept
  <2> QED BY <1>6, <2>1, <2>2, <2>3
<1>7. ASSUME NEW at, NEW tags, NEW i, addPassage(at, tags) \/ removePassage(i) \/ setPassageTags(i, tags)
      PROVE  PaletteKept
  <2>1. UNCHANGED <<palette, openPub, saveDisabled>>
    BY <1>7 DEF addPassage, removePassage, setPassageTags, session
  <2>2. UNCHANGED files \/ \E ok, new : save(ok, new)
    BY <1>7 DEF addPassage, removePassage, setPassageTags
  <2> QED BY <2>1, <2>2, SavingPassages DEF files, PaletteKept
<1>8. CASE EditLinks
  <2>1. UNCHANGED <<palette, openPub, saveDisabled>>
    BY <1>8 DEF EditLinks, markLinkSource, linkMarkedSourceTo, removeLink, files, session
  <2>2. UNCHANGED files \/ \E ok, new : save(ok, new)
    BY <1>8 DEF EditLinks, markLinkSource, linkMarkedSourceTo, removeLink
  <2>3. PaletteKept
    BY <2>1, <2>2, SavingPassages DEF files, PaletteKept
  <2> QED BY <2>3, <1>5
<1>9. CASE EditTagsAndPassages
  BY <1>9, <1>2, <1>3, <1>5, <1>6, <1>7 DEF EditTagsAndPassages
<1> QED BY <1>1, <1>4, <1>6, <1>8, <1>9 DEF Next

-----------------------------------------------------------------------------
(* An edit keeps every row; it saves, and stays in memory only if it was   *)
(* saved.                                                                  *)
Edited(T) ==
    MayEdit /\ \E new \in Seq(T), ok \in BOOLEAN :
        Grows(passages, new) /\ save(ok, new) /\ passages' = IF ok THEN new ELSE passages

(* A retired tag goes from memory whether the save worked or not. *)
Dropped(T) ==
    MayEdit /\ \E new \in Seq(T), ok \in BOOLEAN :
        SameRows(passages, new) /\ save(ok, new) /\ passages' = new

(* A removal that was not saved puts the passage back at the end. *)
Removed(i) ==
    MayEdit /\ \E ok \in BOOLEAN :
        /\ save(ok, RemoveAt(passages, i))
        /\ \/ ok /\ passages' = RemoveAt(passages, i)
           \/ ~ok /\ passages' = Append(RemoveAt(passages, i), passages[i])
           \/ ~ok /\ MemoryMayRunOut /\ passages' = RemoveAt(passages, i)

(* Passages and file stay, and whether the file was seen. *)
PassagesKept ==
    UNCHANGED <<passageFile, passages>> /\ ("passages" \in overlooked' <=> "passages" \in overlooked)

(* Replacing a row by one of the same place and text keeps the rows. *)
LEMMA SamePlaceGrows ==
  ASSUME NEW known, NEW own, NEW i \in 1..Len(passages), passages \in Seq(Sound(known, own)),
         NEW p, p.at = passages[i].at, p.text = passages[i].text
  PROVE  Grows(passages, [passages EXCEPT ![i] = p])
BY DEF Grows

(* The picker offers known labels. *)
LEMMA PickedAreKnown ==
  ASSUME NEW known, PaletteOK(palette), ActiveLabels(palette) \subseteq known, NEW tags \in PickedTags
  PROVE  tags \subseteq known /\ tags \in SUBSET Tag
<1>1. tags \subseteq Picked
  BY DEF PickedTags
<1>2. Picked = ActiveLabels(palette)
  BY DEF Picked, activeEntries, ActiveLabels, Active, Label
<1> QED BY <1>1, <1>2, LabelsAreTags

(* repairTexts is an edit that keeps every row, or nothing. *)
LEMMA RepairEdits ==
  ASSUME NEW known, NEW own, Consistent(known, own), repairTexts
  PROVE  Edited(Sound(known, own)) \/ PassagesKept
<1>1. PICK rows \in SUBSET rebuildable :
         LET rebuilt == setWholeTexts(passages, rows, book)
         IN  /\ saveDisabled => rows = {}
             /\ \/ rows = {} /\ UNCHANGED <<files, passages>>
                \/ rows # {} /\ \E ok \in BOOLEAN :
                       save(ok, rebuilt) /\ passages' = IF ok THEN rebuilt ELSE passages
  BY DEF repairTexts
<1> DEFINE new == setWholeTexts(passages, rows, book)
<1>2. SUFFICES ASSUME rows # {} PROVE Edited(Sound(known, own))
  BY <1>1 DEF files, PassagesKept
<1>3. MayEdit /\ book \in Edition
  BY <1>1, <1>2 DEF MayEdit, Consistent, SessionAgrees, repairTexts
<1>4. passages \in Seq(Sound(known, own)) /\ DOMAIN passages = 1..Len(passages)
  BY DEF Consistent
<1>5. ASSUME NEW i \in rows
      PROVE  i \in 1..Len(passages) /\ passages[i].text = Unknown /\ (own => passages[i].of = book)
  <2>1. i \in 1..Len(passages) /\ passages[i].text = Unknown /\ ~mismatch(passages[i])
    BY <1>4 DEF rebuildable
  <2>2. passages[i] \in Sound(known, own)
    BY <1>4, <2>1, ElementOfSeq
  <2>3. own => passages[i].of \in Edition
    BY <2>2, PassageIs
  <2>4. own => ~UnitMayFail
    BY DEF Consistent
  <2> QED BY <2>1, <2>3, <2>4, UnknownIsNoEdition DEF mismatch, otherText
<1>6. rows \in SUBSET (1..Len(passages))
  BY <1>5
<1>7. /\ new \in Seq(Sound(known, own)) /\ Len(new) = Len(passages)
      /\ \A i \in 1..Len(passages) : new[i].at = passages[i].at
                                     /\ (passages[i].text # Unknown => new[i].text # Unknown)
  <2>1. book \in Edition /\ passages \in Seq(Sound(known, own))
    BY <1>3, <1>4
  <2>2. \A i \in rows : passages[i].text = Unknown /\ (own => passages[i].of = book)
    BY <1>5
  <2> QED BY <2>1, <2>2, <1>6, Rebuilt
<1>8. Grows(passages, new)
  BY <1>4, <1>7 DEF Grows
<1> QED BY <1>1, <1>2, <1>3, <1>7, <1>8 DEF Edited

(* retireFromPassages drops a tag and keeps every row. *)
LEMMA RetireDrops ==
  ASSUME NEW known, NEW own, Consistent(known, own), retireFromPassages PROVE Dropped(Sound(known, own))
<1> DEFINE new == removeTagEverywhere(passages, retiring)
<1>1. new \in Seq(Sound(known, own)) /\ SameRows(passages, new)
  BY Untagged DEF Consistent, SameRows
<1>2. MayEdit
  BY DEF Consistent, SessionAgrees, retireFromPassages
<1> QED BY <1>1, <1>2 DEF retireFromPassages, Dropped

(* addPassage is an edit that keeps every row, or is refused. *)
LEMMA AddEdits ==
  ASSUME NEW known, NEW own, Consistent(known, own), NEW at \in Place, NEW tags \in PickedTags,
         addPassage(at, tags)
  PROVE  Edited(Sound(known, own)) \/ PassagesKept
<1> DEFINE p == [at |-> at, tags |-> tags, links |-> <<>>, of |-> book, text |-> book]
           added == addTo(passages, p)
<1>1. MayEdit /\ book \in Edition /\ passages \in Seq(Sound(known, own))
  BY DEF addPassage, MayEdit, Consistent, SessionAgrees
<1>2. tags \subseteq known /\ tags \in SUBSET Tag
  BY PickedAreKnown, <1>1 DEF Consistent
<1>3. p \in Sound(known, own)
  <2>1. p \in Passage
    BY <1>1, <1>2 DEF Passage
  <2>2. CleanLinks(<<>>, at)
    BY LinksAreBounded DEF CleanLinks
  <2> QED BY <1>1, <1>2, <2>1, <2>2 DEF Sound
<1>4. added = Append(passages, p)
  BY <1>3, AddToIs
<1> HIDE DEF p
<1>5. /\ added \in Seq(Sound(known, own)) /\ Len(added) = Len(passages) + 1
      /\ \A i \in 1..Len(passages) : added[i] = passages[i]
  BY <1>1, <1>3, <1>4, AppendProperties
<1>6. AdditionUndone(added) = passages
  <2>1. Len(added) \in Nat /\ Len(added) \in 1..Len(added) /\ Len(added) - 1 = Len(passages) /\ Len(passages) \in Nat
    BY <1>1, <1>5
  <2> HIDE DEF added
  <2>2. /\ RemoveAt(added, Len(added)) \in Seq(Sound(known, own))
        /\ Len(RemoveAt(added, Len(added))) = Len(added) - 1
        /\ \A j \in 1..(Len(added) - 1) :
              RemoveAt(added, Len(added))[j] = IF j < Len(added) THEN added[j] ELSE added[j + 1]
    BY <1>5, <2>1, RemoveAtIs
  <2>3. \A j \in 1..Len(passages) : RemoveAt(added, Len(added))[j] = passages[j]
    BY <1>5, <2>1, <2>2
  <2>4. RemoveAt(added, Len(added)) = passages
    BY <1>1, <2>1, <2>2, <2>3, SeqEqual
  <2> QED BY <2>4 DEF AdditionUndone, removeAt
<1>7. Grows(passages, added)
  BY <1>1, <1>5 DEF Grows
<1>8. \/ UNCHANGED <<files, passages>>
      \/ \E ok \in BOOLEAN : save(ok, added) /\ passages' = IF ok THEN added ELSE AdditionUndone(added)
  BY DEF addPassage, p
<1> QED BY <1>1, <1>5, <1>6, <1>7, <1>8 DEF Edited, files, PassagesKept

(* setPassageTags is an edit that keeps every row. *)
LEMMA RetagEdits ==
  ASSUME NEW known, NEW own, Consistent(known, own), NEW i \in DOMAIN passages,
         NEW tags \in PickedTags, setPassageTags(i, tags)
  PROVE  Edited(Sound(known, own))
<1> DEFINE changed == setTags(passages, i, tags)
<1>1. MayEdit /\ passages \in Seq(Sound(known, own)) /\ i \in 1..Len(passages)
  BY DEF setPassageTags, Consistent
<1>2. tags \subseteq known /\ tags \in SUBSET Tag
  BY PickedAreKnown, <1>1 DEF Consistent
<1>3. /\ changed \in Seq(Sound(known, own)) /\ changed = [passages EXCEPT ![i] = [passages[i] EXCEPT !.tags = tags]]
      /\ setTags(changed, i, passages[i].tags) = passages
  BY <1>1, <1>2, Retagged
<1>4. Grows(passages, changed)
  <2>1. passages[i] \in Passage
    BY <1>1, ElementOfSeq DEF Sound
  <2> DEFINE q == [passages[i] EXCEPT !.tags = tags]
  <2>2. q.at = passages[i].at /\ q.text = passages[i].text
    BY <2>1 DEF Passage
  <2> HIDE DEF q
  <2>3. Grows(passages, [passages EXCEPT ![i] = q])
    BY <1>1, <2>2, SamePlaceGrows
  <2> QED BY <1>3, <2>3 DEF q
<1>5. \E ok \in BOOLEAN : save(ok, changed) /\ passages' = IF ok THEN changed ELSE setTags(changed, i, passages[i].tags)
  BY DEF setPassageTags
<1> QED BY <1>1, <1>3, <1>4, <1>5 DEF Edited

(* linkMarkedSourceTo is an edit that keeps every row, or is refused. *)
LEMMA LinkEdits ==
  ASSUME NEW known, NEW own, Consistent(known, own), NEW t \in DOMAIN passages, linkMarkedSourceTo(t)
  PROVE  Edited(Sound(known, own)) \/ PassagesKept
<1> DEFINE linked == link(passages, linkSource, t)
<1>1. SUFFICES ASSUME linkResult(passages, linkSource, t) = "Linked" PROVE Edited(Sound(known, own))
  BY DEF linkMarkedSourceTo, files, PassagesKept
<1>2. MayEdit /\ passages \in Seq(Sound(known, own)) /\ t \in 1..Len(passages) /\ linkSource \in 1..Len(passages)
  BY DEF linkMarkedSourceTo, Consistent, SourceIsMarked
<1>3. /\ linked \in Seq(Sound(known, own))
      /\ linked = [passages EXCEPT ![linkSource] = [passages[linkSource] EXCEPT !.links = Append(@, passages[t].at)]]
      /\ removeLinkAt(linked, linkSource, Len(linked[linkSource].links)) = passages
  BY <1>1, <1>2, LinkedTo
<1>4. Grows(passages, linked)
  <2>1. passages[linkSource] \in Passage
    BY <1>2, ElementOfSeq DEF Sound
  <2> DEFINE q == [passages[linkSource] EXCEPT !.links = Append(@, passages[t].at)]
  <2>2. q.at = passages[linkSource].at /\ q.text = passages[linkSource].text
    BY <2>1 DEF Passage
  <2> HIDE DEF q
  <2>3. Grows(passages, [passages EXCEPT ![linkSource] = q])
    BY <1>2, <2>2, SamePlaceGrows
  <2> QED BY <1>3, <2>3 DEF q
<1>5. \E ok \in BOOLEAN :
         save(ok, linked)
         /\ passages' = IF ok THEN linked ELSE removeLinkAt(linked, linkSource, Len(linked[linkSource].links))
  BY <1>1 DEF linkMarkedSourceTo
<1> QED BY <1>2, <1>3, <1>4, <1>5 DEF Edited

(* removeLink is an edit that keeps every row. *)
LEMMA UnlinkEdits ==
  ASSUME NEW known, NEW own, Consistent(known, own), NEW i \in DOMAIN passages,
         NEW l \in DOMAIN passages[i].links, removeLink(i, l)
  PROVE  Edited(Sound(known, own))
<1> DEFINE changed == removeLinkAt(passages, i, l)
<1>1. MayEdit /\ passages \in Seq(Sound(known, own)) /\ i \in 1..Len(passages)
  BY DEF removeLink, Consistent
<1>2. /\ changed \in Seq(Sound(known, own))
      /\ changed = [passages EXCEPT ![i] = [passages[i] EXCEPT !.links = RemoveAt(@, l)]]
      /\ setLinks(changed, i, passages[i].links) = passages
  BY <1>1, Unlinked
<1>3. Grows(passages, changed)
  <2>1. passages[i] \in Passage
    BY <1>1, ElementOfSeq DEF Sound
  <2> DEFINE q == [passages[i] EXCEPT !.links = RemoveAt(@, l)]
  <2>2. q.at = passages[i].at /\ q.text = passages[i].text
    BY <2>1 DEF Passage
  <2> HIDE DEF q
  <2>3. Grows(passages, [passages EXCEPT ![i] = q])
    BY <1>1, <2>2, SamePlaceGrows
  <2> QED BY <1>2, <2>3 DEF q
<1>4. \E ok \in BOOLEAN : save(ok, changed) /\ passages' = IF ok THEN changed ELSE setLinks(changed, i, passages[i].links)
  BY DEF removeLink
<1> QED BY <1>1, <1>2, <1>3, <1>4 DEF Edited

(* removePassage removes a row, or moves it to the end. *)
LEMMA RemoveRemoves ==
  ASSUME NEW known, NEW own, Consistent(known, own), NEW i \in DOMAIN passages, removePassage(i)
  PROVE  Removed(i)
<1>1. passages \in Seq(Sound(known, own)) /\ passages[i] \in Sound(known, own)
  BY ElementOfSeq DEF Consistent
<1>2. addTo(RemoveAt(passages, i), passages[i]) = Append(RemoveAt(passages, i), passages[i])
  BY <1>1, AddToIs
<1> QED BY <1>2 DEF removePassage, removeAt, Removed

-----------------------------------------------------------------------------
MarkKept == UNCHANGED <<linkSource, marked>>

(* Saving the palette leaves the passages alone. *)
LEMMA SavingPalette ==
  ASSUME NEW ok, NEW new, savePalette(ok, new)
  PROVE  UNCHANGED passageFile /\ ("passages" \in overlooked' <=> "passages" \in overlooked)
BY DEF savePalette, seen

(* What a step can do to the passages and the mark, in five kinds. *)
LEMMA StepKinds ==
  ASSUME NEW known, NEW own, Consistent(known, own), Next
  PROVE  \/ \E pub \in Pub : openPublication(pub)
         \/ PowerLoss
         \/ /\ UNCHANGED session
            /\ \/ Edited(Sound(known, own)) /\ MarkKept
               \/ Dropped(Sound(known, own)) /\ MarkKept
               \/ \E i \in DOMAIN passages : removePassage(i) /\ Removed(i) /\ linkSource' = 0
               \/ PassagesKept /\ (MarkKept \/ linkSource' = 0)
               \/ \E i \in DOMAIN passages : markLinkSource(i)
<1>1. CASE resumePublication
  BY <1>1 DEF resumePublication, files, PassagesKept
<1>2. CASE repairTexts
  BY <1>2, RepairEdits DEF repairTexts, MarkKept
<1>3. ASSUME NEW name, addTagName(name) PROVE UNCHANGED session /\ PassagesKept /\ MarkKept
  <2>1. UNCHANGED <<passages, linkSource, marked, session>>
    BY <1>3 DEF addTagName
  <2>2. UNCHANGED files \/ \E ok, new : savePalette(ok, new)
    BY <1>3 DEF addTagName
  <2> QED BY <2>1, <2>2, SavingPalette DEF files, PassagesKept, MarkKept
<1>4. ASSUME NEW id, retireTag(id) PROVE UNCHANGED session /\ PassagesKept /\ MarkKept
  <2>1. UNCHANGED <<passages, linkSource, marked, session>>
    BY <1>4 DEF retireTag
  <2>2. \E ok, new : savePalette(ok, new)
    BY <1>4 DEF retireTag
  <2> QED BY <2>1, <2>2, SavingPalette DEF PassagesKept, MarkKept
<1>5. CASE retireFromPassages
  BY <1>5, RetireDrops DEF retireFromPassages, MarkKept
<1>6. ASSUME NEW at \in Place, NEW tags \in PickedTags, addPassage(at, tags)
      PROVE  UNCHANGED session /\ MarkKept /\ (Edited(Sound(known, own)) \/ PassagesKept)
  BY <1>6, AddEdits DEF addPassage, MarkKept
<1>7. ASSUME NEW i \in DOMAIN passages, removePassage(i)
      PROVE  UNCHANGED session /\ Removed(i) /\ linkSource' = 0
  BY <1>7, RemoveRemoves DEF removePassage, SourceForgotten
<1>8. ASSUME NEW i \in DOMAIN passages, NEW tags \in PickedTags, setPassageTags(i, tags)
      PROVE  UNCHANGED session /\ MarkKept /\ Edited(Sound(known, own))
  BY <1>8, RetagEdits DEF setPassageTags, MarkKept
<1>9. ASSUME NEW i \in DOMAIN passages, markLinkSource(i) PROVE UNCHANGED session
  BY <1>9 DEF markLinkSource
<1>10. ASSUME NEW t \in DOMAIN passages, linkMarkedSourceTo(t)
       PROVE  UNCHANGED session /\ MarkKept /\ (Edited(Sound(known, own)) \/ PassagesKept)
  BY <1>10, LinkEdits DEF linkMarkedSourceTo, MarkKept
<1>11. ASSUME NEW i \in DOMAIN passages, NEW l \in DOMAIN passages[i].links, removeLink(i, l)
       PROVE  UNCHANGED session /\ MarkKept /\ Edited(Sound(known, own))
  BY <1>11, UnlinkEdits DEF removeLink, MarkKept
<1>12. CASE EditLinks
  BY <1>9, <1>10, <1>11, <1>12 DEF EditLinks
<1>13. CASE EditTagsAndPassages
  BY <1>3, <1>4, <1>5, <1>6, <1>7, <1>8, <1>13 DEF EditTagsAndPassages
<1> QED BY <1>1, <1>2, <1>12, <1>13 DEF Next

(* A save leaves the new document, the old one or none, of the open        *)
(* publication alone; a new one fits, and a failure loses the old one only *)
(* by its rename or when the file was taken for none.                      *)
LEMMA SaveKeeps ==
  ASSUME NEW known, NEW own, FilesLoad(Sound(known, own)), openPub \in Pub,
         NEW new \in Seq(Sound(known, own)), NEW ok \in BOOLEAN, save(ok, new)
  PROVE  /\ passageFile' \in [Pub -> Seq(Sound(known, own)) \cup {Absent}]
         /\ \A pub \in Pub : passageFile'[pub] \in {passageFile[pub], Absent} \/ fits(passageFile'[pub])
         /\ \A pub \in Pub : pub # openPub => passageFile'[pub] = passageFile[pub]
         /\ ok => passageFile'[openPub] = new /\ "passages" \notin overlooked'
         /\ ~ok => overlooked' = overlooked
         /\ ~ok /\ ~RenameMayFail /\ "passages" \notin overlooked => passageFile' = passageFile
<1>1. PICK content :
         /\ passageFile' = [passageFile EXCEPT ![openPub] = content]
         /\ content \in {passageFile[openPub], Absent} \/ (content = new /\ fits(new))
         /\ ok => content = new
         /\ ~ok /\ ~RenameMayFail /\ "passages" \notin overlooked => content = passageFile[openPub]
  <2>1. CASE ok
    BY <2>1 DEF save, withinBudget
  <2>2. CASE ~ok /\ UNCHANGED passageFile
    BY <2>2 DEF FilesLoad
  <2>3. CASE ~ok /\ withinBudget(new)
    <3>1. PICK content \in AfterFailure(passageFile[openPub], new, "passages" \in overlooked) :
             passageFile' = [passageFile EXCEPT ![openPub] = content]
      BY <2>3 DEF save
    <3>2. content \in {passageFile[openPub], Absent, new}
      BY <3>1 DEF AfterFailure, AfterCut
    <3>3. ~RenameMayFail /\ "passages" \notin overlooked => content = passageFile[openPub]
      BY <3>1 DEF AfterFailure, AfterCut
    <3> QED BY <2>3, <3>1, <3>2, <3>3 DEF withinBudget
  <2> QED BY <2>1, <2>2, <2>3 DEF save
<1>2. (ok => "passages" \notin overlooked') /\ (~ok => overlooked' = overlooked)
  BY DEF save, seen
<1> QED BY <1>1, <1>2 DEF FilesLoad

(* A power loss leaves each file, or none where one was being saved over.  *)
LEMMA CutKeeps ==
  ASSUME NEW T, FilesLoad(T), NEW p, NEW missed, cutShort(p, missed)
  PROVE  /\ passageFile' \in [Pub -> Seq(T) \cup {Absent}]
         /\ \A pub \in Pub : \/ passageFile'[pub] = passageFile[pub]
                             \/ passageFile'[pub] = Absent /\ pub = p /\ "passages" \in missed
<1>1. \/ passageFile' = passageFile
      \/ passageFile' = [passageFile EXCEPT ![p] = Absent] /\ "passages" \in missed
  BY DEF cutShort
<1> QED BY <1>1 DEF FilesLoad

(* A document without a row, or with it at the end, is made of the same    *)
(* passages.                                                               *)
LEMMA PassagesInRemoved ==
  ASSUME NEW known, NEW own, passages \in Seq(Sound(known, own)), NEW i \in DOMAIN passages
  PROVE  RemoveAt(passages, i) \in Seq(Sound(known, own))
         /\ Append(RemoveAt(passages, i), passages[i]) \in Seq(Sound(known, own))
<1>1. i \in 1..Len(passages)
  OBVIOUS
<1>2. RemoveAt(passages, i) \in Seq(Sound(known, own))
  BY <1>1, RemoveAtIs
<1>3. passages[i] \in Sound(known, own)
  BY <1>1, ElementOfSeq
<1> QED BY <1>2, <1>3, AppendProperties

(* Memory and files stay made of sound passages, and what is written fits. *)
LEMMA DocumentSteps ==
  ASSUME NEW known, NEW own, Consistent(known, own), Next
  PROVE  /\ passages' \in Seq(Sound(known, own))
         /\ passageFile' \in [Pub -> Seq(Sound(known, own)) \cup {Absent}]
         /\ \A pub \in Pub : passageFile'[pub] \in {passageFile[pub], Absent} \/ fits(passageFile'[pub])
<1>1. ASSUME NEW pub \in Pub, openPublication(pub)
      PROVE  passageFile' = passageFile /\ passages' \in Seq(Sound(known, own))
  <2>1. passageFile' = passageFile /\ ((passages' = passageFile[pub] /\ passageFile[pub] # Absent) \/ passages' = <<>>)
    BY <1>1 DEF openPublication, AdoptedLoad, NoPassages
  <2>2. passageFile[pub] \in Seq(Sound(known, own)) \cup {Absent}
    BY DEF Consistent, FilesLoad
  <2>3. <<>> \in Seq(Sound(known, own))
    OBVIOUS
  <2> QED BY <2>1, <2>2, <2>3
<1>2. CASE PowerLoss
  <2>1. passages' = <<>> /\ cutShort(openPub, savedOver)
    BY <1>2 DEF PowerLoss, memoryLost, NoPassages
  <2>2. FilesLoad(Sound(known, own))
    BY DEF Consistent
  <2>3. <<>> \in Seq(Sound(known, own))
    OBVIOUS
  <2> QED BY <2>1, <2>2, <2>3, CutKeeps
<1>3. MayEdit => openPub \in Pub
  BY DEF MayEdit, Consistent, SessionAgrees
<1>4. CASE Edited(Sound(known, own))
  <2>1. PICK new \in Seq(Sound(known, own)), ok \in BOOLEAN : save(ok, new) /\ passages' = IF ok THEN new ELSE passages
    BY <1>4 DEF Edited
  <2>2. openPub \in Pub
    BY <1>3, <1>4 DEF Edited
  <2> QED BY <2>1, <2>2, SaveKeeps DEF Consistent
<1>5. CASE Dropped(Sound(known, own))
  <2>1. PICK new \in Seq(Sound(known, own)), ok \in BOOLEAN : save(ok, new) /\ passages' = new
    BY <1>5 DEF Dropped
  <2>2. openPub \in Pub
    BY <1>3, <1>5 DEF Dropped
  <2> QED BY <2>1, <2>2, SaveKeeps DEF Consistent
<1>6. ASSUME NEW i \in DOMAIN passages, Removed(i)
      PROVE  /\ passages' \in Seq(Sound(known, own))
             /\ passageFile' \in [Pub -> Seq(Sound(known, own)) \cup {Absent}]
             /\ \A pub \in Pub : passageFile'[pub] \in {passageFile[pub], Absent} \/ fits(passageFile'[pub])
  <2>1. /\ RemoveAt(passages, i) \in Seq(Sound(known, own))
        /\ Append(RemoveAt(passages, i), passages[i]) \in Seq(Sound(known, own))
    BY PassagesInRemoved DEF Consistent
  <2>2. PICK ok \in BOOLEAN : save(ok, RemoveAt(passages, i))
    BY <1>6 DEF Removed
  <2>3. openPub \in Pub
    BY <1>3, <1>6 DEF Removed
  <2> QED BY <1>6, <2>1, <2>2, <2>3, SaveKeeps DEF Consistent, Removed
<1>7. CASE PassagesKept
  BY <1>7 DEF PassagesKept, Consistent, FilesLoad
<1>8. ASSUME NEW i, markLinkSource(i) PROVE PassagesKept
  BY <1>8 DEF markLinkSource, files, PassagesKept
<1>9. passageFile' = passageFile => /\ passageFile' \in [Pub -> Seq(Sound(known, own)) \cup {Absent}]
                                    /\ \A pub \in Pub : passageFile'[pub] \in {passageFile[pub], Absent} \/ fits(passageFile'[pub])
  BY DEF Consistent, FilesLoad
<1> QED BY <1>1, <1>2, <1>4, <1>5, <1>6, <1>7, <1>8, <1>9, StepKinds

(* Every step keeps SessionAgrees. *)
LEMMA SessionSteps ==
  ASSUME SessionAgrees, Next PROVE SessionAgrees'
<1>1. ASSUME NEW pub \in Pub, openPublication(pub) PROVE SessionAgrees'
  BY <1>1, AbsentIsNoFile DEF openPublication, SessionAgrees, MayEdit, Idle
<1>2. CASE PowerLoss
  BY <1>2 DEF PowerLoss, memoryLost, SessionAgrees, MayEdit
<1>3. CASE UNCHANGED session /\ (opened' => opened \/ openPub # Absent) /\ (retiring' # NoId => retiring # NoId \/ MayEdit)
  BY <1>3 DEF session, SessionAgrees, MayEdit
<1>4. CASE resumePublication \/ repairTexts \/ retireFromPassages
  BY <1>3, <1>4 DEF resumePublication, repairTexts, retireFromPassages
<1>5. ASSUME NEW x, NEW y,
             addTagName(x) \/ retireTag(x) \/ addPassage(x, y) \/ removePassage(x) \/ setPassageTags(x, y)
      PROVE  SessionAgrees'
  BY <1>3, <1>5 DEF addTagName, retireTag, addPassage, removePassage, setPassageTags, steps
<1>6. ASSUME NEW x, NEW y, markLinkSource(x) \/ linkMarkedSourceTo(x) \/ removeLink(x, y)
      PROVE  SessionAgrees'
  BY <1>3, <1>6 DEF markLinkSource, linkMarkedSourceTo, removeLink, steps
<1> QED BY <1>1, <1>2, <1>4, <1>5, <1>6 DEF Next, EditTagsAndPassages, EditLinks

(* A step that moves a row forgets the mark; one that does not keeps it on *)
(* the same place.                                                         *)
LEMMA MarkSteps ==
  ASSUME NEW known, NEW own, Consistent(known, own), Next PROVE SourceIsMarked'
<1>1. ASSUME linkSource' = 0 PROVE SourceIsMarked'
  BY <1>1 DEF SourceIsMarked
<1>2. ASSUME MarkKept, Len(passages) <= Len(passages'), Len(passages) \in Nat, Len(passages') \in Nat,
             \A i \in 1..Len(passages) : passages'[i].at = passages[i].at
      PROVE  SourceIsMarked'
  BY <1>2 DEF MarkKept, SourceIsMarked, Consistent
<1>3. passages \in Seq(Sound(known, own))
  BY DEF Consistent
<1>4. CASE Edited(Sound(known, own)) /\ MarkKept
  <2>1. PICK new \in Seq(Sound(known, own)), ok \in BOOLEAN : Grows(passages, new) /\ passages' = IF ok THEN new ELSE passages
    BY <1>4 DEF Edited
  <2> QED BY <1>2, <1>3, <1>4, <2>1 DEF Grows
<1>5. CASE Dropped(Sound(known, own)) /\ MarkKept
  <2>1. PICK new \in Seq(Sound(known, own)) : SameRows(passages, new) /\ passages' = new
    BY <1>5 DEF Dropped
  <2> QED BY <1>2, <1>3, <1>5, <2>1 DEF SameRows
<1>6. CASE UNCHANGED passages /\ MarkKept
  BY <1>2, <1>3, <1>6
<1>7. ASSUME NEW i \in DOMAIN passages, markLinkSource(i) PROVE SourceIsMarked'
  BY <1>3, <1>7 DEF markLinkSource, SourceIsMarked
<1>8. (\E pub \in Pub : openPublication(pub)) \/ PowerLoss => linkSource' = 0
  BY DEF openPublication, PowerLoss, memoryLost
<1> QED BY <1>1, <1>4, <1>5, <1>6, <1>7, <1>8, StepKinds DEF PassagesKept

(* With more labels on the card, more passages are sound. *)
LEMMA SoundGrows ==
  ASSUME Known \subseteq Known' PROVE SoundNow \subseteq SoundNow' /\ Seq(SoundNow) \subseteq Seq(SoundNow')
<1>1. SoundNow \subseteq SoundNow'
  BY DEF SoundNow, Sound, OwnTexts
<1> QED BY <1>1, SeqMonotonic

(* The parts of the invariant. *)
LEMMA IInvHolds ==
  ASSUME IInv
  PROVE  /\ PalettesAgree /\ SessionAgrees /\ SourceIsMarked
         /\ passages \in Seq(SoundNow) /\ FilesLoad(SoundNow) /\ FilesFit
         /\ \A pub \in Pub : stored(pub) \in Seq(SoundNow)
<1>1. /\ PalettesAgree /\ SessionAgrees /\ SourceIsMarked
      /\ passages \in Seq(SoundNow) /\ FilesLoad(SoundNow) /\ FilesFit
  BY DEF IInv, Consistent, SoundNow
<1> QED BY <1>1 DEF FilesLoad, stored, NoPassages

(* A new device, or one with the files of an older build, satisfies the    *)
(* invariant.                                                              *)
LEMMA InitIInv == Init => IInv
<1> SUFFICES ASSUME Init PROVE IInv
  OBVIOUS
<1>1. PalettesAgree /\ Known = {}
  BY EmptyPaletteOK DEF Init, InitAt, PalettesAgree, PaletteMatches, MayEdit, paletteStored, Known
<1>2. SessionAgrees /\ SourceIsMarked
  BY DEF Init, InitAt, SessionAgrees, SourceIsMarked, MayEdit
<1>3. ASSUME NEW at \in Place, NEW edition \in Edition PROVE OldPassage(at, edition) \in SoundNow
  <2>1. OldPassage(at, edition) \in Passage
    BY DEF OldPassage, Passage
  <2>2. CleanLinks(<<>>, at)
    BY LinksAreBounded DEF CleanLinks
  <2> QED BY <1>3, <2>1, <2>2 DEF OldPassage, SoundNow, Sound
<1>4. ASSUME NEW doc \in OldFiles PROVE doc = Absent \/ (doc \in Seq(SoundNow) /\ fits(doc))
  <2>1. SUFFICES ASSUME doc # Absent PROVE doc \in Seq(SoundNow) /\ fits(doc)
    OBVIOUS
  <2>2. PICK p \in Place, q \in Place, edition \in Edition :
           doc = <<OldPassage(p, edition), OldPassage(q, edition)>> /\ fits(doc)
    <3>1. doc \in {<<OldPassage(p, edition), OldPassage(q, edition)>> : p, q \in Place, edition \in Edition}
          /\ fits(doc)
      BY <2>1 DEF OldFiles
    <3> QED BY <3>1
  <2> QED BY <1>3, <2>2
<1>5. passageFile \in [Pub -> OldFiles] /\ passages \in Seq(SoundNow)
  BY DEF Init, InitAt, NoPassages
<1>6. FilesLoad(SoundNow) /\ FilesFit
  BY <1>4, <1>5 DEF FilesLoad, FilesFit
<1>7. PaletteOK(palette) /\ ~MayEdit
  BY <1>1 DEF PalettesAgree, Init, InitAt, MayEdit
<1> QED BY <1>1, <1>2, <1>5, <1>6, <1>7 DEF IInv, Consistent, SoundNow, OwnTexts

(* Every step keeps it. *)
LEMMA NextIInv == IInv /\ [Next]_vars => IInv'
<1> SUFFICES ASSUME IInv, [Next]_vars PROVE IInv'
  OBVIOUS
<1>1. CASE Next
  <2>1. PalettesAgree' /\ Known \subseteq Known'
    BY <1>1, PaletteSteps DEF IInv
  <2>2. Seq(SoundNow) \subseteq Seq(SoundNow')
    BY <2>1, SoundGrows
  <2>3. /\ passages' \in Seq(SoundNow)
        /\ passageFile' \in [Pub -> Seq(SoundNow) \cup {Absent}]
        /\ \A pub \in Pub : passageFile'[pub] \in {passageFile[pub], Absent} \/ fits(passageFile'[pub])
    BY <1>1, DocumentSteps DEF IInv, SoundNow
  <2>4. passages' \in Seq(SoundNow') /\ FilesLoad(SoundNow)' /\ FilesFit'
    BY <2>2, <2>3 DEF FilesLoad, FilesFit, IInv
  <2>5. SessionAgrees' /\ SourceIsMarked'
    BY <1>1, SessionSteps, MarkSteps DEF IInv, Consistent
  <2>6. PaletteOK(palette') /\ (MayEdit' => ActiveLabels(palette') \subseteq Known')
    <3>1. PaletteOK(palette')
      BY <2>1 DEF PalettesAgree
    <3> QED BY <2>1, <3>1, LabelsAreTags DEF PalettesAgree, PaletteMatches, Known
  <2>7. Consistent(Known, OwnTexts)'
    BY <2>4, <2>5, <2>6 DEF Consistent, SoundNow, OwnTexts
  <2> QED BY <2>1, <2>4, <2>7 DEF IInv
<1>2. CASE UNCHANGED vars
  BY <1>2 DEF vars, files, memory, session, steps, IInv, Consistent, PalettesAgree, PaletteMatches, SessionAgrees, FilesLoad, FilesFit, SourceIsMarked,
              SoundNow, Known, paletteStored, MayEdit, OwnTexts
<1> QED BY <1>1, <1>2

(* Every reachable state of the study store satisfies the inductive        *)
(* invariant.                                                              *)
THEOREM InvariantHolds == Spec => []IInv
<1>1. Init => IInv
  BY InitIInv
<1>2. IInv /\ [Next]_vars => IInv'
  BY NextIInv
<1> QED BY <1>1, <1>2, PTL DEF Spec

(* The file of a publication is made of sound passages. *)
LEMMA StoredIsSound ==
  ASSUME NEW known, NEW own, FilesLoad(Sound(known, own)), NEW pub \in Pub
  PROVE  stored(pub) \in Seq(Sound(known, own))
BY DEF FilesLoad, stored, NoPassages

(* Every tag of every passage, in memory and in any file, has on the card  *)
(* the name it was put on under: its id is known to the saved palette, and *)
(* an id never changes its name (TagPalette.h, StudyStore.h). So it is,    *)
(* whatever fails, until a palette that a load took for none is saved over,*)
(* or a save truncates the only copy that a failed rename left.            *)
THEOREM TagsKeep == Spec => []TagsKeepTheirMeaning
<1>1. IInv => TagsKeepTheirMeaning
  <2> SUFFICES ASSUME IInv, ~paletteLost PROVE KeepsMeaning(passages) /\ \A pub \in Pub : KeepsMeaning(stored(pub))
    BY DEF TagsKeepTheirMeaning
  <2>1. ASSUME NEW doc \in Seq(SoundNow) PROVE KeepsMeaning(doc)
    <3> SUFFICES ASSUME NEW i \in DOMAIN doc, NEW t \in doc[i].tags PROVE nameOf(paletteStored, t.id) = t.name
      BY DEF KeepsMeaning
    <3>1. doc[i] \in SoundNow
      OBVIOUS
    <3>2. t \in Labels(paletteStored)
      BY <3>1 DEF SoundNow, Sound, Known
    <3> QED BY <3>2, IInvHolds, PaletteStoredOK, NameOfLabel
  <2> QED BY <2>1, IInvHolds
<1> QED BY <1>1, InvariantHolds, PTL

(* Every saved document is one that a load accepts and need not repair. *)
THEOREM SavedLoads == Spec => []WhatIsSavedLoads
<1>1. IInv => WhatIsSavedLoads
  <2> SUFFICES ASSUME IInv, NEW pub \in Pub, passageFile[pub] # Absent PROVE DocOK(passageFile[pub])
    BY DEF WhatIsSavedLoads
  <2> DEFINE doc == passageFile[pub]
  <2>1. doc \in Seq(SoundNow) /\ fits(doc)
    BY IInvHolds DEF FilesLoad, FilesFit
  <2> HIDE DEF doc
  <2>2. ASSUME NEW i \in DOMAIN doc
        PROVE  Len(doc[i].links) <= MaxLinks /\ doc[i].links = normaliseLinks(doc[i].links, doc[i].at)
    <3>1. doc[i] \in SoundNow
      BY <2>1
    <3>2. doc[i].links \in Seq(Place) /\ CleanLinks(doc[i].links, doc[i].at)
      BY <3>1, PassageIs DEF SoundNow
    <3> QED BY <3>2, CleanStays DEF CleanLinks
  <2> QED BY <2>1, <2>2 DEF DocOK, doc
<1> QED BY <1>1, InvariantHolds, PTL

(* The marked link source stays the passage the user marked, whatever is   *)
(* added, removed or retired meanwhile.                                    *)
THEOREM SourceStaysMarked == Spec => []LinkSourceIsMarked
<1>1. IInv => LinkSourceIsMarked
  BY IInvHolds DEF SourceIsMarked, LinkSourceIsMarked
<1> QED BY <1>1, InvariantHolds, PTL

(* The whole text of a stored passage is of the edition it was marked in,  *)
(* if units can be read whenever their spans can.                          *)
THEOREM TextsStayTheirOwn ==
  ASSUME ~UnitMayFail PROVE Spec => []TextIsItsOwn
<1>1. IInv => TextIsItsOwn
  <2> SUFFICES ASSUME IInv, NEW pub \in Pub, NEW i \in DOMAIN stored(pub)
               PROVE  stored(pub)[i].text \in {Unknown, stored(pub)[i].of}
    BY DEF TextIsItsOwn
  <2>1. stored(pub)[i] \in SoundNow
    BY IInvHolds
  <2> QED BY <2>1, PassageIs DEF SoundNow, OwnTexts
<1> QED BY <1>1, InvariantHolds, PTL

-----------------------------------------------------------------------------

(* A document is no missing file. *)
LEMMA DocumentIsNoAbsence == ASSUME NEW known, NEW own, NEW doc \in Seq(Sound(known, own)) PROVE doc # Absent
<1>1. Sound(known, own) \subseteq Passage
  BY DEF Sound
<1>2. doc \in Seq(Passage)
  BY <1>1, SeqMonotonic
<1> QED BY <1>2, AbsentIsNoFile

(* Without a failing rename, a failed save changes no file that was seen,  *)
(* and one that worked changes the open publication's alone.               *)
LEMMA AfterSave ==
  ASSUME NEW known, NEW own, ~RenameMayFail, FilesLoad(Sound(known, own)), openPub \in Pub, UNCHANGED session,
         NEW new \in Seq(Sound(known, own)), NEW ok \in BOOLEAN, save(ok, new)
  PROVE  /\ openPub' = openPub /\ loadedCleanly' = loadedCleanly
         /\ ok => passageFile'[openPub] = new /\ stored(openPub)' = new /\ "passages" \notin overlooked'
         /\ ~ok => overlooked' = overlooked
         /\ \A pub \in Pub : pub # openPub \/ (~ok /\ "passages" \notin overlooked) => stored(pub)' = stored(pub)
<1>1. openPub' = openPub /\ loadedCleanly' = loadedCleanly
  BY DEF session
<1>2. /\ \A pub \in Pub : pub # openPub => passageFile'[pub] = passageFile[pub]
      /\ ok => passageFile'[openPub] = new /\ "passages" \notin overlooked'
      /\ ~ok => overlooked' = overlooked
      /\ ~ok /\ "passages" \notin overlooked => passageFile' = passageFile
  BY SaveKeeps
<1>3. new # Absent
  BY DocumentIsNoAbsence
<1> QED BY <1>1, <1>2, <1>3 DEF stored

(* doc has the passages and the texts of the file of pub, and as many of   *)
(* each.                                                                   *)
AsStored(doc, pub) ==
    \A at \in Place : Count(doc, at) = Count(stored(pub), at) /\ CountWhole(doc, at) = CountWhole(stored(pub), at)

(* doc has at least those. *)
AsMany(doc, pub) ==
    \A at \in Place : Count(stored(pub), at) <= Count(doc, at) /\ CountWhole(stored(pub), at) <= CountWhole(doc, at)

(* Some file loses a passage or a text, not being saved over. *)
Loses == \E pub \in Pub : ~AsMany(stored(pub)', pub) /\ ~(pub = openPub /\ "passages" \in savedOver)

(* A file has all of its own passages. *)
LEMMA StoredCounts ==
  ASSUME NEW known, NEW own, FilesLoad(Sound(known, own)), NEW pub \in Pub PROVE AsMany(stored(pub), pub)
<1> SUFFICES ASSUME NEW at \in Place
             PROVE  Count(stored(pub), at) <= Count(stored(pub), at)
                    /\ CountWhole(stored(pub), at) <= CountWhole(stored(pub), at)
  BY DEF AsMany
<1>1. Count(stored(pub), at) \in Nat /\ CountWhole(stored(pub), at) \in Nat
  BY StoredIsSound, CountsAre
<1> QED BY <1>1

(* Memory keeps holding the passages of the file, and only a removal takes *)
(* one from it.                                                            *)
LEMMA ResidentSteps ==
  ASSUME NEW known, NEW own, ~RenameMayFail, ~MemoryMayRunOut, Consistent(known, own), ResidentAreStored, Next
  PROVE  ResidentAreStored' /\ ((\E i \in DOMAIN passages : removePassage(i)) \/ ~Loses)
<1>1. passages \in Seq(Sound(known, own)) /\ FilesLoad(Sound(known, own))
  BY DEF Consistent
<1>2. MayEdit => /\ openPub \in Pub /\ loadedCleanly /\ savedOver = overlooked
                 /\ "passages" \notin overlooked => AsStored(passages, openPub)
  BY DEF MayEdit, savedOver, Consistent, SessionAgrees, ResidentAreStored, AsStored
<1>3. ASSUME passageFile' = passageFile PROVE ~Loses /\ \A pub \in Pub : stored(pub)' = stored(pub)
  <2>1. \A pub \in Pub : stored(pub)' = stored(pub)
    BY <1>3 DEF stored
  <2> QED BY <2>1, <1>1, StoredCounts DEF Loses
<1>4. ASSUME NEW pub \in Pub, openPublication(pub) PROVE ResidentAreStored' /\ ~Loses
  <2>1. passageFile' = passageFile
    BY <1>4 DEF openPublication
  <2>2. loadedCleanly' /\ "passages" \notin overlooked' => passages' = stored(openPub)'
    <3>1. PICK q \in AdoptedLoad(passageFile[pub]) :
             /\ passages' = IF q = "Loaded" THEN passageFile[pub] ELSE NoPassages
             /\ loadedCleanly' => q # "Failed"
             /\ "passages" \in overlooked' <=> (q = "Empty" /\ passageFile[pub] # Absent)
      <4>1. PICK p \in AdoptedLoad(paletteFile), q \in AdoptedLoad(passageFile[pub]) :
               /\ passages' = IF q = "Loaded" THEN passageFile[pub] ELSE NoPassages
               /\ loadedCleanly' = ("Failed" \notin {p, q})
               /\ overlooked' = {file \in {"palette", "passages"} :
                      \/ /\ file = "palette" /\ p # "Loaded"
                         /\ file \in overlooked \/ (palette = EmptyPalette /\ paletteFile # Absent)
                      \/ file = "passages" /\ q = "Empty" /\ passageFile[pub] # Absent}
        BY <1>4 DEF openPublication
      <4>2. "passages" \in overlooked' <=> (q = "Empty" /\ passageFile[pub] # Absent)
        BY <4>1
      <4>3. loadedCleanly' => q # "Failed"
        BY <4>1
      <4> QED BY <4>1, <4>2, <4>3
    <3>2. openPub' = pub
      BY <1>4 DEF openPublication
    <3>3. q \in {"Loaded", "Failed", "Empty"} /\ (q = "Loaded" => passageFile[pub] # Absent)
      BY DEF AdoptedLoad
    <3> QED BY <2>1, <3>1, <3>2, <3>3 DEF stored
  <2>3. ResidentAreStored'
    BY <2>2 DEF ResidentAreStored
  <2> QED BY <1>3, <2>1, <2>3
<1>5. CASE PowerLoss
  <2>1. cutShort(openPub, savedOver) /\ openPub' = Absent
    BY <1>5 DEF PowerLoss, memoryLost
  <2>2. \A pub \in Pub : \/ passageFile'[pub] = passageFile[pub]
                         \/ pub = openPub /\ "passages" \in savedOver
    BY <1>1, <2>1, CutKeeps
  <2>3. ASSUME NEW pub \in Pub, ~(pub = openPub /\ "passages" \in savedOver) PROVE AsMany(stored(pub)', pub)
    <3>1. stored(pub)' = stored(pub)
      BY <2>2, <2>3 DEF stored
    <3> QED BY <3>1, <1>1, StoredCounts
  <2> QED BY <2>1, <2>3 DEF ResidentAreStored, Loses
<1>6. CASE PassagesKept /\ UNCHANGED session
  <2>1. ResidentAreStored'
    BY <1>6 DEF PassagesKept, ResidentAreStored, stored, session
  <2> QED BY <1>3, <1>6, <2>1 DEF PassagesKept
<1>7. ASSUME NEW i \in DOMAIN passages, markLinkSource(i) PROVE PassagesKept
  BY <1>7 DEF markLinkSource, files, PassagesKept
<1>8. CASE Edited(Sound(known, own)) /\ UNCHANGED session
  <2>1. PICK new \in Seq(Sound(known, own)), ok \in BOOLEAN :
           Grows(passages, new) /\ save(ok, new) /\ passages' = IF ok THEN new ELSE passages
    BY <1>8 DEF Edited
  <2>2. /\ openPub \in Pub /\ loadedCleanly /\ savedOver = overlooked
        /\ "passages" \notin overlooked => AsStored(passages, openPub)
    BY <1>2, <1>8 DEF Edited
  <2>3. /\ openPub' = openPub
        /\ ok => stored(openPub)' = new /\ "passages" \notin overlooked'
        /\ ~ok => overlooked' = overlooked
        /\ \A pub \in Pub : pub # openPub \/ (~ok /\ "passages" \notin overlooked) => stored(pub)' = stored(pub)
    BY <1>1, <1>8, <2>1, <2>2, AfterSave
  <2>4. ResidentAreStored'
    <3>1. CASE ok
      BY <2>1, <2>3, <3>1 DEF ResidentAreStored, stored
    <3>2. CASE ~ok
      BY <2>1, <2>2, <2>3, <3>2 DEF ResidentAreStored, AsStored, stored
    <3> QED BY <3>1, <3>2
  <2>5. "passages" \notin overlooked => AsMany(new, openPub)
    BY <1>1, <2>1, <2>2, GrownCounts DEF AsMany, AsStored
  <2>6. ASSUME NEW pub \in Pub, ~(pub = openPub /\ "passages" \in savedOver) PROVE AsMany(stored(pub)', pub)
    <3>1. CASE stored(pub)' = stored(pub)
      BY <1>1, <3>1, StoredCounts
    <3>2. CASE ok /\ pub = openPub
      <4>1. stored(pub)' = new
        BY <2>3, <3>2 DEF stored
      <4> QED BY <2>2, <2>5, <2>6, <3>2, <4>1
    <3> QED BY <2>2, <2>3, <2>6, <3>1, <3>2
  <2> QED BY <2>4, <2>6 DEF Loses
<1>9. CASE Dropped(Sound(known, own)) /\ UNCHANGED session
  <2>1. PICK new \in Seq(Sound(known, own)), ok \in BOOLEAN :
           SameRows(passages, new) /\ save(ok, new) /\ passages' = new
    BY <1>9 DEF Dropped
  <2>2. /\ openPub \in Pub /\ loadedCleanly /\ savedOver = overlooked
        /\ "passages" \notin overlooked => AsStored(passages, openPub)
    BY <1>2, <1>9 DEF Dropped
  <2>3. /\ openPub' = openPub
        /\ ok => stored(openPub)' = new /\ "passages" \notin overlooked'
        /\ ~ok => overlooked' = overlooked
        /\ \A pub \in Pub : pub # openPub \/ (~ok /\ "passages" \notin overlooked) => stored(pub)' = stored(pub)
    BY <1>1, <1>9, <2>1, <2>2, AfterSave
  <2>4. "passages" \notin overlooked => AsStored(new, openPub)
    BY <1>1, <2>1, <2>2, SameCounts DEF AsStored
  <2>5. ResidentAreStored'
    <3>1. CASE ok
      BY <2>1, <2>3, <3>1 DEF ResidentAreStored, stored
    <3>2. CASE ~ok
      BY <2>1, <2>2, <2>3, <2>4, <3>2 DEF ResidentAreStored, AsStored, stored
    <3> QED BY <3>1, <3>2
  <2>6. ASSUME "passages" \notin overlooked PROVE AsMany(new, openPub)
    <3> SUFFICES ASSUME NEW at \in Place
                 PROVE  Count(stored(openPub), at) <= Count(new, at)
                        /\ CountWhole(stored(openPub), at) <= CountWhole(new, at)
      BY DEF AsMany
    <3>1. Count(new, at) \in Nat /\ CountWhole(new, at) \in Nat
      BY CountsAre
    <3> QED BY <2>4, <2>6, <3>1 DEF AsStored
  <2>7. ASSUME NEW pub \in Pub, ~(pub = openPub /\ "passages" \in savedOver) PROVE AsMany(stored(pub)', pub)
    <3>1. CASE stored(pub)' = stored(pub)
      BY <1>1, <3>1, StoredCounts
    <3>2. CASE ok /\ pub = openPub
      <4>1. stored(pub)' = new
        BY <2>3, <3>2 DEF stored
      <4> QED BY <2>2, <2>6, <2>7, <3>2, <4>1
    <3> QED BY <2>2, <2>3, <2>7, <3>1, <3>2
  <2> QED BY <2>5, <2>7 DEF Loses
<1>10. ASSUME NEW i \in DOMAIN passages, Removed(i), UNCHANGED session PROVE ResidentAreStored'
  <2> DEFINE rest == RemoveAt(passages, i)
             again == Append(rest, passages[i])
  <2>1. PICK ok \in BOOLEAN : save(ok, rest) /\ ((ok /\ passages' = rest) \/ (~ok /\ passages' = again))
    BY <1>10 DEF Removed
  <2>2. openPub \in Pub /\ loadedCleanly /\ ("passages" \notin overlooked => AsStored(passages, openPub))
    BY <1>2, <1>10 DEF Removed
  <2>3. rest \in Seq(Sound(known, own))
    BY <1>1, PassagesInRemoved
  <2>4. "passages" \notin overlooked => AsStored(again, openPub)
    BY <1>1, <2>2, MovedLast DEF AsStored
  <2> HIDE DEF rest, again
  <2>5. /\ openPub' = openPub
        /\ ok => stored(openPub)' = rest
        /\ ~ok => overlooked' = overlooked
        /\ \A pub \in Pub : pub # openPub \/ (~ok /\ "passages" \notin overlooked) => stored(pub)' = stored(pub)
    BY <1>1, <1>10, <2>1, <2>2, <2>3, AfterSave
  <2>6. CASE ok
    BY <2>1, <2>5, <2>6 DEF ResidentAreStored, stored
  <2>7. CASE ~ok
    BY <2>1, <2>2, <2>4, <2>5, <2>7 DEF ResidentAreStored, AsStored, stored
  <2> QED BY <2>6, <2>7
<1> QED BY <1>4, <1>5, <1>6, <1>7, <1>8, <1>9, <1>10, StepKinds

(* The passages in memory are those of the file, and as many, whatever load*)
(* or save fails, if the file was not taken for none, renames do not fail  *)
(* half-way and memory does not run out.                                   *)
THEOREM ResidentStayStored ==
  ASSUME ~RenameMayFail, ~MemoryMayRunOut PROVE Spec => []ResidentAreStored
<1>1. Init => ResidentAreStored
  BY DEF Init, InitAt, ResidentAreStored
<1>2. IInv /\ ResidentAreStored /\ [Next]_vars => ResidentAreStored'
  <2>1. UNCHANGED vars /\ ResidentAreStored => ResidentAreStored'
    BY DEF vars, files, memory, session, ResidentAreStored, stored
  <2> QED BY <2>1, ResidentSteps DEF IInv
<1> QED BY <1>1, <1>2, InvariantHolds, PTL DEF Spec

(* Under the same two assumptions, a stored passage or text goes only when *)
(* the user removes the passage, or from the open publication when a load  *)
(* took its file for none.                                                 *)
THEOREM NothingIsLost ==
  ASSUME ~RenameMayFail, ~MemoryMayRunOut PROVE Spec => NothingLost
<1>1. IInv /\ ResidentAreStored /\ [Next]_vars =>
         [\/ \A pub \in Pub, at \in Place :
               \/ /\ Count(stored(pub), at) <= Count(stored(pub)', at)
                  /\ CountWhole(stored(pub), at) <= CountWhole(stored(pub)', at)
               \/ pub = openPub /\ "passages" \in savedOver
          \/ \E i \in DOMAIN passages : removePassage(i)]_vars
  BY ResidentSteps DEF IInv, Loses, AsMany
<1> QED BY <1>1, InvariantHolds, ResidentStayStored, PTL DEF Spec, NothingLost

(* f is what k steps g make of x, one after the other. *)
Repeats(f, k, T, x, g) == f \in [0..k -> T] /\ f[0] = x /\ \A n \in 1..k : f[n] = g[n][f[n - 1]]

(* Steps can be repeated any number of times; stated with a function,      *)
(* because the recursive definitions of the model are functions.           *)
LEMMA RepeatedStep ==
  ASSUME NEW k \in Nat, NEW T, NEW x \in T, NEW g \in [1..k -> [T -> T]]
  PROVE  \E f : Repeats(f, k, T, x, g)
<1> SUFFICES \E f \in [0..k -> T] : f[0] = x /\ \A n \in 1..k : f[n] = g[n][f[n - 1]]
  BY DEF Repeats
<1> DEFINE Bad == {m \in Nat : m <= k /\ ~ \E f \in [0..m -> T] : f[0] = x /\ \A n \in 1..m : f[n] = g[n][f[n - 1]]}
<1>0. SUFFICES ASSUME Bad # {} PROVE FALSE
  <2>1. SUFFICES ASSUME ~ \E f \in [0..k -> T] : f[0] = x /\ \A n \in 1..k : f[n] = g[n][f[n - 1]] PROVE k \in Bad
    OBVIOUS
  <2>2. k <= k
    OBVIOUS
  <2> QED BY <2>1, <2>2
<1>1. PICK m \in Bad : \A n \in Bad : m <= n
  <2>1. Bad \in SUBSET Nat
    OBVIOUS
  <2> HIDE DEF Bad
  <2> QED BY <1>0, <2>1, Least
<1>2. m \in Nat /\ m <= k /\ ~ \E f \in [0..m -> T] : f[0] = x /\ \A n \in 1..m : f[n] = g[n][f[n - 1]]
  OBVIOUS
<1>3. CASE m = 0
  <2> DEFINE f == [n \in 0..m |-> x]
  <2>1. f \in [0..m -> T] /\ f[0] = x /\ \A n \in 1..m : f[n] = g[n][f[n - 1]]
    BY <1>3
  <2> QED BY <1>2, <2>1
<1>4. CASE m # 0
  <2>1. m - 1 \in Nat /\ m - 1 <= k /\ ~(m <= m - 1)
    BY <1>2, <1>4
  <2>2. m - 1 \notin Bad
    <3> HIDE DEF Bad
    <3> QED BY <1>1, <2>1
  <2>3. PICK f \in [0..(m - 1) -> T] : f[0] = x /\ \A n \in 1..(m - 1) : f[n] = g[n][f[n - 1]]
    BY <2>1, <2>2
  <2> DEFINE h == [n \in 0..m |-> IF n = m THEN g[m][f[m - 1]] ELSE f[n]]
  <2>4. m \in 1..k /\ f[m - 1] \in T /\ g[m][f[m - 1]] \in T
    <3>1. m \in 1..k
      BY <1>2, <1>4
    <3>2. m - 1 \in 0..(m - 1)
      BY <2>1
    <3> QED BY <2>3, <3>1, <3>2
  <2>5. \A n \in 0..m : n # m => n \in 0..(m - 1)
    BY <1>2
  <2>6. h \in [0..m -> T]
    BY <2>3, <2>4, <2>5
  <2>7. h[0] = x
    BY <2>1, <2>3, <1>4
  <2>8. \A n \in 1..m : h[n] = g[n][h[n - 1]]
    <3> TAKE n \in 1..m
    <3>1. n - 1 \in 0..m /\ n - 1 # m /\ n \in 0..m
      BY <1>2
    <3>2. h[n - 1] = f[n - 1]
      BY <3>1
    <3>3. CASE n = m
      BY <3>1, <3>2, <3>3
    <3>4. CASE n # m
      <4>1. n \in 1..(m - 1) /\ h[n] = f[n]
        BY <3>1, <3>4
      <4> QED BY <2>3, <3>2, <4>1
    <3> QED BY <3>3, <3>4
  <2> HIDE DEF h
  <2> QED BY <1>2, <2>6, <2>7, <2>8
<1> QED BY <1>3, <1>4

(* What every step keeps holds after all of them. *)
LEMMA StepsStayIn ==
  ASSUME NEW k \in Nat, NEW T, NEW a, a[0] \in T, \A n \in 1..k : a[n - 1] \in T => a[n] \in T
  PROVE  a[k] \in T
<1> DEFINE Bad == {m \in 0..k : a[m] \notin T}
<1> SUFFICES ASSUME a[k] \notin T PROVE FALSE
  OBVIOUS
<1>1. Bad # {} /\ Bad \in SUBSET Nat
  OBVIOUS
<1>2. PICK m \in Bad : \A n \in Bad : m <= n
  <2> HIDE DEF Bad
  <2> QED BY <1>1, Least
<1>3. m \in 1..k /\ m - 1 \in 0..k /\ ~(m <= m - 1)
  OBVIOUS
<1>4. m - 1 \notin Bad
  <2> HIDE DEF Bad
  <2> QED BY <1>2, <1>3
<1> QED BY <1>3, <1>4

(* Adopting tag names makes a palette in use of one. *)
LEMMA Adopting ==
  ASSUME NEW p, PaletteOK(p), NEW names \in Seq(Name)
  PROVE  PaletteOK(adoptTagNames(p, names))
<1> DEFINE k == Len(names)
           T == {q \in Palette : PaletteOK(q)}
           F(h) == [n \in 0..k |-> IF n = 0 THEN p ELSE addName(h[n - 1], names[n]).palette]
           g == [n \in 1..k |-> [q \in T |-> addName(q, names[n]).palette]]
           a == CHOOSE h : h = F(h)
<1>1. k \in Nat /\ p \in T
  BY PalettePalette
<1>2. ASSUME NEW q \in T, NEW n \in 1..k PROVE addName(q, names[n]).palette \in T
  <2>1. names[n] \in Name
    OBVIOUS
  <2> QED BY <2>1, Adding, PalettePalette
<1>3. g \in [1..k -> [T -> T]]
  BY <1>2
<1>4. adoptTagNames(p, names) = a[k]
  BY DEF adoptTagNames
<1> HIDE DEF k, T
<1>5. PICK f : Repeats(f, k, T, p, g)
  <2> HIDE DEF g
  <2> QED BY <1>1, <1>3, RepeatedStep
<1>51. f \in [0..k -> T] /\ f[0] = p /\ \A n \in 1..k : f[n] = g[n][f[n - 1]]
  BY <1>5 DEF Repeats
<1>6. f = F(f)
  <2>1. ASSUME NEW n \in 0..k PROVE f[n] = IF n = 0 THEN p ELSE addName(f[n - 1], names[n]).palette
    <3>1. CASE n = 0
      BY <1>51, <3>1
    <3>2. CASE n # 0
      <4>1. n \in 1..k /\ n - 1 \in 0..k
        BY <1>1, <3>2
      <4>2. f[n - 1] \in T
        BY <1>51, <4>1
      <4> QED BY <1>51, <3>2, <4>1, <4>2
    <3> QED BY <3>1, <3>2
  <2> QED BY <1>51, <2>1
<1>7. a = F(a)
  <2> HIDE DEF F
  <2> QED BY <1>6
<1> HIDE DEF a
<1>8. a[0] = p /\ \A n \in 1..k : a[n] = addName(a[n - 1], names[n]).palette
  <2>1. 0 \in 0..k /\ \A n \in 1..k : n \in 0..k /\ n # 0
    BY <1>1
  <2>2. a = [n \in 0..k |-> IF n = 0 THEN p ELSE addName(a[n - 1], names[n]).palette]
    BY <1>7
  <2>3. \A n \in 0..k : a[n] = IF n = 0 THEN p ELSE addName(a[n - 1], names[n]).palette
    BY <2>2, Zenon
  <2> QED BY <2>1, <2>3
<1>9. a[k] \in T
  <2>1. a[0] \in T
    BY <1>1, <1>8
  <2>2. \A n \in 1..k : a[n - 1] \in T => a[n] \in T
    BY <1>2, <1>8
  <2> QED BY <1>1, <2>1, <2>2, StepsStayIn
<1> QED BY <1>4, <1>9 DEF T

(* Keeping rows is transitive. *)
LEMMA GrowsOn ==
  ASSUME NEW T, NEW d \in Seq(T), NEW e \in Seq(T), NEW f \in Seq(T), Grows(d, e), Grows(e, f)
  PROVE  Grows(d, f)
<1>1. Len(d) \in Nat /\ Len(e) \in Nat /\ Len(f) \in Nat /\ 1..Len(d) \subseteq 1..Len(e) /\ Len(d) <= Len(e)
  BY DEF Grows
<1> QED BY <1>1 DEF Grows

Highlights == Seq([at : Place, names : SUBSET Name])

(* Passages with any tags: an import may bring tags whose palette is not   *)
(* saved.                                                                  *)
WellLinked == Sound(Tag, FALSE)

(* A migrated highlight is a sound passage. *)
LEMMA PlannedIsSound ==
  ASSUME NEW p, PaletteOK(p), NEW h \in [at : Place, names : SUBSET Name],
         NEW edition \in Edition \cup {Unknown}
  PROVE  planMigration(p, h, edition) \in WellLinked
<1> DEFINE tags == {[id |-> e.id, name |-> e.name] : e \in {f \in activeEntries(p) : f.name \in h.names}}
<1>1. tags \in SUBSET Tag
  <2>1. tags \subseteq ActiveLabels(p)
    BY DEF activeEntries, ActiveLabels, Active, Label
  <2> QED BY <2>1, LabelsAreTags
<1>2. planMigration(p, h, edition) = [at |-> h.at, links |-> <<>>, of |-> edition, text |-> Unknown, tags |-> tags]
  BY DEF planMigration
<1> HIDE DEF tags
<1>3. planMigration(p, h, edition) \in Passage
  BY <1>1, <1>2 DEF Passage
<1>4. CleanLinks(<<>>, h.at)
  BY LinksAreBounded DEF CleanLinks
<1> QED BY <1>1, <1>2, <1>3, <1>4 DEF WellLinked, Sound

(* Adding one keeps all rows, full or not. *)
LEMMA AddedUnlessFull ==
  ASSUME NEW doc \in Seq(WellLinked), NEW p \in WellLinked
  PROVE  addUnlessFull(doc, p) \in Seq(WellLinked) /\ Grows(doc, addUnlessFull(doc, p))
<1>1. addTo(doc, p) = Append(doc, p)
  BY AddToIs DEF WellLinked
<1>2. /\ Append(doc, p) \in Seq(WellLinked) /\ Len(Append(doc, p)) = Len(doc) + 1
      /\ \A i \in 1..Len(doc) : Append(doc, p)[i] = doc[i]
  BY AppendProperties
<1>3. Len(doc) \in Nat
  OBVIOUS
<1>4. Grows(doc, doc) /\ Grows(doc, Append(doc, p))
  BY <1>2, <1>3 DEF Grows
<1> QED BY <1>1, <1>2, <1>4 DEF addUnlessFull

(* The plan for a source keeps every passage the destination held. *)
LEMMA MigratedGrows ==
  ASSUME NEW doc \in Seq(WellLinked), NEW p, PaletteOK(p), NEW highlights \in Highlights,
         NEW edition \in Edition \cup {Unknown}
  PROVE  addMigrated(doc, p, highlights, edition) \in Seq(WellLinked)
         /\ Grows(doc, addMigrated(doc, p, highlights, edition))
<1> DEFINE k == Len(highlights)
           T == {d \in Seq(WellLinked) : Grows(doc, d)}
           step(n, d) == IF highlights[n].names = {} THEN d
                         ELSE addUnlessFull(d, planMigration(p, highlights[n], edition))
           F(h) == [n \in 0..k |->
                      CASE n = 0 -> doc
                        [] n # 0 /\ highlights[n].names = {} -> h[n - 1]
                        [] OTHER -> addUnlessFull(h[n - 1], planMigration(p, highlights[n], edition))]
           g == [n \in 1..k |-> [d \in T |-> step(n, d)]]
           a == CHOOSE h : h = F(h)
<1>1. k \in Nat /\ doc \in T
  <2>1. Len(doc) \in Nat
    OBVIOUS
  <2>2. Grows(doc, doc)
    BY <2>1 DEF Grows
  <2> QED BY <2>2 DEF Highlights
<1>2. ASSUME NEW d \in T, NEW n \in 1..k PROVE step(n, d) \in T
  <2>1. CASE highlights[n].names = {}
    BY <2>1
  <2>2. CASE highlights[n].names # {}
    <3>1. planMigration(p, highlights[n], edition) \in WellLinked
      <4>1. highlights[n] \in [at : Place, names : SUBSET Name]
        <5> HIDE DEF F, step, T, a, g
        <5> QED BY ElementOfSeq DEF Highlights
      <4> QED BY <4>1, PlannedIsSound
    <3>2. /\ addUnlessFull(d, planMigration(p, highlights[n], edition)) \in Seq(WellLinked)
          /\ Grows(d, addUnlessFull(d, planMigration(p, highlights[n], edition)))
      BY <3>1, AddedUnlessFull
    <3>3. Grows(doc, addUnlessFull(d, planMigration(p, highlights[n], edition)))
      BY <3>2, GrowsOn
    <3> QED BY <2>2, <3>2, <3>3
  <2> QED BY <2>1, <2>2
<1>3. g \in [1..k -> [T -> T]]
  <2> HIDE DEF step, T
  <2> QED BY <1>2
<1>4. addMigrated(doc, p, highlights, edition) = a[k]
  BY DEF addMigrated
<1> HIDE DEF k, T, step
<1>5. PICK f : Repeats(f, k, T, doc, g)
  <2> HIDE DEF g, F, a
  <2> QED BY <1>1, <1>3, RepeatedStep
<1>6. \A n \in 1..k : n # 0 /\ n \in 0..k /\ n - 1 \in 0..k
  BY <1>1
<1>51. f \in [0..k -> T] /\ f[0] = doc /\ \A n \in 1..k : f[n] = step(n, f[n - 1])
  <2>1. f \in [0..k -> T] /\ f[0] = doc /\ \A n \in 1..k : f[n] = g[n][f[n - 1]]
    <3> HIDE DEF g, F, a
    <3> QED BY <1>5 DEF Repeats
  <2>2. ASSUME NEW n \in 1..k PROVE f[n] = step(n, f[n - 1])
    <3>1. f[n - 1] \in T
      BY <2>1, <1>6
    <3>2. g[n][f[n - 1]] = step(n, f[n - 1])
      BY <3>1
    <3> QED BY <2>1, <3>2
  <2> QED BY <2>1, <2>2
<1>7. f = F(f)
  <2>2. ASSUME NEW n \in 0..k
        PROVE  f[n] = CASE n = 0 -> doc
                        [] n # 0 /\ highlights[n].names = {} -> f[n - 1]
                        [] OTHER -> addUnlessFull(f[n - 1], planMigration(p, highlights[n], edition))
    <3>1. CASE n = 0
      BY <1>51, <3>1
    <3>2. CASE n # 0
      <4>1. n \in 1..k
        BY <1>1, <3>2
      <4> QED BY <1>51, <3>2, <4>1 DEF step
    <3> QED BY <3>1, <3>2
  <2> QED BY <1>51, <2>2
<1>8. a = F(a)
  <2> HIDE DEF F
  <2> QED BY <1>7
<1> HIDE DEF a
<1>9. a[0] = doc /\ \A n \in 1..k : a[n] = step(n, a[n - 1])
  <2>1. 0 \in 0..k
    BY <1>1
  <2>2. \A n \in 0..k : a[n] = CASE n = 0 -> doc
                                  [] n # 0 /\ highlights[n].names = {} -> a[n - 1]
                                  [] OTHER -> addUnlessFull(a[n - 1], planMigration(p, highlights[n], edition))
    <3>1. a = [n \in 0..k |->
                  CASE n = 0 -> doc
                    [] n # 0 /\ highlights[n].names = {} -> a[n - 1]
                    [] OTHER -> addUnlessFull(a[n - 1], planMigration(p, highlights[n], edition))]
      BY <1>8
    <3> QED BY <3>1, Zenon
  <2> QED BY <1>6, <2>1, <2>2 DEF step
<1>10. a[k] \in T
  <2>1. a[0] \in T
    BY <1>1, <1>9
  <2>2. \A n \in 1..k : a[n - 1] \in T => a[n] \in T
    BY <1>2, <1>9
  <2> QED BY <1>1, <2>1, <2>2, StepsStayIn
<1> QED BY <1>4, <1>10 DEF T
-----------------------------------------------------------------------------
(* What LedgeredIsStored says of one source. *)
Recorded(s) ==
    \A i \in DOMAIN Legacy[s] :
        Legacy[s][i].at \in gone
        \/ \E pub \in {BookPub[s], LocalPub[s]} : Count(stored(pub), Legacy[s][i].at) > 0

(* The run comes before the store is used. *)
StoreAtRest == mpc # "up" => openPub = Absent /\ palette = EmptyPalette

(* The plan in hand has all the destination holds, if it was seen, and     *)
(* every highlight of the source that was not refused.                     *)
Planned ==
    /\ mPassages \in Seq(WellLinked)
    /\ \A i \in DOMAIN Legacy[source] :
           Legacy[source][i].at \in gone \/ Count(mPassages, Legacy[source][i].at) > 0
    /\ "passages" \notin mOverlooked => \A at \in Place : Count(stored(mPub), at) <= Count(mPassages, at)

(* The locals of the run, at each of its steps. *)
InHand ==
    /\ next \in Nat /\ PaletteOK(mPalette)
    /\ mpc = "next" => next # 0
    /\ mpc \in {"passages", "palette", "ledger"} => next \in DOMAIN Sources
    /\ mpc \in {"passages", "palette"} => mPub \in {BookPub[source], LocalPub[source]}
    /\ mpc = "passages" => Planned
    /\ mpc = "palette" /\ mSaved => Recorded(source)
    /\ mpc = "ledger" => Recorded(source)

(* The study store, whose files the run writes. *)
StoreSound == PalettesAgree /\ Consistent(Tag, FALSE) /\ ResidentAreStored

(* The inductive invariant of the migration. *)
MIInv == StoreSound /\ StoreAtRest /\ InHand /\ (\A s \in ledgerFile : Recorded(s)) /\ ledgerFile \subseteq SourceSet

(* What SourcesAreFiles says of one source. *)
LEMMA SourcesAre ==
  ASSUME NEW i \in DOMAIN Sources
  PROVE  /\ Sources[i] \in SourceSet /\ BookPub[Sources[i]] \in Pub /\ LocalPub[Sources[i]] \in Pub
         /\ Legacy[Sources[i]] \in Highlights /\ LegacyNames[Sources[i]] \in Seq(Name)
         /\ DOMAIN Sources = 1..Len(Sources)
<1>1. DOMAIN Sources = 1..Len(Sources)
  BY SourcesAreFiles, LenProperties
<1>2. /\ BookPub[Sources[i]] \in Pub /\ LocalPub[Sources[i]] \in Pub
      /\ Legacy[Sources[i]] \in Highlights /\ LegacyNames[Sources[i]] \in Seq(Name)
  BY SourcesAreFiles, Zenon DEF Highlights
<1> QED BY <1>1, <1>2 DEF SourceSet

(* A highlight has a place. *)
LEMMA HighlightIs ==
  ASSUME NEW highlights \in Highlights, NEW i \in DOMAIN highlights PROVE highlights[i].at \in Place
<1>1. highlights[i] \in [at : Place, names : SUBSET Name]
  BY ElementOfSeq, LenProperties DEF Highlights
<1> QED BY <1>1

(* No file loses a passage. *)
Kept == \A pub \in Pub, at \in Place : Count(stored(pub), at) <= Count(stored(pub)', at)

(* None that the run or the store is not about to save over. *)
KeptUnseen == \A pub \in Pub, at \in Place : SavesOver(pub) \/ Count(stored(pub), at) <= Count(stored(pub)', at)

(* None that the user did not remove, nor lost unseen. *)
KeptOrGone ==
    \A pub \in Pub, at \in Place : at \in gone' \/ Count(stored(pub), at) <= Count(stored(pub)', at)

(* A source that is recorded stays so while no passage is lost but by      *)
(* removal.                                                                *)
LEMMA KeptRecords ==
  ASSUME NEW i \in DOMAIN Sources, Recorded(Sources[i]), gone \subseteq gone', KeptOrGone,
         FilesLoad(WellLinked), FilesLoad(WellLinked)'
  PROVE  Recorded(Sources[i])'
<1> DEFINE s == Sources[i]
<1>1. BookPub[s] \in Pub /\ LocalPub[s] \in Pub /\ Legacy[s] \in Highlights
  BY SourcesAre
<1> HIDE DEF s
<1>2. ASSUME NEW j \in DOMAIN Legacy[s]
      PROVE  Legacy[s][j].at \in gone'
             \/ \E pub \in {BookPub[s], LocalPub[s]} : Count(stored(pub)', Legacy[s][j].at) > 0
  <2>1. CASE Legacy[s][j].at \in gone
    BY <2>1
  <2>2. CASE Legacy[s][j].at \notin gone
    <3>1. PICK pub \in {BookPub[s], LocalPub[s]} : Count(stored(pub), Legacy[s][j].at) > 0
      BY <2>2 DEF Recorded, s
    <3>2. Legacy[s][j].at \in Place
      BY <1>1, HighlightIs
    <3>3. pub \in Pub
      BY <1>1
    <3>4. \/ Legacy[s][j].at \in gone'
          \/ Count(stored(pub), Legacy[s][j].at) <= Count(stored(pub)', Legacy[s][j].at)
      BY <3>2, <3>3 DEF KeptOrGone
    <3>5. stored(pub) \in Seq(WellLinked) /\ stored(pub)' \in Seq(WellLinked)
      BY <3>3 DEF FilesLoad, stored, NoPassages
    <3>6. Count(stored(pub), Legacy[s][j].at) \in Nat /\ Count(stored(pub)', Legacy[s][j].at) \in Nat
      BY <3>5, CountsAre
    <3> QED BY <3>1, <3>4, <3>6
  <2> QED BY <2>1, <2>2
<1> QED BY <1>2 DEF Recorded, s

(* Untouched files lose nothing. *)
LEMMA SameFilesKeep ==
  ASSUME UNCHANGED passageFile, FilesLoad(WellLinked) PROVE Kept /\ FilesLoad(WellLinked)'
<1>1. FilesLoad(WellLinked)' /\ \A pub : stored(pub)' = stored(pub)
  BY DEF FilesLoad, stored
<1>2. ASSUME NEW pub \in Pub, NEW at \in Place PROVE Count(stored(pub), at) <= Count(stored(pub)', at)
  <2>1. stored(pub) \in Seq(WellLinked)
    BY DEF FilesLoad, stored, NoPassages
  <2>2. Count(stored(pub), at) \in Nat
    BY <2>1, CountsAre
  <2> QED BY <1>1, <2>2
<1> QED BY <1>1, <1>2 DEF Kept

(* A file that loses a passage is one that is saved over: what it lost is  *)
(* gone.                                                                   *)
LEMMA LostIsGone ==
  ASSUME FilesLoad(WellLinked), FilesLoad(WellLinked)', losing \subseteq gone' PROVE KeptOrGone
<1> SUFFICES ASSUME NEW pub \in Pub, NEW at \in Place, at \notin gone'
             PROVE  Count(stored(pub), at) <= Count(stored(pub)', at)
  BY DEF KeptOrGone
<1>1. stored(pub) \in Seq(WellLinked) /\ stored(pub)' \in Seq(WellLinked)
  BY DEF FilesLoad, stored, NoPassages
<1>2. Count(stored(pub), at) \in Nat /\ Count(stored(pub)', at) \in Nat
  BY <1>1, CountsAre
<1>3. ~(Count(stored(pub)', at) < Count(stored(pub), at))
  BY DEF losing
<1> QED BY <1>2, <1>3

(* So the ledger stays true. *)
LEMMA RecordsStay ==
  ASSUME MIInv, gone \subseteq gone', KeptOrGone, FilesLoad(WellLinked)', UNCHANGED ledgerFile
  PROVE  (\A s \in ledgerFile : Recorded(s))' /\ (ledgerFile \subseteq SourceSet)'
<1>1. FilesLoad(WellLinked)
  BY DEF MIInv, StoreSound, Consistent, WellLinked
<1>2. ASSUME NEW s \in ledgerFile PROVE Recorded(s)'
  <2>1. PICK i \in DOMAIN Sources : s = Sources[i]
    BY DEF MIInv, SourceSet
  <2>2. Recorded(Sources[i])
    BY <2>1 DEF MIInv
  <2> QED BY <1>1, <2>1, <2>2, KeptRecords
<1> QED BY <1>2 DEF MIInv, SourceSet

(* A step of the run alone leaves the store sound. *)
LEMMA StoreUntouched ==
  ASSUME MIInv, UNCHANGED vars PROVE StoreSound' /\ Kept /\ FilesLoad(WellLinked)'
<1>1. StoreSound'
  BY DEF MIInv, StoreSound, vars, files, memory, session, steps, Consistent, PalettesAgree, PaletteMatches, SessionAgrees,
         FilesLoad, SourceIsMarked, ResidentAreStored, Known, paletteStored, MayEdit, stored
<1>2. UNCHANGED passageFile /\ FilesLoad(WellLinked)
  BY DEF vars, files, MIInv, StoreSound, Consistent, WellLinked
<1> QED BY <1>1, <1>2, SameFilesKeep

(* While the run has the files, the store holds no palette to match. *)
LEMMA PalettesAtRest ==
  ASSUME openPub' = Absent, palette' = EmptyPalette, paletteFile' = Absent \/ PaletteOK(paletteFile'),
         paletteLost' \in BOOLEAN
  PROVE  PalettesAgree'
<1>1. PaletteOK(palette') /\ ActiveLabels(palette') = {} /\ ~MayEdit'
  BY EmptyPaletteOK DEF MayEdit
<1>2. PaletteMatches'
  BY <1>1 DEF PaletteMatches
<1> QED BY <1>1, <1>2 DEF PalettesAgree

(* A device that has not migrated satisfies the invariant. *)
LEMMA InitMIInv == MInit => MIInv
<1> SUFFICES ASSUME MInit PROVE MIInv
  OBVIOUS
<1>1. PalettesAgree
  BY EmptyPaletteOK DEF MInit, InitAt, PalettesAgree, PaletteMatches, MayEdit, paletteStored
<1>2. SessionAgrees /\ SourceIsMarked /\ ResidentAreStored
  BY DEF MInit, InitAt, SessionAgrees, SourceIsMarked, MayEdit, ResidentAreStored
<1>3. FilesLoad(Sound(Tag, FALSE)) /\ passages \in Seq(Sound(Tag, FALSE))
  <2>1. passageFile \in [Pub -> {Absent}] /\ passages = <<>>
    BY DEF MInit, InitAt, NoPassages
  <2>2. passageFile \in [Pub -> Seq(Sound(Tag, FALSE)) \cup {Absent}]
    BY <2>1
  <2>3. <<>> \in Seq(Sound(Tag, FALSE))
    OBVIOUS
  <2> QED BY <2>1, <2>2, <2>3 DEF FilesLoad
<1>4. PaletteOK(palette) /\ ~MayEdit
  BY EmptyPaletteOK DEF MInit, InitAt, MayEdit
<1>5. Consistent(Tag, FALSE)
  BY <1>2, <1>3, <1>4 DEF Consistent
<1>6. StoreAtRest /\ InHand
  BY EmptyPaletteOK DEF MInit, InitAt, StoreAtRest, InHand
<1> QED BY <1>1, <1>2, <1>5, <1>6 DEF MInit, MIInv, StoreSound

(* The source in hand is one of the sources. *)
LEMMA InHandIs ==
  ASSUME MIInv, next \in DOMAIN Sources
  PROVE  /\ source \in SourceSet /\ BookPub[source] \in Pub /\ LocalPub[source] \in Pub
         /\ Legacy[source] \in Highlights /\ LegacyNames[source] \in Seq(Name)
         /\ source = Sources[next] /\ next \in Nat
BY SourcesAre DEF source, MIInv, InHand

(* While sources are left, there is one in hand. *)
LEMMA SourceInHand == ASSUME MIInv, mpc = "next", next <= Len(Sources) PROVE next \in DOMAIN Sources
<1>1. next \in Nat \ {0}
  BY DEF MIInv, InHand
<1>2. Sources \in Seq({Sources[i] : i \in DOMAIN Sources})
  BY SourcesAreFiles
<1>3. DOMAIN Sources = 1..Len(Sources) /\ Len(Sources) \in Nat
  BY <1>2, LenProperties
<1> QED BY <1>1, <1>3

(* Going on to the next source leaves nothing to vouch for. *)
LEMMA NextSourceKeeps ==
  ASSUME MIInv, NextSource, PaletteOK(mPalette'), openPub = Absent, palette = EmptyPalette,
         UNCHANGED <<openPub, palette>>
  PROVE  InHand' /\ StoreAtRest'
<1>1. next \in Nat /\ next' = next + 1 /\ mpc' = "next"
  BY DEF NextSource, MIInv, InHand
<1> QED BY <1>1 DEF InHand, StoreAtRest

(* StartRun: the palette is read as it was saved. *)
LEMMA StartRunKeeps == ASSUME MIInv, StartRun PROVE MIInv'
<1>1. UNCHANGED <<vars, ledgerFile, gone>>
  BY DEF StartRun
<1>2. StoreSound' /\ Kept /\ FilesLoad(WellLinked)'
  BY <1>1, StoreUntouched
<1>3. (\A s \in ledgerFile : Recorded(s))' /\ (ledgerFile \subseteq SourceSet)'
  BY <1>1, <1>2, RecordsStay DEF Kept, KeptOrGone
<1>4. UNCHANGED <<openPub, palette>> /\ openPub = Absent /\ palette = EmptyPalette
  BY <1>1 DEF vars, memory, session, StartRun, MIInv, StoreAtRest
<1>5. InHand'
  <2>1. CASE RunEnds
    BY <2>1, EmptyPaletteOK DEF RunEnds, NothingInHand, InHand
  <2>2. ASSUME NEW load \in AdoptedLoad(paletteFile), mpc' = "next", next' = 1,
               mPalette' = IF load = "Loaded" THEN fromJson(paletteFile) ELSE EmptyPalette
        PROVE  InHand'
    <3>1. PaletteOK(mPalette')
      BY <2>2, FromJsonKeeps, EmptyPaletteOK DEF MIInv, StoreSound, PalettesAgree, AdoptedLoad
    <3> QED BY <2>2, <3>1 DEF InHand
  <2> QED BY <2>1, <2>2 DEF StartRun
<1> QED BY <1>2, <1>3, <1>4, <1>5 DEF MIInv, StoreAtRest

(* SkipSource changes nothing but the place in the list. *)
LEMMA SkipSourceKeeps == ASSUME MIInv, SkipSource PROVE MIInv'
<1>1. UNCHANGED <<vars, ledgerFile, mPalette, gone>> /\ NextSource /\ mpc = "next"
  BY DEF SkipSource
<1>2. StoreSound' /\ Kept /\ FilesLoad(WellLinked)'
  BY <1>1, StoreUntouched
<1>3. (\A s \in ledgerFile : Recorded(s))' /\ (ledgerFile \subseteq SourceSet)'
  BY <1>1, <1>2, RecordsStay DEF Kept, KeptOrGone
<1>4. UNCHANGED <<openPub, palette>> /\ openPub = Absent /\ palette = EmptyPalette
  BY <1>1 DEF vars, memory, session, MIInv, StoreAtRest
<1>5. PaletteOK(mPalette')
  BY <1>1 DEF MIInv, InHand
<1>6. InHand' /\ StoreAtRest'
  BY <1>1, <1>4, <1>5, NextSourceKeeps
<1> QED BY <1>2, <1>3, <1>6 DEF MIInv

(* SourceTakenForEmpty: what the source held is gone for good. *)
LEMMA SourceTakenForEmptyKeeps == ASSUME MIInv, SourceTakenForEmpty PROVE MIInv'
<1>1. /\ UNCHANGED <<vars, ledgerFile, next, mPalette, mPub>> /\ mpc = "next" /\ mpc' = "ledger" /\ next <= Len(Sources)
      /\ gone' = gone \cup {Legacy[source][i].at : i \in DOMAIN Legacy[source]}
  BY DEF SourceTakenForEmpty, locals
<1>2. StoreSound' /\ Kept /\ FilesLoad(WellLinked)'
  BY <1>1, StoreUntouched
<1>3. (\A s \in ledgerFile : Recorded(s))' /\ (ledgerFile \subseteq SourceSet)'
  BY <1>1, <1>2, RecordsStay DEF Kept, KeptOrGone
<1>4. UNCHANGED <<openPub, palette>> /\ openPub = Absent /\ palette = EmptyPalette
  BY <1>1 DEF vars, memory, session, MIInv, StoreAtRest
<1>5. next \in DOMAIN Sources /\ source' = source
  BY <1>1, SourceInHand DEF source
<1>6. Recorded(source)'
  BY <1>1, <1>5 DEF Recorded
<1>7. InHand'
  BY <1>1, <1>5, <1>6 DEF MIInv, InHand
<1> QED BY <1>2, <1>3, <1>4, <1>7, <1>1 DEF MIInv, StoreAtRest

(* PlanSource: the plan is made of the destination as it was read, and a   *)
(* highlight that is not in it is gone for good.                           *)
LEMMA PlanSourceKeeps == ASSUME MIInv, PlanSource PROVE MIInv'
<1>1. UNCHANGED <<vars, ledgerFile>> /\ gone \subseteq gone' /\ mpc = "next" /\ next <= Len(Sources)
      /\ mPalette' = adoptTagNames(mPalette, LegacyNames[source])
  BY DEF PlanSource
<1>2. StoreSound' /\ Kept /\ FilesLoad(WellLinked)'
  BY <1>1, StoreUntouched
<1>3. (\A s \in ledgerFile : Recorded(s))' /\ (ledgerFile \subseteq SourceSet)'
  BY <1>1, <1>2, RecordsStay DEF Kept, KeptOrGone
<1>4. UNCHANGED <<openPub, palette, passageFile>> /\ openPub = Absent /\ palette = EmptyPalette
  BY <1>1 DEF vars, files, memory, session, MIInv, StoreAtRest
<1>5. next \in DOMAIN Sources
  BY <1>1, SourceInHand
<1>6. PaletteOK(mPalette')
  BY <1>1, <1>5, InHandIs, Adopting DEF MIInv, InHand
<1>7. PICK edition \in Edition \cup {Unknown}, pub \in {BookPub[source], LocalPub[source]} :
        \E load \in AdoptedLoad(passageFile[pub]) :
          LET planned == addMigrated(IF load = "Loaded" THEN passageFile[pub] ELSE NoPassages, mPalette', Legacy[source], edition)
          IN  \/ /\ DestinationUsable(load)
                 /\ mPub' = pub /\ mPassages' = planned
                 /\ mOverlooked' = mOverlooked \cup takenForNone("passages", load, passageFile[pub])
                 /\ gone' = gone \cup {Legacy[source][i].at : i \in
                                         {j \in DOMAIN Legacy[source] :
                                             Count(planned, Legacy[source][j].at) = 0}}
                 /\ mpc' = "passages" /\ UNCHANGED next
              \/ NextSource
  <2>1. PICK edition \in Edition \cup {Unknown} :
          LET p == IF edition # Unknown THEN BookPub[source] ELSE LocalPub[source]
          IN  \E load \in AdoptedLoad(passageFile[p]) :
          LET planned == addMigrated(IF load = "Loaded" THEN passageFile[p] ELSE NoPassages, mPalette', Legacy[source], edition)
          IN  \/ /\ DestinationUsable(load)
                 /\ mPub' = p /\ mPassages' = planned
                 /\ mOverlooked' = mOverlooked \cup takenForNone("passages", load, passageFile[p])
                 /\ gone' = gone \cup {Legacy[source][i].at : i \in
                                         {j \in DOMAIN Legacy[source] :
                                             Count(planned, Legacy[source][j].at) = 0}}
                 /\ mpc' = "passages" /\ UNCHANGED next
              \/ NextSource
    BY Zenon DEF PlanSource
  <2> DEFINE p == IF edition # Unknown THEN BookPub[source] ELSE LocalPub[source]
  <2>2. p \in {BookPub[source], LocalPub[source]}
    OBVIOUS
  <2> HIDE DEF p
  <2> QED BY <2>1, <2>2, Zenon DEF p
<1>8. PICK load \in AdoptedLoad(passageFile[pub]) :
          LET planned == addMigrated(IF load = "Loaded" THEN passageFile[pub] ELSE NoPassages, mPalette', Legacy[source], edition)
          IN  \/ /\ DestinationUsable(load)
                 /\ mPub' = pub /\ mPassages' = planned
                 /\ mOverlooked' = mOverlooked \cup takenForNone("passages", load, passageFile[pub])
                 /\ gone' = gone \cup {Legacy[source][i].at : i \in
                                         {j \in DOMAIN Legacy[source] :
                                             Count(planned, Legacy[source][j].at) = 0}}
                 /\ mpc' = "passages" /\ UNCHANGED next
              \/ NextSource
  BY <1>7, Zenon
<1> DEFINE base == IF load = "Loaded" THEN passageFile[pub] ELSE NoPassages
           planned == addMigrated(base, mPalette', Legacy[source], edition)
<1>9. CASE NextSource
  <2>1. InHand' /\ StoreAtRest'
    BY <1>4, <1>6, <1>9, NextSourceKeeps
  <2> QED BY <1>2, <1>3, <2>1 DEF MIInv
<1>10. CASE /\ DestinationUsable(load)
           /\ mPub' = pub /\ mPassages' = planned
           /\ mOverlooked' = mOverlooked \cup takenForNone("passages", load, passageFile[pub])
           /\ gone' = gone \cup {Legacy[source][i].at : i \in
                                    {j \in DOMAIN Legacy[source] : Count(planned, Legacy[source][j].at) = 0}}
           /\ mpc' = "passages" /\ UNCHANGED next
  <2>1. pub \in Pub /\ pub \in {BookPub[source], LocalPub[source]} /\ Legacy[source] \in Highlights
    BY <1>5, InHandIs
  <2>2. stored(pub) \in Seq(WellLinked) /\ (passageFile[pub] = Absent \/ passageFile[pub] \in Seq(WellLinked))
    BY <2>1, StoredIsSound DEF MIInv, StoreSound, Consistent, WellLinked, FilesLoad
  <2>3. load \in {"Loaded", "Failed", "Empty"} /\ (load = "Loaded" => passageFile[pub] # Absent)
    BY DEF AdoptedLoad
  <2>4. base \in Seq(WellLinked) /\ ("passages" \notin mOverlooked' => base = stored(pub))
    <3>1. base \in Seq(WellLinked)
      BY <2>2, <2>3 DEF NoPassages
    <3>2. ASSUME "passages" \notin mOverlooked' PROVE base = stored(pub)
      <4>1. load = "Loaded" \/ (load = "Empty" /\ passageFile[pub] = Absent)
        BY <1>10, <2>3, <3>2 DEF takenForNone, DestinationUsable
      <4> QED BY <2>3, <4>1 DEF stored
    <3> QED BY <3>1, <3>2
  <2> HIDE DEF base
  <2>5. planned \in Seq(WellLinked) /\ Grows(base, planned)
    BY <1>6, <2>1, <2>4, MigratedGrows
  <2> HIDE DEF planned
  <2>6. ASSUME NEW at \in Place, "passages" \notin mOverlooked' PROVE Count(stored(mPub)', at) <= Count(mPassages', at)
    <3>1. Count(stored(pub), at) <= Count(planned, at)
      BY <2>2, <2>4, <2>6, <2>5, GrownCounts
    <3>2. stored(mPub)' = stored(pub)
      BY <1>4, <1>10 DEF stored
    <3> QED BY <1>10, <3>1, <3>2
  <2>7. ASSUME NEW i \in DOMAIN Legacy[source]
        PROVE  Legacy[source][i].at \in gone' \/ Count(planned, Legacy[source][i].at) > 0
    <3>1. Count(planned, Legacy[source][i].at) \in Nat
      BY <2>5, CountsAre
    <3> QED BY <1>10, <3>1
  <2>8. source' = source
    BY <1>10 DEF source
  <2>9. Planned'
    BY <1>10, <2>5, <2>6, <2>7, <2>8 DEF Planned
  <2>10. InHand'
    BY <1>5, <1>6, <1>10, <2>1, <2>8, <2>9, InHandIs DEF InHand
  <2> QED BY <1>2, <1>3, <1>4, <2>10 DEF MIInv, StoreAtRest
<1> QED BY <1>9, <1>10, <1>8

(* SavePassages: saved, the source is in the store; failed, the store is as*)
(* it was, unless its file was taken for none.                             *)
LEMMA SavePassagesKeeps == ASSUME ~RenameMayFail, MIInv, SavePassages PROVE MIInv' /\ KeptUnseen
<1>1. /\ UNCHANGED <<paletteFile, paletteLost, storeMemory, ledgerFile, next, mPalette, mPassages, mPub, mLedger>>
      /\ mpc = "passages" /\ mpc' = "palette"
      /\ gone' = gone \cup (IF "passages" \in mOverlooked THEN losing ELSE {})
  BY DEF SavePassages
<1>2. next \in DOMAIN Sources /\ mPub \in {BookPub[source], LocalPub[source]} /\ Planned
  BY <1>1 DEF MIInv, InHand
<1>3. mPub \in Pub /\ Legacy[source] \in Highlights
  BY <1>2, InHandIs
<1>4. FilesLoad(WellLinked) /\ passageFile \in [Pub -> Seq(WellLinked) \cup {Absent}] /\ mPassages \in Seq(WellLinked)
  BY <1>2 DEF MIInv, StoreSound, Consistent, WellLinked, FilesLoad, Planned
<1>5. mPassages # Absent
  BY <1>4, DocumentIsNoAbsence DEF WellLinked
<1>6. \/ mSaved' /\ passageFile' = [passageFile EXCEPT ![mPub] = mPassages]
      \/ ~mSaved' /\ passageFile' = passageFile
      \/ ~mSaved' /\ passageFile' = [passageFile EXCEPT ![mPub] = Absent] /\ "passages" \in mOverlooked
  BY <1>4 DEF SavePassages, AfterFailure, AfterCut
<1>7. FilesLoad(WellLinked)'
  BY <1>3, <1>4, <1>6 DEF FilesLoad
<1>8. ASSUME "passages" \notin mOverlooked PROVE Kept
  <2>1. CASE passageFile' = passageFile
    BY <2>1, <1>4, SameFilesKeep
  <2>2. CASE passageFile' = [passageFile EXCEPT ![mPub] = mPassages]
    <3>1. ASSUME NEW pub \in Pub, NEW at \in Place PROVE Count(stored(pub), at) <= Count(stored(pub)', at)
      <4>1. CASE pub = mPub
        <5>1. stored(pub)' = mPassages
          BY <4>1, <2>2, <1>3, <1>4, <1>5 DEF stored
        <5> QED BY <4>1, <5>1, <1>2, <1>8 DEF Planned
      <4>2. CASE pub # mPub
        <5>1. stored(pub)' = stored(pub)
          BY <4>2, <2>2, <1>4 DEF stored
        <5>2. Count(stored(pub), at) \in Nat
          BY <1>4, StoredIsSound, CountsAre DEF WellLinked
        <5> QED BY <5>1, <5>2
      <4> QED BY <4>1, <4>2
    <3> QED BY <3>1 DEF Kept
  <2> QED BY <2>1, <2>2, <1>6, <1>8
<1>9. KeptOrGone
  <2>1. CASE "passages" \notin mOverlooked
    BY <1>8, <2>1 DEF Kept, KeptOrGone
  <2>2. CASE "passages" \in mOverlooked
    BY <1>1, <1>4, <1>7, <2>2, LostIsGone
  <2> QED BY <2>1, <2>2
<1>10. KeptUnseen
  <2>1. CASE "passages" \notin mOverlooked
    BY <1>8, <2>1 DEF Kept, KeptUnseen
  <2>2. CASE "passages" \in mOverlooked
    <3>1. ASSUME NEW pub \in Pub, NEW at \in Place, pub # mPub PROVE Count(stored(pub), at) <= Count(stored(pub)', at)
      <4>1. stored(pub)' = stored(pub)
        BY <3>1, <1>4, <1>6 DEF stored
      <4>2. Count(stored(pub), at) \in Nat
        BY <1>4, StoredIsSound, CountsAre DEF WellLinked
      <4> QED BY <4>1, <4>2
    <3> QED BY <1>1, <2>2, <3>1 DEF KeptUnseen, SavesOver
  <2> QED BY <2>1, <2>2
<1>11. (\A s \in ledgerFile : Recorded(s))' /\ (ledgerFile \subseteq SourceSet)'
  BY <1>1, <1>7, <1>9, RecordsStay
<1>12. /\ UNCHANGED <<paletteFile, palette, passages, linkSource, openPub, saveDisabled, loadedCleanly, book, opened,
                       retiring, result, marked>>
       /\ openPub = Absent
  BY <1>1 DEF storeMemory, memory, session, steps, MIInv, StoreAtRest
<1>13. StoreSound'
  <2>1. PalettesAgree'
    BY <1>1, <1>12, PalettesAtRest DEF MIInv, StoreSound, PalettesAgree
  <2>2. SessionAgrees' /\ SourceIsMarked' /\ PaletteOK(palette)' /\ ~MayEdit' /\ (passages \in Seq(Sound(Tag, FALSE)))'
    BY <1>12 DEF MIInv, StoreSound, Consistent, SessionAgrees, SourceIsMarked, MayEdit
  <2>3. ResidentAreStored'
    BY <1>12 DEF ResidentAreStored
  <2> QED BY <2>1, <2>2, <2>3, <1>7 DEF StoreSound, Consistent, WellLinked
<1>14. ASSUME mSaved' PROVE Recorded(source)'
  <2>1. stored(mPub)' = mPassages
    BY <1>1, <1>3, <1>4, <1>5, <1>6, <1>14 DEF stored
  <2>2. source' = source
    BY <1>1 DEF source
  <2>3. ASSUME NEW i \in DOMAIN Legacy[source]
        PROVE  Legacy[source][i].at \in gone'
               \/ \E pub \in {BookPub[source], LocalPub[source]} : Count(stored(pub)', Legacy[source][i].at) > 0
    <3>1. Legacy[source][i].at \in gone' \/ Count(mPassages, Legacy[source][i].at) > 0
      BY <1>1, <1>2 DEF Planned
    <3>2. mPub' = mPub
      BY <1>1
    <3> QED BY <1>1, <1>2, <2>1, <3>1, <3>2
  <2> QED BY <2>2, <2>3 DEF Recorded
<1>15. InHand'
  <2>1. source' = source
    BY <1>1 DEF source
  <2> QED BY <1>1, <1>2, <1>14, <2>1 DEF MIInv, InHand
<1> QED BY <1>1, <1>11, <1>12, <1>13, <1>15, <1>10 DEF MIInv, StoreAtRest

(* SavePalette: only a source whose passages were saved goes on to the     *)
(* ledger.                                                                 *)
LEMMA SavePaletteKeeps == ASSUME ~RenameMayFail, MIInv, SavePalette PROVE MIInv' /\ Kept
<1>1. /\ UNCHANGED <<passageFile, storeMemory, ledgerFile, mPalette, mLedger, gone>>
      /\ mpc = "palette"
  BY DEF SavePalette
<1>2. PICK ok \in BOOLEAN : /\ writePalette(ok, mPalette, "palette" \in mOverlooked)
                           /\ \/ mSaved /\ mpc' = "ledger" /\ UNCHANGED <<next, mPassages, mPub, mSaved>>
                              \/ NextSource
  BY DEF SavePalette, BothSaved
<1>3. /\ paletteFile' \in {mPalette, paletteFile, Absent}
      /\ paletteLost' = (paletteLost
                         \/ (paletteFile' # paletteFile /\ ("palette" \in mOverlooked \/ paletteFile' = Absent)))
  BY <1>2 DEF writePalette, AfterFailure, AfterCut
<1>4. FilesLoad(WellLinked)
  BY DEF MIInv, StoreSound, Consistent, WellLinked
<1>5. Kept /\ FilesLoad(WellLinked)'
  BY <1>1, <1>4, SameFilesKeep
<1>6. (\A s \in ledgerFile : Recorded(s))' /\ (ledgerFile \subseteq SourceSet)'
  BY <1>1, <1>5, RecordsStay DEF Kept, KeptOrGone
<1>7. /\ UNCHANGED <<passageFile, palette, passages, linkSource, openPub, saveDisabled, loadedCleanly, book, opened,
                      retiring, result, marked>>
      /\ openPub = Absent /\ palette = EmptyPalette
  BY <1>1 DEF storeMemory, memory, session, steps, MIInv, StoreAtRest
<1>8. PaletteOK(mPalette)
  BY DEF MIInv, InHand
<1>9. StoreSound'
  <2>1. PalettesAgree'
    <3>1. paletteLost' \in BOOLEAN /\ (paletteFile' = Absent \/ PaletteOK(paletteFile'))
      BY <1>3, <1>8 DEF MIInv, StoreSound, PalettesAgree
    <3> QED BY <1>7, <3>1, PalettesAtRest
  <2>2. SessionAgrees' /\ SourceIsMarked' /\ PaletteOK(palette)' /\ ~MayEdit' /\ (passages \in Seq(Sound(Tag, FALSE)))'
    BY <1>7 DEF MIInv, StoreSound, Consistent, SessionAgrees, SourceIsMarked, MayEdit
  <2>3. ResidentAreStored'
    BY <1>7 DEF ResidentAreStored
  <2> QED BY <2>1, <2>2, <2>3, <1>5 DEF StoreSound, Consistent, WellLinked
<1>10. CASE NextSource
  <2>1. InHand' /\ StoreAtRest'
    BY <1>1, <1>7, <1>8, <1>10, NextSourceKeeps
  <2> QED BY <1>5, <1>6, <1>9, <2>1 DEF MIInv
<1>11. CASE mSaved /\ mpc' = "ledger" /\ UNCHANGED <<next, mPassages, mPub, mSaved>>
  <2>1. next \in DOMAIN Sources /\ mPub \in {BookPub[source], LocalPub[source]} /\ Recorded(source)
    BY <1>1, <1>11 DEF MIInv, InHand
  <2>2. source' = source /\ source = Sources[next]
    BY <1>11 DEF source
  <2>3. gone \subseteq gone'
    BY <1>1
  <2>4. Recorded(source)'
    BY <1>4, <1>5, <2>1, <2>2, <2>3, KeptRecords DEF Kept, KeptOrGone
  <2>5. InHand'
    BY <1>1, <1>8, <1>11, <2>1, <2>2, <2>4 DEF MIInv, InHand
  <2> QED BY <1>5, <1>6, <1>7, <1>9, <2>5 DEF MIInv, StoreAtRest
<1> QED BY <1>2, <1>10, <1>11

(* AppendLedger: the source that is recorded is in the store. *)
LEMMA AppendLedgerKeeps == ASSUME ~RenameMayFail, MIInv, AppendLedger PROVE MIInv'
<1>1. UNCHANGED <<vars, gone>> /\ mpc = "ledger" /\ ledgerFile' \subseteq ledgerFile \cup {source}
      /\ ((NextSource /\ UNCHANGED mPalette) \/ RunEnds)
  BY DEF AppendLedger, ledgerRead
<1>2. StoreSound' /\ Kept /\ FilesLoad(WellLinked)'
  BY <1>1, StoreUntouched
<1>3. next \in DOMAIN Sources /\ Recorded(source) /\ source \in SourceSet
  BY <1>1, InHandIs DEF MIInv, InHand
<1>4. FilesLoad(WellLinked) /\ gone \subseteq gone'
  BY <1>1 DEF MIInv, StoreSound, Consistent, WellLinked
<1>5. ASSUME NEW s \in ledgerFile' PROVE Recorded(s)'
  <2>1. s \in SourceSet /\ Recorded(s)
    BY <1>1, <1>3 DEF MIInv
  <2>2. PICK i \in DOMAIN Sources : s = Sources[i]
    BY <2>1 DEF SourceSet
  <2> QED BY <1>2, <1>4, <2>1, <2>2, KeptRecords DEF Kept, KeptOrGone
<1>6. (ledgerFile \subseteq SourceSet)'
  BY <1>1, <1>3 DEF MIInv, SourceSet
<1>7. UNCHANGED <<openPub, palette>> /\ openPub = Absent /\ palette = EmptyPalette
  BY <1>1 DEF vars, memory, session, MIInv, StoreAtRest
<1>9. InHand' /\ StoreAtRest'
  <2>1. CASE NextSource /\ UNCHANGED mPalette
    BY <2>1, <1>7, NextSourceKeeps DEF MIInv, InHand
  <2>2. CASE RunEnds
    BY <2>2, EmptyPaletteOK DEF RunEnds, NothingInHand, InHand, StoreAtRest
  <2> QED BY <1>1, <2>1, <2>2
<1> QED BY <1>2, <1>5, <1>6, <1>9 DEF MIInv

(* EndRun: nothing is left in hand. *)
LEMMA EndRunKeeps == ASSUME MIInv, EndRun PROVE MIInv'
<1>1. UNCHANGED <<vars, ledgerFile, gone>> /\ mpc' = "up" /\ next' = 0 /\ mPalette' = EmptyPalette
  BY DEF EndRun, RunEnds, NothingInHand
<1>2. StoreSound' /\ Kept /\ FilesLoad(WellLinked)'
  BY <1>1, StoreUntouched
<1>3. (\A s \in ledgerFile : Recorded(s))' /\ (ledgerFile \subseteq SourceSet)'
  BY <1>1, <1>2, RecordsStay DEF Kept, KeptOrGone
<1>4. InHand' /\ StoreAtRest'
  BY <1>1, EmptyPaletteOK DEF InHand, StoreAtRest
<1> QED BY <1>2, <1>3, <1>4 DEF MIInv

(* A passage leaves the card only by a removal that told its caller so. *)
LEMMA RemovalIsTold ==
  ASSUME ~RenameMayFail, ~MemoryMayRunOut, StoreSound, NEW i \in DOMAIN passages, removePassage(i),
         "passages" \notin savedOver,
         NEW pub \in Pub, NEW at \in Place, ~(Count(stored(pub), at) <= Count(stored(pub)', at))
  PROVE  result' = "ok" /\ Count(passages', at) < Count(passages, at)
<1> DEFINE rest == RemoveAt(passages, i)
<1>1. /\ Consistent(Tag, FALSE) /\ passages \in Seq(WellLinked) /\ FilesLoad(WellLinked) /\ FilesLoad(Sound(Tag, FALSE))
      /\ UNCHANGED session
  BY DEF StoreSound, Consistent, WellLinked, removePassage
<1>2. MayEdit /\ openPub \in Pub /\ loadedCleanly /\ AsStored(passages, openPub)
  <2>1. MayEdit
    BY DEF removePassage
  <2>2. "passages" \notin overlooked
    BY <2>1 DEF savedOver
  <2> QED BY <1>1, <2>1, <2>2 DEF MayEdit, Consistent, SessionAgrees, StoreSound, ResidentAreStored, AsStored
<1>3. rest \in Seq(WellLinked) /\ rest \in Seq(Sound(Tag, FALSE))
  BY <1>1, PassagesInRemoved DEF WellLinked
<1>4. Count(stored(pub), at) \in Nat /\ Count(rest, at) \in Nat
  BY <1>1, <1>3, StoredIsSound, CountsAre DEF WellLinked
<1>5. CASE save(FALSE, rest)
  <2>1. stored(pub)' = stored(pub)
    <3>1. "passages" \notin overlooked
      BY <1>2 DEF savedOver
    <3> HIDE DEF rest
    <3> QED BY <1>1, <1>2, <1>3, <1>5, <3>1, AfterSave
  <2> QED BY <1>4, <2>1
<1>6. CASE save(TRUE, rest) /\ told(TRUE) /\ passages' = rest
  <2> HIDE DEF rest
  <2>1. /\ openPub' = openPub /\ stored(openPub)' = rest
        /\ \A p \in Pub : p # openPub => stored(p)' = stored(p)
    <3>1. openPub' = openPub
      BY <1>1 DEF session
    <3>2. passageFile' = [passageFile EXCEPT ![openPub] = rest]
      BY <1>6 DEF save
    <3>3. rest # Absent
      BY <1>3, DocumentIsNoAbsence
    <3> QED BY <1>1, <1>2, <3>1, <3>2, <3>3 DEF FilesLoad, stored
  <2>2. pub = openPub
    BY <1>4, <2>1
  <2>3. stored(pub)' = rest
    BY <2>1, <2>2 DEF stored
  <2>4. Count(passages, at) = Count(stored(pub), at)
    BY <1>2, <2>2 DEF AsStored
  <2>5. Count(passages', at) < Count(passages, at)
    BY <1>4, <1>6, <2>3, <2>4
  <2>6. result' = "ok"
    BY <1>6 DEF told
  <2> QED BY <2>5, <2>6
<1>7. save(FALSE, rest) \/ (save(TRUE, rest) /\ told(TRUE) /\ passages' = rest)
  <2>1. PICK ok \in BOOLEAN : save(ok, rest) /\ told(ok) /\ (ok = TRUE => passages' = rest)
    BY DEF removePassage, removeAt
  <2> QED BY <2>1
<1> QED BY <1>5, <1>6, <1>7

(* UseStore: the steps of the study store, with any tags. *)
LEMMA UseStoreKeeps ==
  ASSUME ~RenameMayFail, ~MemoryMayRunOut, MIInv, UseStore
  PROVE  MIInv' /\ (KeptUnseen \/ \E i \in DOMAIN passages : mpc = "up" /\ removePassage(i))
<1>1. /\ mpc = "up" /\ UNCHANGED <<ledgerFile, mpc, locals>>
      /\ gone' = gone \cup {at \in Place : result' = "ok" /\ Count(passages', at) < Count(passages, at)}
                      \cup (IF "passages" \in savedOver THEN losing ELSE {})
  BY DEF UseStore
<1>2. Next
  BY DEF UseStore, Next
<1>3. StoreSound /\ PalettesAgree /\ Consistent(Tag, FALSE) /\ ResidentAreStored
  BY DEF MIInv, StoreSound
<1>4. PalettesAgree'
  BY <1>2, <1>3, PaletteSteps
<1>5. passages' \in Seq(Sound(Tag, FALSE)) /\ FilesLoad(Sound(Tag, FALSE))'
  BY <1>2, <1>3, DocumentSteps DEF FilesLoad
<1>6. SessionAgrees' /\ SourceIsMarked'
  BY <1>2, <1>3, SessionSteps, MarkSteps DEF Consistent
<1>7. ResidentAreStored' /\ ((\E i \in DOMAIN passages : removePassage(i)) \/ ~Loses)
  BY <1>2, <1>3, ResidentSteps
<1>8. PaletteOK(palette') /\ ActiveLabels(palette') \subseteq Tag
  BY <1>4, LabelsAreTags DEF PalettesAgree
<1>9. StoreSound'
  BY <1>4, <1>5, <1>6, <1>7, <1>8 DEF StoreSound, Consistent
<1>10. ~Loses => KeptUnseen
  BY <1>1 DEF Loses, AsMany, KeptUnseen, SavesOver
<1>11. KeptOrGone
  <2>1. CASE "passages" \in savedOver
    BY <1>1, <1>3, <1>5, <2>1, LostIsGone DEF Consistent, WellLinked
  <2>2. CASE "passages" \notin savedOver /\ ~Loses
    BY <2>2 DEF Loses, AsMany, KeptOrGone
  <2>3. ASSUME NEW i \in DOMAIN passages, removePassage(i), "passages" \notin savedOver PROVE KeptOrGone
    BY <1>1, <1>3, <2>3, RemovalIsTold DEF KeptOrGone
  <2> QED BY <1>7, <2>1, <2>2, <2>3
<1>12. (\A s \in ledgerFile : Recorded(s))' /\ (ledgerFile \subseteq SourceSet)'
  BY <1>1, <1>5, <1>11, RecordsStay DEF WellLinked
<1>13. InHand' /\ StoreAtRest'
  BY <1>1 DEF locals, MIInv, InHand, StoreAtRest
<1> QED BY <1>1, <1>7, <1>9, <1>10, <1>12, <1>13 DEF MIInv

(* PowerCut: the files stay, but for one that is being saved over. *)
LEMMA PowerCutKeeps == ASSUME MIInv, PowerCut PROVE MIInv' /\ KeptUnseen
<1>1. /\ memoryLost /\ UNCHANGED ledgerFile /\ gone' = gone \cup losing
      /\ mpc' = "boot" /\ next' = 0 /\ mPalette' = EmptyPalette
  BY DEF PowerCut, NothingInHand
<1>2. PICK p, missed : cutShort(p, missed) /\ ("passages" \in missed => SavesOver(p))
  <2>1. CASE mpc = "up"
    BY <2>1 DEF PowerCut, SavesOver
  <2>2. CASE mpc # "up"
    BY <2>2 DEF PowerCut, SavesOver
  <2> QED BY <2>1, <2>2
<1>3. FilesLoad(WellLinked) /\ FilesLoad(WellLinked)'
  <2>1. FilesLoad(WellLinked)
    BY DEF MIInv, StoreSound, Consistent, WellLinked
  <2> QED BY <2>1, <1>2, CutKeeps DEF FilesLoad, WellLinked
<1>4. KeptUnseen
  <2>1. ASSUME NEW pub \in Pub, NEW at \in Place, ~SavesOver(pub) PROVE Count(stored(pub), at) <= Count(stored(pub)', at)
    <3>1. passageFile'[pub] = passageFile[pub]
      BY <1>2, <1>3, <2>1, CutKeeps
    <3>2. stored(pub)' = stored(pub)
      BY <3>1 DEF stored
    <3>3. Count(stored(pub), at) \in Nat
      BY <1>3, StoredIsSound, CountsAre DEF WellLinked
    <3> QED BY <3>2, <3>3
  <2> QED BY <2>1 DEF KeptUnseen
<1>5. (\A s \in ledgerFile : Recorded(s))' /\ (ledgerFile \subseteq SourceSet)'
  BY <1>1, <1>3, RecordsStay, LostIsGone
<1>6. openPub' = Absent /\ palette' = EmptyPalette /\ ~MayEdit'
  BY <1>1 DEF memoryLost, MayEdit
<1>7. PalettesAgree'
  <2>1. /\ paletteFile' \in {paletteFile, Absent}
        /\ paletteLost' = (paletteLost \/ paletteFile' # paletteFile)
    BY <1>2 DEF cutShort, AfterCut
  <2>2. paletteLost' \in BOOLEAN /\ (paletteFile' = Absent \/ PaletteOK(paletteFile'))
    BY <2>1 DEF MIInv, StoreSound, PalettesAgree
  <2> QED BY <1>6, <2>2, PalettesAtRest
<1>8. SessionAgrees' /\ SourceIsMarked' /\ ResidentAreStored' /\ passages' \in Seq(Sound(Tag, FALSE))
  BY <1>1, <1>6 DEF memoryLost, SessionAgrees, SourceIsMarked, ResidentAreStored, NoPassages
<1>9. StoreSound'
  BY <1>3, <1>6, <1>7, <1>8, EmptyPaletteOK DEF StoreSound, Consistent, WellLinked
<1>10. InHand' /\ StoreAtRest'
  BY <1>1, <1>6, EmptyPaletteOK DEF InHand, StoreAtRest
<1> QED BY <1>5, <1>9, <1>10, <1>4 DEF MIInv

(* Every step keeps the invariant, and only a removal loses a passage. *)
LEMMA MigrationSteps ==
  ASSUME ~RenameMayFail, ~MemoryMayRunOut, MIInv, [MNext]_allVars
  PROVE  MIInv' /\ (KeptUnseen \/ \E i \in DOMAIN passages : mpc = "up" /\ removePassage(i))
<1>1. Kept => KeptUnseen
  BY DEF Kept, KeptUnseen
<1>2. UNCHANGED vars => KeptUnseen
  BY <1>1, StoreUntouched
<1>3. CASE StartRun
  BY <1>2, <1>3, StartRunKeeps DEF StartRun
<1>4. CASE SkipSource \/ SourceTakenForEmpty
  BY <1>2, <1>4, SkipSourceKeeps, SourceTakenForEmptyKeeps DEF SkipSource, SourceTakenForEmpty
<1>5. CASE PlanSource
  BY <1>2, <1>5, PlanSourceKeeps DEF PlanSource
<1>6. CASE SavePassages \/ SavePalette
  BY <1>6, <1>1, SavePassagesKeeps, SavePaletteKeeps
<1>7. CASE AppendLedger
  BY <1>2, <1>7, AppendLedgerKeeps DEF AppendLedger
<1>8. CASE EndRun
  BY <1>2, <1>8, EndRunKeeps DEF EndRun
<1>9. CASE UseStore
  BY <1>9, UseStoreKeeps
<1>10. CASE PowerCut
  BY <1>10, PowerCutKeeps
<1>11. CASE UNCHANGED allVars
  <2>1. StoreSound' /\ Kept /\ FilesLoad(WellLinked)'
    BY <1>11, StoreUntouched DEF allVars
  <2>2. (\A s \in ledgerFile : Recorded(s))' /\ (ledgerFile \subseteq SourceSet)'
    BY <1>11, <2>1, RecordsStay DEF allVars, mvars, Kept, KeptOrGone
  <2>3. InHand' /\ StoreAtRest'
    <3>1. UNCHANGED <<mpc, next, mPalette, mPassages, mPub, mSaved, mOverlooked, gone, passageFile, openPub, palette>>
      BY <1>11 DEF allVars, vars, files, memory, session, mvars, locals
    <3> QED BY <3>1 DEF MIInv, InHand, StoreAtRest, Planned, Recorded, source, stored
  <2> QED BY <1>1, <2>1, <2>2, <2>3 DEF MIInv
<1> QED BY <1>3, <1>4, <1>5, <1>6, <1>7, <1>8, <1>9, <1>10, <1>11 DEF MNext, Migrate

(* Every reachable state of the migration and the store after it satisfies *)
(* the inductive invariant, if renames do not fail half-way and memory does*)
(* not run out.                                                            *)
THEOREM MigrationInvariantHolds ==
  ASSUME ~RenameMayFail, ~MemoryMayRunOut PROVE MSpec => []MIInv
<1>1. MInit => MIInv
  BY InitMIInv
<1>2. MIInv /\ [MNext]_allVars => MIInv'
  BY MigrationSteps
<1> QED BY <1>1, <1>2, PTL DEF MSpec

(* "Each source file is recorded in a ledger only after its passages are   *)
(* safely written" (MigrationRunner.h), for any sources, highlights, power *)
(* cuts and failures of reads and writes: what is missing was removed,     *)
(* refused by a full store, or lost in a file that was taken for none.     *)
THEOREM LedgerIsTrue ==
  ASSUME ~RenameMayFail, ~MemoryMayRunOut PROVE MSpec => []LedgeredIsStored
<1>1. MIInv => LedgeredIsStored
  BY DEF MIInv, Recorded, LedgeredIsStored
<1> QED BY <1>1, MigrationInvariantHolds, PTL

(* No run, whatever it reads, fails to save or is cut off in, takes a      *)
(* stored passage from the card, but from a file it took for none.         *)
THEOREM MigrationKeepsAll ==
  ASSUME ~RenameMayFail, ~MemoryMayRunOut PROVE MSpec => MigrationLosesNothing
<1>1. MIInv /\ [MNext]_allVars =>
         [\/ \A pub \in Pub, at \in Place : SavesOver(pub) \/ Count(stored(pub), at) <= Count(stored(pub)', at)
          \/ \E i \in DOMAIN passages : mpc = "up" /\ removePassage(i)]_allVars
  BY MigrationSteps DEF KeptUnseen
<1> QED BY <1>1, MigrationInvariantHolds, PTL DEF MSpec, MigrationLosesNothing
=============================================================================
