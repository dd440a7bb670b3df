---------------------------- MODULE TagPalette ------------------------------
(***************************************************************************)
(* lib/StudyStore TagPalette: the device's tag vocabulary.  An entry is    *)
(* never removed; retiring one leaves its name behind, for passages that   *)
(* still carry its id.                                                     *)
(***************************************************************************)
EXTENDS Integers, Sequences, FiniteSets, FiniteSetsExt, Ascending

CONSTANTS
    Name,        \* tag names
    NoName,      \* the empty string
    MaxRaw,      \* UINT16_MAX
    MaxActive    \* MAX_ACTIVE_TAGS

ASSUME SomeIds == MaxRaw \in Nat \ {0}

TagId == 0..MaxRaw
UNLABELLED == 0      \* also what a refused add hands back here: never a tag's id
NoId == -1

Entry == [id : TagId, name : Name, active : BOOLEAN]
Palette == [entries : Seq(Entry), next : TagId]

EmptyPalette == [entries |-> <<>>, next |-> 1]

activeEntries(p) == {p.entries[i] : i \in {j \in DOMAIN p.entries : p.entries[j].active}}

activeIds(p) == {e.id : e \in activeEntries(p)}

activeCount(p) == Cardinality({i \in DOMAIN p.entries : p.entries[i].active})

(* The first entry decides, as in the code's scan. *)
nameOf(p, id) ==
    LET hits == {i \in DOMAIN p.entries : p.entries[i].id = id}
    IN  IF hits = {} THEN NoName ELSE p.entries[Min(hits)].name

(* Mutation: ids are positions, the new tag takes the number of tags that  *)
(* are active.                                                             *)
nextByCount(p) == activeCount(p) + 1

nextId(p) == p.next

(* A known name is revived under its own id; a new one gets a fresh id     *)
(* unless the palette is full or the ids have run out.                     *)
addName(p, name) ==
    LET known == {i \in DOMAIN p.entries : p.entries[i].name = name}
    IN  CASE known # {} ->
                [palette |-> [p EXCEPT !.entries[Min(known)].active = TRUE],
                 id |-> p.entries[Min(known)].id]
          [] known = {} /\ (activeCount(p) >= MaxActive \/ p.next = MaxRaw) ->
                [palette |-> p, id |-> NoId]
          [] OTHER ->
                [palette |-> [entries |-> Append(p.entries, [id |-> nextId(p), name |-> name, active |-> TRUE]),
                              next |-> p.next + 1],
                 id |-> nextId(p)]

retire(p, id) ==
    [p EXCEPT !.entries = [i \in DOMAIN @ |-> IF @[i].id = id THEN [@[i] EXCEPT !.active = FALSE] ELSE @[i]]]

(* fromJson: ids 0 and repeats are skipped, and the next id is one that no *)
(* entry has, cut to 16 bits.                                              *)
fromJson(p) ==
    LET firsts == {i \in DOMAIN p.entries :
                      p.entries[i].id # UNLABELLED /\ \A j \in 1..(i - 1) : p.entries[j].id # p.entries[i].id}
        order == InOrder(firsts)
        highest == Max({p.entries[i].id : i \in firsts} \cup {0})
    IN  [entries |-> [k \in DOMAIN order |-> p.entries[order[k]]],
         next |-> Max({p.next, highest + 1}) % (MaxRaw + 1)]
=============================================================================
