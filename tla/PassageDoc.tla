---------------------------- MODULE PassageDoc ------------------------------
(***************************************************************************)
(* lib/StudyStore PassageDoc: a publication's tagged passages, in the      *)
(* order they were added, addressed by index.  A passage is its place (its *)
(* start unit), its tags, the places it links to, the edition of the book  *)
(* its fingerprint was taken from, and the edition its whole text was read *)
(* from; a passage of an older build only has a snippet.  A tag is its id  *)
(* with, for the properties only, the name it had when it was put on the   *)
(* passage; UNLABELLED is the empty set.                                   *)
(***************************************************************************)
EXTENDS Integers, FiniteSets, SequencesExt, Ascending

CONSTANTS
    Place,      \* units
    MaxLinks,   \* MAX_LINKS_PER_PASSAGE
    Unknown,    \* no fingerprint; no whole text
    Budget      \* SAVE_BYTE_BUDGET, in passages, whole texts, tags and links

ASSUME LinksAreBounded == MaxLinks \in Nat

Count(doc, place) == Cardinality({i \in DOMAIN doc : doc[i].at = place})

CountWhole(doc, place) == Cardinality({i \in DOMAIN doc : doc[i].at = place /\ doc[i].text # Unknown})

weight(p) == (IF p.text = Unknown THEN 1 ELSE 2) + Cardinality(p.tags) + Len(p.links)

measure(doc) == FoldSeq(LAMBDA p, n : n + weight(p), 0, doc)

fits(doc) == measure(doc) <= Budget

normaliseTags(tags) == {t \in tags : t.id # 0}

(* No link to the passage itself, none twice, and no more than MaxLinks. *)
normaliseLinks(links, at) ==
    LET valid == {i \in DOMAIN links : links[i] # at /\ \A j \in 1..(i - 1) : links[j] # links[i]}
        order == InOrder(valid)
    IN  [k \in {i \in DOMAIN order : i <= MaxLinks} |-> links[order[k]]]

addTo(doc, p) ==
    Append(doc, [p EXCEPT !.tags = normaliseTags(@), !.links = normaliseLinks(@, p.at)])

removeAt(doc, i) == RemoveAt(doc, i)

setTags(doc, i, tags) == [doc EXCEPT ![i].tags = normaliseTags(tags)]

removeTagEverywhere(doc, id) ==
    [i \in DOMAIN doc |-> [doc[i] EXCEPT !.tags = {t \in @ : t.id # id}]]

setWholeTexts(doc, rows, edition) ==
    [i \in DOMAIN doc |-> IF i \in rows THEN [doc[i] EXCEPT !.text = edition] ELSE doc[i]]

link(doc, s, t) == [doc EXCEPT ![s].links = Append(@, doc[t].at)]

linkResult(doc, s, t) ==
    CASE t > Len(doc) -> "NoSuchPassage"
      [] doc[t].at = doc[s].at -> "SelfLink"
      [] Contains(doc[s].links, doc[t].at) -> "AlreadyLinked"
      [] Len(doc[s].links) >= MaxLinks -> "AtCap"
      [] ~fits(link(doc, s, t)) -> "OverBudget"
      [] OTHER -> "Linked"

removeLinkAt(doc, i, l) == [doc EXCEPT ![i].links = RemoveAt(@, l)]

setLinks(doc, i, links) == [doc EXCEPT ![i].links = normaliseLinks(links, doc[i].at)]
=============================================================================
