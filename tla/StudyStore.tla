---------------------------- MODULE StudyStore ------------------------------
(***************************************************************************)
(* src/study/StudyStore.{h,cpp}: the tag palette and the passages of the   *)
(* open publication, in memory and on the card.                            *)
(*                                                                         *)
(* An edit is synchronous: it changes memory, saves, and undoes itself     *)
(* when the save fails.  PersistableStore models the save; here it leaves  *)
(* on the card the new document, the old one, or (its rename failed after  *)
(* the .tmp was complete) a failure that the next load turns into the new. *)
(* Under which of its two names a document is, is left out: what can happen*)
(* to one that is under the .tmp name alone may happen to any (AdoptedLoad,*)
(* AfterCut).                                                              *)
(***************************************************************************)
EXTENDS TagPalette, PassageDoc, Integers, Sequences, FiniteSets, TLC

CONSTANTS
    Pub,             \* pubkeys
    Edition,         \* of the text of a book, under one pubkey
    Absent,          \* no file, or no publication
    MaxTags,         \* MAX_TAGS_PER_PASSAGE
    WriteMayFail, RenameMayFail, ReadMayFail,
    UnitMayFail,     \* a unit's text may be unreadable when its span is not
    MemoryMayRunOut  \* a JSON document may overflow

VARIABLES
    paletteFile,     \* what the next load of tags.json finds
    passageFile,     \* and of each publication's passages
    palette, passages, openPub, saveDisabled, loadedCleanly,   \* the members
    book,            \* the edition of the book that is open
    opened,          \* it was just opened, and its texts are to be repaired
    linkSource,      \* 0: no link source is marked
    retiring,        \* the tag retireTag is about to drop from the passages
    result,          \* what the last edit told its caller
    marked,          \* ghost: the place the user marked as link source
    overlooked,      \* ghost: the files this session's loads took for none
    paletteLost      \* ghost: the palette was saved over, or lost, unseen

files == <<paletteFile, passageFile, overlooked, paletteLost>>
memory == <<palette, passages, linkSource>>
session == <<openPub, saveDisabled, loadedCleanly, book>>
steps == <<opened, retiring>>
vars == <<files, memory, session, steps, result, marked>>

Tag == [id : TagId \ {UNLABELLED}, name : Name]
Passage == [at : Place, tags : SUBSET Tag, links : Seq(Place),
            of : Edition \cup {Unknown}, text : Edition \cup {Unknown}]

NoPassages == <<>>

ASSUME AbsentIsNoFile == Absent \notin Palette /\ Absent \notin Seq(Passage) /\ Absent \notin Pub
ASSUME UnknownIsNoEdition == Unknown \notin Edition

(* A missing file loads as no passages. *)
stored(pub) == IF passageFile[pub] = Absent THEN NoPassages ELSE passageFile[pub]

paletteStored == IF paletteFile = Absent THEN EmptyPalette ELSE paletteFile

(* The passages of an older build have no whole text; it kept the budget.  *)
OldPassage(at, edition) == [at |-> at, tags |-> {}, links |-> <<>>, of |-> edition, text |-> Unknown]

OldFiles ==
    {Absent} \cup {doc \in {<<OldPassage(p, edition), OldPassage(q, edition)>> :
                               p, q \in Place, edition \in Edition} : fits(doc)}

InitAt(fileSet) ==
    /\ paletteFile = Absent /\ passageFile \in [Pub -> fileSet]
    /\ book = Unknown /\ opened = FALSE
    /\ palette = EmptyPalette /\ passages = NoPassages
    /\ openPub = Absent /\ saveDisabled = FALSE /\ loadedCleanly = FALSE
    /\ linkSource = 0 /\ marked = Absent
    /\ retiring = NoId /\ result = "none"
    /\ overlooked = {} /\ paletteLost = FALSE

Init == InitAt(OldFiles)

-----------------------------------------------------------------------------
(* Saves *)

(* A write truncates the .tmp name first, be it the old document's only    *)
(* one: taken for none, or left there by a rename that failed.             *)
AfterCut(old, onlyTemp) == {old} \cup (IF onlyTemp THEN {Absent} ELSE {})

(* A failed save that is undone leaves old, or new under the .tmp name.    *)
AfterFailure(old, new, missed) ==
    AfterCut(old, missed \/ RenameMayFail) \cup (IF RenameMayFail THEN {new} ELSE {})

SaveMayFail == WriteMayFail \/ RenameMayFail \/ MemoryMayRunOut

writePalette(ok, new, missed) ==
    /\ \/ ok /\ paletteFile' = new
       \/ ~ok /\ SaveMayFail /\ paletteFile' \in AfterFailure(paletteFile, new, missed)
    /\ paletteLost' = (paletteLost \/ (paletteFile' # paletteFile /\ (missed \/ paletteFile' = Absent)))

(* What was saved whole is the file from then on. *)
seen(file, ok) == overlooked' = IF ok THEN overlooked \ {file} ELSE overlooked

savePalette(ok, new) ==
    writePalette(ok, new, "palette" \in overlooked) /\ seen("palette", ok) /\ UNCHANGED passageFile

(* Mutation: the document is not measured before it is written. *)
anySize(doc) == TRUE

(* PassageFile::save: Ok, TooLarge or WriteFailed. *)
withinBudget(doc) == fits(doc)

save(ok, new) ==
    /\ \/ ok /\ withinBudget(new) /\ passageFile' = [passageFile EXCEPT ![openPub] = new]
       \/ ~ok /\ ~withinBudget(new) /\ UNCHANGED passageFile
       \/ /\ ~ok /\ SaveMayFail /\ withinBudget(new)
          /\ \E content \in AfterFailure(passageFile[openPub], new, "passages" \in overlooked) :
                 passageFile' = [passageFile EXCEPT ![openPub] = content]
    /\ seen("passages", ok) /\ UNCHANGED <<paletteFile, paletteLost>>

(* Mutation: edits are not refused after a failed load. *)
MayAlwaysEdit == openPub # Absent

MayEdit == openPub # Absent /\ ~saveDisabled

Idle == retiring = NoId /\ ~opened

told(ok) == result' = IF ok THEN "ok" ELSE "failed"

-----------------------------------------------------------------------------
(* Opening *)

(* What a load reports of a file (TempAdoption.h). One that is there is    *)
(* taken for none when its lookup fails, or when it is under the .tmp name *)
(* alone and cannot be read; saving over it stays allowed.                 *)
AdoptedLoad(file) ==
    IF file = Absent THEN {"Empty"} ELSE {"Loaded"} \cup (IF ReadMayFail THEN {"Failed", "Empty"} ELSE {})

(* closePublication is its first step; the palette stays resident.         *)
openPublication(pub) ==
    /\ Idle
    /\ \E p \in AdoptedLoad(paletteFile), q \in AdoptedLoad(passageFile[pub]) :
           /\ palette' = IF p = "Loaded" THEN fromJson(paletteFile) ELSE palette
           /\ passages' = IF q = "Loaded" THEN passageFile[pub] ELSE NoPassages
           /\ saveDisabled' = (saveDisabled \/ "Failed" \in {p, q})
           /\ loadedCleanly' = ("Failed" \notin {p, q})
           /\ overlooked' = {file \in {"palette", "passages"} :
                  \/ /\ file = "palette" /\ p # "Loaded"
                     /\ file \in overlooked \/ (palette = EmptyPalette /\ paletteFile # Absent)
                  \/ file = "passages" /\ q = "Empty" /\ passageFile[pub] # Absent}
    /\ openPub' = pub /\ book' \in Edition /\ linkSource' = 0 /\ marked' = Absent
    /\ opened' = TRUE /\ result' = "none"
    /\ UNCHANGED <<paletteFile, passageFile, paletteLost, retiring>>

(* The reader comes back to the book that is open. *)
resumePublication ==
    /\ Idle /\ openPub # Absent /\ loadedCleanly
    /\ linkSource' = 0 /\ marked' = Absent /\ opened' = TRUE /\ result' = "none"
    /\ UNCHANGED <<files, palette, passages, session, retiring>>

(* planTextRepair: the text at the address is not the one that was tagged. *)
otherText(p) == p.of # Unknown /\ p.of # book /\ ~UnitMayFail

(* Mutation: the fingerprint is not compared. *)
anyText(p) == FALSE

mismatch(p) == otherText(p)

rebuildable == {i \in DOMAIN passages : passages[i].text = Unknown /\ ~mismatch(passages[i])}

(* loadBook's last step: the whole texts of any of the passages whose      *)
(* address is found, in the time there is, and one save.                   *)
repairTexts ==
    /\ opened /\ opened' = FALSE
    /\ \E rows \in SUBSET rebuildable :
           LET rebuilt == setWholeTexts(passages, rows, book)
           IN  /\ saveDisabled => rows = {}
               /\ fits(rebuilt) \/ rows = {}
               /\ \/ rows = {} /\ UNCHANGED <<files, passages>>
                  \/ /\ rows # {}
                     /\ \E ok \in BOOLEAN :
                            save(ok, rebuilt) /\ passages' = IF ok THEN rebuilt ELSE passages
    /\ UNCHANGED <<palette, linkSource, session, retiring, result, marked>>

-----------------------------------------------------------------------------
(* The palette *)

(* A new tag that was not saved is retired again: never selectable.        *)
addTagName(name) ==
    /\ Idle /\ MayEdit
    /\ LET added == addName(palette, name)
           fresh == activeCount(added.palette) # activeCount(palette)
       IN  \/ /\ ~fresh                       \* refused, or nothing to persist
              /\ palette' = added.palette /\ told(added.id # NoId)
              /\ UNCHANGED files
           \/ /\ fresh
              /\ \E ok \in BOOLEAN :
                     /\ savePalette(ok, added.palette) /\ told(ok)
                     /\ palette' = IF ok THEN added.palette ELSE retire(added.palette, added.id)
    /\ UNCHANGED <<passages, linkSource, session, steps, marked>>

(* retireTag, up to the palette's save: a failure keeps the tag retired in *)
(* memory.                                                                 *)
retireTag(id) ==
    /\ Idle /\ MayEdit
    /\ palette' = retire(palette, id)
    /\ \E ok \in BOOLEAN :
           /\ savePalette(ok, palette') /\ told(ok)
           /\ retiring' = IF ok THEN id ELSE NoId
    /\ UNCHANGED <<passages, linkSource, session, opened, marked>>

(* ... and its second half: the open publication's passages. *)
retireFromPassages ==
    /\ retiring # NoId
    /\ passages' = removeTagEverywhere(passages, retiring)
    /\ \E ok \in BOOLEAN : save(ok, passages') /\ told(ok)
    /\ retiring' = NoId
    /\ UNCHANGED <<palette, linkSource, session, opened, marked>>

-----------------------------------------------------------------------------
(* Passages *)

(* The picker offers the active tags. *)
Picked == {[id |-> e.id, name |-> e.name] : e \in activeEntries(palette)}

PickedTags == {tags \in SUBSET Picked : Cardinality(tags) <= MaxTags}

(* Mutation: a failed save leaves the passage resident. *)
AdditionKept(doc) == doc

AdditionUndone(doc) == removeAt(doc, Len(doc))

(* Refused too when the text cannot be read whole. *)
addPassage(at, tags) ==
    /\ Idle /\ MayEdit
    /\ LET added == addTo(passages, [at |-> at, tags |-> tags, links |-> <<>>, of |-> book, text |-> book])
       IN  \/ told(FALSE) /\ UNCHANGED <<files, passages>>
           \/ /\ fits(added)
              /\ \E ok \in BOOLEAN :
                     /\ save(ok, added) /\ told(ok)
                     /\ passages' = IF ok THEN added ELSE AdditionUndone(added)
    /\ UNCHANGED <<palette, linkSource, session, steps, marked>>

(* Mutation: the marked source keeps its index. *)
SourceKept == UNCHANGED <<linkSource, marked>>

SourceForgotten == linkSource' = 0 /\ marked' = Absent

(* A failed removal adds the passage again, at the end; the add measures   *)
(* the document, and refuses when memory has run out.                      *)
removePassage(i) ==
    /\ Idle /\ MayEdit
    /\ LET rest == removeAt(passages, i)
       IN  \E ok \in BOOLEAN :
               /\ save(ok, rest) /\ told(ok)
               /\ \/ ok /\ passages' = rest
                  \/ ~ok /\ passages' = addTo(rest, passages[i])
                  \/ ~ok /\ MemoryMayRunOut /\ passages' = rest
    /\ SourceForgotten
    /\ UNCHANGED <<palette, session, steps>>

setPassageTags(i, tags) ==
    /\ Idle /\ MayEdit
    /\ LET changed == setTags(passages, i, tags)
       IN  \E ok \in BOOLEAN :
               /\ save(ok, changed) /\ told(ok)
               /\ passages' = IF ok THEN changed ELSE setTags(changed, i, passages[i].tags)
    /\ UNCHANGED <<palette, linkSource, session, steps, marked>>

markLinkSource(i) ==
    /\ Idle
    /\ linkSource' = i /\ marked' = passages[i].at /\ result' = "none"
    /\ UNCHANGED <<files, palette, passages, session, steps>>

linkMarkedSourceTo(t) ==
    /\ Idle /\ linkSource # 0 /\ MayEdit
    /\ LET linked == link(passages, linkSource, t)
       IN  \/ /\ linkResult(passages, linkSource, t) # "Linked"
              /\ told(FALSE) /\ UNCHANGED <<files, passages>>
           \/ /\ linkResult(passages, linkSource, t) = "Linked"
              /\ \E ok \in BOOLEAN :
                     /\ save(ok, linked) /\ told(ok)
                     /\ passages' = IF ok THEN linked
                                    ELSE removeLinkAt(linked, linkSource, Len(linked[linkSource].links))
    /\ UNCHANGED <<palette, linkSource, session, steps, marked>>

removeLink(i, l) ==
    /\ Idle /\ MayEdit
    /\ LET changed == removeLinkAt(passages, i, l)
       IN  \E ok \in BOOLEAN :
               /\ save(ok, changed) /\ told(ok)
               /\ passages' = IF ok THEN changed ELSE setLinks(changed, i, passages[i].links)
    /\ UNCHANGED <<palette, linkSource, session, steps, marked>>

-----------------------------------------------------------------------------
(* The power goes, at any step: memory is lost ... *)
memoryLost ==
    /\ palette' = EmptyPalette /\ passages' = NoPassages
    /\ openPub' = Absent /\ book' = Unknown /\ saveDisabled' = FALSE /\ loadedCleanly' = FALSE /\ opened' = FALSE
    /\ linkSource' = 0 /\ marked' = Absent /\ retiring' = NoId /\ result' = "none"
    /\ overlooked' = {}

(* ... and a save over a file that was taken for none may be cut short.    *)
cutShort(pub, missed) ==
    /\ paletteFile' \in AfterCut(paletteFile, "palette" \in missed)
    /\ paletteLost' = (paletteLost \/ paletteFile' # paletteFile)
    /\ passageFile' \in {passageFile} \cup
           {[passageFile EXCEPT ![pub] = Absent] : file \in missed \cap {"passages"}}

savedOver == IF MayEdit THEN overlooked ELSE {}

PowerLoss == openPub # Absent /\ memoryLost /\ cutShort(openPub, savedOver)

EditTagsAndPassages ==
    \/ \E name \in Name : addTagName(name)
    \/ \E id \in activeIds(palette) : retireTag(id)
    \/ retireFromPassages
    \/ \E at \in Place, tags \in PickedTags : addPassage(at, tags)
    \/ \E i \in DOMAIN passages :
           \/ removePassage(i)
           \/ \E tags \in PickedTags : setPassageTags(i, tags)

EditLinks ==
    \E i \in DOMAIN passages :
        \/ markLinkSource(i)
        \/ linkMarkedSourceTo(i)
        \/ \E l \in DOMAIN passages[i].links : removeLink(i, l)

Next ==
    \/ \E pub \in Pub : openPublication(pub)
    \/ resumePublication \/ repairTexts
    \/ EditTagsAndPassages \/ EditLinks
    \/ PowerLoss

Spec == Init /\ [][Next]_vars

-----------------------------------------------------------------------------
(* Properties *)

DocOK(doc) ==
    /\ fits(doc)
    /\ \A i \in DOMAIN doc :
           Len(doc[i].links) <= MaxLinks /\ doc[i].links = normaliseLinks(doc[i].links, doc[i].at)

(* Types; memory keeps within the byte budget too. *)
TypeOK ==
    /\ paletteFile \in Palette \cup {Absent} /\ palette \in Palette
    /\ \A pub \in Pub : passageFile[pub] = Absent \/ passageFile[pub] \in Seq(Passage)
    /\ passages \in Seq(Passage) /\ DocOK(passages)
    /\ openPub \in Pub \cup {Absent} /\ book \in Edition \cup {Unknown} /\ opened \in BOOLEAN
    /\ saveDisabled \in BOOLEAN /\ loadedCleanly \in BOOLEAN
    /\ linkSource \in 0..Len(passages) /\ marked \in Place \cup {Absent}
    /\ retiring \in TagId \cup {NoId} /\ result \in {"none", "ok", "failed"}
    /\ overlooked \subseteq {"palette", "passages"} /\ paletteLost \in BOOLEAN

(* What is on the card is what a load accepts, within the budget and with  *)
(* links it need not repair: a refused file would shut the study store for *)
(* the session. Only the save measures the tags of a passage once added.   *)
WhatIsSavedLoads == \A pub \in Pub : passageFile[pub] = Absent \/ DocOK(passageFile[pub])

KeepsMeaning(doc) ==
    \A i \in DOMAIN doc : \A t \in doc[i].tags : nameOf(paletteStored, t.id) = t.name

(* "An id can never be in use but unrecorded" (StudyStore.h), and never    *)
(* comes to mean another tag: every tag of every passage, of any           *)
(* publication and in memory, has on the card the name it was put on under,*)
(* whatever fails, until a palette that a load took for none is saved over *)
(* or the palette's only copy is truncated.                                *)
TagsKeepTheirMeaning ==
    ~paletteLost => KeepsMeaning(passages) /\ \A pub \in Pub : KeepsMeaning(stored(pub))

(* The index kept for the link source denotes the passage the user marked, *)
(* across additions, removals, failed removals and retirements.            *)
LinkSourceIsMarked == linkSource # 0 => linkSource <= Len(passages) /\ passages[linkSource].at = marked

(* A stored passage, and a whole text once there is one, leaves the card   *)
(* only by the passage's own removal: not by a failed edit or repair, a    *)
(* retired tag, a load that failed or a loss of power. The exception is a  *)
(* publication whose file was taken for none: it is saved over.            *)
NothingLost ==
    [][\/ \A pub \in Pub, at \in Place :
           \/ /\ Count(stored(pub), at) <= Count(stored(pub)', at)
              /\ CountWhole(stored(pub), at) <= CountWhole(stored(pub)', at)
           \/ pub = openPub /\ "passages" \in savedOver
       \/ \E i \in DOMAIN passages : removePassage(i)]_vars

(* The whole text of a passage is of the edition its words were marked in, *)
(* whatever edition of the book was open when it was rebuilt: "never       *)
(* overwrite with it" (TextRepair.h).                                      *)
TextIsItsOwn ==
    \A pub \in Pub : \A i \in DOMAIN stored(pub) : stored(pub)[i].text \in {Unknown, stored(pub)[i].of}

(* The resident passages and texts are those of the file, whatever failed, *)
(* unless the file was not read, or taken for none: none is missing that a *)
(* save would then erase, and none is there that the card does not have. A *)
(* save makes it so again.                                                 *)
ResidentAreStored ==
    openPub # Absent /\ loadedCleanly /\ "passages" \notin overlooked =>
        \A at \in Place :
            /\ Count(passages, at) = Count(stored(openPub), at)
            /\ CountWhole(passages, at) = CountWhole(stored(openPub), at)
=============================================================================
