-------------------------- MODULE MigrationRunner ---------------------------
(***************************************************************************)
(* src/study/MigrationRunner.cpp with the study store it feeds.  At boot,  *)
(* before any activity, every legacy highlights file that the ledger does  *)
(* not name is added to the passages of its publication: passages saved,   *)
(* palette saved, then the file recorded.  The store's edits follow.       *)
(***************************************************************************)
EXTENDS StudyStore

CONSTANTS
    Sources,      \* the legacy files, in the order they are listed
    Legacy,       \* the highlights of each: a place and tag names
    LegacyNames,  \* the tag names of each, applied or not
    BookPub,      \* the pubkey of the source's book ...
    LocalPub,     \* ... and the one it gets when the EPUB does not load
    BookMayFail   \* the book, its EPUB or the legacy file may be unavailable

(* LegacyReader makes a list of what the file holds, and the place and the *)
(* names of a highlight are those the study store is made of.              *)
ASSUME SourcesAreFiles ==
    /\ Sources \in Seq({Sources[i] : i \in DOMAIN Sources})
    /\ \A i \in DOMAIN Sources :
          /\ BookPub[Sources[i]] \in Pub /\ LocalPub[Sources[i]] \in Pub
          /\ Legacy[Sources[i]] \in Seq([at : Place, names : SUBSET Name])
          /\ LegacyNames[Sources[i]] \in Seq(Name)

VARIABLES
    ledgerFile,   \* the sources recorded on the card
    mpc,          \* where the run is; "up" once the store is in use
    next,         \* the index of the source in hand
    mPalette, mPassages, mPub, mLedger,   \* locals of runIfPending
    mSaved,       \* passagesSaved
    mOverlooked,  \* ghost: the files the run's loads took for none
    gone          \* ghost: places the user removed, a full store refused, or
                  \* lost in a file that was taken for none

locals == <<next, mPalette, mPassages, mPub, mLedger, mSaved, mOverlooked>>
mvars == <<ledgerFile, mpc, locals, gone>>
allVars == <<vars, mvars>>
storeMemory == <<memory, session, steps, result, marked>>

SourceSet == {Sources[i] : i \in DOMAIN Sources}

NothingInHand ==
    next' = 0 /\ mPalette' = EmptyPalette /\ mPassages' = NoPassages /\ mPub' = Absent
    /\ mLedger' = {} /\ mSaved' = FALSE /\ mOverlooked' = {}

MInit ==
    /\ InitAt({Absent})
    /\ ledgerFile = {} /\ mpc = "boot" /\ gone = {}
    /\ next = 0 /\ mPalette = EmptyPalette /\ mPassages = NoPassages /\ mPub = Absent
    /\ mLedger = {} /\ mSaved = FALSE /\ mOverlooked = {}

-----------------------------------------------------------------------------

adoptTagNames(p, names) ==
    LET adopted[n \in 0..Len(names)] == IF n = 0 THEN p ELSE addName(adopted[n - 1], names[n]).palette
    IN  adopted[Len(names)]

(* A highlight without tags is dropped; the others carry the ids of their  *)
(* names, a fingerprint if the book could be read, and no whole text.      *)
planMigration(p, h, edition) ==
    [at |-> h.at, links |-> <<>>, of |-> edition, text |-> Unknown,
     tags |-> {[id |-> e.id, name |-> e.name] : e \in {f \in activeEntries(p) : f.name \in h.names}}]

addUnlessFull(doc, passage) ==
    IF fits(addTo(doc, passage)) THEN addTo(doc, passage) ELSE doc

addMigrated(doc, p, highlights, edition) ==
    LET added[n \in 0..Len(highlights)] ==
            CASE n = 0 -> doc
              [] n # 0 /\ highlights[n].names = {} -> added[n - 1]
              [] OTHER -> addUnlessFull(added[n - 1], planMigration(p, highlights[n], edition))
    IN  added[Len(highlights)]

source == Sources[next]

(* What belongs to one source goes with it ... *)
NextSource ==
    /\ mpc' = "next" /\ next' = next + 1
    /\ mPassages' = NoPassages /\ mPub' = Absent /\ mSaved' = FALSE

(* ... and the rest with the run. *)
RunEnds == mpc' = "up" /\ NothingInHand

(* A ledger of no sources stands for no ledger.                            *)
ledgerRead == {ledgerFile} \cup (IF ReadMayFail THEN {{}} ELSE {})

(* What was read as none though it was there, and will be saved over.      *)
takenForNone(name, load, file) == IF load = "Empty" /\ file # Absent THEN {name} ELSE {}

(* Reads the ledger and the palette; either one unreadable ends the run.   *)
StartRun ==
    /\ mpc = "boot"
    /\ \/ /\ mpc' = "next" /\ next' = 1
          /\ mLedger' \in ledgerRead
          /\ \E load \in AdoptedLoad(paletteFile) \ {"Failed"} :
                 /\ mPalette' = IF load = "Loaded" THEN fromJson(paletteFile) ELSE EmptyPalette
                 /\ mOverlooked' = takenForNone("palette", load, paletteFile)
          /\ UNCHANGED <<mPassages, mPub, mSaved>>
       \/ ReadMayFail /\ RunEnds
    /\ UNCHANGED <<vars, ledgerFile, gone>>

(* Already recorded, or its book or its highlights cannot be had.          *)
SkipSource ==
    /\ mpc = "next" /\ next <= Len(Sources)
    /\ source \in mLedger \/ BookMayFail
    /\ NextSource
    /\ UNCHANGED <<vars, ledgerFile, mPalette, mLedger, mOverlooked, gone>>

(* A legacy file that is listed but whose lookup fails holds no highlights:*)
(* the source is recorded with none.                                       *)
SourceTakenForEmpty ==
    /\ mpc = "next" /\ next <= Len(Sources) /\ source \notin mLedger
    /\ ReadMayFail
    /\ mpc' = "ledger"
    /\ gone' = gone \cup {Legacy[source][i].at : i \in DOMAIN Legacy[source]}
    /\ UNCHANGED <<vars, ledgerFile, locals>>

(* Mutation: passages that could not be read count as none. *)
UnreadCountsAsEmpty(load) == TRUE

DestinationUsable(load) == load # "Failed"

PlanSource ==
    /\ mpc = "next" /\ next <= Len(Sources) /\ source \notin mLedger
    /\ mPalette' = adoptTagNames(mPalette, LegacyNames[source])
    /\ \E edition \in Edition \cup (IF BookMayFail THEN {Unknown} ELSE {}) :
           LET pub == IF edition # Unknown THEN BookPub[source] ELSE LocalPub[source]
           IN  \E load \in AdoptedLoad(passageFile[pub]) :
               \/ /\ DestinationUsable(load)
                  /\ mPub' = pub
                  /\ mPassages' = addMigrated(IF load = "Loaded" THEN passageFile[pub] ELSE NoPassages,
                                              mPalette', Legacy[source], edition)
                  /\ mOverlooked' = mOverlooked \cup takenForNone("passages", load, passageFile[pub])
                  /\ gone' = gone \cup {Legacy[source][i].at : i \in
                                          {j \in DOMAIN Legacy[source] :
                                              Count(mPassages', Legacy[source][j].at) = 0}}
                  /\ mpc' = "passages" /\ UNCHANGED <<next, mSaved>>
               \/ /\ ~DestinationUsable(load)
                  /\ NextSource /\ UNCHANGED <<mOverlooked, gone>>
    /\ UNCHANGED <<vars, ledgerFile, mLedger>>

(* The places that lose a passage. *)
losing == {at \in Place : \E pub \in Pub : Count(stored(pub)', at) < Count(stored(pub), at)}

SavePassages ==
    /\ mpc = "passages"
    /\ \E ok \in BOOLEAN :
           /\ \/ ok /\ passageFile' = [passageFile EXCEPT ![mPub] = mPassages]
              \/ /\ ~ok /\ SaveMayFail
                 /\ \E content \in AfterFailure(passageFile[mPub], mPassages, "passages" \in mOverlooked) :
                        passageFile' = [passageFile EXCEPT ![mPub] = content]
           /\ mSaved' = ok
    /\ gone' = gone \cup (IF "passages" \in mOverlooked THEN losing ELSE {})
    /\ mpc' = "palette" /\ mOverlooked' = mOverlooked \ {"passages"}
    /\ UNCHANGED <<paletteFile, overlooked, paletteLost, storeMemory>>
    /\ UNCHANGED <<ledgerFile, next, mPalette, mPassages, mPub, mLedger>>

(* Mutation: only the second save counts. *)
PaletteSaved(ok) == ok

BothSaved(ok) == mSaved /\ ok

(* Saved even when the passages were not.                                  *)
SavePalette ==
    /\ mpc = "palette"
    /\ \E ok \in BOOLEAN :
           /\ writePalette(ok, mPalette, "palette" \in mOverlooked)
           /\ mOverlooked' = IF ok THEN mOverlooked \ {"palette"} ELSE mOverlooked
           /\ \/ BothSaved(ok) /\ mpc' = "ledger" /\ UNCHANGED <<next, mPassages, mPub, mSaved>>
              \/ ~BothSaved(ok) /\ NextSource
    /\ UNCHANGED <<passageFile, overlooked, storeMemory, ledgerFile, mPalette, mLedger, gone>>

(* Reads the ledger again; one that cannot be read, or written, ends the   *)
(* run.                                                                    *)
AppendLedger ==
    /\ mpc = "ledger"
    /\ \E done \in ledgerRead :
           \/ /\ ledgerFile' = done \cup {source} /\ mLedger' = mLedger \cup {source}
              /\ NextSource /\ UNCHANGED <<mPalette, mOverlooked>>
           \/ /\ SaveMayFail \/ ReadMayFail
              /\ ledgerFile' \in {ledgerFile, done} \cup
                                     (IF RenameMayFail THEN {done \cup {source}, {}} ELSE {})
              /\ RunEnds
    /\ UNCHANGED <<vars, gone>>

EndRun ==
    /\ mpc = "next" /\ next > Len(Sources)
    /\ RunEnds
    /\ UNCHANGED <<vars, ledgerFile, gone>>

(* Links are left alone: no source holds one.                              *)
UseStore ==
    /\ mpc = "up" /\ ((\E pub \in Pub : openPublication(pub)) \/ repairTexts \/ EditTagsAndPassages)
    /\ gone' = gone \cup {at \in Place : result' = "ok" /\ Count(passages', at) < Count(passages, at)}
                    \cup (IF "passages" \in savedOver THEN losing ELSE {})
    /\ UNCHANGED <<ledgerFile, mpc, locals>>

PowerCut ==
    /\ mpc # "boot"
    /\ \/ mpc = "up" /\ cutShort(openPub, savedOver)
       \/ mpc # "up" /\ cutShort(mPub, mOverlooked \cap {mpc})
    /\ gone' = gone \cup losing
    /\ memoryLost /\ NothingInHand /\ mpc' = "boot"
    /\ UNCHANGED ledgerFile

Migrate ==
    \/ StartRun \/ SkipSource \/ SourceTakenForEmpty \/ PlanSource
    \/ SavePassages \/ SavePalette \/ AppendLedger \/ EndRun

MNext == Migrate \/ UseStore \/ PowerCut

MSpec == MInit /\ [][MNext]_allVars

-----------------------------------------------------------------------------
(* Properties *)

(* Types; what the run writes keeps within the byte budget.                *)
MTypeOK ==
    /\ TypeOK
    /\ ledgerFile \subseteq SourceSet /\ mLedger \subseteq SourceSet
    /\ mpc \in {"boot", "next", "passages", "palette", "ledger", "up"}
    /\ next \in 0..(Len(Sources) + 1)
    /\ mPalette \in Palette /\ DocOK(mPassages) /\ mPub \in Pub \cup {Absent}
    /\ mSaved \in BOOLEAN /\ mOverlooked \subseteq {"palette", "passages"} /\ gone \subseteq Place

(* "Each source file is recorded in a ledger only after its passages are   *)
(* safely written" (MigrationRunner.h): what a recorded source held is in  *)
(* the store, unless the user removed it, the store was full, or a file    *)
(* was taken for none: the source's own, or one that was then saved over.  *)
LedgeredIsStored ==
    \A s \in ledgerFile : \A i \in DOMAIN Legacy[s] :
        Legacy[s][i].at \in gone
        \/ \E pub \in {BookPub[s], LocalPub[s]} : Count(stored(pub), Legacy[s][i].at) > 0

(* The publication in hand was taken for none, and may be saved over. *)
SavesOver(pub) ==
    \/ mpc = "up" /\ pub = openPub /\ "passages" \in savedOver
    \/ mpc = "passages" /\ pub = mPub /\ "passages" \in mOverlooked

(* No stored passage leaves the card but by the user's removal, whatever   *)
(* the run reads, fails to save or is cut off in, while the file it is in  *)
(* is not taken for none.                                                  *)
MigrationLosesNothing ==
    [][\/ \A pub \in Pub, at \in Place : SavesOver(pub) \/ Count(stored(pub), at) <= Count(stored(pub)', at)
       \/ \E i \in DOMAIN passages : mpc = "up" /\ removePassage(i)]_allVars

(* "Ids are allocated once and never reused" (TagPalette.h): a passage on  *)
(* the card never shows a tag that is not the one it was given. It does    *)
(* not hold with a second name and a palette whose save fails.             *)
NoTagChangesName ==
    \A pub \in Pub : \A i \in DOMAIN stored(pub) : \A t \in stored(pub)[i].tags :
        nameOf(paletteStored, t.id) \in {t.name, NoName}
=============================================================================
