# Berean OS: a TLA+ model

Berean OS is the firmware of an ESP32 e-reader for Bible study: it reads EPUBs
from an SD card, keeps tagged passages, links and a search index beside them,
downloads publications, and updates itself. This directory holds TLA+ models of
the parts of it whose correctness depends on order, failure or concurrency, the
TLC configurations that check them on small instances, and theorems about them
that TLAPS proves for every value of the constants.

Paths below are relative to the repository; `lib/` and `src/` are its two source
trees.

Contents: [1 inventory](#1-inventory) · [2 modules](#2-modules-and-the-code-they-model) ·
[3 runs](#3-runs-bounds-and-fairness) · [4 proofs](#4-proofs) ·
[5 divergences](#5-where-the-code-and-its-documentation-differ) ·
[6 limits](#6-what-is-not-modelled) · [7 plan](#7-plan)

## 1 Inventory

The device has one core that matters here and a handful of FreeRTOS tasks: the
Arduino *loop task* (`setup()`, `loop()`, the web server's requests too) and the
*render task* that `ActivityManager` starts. The card can fail at any call, and
the power can go at any instant: the battery is small and deep sleep is a chip
reset.

| Component | State it keeps | Operations | Interacts with | What is hard | What makes it correct |
|---|---|---|---|---|---|
| **Persistable stores**, atomic documents (`lib/Serialization`) | the document in RAM, `<path>`, `<path>.tmp`, `loadRefused`, `storeMutex` | save, load with adoption of the temp file, resave after an upgrade | every store; called from two tasks | a cut between remove and rename; several tasks; firmware exchanged for an older one | what a save acknowledged survives; no torn file; newer never replaced by older; unknown formats left alone |
| **Activities and rendering** (`src/activities/ActivityManager`, `RenderLock`) | current activity, stack, pending transition, `renderingMutex`, two task notifications | push, pop, replace, request update, wait for a draw, gestures, sleep | every screen; main loop | two tasks over one object graph; lost wake-ups; a transition asked for inside another | a screen being drawn is never destroyed; every requested update is drawn; every transition carried out; always a screen |
| **Study store** (`src/study/StudyStore`, `lib/StudyStore`) | palette, passages of the open publication with their texts, link source, refusal flags | open, resume, add/retire tag, add/remove/retag passage, link, unlink, rebuild texts | the palette is shared by all publications; reader and highlight screens; the text of the open book | an edit is two saves; a failed save is undone in memory; an address outlives the edition it was made in | tags keep their meaning; nothing stored is lost; memory and card agree; a passage's text is its own |
| **Migration of legacy highlights** (`src/study/MigrationRunner`) | ledger, position in the list of sources, working copies | one run at boot over all sources | writes the study store's files before it opens | three saves per source, cut anywhere, retried next boot | a recorded source is in the store; nothing the store held is lost |
| **Bible search index** (`src/study/BibleSearch*`, the search screen) | fingerprint and its record, list of documents, reader held between visits, build job, checkpoint, index | open, query, build one document per pass, checkpoint, resume, cancel, finish | the Bible's files, which the user may replace | resume after a cut against another list; a book that could not be read; endless retries | the index holds exactly what its fingerprint lists; a query is answered from the Bible on the card; a build ends |
| **Reader** (`EpubReaderActivity`, `lib/Epub/Epub/Section`) | spine index, section with its build, pending jump/offset/anchor, cached offset, return stack, `progress.bin`, section files | turn, skip, go to, follow link, back, change layout, background build, draw, save progress, open, leave | loop and render task; settings; study screens | the position is held in six forms; chapters only partly laid out; layout changes under it | the text on the screen is the text asked for, whatever happened between |
| **Unit index cache** (`src/study/UnitIndexCache`) | `units/<pubKey>.bin` (table, anchors, book map), one loaded document | begin, load, scan and append, build the map, park, resume | reader, study and search screens | editions that share a file; a file cut short anywhere; what an older session left | an answer is of the edition that is open; nothing is scanned twice |
| **Places, recent books, bookmarks** | bounded lists in a store | add, move to front, remove, rename | stores above; web uploads | an entry for a file that is gone | bound and order kept; no entry lost |
| **Parked book, page copy** | one slot; one frame | park, take, invalidate | reader, render task, downloads | a file or cache replaced since; a copy older than the page | what is restored is what was there |
| **Publication downloads** (`PublicationDownloader`, `PubKeyRegistry`) | a part file, copies under three names, their caches, the registry | resolve, fetch, verify, replace, move an older copy, record | Wi-Fi session; reader and its caches; parked book | a cut between remove and rename; caches that know only a path | a whole copy is never torn; what is shown is of the file's edition |
| **Catalog index** (`CatalogIndexStore`) | held and staged index per language, stamp | load, check, stage, install | search screen, Wi-Fi | a body that is not an index; a cut between remove and rename | a good index only gives way to a good one |
| **Meeting weeks** | week cache, plan of a prefetch | fetch, sweep | Wi-Fi session | a retry of what was already done | a week is whole |
| **Wi-Fi session** | connection state, deadlines, who needs it | begin, poll, time out, release | downloads, meetings, file transfer | a late answer after a time-out | the radio is off when nobody needs it |
| **Firmware update** (`FirmwareFlasher`, `OtaBootSwitch`, `OtaUpdater`) | two app slots, two sectors of otadata, the screen's step | validate, copy, switch, restart | card, network, bootloader | a cut at every step; the wrong board's image; a bootloader that falls back or rolls back | the device always boots a whole image of its own |
| **File transfer, WebDAV** (`FileRoutes`, `WebDAVHandler`, `CrossPointWebServer`) | an upload in progress | upload, PUT, MOVE, COPY, DELETE | the same files, caches and parked book as reader and downloads | a connection dropped, or the power, in the middle of a request | a replaced book loses its cache |
| **Boot and power** | reset cause, state file, sleep timer | route at boot, sleep, restart silently | all | sleep against a transition in progress | a boot loop ends; sleep happens |
| **Buttons and gestures** | levels, timers | sample, debounce, recognise | activities | a wrapping clock, chords | one press, one event |
| Screens, home, sleep screen, preaching, settings | cursors and lists | choose, draw | activities, stores | sequential | tested on the host |
| EPUB parsing and layout, fonts, drawing, shaping, JSON, archives | data | pure functions, streaming | — | chunk boundaries | the output does not depend on how the input was cut |

The hazards this gives rise to are listed, each at its line, under `hazards` in
`PROJECT.json`, with the properties that would catch them.

## 2 Modules and the code they model

```
DurableDoc  <= implemented by =  PersistableStore          <-  PersistableStoreProofs
                                 ActivityManager           <-  ActivityManagerProofs
Ascending -> TagPalette, PassageDoc -> StudyStore
                                 -> MigrationRunner        <-  StudyStoreProofs
Ascending -> BibleSearch                                   <-  BibleSearchProofs
SectionCache -> EpubReader
UnitIndexCache                                             <-  UnitIndexCacheProofs
FirmwareUpdate                                             <-  FirmwareUpdateProofs
PublicationDownload -> FileTransfer                        <-  FileTransferProofs
CatalogIndexStore                                          <-  CatalogIndexStoreProofs
```

Each run has an `MC...` module that only gives TLC its constants. Definitions keep
the source's names where TLA+ allows it. A definition that nothing uses, beside
one it resembles (`anySize` beside `withinBudget`, `ownSlot` beside
`targetSlot`), is a wrong variant of it, as a plausible bug would have it.
`PROJECT.json` names, for every property, the variant that breaks it.

**PersistableStore** – one store on the card. `saveToFileAtomic` is five
actions, `SaveLock OpenTmp WriteTmp RemoveOld RenameTmp`, because the power may
go between any two; `loadFromFile` is `LoadLock ReadFile ReadTmp PromoteTmp
FromJson`. A document is the *edition* of the data it carries and the format
version it was written in; a file is a document, `Torn` (anything the JSON
parser refuses) or `Absent`. `build` is the running firmware: `Boot(b)` may pick
another one each time. `acked` is a history variable, the last document a save
returned true for. Two tasks save, as `PersistableStore.h:30-32` promises to
bear; the web server it names there is served by the loop task today
(`CrossPointWebServerActivity.cpp:351`).

**DurableDoc** – what the protocol promises: one document, replaced whole or not
at all. The mapping takes `durable` to what an adopting load would return now
(`Recoverable`) and `writing` to the document of the task that holds
`storeMutex`. `RemoveOld` is the commit, as a load then adopts the temp file;
for a first save, with no old file, it is the end of `WriteTmp`.

**ActivityManager** – the loop task is a program counter over one call of
`ActivityManager::loop` (`top`, `acting`, `pending`, `locked`, `goHome`,
`notify`); the render task is one over `renderTaskLoop` (`wait`, `lock`, `draw`,
`wake`). Activity code is the set of calls a screen may make while it runs
(`ActivityCode`), in `loop()`, in `onEnter()` or in a result handler, in any
order and number. Activities are objects of four kinds, since the code asks
`isHomeActivity` and `isFrontlightPanel`. `owed` is a ghost: an update asked for
and not yet begun.

**Ascending** – what a loop over positions or book numbers visits, in order: the
kept rows of `normaliseLinks` and `fromJson`, the books of a Bible.

**TagPalette**, **PassageDoc** – the two documents of a study store, as pure
operators; **StudyStore** – the members of `StudyStore`, the two files, and one
action per public operation with the save it makes. Saves are synchronous, so an
operation is one action, except `retireTag`, whose two saves are two. The saves
themselves are those of PersistableStore seen from outside: they leave the new
document, the old one, or fail having left the new one under its temp name. A
passage is its place, its tags, its links, the edition it was marked in (its
fingerprint) and the edition its whole text was taken from; a tag carries, for
the properties only, the name it had when it was put on. Opening a publication
may be followed by the repair of its texts: any of the passages without a text
are rebuilt from the edition that is open now. A save measures the document and
refuses one over the budget; an edit that adds a passage or a link measures before
it saves. A load that fails ends in one of two ways (`AdoptedLoad`): `Failed`,
which refuses edits for the session, or `Empty`, which does not (5, *u*). The
ghosts `overlooked` (the files this session took for none though they were there)
and `paletteLost` (a palette was saved over, or its only copy truncated, unseen)
say where that has happened.

**MigrationRunner** – extends StudyStore: the run at boot is one action per step
that can fail (`StartRun SkipSource SourceTakenForEmpty PlanSource SavePassages
SavePalette AppendLedger EndRun`), then the store is in use (`UseStore`: publications are
opened, their texts repaired, tags and passages edited; links are left to
StudyStore's own run), and the power may go at any time. Palette, ledger,
destination and the legacy file itself may each be taken for none; the last is
recorded with no passages (`SourceTakenForEmpty`). `gone` is a ghost: the places
the user removed, a full store refused, or that went with a file taken for none.

**BibleSearch** – the search screen's states, the store that identifies the
Bible, and the indexer; an action is one pass of `loop()`. A verse list is one
entry per document, with the documents whose opening text was appended to it.

**SectionCache** – the arithmetic of one chapter: a layout cuts its text into
pages of `PageSize` characters, so a page number means other text under another
layout and an offset does not. Sections and section files are records with the
members of `Section`. A build makes `Chunk` pages at first and `Tick` pages per
idle pass after that.

**EpubReader** – the two tasks over a book. `due` is a ghost: the text the user
is owed on the next page drawn, with the reason (`turn`, `go`, `percent`, `back`,
`open`, `keep`). `resume` is what the next opening will owe, and `trail` the real
places links were followed from. A page turn is three actions (`TurnSeen`,
`TurnLock`, then the turn itself) because `pageTurn` gives the lock back before
it moves the page; `SaveProgress` is separate from `Draw` for the same reason. A
jump to a percentage is resolved by the draw, once the chapter is laid out, and
owes that share of the chapter's text; in the instance that share falls on a page
boundary. `estimatedTotalPages` is any number from the pages laid out to `Excess`
more than there are, as the code extrapolates and smooths it; `DeleteCache` saves
the pages laid out for a count, as the code does. An automatic turn is a turn.

The reader has places where the code is known not to keep what is owed (section
5, *g*). There the model owes nothing, unless the name of the divergence is in
the constant `Claimed`. `Claimed = {}` in the run, so the properties say exactly
what holds outside these; with any one name in `Claimed`, TLC finds a
counterexample, which is how each exception was shown to be needed:
`jump watermark relaid unbuilt failed stale raced reference recounted`, and, with
five moves, `unsaved`.

**UnitIndexCache** – the index file of one publication key and the object over
it. The file is a header, a row of cells (one per document, one for the book
map) of which a file cut short has only the first few, and anchors known by the
document they were scanned from. `begin` keeps or rebuilds the file;
`ScanDocument BookOfDocument AppendAnchors WriteEntry` are `buildDocument`, whose
writes may each fail or be the last. An append to a short file lands among the
cells: they are `Junk`, which reads as whatever its bytes say. The Bible's
editions share the file and are told apart by the EPUB's size (`SizesDiffer`).

**FirmwareUpdate** – both ways to an update (`Pick PerformUpdate` from the card,
`CheckForUpdate InstallUpdate` from a release) into the slot that does not run,
block by block, then the switch in two writes (`EraseEntry WriteEntry`), with
otadata's two sectors as sequence number and state. The bootloader is modelled
from how the code depends on it: it starts the slot otadata selects, or the other
when that one does not verify, and may take a new image back. `Init` is every
otadata and every content of the slots that a running device can have.

**PublicationDownload** – `publication::download` from the API's answer to the
registry, over the copies a publication may have (`titled`, the name the CDN gave
it, `/read`, and the `.part`). A copy is an edition, whole, damaged or short; a
reading cache is the edition it was built from, as it records only its path; the
parked book is what its `take` compares. `missed` is a history variable: a fault
came where a cache was to be cleared or moved. `CloseMayFail` lets the close of a
fetched file lose its end, which the code does not look at (5, *p*).

**FileTransfer** – extends it with the web server's requests. They are served one
at a time, with no book open and no download running, so a request is one action;
its outcomes are those of the whole request and those of a request that a failed
operation or a power cut ended between two of its steps.

**CatalogIndexStore** – the held and the staged index of each language and the
screen that fetches and installs them. Removing the held index and renaming the
staged one are two actions.

## 3 Runs, bounds and fairness

| Run | Module, constants that matter | Distinct states | What it shows |
|---|---|---|---|
| `StorePower` | PersistableStore; two tasks, two builds, three editions; power may go, nothing else fails | 13 thousand | the protocol implements `DurableDoc` (`ImplementsDurableDoc`); an acknowledged document survives (`AckedSaveSurvives`); snapshots reach the card in order (`NewerNeverReplacedByOlder`); a file of an unknown format outlives every save (`UnknownFormatSurvives`); the resave after an upgrade is made (`ResaveIsMade`) |
| `StoreAllFaults` | the same with two editions; writes, renames, removes and reads may fail | 25 thousand | `PrimaryNeverTorn`; the old file goes only beside a whole newer one (`OldKeptUntilNewComplete`) |
| `ActivityScreens` | two launchers, a panel, a sleep screen, another screen; stack of two | 46 thousand | `DrawnIsCurrent`, `PendingHasActivity`, `AlwaysAScreen`, `NoStrayWake`, `OwedIsDrawn`, `RequestServed`, and the types |
| `StudyEdits` | one publication of two editions, two places, two names, raw ids up to 3, two active tags, a budget of three; writes may fail, loads may fail or take a file for none, power may go | 222 thousand | `TagsKeepTheirMeaning`, `WhatIsSavedLoads`, `LinkSourceIsMarked`, `ResidentAreStored`, `TextIsItsOwn`, `NothingLost` |
| `MigrationSafety` | two sources of one publication, one name, a budget of three; the same faults, and books that do not load | 724 thousand | `LedgeredIsStored`, `MigrationLosesNothing` |
| `BibleSearchBuild` | two Bibles of three documents, one of them rejected in one Bible; one cut, one replacement | 73 thousand | `IndexIsItsList`, `SearchesThisBible`, `HoleEndsWithTheBoot`, `ConfirmedBuildEnds` |
| `ReaderPlaces` | two documents of one and four characters, layouts of one and two characters a page, first builds of two pages and ticks of one, a window of three, an estimate at most one too many, return stack of one; four moves, one fault | 323 thousand | `ReopensWhereItWasLeft`, `TurnsSkipNothing`, `ArrivesWhereAsked`, `PlaceKept` |
| `UnitIndex` | two editions of three documents (two of verses, of two books, and one of paragraphs in one of them); three openings, three faults | 460 thousand | `AnswersAreTrue`, `IndexIsKept` |
| `UnitIndexMap` | the same; two openings, no fault | *violated* | `BookMapIsBuilt` does not hold (5, *1*) |
| `Firmware` | a release candidate, its release, a truncated and a foreign image, in two blocks; two updates, two faults | 333 thousand | `NextBootIsSound`, `UpdateTakesEffect`, `SelectionIsAtomic`, `UpdateBoots` |
| `Publications` | FileTransfer; two editions of different size; two downloads, one request, one fault, not in the close of a file | 1.21 million | `SectionsAreOfTheFile`, `DoneIsOnTheCard`, `GivenUpForAWholeOne` |
| `Catalog` | two languages, three releases each, three faults | 68 thousand | `NeverTradesGoodForBad` |

Each module also has one type invariant, which carries the bounds that the code
means to keep (the stack's depth, the byte budget, the return stack's capacity).
`ActivityScreens` checks it; those of PersistableStore, ActivityManager,
FirmwareUpdate and UnitIndexCache are proved, and the invariants of section 4
carry the types of the rest; the others held when the models were built and are
not part of a run.

**Why the bounds are enough.** The store's hazards need two tasks, and an edit
between two saves and one more in RAM: three editions (two suffice when no order
is asked about). `ActivityScreens` needs a screen on a screen on a screen, and a
second launcher so that one can replace the other. In `StudyEdits` two names and
two active tags reach the full palette and a retired id, and are all the ids
there are to give out, so that no add is refused because the ids are exhausted;
it is with raw ids up to 2 (37 thousand states, nothing more is found), and
`TagsKeep` holds for every bound. A passage weighs one, and its whole text, each
tag and each link one more: a budget of three reaches a full file with a link in
it, a text that no longer fits, and two passages of which one has its text. A
budget of four with raw ids up to 4 (1.2 million states) finds nothing more, but
takes longer than is convenient. Two editions make a text another's. The
migration needs a second source that meets the first one's passages, and a store
too full for it: a budget of three. `BibleSearch` needs a checkpoint that is not
the end (`CHECKPOINT_EVERY` is 2 of 3 documents), a book lost before and after
it, and a second Bible. In the reader a chapter of four pages, built two at
first, then one by one, is the shortest in which a page rescaled by the pages
laid out, or by an estimate, is another page: page 1 of 2 becomes page 2 of 4.
Two pages under the other layout is the shortest in which a page number and an
offset come apart, and a book's text that starts at the second document is what
makes `TextReference` matter; four moves are an opening, two navigations and a
re-opening, or an opening and three steps. The window of three leaves a chapter
short of complete after the first build and while it is read, and, with margin
and capacity of 1, each comparison is reached on both sides. With five moves (2.0
million states, and 1.7 million with a text that starts at the first document)
nothing more is found but what `unsaved` names.

The unit index needs a document on either side of the one in hand, a cell beyond
a short table, and an opening each for the edition that made the file, the other,
and the first again. A firmware image in two blocks is whole, half there or not
begun; two updates are one that fails or is taken back and one on top of it. For
publications the second fault of a pair (a failed clear after a cut) is what the
theorems of section 4 add, for any number of faults; with two faults (4.7 million
states), or with two requests and one fault (3.4 million), the run takes longer
than is convenient and finds nothing more. The catalog needs a release newer than
the one held and one newer than the one staged.

Counters that only bound the search are `MaxEditions`, `MaxStack`, `MaxCuts`,
`MaxReplaced`, `MaxFaults`, `MaxMoves`, `MaxOpens`, `MaxJobs`, `MaxReleases`,
`MaxRequests`. `ReaderPlaces`, `UnitIndex`, `UnitIndexMap`, `Publications` and
`Catalog` do not check deadlock: with the moves, openings, downloads or faults
used up, or the last screen closed, nothing is left to do in the model while the
device would go on. `StudyEdits` uses the symmetry of places, names, publications
and editions, which no definition tells apart; it has no liveness property.

**Fairness.** Only the schedulers are assumed fair. In the store, a task inside
a save or a load goes on, and the load's resave gets the mutex in the end
(strong, as another task may take it again and again; FreeRTOS mutexes are given
to the waiter of highest priority, and a screen does not save in a tight loop).
In `ActivityManager` both tasks run, the mutex reaches a task that keeps asking
for it (strong), and activity code returns; a gesture is an edge, so it cannot
come on every tick, which is the strong fairness of `RunActivity`. In
`BibleSearch` the loop pass is weakly fair. In `FirmwareUpdate` the restart that
ends an update, and the boot that follows any loss of power, happen (weak): the
program restarts itself, and a device that is never switched on again makes no
claim. Nothing is asked of the user, the card or the power.

## 4 Proofs

TLAPS checks eight modules of proofs. No theorem assumes more than the named
assumptions on the constants, unless said.

| Theorem | Statement | Assumes |
|---|---|---|
| `PersistableStoreProofs!TypeCorrect` | `Spec => []TypeOK` | – |
| `PrimaryAlwaysParses` | `Spec => []PrimaryNeverTorn`, every fault allowed | – |
| `OldFileKept` | `Spec => OldKeptUntilNewComplete`, every fault allowed | – |
| `AckedDocumentSurvives` | `Spec => []AckedSaveSurvives`, writes may fail, the power may go | renames, removes and reads work (5, *h*, shows why) |
| `CardInOrder` | `Spec => NewerNeverReplacedByOlder`, writes may fail, the power may go | renames, removes and reads work |
| `UnknownFormatIsKept` | `Spec => UnknownFormatSurvives`, writes, renames and removes may fail | reads work |
| `ProtocolImplementsDurableDoc` | `Spec => ImplementsDurableDoc`, the power may go | nothing on the card fails |
| `ActivityManagerProofs!TypeCorrect` | `Spec => []TypeOK` | – |
| `NothingDrawnIsTakenAway` | `Spec => []DrawnIsCurrent` | – |
| `RequestsKeepTheirActivity` | `Spec => []PendingHasActivity` | – |
| `NeverWithoutAScreen` | `Spec => []AlwaysAScreen` | – |
| `WakesBelongToWaits` | `Spec => []NoStrayWake` | – |
| `FirmwareUpdateProofs!TypeCorrect` | `Spec => []TypeOK` | – |
| `AlwaysBootable` | `Spec => []NextBootIsSound`, every fault allowed | – |
| `CompletedIsSelected` | `Spec => []UpdateTakesEffect`, every fault allowed | – |
| `SelectionMovesOnce` | `Spec => SelectionIsAtomic`, every fault allowed | – |
| `FileTransferProofs!NeverTornInPlace` | `Spec => GivenUpForAWholeOne`, every other fault allowed | closing a fetched file does not lose its end (5, *p*) |
| `ShownFromItsEdition` | `Spec => []SectionsAreOfTheFile`, every other fault allowed | the same |
| `ReportsWhatIsThere` | `Spec => []DoneIsOnTheCard`, every other fault allowed | the same |
| `ShownAfterTransfers` | `TSpec => []SectionsAreOfTheFile`, every other fault allowed | the same, and nothing is moved or copied onto a name with a cache (5, *s*) |
| `ReportsStand` | `TSpec => []DoneIsOnTheCard`, every other fault allowed | both |
| `CatalogIndexStoreProofs!KeepsAGoodIndex` | `Spec => NeverTradesGoodForBad`, every fault allowed | the language is not changed with an update staged (5, *o*) |
| `StudyStoreProofs!InvariantHolds` | `Spec => []IInv`, every fault allowed | – |
| `TagsKeep` | `Spec => []TagsKeepTheirMeaning`, every fault allowed; it claims nothing once `paletteLost` (5, *h*, *u*) | – |
| `SavedLoads` | `Spec => []WhatIsSavedLoads`, every fault allowed | – |
| `SourceStaysMarked` | `Spec => []LinkSourceIsMarked`, every fault allowed | – |
| `TextsStayTheirOwn` | `Spec => []TextIsItsOwn`, every other fault allowed | units can be read when their spans can (5, *m*) |
| `ResidentStayStored` | `Spec => []ResidentAreStored`; saves and loads may fail, the power may go; but for a publication whose file was taken for none (5, *u*) | no rename fails half-way, memory does not run out (5, *j*) |
| `NothingIsLost` | `Spec => NothingLost`, the same faults and exception | the same |
| `MigrationInvariantHolds` | `MSpec => []MIInv`, the same faults and books that do not load | the same |
| `LedgerIsTrue` | `MSpec => []LedgeredIsStored`, the same faults; but for places that went with a file taken for none | the same |
| `MigrationKeepsAll` | `MSpec => MigrationLosesNothing`, the same faults; but for a file taken for none | the same |
| `UnitIndexCacheProofs!InvariantHolds` | `Spec => []IInv`, every fault allowed | – |
| `TypeCorrect` | `Spec => []TypeOK` | – |
| `UnitsAreTrue` | `Spec => []AnswersAreTrue`, every fault allowed | – |
| `IndexStays` | `Spec => IndexIsKept` | – |
| `BibleSearchProofs!InvariantHolds` | `Spec => []IInv`, every fault allowed | – |
| `IndexStays` | `Spec => []IndexIsItsList`, every fault allowed | – |
| `QueriesReadThisBible` | `Spec => []SearchesThisBible`, every fault allowed | – |
| `HolesAreOfTheBoot` | `Spec => []HoleEndsWithTheBoot`, every fault allowed | – |

**The store.** `IInv` adds to the types that a task is inside a save or a load
exactly while it holds `storeMutex` (`Mutex`), and what each step knows of the
card (`StepInv`: from `remove` on, the temp file is the document being saved;
while a temp file is promoted there is no primary). Without the mutex part the
temp file could be another task's, and `PrimaryNeverTorn` is not inductive.
`DInv` adds what `AckedSaveSurvives` needs: nothing on the card is newer than
the last edit; what is in RAM, and every snapshot taken from it, is no older
than what the card gives back (`Fresh`), which is why a save cannot move the card
backwards; and the acknowledged document is in the primary file except in the
window between remove and rename and in the boot that follows it (`AckedInFile`).
`CardInOrder` follows from `Fresh` alone, step by step.

An unknown format is kept because a document of a later format implies that
saving is refused or that the load about to refuse it still holds the mutex, and
no save is under way (`FormatInv`). Reads must work: a load that cannot read the
file leaves saving allowed (5, *a*).

For the refinement, `AdoptedInv` says that outside a load, and outside the window
between remove and rename, a card without the primary file has no whole temp file
either: some load has adopted it. Otherwise `OpenTmp`, which truncates the temp
file, would destroy the abstract document. That is also why writes must work
here: a first save whose write fails after the last byte leaves a temp file that
a load would adopt, and the next save truncates it. Nothing was acknowledged then,
so `AckedDocumentSurvives` does not need it.

**The activities.** `IInv` has four parts: who holds `renderingMutex` at which
program counter of either task (`LockInv`), that `currentActivity` is empty
exactly while the way home is launched (`ScreenInv`), that a push or replace has
its activity and a push its room (`PendingInv`), and that a waiter is registered
or woken, never both (`WaitInv`). `DrawnIsCurrent` alone is not inductive: a
transition preserves it only because it holds the mutex that the drawing task
would need. `PendingHasActivity` keeps a pending push or replace together with
its activity through every interleaving; that the activity asked for is not null
is a fact about the callers, each of which has just allocated or tested it, and is
taken as given: a null one would be found pending, and passed over, for ever.

**The firmware.** `IInv`: a slot with an intact image holds one of this board's
(`SlotsAreOurs`), the running slot is sound (`RunningIsSound`), what is copied
was vetted before and is whole from the switch on (`CopyIsVetted CopyIsWhole`),
and a completed update is selected (`DoneIsSelected`). `NextBootIsSound` is not
inductive without the running slot: when otadata selects nothing that verifies,
that is the slot the bootloader falls back to. The lemmas are about otadata: the
sector chosen for the write is not the one that selects (`EraseKeepsSelection`),
and the number written is the higher and has the slot's parity (`WriteSelects`),
whatever the sectors hold.

**Publications.** `IInv` says what each stage of a download finds on the card
(`StepsFind`: the part file is whole and checked before the old copy goes), that
a cache is of the file under its name unless this stage is about to clear it or a
clear failed (`CachesMatch`), and that a name whose copy moved on leaves no cache
behind (`ReadCacheHasItsFile`). `FileTransfer` keeps the same invariant, with
requests between any two steps of a reader's use and between downloads: its proof
has a case for each request and cites the old one for the rest. The catalog's is
three implications: what is staged is readable and of the language in use.

**The study store.** None of its six properties is inductive. `IInv` has three
parts. `PalettesAgree`: the palettes in memory and on the card name every id
once, all ids in use are below `next`; and, until a palette is lost, while the user may
edit, memory has every *label* (an id with its name) of the card, unless the
card's palette was taken for none, and offers none the card does not know. A tag
is put on a passage from the labels memory offers, so what the passages carry are
labels of the card, and those only grow: that is the whole of `TagsKeep`, and why
`retireTag` must keep the entry. A palette taken for none leaves memory without a
tag to offer, so that nothing is wrong before the first save over it, with which
`TagsKeep` ends. `Consistent`: nothing is edited unless the open publication's
file was read, or taken for none; the link source
is a row that has the marked place; every passage, in memory or in any file, is
`Sound` – its tags among the known labels, its links as a repair would leave
them, its text of its own edition. (Once a palette was lost, any tag counts as
known: the rest of the invariant goes on.) `FilesFit`: every file is within the budget
it will be measured against.

What an edit does to a document is proved once, for passages sound with regard to
any set of labels, and used twice: with the labels on the card (`IInv`), and with
all labels, for the migration, which saves passages before the palette that names
their ids (5, *k*), so that `TagsKeepTheirMeaning` does not hold of it. The facts
about operators are lemmas of their own: what adding, removing and rewriting a
row does to `Count` and `CountWhole`, that `normaliseLinks` leaves repaired links
as they are and repairs all others, that `addName` never names an id anew.

`ResidentAreStored` is itself inductive beside `Consistent`; it speaks of a
publication whose file was read, and again of one taken for none as soon as a
save has replaced it. After a failed save
the undo has to give back as many passages, and as many texts, as the file still
holds. `NothingLost` is a step property that follows from it, as a save only ever
writes what is resident. Both fail as soon as a removal is half done and not told
(5, *j*, and the same of a rename that fails), which is their assumption.

**The migration.** `MIInv` is the store's invariant (without the labels), that
nothing is open while a run lasts (`StoreAtRest`), and what the run has in hand
at each step (`InHand`): before the passages are saved, the plan contains every
highlight that was not refused, and everything the destination holds unless that
was taken for none (`Planned`); once they are saved, the source is true of the
card before it is in the ledger (`Recorded`), be it that its own file was taken
for none and `gone` says so. A recorded source stays true because the store, once
in use, loses nothing but what the user removes and what it took for none.
`addMigrated` and `adoptTagNames`, folds over the highlights and names, are
recursive functions: that the fold keeps what it is given, and has a passage for
each highlight, is proved for lists of any length.

**The unit index.** `IInv` says of the file that an entry lies within the table
and was scanned from the text of the edition that owns the file, or else the file
has no owner (`EntriesAreTrue`, `MapIsTrue`, `FileIsWellFormed`); of the object
that the file it uses is its own edition's or of no measured size
(`SessionIsOwners`); and the same of the document in work and the cached answer
(`HandIsTrue`, `CachedIsTrue`). `AnswersAreTrue` alone is not inductive: an
answer is true because the entry it came from was, and an entry is because of
what was in hand. `FileIsWellFormed` carries the delicate step, an append to a
file cut short, which falls among the cells: anchors are only written apart from
the table in a file that reaches to the end of the map.

**The Bible search.** `IInv`: an index, a checkpoint and a reader hold the
documents of their own list that can be parsed, in order, each with the tail that
belongs to it (`CardHolds`); the store has identified the Bible on the card or
none, and its fingerprint is complete or made from the documents in memory
(`StoreOK`); a build holds exactly what it counts as done, of a list made from its
own fingerprint (`BuildHolds`), which is what lets a checkpoint be resumed; and
while a query is open its reader is the index on the card, of the store's
fingerprint (`QueryReadsTheStore`). The tails are not part of `IndexIsItsList`,
but without them one cannot say that adding a document leaves the entries before
it alone but for the last one's tail.

**The assumptions on constants** are named in the modules that declare them, and
TLC evaluates them in the runs. They say that sentinels are apart (a missing file
is no document, an unknown edition is none), that bounds are numbers, that sizes
and images are typed; and four facts of the system: there is at least one tag id
(`SomeIds`), books are numbered 1 to 66 (`BooksAreNumbered`), a legacy file is a
list of highlights at places, with names, that the study store can hold
(`SourcesAreFiles`), and two editions of a publication differ in size
(`EditionsDiffer`, `SizesDiffer`), as the code tells them apart by nothing else.

**Induction.** The library's induction theorems take an operator as a parameter
and cannot be used. What has to be shown of lists of any length is shown by least
elements instead (`Least`, from the theorem that the order of the naturals is
well founded): the least length at which a statement fails has a predecessor at
which it holds. This also yields that a recursive function defined by `LET` exists
(`RepeatedStep`) and that a finite set of numbers can be put in order
(`RisingExists`).

**Only model-checked.** Every liveness property (`ResaveIsMade`, `OwedIsDrawn`,
`RequestServed`, `ConfirmedBuildEnds`, `UpdateBoots`), as liveness under fairness
and `ENABLED` are out of the prover's reach. `RequestServed` says that a
transition asked for is carried out unless the device goes to sleep first (5,
*i*). The four action properties of the reader (`ReopensWhereItWasLeft`,
`TurnsSkipNothing`, `ArrivesWhereAsked`, `PlaceKept`), which are not proved yet.
`TypeOK` of the study store, the migration, the search, the reader, the catalog
and the file transfer is neither a run's nor a theorem's: the inductive
invariants carry the types their proofs need.

## 5 Where the code and its documentation differ

The first is a run that TLC violates; the quotation and the line are in
`PROJECT.json` under `findings`.

1. *A book map that was never built* (`UnitIndexMap`). An index file that was
   only created is taken, the next time, for one whose spine-to-book map is
   built: `begin()` looks for as many bytes as it wrote itself, zeroed, and the
   offset that should say "not built" is never 0 (`src/study/UnitIndexCache.cpp:84`).
   `UnitIndexFormat.h:47`: "0 when the spine-to-book map has not been built".

The others were met while modelling and are in the models as the code has them,
without a run. Where a constant switches one on, the property that TLC then finds
violated is named.

- *a.* A load that ends `Unreadable` or `ParseError` leaves saving allowed, so the
  next save replaces the file that could not be read
  (`PersistableStore.h:236`; `DocReadStatus.h:5-7`: "never overwrite — the data may still be there").
- *b.* `requestUpdateAndWait` is woken by a draw that had begun before the call
  (`ActivityManager.cpp:319`, `ActivityManager.h:112`); `onEnter()` runs after the
  lock is given back, so a notification already pending lets `render()` run on an
  activity that is still being entered (161).
- *c.* `retireTag` keeps the tag retired in memory when the palette's save fails,
  and the undo of a removal puts the passage last (`StudyStore.cpp:262`, `:377`;
  `StudyStore.h:28` says edits roll back).
- *d.* A `tags.json` that holds the id 65535 makes the next id 0
  (`TagPalette.cpp:188`; `TagPalette.h:69`). Ids never get there by use, and
  `TagsKeepTheirMeaning` starts from files the program wrote.
- *e.* A cut between the passages' save and the ledger's adds the same
  highlights again at the next boot (`MigrationRunner.cpp:389`; the header's
  lines 9-11 speak of a file migrated once). `LedgeredIsStored` counts at least
  one copy, not exactly one.
- *f.* A Bible migrated while its EPUB does not load is stored under another
  key, and nothing reads `pendingUpgrade` (`MigrationRunner.cpp:275`,
  `TaggedPassage.h:43`).
- *g.* The reader, by the name used in `Claimed` (all in
  `src/activities/reader/EpubReaderActivity.cpp`):
  - `jump`: a pending jump to the last page is not cleared by the navigation
    that comes before the next draw, and wins over it (2117).
  - `unbuilt`: an offset beyond the pages laid out so far falls to page 0, both
    in the live section and on a deferred partial file (2094-2098, 2127).
  - `watermark`: a forward turn on the last page of an idle partial chapter
    leaves the chapter (`PageTurn.h:6-8`).
  - `failed`: a failed build or page read drops the section without keeping its
    page (566-571, 1498-1521, 1552).
  - `stale`: a matching section file drops the saved offset, and the page number
    saved under another layout is used (1357-1360).
  - `relaid`: page numbers on the return stack, after "delete book cache"
    (962-982), or for pages not yet laid out, are used under a new layout.
  - `recounted`: "delete book cache" saves the pages laid out so far as the
    chapter's count, without an offset (974, 980), and the next opening rescales
    the page by it once the chapter is complete (1674-1676): page 8 of 16 with 14
    laid out becomes page 9.
  - `unsaved`: progress is not written when spine, page and count are those of the
    last save, though the layout has changed since, or a failed save lost the file
    (1591-1599).
  - `raced`: a turn during a draw moves the page, and progress is saved with the
    new page and the offset of the old one (1202, 1696).
  - `reference`: a saved position in spine 0 is replaced by the book's text
    reference, every time (266-274).
  - The section may also go while `pageTurn` waits for the lock, which
    dereferences null (1193-1203): the model restarts the device
    (`TurnWithoutSection`, in `PowerCut`).
  - `lastSavedPageCount` holds the estimate and is compared with the pages laid
    out, so a partial chapter writes its progress at each draw (1591).
- *h.* A temp file that a failed rename left as the only copy is truncated by the
  next save (`PersistableStore.cpp:116`, against `PersistableStore.h:62` and
  `.cpp:190`). `DirOpMayFail = TRUE`: `AckedSaveSurvives`. The study store has it
  too (`AfterFailure`, `RenameMayFail = TRUE`: `NothingLost`).
- *i.* The one `loop()` that `goToSleep` makes may return early on a gesture, or
  carry out the outgoing activity's own transition instead, and the device sleeps
  without its sleep screen: the transition that was asked for is lost
  (`ActivityManager.cpp:243`). `RequestServed` ends there; `SleepScreenShown`
  states what the comment in `goToSleep` says, and does not hold.
- *j.* The shortage of memory that fails the save of a removal also fails its undo
  (`StudyStore.cpp:377`; `HighlightsActivity.cpp:538`). `MemoryMayRunOut = TRUE`:
  `NothingLost`.
- *k.* The migration saves passages before the palette that names their ids, so
  after a cut the ids may be given to other names (`MigrationRunner.cpp:368`;
  `TagPalette.h:14`, `StudyStore.h:108`).
- *l.* A document that opens inside a verse, after one that was rejected, adds its
  text to the last verse there is (`BibleSearchIndexer.cpp:180`, `:196`;
  `VerseTextScanner.h:62`).
- *m.* The repair of a text compares fingerprints only when the unit's text could
  be read: otherwise another edition's text may be stored, which
  `TextRepair.h:31` says never happens (`TextRepair.cpp:87-93`). `UnitMayFail =
  TRUE`: `TextIsItsOwn`. `endFingerprint` is kept and compared by nobody, so an
  edition that differs only in the last verse of a passage passes.
- *n.* `UnitIndexFormat.h:19-20` has a torn write read "not yet indexed". That is
  so of anchors that fell short; a cell overwritten by an append to a short file
  reads as whatever its bytes say (`Junk`).
- *o.* With an update staged and the publication language then changed, an install
  removes the other language's index and finds nothing to rename
  (`CatalogIndexStore.cpp:266`; `CatalogIndexStore.h:64-65`: "Leaves the held
  index alone on failure"). `staged` then stays true until the next restart.
  `ChangeWhileStaged = TRUE`: `NeverTradesGoodForBad`. A rename that merely fails
  has removed the held index as well; the staged one is then still on the card,
  which is what the property asks.
- *p.* The stages of a download. A cut between the rename and `clearBookCache`, or
  a clear that fails, leaves the previous issue's sections
  (`PublicationDownloader.cpp:243-252`), and no later run repairs it, as it finds
  the file already there. A `.part` left by a failed rename is never adopted.
  "Already on the card" compares sizes only. Whether the fetched file could be
  closed is not looked at (`HttpDownloader.cpp:298`), so that one whose end was
  lost is reported fetched, and nothing finds it out where the API gave no
  checksum (`CloseMayFail = TRUE`: `GivenUpForAWholeOne`, `DoneIsOnTheCard`). The
  comment at 105-107 says that web
  server and WebDAV do not clear the cache; they do (`FileRoutes.cpp:398`, `:549`,
  `:639`, `:740`, `WebDAVHandler.cpp:376`, `:425`, `:534`).
- *q.* A path's identity. A finished book moved to `/read`, or any book moved over
  the web, is not registered under its new path, so a downloaded publication's
  passages are no longer shown (`EpubReaderActivity.cpp:135`). The reverse: a
  sideloaded book's passages, under `local-<path>`, are left behind when a
  download registers that path. The move of the reading cache fails when a cache
  of the new name exists.
- *r.* What a broken request leaves. PUT removes the old file before the rename
  and the new one when the rename fails (`WebDAVHandler.cpp:97-105`). COPY reports
  success when its source cannot be read on (`if (bytesRead <= 0) break`,
  `WebDAVHandler.cpp:620`). An upload whose write fails leaves the partial file
  (`FileRoutes.cpp:357`); only an aborted one is removed.
- *s.* MOVE and COPY, and `/rename` and `/move` onto a cache left by an earlier
  file, never clear the destination's cache (`WebDAVHandler.cpp:534`, `:605-638`).
  `OntoACache = TRUE`: `SectionsAreOfTheFile`.
- *t.* `OtaBootSwitch.h:10-12` and `FirmwareFlasher.h:12` say that both ways to an
  update write the partition raw; the one over the network goes through the
  update library, which verifies. `PersistableStore.h:32` has the web server save
  from a task of its own; it runs on the loop task.

- *u.* `Empty`, "nothing usable on disk -- safe to save over"
  (`TempAdoption.h:71`), is also what a load reports of a file whose lookup failed,
  as `exists()` does not tell why it is false (`PersistableStore.cpp:125`, `:142`),
  and of one that is under its temp name alone and could not be read
  (`TempAdoption.h:44-45`, `:85-87`; lines 28-30 know that such a failure looks
  like an empty file). Edits are not refused then (`StudyStore.cpp:72-95`), and
  the next save replaces the file, or truncates its only copy
  (`PersistableStore.cpp:109-116`): a publication's passages are lost, or the
  palette, whose ids are then given out again under other names. The migration
  does the same with its ledger and palette (`MigrationRunner.cpp:66`, `:210-211`)
  and with its destination (`:279`), and records a legacy file it failed to look
  up as one without highlights (`:248-258`), which is then never migrated. The
  properties except exactly this: `TagsKeepTheirMeaning` ends when such a palette
  is saved over (`paletteLost`), `ResidentAreStored`, `NothingLost` and
  `MigrationLosesNothing` pass over the publication whose file was taken for none
  (`overlooked`, `mOverlooked`), `LedgeredIsStored` the places that went with it
  (`gone`). Left out of it: under which of its two names a document is (what may
  happen to one under the temp name may happen to any), and a complete, older temp
  file beside a primary that was not found, which a load would adopt.

What the firmware model takes as given: the card is not exchanged while an image is
being copied; an image without a board tag counts as this board's, as the code
lets it pass; the chip's own id is readable (when it reads 0xFFFF the check is
skipped); and the update library, over the network, writes the number the switch
from the card would write (it may leave an equal one that names the slot already,
with the same slot selected).

## 6 What is not modelled

*Inside the modelled components.* Stores: the non-atomic `saveToFile`, which
nothing calls, the size budget and the password helper. Study: the spine hint, the
order and time budget of the repair, display order. Migration: resolving a
highlight's address against the EPUB, and the report. Search: folding, tokens,
postings, queries, and the scanner's markup rules (a document is well formed or
not). Reader: when an automatic turn comes and the status bar it reserves room
for (1172-1190); the page copy shown when a menu closes; `MAX_PAGE_LOAD_RETRIES`;
places, bookmarks and toasts; the heap gate; a suspend whose commit fails; parsing
and drawing. Downloads: copies deleted by a computer that reads the card, the
numbered names `/read` gives to a second book of the same name, and the recent
books and the open book's path that follow a moved copy. File transfer: folders,
the upload by WebSocket met by another request for the same file, and the pages
for settings, fonts and Wi-Fi. Every storage call is one step: the driver's own
mutex is taken as given.

*Whole components.* `PROJECT.json` lists every other component with its reason.
They are sequential screens, pure functions over text and pixels that host tests
cover well, third-party code, or planned below. By lines most of the repository is
of these kinds: glyph tables, hyphenation tries, vendored parsers, layout and
drawing.

## 7 Plan

Done, in the order of what the user would lose: the store protocol all other
state rests on; the task structure everything runs in; the study data; its
migration; the search index; the reader; the unit index; the firmware update;
downloads, catalog and file transfer.

Next models:

1. **Wi-Fi session and meeting weeks** – one connection with time-outs and a late
   answer, under the downloads already modelled, and the prefetch of the weeks.
   Abstract specification: the radio is off when nobody needs it; a week is whole.
2. **Boot, power and gestures** – boot routing and restart loops, sleep timer,
   the debouncer over a wrapping clock as a pure algorithm against a reference.
3. **Page copy** – what a menu shows when it closes, composed with
   ActivityManager's locking.
4. **Places, recent books, bookmarks** – bounded lists over `DurableDoc`.
5. **Uploads by WebSocket** – two requests with one file open, over `FileTransfer`.
6. **Streaming JSON** – the same events however the input is cut, checked over
   bounded inputs.

Runs are kept few: a new component gets one run for what holds and one, at most,
for a divergence; where a run's question is answered by a theorem, the run may be
merged with its neighbour.

Next theorems: the reader, whose four properties are the only safety properties
without one. They need an invariant over both tasks that relates the section in
memory to its file and its layout, the pending jump, offset and anchor to what is
owed, and the return stack to the trail of real places; the divergences of
section 5, *g*, are its side conditions. Of it the return stack and the section
files can be proved first. Then an abstract specification of the study store (a
set of passages per publication, changed whole or not at all by each edit) with
StudyStore shown to implement it, from `ResidentAreStored`.
