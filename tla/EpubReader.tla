----------------------------- MODULE EpubReader -----------------------------
(***************************************************************************)
(* The reader of one book (src/activities/reader/EpubReaderActivity): the  *)
(* loop task turns pages, navigates and lays chapters out in the           *)
(* background; the render task opens the section, draws its page and saves *)
(* the progress under RenderLock.  The position is kept in several forms,  *)
(* a page number, an offset into the text, a jump to the last page, that   *)
(* are set in one place and used at the next draw.                         *)
(*                                                                         *)
(* due is what the user is owed: the text that must be on the next page    *)
(* drawn.  Where the code is known not to keep it, the model claims it     *)
(* only if the divergence is named in Claimed.                             *)
(***************************************************************************)
EXTENDS SectionCache, Sequences

CONSTANTS
  Chunk,        \* BUILD_PAGES_PER_CHUNK
  Tick,         \* BACKGROUND_BUILD_PAGES_PER_TICK
  Ahead,        \* BUILD_WINDOW_AHEAD
  Margin,       \* PARTIAL_REBUILD_START_MARGIN
  Capacity,     \* ReturnStack::CAPACITY
  TextReference,\* the spine the book's text starts at
  Excess,       \* bound: how far an estimate goes beyond the pages there are
  MaxFaults,    \* bound: failed builds, reads and writes, and power cuts
  MaxMoves,     \* bound: turns, jumps, overlays, layout changes and openings
  Claimed       \* divergences for which the owed text is claimed all the same

SpineCount == Cardinality(Spines)
ToLastPage == 99   \* UINT16_MAX, above every page number
Places == {[spine |-> s, text |-> t] : s \in Spines, t \in 0..(Max({TextLen[s] : s \in Spines}) - 1)}

VARIABLES
  open,         \* the reader is on the activity stack with its book loaded
  overlay,      \* another activity is above it
  layout,       \* what SETTINGS ask for
  at,           \* currentSpineIndex; SpineCount is the end of the book
  sec,          \* section
  nextPage, jump, \* nextPageNumber; pendingPageJump holds UINT16_MAX
  goal,         \* pendingOffsetJump, pendingAnchor or pendingPercentJump
  cached,       \* cachedSpineIndex, cachedVisibleTextOffset, cachedChapterTotalPageCount
  stack,        \* returnStack
  rebuildFailed,\* partialRebuildStartFailed
  pageOffset,   \* currentPageVisibleOffset
  lastSaved,    \* lastSavedSpineIndex, lastSavedPage, lastSavedPageCount
  dirty,        \* an update is requested
  drawing,      \* the render task has drawn the page and not yet saved it
  hand,         \* how far pageTurn has come on the loop task
  files,        \* sections/<spine>.bin
  saved,        \* progress.bin
  due, resume,  \* the text owed, and the text the next open owes
  trail,        \* where links were followed from, however many
  faults, moves

returns == <<stack, trail>>
memory == <<at, sec, nextPage, jump, goal, cached, returns, rebuildFailed, pageOffset, lastSaved>>
card == <<files, saved>>
vars == <<open, overlay, layout, memory, dirty, drawing, hand, card, due, resume, faults, moves>>

NoGoal == [kind |-> "none", text |-> None]
NotCached == [spine |-> 0, offset |-> None, count |-> 0]
NoProgress == [spine |-> None, page |-> 0, count |-> 0, offset |-> None, layout |-> NoFile.layout]
NeverSaved == <<None, None, None>>
Free == [stage |-> "free", step |-> 0]
NoDue == [spine |-> None, text |-> 0, why |-> "nothing"]

Owe(s, t, why) == [spine |-> s, text |-> t, why |-> why]
OweEnd == Owe(SpineCount, 0, "turn")
LastText(s) == TextLen[s] - 1
OwePage(section, p, why) == Owe(section.spine, Min({Start(section.layout, p), LastText(section.spine)}), why)

(* The text is owed unless it meets a divergence that is not claimed. *)
Unless(divergence, name, d) == IF divergence /\ name \notin Claimed THEN NoDue ELSE d

\* ------------------------------------------------------------ loop task
LoopFree == open /\ ~overlay /\ hand = Free
LockFree == ~drawing
Counted == moves < MaxMoves /\ moves' = moves + 1

(* ~Section: a build under way is suspended. *)
ResetSection ==
  /\ sec' = NoSection
  /\ files' = IF sec = NoSection THEN files
              ELSE [files EXCEPT ![sec.spine] = fileAfterSuspend(sec, @)]

clearDeferredReposition(c) == [c EXCEPT !.offset = None, !.count = 0]

(* releaseSectionKeepingPosition, and the same lines of applyOrientation. *)
ForgetsOffset == IF sec = NoSection THEN cached ELSE [spine |-> at, count |-> sec.count, offset |-> None]
Remembered ==
  IF sec = NoSection THEN cached
  ELSE [spine |-> at, count |-> sec.count,
        offset |-> IF sec.page < sec.count
                   THEN getVisibleTextOffsetForPage(sec, files[sec.spine], sec.page) ELSE None]

releaseSectionKeepingPosition ==
  /\ LockFree
  /\ cached' = Remembered
  /\ nextPage' = IF sec = NoSection THEN nextPage ELSE sec.page
  /\ ResetSection
  /\ UNCHANGED <<at, jump, goal, returns, rebuildFailed, pageOffset, lastSaved>>

Live == sec # NoSection

(* A section let go is remembered by the start of its page. *)
Rounded == IF Live /\ due.spine = at /\ PageOf(sec.layout, due.text) = sec.page
           THEN OwePage(sec, sec.page, due.why) ELSE due
JumpLeft == jump /\ Live   \* the section was not reset when the jump was set

ExtensionDue == isPartial(sec) /\ ~sec.building /\ ~rebuildFailed /\ sec.page + Margin >= sec.count

(* A pass that started under the draw has skipped the background build, and still sees a turn after it. *)
PassUnderDraw == IF LoopFree /\ ExtensionDue THEN {[stage |-> "late", step |-> 0]} ELSE {}
PassEnds ==
  /\ open /\ hand.stage = "late" /\ hand' = Free
  /\ UNCHANGED <<open, overlay, layout, memory, dirty, drawing, card, due, resume, faults, moves>>

(* The loop sees a turn: the render lock is free and there is a section. *)
TurnSeen(step) ==
  /\ \/ LoopFree /\ ~ExtensionDue
     \/ open /\ hand.stage = "late"
  /\ LockFree /\ Live /\ at < SpineCount
  /\ Counted
  /\ hand' = [stage |-> "seen", step |-> step]
  /\ UNCHANGED <<open, overlay, layout, memory, dirty, drawing, card, due, resume, faults>>

(* pageTurn takes the render lock, and lets it go before it turns. *)
TurnLock ==
  /\ open /\ hand.stage = "seen" /\ LockFree
  /\ hand' = [hand EXCEPT !.stage = "turn"]
  /\ cached' = clearDeferredReposition(cached)
  /\ UNCHANGED <<open, overlay, layout, at, sec, nextPage, jump, goal, returns, rebuildFailed, pageOffset,
                 lastSaved, dirty, drawing, card, due, resume, faults, moves>>

Turned ==
  /\ hand' = Free /\ dirty' = TRUE
  /\ UNCHANGED <<open, overlay, layout, goal, cached, returns, rebuildFailed, pageOffset, lastSaved,
                 drawing, saved, resume, faults>>
Turning(step) == open /\ hand = [stage |-> "turn", step |-> step] /\ Live

leavesWhileBuilding == ~(sec.page < sec.count - 1)
forwardTurnLeavesDocument == ~(sec.page < sec.count - 1 \/ sec.building)

TurnForward ==
  /\ Turning(1) /\ ~forwardTurnLeavesDocument
  /\ sec' = [sec EXCEPT !.page = @ + 1]
  /\ due' = OwePage(sec, sec.page + 1, "turn")
  /\ UNCHANGED <<at, nextPage, jump, files>> /\ Turned /\ UNCHANGED moves

TurnToNext ==
  /\ Turning(1) /\ forwardTurnLeavesDocument /\ LockFree
  /\ LET leaves == sec.page < Pages(at, sec.layout) - 1
         there == IF leaves THEN OwePage(sec, sec.page + 1, "turn")
                  ELSE IF at + 1 < SpineCount THEN Owe(at + 1, 0, "turn") ELSE OweEnd
     IN  due' = Unless(leaves /\ ~sec.building, "watermark", Unless(jump /\ at + 1 < SpineCount, "jump", there))
  /\ at' = at + 1
  /\ IF at + 1 < SpineCount THEN nextPage' = 0 /\ ResetSection
                            ELSE UNCHANGED <<nextPage, sec, files>>
  /\ UNCHANGED jump /\ Turned /\ UNCHANGED moves

TurnBack ==
  /\ Turning(-1) /\ sec.page > 0
  /\ sec' = [sec EXCEPT !.page = @ - 1]
  /\ due' = OwePage(sec, sec.page - 1, "turn")
  /\ UNCHANGED <<at, nextPage, jump, files>> /\ Turned /\ UNCHANGED moves

TurnToPrevious ==
  /\ Turning(-1) /\ sec.page = 0 /\ LockFree
  /\ IF at > 0
     THEN /\ nextPage' = 0 /\ jump' = TRUE /\ at' = at - 1
          /\ due' = Owe(at - 1, LastText(at - 1), "turn")
          /\ ResetSection
     ELSE UNCHANGED <<nextPage, jump, at, sec, files, due>>
  /\ Turned /\ UNCHANGED moves

(* The section went while pageTurn waited for the lock: a null dereference, and the device restarts. *)
TurnWithoutSection == open /\ hand.stage = "turn" /\ ~Live

SkipForward ==
  /\ LoopFree /\ LockFree /\ Live /\ at < SpineCount
  /\ nextPage' = 0 /\ at' = at + 1 /\ ResetSection
  /\ due' = IF at + 1 = SpineCount THEN OweEnd ELSE Unless(jump, "jump", Owe(at + 1, 0, "turn"))
  /\ UNCHANGED jump /\ Turned /\ Counted

(* To the chapter's first page, with no lock; from there to the chapter before. *)
SkipBack ==
  /\ LoopFree /\ Live /\ at < SpineCount
  /\ IF sec.page > 0
     THEN /\ sec' = [sec EXCEPT !.page = 0] /\ due' = OwePage(sec, 0, "turn")
          /\ UNCHANGED <<nextPage, at, files>>
     ELSE /\ LockFree /\ at > 0
          /\ nextPage' = 0 /\ at' = at - 1 /\ ResetSection
          /\ due' = Unless(jump, "jump", Owe(at - 1, 0, "turn"))
  /\ UNCHANGED jump /\ Turned /\ Counted

(* From the end of the book back to its last page; no lock is taken. *)
onReturnFromEndOfBook ==
  /\ LoopFree /\ at = SpineCount
  /\ at' = SpineCount - 1 /\ nextPage' = 0 /\ jump' = TRUE
  /\ due' = Unless(Live /\ sec.page < Pages(sec.spine, sec.layout) - 1, "watermark",
                  Owe(SpineCount - 1, LastText(SpineCount - 1), "turn"))
  /\ UNCHANGED <<sec, files>> /\ Turned /\ Counted

\* ----------------------------------------------- navigation and overlays
(* A result handler of the overlay, or the loop itself. *)
MayNavigate == open /\ hand = Free /\ LockFree /\ moves < MaxMoves

Navigated ==
  /\ overlay' = FALSE /\ dirty' = TRUE /\ moves' = moves + 1
  /\ UNCHANGED <<open, layout, jump, rebuildFailed, pageOffset, lastSaved, drawing, hand, saved,
                 resume, faults>>

goTo(s, page, g) ==
  /\ cached' = clearDeferredReposition(cached)
  /\ at' = s /\ nextPage' = page /\ goal' = g /\ ResetSection

NoReturns == stack' = <<>> /\ trail' = <<>>

(* A chapter picked with no offset, a verse found by its offset, or a link inside the book. *)
GoToChapter(s) ==
  /\ MayNavigate /\ goTo(s, 0, NoGoal) /\ NoReturns
  /\ due' = Unless(jump, "jump", Owe(s, 0, "go")) /\ Navigated

GoToText(s, text) ==
  /\ MayNavigate /\ goTo(s, 0, [kind |-> "offset", text |-> text]) /\ NoReturns
  /\ due' = Owe(s, text, "go") /\ Navigated

(* jumpToPercent: progress is the share of the chapter, as so many of its characters. *)
GoToPercent(s, progress) ==
  /\ MayNavigate /\ goTo(s, 0, [kind |-> "percent", text |-> progress]) /\ NoReturns
  /\ due' = Owe(s, Min({progress, LastText(s)}), "go") /\ Navigated

Pushed(entry) == IF Len(stack) < Capacity THEN Append(stack, entry) ELSE Append(Tail(stack), entry)
Popped(s) == SubSeq(s, 1, Len(s) - 1)
FollowLink(s, text) ==
  /\ MayNavigate /\ goTo(s, 0, [kind |-> "anchor", text |-> text])
  /\ IF ~Live THEN UNCHANGED returns
     ELSE /\ stack' = Pushed([spine |-> at, page |-> sec.page])
          /\ trail' = Append(trail, [spine |-> at, layout |-> sec.layout,
                                     text |-> IF at = SpineCount THEN 0 ELSE OwePage(sec, sec.page, "back").text])
  /\ due' = Owe(s, text, "go") /\ Navigated

(* restoreSavedPosition: the entry is a page number. *)
Back ==
  /\ MayNavigate /\ stack # <<>>
  /\ LET entry == stack[Len(stack)]
         left == trail[Len(trail)]
     IN  /\ goTo(entry.spine, entry.page, NoGoal)
         /\ due' = Unless(jump, "jump", Unless(left.layout # layout, "relaid", Owe(left.spine, left.text, "back")))
  /\ stack' = Popped(stack) /\ trail' = Popped(trail)
  /\ Navigated

(* A passage of the chapter on screen: the live section only moves its page. *)
GoToPassage(s, text) ==
  /\ MayNavigate /\ NoReturns
  /\ IF Live /\ at = s
     THEN LET page == getPageForVisibleTextOffset(sec, files[s], text)
          IN  /\ sec' = [sec EXCEPT !.page = IF page = None THEN 0 ELSE page]
              /\ cached' = clearDeferredReposition(cached)
              /\ due' = Unless(page = None, "unbuilt", Owe(s, text, "go"))
              /\ UNCHANGED <<at, nextPage, goal, files>>
     ELSE goTo(s, 0, [kind |-> "offset", text |-> text]) /\ due' = Owe(s, text, "go")
  /\ Navigated

(* The chapter list and the search release the section; the menu does not. *)
OpenOverlay(releases) ==
  /\ LoopFree
  /\ IF releases THEN releaseSectionKeepingPosition /\ due' = Unless(JumpLeft, "jump", Rounded)
                 ELSE UNCHANGED <<memory, files, due>>
  /\ overlay' = TRUE /\ Counted
  /\ UNCHANGED <<open, layout, dirty, drawing, hand, saved, resume, faults>>

CloseOverlay ==
  /\ open /\ overlay
  /\ overlay' = FALSE /\ dirty' = TRUE
  /\ UNCHANGED <<open, layout, memory, drawing, hand, card, due, resume, faults, moves>>

OnlyPageKnown ==
  IF Live THEN sec.page >= sec.count ELSE cached.offset = None /\ goal = NoGoal /\ ~jump /\ nextPage > 0

(* Text settings and applyOrientation: the section was laid out as before the change. *)
ChangeLayout(l) ==
  /\ open /\ hand = Free /\ l # layout /\ moves < MaxMoves
  /\ releaseSectionKeepingPosition
  /\ due' = Unless(JumpLeft, "jump",
             Unless(OnlyPageKnown, "relaid", Rounded))
  /\ layout' = l /\ overlay' = FALSE /\ dirty' = TRUE /\ moves' = moves + 1
  /\ UNCHANGED <<open, drawing, hand, saved, resume, faults>>

\* ------------------------------------------------------ background build
MayFail == faults < MaxFaults

(* applyDeferredReposition: where the page goes once the whole chapter is laid out. *)
repositioned(section, c, f) ==
  LET byText == IF c.offset = None THEN None ELSE getPageForVisibleTextOffset(section, f, c.offset)
      wanted == IF byText # None THEN byText
                ELSE IF c.count > 0 /\ section.count # c.count
                THEN (section.page * section.count) \div c.count ELSE section.page
  IN  IF section.building \/ at # c.spine \/ (c.offset = None /\ c.count = 0) THEN section
      ELSE [section EXCEPT !.page = Max({0, Min({wanted, section.count - 1})})]
cachedAfter(section, c) == IF section.building THEN c ELSE clearDeferredReposition(c)

StartExtension ==
  /\ LoopFree /\ LockFree /\ Live /\ ExtensionDue
  /\ \/ sec' = startBuild(sec) /\ UNCHANGED <<rebuildFailed, faults>>
     \/ MayFail /\ rebuildFailed' = TRUE /\ faults' = faults + 1 /\ UNCHANGED sec
  /\ UNCHANGED <<open, overlay, layout, at, nextPage, jump, goal, cached, returns, pageOffset, lastSaved,
                 dirty, drawing, hand, card, due, resume, moves>>

BuildWanted == sec.building /\ (isPartial(sec) \/ sec.count < sec.page + Ahead)

BuildTick ==
  /\ LoopFree /\ LockFree /\ BuildWanted
  /\ LET built == buildPages(sec, Tick)
         file == fileAfterBuild(sec, built, files[sec.spine])
     IN  /\ sec' = repositioned(built, cached, file)
         /\ cached' = cachedAfter(built, cached)
         /\ files' = [files EXCEPT ![sec.spine] = file]
         /\ dirty' = (dirty \/ sec'.page # sec.page)
         /\ due' = Unless(cached.offset = None /\ sec'.page # sec.page, "recounted", due)
  /\ UNCHANGED <<open, overlay, layout, at, nextPage, jump, goal, returns, rebuildFailed, pageOffset, lastSaved,
                 drawing, hand, saved, resume, faults, moves>>

(* abandonBuild: the file goes, and the section without its page being remembered. *)
BuildTickFails ==
  /\ LoopFree /\ LockFree /\ BuildWanted /\ MayFail
  /\ sec' = NoSection /\ files' = [files EXCEPT ![sec.spine] = NoFile]
  /\ dirty' = TRUE /\ faults' = faults + 1
  /\ due' = Unless(TRUE, "failed", due)
  /\ UNCHANGED <<open, overlay, layout, at, nextPage, jump, goal, cached, returns, rebuildFailed, pageOffset,
                 lastSaved, drawing, hand, saved, resume, moves>>

\* ------------------------------------------------------------ render task
(***************************************************************************)
(* renderBook without a section: load its file, and build as far as the    *)
(* jump, the anchor, the offset or the page number needs.                  *)
(***************************************************************************)
Loaded == loadSectionFile(at, layout, files[at])
LoadedFile == fileAfterLoad(files[at], layout)
LoadedCached == IF FileFits(files[at], layout) THEN clearDeferredReposition(cached) ELSE cached
goalOffset == IF goal.kind = "offset" THEN goal.text ELSE None
offsetJump == IF goal.kind = "offset" THEN goal.text
              ELSE IF ~jump /\ goal.kind # "anchor" /\ at = cached.spine THEN LoadedCached.offset ELSE None
target == IF jump THEN ToLastPage ELSE nextPage

cacheComplete == FileFits(files[at], layout) /\ ~LoadedFile.partial
deferred ==
  /\ isPartial(Loaded) /\ goal.kind # "percent"
  /\ IF goal.kind = "anchor" THEN findAnchor(Loaded, goal.text) # None ELSE target + Margin < Loaded.count
reachedPage(section) == section.count > target
reached(section) ==
  CASE goal.kind = "anchor" -> findAnchor(section, goal.text) # None
    [] goal.kind = "percent" -> FALSE      \* the whole chapter
    [] goal.kind \in {"none", "offset"} /\ offsetJump # None -> buildReachedVisibleTextOffset(section, offsetJump)
    [] OTHER -> section.count > target

pageAtShare(section, progress) ==
  Min({(progress * section.count) \div TextLen[section.spine], section.count - 1})

OpenNeedsBuild == ~cacheComplete /\ ~deferred
Opened ==
  LET section == IF OpenNeedsBuild THEN buildUntil(startBuild(Loaded), Chunk, reached) ELSE Loaded
      file == IF OpenNeedsBuild THEN fileAfterBuild(startBuild(Loaded), section, LoadedFile) ELSE LoadedFile
      byOffset == IF offsetJump = None THEN None ELSE getPageForVisibleTextOffset(section, file, offsetJump)
      byAnchor == IF goal.kind = "anchor" THEN findAnchor(section, goal.text) ELSE None
      page == IF goal.kind = "percent" THEN pageAtShare(section, goal.text)
              ELSE IF byAnchor # None THEN byAnchor ELSE IF byOffset # None THEN byOffset ELSE target
  IN  [sec |-> [section EXCEPT !.page = page], file |-> file,
       cached |-> IF byOffset # None \/ goal.kind = "offset" THEN clearDeferredReposition(LoadedCached)
                                                              ELSE LoadedCached]

Ready == IF Live THEN [sec |-> sec, file |-> files[at], cached |-> cached] ELSE Opened

(* With a section: build on until its page is there. *)
PageNeedsBuild(section) == section.page >= section.count /\ (section.building \/ isPartial(section))
Extended(section) ==
  IF PageNeedsBuild(section)
  THEN buildUntil(IF section.building THEN section ELSE startBuild(section), Chunk,
                  LAMBDA s : s.count > s.page)
  ELSE section
extendedFile(section, f) ==
  IF PageNeedsBuild(section) THEN fileAfterBuild([section EXCEPT !.building = TRUE], Extended(section), f) ELSE f

clamped(section) ==
  IF ~section.building /\ section.page >= section.count
  THEN [section EXCEPT !.page = section.count - 1] ELSE section

(* What is owed now that the section's file is looked at: an offset that is dropped, or not yet laid out. *)
DropsOffset ==
  /\ ~Live /\ ~jump /\ goal = NoGoal /\ at = cached.spine /\ cached.offset # None
  /\ FileFits(files[at], layout) /\ nextPage # PageOf(layout, cached.offset)
MissesOffset ==
  ~Live /\ goal.kind = "offset" /\ getPageForVisibleTextOffset(Ready.sec, Ready.file, goal.text) = None
Owed == Unless(DropsOffset, "stale", Unless(MissesOffset, "unbuilt", due))

MayDraw == open /\ ~overlay /\ dirty /\ LockFree

DrawEnd ==
  /\ MayDraw /\ at = SpineCount
  /\ dirty' = FALSE
  /\ UNCHANGED <<open, overlay, layout, memory, drawing, hand, card, due, resume, faults, moves>>

Draw ==
  /\ MayDraw /\ at < SpineCount
  /\ LET ready == Ready
         section == clamped(Extended(ready.sec))
         file == extendedFile(ready.sec, ready.file)
         placed == repositioned(section, ready.cached, file)
     IN  /\ sec' = placed
         /\ files' = [files EXCEPT ![at] = file]
         /\ cached' = cachedAfter(section, ready.cached)
         /\ pageOffset' = Start(placed.layout, placed.page)
         /\ due' = OwePage(placed, placed.page, "keep")
  /\ jump' = (jump /\ Live)
  /\ goal' = IF Live THEN goal ELSE NoGoal
  /\ rebuildFailed' = (rebuildFailed /\ Live)
  /\ drawing' = TRUE /\ dirty' = FALSE
  /\ UNCHANGED <<open, overlay, layout, at, nextPage, returns, lastSaved, hand, saved, resume, faults, moves>>

(* A build that does not start leaves a partial file; one that fails on the way removes it. *)
DrawBuildFails ==
  /\ MayDraw /\ at < SpineCount /\ MayFail
  /\ IF Live THEN PageNeedsBuild(sec) ELSE OpenNeedsBuild
  /\ sec' = NoSection
  /\ \E file \in {NoFile, IF Live THEN files[at] ELSE LoadedFile} : files' = [files EXCEPT ![at] = file]
  /\ cached' = IF Live THEN cached ELSE LoadedCached
  /\ due' = Unless(Live, "failed", due)
  /\ rebuildFailed' = (rebuildFailed /\ Live)
  /\ dirty' = FALSE /\ faults' = faults + 1
  /\ UNCHANGED <<open, overlay, layout, at, nextPage, jump, goal, returns, pageOffset, lastSaved,
                 drawing, hand, saved, resume, moves>>

(* The page cannot be read: the file is dropped for a rebuild, the section without its page. *)
DrawLoadFails ==
  /\ MayDraw /\ at < SpineCount /\ MayFail
  /\ sec' = NoSection /\ files' = [files EXCEPT ![at] = NoFile]
  /\ LET ready == Ready IN cached' = cachedAfter(Extended(ready.sec), ready.cached)
  /\ jump' = (jump /\ Live) /\ goal' = IF Live THEN goal ELSE NoGoal
  /\ due' = Unless(TRUE, "failed", due)
  /\ rebuildFailed' = (rebuildFailed /\ Live)
  /\ dirty' = TRUE /\ faults' = faults + 1
  /\ UNCHANGED <<open, overlay, layout, at, nextPage, returns, pageOffset, lastSaved,
                 drawing, hand, saved, resume, moves>>

(* A turn with no section asks for a draw. *)
Retry ==
  /\ LoopFree /\ ~Live /\ ~dirty /\ at < SpineCount
  /\ dirty' = TRUE
  /\ UNCHANGED <<open, overlay, layout, memory, drawing, hand, card, due, resume, faults, moves>>

\* --------------------------------------------------------------- progress
(* Until the chapter is laid out, its total is extrapolated from the share laid out. *)
estimatedTotalPages ==
  IF sec.building \/ isPartial(sec) THEN sec.count..(Pages(sec.spine, sec.layout) + Excess) ELSE {sec.count}

Progress(s, page, count, offset) ==
  [spine |-> s, page |-> page, count |-> count, offset |-> offset, layout |-> sec.layout]

offsetFor(s, page) ==
  IF ~Live \/ s # at \/ page >= sec.count THEN None
  ELSE IF page = sec.page /\ pageOffset # None THEN pageOffset
  ELSE getVisibleTextOffsetForPage(sec, files[sec.spine], page)

(* writeAtomic: the temp file may not be written, or be lost between the remove and the rename. *)
Written(record, promise) ==
  \/ saved' = record /\ resume' = promise /\ UNCHANGED faults
  \/ MayFail /\ faults' = faults + 1 /\ UNCHANGED <<saved, resume>>
  \/ MayFail /\ faults' = faults + 1 /\ saved' = NoProgress /\ resume' = NoDue

(* A turn came between the draw and the save: the page of the one, the offset of the other. *)
Raced(record) == record.page # PageOf(record.layout, record.offset)

(* The numbers last saved, though the file was lost since or they are of another layout. *)
Unsaved == saved = NoProgress \/ (saved.layout # sec.layout /\ saved.offset # pageOffset)

ProgressChanged == <<at, sec.page, sec.count>> # lastSaved

SaveProgress ==
  /\ drawing /\ drawing' = FALSE
  /\ hand' \in {hand} \cup PassUnderDraw
  /\ LET promise == Unless(sec.page # PageOf(sec.layout, pageOffset), "raced", Owe(at, pageOffset, "open"))
     IN  IF ProgressChanged
         THEN \E total \in estimatedTotalPages :
                /\ Written(Progress(at, sec.page, total, offsetFor(at, sec.page)), promise)
                /\ lastSaved' = IF faults' = faults THEN <<at, sec.page, total>> ELSE lastSaved
         ELSE /\ resume' = Unless(Unsaved, "unsaved", Unless(Raced(saved), "raced", promise))
              /\ UNCHANGED <<saved, faults, lastSaved>>
  /\ UNCHANGED <<open, overlay, layout, at, sec, nextPage, jump, goal, cached, returns, rebuildFailed, pageOffset,
                 dirty, files, due, moves>>

\* ----------------------------------------------------- opening and leaving
Forgotten ==
  /\ at' = 0 /\ sec' = NoSection /\ nextPage' = 0 /\ jump' = FALSE /\ goal' = NoGoal
  /\ cached' = NotCached /\ NoReturns /\ rebuildFailed' = FALSE
  /\ pageOffset' = None /\ lastSaved' = NeverSaved
  /\ open' = FALSE /\ overlay' = FALSE /\ dirty' = FALSE /\ drawing' = FALSE /\ hand' = Free
  /\ due' = NoDue

(* The destructor saves the place the links were first followed from, by its page. *)
origin == stack[1]
FirstLeft == trail[Len(trail) - Len(stack) + 1]
Origin(offset) == [spine |-> origin.spine, page |-> origin.page, count |-> 0, offset |-> offset,
                   layout |-> FirstLeft.layout]
OriginOwed(offset) == Unless(offset \notin {None, FirstLeft.text}, "raced",
                        Owe(FirstLeft.spine, FirstLeft.text, "open"))

Exit ==
  /\ open /\ hand = Free /\ LockFree
  /\ IF stack = <<>> THEN UNCHANGED <<saved, resume, faults>>
     ELSE LET offset == offsetFor(origin.spine, origin.page)
          IN  Written(Origin(offset), OriginOwed(offset))
  /\ files' = IF Live THEN [files EXCEPT ![sec.spine] = fileAfterSuspend(sec, @)] ELSE files
  /\ Forgotten /\ UNCHANGED <<layout, moves>>

(* Delete book cache: the files and progress.bin go, and the page is written anew without its offset. *)
DeleteCache ==
  /\ open /\ hand = Free /\ LockFree /\ Live /\ moves < MaxMoves
  /\ files' = [s \in Spines |-> NoFile]
  /\ \/ /\ saved' = IF stack # <<>> THEN Origin(None) ELSE Progress(at, sec.page, sec.count, None)
        /\ resume' = IF stack # <<>> THEN OriginOwed(None)
                     ELSE IF at = SpineCount THEN Owe(at, 0, "open") ELSE OwePage(sec, sec.page, "open")
        /\ UNCHANGED faults
     \/ MayFail /\ saved' = NoProgress /\ resume' = NoDue /\ faults' = faults + 1
  /\ moves' = moves + 1
  /\ Forgotten /\ UNCHANGED layout

PowerCut ==
  /\ open
  /\ \/ TurnWithoutSection /\ UNCHANGED faults
     \/ MayFail /\ faults' = faults + 1
  /\ Forgotten /\ UNCHANGED <<layout, card, resume, moves>>

ChangeSettings(l) ==
  /\ ~open /\ l # layout /\ moves < MaxMoves
  /\ layout' = l /\ moves' = moves + 1
  /\ UNCHANGED <<open, overlay, memory, dirty, drawing, hand, card, due, resume, faults>>

(* loadBook. *)
savedSpine == IF saved.spine = None THEN 0 ELSE saved.spine
toTextReference == savedSpine = 0 /\ TextReference # 0
(* Saved by deleting the book's cache before its chapter was laid out. *)
Recounted ==
  /\ saved.spine \in Spines /\ saved.offset = None
  /\ saved.count \notin {0, Pages(saved.spine, saved.layout)}
Open ==
  /\ ~open /\ Counted
  /\ open' = TRUE /\ dirty' = TRUE
  /\ at' = IF toTextReference THEN TextReference ELSE savedSpine
  /\ nextPage' = saved.page
  /\ cached' = [spine |-> savedSpine, count |-> saved.count,
                offset |-> IF toTextReference THEN None ELSE saved.offset]
  /\ due' = Unless(toTextReference, "reference",
             Unless(saved.layout # layout /\ saved.offset = None, "relaid",
             Unless(Recounted, "recounted", resume)))
  /\ UNCHANGED <<overlay, layout, sec, jump, goal, returns, rebuildFailed, pageOffset, lastSaved,
                 drawing, hand, card, resume, faults>>

Init ==
  /\ open = FALSE /\ overlay = FALSE /\ layout \in Layouts
  /\ at = 0 /\ sec = NoSection /\ nextPage = 0 /\ jump = FALSE /\ goal = NoGoal /\ cached = NotCached
  /\ stack = <<>> /\ trail = <<>> /\ rebuildFailed = FALSE /\ pageOffset = None /\ lastSaved = NeverSaved
  /\ dirty = FALSE /\ drawing = FALSE /\ hand = Free
  /\ files = [s \in Spines |-> NoFile] /\ saved = NoProgress
  /\ due = NoDue /\ resume = NoDue /\ faults = 0 /\ moves = 0

Texts(s) == 0..LastText(s)

Turn == \/ PassEnds \/ \E step \in {1, -1} : TurnSeen(step)
        \/ TurnLock \/ TurnForward \/ TurnToNext \/ TurnBack \/ TurnToPrevious
        \/ SkipForward \/ SkipBack \/ onReturnFromEndOfBook
GoTo == \E s \in Spines :
          \/ GoToChapter(s)
          \/ \E text \in Texts(s) : GoToText(s, text) \/ FollowLink(s, text) \/ GoToPassage(s, text)
          \/ \E progress \in 0..TextLen[s] : GoToPercent(s, progress)
Next == \/ Turn \/ GoTo \/ Back
        \/ (\E releases \in BOOLEAN : OpenOverlay(releases)) \/ CloseOverlay
        \/ \E l \in Layouts : ChangeLayout(l) \/ ChangeSettings(l)
        \/ StartExtension \/ BuildTick \/ BuildTickFails
        \/ DrawEnd \/ Draw \/ DrawBuildFails \/ DrawLoadFails \/ Retry \/ SaveProgress
        \/ Exit \/ DeleteCache \/ PowerCut \/ Open

Spec == Init /\ [][Next]_vars

\* ------------------------------------------------------------- properties
TypeOK ==
  /\ open \in BOOLEAN /\ overlay \in BOOLEAN /\ layout \in Layouts
  /\ at \in 0..SpineCount /\ nextPage \in 0..ToLastPage /\ jump \in BOOLEAN
  /\ sec = NoSection \/ (sec.spine \in Spines /\ sec.layout = layout)
  /\ \A s \in Spines : files[s].count \in 0..Pages(s, files[s].layout)
  /\ \A s \in Spines : files[s].count = Pages(s, files[s].layout) <=> files[s].count > 0 /\ ~files[s].partial
  /\ saved.spine \in -1..SpineCount
  /\ Len(stack) <= Capacity /\ dirty \in BOOLEAN /\ drawing \in BOOLEAN

Lands == LET owed == Owed
         IN  owed = NoDue \/ (at = owed.spine /\ PageOf(sec'.layout, owed.text) = sec'.page)
Drawn == ~drawing /\ drawing'
EndDrawn == open' /\ at = SpineCount /\ dirty /\ ~dirty'

(* The first page drawn after the book is opened is the last one saved, whatever the layout then. *)
ReopensWhereItWasLeft == [][Drawn /\ due.why = "open" => Lands]_vars

(* Turns, skips and the return from the end of the book reach the next or last text, and skip none. *)
TurnsSkipNothing ==
  [][/\ Drawn /\ due.why = "turn" => Lands
     /\ EndDrawn /\ due.why = "turn" => due.spine = SpineCount]_vars

(* A chapter, a verse, a link or a passage picked is what the reader then shows, and Back *)
(* shows the text a link was followed from.                                              *)
ArrivesWhereAsked == [][Drawn /\ due.why \in {"go", "back"} => Lands]_vars

(* A cancelled overlay, a new layout, a background build or a redraw keeps the text on the screen. *)
PlaceKept == [][Drawn /\ due.why = "keep" => Lands]_vars
=============================================================================
