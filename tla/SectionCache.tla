---------------------------- MODULE SectionCache ----------------------------
(***************************************************************************)
(* One spine document laid out in pages, and the file that keeps the pages *)
(* (lib/Epub/Epub/Section).  A layout cuts the visible text of a document  *)
(* into pages of PageSize characters, so a page number names different     *)
(* text under another layout and an offset into the text does not.         *)
(*                                                                         *)
(* A build lays out a few pages at a time.  Suspended, it leaves a partial *)
(* file, whose page count is a watermark and not the chapter's total.      *)
(***************************************************************************)
EXTENDS Integers, FiniteSets, FiniteSetsExt

CONSTANTS TextLen,   \* visible characters of each spine document, from 0 on
          PageSize   \* characters a page holds, under each layout

Spines == DOMAIN TextLen
Layouts == DOMAIN PageSize
None == -1

Pages(s, l) == (TextLen[s] + PageSize[l] - 1) \div PageSize[l]
Start(l, p) == p * PageSize[l]
PageOf(l, off) == off \div PageSize[l]

(* The file of a spine: what its header and tables say.  No pages: no file. *)
NoFile == [layout |-> CHOOSE l \in Layouts : TRUE, count |-> 0, partial |-> FALSE]

(***************************************************************************)
(* A section in memory.  count is pageCount, the pages that can be read;   *)
(* watermark is partialPageCount_, 0 unless a partial file was loaded;     *)
(* built is builtPageCount_, the pages of the build under way.             *)
(***************************************************************************)
NoSection == [spine |-> None, layout |-> NoFile.layout, count |-> 0, watermark |-> 0,
              built |-> 0, building |-> FALSE, page |-> 0]

isPartial(sec) == sec.watermark > 0

FileFits(f, l) == f.count > 0 /\ f.layout = l

loadSectionFile(s, l, f) ==
  [NoSection EXCEPT !.spine = s, !.layout = l,
     !.count = IF FileFits(f, l) THEN f.count ELSE 0,
     !.watermark = IF FileFits(f, l) /\ f.partial THEN f.count ELSE 0]

(* A file of another layout is removed by the load that finds it. *)
fileAfterLoad(f, l) == IF FileFits(f, l) THEN f ELSE NoFile

startBuild(sec) == [sec EXCEPT !.building = TRUE, !.built = 0, !.count = sec.watermark]

(* The last page only comes with the end of the document, which ends the build. *)
buildPages(sec, n) ==
  IF sec.built + n < Pages(sec.spine, sec.layout)
  THEN [sec EXCEPT !.built = @ + n, !.count = Max({@, sec.built + n})]
  ELSE [sec EXCEPT !.built = Pages(sec.spine, sec.layout), !.count = Pages(sec.spine, sec.layout),
                   !.watermark = 0, !.building = FALSE]

(* Whole calls of buildSomeMore(chunk), as many as it takes. *)
buildUntil(sec, chunk, Enough(_)) ==
  LET after(k) == IF k = 0 THEN sec ELSE buildPages(sec, k * chunk)
      stops(k) == LET laid == after(k) IN ~laid.building \/ Enough(laid)
  IN  after(CHOOSE k \in 0..Pages(sec.spine, sec.layout) : stops(k) /\ \A j \in 0..(k - 1) : ~stops(j))

(* A build that ends commits its file; nothing else here writes one. *)
fileAfterBuild(sec, built, f) ==
  IF sec.building /\ ~built.building
  THEN [layout |-> sec.layout, count |-> built.count, partial |-> FALSE]
  ELSE f

worthKeeping(sec) == sec.built > 0 /\ sec.built > sec.watermark

(* The destructor: a build under way is left as a partial, unless an older one covers more. *)
fileAfterSuspend(sec, f) ==
  IF sec.building /\ worthKeeping(sec)
  THEN [layout |-> sec.layout, count |-> sec.built, partial |-> TRUE]
  ELSE f

buildReachedVisibleTextOffset(sec, off) ==
  sec.building /\ sec.built > 0 /\ off <= Start(sec.layout, sec.built - 1)

getPageForVisibleTextOffset(sec, f, off) ==
  IF buildReachedVisibleTextOffset(sec, off) THEN PageOf(sec.layout, off)
  ELSE IF f.count = 0 \/ (f.partial /\ off > Start(f.layout, f.count - 1)) THEN None
  ELSE Min({PageOf(f.layout, off), f.count - 1})

getVisibleTextOffsetForPage(sec, f, p) ==
  IF sec.building /\ p < sec.built THEN Start(sec.layout, p)
  ELSE IF p < f.count THEN Start(f.layout, p) ELSE None

(* An anchor is a place in the text, known once its page has been laid out. *)
findAnchor(sec, off) ==
  IF PageOf(sec.layout, off) < sec.count THEN PageOf(sec.layout, off) ELSE None
=============================================================================
