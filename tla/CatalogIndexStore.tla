------------------------- MODULE CatalogIndexStore -------------------------
(***************************************************************************)
(* The publication catalog as the device holds it (CatalogIndexStore) and  *)
(* the search screen that fetches and installs it (CatalogSearchActivity). *)
(*                                                                         *)
(* Each publication language has its own pair of files: the held index and *)
(* a `.part` beside it.  checkRemote downloads into the .part, validates   *)
(* it and leaves it staged; applyStaged removes the held index and renames *)
(* the staged one into its place.  The store is a singleton: that an       *)
(* update is staged outlives the screen that fetched it.                   *)
(***************************************************************************)
EXTENDS Integers

CONSTANTS
  Languages,           \* publication languages
  NoFile,              \* there is no such file
  Junk,                \* a file that is not an index this build reads
  MaxReleases,         \* bound: indexes published per language
  ChangeWhileStaged,   \* whether the language may be changed while an update is staged
  MaxFaults            \* bound: power cuts, failed reads, removes and renames, wrong bodies

Releases == 1..MaxReleases

ASSUME FilesAreApart == NoFile \notin Releases /\ Junk \notin Releases /\ NoFile # Junk

VARIABLES
  idx, part,     \* [Languages -> a release, NoFile or Junk]
  index,         \* the inflated index in PSRAM, or NoFile
  heldStamp,     \* the stamp of the last index loaded in this boot
  staged,
  language,      \* SETTINGS.publicationLanguage
  published,     \* the release of each language on the server
  screen,        \* where the search screen is
  faults

files == <<idx, part>>
vars == <<files, index, heldStamp, staged, language, published, screen, faults>>

NoStamp == [language |-> NoFile, release |-> NoFile]
Stamp(l, r) == [language |-> l, release |-> r]

AnyBody(body) == body # NoFile
indexAcceptable(body) == body \in Releases
sameRelease(stamp, r) == stamp = Stamp(language, r)

Fault == faults < MaxFaults /\ faults' = faults + 1

(* loadFrom: the file is read, inflated and its header checked; the PSRAM may be short. *)
load(held) ==
  \/ /\ indexAcceptable(held) /\ index' = held /\ heldStamp' = Stamp(language, held) /\ UNCHANGED faults
  \/ /\ ~indexAcceptable(held) /\ index' = NoFile /\ UNCHANGED <<heldStamp, faults>>
  \/ /\ indexAcceptable(held) /\ Fault /\ index' = NoFile /\ UNCHANGED heldStamp

\* --------------------------------------------------------------- the screen
Enter ==
  /\ screen = "closed" /\ screen' = "browsing"
  /\ load(idx[language])
  /\ UNCHANGED <<files, staged, language, published>>

(* release() keeps the stamp. *)
Leave ==
  /\ screen = "browsing" /\ screen' = "closed" /\ index' = NoFile
  /\ UNCHANGED <<files, heldStamp, staged, language, published, faults>>

ChangeLanguage(l) ==
  /\ screen = "closed" /\ l # language /\ (staged => ChangeWhileStaged)
  /\ language' = l
  /\ UNCHANGED <<files, index, heldStamp, staged, published, screen, faults>>

Dismiss ==
  /\ screen = "failed" /\ screen' = "browsing"
  /\ UNCHANGED <<files, index, heldStamp, staged, language, published, faults>>

\* ------------------------------------------------------------------- fetching
(* runCatalogAction with nothing staged: checkRemote, which discards what is staged first. *)
CheckRemote ==
  /\ screen = "browsing" /\ ~staged /\ screen' = "fetching"
  /\ part' = [part EXCEPT ![language] = Junk]
  /\ UNCHANGED <<idx, index, heldStamp, staged, language, published, faults>>

(* The body may be something else than an index: a 404 page, a newer format. *)
Body == \/ part' = [part EXCEPT ![language] = published[language]] /\ UNCHANGED faults
        \/ part' = [part EXCEPT ![language] = Junk] /\ Fault

(* What is fetched is staged only if it is readable and not what is held; without a *)
(* held index it is installed at once.                                              *)
Fetched ==
  /\ screen = "fetching" /\ Body
  /\ indexAcceptable(part'[language]) /\ ~sameRelease(heldStamp, part'[language])
  /\ staged' = TRUE /\ screen' = IF index = NoFile THEN "removing" ELSE "browsing"
  /\ UNCHANGED <<idx, index, heldStamp, language, published>>

(* Cancelled, failed, unreadable or up to date: the .part is removed. *)
NotFetched ==
  /\ screen = "fetching"
  /\ screen' \in {"browsing", "failed"}
  /\ \/ part' = [part EXCEPT ![language] = NoFile] /\ UNCHANGED faults
     \/ UNCHANGED part /\ Fault
  /\ UNCHANGED <<idx, index, heldStamp, staged, language, published>>

\* ------------------------------------------------------------------ installing
Install ==
  /\ screen = "browsing" /\ staged /\ screen' = "removing"
  /\ UNCHANGED <<files, index, heldStamp, staged, language, published, faults>>

(* The card has no rename-over, so the previous index goes first. *)
RemoveHeld ==
  /\ screen = "removing"
  /\ \/ idx' = [idx EXCEPT ![language] = NoFile] /\ screen' = "renaming" /\ UNCHANGED faults
     \/ idx[language] # NoFile /\ Fault /\ screen' = "failed" /\ UNCHANGED idx
  /\ UNCHANGED <<part, index, heldStamp, staged, language, published>>

RenameStaged ==
  /\ screen = "renaming" /\ part[language] # NoFile
  /\ idx' = [idx EXCEPT ![language] = part[language]]
  /\ part' = [part EXCEPT ![language] = NoFile]
  /\ staged' = FALSE /\ load(part[language])
  /\ screen' = IF index' = NoFile THEN "failed" ELSE "browsing"
  /\ UNCHANGED <<language, published>>

(* ... or there is nothing to rename: the staged file is another language's. *)
RenameFails ==
  /\ screen = "renaming" /\ screen' = "failed"
  /\ \/ part[language] = NoFile /\ UNCHANGED faults
     \/ Fault
  /\ UNCHANGED <<files, index, heldStamp, staged, language, published>>

\* ------------------------------------------------------------------- outside
Publish(l) ==
  /\ published[l] < MaxReleases /\ published' = [published EXCEPT ![l] = @ + 1]
  /\ UNCHANGED <<files, index, heldStamp, staged, language, screen, faults>>

(* The files and the language setting are what a power cut leaves. *)
PowerCut ==
  /\ Fault /\ screen' = "closed" /\ index' = NoFile /\ heldStamp' = NoStamp /\ staged' = FALSE
  /\ UNCHANGED <<files, language, published>>

Init ==
  /\ idx \in [Languages -> {NoFile, 1}] /\ part = [l \in Languages |-> NoFile]
  /\ index = NoFile /\ heldStamp = NoStamp /\ staged = FALSE
  /\ language \in Languages /\ published = [l \in Languages |-> 1]
  /\ screen = "closed" /\ faults = 0

Next ==
  \/ Enter \/ Leave \/ Dismiss
  \/ \E l \in Languages : ChangeLanguage(l) \/ Publish(l)
  \/ CheckRemote \/ Fetched \/ NotFetched
  \/ Install \/ RemoveHeld \/ RenameStaged \/ RenameFails
  \/ PowerCut

Spec == Init /\ [][Next]_vars

\* ------------------------------------------------------------------ properties
(* The held index of a language is only removed or replaced with a readable   *)
(* one of that language staged beside it, whatever body was fetched and      *)
(* wherever an earlier attempt failed or the power went (applyStaged).       *)
NeverTradesGoodForBad ==
  [][\A l \in Languages : idx'[l] # idx[l] => part[l] \in Releases]_vars
=============================================================================
