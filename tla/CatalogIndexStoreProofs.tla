---------------------- MODULE CatalogIndexStoreProofs ----------------------
(***************************************************************************)
(* Proof that the device never gives up a catalog index it can read for    *)
(* something else. What makes it so is that an update is only ever staged   *)
(* for the language in use and readable, and that the held index is only    *)
(* removed with one staged.                                                *)
(***************************************************************************)
EXTENDS CatalogIndexStore, TLAPS

FilesTyped ==
  /\ language \in Languages
  /\ part = [l \in Languages |-> part[l]] /\ idx = [l \in Languages |-> idx[l]]

StagedIsReadable == staged => part[language] \in Releases
InstallsWhatIsStaged == screen \in {"removing", "renaming"} => staged
FetchesUnstaged == screen = "fetching" => ~staged

IInv == FilesTyped /\ staged \in BOOLEAN /\ StagedIsReadable /\ InstallsWhatIsStaged /\ FetchesUnstaged

(* At first nothing is staged. *)
LEMMA InitIInv == Init => IInv
  BY DEF Init, IInv, FilesTyped, StagedIsReadable, InstallsWhatIsStaged, FetchesUnstaged

(* An update leaves the staging only installed, or with the power: the        *)
(* language is not changed in between.                                        *)
LEMMA NextIInv == ASSUME ~ChangeWhileStaged, IInv, [Next]_vars PROVE IInv'
<1> USE DEF IInv, FilesTyped, StagedIsReadable, InstallsWhatIsStaged, FetchesUnstaged, files
<1>1. CASE Enter
  BY <1>1 DEF Enter, load
<1>2. CASE Leave
  BY <1>2 DEF Leave
<1>3. CASE Dismiss
  BY <1>3 DEF Dismiss
<1>4. ASSUME NEW l \in Languages, ChangeLanguage(l) PROVE IInv'
  BY <1>4 DEF ChangeLanguage
<1>5. ASSUME NEW l \in Languages, Publish(l) PROVE IInv'
  BY <1>5 DEF Publish
<1>6. CASE CheckRemote
  BY <1>6 DEF CheckRemote
<1>7. CASE Fetched
  <2>1. part'[language] \in Releases /\ part' = [l \in Languages |-> part'[l]]
    BY <1>7 DEF Fetched, Body, indexAcceptable
  <2>2. QED BY <1>7, <2>1 DEF Fetched
<1>8. CASE NotFetched
  BY <1>8 DEF NotFetched
<1>9. CASE Install
  BY <1>9 DEF Install
<1>10. CASE RemoveHeld
  BY <1>10 DEF RemoveHeld
<1>11. CASE RenameStaged
  BY <1>11 DEF RenameStaged
<1>12. CASE RenameFails
  BY <1>12 DEF RenameFails
<1>13. CASE PowerCut
  BY <1>13 DEF PowerCut
<1>14. CASE UNCHANGED vars
  BY <1>14 DEF vars
<1> QED
  BY <1>1, <1>2, <1>3, <1>4, <1>5, <1>6, <1>7, <1>8, <1>9, <1>10, <1>11, <1>12, <1>13, <1>14 DEF Next

(* The held index of a language changes only in the two steps of installing,  *)
(* and both find what is staged beside it.                                    *)
LEMMA OnlyForTheStaged ==
  ASSUME IInv, [Next]_vars, NEW l \in Languages, idx'[l] # idx[l] PROVE part[l] \in Releases
<1> USE DEF IInv, FilesTyped, StagedIsReadable, InstallsWhatIsStaged, files
<1>1. CASE RemoveHeld
  BY <1>1 DEF RemoveHeld
<1>2. CASE RenameStaged
  BY <1>2 DEF RenameStaged
<1>3. ~RemoveHeld /\ ~RenameStaged => UNCHANGED idx
  BY DEF Next, Enter, Leave, Dismiss, ChangeLanguage, Publish, CheckRemote, Fetched, NotFetched, Install, RenameFails, PowerCut, vars
<1> QED BY <1>1, <1>2, <1>3

(* CatalogIndexStore::applyStaged never trades a good index for a bad one,     *)
(* wherever it fails or the power goes, for any languages and releases, as    *)
(* long as the language is not changed while an update is staged.             *)
THEOREM KeepsAGoodIndex ==
  ASSUME ~ChangeWhileStaged PROVE Spec => NeverTradesGoodForBad
<1>1. IInv /\ [Next]_vars => IInv'
  BY NextIInv
<1>2. IInv /\ [Next]_vars => [\A l \in Languages : idx'[l] # idx[l] => part[l] \in Releases]_vars
  BY OnlyForTheStaged
<1> QED
  BY <1>1, <1>2, InitIInv, PTL DEF Spec, NeverTradesGoodForBad
=============================================================================
