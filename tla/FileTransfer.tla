---------------------------- MODULE FileTransfer ----------------------------
(***************************************************************************)
(* The web server over the same card: uploads, by form and by WebSocket    *)
(* (FileRoutes, CrossPointWebServer), and WebDAV (WebDAVHandler), against   *)
(* the copies and caches of PublicationDownload.                           *)
(*                                                                         *)
(* Requests are served one at a time by the screen that runs the server,   *)
(* when no book is open and no download runs.  A request that a failed     *)
(* card operation or a power cut ends early leaves the card as it was      *)
(* between two of its steps; a client that goes away leaves no more than   *)
(* that.  WebDAV's temp file is never read again and is left out.          *)
(***************************************************************************)
EXTENDS PublicationDownload

CONSTANTS
  MaxRequests,    \* bound: requests that change the card
  OntoACache      \* whether a file is moved or copied to a path that has a reading cache

VARIABLE requests

tvars == <<vars, requests>>

(* Every request starts from what the one before it left. *)
Serves ==
  /\ ~Busy /\ requests < MaxRequests /\ requests' = requests + 1
  /\ result' = "none" /\ answer' = Unasked
  /\ UNCHANGED <<registered, stage, writePath, jobs>>

(* A failed operation of the card, or a power cut, which takes the parked book along. *)
Interrupted == Fault /\ parked' \in {parked, Unread}

(* The request ends with the file changed and its cache not cleared. *)
CacheIsLeft(p) == UNCHANGED cache /\ missed' = (missed \/ (cache[p] # None /\ copy'[p] # copy[p]))

Holds(p, e, state) == copy' = [copy EXCEPT ![p] = [ed |-> e, state |-> state]]
Gives(p) == copy' = [copy EXCEPT ![p] = NoCopy]

(* A form or WebSocket upload, which refuses a name that exists. *)
Upload(p, e) ==
  /\ Serves /\ copy[p] = NoCopy
  /\ \/ Holds(p, e, "whole") /\ clearCacheOf(p) /\ UNCHANGED parked
     \/ Interrupted /\ (Holds(p, e, "short") \/ Holds(p, e, "whole")) /\ CacheIsLeft(p)

(* PUT writes a temp file, removes the old file and renames. *)
Put(p, e) ==
  /\ Serves
  /\ \/ Holds(p, e, "whole") /\ clearCacheOf(p) /\ UNCHANGED parked
     \/ Interrupted /\ (Gives(p) \/ Holds(p, e, "whole")) /\ CacheIsLeft(p)

(* MOVE, with or without the right to overwrite; /rename and /move refuse a name that exists. *)
Onto(p, q) == p # q /\ copy[p] # NoCopy /\ (cache[q] = None \/ OntoACache)

MoveTo(p, q) ==
  /\ Serves /\ Onto(p, q)
  /\ \/ copy' = Moved(p, q) /\ clearCacheOf(p) /\ UNCHANGED parked
     \/ /\ Interrupted /\ UNCHANGED missed
        /\ Gives(q) \/ UNCHANGED copy
        /\ cache' \in {cache, [cache EXCEPT ![p] = None]}

(* COPY; a source that cannot be read on ends the copy as if it were complete. *)
CopyTo(p, q) ==
  /\ Serves /\ Onto(p, q) /\ UNCHANGED <<cache, missed>>
  /\ \/ copy' = [copy EXCEPT ![q] = copy[p]] /\ UNCHANGED parked /\ UNCHANGED faults
     \/ Interrupted /\ (Gives(q) \/ Holds(q, copy[p].ed, "short"))

(* DELETE clears the cache first, /delete the file. *)
Remove(p) ==
  /\ Serves /\ copy[p] # NoCopy
  /\ \/ Gives(p) /\ clearCacheOf(p) /\ UNCHANGED parked
     \/ Interrupted /\ Gives(p) /\ CacheIsLeft(p)
     \/ Interrupted /\ UNCHANGED <<copy, missed>> /\ cache' = [cache EXCEPT ![p] = None]

TInit == Init /\ requests = 0

TNext ==
  \/ Next /\ UNCHANGED requests
  \/ \E p \in Paths : Remove(p) \/ \E e \in Editions : Upload(p, e) \/ Put(p, e)
  \/ \E p, q \in Paths : MoveTo(p, q) \/ CopyTo(p, q)

TSpec == TInit /\ [][TNext]_tvars
=============================================================================
