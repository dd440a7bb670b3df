----------------------------- MODULE DurableDoc -----------------------------
(***************************************************************************)
(* What writeDocToFileAtomic and the adopting load promise together        *)
(* (PersistableStore.h): one document that a reader of the card would end  *)
(* up with, replaced whole or not at all, whatever instant the power goes. *)
(* The detailed protocol of PersistableStore.tla implements it.            *)
(***************************************************************************)
CONSTANTS
    Doc,    \* the documents a save may write
    None    \* nothing has ever been stored

VARIABLES
    durable,  \* the document the card would give back now
    writing   \* the document of the save under way, None when there is none

dvars == <<durable, writing>>

TypeOK == durable \in Doc \cup {None} /\ writing \in Doc \cup {None}

Init == durable = None /\ writing = None

(* A save takes its snapshot. *)
Start(d) == writing = None /\ writing' = d /\ UNCHANGED durable

(* The one instant at which the old document gives way to the new one. *)
Commit == writing # None /\ durable' = writing /\ UNCHANGED writing

(* The save reports success: only for the document the card now holds. *)
Acknowledge == writing # None /\ durable = writing /\ writing' = None /\ UNCHANGED durable

(* The save fails, or the power goes: the old document or the new one, whole. *)
GiveUp == writing # None /\ writing' = None /\ durable' \in {durable, writing}

Next == (\E d \in Doc : Start(d)) \/ Commit \/ Acknowledge \/ GiveUp

Spec == Init /\ [][Next]_dvars
=============================================================================
