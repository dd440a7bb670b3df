---------------------------- MODULE MCEpubReader ----------------------------
(* A book of two documents, one and four characters long, under two layouts. *)
EXTENDS EpubReader, TLC

MCTextLen == (0 :> 1) @@ (1 :> 4)
MCPageSize == ("small" :> 1) @@ ("large" :> 2)
=============================================================================
