--------------------------- MODULE MCFileTransfer ---------------------------
(* Two editions of different sizes. *)
EXTENDS FileTransfer, TLC

MCSize == (1 :> 3) @@ (2 :> 4)
=============================================================================
