-------------------------- MODULE MCFirmwareUpdate --------------------------
(* A release candidate and its release, a truncated image and another board's. *)
EXTENDS FirmwareUpdate, TLC

MCVersion == ("candidate" :> 2) @@ ("release" :> 2) @@ ("truncated" :> 3) @@ ("foreign" :> 3)
=============================================================================
