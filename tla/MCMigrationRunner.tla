------------------------- MODULE MCMigrationRunner --------------------------
(* Two highlights files; the first book's tag is applied, the second has   *)
(* an untagged highlight and a tag that was never applied.                 *)
EXTENDS MigrationRunner

CONSTANTS s1, s2, b1, b2, p1, p2, n1, n2

MCSources == <<s1, s2>>
MCOneSource == <<s1>>
MCLegacy ==
    s1 :> <<[at |-> p1, names |-> {n1}]>> @@
    s2 :> <<[at |-> p1, names |-> {}], [at |-> p2, names |-> {n1}]>>
MCLegacyNames == s1 :> <<n1>> @@ s2 :> <<n2, n1>>
MCOneName == s1 :> <<n1>> @@ s2 :> <<n1>>
MCBookPub == s1 :> b1 @@ s2 :> b1
MCLocalPub == s1 :> b2 @@ s2 :> b1
=============================================================================
