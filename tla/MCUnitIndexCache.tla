-------------------------- MODULE MCUnitIndexCache --------------------------
(* Two editions of three documents: one opens with a page without units, the *)
(* other with paragraphs, and their books begin at different documents.      *)
EXTENDS UnitIndexCache, TLC

MCKinds == ("short" :> <<"none", "verse", "verse">>) @@ ("long" :> <<"paragraph", "verse", "verse">>)
MCBooks == ("short" :> <<1, 1, 2>>) @@ ("long" :> <<1, 1, 1>>)
MCSourceSize == ("short" :> 1) @@ ("long" :> 2)
=============================================================================
