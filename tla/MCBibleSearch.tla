---------------------------- MODULE MCBibleSearch ---------------------------
EXTENDS BibleSearch, TLC

CONSTANTS b1, b2

McMalformed == (b1 :> {2}) @@ (b2 :> {})
McLostSets == {{}, {1}, Books}
=============================================================================
