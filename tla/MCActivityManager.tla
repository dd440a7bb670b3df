------------------------- MODULE MCActivityManager --------------------------
(* Two launchers (one replaces the other), a panel, the sleep screen and   *)
(* one more screen: enough to stack two screens below a third.             *)
EXTENDS ActivityManager
=============================================================================
