------------------------- MODULE MCPersistableStore -------------------------
(* The store on two tasks and two firmware builds. *)
EXTENDS PersistableStore

=============================================================================
