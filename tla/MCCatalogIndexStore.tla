------------------------ MODULE MCCatalogIndexStore ------------------------
(* Two publication languages. *)
EXTENDS CatalogIndexStore
=============================================================================
