------------------------- MODULE MCCatalogProjector -------------------------
(* Small instances of CatalogProjector. *)
EXTENDS CatalogProjector

MCDocs == 1..2
=============================================================================
