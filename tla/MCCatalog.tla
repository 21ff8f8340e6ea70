----------------------------- MODULE MCCatalog ------------------------------
(* Two catalogs that share a link.                                         *)
EXTENDS Catalog

MCCatalogs == {{"battery", "display"}, {"display", "network"}}
=============================================================================
