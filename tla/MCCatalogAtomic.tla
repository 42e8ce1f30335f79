-------------------------- MODULE MCCatalogAtomic --------------------------
(* The instances of MCCatalog for CatalogAtomic.                             *)
EXTENDS MCCatalog, CatalogAtomic
=============================================================================
