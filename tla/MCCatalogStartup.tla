-------------------------- MODULE MCCatalogStartup --------------------------
(* Model-checking instance of CatalogStartup.                              *)
EXTENDS CatalogStartup
=============================================================================
