----------------------------- MODULE MCCatalogEdit -----------------------------
(***************************************************************************)
(* CatalogEdit with one product, one session and one edit.                 *)
(***************************************************************************)
EXTENDS CatalogEdit, TLC

MCSingleCart  == {1 :> 1}
MCSingleStock == 1 :> 1
================================================================================
