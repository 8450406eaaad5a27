--------------------------- MODULE MCShopHistory ---------------------------
(***************************************************************************)
(* The values of MCShop for ShopHistory.  The handlers are interchangeable *)
(* in it, and no liveness is checked of it.                                *)
(***************************************************************************)
EXTENDS MCShop, ShopHistory

HandlerSymmetry == Permutations(Handlers)
=============================================================================
