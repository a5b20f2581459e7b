------------------------------ MODULE MCShopBill ------------------------------
(***************************************************************************)
(* A small shop: a stack of two on the shelf, no goods of the hero's own.  *)
(* What he alters or buys is his own.                                      *)
(***************************************************************************)
EXTENDS ShopBill, TLC

MCCost == [o \in Ids |-> IF o = 2 THEN 2 ELSE 1]
MCStock == 1 :> 2
MCOwn == <<>>
=============================================================================
