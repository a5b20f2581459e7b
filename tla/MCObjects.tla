------------------------------ MODULE MCObjects ------------------------------
(***************************************************************************)
(* Small worlds for TLC: a stack of candles; candles and a lamp; corpses   *)
(* and a bag.                                                              *)
(***************************************************************************)
EXTENDS Objects, TLC

Obj(kind, quan, age) == [kind |-> kind, quan |-> quan, age |-> age]

MCFirsts == {1 :> Obj("candle", 2, 2),
             1 :> Obj("candle", 1, 2) @@ 2 :> Obj("lamp", 1, 3),
             1 :> Obj("corpse", 2, 0) @@ 2 :> Obj("bag", 1, 0)}
=============================================================================
