----------------------------- MODULE MCVetterd ------------------------------
(* Small instances of Vetterd: one rule that covers every request, one or  *)
(* two requests whose kinds the configurations choose.                     *)
EXTENDS Vetterd, TLC

CONSTANTS r1, r2, r3, k1, w1

Solo == {r1}
Pair == {r1, r2}
Trio == {r1, r2, r3}
OneRule == {k1}
CoversAll == k1 :> Requests
AddOnly == [kind : {"add"}, rule : Rules]
=============================================================================
