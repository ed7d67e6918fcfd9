--------------------------- MODULE MCDepthDecoder ---------------------------
(***************************************************************************)
(* DepthDecoder for TLC: two symbols with different ticks, and the level   *)
(* arrays of their messages.                                               *)
(***************************************************************************)
EXTENDS DepthDecoder

(* Level arrays that are empty, of one and of two levels, one that is not  *)
(* a whole number of the second symbol's ticks, and one malformed.         *)
Raw(price, qty, pair) == [price |-> price, qty |-> qty, pair |-> pair]

MCLevelArrays ==
  {<<>>, <<Raw(1, 1, TRUE)>>, <<Raw(4, 1, TRUE), Raw(2, 0, TRUE)>>, <<Raw(2, 1, FALSE)>>}

MCTickOf == [s \in Known |-> IF s = "BTCUSDT" THEN 1 ELSE 2]
MCLotOf == [s \in Known |-> 1]

=============================================================================
