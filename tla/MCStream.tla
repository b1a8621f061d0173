------------------------------ MODULE MCStream ------------------------------
(* StreamEngine on a small instance: two streams of one serving tuple, two   *)
(* tool calls of which one may be open, one malformed frame tolerated.       *)
EXTENDS StreamEngine

TwoKeys == {0, 1}
=============================================================================
