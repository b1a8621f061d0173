----------------------------- MODULE MCRequest -----------------------------
(* RequestExecution on a small instance: two rungs and a controller, every   *)
(* loop with a bound of one or two, ceilings that admit about five           *)
(* generations, and a backend that uses less or more than was estimated.     *)
EXTENDS RequestExecution

Purposes == {"worker", "controller", "private_continuation", "tool_repair"}
OneEstimate == {[inp |-> 1, out |-> 1]}
LowAndHigh == {[inp |-> 0, out |-> 1], [inp |-> 3, out |-> 2]}
=============================================================================
