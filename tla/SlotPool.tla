------------------------------ MODULE SlotPool ------------------------------
(***************************************************************************)
(* What admission promises a route's operator (the docstrings of           *)
(* admission.py, without its mechanism): a set of requests generate, never *)
(* more than the route's cap, and the cap is only ever lowered, on an idle *)
(* route.                                                                  *)
(***************************************************************************)
EXTENDS Integers, FiniteSets

CONSTANTS Task, GlobalCap

VARIABLES
  holders,   \* the tasks that generate
  cap        \* the route's cap

Init == holders = {} /\ cap = GlobalCap

Enter(t) ==
  /\ t \notin holders
  /\ Cardinality(holders) < cap
  /\ holders' = holders \cup {t}
  /\ UNCHANGED cap

Leave(t) ==
  /\ t \in holders
  /\ holders' = holders \ {t}
  /\ UNCHANGED cap

Tighten(c) ==
  /\ holders = {}
  /\ c < cap
  /\ cap' = c
  /\ UNCHANGED holders

Next ==
  \/ \E t \in Task : Enter(t) \/ Leave(t)
  \/ \E c \in 1..GlobalCap : Tighten(c)

Spec == Init /\ [][Next]_<<holders, cap>>
=============================================================================
