---------------------------- MODULE TokenLedger ----------------------------
(***************************************************************************)
(* What the accounting of one request promises (the docstrings of          *)
(* budget.py and generation_seam.py, without their mechanism): at most one *)
(* generation holds an estimate at a time, it is opened only inside the    *)
(* ceilings, and one that reached the backend is charged once, at its      *)
(* actual usage or at the estimate.  Only one that was never sent is free. *)
(* An estimate may also be abandoned: it stays in the totals for ever.     *)
(***************************************************************************)
EXTENDS Integers

CONSTANTS
  Estimate,    \* [inp, out] estimates a generation may be opened with
  Usage,       \* [inp, out] usages a backend may report
  MaxInput, MaxGenerated, MaxModel

VARIABLES
  spent,       \* [inp, out]: what the settled generations were charged
  held,        \* [inp, out]: the estimate of the open generation, or Nothing
  stranded,    \* [inp, out]: the estimates abandoned so far
  sent,        \* the open generation reached the backend
  settled      \* how many generations were charged

vars == <<spent, held, stranded, sent, settled>>

Nothing == [inp |-> 0, out |-> 0]
Plus(a, b) == [inp |-> a.inp + b.inp, out |-> a.out + b.out]

Init ==
  /\ spent = Nothing /\ held = Nothing /\ stranded = Nothing
  /\ ~sent
  /\ settled = 0

\* The totals as the budget shows them.
Total == Plus(spent, Plus(held, stranded))

Open(e) ==
  /\ held = Nothing
  /\ LET t == Plus(Total, e)
     IN  t.inp <= MaxInput /\ t.out <= MaxGenerated /\ t.inp + t.out <= MaxModel
  /\ held' = e
  /\ UNCHANGED <<spent, stranded, sent, settled>>

Send ==
  /\ held # Nothing
  /\ ~sent
  /\ sent'
  /\ UNCHANGED <<spent, held, stranded, settled>>

Charge(u) ==
  /\ sent
  /\ spent' = Plus(spent, u)
  /\ held' = Nothing
  /\ ~sent'
  /\ settled' = settled + 1
  /\ UNCHANGED stranded

Return ==
  /\ ~sent
  /\ held' = Nothing
  /\ UNCHANGED <<spent, stranded, sent, settled>>

Strand ==
  /\ stranded' = Plus(stranded, held)
  /\ held' = Nothing
  /\ ~sent'
  /\ UNCHANGED <<spent, settled>>

Next ==
  \/ \E e \in Estimate : Open(e)
  \/ Send
  \/ \E u \in Usage \cup {held} : Charge(u)
  \/ Return
  \/ Strand

Spec == Init /\ [][Next]_vars
=============================================================================
