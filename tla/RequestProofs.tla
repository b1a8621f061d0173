--------------------------- MODULE RequestProofs ---------------------------
(***************************************************************************)
(* For every ladder, every ceiling, every loop bound and every usage a     *)
(* backend may report: a request's generations are counted exactly once,   *)
(* its ceilings are overrun by one generation's error at most, what it can *)
(* cost is bounded, a successful answer keeps the client's tool choice,    *)
(* and the accounting implements TokenLedger.                              *)
(***************************************************************************)
EXTENDS RequestExecution, TLAPS

-----------------------------------------------------------------------------
(* What a request does to its budget and to the seam. *)

\* Only these touch the accounting, whatever the request is doing.
SeamMove ==
  \/ Silent
  \/ /\ \E counter \in {"upstream", "controller", "private"}, max \in Nat, ok \in BOOLEAN :
          AllowOf(counter, max, ok)
     /\ UNCHANGED seamVars
  \/ PrepareFails
  \/ \E e \in Estimates, p \in Purpose : Dispatch(e, p)
  \/ SeamStep
  \/ Consume /\ UNCHANGED budgetVars
  \/ CancelGeneration /\ UNCHANGED budgetVars
  \/ DeadlinePasses /\ UNCHANGED seamVars

\* The reservation under way is part of the totals, and so is every estimate
\* that was abandoned.
Reserved ==
  /\ estimate.inp + stranded.inp <= total.inp
  /\ estimate.out + stranded.out <= total.out

\* While a generation is under way the totals are inside the ceilings: an
\* overrun cannot compound.
InsideCeilings ==
  /\ total.inp <= MaxInput
  /\ total.out <= MaxGenerated
  /\ total.inp + total.out <= MaxModel

SeamInv ==
  /\ BudgetTypeOK /\ SeamTypeOK
  /\ stage = "idle" <=> estimate = Nothing
  /\ stage # "idle" => purpose \in Purpose /\ outcome = "none" /\ InsideCeilings
  /\ Reserved
  /\ CountedExactly
  /\ OverrunBounded

LEMMA NothingIsTokens == Nothing \in Tokens
  BY DEF Nothing, Tokens

LEMMA TagIsPurpose == Tag \in Purpose
  BY RequestAssumption DEF Tag

\* Every step of the specification is one of them.
LEMMA OneMove ==
  ASSUME Next PROVE SeamMove
<1>1. CASE NextRung \/ Replan
  <2>1. PICK b \in BOOLEAN, ok \in BOOLEAN : Allow(b, ok) /\ UNCHANGED seamVars
    BY <1>1 DEF NextRung, Replan, seamVars
  <2> QED
    BY <2>1, CeilingAssumption DEF Allow, SeamMove
<1>2. CASE Continue
  BY <1>2, CeilingAssumption DEF Continue, AllowPrivateGeneration, SeamMove, seamVars
<1>3. CASE Generate
  BY <1>3, TagIsPurpose DEF Generate, SeamMove
<1>4. CASE Reconcile
  BY <1>4 DEF Reconcile, SeamMove
<1>5. CASE GenerationFails \/ GenerationRaises \/ TurnIsText \/ InternalCalls \/ WithheldCall \/ ClientTurn
           \/ Regenerated
  BY <1>5 DEF GenerationFails, GenerationRaises, TurnIsText, InternalCalls, WithheldCall, ClientTurn,
              Regenerated, SeamMove
<1>6. CASE Cancel \/ Deadline
  BY <1>6 DEF Cancel, Deadline, SeamMove, requestVars, seamVars
<1>7. CASE PrepareRequestFails \/ Summarize \/ PrepareRequest \/ Planless \/ LadderEnds \/ Judge
  BY <1>7 DEF PrepareRequestFails, Summarize, PrepareRequest, Planless, LadderEnds, Judge, SeamMove
<1>8. CASE LoopExhausted \/ Candidate("accepted") \/ Candidate("rejected") \/ Regenerate \/ BatchEnds
  BY <1>8 DEF LoopExhausted, Candidate, Regenerate, BatchEnds, SeamMove
<1>9. CASE ControllerRefused \/ ControllerSelected \/ AskPrimary \/ PrimaryAdvised \/ ControllerFailed
           \/ ControllerDecides
  BY <1>9 DEF ControllerRefused, ControllerSelected, AskPrimary, PrimaryAdvised, ControllerFailed,
              ControllerDecides, SeamMove
<1>10. CASE Finished
  BY <1>10 DEF Finished, vars, SeamMove, Silent
<1> QED
  BY <1>1, <1>2, <1>3, <1>4, <1>5, <1>6, <1>7, <1>8, <1>9, <1>10 DEF Next, Step

\* The excess that covers an overrun: what one usage exceeds one estimate by.
LEMMA Covered ==
  ASSUME NEW u \in Usages, NEW e \in Estimates
  PROVE  \E x \in Excess : /\ x.inp \in Nat /\ x.out \in Nat
                           /\ x.inp >= u.inp - e.inp /\ x.out >= u.out - e.out
<1> DEFINE x == Plus(Minus(u, e), Nothing)
<1>1. u \in Tokens /\ e \in Tokens
  BY EstimateAssumption
<1>2. /\ x.inp = IF u.inp > e.inp THEN u.inp - e.inp ELSE 0
      /\ x.out = IF u.out > e.out THEN u.out - e.out ELSE 0
  BY <1>1 DEF Plus, Minus, Nothing, Tokens
<1>3. x \in Excess
  BY DEF Excess
<1> QED
  BY <1>1, <1>2, <1>3 DEF Tokens

\* Inside the ceilings nothing has to be covered.
LEMMA InsideIsBounded ==
  ASSUME InsideCeilings, BudgetTypeOK PROVE OverrunBounded
<1>1. Nothing \in Excess /\ Nothing.inp = 0 /\ Nothing.out = 0
  BY DEF Excess, Nothing
<1> QED
  BY <1>1, CeilingAssumption DEF OverrunBounded, InsideCeilings, BudgetTypeOK, Tokens

\* Totals that do not grow keep the bound.
LEMMA SmallerIsBounded ==
  ASSUME OverrunBounded, total \in Tokens, total' \in Tokens,
         total'.inp <= total.inp, total'.out <= total.out
  PROVE  OverrunBounded'
<1>1. \A x \in Excess : x.inp \in Nat /\ x.out \in Nat
  <2>1. \A u \in Usages, e \in Estimates : Plus(Minus(u, e), Nothing) \in Tokens
    BY EstimateAssumption DEF Plus, Minus, Nothing, Tokens
  <2> QED
    BY <2>1, NothingIsTokens DEF Excess, Tokens
<1>2. PICK x \in Excess : total.inp <= MaxInput + x.inp
  BY DEF OverrunBounded
<1>3. PICK y \in Excess : total.out <= MaxGenerated + y.out
  BY DEF OverrunBounded
<1>4. PICK z \in Excess : total.inp + total.out <= MaxModel + z.inp + z.out
  BY DEF OverrunBounded
<1>5. total'.inp <= MaxInput + x.inp /\ total'.out <= MaxGenerated + y.out
  BY <1>1, <1>2, <1>3, CeilingAssumption DEF Tokens
<1>6. total'.inp + total'.out <= MaxModel + z.inp + z.out
  BY <1>1, <1>4, CeilingAssumption DEF Tokens
<1> QED
  BY <1>5, <1>6 DEF OverrunBounded, Excess

\* The reservation replaced by an actual usage.
LEMMA CommitIsBounded ==
  ASSUME SeamInv, stage # "idle", NEW u \in Usages,
         total' = Plus(Minus(total, estimate), u)
  PROVE  /\ total' = [inp |-> total.inp - estimate.inp + u.inp,
                      out |-> total.out - estimate.out + u.out]
         /\ total' \in Tokens
         /\ stranded.inp <= total'.inp /\ stranded.out <= total'.out
         /\ OverrunBounded'
<1>1. u \in Tokens /\ estimate \in Tokens /\ total \in Tokens /\ stranded \in Tokens /\ estimate \in Estimates
  BY EstimateAssumption, NothingIsTokens DEF SeamInv, SeamTypeOK, BudgetTypeOK
<1>2. /\ estimate.inp + stranded.inp <= total.inp /\ estimate.out + stranded.out <= total.out
      /\ InsideCeilings
  BY DEF SeamInv, Reserved
<1>3. Minus(total, estimate) = [inp |-> total.inp - estimate.inp, out |-> total.out - estimate.out]
  BY <1>1, <1>2 DEF Minus, Tokens
<1>4. total' = [inp |-> total.inp - estimate.inp + u.inp, out |-> total.out - estimate.out + u.out]
  BY <1>3 DEF Plus
<1>5. total' \in Tokens /\ stranded.inp <= total'.inp /\ stranded.out <= total'.out
  BY <1>1, <1>2, <1>4 DEF Tokens
<1>6. PICK x \in Excess : /\ x.inp \in Nat /\ x.out \in Nat
                          /\ x.inp >= u.inp - estimate.inp /\ x.out >= u.out - estimate.out
  BY <1>1, Covered
<1>7. /\ total'.inp <= MaxInput + x.inp
      /\ total'.out <= MaxGenerated + x.out
      /\ total'.inp + total'.out <= MaxModel + x.inp + x.out
  BY <1>1, <1>2, <1>4, <1>6, CeilingAssumption DEF InsideCeilings, Tokens
<1> QED
  BY <1>4, <1>5, <1>6, <1>7 DEF OverrunBounded, Excess

\* Moves that leave the totals, the reservation and the counts alone.
LEMMA NothingReserved ==
  ASSUME SeamInv, BudgetTypeOK', SeamTypeOK',
         UNCHANGED <<total, counted, stage, estimate, purpose, sent, lost, stranded>>,
         outcome' = outcome \/ stage = "idle" \/ outcome' = "none"
  PROVE  SeamInv'
<1>1. CountedExactly' /\ Reserved'
  BY DEF SeamInv, CountedExactly, Reserved
<1>2. OverrunBounded'
  BY DEF SeamInv, OverrunBounded, Excess
<1>3. InsideCeilings => InsideCeilings'
  BY DEF InsideCeilings
<1> QED
  BY <1>1, <1>2, <1>3 DEF SeamInv

LEMMA AllowKeeps ==
  ASSUME SeamInv, NEW counter \in {"upstream", "controller", "private"}, NEW max \in Nat, NEW ok \in BOOLEAN,
         AllowOf(counter, max, ok), UNCHANGED seamVars
  PROVE  SeamInv'
<1>1. SeamTypeOK'
  BY DEF SeamInv, SeamTypeOK, seamVars
<1>2. attempts' \in Counters
  BY DEF AllowOf, SeamInv, BudgetTypeOK, Counters
<1>3. BudgetTypeOK'
  BY <1>2 DEF AllowOf, StartClock, SeamInv, BudgetTypeOK
<1> QED
  BY <1>1, <1>3, NothingReserved DEF AllowOf, seamVars

LEMMA QuietMovesKeep ==
  ASSUME SeamInv,
         \/ Silent
         \/ PrepareFails
         \/ Consume /\ UNCHANGED budgetVars
         \/ DeadlinePasses /\ UNCHANGED seamVars
  PROVE  SeamInv'
<1>1. BudgetTypeOK' /\ SeamTypeOK'
  BY DEF Silent, PrepareFails, Consume, DeadlinePasses, SeamInv, BudgetTypeOK, SeamTypeOK, seamVars, budgetVars
<1>2. /\ UNCHANGED <<total, counted, stage, estimate, purpose, sent, lost, stranded>>
      /\ outcome' = outcome \/ stage = "idle" \/ outcome' = "none"
  BY DEF Silent, PrepareFails, Quiet, Consume, DeadlinePasses, seamVars, budgetVars
<1> QED
  BY <1>1, <1>2, NothingReserved

LEMMA DispatchKeeps ==
  ASSUME SeamInv, NEW e \in Estimates, NEW p \in Purpose, Dispatch(e, p)
  PROVE  SeamInv'
<1> USE DEF SeamInv
<1>0. e \in Tokens /\ e # Nothing /\ stage = "idle" /\ estimate = Nothing
  BY EstimateAssumption DEF Dispatch, Quiet
<1>1. CASE UNCHANGED total
  <2>1. \/ /\ stage' = "idle" /\ estimate' = Nothing /\ purpose' = "none" /\ outcome' = "error"
        \/ /\ stage' = "open" /\ estimate' = e /\ purpose' = p /\ outcome' = "none"
           /\ total' = Plus(total, e)
    BY DEF Dispatch, Idle, ReserveGeneration
  <2>2. total' # Plus(total, e)
    BY <1>0, <1>1 DEF Plus, BudgetTypeOK, Tokens, Nothing
  <2>3. BudgetTypeOK' /\ SeamTypeOK'
    BY <1>1, <2>1, <2>2 DEF Dispatch, ReserveGeneration, StartClock, BudgetTypeOK, SeamTypeOK
  <2>4. UNCHANGED <<counted, sent, lost, stranded>>
    BY DEF Dispatch, ReserveGeneration
  <2>5. CountedExactly'
    BY <1>0, <2>1, <2>2, <2>4 DEF CountedExactly
  <2>6. OverrunBounded' /\ Reserved'
    BY <1>0, <1>1, <2>1, <2>2, <2>4 DEF OverrunBounded, Excess, Reserved
  <2> QED
    BY <2>1, <2>2, <2>3, <2>5, <2>6
<1>2. CASE total' # total
  <2>1. /\ ReserveGeneration(e, TRUE)
        /\ stage' = "open" /\ estimate' = e /\ purpose' = p /\ outcome' = "none"
        /\ UNCHANGED <<sent, lost, stranded>>
    BY <1>2 DEF Dispatch, ReserveGeneration
  <2>2. total' = Plus(total, e) /\ total' \in Tokens /\ InsideCeilings'
    BY <1>0, <2>1 DEF ReserveGeneration, Plus, InsideCeilings, BudgetTypeOK, Tokens
  <2>3. BudgetTypeOK' /\ SeamTypeOK'
    BY <2>1, <2>2 DEF ReserveGeneration, StartClock, BudgetTypeOK, SeamTypeOK
  <2>4. CountedExactly'
    BY <1>0, <2>1 DEF CountedExactly, ReserveGeneration
  <2>5. Reserved'
    BY <1>0, <2>1, <2>2 DEF Reserved, Plus, Nothing, Tokens, BudgetTypeOK, SeamTypeOK
  <2>6. Excess' = Excess /\ OverrunBounded'
    <3>1. Nothing \in Excess /\ Nothing.inp = 0 /\ Nothing.out = 0
      BY DEF Excess, Nothing
    <3> QED
      BY <2>2, <3>1, CeilingAssumption DEF OverrunBounded, InsideCeilings, Tokens, Excess
  <2> QED
    BY <1>0, <2>1, <2>2, <2>3, <2>4, <2>5, <2>6
<1> QED
  BY <1>1, <1>2

LEMMA SeamStepKeeps ==
  ASSUME SeamInv, SeamStep PROVE SeamInv'
<1> USE DEF SeamInv
<1>0. /\ estimate \in Tokens /\ total \in Tokens /\ stranded \in Tokens
      /\ stage # "idle" => purpose \in Purpose
  BY EstimateAssumption, NothingIsTokens DEF SeamTypeOK, BudgetTypeOK
<1>1. CASE NotAdmitted
  <2>1. total' = [inp |-> total.inp - estimate.inp, out |-> total.out - estimate.out]
    BY <1>0, <1>1 DEF NotAdmitted, Release, Minus, Reserved, Tokens
  <2>2. total' \in Tokens /\ total'.inp <= total.inp /\ total'.out <= total.out
    BY <1>0, <2>1 DEF Reserved, Tokens
  <2>3. BudgetTypeOK' /\ SeamTypeOK'
    BY <1>1, <2>2 DEF NotAdmitted, Idle, Release, BudgetTypeOK, SeamTypeOK
  <2>4. CountedExactly'
    BY <1>1 DEF NotAdmitted, Idle, Release, CountedExactly
  <2>5. Reserved'
    BY <1>0, <1>1, <2>1 DEF NotAdmitted, Idle, Reserved, Nothing, Tokens
  <2>6. OverrunBounded'
    BY <1>0, <2>2, SmallerIsBounded
  <2> QED
    BY <1>1, <2>3, <2>4, <2>5, <2>6 DEF NotAdmitted, Idle
<1>2. CASE Send
  <2>1. BudgetTypeOK' /\ SeamTypeOK'
    BY <1>0, <1>2 DEF Send, BudgetTypeOK, SeamTypeOK, budgetVars
  <2>2. CountedExactly'
    BY <1>0, <1>2 DEF Send, CountedExactly, SeamTypeOK, BudgetTypeOK, budgetVars
  <2>3. Reserved' /\ InsideCeilings' /\ OverrunBounded'
    BY <1>2 DEF Send, Reserved, InsideCeilings, OverrunBounded, Excess, budgetVars
  <2> QED
    BY <1>2, <2>1, <2>2, <2>3 DEF Send
<1>3. ASSUME stage = "sent", RecordGeneration(purpose), UNCHANGED <<sent, lost>>, stage' = "idle"
      PROVE  CountedExactly' /\ counted' \in [Purpose -> Nat]
  BY <1>0, <1>3 DEF RecordGeneration, CountedExactly, SeamTypeOK, BudgetTypeOK
<1>4. CASE \E u \in Usages : Answered(u)
  <2>1. PICK u \in Usages : Answered(u)
    BY <1>4
  <2>2. total' = Plus(Minus(total, estimate), u)
    BY <2>1 DEF Answered, Commit
  <2>3. /\ total' \in Tokens
        /\ stranded.inp <= total'.inp /\ stranded.out <= total'.out
        /\ OverrunBounded'
    BY <2>1, <2>2, CommitIsBounded DEF Answered
  <2>4. CountedExactly' /\ counted' \in [Purpose -> Nat]
    BY <1>3, <2>1 DEF Answered, Commit, Idle
  <2>5. exhausted' \in BOOLEAN /\ bodies' \in Nat
    BY <2>1 DEF Answered, Commit, RecordRenderedBytes, BudgetTypeOK
  <2>6. BudgetTypeOK' /\ SeamTypeOK'
    BY <2>1, <2>3, <2>4, <2>5 DEF Answered, Idle, BudgetTypeOK, SeamTypeOK
  <2>7. Reserved'
    BY <1>0, <2>1, <2>3 DEF Answered, Idle, Reserved, Nothing, Tokens
  <2> QED
    BY <2>1, <2>3, <2>4, <2>6, <2>7 DEF Answered, Idle
<1>5. CASE AnsweredUnmetered
  <2>1. /\ stage = "sent" /\ stage' = "idle" /\ estimate' = Nothing /\ purpose' = "none"
        /\ outcome' \in {"answer", "error"}
        /\ RecordGeneration(purpose) /\ bodies' = bodies + 1
        /\ UNCHANGED <<total, exhausted, attempts, clock, sent, lost, stranded>>
    BY <1>5 DEF AnsweredUnmetered, Idle, CommitEstimated, RecordRenderedBytes
  <2>2. CountedExactly' /\ counted' \in [Purpose -> Nat]
    BY <1>3, <2>1
  <2>3. BudgetTypeOK' /\ SeamTypeOK'
    BY <2>1, <2>2 DEF BudgetTypeOK, SeamTypeOK
  <2>4. Reserved' /\ OverrunBounded'
    BY <1>0, <2>1 DEF Reserved, Nothing, Tokens, OverrunBounded, Excess
  <2> QED
    BY <2>1, <2>2, <2>3, <2>4
<1>6. CASE TransportRaises
  <2>1. /\ stage = "sent" /\ stage' = "idle" /\ estimate' = Nothing /\ purpose' = "none" /\ outcome' = "raise"
        /\ stranded' = Plus(stranded, estimate) /\ lost' = [lost EXCEPT ![purpose] = @ + 1]
        /\ UNCHANGED <<total, bodies, attempts, counted, clock, exhausted, sent>>
    BY <1>6 DEF TransportRaises, Strand, Idle, budgetVars
  <2>2. stranded' \in Tokens /\ lost' \in [Purpose -> Nat]
    BY <1>0, <2>1 DEF Plus, Tokens, SeamTypeOK
  <2>3. BudgetTypeOK' /\ SeamTypeOK'
    BY <2>1, <2>2 DEF BudgetTypeOK, SeamTypeOK
  <2>4. CountedExactly'
    BY <1>0, <2>1 DEF CountedExactly, SeamTypeOK, BudgetTypeOK
  <2>5. Reserved' /\ OverrunBounded'
    BY <1>0, <2>1 DEF Reserved, Plus, Nothing, Tokens, OverrunBounded, Excess
  <2> QED
    BY <2>1, <2>3, <2>4, <2>5
<1> QED
  BY <1>1, <1>2, <1>4, <1>5, <1>6 DEF SeamStep

LEMMA CancelKeeps ==
  ASSUME SeamInv, CancelGeneration, UNCHANGED budgetVars PROVE SeamInv'
<1> USE DEF SeamInv
<1>1. /\ stage' = "idle" /\ estimate' = Nothing /\ purpose' = "none" /\ outcome' = "none"
      /\ stranded' = Plus(stranded, estimate)
      /\ lost' = IF stage = "sent" THEN [lost EXCEPT ![purpose] = @ + 1] ELSE lost
      /\ UNCHANGED <<total, bodies, attempts, counted, clock, exhausted, sent>>
  BY DEF CancelGeneration, Strand, Idle, budgetVars
<1>2. estimate \in Tokens /\ total \in Tokens /\ stranded \in Tokens
  BY EstimateAssumption, NothingIsTokens DEF SeamTypeOK, BudgetTypeOK
<1>3. stranded' \in Tokens /\ lost' \in [Purpose -> Nat]
  BY <1>1, <1>2 DEF Plus, Tokens, SeamTypeOK
<1>4. BudgetTypeOK' /\ SeamTypeOK'
  BY <1>1, <1>3 DEF BudgetTypeOK, SeamTypeOK
<1>5. CountedExactly'
  BY <1>1 DEF CountedExactly, SeamTypeOK, BudgetTypeOK
<1>6. Reserved' /\ OverrunBounded'
  BY <1>1, <1>2 DEF Reserved, Plus, Nothing, Tokens, OverrunBounded, Excess
<1> QED
  BY <1>1, <1>4, <1>5, <1>6

LEMMA SeamInvStep ==
  ASSUME SeamInv, [Next]_vars PROVE SeamInv'
<1>1. SeamMove
  BY OneMove DEF vars, SeamMove, Silent
<1> QED
  BY <1>1, AllowKeeps, QuietMovesKeep, DispatchKeeps, SeamStepKeeps, CancelKeeps DEF SeamMove

LEMMA SeamInvInit ==
  ASSUME Init PROVE SeamInv
<1>1. BudgetTypeOK /\ SeamTypeOK
  BY RequestAssumption DEF Init, BudgetInit, SeamInit, BudgetTypeOK, SeamTypeOK, Nothing, Tokens, Counters
<1>2. InsideCeilings /\ Reserved
  BY CeilingAssumption DEF Init, BudgetInit, SeamInit, InsideCeilings, Reserved, Nothing
<1>3. CountedExactly
  <2>1. \A p \in Purpose : counted[p] = 0 /\ lost[p] = 0 /\ sent[p] = 0
    BY DEF Init, BudgetInit, SeamInit
  <2>2. stage # "sent"
    BY DEF Init, SeamInit
  <2>3. ASSUME NEW p \in Purpose
        PROVE  counted[p] + lost[p] + (IF stage = "sent" /\ purpose = p THEN 1 ELSE 0) = sent[p]
    <3>1. (IF stage = "sent" /\ purpose = p THEN 1 ELSE 0) = 0
      BY <2>2
    <3> QED
      BY <2>1, <3>1
  <2> QED
    BY <2>3 DEF CountedExactly
<1>4. OverrunBounded
  BY <1>1, <1>2, InsideIsBounded
<1> QED
  BY <1>1, <1>2, <1>3, <1>4 DEF SeamInv, Init, BudgetInit, SeamInit

-----------------------------------------------------------------------------
(* The accounting implements TokenLedger. *)

\* The request's accounting, read as the ledger's.
LEMMA LedgerInit ==
  ASSUME Init PROVE Ledger!Init
<1>1. Minus(Minus(Nothing, Nothing), Nothing) = Nothing
  BY DEF Minus, Nothing
<1>2. Settled = 0
  BY RequestAssumption DEF Init, BudgetInit, Settled
<1> QED
  BY <1>1, <1>2 DEF Init, BudgetInit, SeamInit, Ledger!Init, Ledger!Nothing, Nothing

\* Subtraction of what is there loses nothing.
LEMMA MinusTwice ==
  ASSUME NEW t \in Tokens, NEW e \in Tokens, NEW s \in Tokens,
         e.inp + s.inp <= t.inp, e.out + s.out <= t.out
  PROVE  Minus(Minus(t, e), s) = [inp |-> t.inp - e.inp - s.inp, out |-> t.out - e.out - s.out]
<1>1. Minus(t, e) = [inp |-> t.inp - e.inp, out |-> t.out - e.out]
  BY DEF Minus, Tokens
<1> QED
  BY <1>1 DEF Minus, Tokens

LEMMA SeamTokens ==
  ASSUME SeamInv
  PROVE  /\ estimate \in Tokens /\ total \in Tokens /\ stranded \in Tokens
         /\ estimate.inp + stranded.inp <= total.inp /\ estimate.out + stranded.out <= total.out
BY EstimateAssumption, NothingIsTokens DEF SeamInv, SeamTypeOK, BudgetTypeOK, Reserved

\* What is neither held nor abandoned was spent.
LEMMA Spent ==
  ASSUME SeamInv
  PROVE  /\ Minus(Minus(total, estimate), stranded)
              = [inp |-> total.inp - estimate.inp - stranded.inp,
                 out |-> total.out - estimate.out - stranded.out]
         /\ Ledger!Total = total
<1>1. Minus(Minus(total, estimate), stranded)
        = [inp |-> total.inp - estimate.inp - stranded.inp, out |-> total.out - estimate.out - stranded.out]
  BY SeamTokens, MinusTwice
<1>2. Ledger!Total = [inp |-> total.inp, out |-> total.out]
  BY <1>1, SeamTokens DEF Ledger!Total, Ledger!Plus, Tokens
<1> QED
  BY <1>1, <1>2, SeamTokens DEF Tokens

LEMMA SpentNext ==
  ASSUME SeamInv'
  PROVE  Minus(Minus(total', estimate'), stranded')
           = [inp |-> total'.inp - estimate'.inp - stranded'.inp,
              out |-> total'.out - estimate'.out - stranded'.out]
<1>1. /\ estimate' \in Tokens /\ total' \in Tokens /\ stranded' \in Tokens
      /\ estimate'.inp + stranded'.inp <= total'.inp /\ estimate'.out + stranded'.out <= total'.out
  BY EstimateAssumption, NothingIsTokens DEF SeamInv, SeamTypeOK, BudgetTypeOK, Reserved
<1> QED
  BY <1>1, MinusTwice

\* One generation counted is one settled.
LEMMA SettledOne ==
  ASSUME SeamInv, NEW p \in Purpose, RecordGeneration(p)
  PROVE  Settled' = Settled + 1
<1>1. counted \in [Purpose -> Nat] /\ counted' = [counted EXCEPT ![p] = @ + 1]
  BY DEF SeamInv, BudgetTypeOK, RecordGeneration
<1> QED
  BY <1>1, RequestAssumption DEF Settled

\* Moves that leave the accounting alone are stutters of the ledger.
LEMMA LedgerStutters ==
  ASSUME UNCHANGED <<total, counted, stage, estimate, stranded>>
  PROVE  UNCHANGED Ledger!vars
BY DEF Ledger!vars, Settled, Minus

LEMMA LedgerOpen ==
  ASSUME SeamInv, NEW e \in Estimates, NEW p \in Purpose, Dispatch(e, p)
  PROVE  [Ledger!Next]_Ledger!vars
<1>0. /\ stage = "idle" /\ estimate = Nothing /\ e \in Tokens /\ e # Nothing
      /\ total \in Tokens /\ stranded \in Tokens
  BY EstimateAssumption DEF SeamInv, Dispatch, Quiet, BudgetTypeOK, SeamTypeOK
<1>1. CASE ReserveGeneration(e, TRUE) /\ stage' = "open" /\ estimate' = e
  <2>1. total' = Plus(total, e) /\ InsideCeilings' /\ UNCHANGED <<counted, stranded>>
    BY <1>0, <1>1 DEF ReserveGeneration, InsideCeilings, Dispatch
  <2>2. SeamInv'
    BY DispatchKeeps
  <2>3. /\ Minus(Minus(total, estimate), stranded)
             = [inp |-> total.inp - stranded.inp, out |-> total.out - stranded.out]
        /\ Ledger!Total = total
    BY <1>0, Spent DEF Nothing, Tokens
  <2>4. Minus(Minus(total', estimate'), stranded')
             = [inp |-> total'.inp - e.inp - stranded.inp, out |-> total'.out - e.out - stranded.out]
    BY <1>1, <2>1, <2>2, SpentNext
  <2>5. Minus(Minus(total', estimate'), stranded') = Minus(Minus(total, estimate), stranded)
    BY <1>0, <2>1, <2>3, <2>4 DEF Plus, Tokens
  <2>6. Settled' = Settled
    BY <2>1 DEF Settled
  <2>7. LET t == Ledger!Plus(total, e)
        IN  t.inp <= MaxInput /\ t.out <= MaxGenerated /\ t.inp + t.out <= MaxModel
    BY <2>1 DEF InsideCeilings, Plus, Ledger!Plus
  <2>8. Ledger!Open(e)
    BY <1>0, <1>1, <2>1, <2>3, <2>5, <2>6, <2>7 DEF Ledger!Open, Ledger!Nothing, Nothing
  <2> QED
    BY <2>8 DEF Ledger!Next
<1>2. CASE UNCHANGED <<total, stage, estimate>>
  BY <1>2, LedgerStutters DEF Dispatch, ReserveGeneration
<1> QED
  BY <1>0, <1>1, <1>2 DEF Dispatch, ReserveGeneration, Idle

\* A generation that ends frees what it held; the reading of spent follows.
LEMMA LedgerSettles ==
  ASSUME SeamInv, SeamStep
  PROVE  [Ledger!Next]_Ledger!vars
<1> DEFINE spent == Minus(Minus(total, estimate), stranded)
<1>0. /\ SeamInv' /\ estimate \in Tokens /\ total \in Tokens /\ stranded \in Tokens
      /\ estimate.inp + stranded.inp <= total.inp /\ estimate.out + stranded.out <= total.out
      /\ spent = [inp |-> total.inp - estimate.inp - stranded.inp, out |-> total.out - estimate.out - stranded.out]
      /\ spent' = [inp |-> total'.inp - estimate'.inp - stranded'.inp,
                   out |-> total'.out - estimate'.out - stranded'.out]
  BY SeamStepKeeps, SeamTokens, Spent, SpentNext
<1>1. CASE NotAdmitted
  <2>1. /\ stage = "open" /\ stage' = "idle" /\ estimate' = Nothing /\ total' = Minus(total, estimate)
        /\ UNCHANGED <<counted, stranded>>
    BY <1>1 DEF NotAdmitted, Idle, Release
  <2>2. total' = [inp |-> total.inp - estimate.inp, out |-> total.out - estimate.out]
    BY <1>0, <2>1 DEF Minus, Tokens
  <2>3. spent' = spent
    BY <1>0, <2>1, <2>2 DEF Nothing, Tokens
  <2>4. Ledger!Return
    BY <2>1, <2>3 DEF Ledger!Return, Ledger!Nothing, Nothing, Settled
  <2> QED
    BY <2>4 DEF Ledger!Next
<1>2. CASE Send
  <2>1. stage = "open" /\ stage' = "sent" /\ UNCHANGED <<total, counted, estimate, stranded>>
    BY <1>2 DEF Send, budgetVars
  <2>2. spent' = spent /\ Settled' = Settled /\ estimate # Nothing
    BY <2>1 DEF Settled, SeamInv
  <2>3. Ledger!Send
    BY <2>1, <2>2 DEF Ledger!Send, Ledger!Nothing, Nothing
  <2> QED
    BY <2>3 DEF Ledger!Next
<1>3. CASE \E u \in Usages : Answered(u)
  <2>1. PICK u \in Usages : Answered(u)
    BY <1>3
  <2>2. /\ stage = "sent" /\ stage' = "idle" /\ estimate' = Nothing /\ total' = Plus(Minus(total, estimate), u)
        /\ purpose \in Purpose /\ RecordGeneration(purpose) /\ UNCHANGED stranded
    BY <2>1 DEF Answered, Idle, Commit, SeamInv
  <2>3. /\ total' = [inp |-> total.inp - estimate.inp + u.inp, out |-> total.out - estimate.out + u.out]
        /\ u \in Tokens
    BY <2>2, CommitIsBounded, EstimateAssumption
  <2>4. spent' = Ledger!Plus(spent, u)
    BY <1>0, <2>2, <2>3 DEF Nothing, Tokens, Ledger!Plus
  <2>5. Settled' = Settled + 1
    BY <2>2, SettledOne
  <2>6. Ledger!Charge(u)
    BY <2>2, <2>4, <2>5 DEF Ledger!Charge, Ledger!Nothing, Nothing
  <2> QED
    BY <2>6 DEF Ledger!Next
<1>4. CASE AnsweredUnmetered
  <2>1. /\ stage = "sent" /\ stage' = "idle" /\ estimate' = Nothing
        /\ purpose \in Purpose /\ RecordGeneration(purpose) /\ UNCHANGED <<total, stranded>>
    BY <1>4 DEF AnsweredUnmetered, Idle, CommitEstimated, SeamInv
  <2>2. spent' = Ledger!Plus(spent, estimate)
    BY <1>0, <2>1 DEF Nothing, Tokens, Ledger!Plus
  <2>3. Settled' = Settled + 1
    BY <2>1, SettledOne
  <2>4. Ledger!Charge(estimate)
    BY <2>1, <2>2, <2>3 DEF Ledger!Charge, Ledger!Nothing, Nothing
  <2> QED
    BY <2>4 DEF Ledger!Next
<1>5. CASE TransportRaises
  <2>1. /\ stage = "sent" /\ stage' = "idle" /\ estimate' = Nothing
        /\ stranded' = Plus(stranded, estimate) /\ UNCHANGED <<total, counted>>
    BY <1>5 DEF TransportRaises, Strand, Idle, budgetVars
  <2>2. spent' = spent /\ stranded' = Ledger!Plus(stranded, estimate) /\ Settled' = Settled
    BY <1>0, <2>1 DEF Plus, Nothing, Tokens, Ledger!Plus, Settled
  <2>3. Ledger!Strand
    BY <2>1, <2>2 DEF Ledger!Strand, Ledger!Nothing, Nothing
  <2> QED
    BY <2>3 DEF Ledger!Next
<1> QED
  BY <1>1, <1>2, <1>3, <1>4, <1>5 DEF SeamStep

LEMMA LedgerStrands ==
  ASSUME SeamInv, CancelGeneration, UNCHANGED budgetVars
  PROVE  [Ledger!Next]_Ledger!vars
<1> DEFINE spent == Minus(Minus(total, estimate), stranded)
<1>1. /\ stage' = "idle" /\ estimate' = Nothing
      /\ stranded' = Plus(stranded, estimate) /\ UNCHANGED <<total, counted>>
  BY DEF CancelGeneration, Strand, Idle, budgetVars
<1>2. /\ spent = [inp |-> total.inp - estimate.inp - stranded.inp, out |-> total.out - estimate.out - stranded.out]
      /\ spent' = [inp |-> total'.inp - estimate'.inp - stranded'.inp,
                   out |-> total'.out - estimate'.out - stranded'.out]
  BY CancelKeeps, Spent, SpentNext
<1>3. spent' = spent /\ stranded' = Ledger!Plus(stranded, estimate) /\ Settled' = Settled
  BY <1>1, <1>2, SeamTokens DEF Plus, Nothing, Tokens, Ledger!Plus, Settled
<1>4. Ledger!Strand
  BY <1>1, <1>3 DEF Ledger!Strand, Ledger!Nothing, Nothing
<1> QED
  BY <1>4 DEF Ledger!Next

LEMMA LedgerStep ==
  ASSUME SeamInv, [Next]_vars
  PROVE  [Ledger!Next]_Ledger!vars
<1>1. SeamMove
  BY OneMove DEF vars, SeamMove, Silent
<1>2. CASE \/ Silent
           \/ PrepareFails
           \/ Consume /\ UNCHANGED budgetVars
           \/ DeadlinePasses /\ UNCHANGED seamVars
           \/ \E counter \in {"upstream", "controller", "private"}, max \in Nat, ok \in BOOLEAN :
                AllowOf(counter, max, ok) /\ UNCHANGED seamVars
  <2>1. UNCHANGED <<total, counted, stage, estimate, stranded>>
    BY <1>2 DEF Silent, PrepareFails, Consume, DeadlinePasses, AllowOf, seamVars, budgetVars
  <2> QED
    BY <2>1, LedgerStutters
<1> QED
  BY <1>1, <1>2, LedgerOpen, LedgerSettles, LedgerStrands DEF SeamMove

\* What the request charges, holds and abandons is exactly what the ledger
\* allows (budget.py, GenerationReservation): estimates are opened inside the
\* ceilings and charged once, at the actual usage or at the estimate.
THEOREM RequestKeepsLedger == Spec => ImplementsLedger
<1>1. Init => SeamInv
  BY SeamInvInit
<1>2. SeamInv /\ [Next]_vars => SeamInv'
  BY SeamInvStep
<1>3. Init => Ledger!Init
  BY LedgerInit
<1>4. SeamInv /\ [Next]_vars => [Ledger!Next]_Ledger!vars
  BY LedgerStep
<1> QED
  BY <1>1, <1>2, <1>3, <1>4, PTL DEF Spec, ImplementsLedger, Ledger!Spec

LEMMA SeamInvariant == Spec => []SeamInv
BY SeamInvInit, SeamInvStep, PTL DEF Spec

\* Every generation that reached the transport is counted once under its
\* purpose or was abandoned (budget.py, record_generation).
THEOREM GenerationsAreCounted == Spec => []CountedExactly
<1>1. SeamInv => CountedExactly
  BY DEF SeamInv
<1> QED
  BY <1>1, SeamInvariant, PTL

\* No ceiling is overrun by more than one generation's error of estimate,
\* however many generations are charged at their actual cost (budget.py,
\* reserve_generation and commit).
THEOREM OverrunIsBounded == Spec => []OverrunBounded
<1>1. SeamInv => OverrunBounded
  BY DEF SeamInv
<1> QED
  BY <1>1, SeamInvariant, PTL

-----------------------------------------------------------------------------
(* Where a request can stand. *)

\* A controller is still on the ladder.
Pending == \E i \in DOMAIN order : order[i] = "controller"

\* It is there once at most, and never again after it was tried.
LadderInv ==
  /\ \A i, j \in DOMAIN order : order[i] = "controller" /\ order[j] = "controller" => i = j
  /\ rung = "controller" => ~Pending

\* Who can be waiting where.
ToolCaller ==
  \/ caller = "rung" /\ rung = "worker"
  \/ caller = "controller" /\ rung = "controller"

PlaceInv ==
  /\ pc = "prepare" => \/ rung = "none" /\ caller = "none"
                       \/ rung = "controller" /\ caller = "primary"
  /\ pc = "prepared" => rung # "worker" /\ caller = "summary"
  /\ pc = "send" => \/ ToolCaller
                    \/ caller = "summary" /\ rung # "worker"
                    \/ caller = "primary" /\ rung = "controller"
  /\ pc \in {"continue", "private", "batch", "repair"} => ToolCaller
  /\ pc \in {"controlled", "turn", "advised", "decide"} => rung = "controller"
  /\ pc = "advised" => caller = "primary" /\ resp \in {"error", "text"}
  /\ pc = "decide" => caller = "controller" /\ resp \in {"error", "withheld", "text", "calls"}
  /\ pc = "judge" => \/ rung = "worker" /\ caller = "rung"
                     \/ rung = "controller"

\* What the client's tool choice rules out on the way.
ChoiceInv ==
  /\ pc = "batch" /\ BatchChoice = "none" => fates = {}
  /\ pc = "repair" => BatchChoice = "required"
  /\ pc = "judge" /\ choice = "none" => resp # "calls"
  /\ result # "none" => pc = "done"
  /\ ToolChoiceHonoured

\* A generation is under way, or its outcome is waited for, only where one
\* was asked for, and it has the tag of that place.
GenerationInv ==
  /\ stage # "idle" => pc \in Generating /\ purpose = Tag
  /\ outcome # "none" => pc \in Generating

\* The controlled attempt, from its first turn to its decision.
InAttempt ==
  /\ rung = "controller"
  /\ pc \in {"turn", "prepare", "prepared", "send", "continue", "private", "batch", "advised", "decide"}

Asking == pc \in {"send", "advised"} /\ caller = "primary"

TurnsInv ==
  /\ InAttempt /\ pc # "turn" => controllerTurns < MaxControllerTurns
  /\ Asking => primaryTurns < MaxPrimaryTurns

\* The generation that is about to be sent.
Due(p) ==
  IF pc \in Generating /\ Tag = p /\ stage # "sent" /\ outcome = "none" THEN 1 ELSE 0

\* The controlled attempt was run once, and is or was run again.
Rerun ==
  /\ ~Pending /\ replans > 0
  /\ rung = "controller" => replanned

\* What the run under way may have asked of the primary so far.
PrimaryAllowance ==
  IF Pending \/ pc = "controlled" THEN 0
  ELSE IF Asking THEN primaryTurns + 1
  ELSE IF InAttempt THEN primaryTurns
  ELSE MaxPrimaryTurns

\* What the run under way, and what came before the ladder, generated as worker
\* beside its rungs: the summary of the first preparation and, for each turn
\* of the controller, a summary and its own generation.
WorkerAllowance ==
  IF pc = "prepare" /\ rung = "none" THEN 0
  ELSE IF Pending \/ pc = "controlled" THEN 1
  ELSE IF InAttempt
         THEN 2 * controllerTurns
                + (IF pc \in {"turn", "prepare"} \/ Asking THEN 1
                   ELSE IF caller = "summary" THEN 2 ELSE 3)
  ELSE 1 + 2 * MaxControllerTurns

CountsInv ==
  /\ attempts.upstream <= MaxUpstream /\ attempts.controller <= MaxController
  /\ sent["private_continuation"] + Due("private_continuation") <= attempts.private
  /\ attempts.private <= MaxPrivate
  /\ sent["tool_repair"] + Due("tool_repair") <= regens
  /\ sent["controller"] + Due("controller")
       <= PrimaryAllowance + (IF Rerun THEN MaxPrimaryTurns ELSE 0)
  /\ sent["worker"] + Due("worker")
       <= attempts.upstream + WorkerAllowance + (IF Rerun THEN 2 * MaxControllerTurns ELSE 0)

\* The request's own variables.
ControlTypeOK ==
  /\ pc \in Places /\ caller \in Callers
  /\ choice \in {"auto", "none", "required"}
  /\ order \in Seq(Rungs) /\ rung \in Rungs \cup {"none"}
  /\ replans \in 0..MaxReplans /\ replanned \in BOOLEAN
  /\ loop \in 0..MaxLoop
  /\ regens \in 0..MaxRegenerations
  /\ fates \subseteq {"accepted", "rejected"}
  /\ primaryTurns \in 0..MaxPrimaryTurns
  /\ controllerTurns \in 0..MaxControllerTurns
  /\ resp \in {"none", "error", "withheld", "text", "calls"}
  /\ result \in {"none", "ok", "error", "exhausted", "raised", "cancelled"}

RequestInv ==
  SeamInv /\ ControlTypeOK /\ LadderInv /\ PlaceInv /\ ChoiceInv /\ GenerationInv /\ TurnsInv

\* Between two generations nothing is under way.
LEMMA QuietElsewhere ==
  ASSUME RequestInv
  PROVE  /\ pc \notin Generating => Quiet
         /\ outcome # "none" => stage = "idle"
BY DEF RequestInv, SeamInv, SeamTypeOK, GenerationInv, Quiet

\* The ladder that is left after a rung was taken.
LEMMA LadderShrinks ==
  ASSUME order \in Seq(Rungs), order # <<>>, LadderInv, order' = Tail(order), rung' = Head(order)
  PROVE  /\ order' \in Seq(Rungs) /\ rung' \in Rungs
         /\ LadderInv'
         /\ Pending' => Pending
         /\ rung' = "controller" => Pending
<1>1. /\ order' \in Seq(Rungs) /\ Len(order') = Len(order) - 1 /\ Len(order) \in Nat \ {0}
      /\ \A i \in 1..Len(order') : order'[i] = order[i + 1]
      /\ rung' = order[1] /\ rung' \in Rungs
  OBVIOUS
<1>2. DOMAIN order = 1..Len(order) /\ DOMAIN order' = 1..Len(order')
  BY <1>1
<1>3. \A i \in DOMAIN order' : i + 1 \in DOMAIN order /\ i + 1 # 1 /\ i \in Int
  BY <1>1, <1>2
<1>4. 1 \in DOMAIN order
  BY <1>1, <1>2
<1>5. \A i, j \in DOMAIN order' : order'[i] = "controller" /\ order'[j] = "controller" => i = j
  BY <1>1, <1>2, <1>3 DEF LadderInv
<1>6. rung' = "controller" => ~Pending'
  BY <1>1, <1>2, <1>3, <1>4 DEF LadderInv, Pending
<1> QED
  BY <1>1, <1>2, <1>3, <1>4, <1>5, <1>6 DEF LadderInv, Pending

ControlInv == ControlTypeOK /\ PlaceInv /\ ChoiceInv /\ GenerationInv /\ TurnsInv

\* A request that is over satisfies all but its tool choice.
LEMMA Over ==
  ASSUME RequestInv, NEW r \in {"ok", "error", "exhausted", "raised", "cancelled"}, End(r),
         stage' = "idle", outcome' = "none",
         r = "ok" => /\ choice = "none" => resp = "text"
                     /\ choice = "required" => resp = "calls"
  PROVE  ControlInv'
<1> USE DEF RequestInv, ControlInv, End
<1>1. ControlTypeOK'
  BY DEF ControlTypeOK, Places
<1>2. PlaceInv' /\ TurnsInv'
  BY DEF PlaceInv, TurnsInv, InAttempt, Asking
<1>3. ChoiceInv' /\ GenerationInv'
  BY DEF ChoiceInv, ToolChoiceHonoured, GenerationInv
<1> QED
  BY <1>1, <1>2, <1>3

LEMMA PreparationKeeps ==
  ASSUME RequestInv, PrepareRequestFails \/ Summarize \/ PrepareRequest
  PROVE  ControlInv'
<1> USE DEF RequestInv
<1>0. Quiet /\ stage' = "idle" /\ outcome' = "none"
  BY QuietElsewhere DEF PrepareRequestFails, Summarize, PrepareRequest, Silent, seamVars, Quiet, Generating
<1>1. CASE PrepareRequestFails
  BY <1>0, <1>1, Over DEF PrepareRequestFails
<1>2. CASE Summarize \/ PrepareRequest
  <2> USE DEF Summarize, PrepareRequest, Call, Goto
  <2>0. pc' \in {"send", "ladder"} /\ caller' \in {caller, "summary", "controller"}
    BY <1>2
  <2>1. ControlTypeOK'
    <3>1. pc' \in Places /\ caller' \in Callers
      BY <2>0 DEF Places, Generating, Callers, ControlTypeOK
    <3> QED
      BY <1>2, <3>1 DEF ControlTypeOK
  <2>2. PlaceInv'
    BY <1>2 DEF ControlTypeOK, PlaceInv, ToolCaller, Rungs
  <2>3. ChoiceInv' /\ GenerationInv'
    BY <1>0, <1>2 DEF ChoiceInv, ToolChoiceHonoured, GenerationInv
  <2>4. TurnsInv'
    BY <1>2 DEF TurnsInv, InAttempt, Asking
  <2> QED
    BY <2>1, <2>2, <2>3, <2>4 DEF ControlInv
<1> QED
  BY <1>1, <1>2

LEMMA LadderKeeps ==
  ASSUME RequestInv, Planless \/ NextRung \/ LadderEnds \/ Replan \/ Judge
  PROVE  ControlInv'
<1> USE DEF RequestInv
<1>0. Quiet /\ stage' = "idle" /\ outcome' = "none"
  BY QuietElsewhere DEF Planless, NextRung, LadderEnds, Replan, Judge, Silent, seamVars, Quiet, Generating
<1>1. CASE Planless \/ LadderEnds
  BY <1>0, <1>1, Over DEF Planless, LadderEnds
<1>2. CASE NextRung
  <2> USE DEF NextRung, Place
  <2>1. \/ order' = Tail(order) /\ rung' = Head(order)
        \/ UNCHANGED <<rung, order>>
    BY <1>2
  <2>2. order' \in Seq(Rungs) /\ rung' \in Rungs \cup {"none"}
    BY <1>2, <2>1, LadderShrinks DEF ControlTypeOK
  <2>3. ControlTypeOK'
    <3>1. pc' \in Places /\ caller' \in Callers /\ replanned' \in BOOLEAN
      BY <1>2 DEF ControlTypeOK, Places, Generating, Callers
    <3>2. UNCHANGED <<choice, replans, loop, regens, fates, primaryTurns, controllerTurns, resp, result>>
      BY <1>2
    <3> QED
      BY <2>2, <3>1, <3>2 DEF ControlTypeOK
  <2>4. rung' = Head(order) => rung' \in {"worker", "controller"}
    BY <1>2 DEF ControlTypeOK, Rungs
  <2>5. PlaceInv'
    BY <1>2, <2>4 DEF PlaceInv, ToolCaller
  <2>6. ChoiceInv' /\ GenerationInv'
    BY <1>0, <1>2 DEF ChoiceInv, ToolChoiceHonoured, GenerationInv
  <2>7. TurnsInv'
    BY <1>2, <2>4 DEF TurnsInv, InAttempt, Asking
  <2> QED
    BY <2>3, <2>5, <2>6, <2>7 DEF ControlInv
<1>3. CASE Replan
  <2> USE DEF Replan, MayReplan, Place
  <2>0. /\ \/ rung = "worker" /\ caller = "rung" /\ pc' \in {"send", "judge"}
           \/ rung = "controller" /\ pc' \in {"controlled", "judge"}
        /\ pc = "judge" /\ resp = "withheld" /\ UNCHANGED <<caller, choice, rung, resp, result>>
    BY <1>3 DEF PlaceInv
  <2>1. replans' \in 0..MaxReplans
    <3>1. replans \in Int /\ 0 <= replans /\ replans < MaxReplans /\ MaxReplans \in Int
      BY <1>3, RequestAssumption DEF ControlTypeOK
    <3>2. replans' = replans + 1 \/ replans' = replans
      BY <1>3
    <3> QED
      BY <3>1, <3>2
  <2>2. pc' \in Places
    BY <1>3, <2>0 DEF Places, Generating
  <2>3. ControlTypeOK'
    BY <1>3, <2>1, <2>2 DEF ControlTypeOK
  <2>4. PlaceInv'
    BY <1>3, <2>0 DEF PlaceInv, ToolCaller
  <2>5. ChoiceInv' /\ GenerationInv'
    BY <1>0, <1>3, <2>0 DEF ChoiceInv, ToolChoiceHonoured, GenerationInv
  <2>6. TurnsInv'
    BY <1>3, <2>0 DEF TurnsInv, InAttempt, Asking
  <2> QED
    BY <2>3, <2>4, <2>5, <2>6 DEF ControlInv
<1>4. CASE Judge
  <2>1. CASE Accepted
    <3>1. End("ok") /\ (choice = "none" => resp = "text") /\ (choice = "required" => resp = "calls")
      BY <1>4, <2>1 DEF Judge, Accepted, ChoiceInv
    <3> QED
      BY <1>0, <3>1, Over
  <2>2. CASE ~Accepted /\ choice = "auto"
    BY <1>0, <1>4, <2>2, Over DEF Judge
  <2>3. CASE Goto("ladder")
    <3> USE <2>3 DEF Goto
    <3>1. ControlTypeOK' /\ PlaceInv'
      BY DEF ControlTypeOK, Places, PlaceInv
    <3>2. ChoiceInv' /\ GenerationInv' /\ TurnsInv'
      BY <1>0, <1>4 DEF Judge, ChoiceInv, ToolChoiceHonoured, GenerationInv, TurnsInv, InAttempt, Asking
    <3> QED
      BY <3>1, <3>2 DEF ControlInv
  <2> QED
    BY <1>4, <2>1, <2>2, <2>3 DEF Judge
<1> QED
  BY <1>1, <1>2, <1>3, <1>4

\* An answer of _handle_request_send, whoever waits for it.
LEMMA ReturnKeeps ==
  ASSUME RequestInv, pc \in {"send", "continue", "private", "batch"},
         NEW r \in {"error", "withheld", "text", "calls"}, Return(r),
         stage' = "idle", outcome' = "none",
         r = "withheld" => caller \in {"rung", "controller"},
         r = "calls" => \/ caller = "controller"
                        \/ caller = "rung" /\ choice # "none"
  PROVE  ControlInv'
<1> USE DEF RequestInv, Return
<1>0. \/ ToolCaller
      \/ caller = "summary" /\ rung # "worker" /\ pc = "send"
      \/ caller = "primary" /\ rung = "controller" /\ pc = "send"
  BY DEF PlaceInv
<1>1. /\ caller = "summary" => pc' = "prepared"
      /\ caller = "primary" => pc' = "advised"
      /\ caller = "controller" => pc' = "decide"
      /\ caller = "rung" => pc' = "judge"
  OBVIOUS
<1>2. pc' \in Places /\ resp' = r
  BY <1>0, <1>1 DEF ToolCaller, Places
<1>3. ControlTypeOK'
  BY <1>2 DEF ControlTypeOK
<1>4. PlaceInv'
  BY <1>0, <1>1, <1>2 DEF ToolCaller, PlaceInv
<1>5. ChoiceInv'
  BY <1>0, <1>1, <1>2 DEF ToolCaller, ChoiceInv, ToolChoiceHonoured
<1>6. GenerationInv'
  BY DEF GenerationInv
<1>7. TurnsInv'
  BY <1>0, <1>1 DEF ToolCaller, TurnsInv, InAttempt, Asking
<1> QED
  BY <1>3, <1>4, <1>5, <1>6, <1>7 DEF ControlInv

\* What stays true of a request that does not move while the seam does.
LEMMA StandingStill ==
  ASSUME RequestInv, UNCHANGED requestVars, GenerationInv'
  PROVE  ControlInv' /\ LadderInv'
<1> USE DEF requestVars
<1>1. ControlTypeOK' /\ LadderInv'
  BY DEF RequestInv, ControlTypeOK, LadderInv, Pending
<1>2. PlaceInv'
  BY DEF RequestInv, PlaceInv, ToolCaller
<1>3. ChoiceInv' /\ TurnsInv'
  BY DEF RequestInv, ChoiceInv, BatchChoice, ToolChoiceHonoured, TurnsInv, InAttempt, Asking
<1> QED
  BY <1>1, <1>2, <1>3 DEF ControlInv

LEMMA SeamKeeps ==
  ASSUME RequestInv, Generate \/ Reconcile
  PROVE  ControlInv' /\ LadderInv'
<1> USE DEF RequestInv
<1>1. UNCHANGED requestVars
  BY DEF Generate, Reconcile
<1>2. UNCHANGED <<pc, caller, Tag>>
  BY <1>1 DEF requestVars, Tag
<1>3. CASE Generate
  <2>1. ASSUME PrepareFails PROVE GenerationInv'
    BY <1>2, <1>3, <2>1 DEF Generate, PrepareFails, Quiet, GenerationInv
  <2>2. ASSUME NEW e \in Estimates, Dispatch(e, Tag) PROVE GenerationInv'
    <3>1. pc \in Generating
      BY <1>3 DEF Generate
    <3>2. stage' # "idle" => purpose' = Tag
      BY <2>2 DEF Dispatch, Idle
    <3> QED
      BY <1>2, <3>1, <3>2 DEF GenerationInv
  <2>3. GenerationInv'
    BY <1>3, <2>1, <2>2 DEF Generate
  <2> QED
    BY <1>1, <2>3, StandingStill
<1>4. CASE Reconcile
  <2>1. stage # "idle"
    BY <1>4 DEF Reconcile, SeamStep, NotAdmitted, Send, Answered, AnsweredUnmetered, TransportRaises
  <2>2. stage' = "idle" \/ (stage' = "sent" /\ purpose' = purpose)
    BY <1>4 DEF Reconcile, SeamStep, NotAdmitted, Send, Answered, AnsweredUnmetered, TransportRaises, Idle
  <2>3. GenerationInv'
    BY <1>2, <2>1, <2>2 DEF GenerationInv
  <2> QED
    BY <1>1, <2>3, StandingStill
<1> QED
  BY <1>3, <1>4

LEMMA AnswerKeeps ==
  ASSUME RequestInv,
         GenerationFails \/ GenerationRaises \/ TurnIsText \/ InternalCalls \/ WithheldCall \/ ClientTurn
  PROVE  ControlInv'
<1>0. pc \in {"send", "continue"} /\ stage' = "idle" /\ outcome' = "none"
  BY QuietElsewhere DEF GenerationFails, GenerationRaises, TurnIsText, InternalCalls, WithheldCall, ClientTurn,
                        ToolTurn, Consume
<1>1. CASE GenerationFails \/ TurnIsText \/ WithheldCall
  BY <1>0, <1>1, ReturnKeeps DEF GenerationFails, TurnIsText, WithheldCall, ToolTurn
<1>2. CASE GenerationRaises
  BY <1>0, <1>2, ReturnKeeps, Over DEF GenerationRaises
<1>3. CASE InternalCalls \/ ClientTurn
  <2> USE DEF InternalCalls, ClientTurn, ToolTurn, RequestInv
  <2>0. ToolCaller /\ pc' \in {"private", "batch"}
    BY <1>3 DEF PlaceInv, ToolCaller
  <2>1. loop' \in 0..MaxLoop /\ fates' \subseteq {"accepted", "rejected"} /\ pc' \in Places
    <3>1. 0 \in 0..MaxLoop
      BY RequestAssumption
    <3>2. loop' = 0 \/ loop' = loop
      BY <1>3
    <3>3. fates' = {} \/ fates' = fates
      BY <1>3
    <3> QED
      BY <2>0, <3>1, <3>2, <3>3 DEF ControlTypeOK, Places
  <2>2. ControlTypeOK'
    BY <1>3, <2>1 DEF ControlTypeOK
  <2>3. PlaceInv'
    BY <1>3, <2>0 DEF PlaceInv, ToolCaller
  <2>4. ChoiceInv' /\ GenerationInv'
    BY <1>0, <1>3 DEF ChoiceInv, ToolChoiceHonoured, GenerationInv
  <2>5. TurnsInv'
    BY <1>3, <2>0 DEF TurnsInv, InAttempt, Asking, ToolCaller
  <2> QED
    BY <2>2, <2>3, <2>4, <2>5 DEF ControlInv
<1> QED
  BY <1>1, <1>2, <1>3

LEMMA PrivateKeeps ==
  ASSUME RequestInv, LoopExhausted \/ Continue
  PROVE  ControlInv'
<1> USE DEF RequestInv
<1>0. pc = "private" /\ Quiet /\ stage' = "idle" /\ outcome' = "none"
  BY QuietElsewhere DEF LoopExhausted, Continue, Silent, seamVars, Quiet, Generating
<1>1. CASE Return("error")
  BY <1>0, <1>1, ReturnKeeps
<1>2. CASE Continue /\ pc' = "continue" /\ loop' = loop + 1
  <2> USE DEF Continue
  <2>0. ToolCaller
    BY <1>0 DEF PlaceInv
  <2>1. loop' \in 0..MaxLoop
    <3>1. loop \in Int /\ 0 <= loop /\ loop < MaxLoop /\ MaxLoop \in Int
      BY <1>2, RequestAssumption DEF ControlTypeOK
    <3> QED
      BY <1>2, <3>1
  <2>2. UNCHANGED <<caller, choice, order, rung, replans, replanned, regens, fates,
                    primaryTurns, controllerTurns, resp, result>>
    BY <1>2 DEF Return
  <2>3. pc' \in Places
    BY <1>2 DEF Places, Generating
  <2>4. ControlTypeOK'
    BY <1>2, <2>1, <2>2, <2>3 DEF ControlTypeOK
  <2>5. PlaceInv'
    BY <1>2, <2>0, <2>2 DEF PlaceInv, ToolCaller
  <2>6. ChoiceInv' /\ GenerationInv'
    BY <1>0, <1>2, <2>2 DEF ChoiceInv, ToolChoiceHonoured, GenerationInv
  <2>7. TurnsInv'
    BY <1>0, <1>2, <2>0, <2>2 DEF TurnsInv, InAttempt, Asking, ToolCaller
  <2> QED
    BY <2>4, <2>5, <2>6, <2>7 DEF ControlInv
<1> QED
  BY <1>1, <1>2 DEF LoopExhausted, Continue

LEMMA BatchKeeps ==
  ASSUME RequestInv,
         Candidate("accepted") \/ Candidate("rejected") \/ Regenerate \/ Regenerated \/ BatchEnds
  PROVE  ControlInv'
<1> USE DEF RequestInv
<1>0. /\ pc \in {"batch", "repair"} /\ ToolCaller /\ stage' = "idle" /\ outcome' = "none"
      /\ pc = "batch" => Quiet
  BY QuietElsewhere DEF Candidate, Regenerate, Regenerated, BatchEnds, Silent, seamVars, Quiet, Generating,
                        Consume, PlaceInv
<1>1. CASE BatchEnds
  <2>1. PICK r \in Verdicts : Return(r)
    BY <1>1 DEF BatchEnds
  <2>2. r \in {"error", "text", "calls"}
    BY DEF Verdicts
  <2>3. r = "calls" => fates # {}
    BY DEF Verdicts
  <2>4. r = "calls" => \/ caller = "controller"
                       \/ caller = "rung" /\ choice # "none"
    BY <1>0, <1>1, <2>3 DEF BatchEnds, ChoiceInv, BatchChoice, ToolCaller
  <2> QED
    BY <1>0, <1>1, <2>1, <2>2, <2>4, ReturnKeeps DEF BatchEnds
<1>2. CASE Candidate("accepted") \/ Candidate("rejected") \/ Regenerated
  <2> USE DEF Candidate, Regenerated
  <2>1. /\ pc' = "batch" /\ fates' \subseteq {"accepted", "rejected"} /\ BatchChoice # "none"
        /\ UNCHANGED <<caller, choice, order, rung, replans, replanned, loop, regens,
                       primaryTurns, controllerTurns, resp, result>>
    BY <1>2 DEF ControlTypeOK, ChoiceInv
  <2>2. BatchChoice' = BatchChoice
    BY <2>1 DEF BatchChoice
  <2>3. ControlTypeOK'
    BY <2>1 DEF ControlTypeOK, Places
  <2>4. PlaceInv'
    BY <1>0, <2>1 DEF PlaceInv, ToolCaller
  <2>5. ChoiceInv' /\ GenerationInv'
    BY <1>0, <2>1, <2>2 DEF ChoiceInv, ToolChoiceHonoured, GenerationInv
  <2>6. TurnsInv'
    <3>1. pc = "repair" => caller = "rung" /\ rung = "worker"
      BY <1>0 DEF ChoiceInv, BatchChoice, ToolCaller
    <3> QED
      BY <1>0, <2>1, <3>1 DEF TurnsInv, InAttempt, Asking, ToolCaller
  <2> QED
    BY <2>3, <2>4, <2>5, <2>6 DEF ControlInv
<1>3. CASE Regenerate
  <2> USE DEF Regenerate
  <2>1. regens' \in 0..MaxRegenerations
    <3>1. regens \in Int /\ 0 <= regens /\ regens < MaxRegenerations /\ MaxRegenerations \in Int
      BY <1>3, RequestAssumption DEF ControlTypeOK
    <3> QED
      BY <1>3, <3>1
  <2>2. pc' = "repair" /\ pc' \in Places /\ caller = "rung" /\ rung = "worker" /\ BatchChoice' = BatchChoice
    BY <1>0, <1>3 DEF Places, Generating, BatchChoice, ToolCaller
  <2>3. ControlTypeOK'
    BY <1>3, <2>1, <2>2 DEF ControlTypeOK
  <2>4. PlaceInv'
    BY <1>3, <2>2 DEF PlaceInv, ToolCaller
  <2>5. ChoiceInv' /\ GenerationInv'
    BY <1>0, <1>3, <2>2 DEF ChoiceInv, ToolChoiceHonoured, GenerationInv
  <2>6. TurnsInv'
    BY <1>3, <2>2 DEF TurnsInv, InAttempt, Asking
  <2> QED
    BY <2>3, <2>4, <2>5, <2>6 DEF ControlInv
<1> QED
  BY <1>1, <1>2, <1>3

\* The controlled attempt is over, with an error or with the decision.
LEMMA AttemptEnds ==
  ASSUME RequestInv, pc \in {"controlled", "turn", "advised", "decide"}, pc' = "judge",
         stage' = "idle", outcome' = "none",
         resp' \in {"error", "withheld", "text", "calls"},
         choice = "none" => resp' # "calls",
         controllerTurns' \in 0..MaxControllerTurns,
         UNCHANGED <<caller, choice, order, rung, replans, replanned, loop, regens, fates,
                     primaryTurns, result>>
  PROVE  ControlInv'
<1> USE DEF RequestInv
<1>1. ControlTypeOK'
  BY DEF ControlTypeOK, Places
<1>2. PlaceInv'
  BY DEF PlaceInv
<1>3. ChoiceInv' /\ GenerationInv'
  BY DEF ChoiceInv, ToolChoiceHonoured, GenerationInv
<1>4. TurnsInv'
  BY DEF TurnsInv, InAttempt, Asking
<1> QED
  BY <1>1, <1>2, <1>3, <1>4 DEF ControlInv

LEMMA ControllerKeeps ==
  ASSUME RequestInv,
         ControllerRefused \/ ControllerSelected \/ AskPrimary \/ PrimaryAdvised
           \/ ControllerFailed \/ ControllerDecides
  PROVE  ControlInv'
<1> USE DEF RequestInv
<1>0. /\ pc \in {"controlled", "turn", "advised", "decide"} /\ rung = "controller"
      /\ stage' = "idle" /\ outcome' = "none"
      /\ controllerTurns \in 0..MaxControllerTurns
  BY QuietElsewhere DEF ControllerRefused, ControllerSelected, AskPrimary, PrimaryAdvised, ControllerFailed,
                        ControllerDecides, Silent, seamVars, Quiet, Generating, PlaceInv, ControlTypeOK
<1>1. CASE ControlledFails
  BY <1>0, <1>1, AttemptEnds DEF ControlledFails
<1>2. CASE (PrimaryAdvised \/ ControllerFailed) /\ Goto("judge")
  <2>1. resp \in {"error", "withheld"}
    BY <1>2 DEF PrimaryAdvised, ControllerFailed, Goto
  <2> QED
    BY <1>0, <1>2, <2>1, AttemptEnds DEF Goto
<1>3. CASE ControllerSelected
  <2> USE DEF ControllerSelected
  <2>1. /\ primaryTurns' \in 0..MaxPrimaryTurns /\ controllerTurns' \in 0..MaxControllerTurns
        /\ pc' = "turn" /\ pc' \in Places
    BY <1>3, RequestAssumption DEF Places
  <2>2. ControlTypeOK'
    BY <1>3, <2>1 DEF ControlTypeOK
  <2>3. PlaceInv' /\ TurnsInv'
    BY <1>0, <1>3, <2>1 DEF PlaceInv, TurnsInv, InAttempt, Asking
  <2>4. ChoiceInv' /\ GenerationInv'
    BY <1>0, <1>3 DEF ChoiceInv, ToolChoiceHonoured, GenerationInv
  <2> QED
    BY <2>2, <2>3, <2>4 DEF ControlInv
<1>4. CASE AskPrimary /\ Call("primary")
  <2> USE DEF AskPrimary, Call
  <2>0. controllerTurns < MaxControllerTurns /\ primaryTurns < MaxPrimaryTurns
    <3>1. ~(controllerTurns >= MaxControllerTurns \/ primaryTurns >= MaxPrimaryTurns)
      BY <1>4 DEF ControlledFails
    <3> QED
      BY <3>1, RequestAssumption DEF ControlTypeOK
  <2>1. ControlTypeOK'
    BY <1>4 DEF ControlTypeOK, Places, Generating, Callers
  <2>2. PlaceInv' /\ TurnsInv'
    BY <1>0, <1>4, <2>0 DEF PlaceInv, TurnsInv, InAttempt, Asking
  <2>3. ChoiceInv' /\ GenerationInv'
    BY <1>0, <1>4 DEF ChoiceInv, ToolChoiceHonoured, GenerationInv
  <2> QED
    BY <2>1, <2>2, <2>3 DEF ControlInv
<1>5. CASE PrimaryAdvised /\ pc' = "prepare"
  <2> USE DEF PrimaryAdvised
  <2>1. caller = "primary" /\ primaryTurns < MaxPrimaryTurns /\ controllerTurns < MaxControllerTurns
    BY <1>0, <1>5 DEF PlaceInv, TurnsInv, InAttempt, Asking
  <2>2. /\ primaryTurns' = primaryTurns + 1
        /\ UNCHANGED <<caller, choice, order, rung, replans, replanned, loop, regens,
                       fates, controllerTurns, resp, result>>
    BY <1>5 DEF Goto
  <2>3. primaryTurns' \in 0..MaxPrimaryTurns
    BY <2>1, <2>2, RequestAssumption DEF ControlTypeOK
  <2>4. ControlTypeOK'
    BY <1>5, <2>2, <2>3 DEF ControlTypeOK, Places
  <2>5. PlaceInv' /\ TurnsInv'
    BY <1>0, <1>5, <2>1, <2>2 DEF PlaceInv, TurnsInv, InAttempt, Asking
  <2>6. ChoiceInv' /\ GenerationInv'
    BY <1>0, <1>5, <2>2 DEF ChoiceInv, ToolChoiceHonoured, GenerationInv
  <2> QED
    BY <2>4, <2>5, <2>6 DEF ControlInv
<1>6. CASE ControllerDecides
  <2> USE DEF ControllerDecides
  <2>0. resp \in {"text", "calls"} /\ controllerTurns < MaxControllerTurns
    BY <1>0, <1>6 DEF PlaceInv, TurnsInv, InAttempt
  <2>1. controllerTurns' \in 0..MaxControllerTurns
    BY <1>6, <2>0, RequestAssumption DEF ControlTypeOK
  <2>2. CASE pc' = "judge"
    <3>1. resp' \in {"error", "text", "calls"} /\ (choice = "none" => resp' # "calls")
      BY <1>6, <2>0, <2>2 DEF OuterChoice
    <3> QED
      BY <1>0, <1>6, <2>1, <2>2, <3>1, AttemptEnds
  <2>3. CASE pc' = "turn" /\ UNCHANGED resp
    <3>1. ControlTypeOK'
      BY <1>6, <2>1, <2>3 DEF ControlTypeOK, Places
    <3>2. PlaceInv' /\ TurnsInv'
      BY <1>0, <1>6, <2>3 DEF PlaceInv, TurnsInv, InAttempt, Asking
    <3>3. ChoiceInv' /\ GenerationInv'
      BY <1>0, <1>6, <2>3 DEF ChoiceInv, ToolChoiceHonoured, GenerationInv
    <3> QED
      BY <3>1, <3>2, <3>3 DEF ControlInv
  <2> QED
    BY <1>6, <2>2, <2>3
<1> QED
  BY <1>1, <1>2, <1>3, <1>4, <1>5, <1>6
     DEF ControllerRefused, AskPrimary, PrimaryAdvised, ControllerFailed

LEMMA EnvironmentKeeps ==
  ASSUME RequestInv, Cancel \/ Deadline \/ Finished
  PROVE  ControlInv'
<1>1. CASE Cancel
  BY <1>1, Over DEF Cancel, CancelGeneration, Idle
<1>2. CASE Deadline \/ Finished
  <2>1. UNCHANGED requestVars /\ UNCHANGED seamVars
    BY <1>2 DEF Deadline, Finished, vars
  <2>2. GenerationInv'
    BY <2>1 DEF RequestInv, GenerationInv, Tag, requestVars, seamVars
  <2> QED
    BY <2>1, <2>2, StandingStill
<1> QED
  BY <1>1, <1>2

\* The ladder and its replans are touched nowhere else.
LEMMA LadderElsewhere ==
  ASSUME [Next]_vars, ~NextRung, ~Replan
  PROVE  UNCHANGED <<order, rung, replans, replanned>>
<1>1. CASE PrepareRequestFails \/ Summarize \/ PrepareRequest \/ Planless \/ LadderEnds \/ Judge
  BY <1>1 DEF PrepareRequestFails, Summarize, PrepareRequest, Planless, LadderEnds, Judge, End, Call,
              Goto
<1>2. CASE Generate \/ Reconcile \/ Deadline \/ Finished \/ UNCHANGED vars
  BY <1>2 DEF Generate, Reconcile, Deadline, Finished, vars, requestVars
<1>3. CASE GenerationFails \/ GenerationRaises \/ TurnIsText \/ InternalCalls \/ WithheldCall \/ ClientTurn
  BY <1>3 DEF GenerationFails, GenerationRaises, TurnIsText, InternalCalls, WithheldCall, ClientTurn, End,
              Return
<1>4. CASE LoopExhausted \/ Continue \/ Candidate("accepted") \/ Candidate("rejected") \/ Regenerate
           \/ Regenerated \/ BatchEnds \/ Cancel
  BY <1>4 DEF LoopExhausted, Continue, Candidate, Regenerate, Regenerated, BatchEnds, Cancel, End, Return
<1>5. CASE ControllerRefused \/ ControllerSelected \/ AskPrimary \/ PrimaryAdvised \/ ControllerFailed
           \/ ControllerDecides
  BY <1>5 DEF ControllerRefused, ControllerSelected, AskPrimary, PrimaryAdvised, ControllerFailed,
              ControllerDecides, ControlledFails, Call, Goto
<1> QED
  BY <1>1, <1>2, <1>3, <1>4, <1>5 DEF Next, Step

\* The ladder only loses rungs.
LEMMA LadderStep ==
  ASSUME RequestInv, [Next]_vars
  PROVE  LadderInv' /\ (Pending' => Pending)
<1>1. CASE NextRung /\ order' = Tail(order) /\ rung' = Head(order)
  BY <1>1, LadderShrinks DEF NextRung, RequestInv, ControlTypeOK
<1>2. CASE UNCHANGED <<order, rung>>
  BY <1>2 DEF RequestInv, LadderInv, Pending
<1>3. UNCHANGED <<order, rung>> \/ (NextRung /\ order' = Tail(order) /\ rung' = Head(order))
  BY LadderElsewhere DEF NextRung, Replan
<1> QED
  BY <1>1, <1>2, <1>3

LEMMA RequestInvStep ==
  ASSUME RequestInv, [Next]_vars PROVE RequestInv'
<1>1. SeamInv'
  BY SeamInvStep DEF RequestInv
<1>2. LadderInv'
  BY LadderStep
<1>3. CASE UNCHANGED vars
  <2>1. UNCHANGED requestVars /\ UNCHANGED seamVars
    BY <1>3 DEF vars
  <2>2. GenerationInv'
    BY <2>1 DEF RequestInv, GenerationInv, Tag, requestVars, seamVars
  <2> QED
    BY <1>1, <2>1, <2>2, StandingStill DEF ControlInv, RequestInv
<1>4. CASE Next
  <2>1. ControlInv'
    BY <1>4, PreparationKeeps, LadderKeeps, SeamKeeps, AnswerKeeps, PrivateKeeps, BatchKeeps, ControllerKeeps,
       EnvironmentKeeps DEF Next, Step
  <2> QED
    BY <1>1, <1>2, <2>1 DEF ControlInv, RequestInv
<1> QED
  BY <1>3, <1>4

\* The planner's ladders: workers, with a controller at one end or nowhere.
LEMMA LaddersTyped ==
  ASSUME order \in Ladders(choice)
  PROVE  /\ order \in Seq(Rungs)
         /\ \A i, j \in DOMAIN order : order[i] = "controller" /\ order[j] = "controller" => i = j
<1> DEFINE workers == {[i \in 1..n |-> "worker"] : n \in 0..MaxRungs}
<1>1. \A w \in workers : /\ w \in Seq(Rungs) /\ Len(w) \in Nat /\ DOMAIN w = 1..Len(w)
                         /\ \A i \in DOMAIN w : w[i] = "worker"
  <2>1. ASSUME NEW n \in 0..MaxRungs
        PROVE  LET w == [i \in 1..n |-> "worker"]
               IN  /\ w \in Seq(Rungs) /\ Len(w) \in Nat /\ DOMAIN w = 1..Len(w)
                   /\ \A i \in DOMAIN w : w[i] = "worker"
    <3> DEFINE w == [i \in 1..n |-> "worker"]
    <3>1. n \in Nat /\ w \in [1..n -> Rungs]
      BY RequestAssumption DEF Rungs
    <3>2. w \in Seq(Rungs) /\ Len(w) = n
      BY <3>1
    <3> QED
      BY <3>1, <3>2
  <2> QED
    BY <2>1
<1>2. <<"controller">> \in Seq(Rungs) /\ Len(<<"controller">>) = 1 /\ <<"controller">>[1] = "controller"
  BY DEF Rungs
<1>3. CASE order \in workers
  BY <1>1, <1>3
<1>4. ASSUME NEW w \in workers, order = w \o <<"controller">>
      PROVE  /\ order \in Seq(Rungs)
             /\ \A i \in DOMAIN order : order[i] = "controller" => i = Len(w) + 1
  <2>1. /\ order \in Seq(Rungs) /\ Len(order) = Len(w) + 1 /\ DOMAIN order = 1..Len(order)
        /\ \A i \in 1..Len(w) : order[i] = w[i]
    BY <1>1, <1>2, <1>4
  <2> QED
    BY <1>1, <2>1
<1>5. ASSUME NEW w \in workers, order = <<"controller">> \o w
      PROVE  /\ order \in Seq(Rungs)
             /\ \A i \in DOMAIN order : order[i] = "controller" => i = 1
  <2>1. /\ order \in Seq(Rungs) /\ Len(order) = Len(w) + 1 /\ DOMAIN order = 1..Len(order)
        /\ \A i \in 2..Len(order) : order[i] = w[i - 1]
    BY <1>1, <1>2, <1>5
  <2> QED
    BY <1>1, <2>1
<1>6. \/ order \in workers
      \/ \E w \in workers : order = w \o <<"controller">>
      \/ \E w \in workers : order = <<"controller">> \o w
  BY DEF Ladders
<1> QED
  BY <1>3, <1>4, <1>5, <1>6

LEMMA RequestInvInit ==
  ASSUME Init PROVE RequestInv
<1> USE DEF Init
<1>1. SeamInv
  BY SeamInvInit
<1>2. ControlTypeOK
  <2>1. order \in Seq(Rungs)
    BY LaddersTyped
  <2>2. /\ 0 \in 0..MaxReplans /\ 0 \in 0..MaxLoop /\ 0 \in 0..MaxRegenerations
        /\ 0 \in 0..MaxPrimaryTurns /\ 0 \in 0..MaxControllerTurns
    BY RequestAssumption
  <2> QED
    BY <2>1, <2>2 DEF ControlTypeOK, Places, Callers
<1>3. LadderInv
  BY LaddersTyped DEF LadderInv
<1>4. PlaceInv /\ ChoiceInv
  BY DEF PlaceInv, ChoiceInv, ToolChoiceHonoured
<1>5. GenerationInv /\ TurnsInv
  BY DEF SeamInit, GenerationInv, TurnsInv, InAttempt, Asking
<1> QED
  BY <1>1, <1>2, <1>3, <1>4, <1>5 DEF RequestInv

\* A request only ever stands where the code can stand, with its turns, its
\* replans and its repair budget inside their limits.
THEOREM RequestTypeCorrect == Spec => []TypeOK
<1>1. RequestInv => TypeOK
  BY DEF RequestInv, SeamInv, ControlTypeOK, TypeOK
<1> QED
  BY <1>1, RequestInvInit, RequestInvStep, PTL DEF Spec

\* However a successful answer came about, by a rung, a repair or a controller
\* that worked under auto, it keeps the client's tool choice
\* (_satisfies_tool_requirement, CompatibilityController.decide).
THEOREM SuccessKeepsToolChoice == Spec => []ToolChoiceHonoured
<1>1. RequestInv => ToolChoiceHonoured
  BY DEF RequestInv, ChoiceInv
<1> QED
  BY <1>1, RequestInvInit, RequestInvStep, PTL DEF Spec

-----------------------------------------------------------------------------
(* How many generations a request can cost. *)

LEMMA CountTypes ==
  ASSUME RequestInv
  PROVE  /\ attempts.upstream \in Nat /\ attempts.controller \in Nat /\ attempts.private \in Nat
         /\ \A p \in Purpose : sent[p] \in Nat
         /\ regens \in Nat /\ primaryTurns \in Nat /\ controllerTurns \in Nat
         /\ primaryTurns <= MaxPrimaryTurns /\ controllerTurns <= MaxControllerTurns
         /\ MaxPrimaryTurns \in Nat /\ MaxControllerTurns \in Nat
BY RequestAssumption DEF RequestInv, SeamInv, BudgetTypeOK, Counters, SeamTypeOK, ControlTypeOK

LEMMA DueIsOne == \A p \in Purpose : Due(p) \in {0, 1}
  BY DEF Due

\* No allowance exceeds the one after the controlled attempt.
LEMMA AllowanceTypes ==
  ASSUME RequestInv
  PROVE  /\ PrimaryAllowance \in Nat /\ PrimaryAllowance <= MaxPrimaryTurns
         /\ WorkerAllowance \in Nat /\ WorkerAllowance <= 1 + 2 * MaxControllerTurns
<1>1. Asking => primaryTurns < MaxPrimaryTurns
  BY DEF RequestInv, TurnsInv
<1>2. InAttempt /\ pc # "turn" => controllerTurns < MaxControllerTurns
  BY DEF RequestInv, TurnsInv
<1>3. PrimaryAllowance \in Nat /\ PrimaryAllowance <= MaxPrimaryTurns
  BY <1>1, CountTypes DEF PrimaryAllowance
<1>4. WorkerAllowance \in Nat /\ WorkerAllowance <= 1 + 2 * MaxControllerTurns
  BY <1>2, CountTypes DEF WorkerAllowance
<1> QED
  BY <1>3, <1>4

LEMMA AllowanceTypesNext ==
  ASSUME RequestInv'
  PROVE  /\ PrimaryAllowance' \in Nat /\ PrimaryAllowance' <= MaxPrimaryTurns
         /\ WorkerAllowance' \in Nat /\ WorkerAllowance' <= 1 + 2 * MaxControllerTurns
<1>1. Asking' => primaryTurns' < MaxPrimaryTurns
  BY DEF RequestInv, TurnsInv
<1>2. InAttempt' /\ pc' # "turn" => controllerTurns' < MaxControllerTurns
  BY DEF RequestInv, TurnsInv
<1>3. /\ primaryTurns' \in Nat /\ controllerTurns' \in Nat
      /\ primaryTurns' <= MaxPrimaryTurns /\ controllerTurns' <= MaxControllerTurns
      /\ MaxPrimaryTurns \in Nat /\ MaxControllerTurns \in Nat
  BY RequestAssumption DEF RequestInv, ControlTypeOK
<1>4. PrimaryAllowance' \in Nat /\ PrimaryAllowance' <= MaxPrimaryTurns
  <2>1. \/ PrimaryAllowance' \in {0, primaryTurns', MaxPrimaryTurns}
        \/ /\ Asking'
           /\ PrimaryAllowance' = primaryTurns' + 1
    BY DEF PrimaryAllowance, Pending, Asking, InAttempt
  <2> QED
    BY <1>1, <1>3, <2>1
<1>5. WorkerAllowance' \in Nat /\ WorkerAllowance' <= 1 + 2 * MaxControllerTurns
  <2>1. \/ WorkerAllowance' \in {0, 1, 1 + 2 * MaxControllerTurns}
        \/ /\ InAttempt'
           /\ \/ WorkerAllowance' = 2 * controllerTurns' + 1
              \/ /\ pc' # "turn"
                 /\ WorkerAllowance' \in {2 * controllerTurns' + 2, 2 * controllerTurns' + 3}
    BY DEF WorkerAllowance, Pending, Asking, InAttempt
  <2> QED
    BY <1>2, <1>3, <2>1
<1> QED
  BY <1>4, <1>5

\* A generation under way, from its rendering to its outcome, is counted once.
LEMMA CountsUnderWay ==
  ASSUME RequestInv, CountsInv, Generate \/ Reconcile
  PROVE  CountsInv'
<1>0. UNCHANGED requestVars
  BY DEF Generate, Reconcile
<1>1. UNCHANGED <<pc, Tag, regens, PrimaryAllowance, WorkerAllowance, Rerun>>
  BY <1>0 DEF requestVars, Tag, PrimaryAllowance, WorkerAllowance, Pending, Asking, InAttempt, Rerun
<1>2. UNCHANGED attempts
  BY DEF Generate, Reconcile, PrepareFails, Dispatch, ReserveGeneration, budgetVars, SeamStep, NotAdmitted, Send,
         Answered, AnsweredUnmetered, TransportRaises
<1>3. ASSUME NEW p \in Purpose PROVE sent'[p] + Due(p)' <= sent[p] + Due(p)
  <2>1. CASE Reconcile /\ Send
    <3>1. purpose = Tag /\ pc \in Generating /\ stage = "open" /\ stage' = "sent" /\ outcome = "none"
      BY <2>1 DEF Send, RequestInv, GenerationInv, SeamInv
    <3>2. sent' = [sent EXCEPT ![Tag] = @ + 1] /\ sent \in [Purpose -> Nat]
      BY <2>1, <3>1 DEF Send, RequestInv, SeamInv, SeamTypeOK
    <3>3. Due(p) = (IF p = Tag THEN 1 ELSE 0) /\ Due(p)' = 0
      BY <1>1, <3>1 DEF Due
    <3> QED
      BY <3>2, <3>3
  <2>2. CASE sent' = sent
    <3>1. Due(p)' <= Due(p)
      <4>1. CASE Generate
        <5>1. Due(p) = IF Tag = p THEN 1 ELSE 0
          <6>1. pc \in Generating /\ Quiet
            BY <4>1 DEF Generate, PrepareFails, Dispatch
          <6> QED
            BY <6>1 DEF Due, Quiet
        <5>2. Due(p)' = 0 \/ Due(p)' = IF Tag = p THEN 1 ELSE 0
          BY <1>1 DEF Due
        <5> QED
          BY <5>1, <5>2
      <4>2. CASE Reconcile /\ ~Send
        <5>1. outcome' # "none"
          BY <4>2 DEF Reconcile, SeamStep, NotAdmitted, Answered, AnsweredUnmetered, TransportRaises, Idle
        <5>2. Due(p)' = 0
          BY <5>1 DEF Due
        <5> QED
          BY <5>2, DueIsOne
      <4>3. CASE Reconcile /\ Send
        <5>1. stage' = "sent"
          BY <4>3 DEF Send
        <5>2. Due(p)' = 0
          BY <5>1 DEF Due
        <5> QED
          BY <5>2, DueIsOne
      <4> QED
        BY <4>1, <4>2, <4>3
    <3> QED
      BY <2>2, <3>1, CountTypes, DueIsOne DEF Due
  <2>3. (Reconcile /\ Send) \/ sent' = sent
    BY DEF Generate, Reconcile, PrepareFails, Dispatch, SeamStep, NotAdmitted, Answered, AnsweredUnmetered,
           TransportRaises
  <2> QED
    BY <2>1, <2>2, <2>3
<1>4. \A p \in Purpose : sent'[p] \in Nat /\ Due(p)' \in {0, 1}
  <2>1. SeamInv'
    BY SeamInvStep DEF RequestInv, Next, Step
  <2> QED
    BY <2>1 DEF SeamInv, SeamTypeOK, Due
<1>5. \A p \in Purpose, bound \in Int : sent[p] + Due(p) <= bound => sent'[p] + Due(p)' <= bound
  BY <1>3, <1>4, CountTypes, DueIsOne
<1> QED
  BY <1>1, <1>2, <1>5, CountTypes, AllowanceTypes, RequestAssumption DEF CountsInv

\* A step outside the seam, between two generations.
Between ==
  /\ UNCHANGED sent
  /\ stage' = "idle" /\ outcome' = "none"
  /\ Rerun => Rerun'

\* The purpose q of the generation a step asks for ("none" if it asks for
\* none) finds its room in what the step adds to the counters or allowances.
Room(q) ==
  LET one(p) == IF p = q THEN 1 ELSE 0
  IN  /\ attempts'.upstream <= MaxUpstream /\ attempts'.controller <= MaxController
      /\ attempts'.private <= MaxPrivate
      /\ attempts.private + one("private_continuation") <= attempts'.private
      /\ regens + one("tool_repair") <= regens'
      /\ PrimaryAllowance + one("controller") <= PrimaryAllowance'
      /\ attempts.upstream + WorkerAllowance + one("worker") <= attempts'.upstream + WorkerAllowance'

LEMMA CountsBetween ==
  ASSUME RequestInv, RequestInv', CountsInv, Between,
         NEW q \in Purpose \cup {"none"}, Room(q),
         pc' \in Generating => Tag' = q,
         pc' \notin Generating => q = "none"
  PROVE  CountsInv'
<1>1. \A p \in Purpose : Due(p) \in Nat
  BY DueIsOne
<1>2. \A p \in Purpose : Due(p)' = IF p = q THEN 1 ELSE 0
  <2>1. ASSUME NEW p \in Purpose PROVE Due(p)' = IF p = q THEN 1 ELSE 0
    <3>1. p # "none"
      BY RequestAssumption
    <3>2. Due(p)' = IF pc' \in Generating /\ Tag' = p THEN 1 ELSE 0
      BY DEF Due, Between
    <3> QED
      BY <3>1, <3>2
  <2> QED
    BY <2>1
<1>3. \A p \in Purpose : sent'[p] = sent[p] /\ sent[p] \in Nat
  BY CountTypes DEF Between
<1>4. /\ PrimaryAllowance \in Nat /\ WorkerAllowance \in Nat
      /\ PrimaryAllowance' \in Nat /\ WorkerAllowance' \in Nat
  BY AllowanceTypes, AllowanceTypesNext
<1>5. /\ attempts.upstream \in Nat /\ attempts.private \in Nat /\ regens \in Nat
      /\ attempts'.upstream \in Nat /\ attempts'.private \in Nat /\ regens' \in Nat
  BY RequestAssumption DEF RequestInv, SeamInv, BudgetTypeOK, Counters, ControlTypeOK
<1>6. /\ sent'["private_continuation"] + Due("private_continuation")' <= attempts'.private
      /\ sent'["tool_repair"] + Due("tool_repair")' <= regens'
  BY <1>1, <1>2, <1>3, <1>5, RequestAssumption DEF CountsInv, Room
<1>7. sent'["controller"] + Due("controller")'
        <= PrimaryAllowance' + (IF Rerun' THEN MaxPrimaryTurns ELSE 0)
  BY <1>1, <1>2, <1>3, <1>4, RequestAssumption DEF CountsInv, Room, Between
<1>8. sent'["worker"] + Due("worker")'
        <= attempts'.upstream + WorkerAllowance' + (IF Rerun' THEN 2 * MaxControllerTurns ELSE 0)
  BY <1>1, <1>2, <1>3, <1>4, <1>5, RequestAssumption DEF CountsInv, Room, Between
<1> QED
  BY <1>6, <1>7, <1>8 DEF CountsInv, Room

\* A step that asks for nothing and spends nothing keeps the allowances.
LEMMA RoomForNone ==
  ASSUME RequestInv, RequestInv', CountsInv, UNCHANGED <<attempts, regens>>,
         PrimaryAllowance <= PrimaryAllowance', WorkerAllowance <= WorkerAllowance'
  PROVE  Room("none")
<1>1. attempts.upstream \in Nat /\ attempts.private \in Nat /\ regens \in Nat
  BY CountTypes
<1>2. /\ PrimaryAllowance \in Nat /\ WorkerAllowance \in Nat
      /\ PrimaryAllowance' \in Nat /\ WorkerAllowance' \in Nat
  BY AllowanceTypes, AllowanceTypesNext
<1> QED
  BY <1>1, <1>2 DEF Room, CountsInv

\* A second run of the controlled attempt stays one.
LEMMA RerunStays ==
  ASSUME RequestInv, [Next]_vars PROVE Rerun => Rerun'
<1>1. CASE UNCHANGED <<order, rung, replans, replanned>>
  BY <1>1 DEF Rerun, Pending
<1>2. CASE NextRung
  <2>1. (order' = Tail(order) /\ rung' = Head(order)) \/ UNCHANGED <<order, rung, replanned>>
    BY <1>2 DEF NextRung
  <2>2. UNCHANGED replans /\ order # <<>>
    BY <1>2 DEF NextRung
  <2>3. CASE order' = Tail(order) /\ rung' = Head(order)
    <3>1. (Pending' => Pending) /\ (rung' = "controller" => Pending)
      BY <2>2, <2>3, LadderShrinks DEF RequestInv, ControlTypeOK
    <3> QED
      BY <2>2, <3>1 DEF Rerun
  <2> QED
    BY <1>1, <2>1, <2>2, <2>3
<1>3. CASE Replan
  <2>1. UNCHANGED <<order, rung>> /\ replanned' = TRUE /\ replans' \in {replans, replans + 1}
    BY <1>3 DEF Replan
  <2>2. replans \in Nat
    BY RequestAssumption DEF RequestInv, ControlTypeOK
  <2> QED
    BY <2>1, <2>2 DEF Rerun, Pending
<1> QED
  BY <1>1, <1>2, <1>3, LadderElsewhere

LEMMA BetweenSteps ==
  ASSUME RequestInv, Next, ~Generate, ~Reconcile, ~Deadline, ~Finished, ~Cancel
  PROVE  Between
<1> USE DEF RequestInv
<1> DEFINE quiet == UNCHANGED sent /\ stage' = "idle" /\ outcome' = "none"
<1>1. ASSUME PrepareRequestFails \/ Summarize \/ PrepareRequest \/ Planless \/ LadderEnds \/ Judge PROVE quiet
  BY <1>1, QuietElsewhere DEF PrepareRequestFails, Summarize, PrepareRequest, Planless, LadderEnds, Judge,
                              Silent, seamVars, Quiet, Generating
<1>2. ASSUME NextRung \/ Replan \/ Continue PROVE quiet
  BY <1>2, QuietElsewhere DEF NextRung, Replan, Continue, seamVars, Quiet, Generating
<1>3. ASSUME GenerationFails \/ GenerationRaises \/ TurnIsText \/ InternalCalls \/ WithheldCall \/ ClientTurn
           \/ Regenerated PROVE quiet
  BY <1>3, QuietElsewhere DEF GenerationFails, GenerationRaises, TurnIsText, InternalCalls, WithheldCall,
                              ClientTurn, Regenerated, ToolTurn, Quiet, Consume
<1>4. ASSUME LoopExhausted \/ Candidate("accepted") \/ Candidate("rejected") \/ Regenerate \/ BatchEnds PROVE quiet
  BY <1>4, QuietElsewhere DEF LoopExhausted, Candidate, Regenerate, BatchEnds, Silent, seamVars, Quiet,
                              Generating
<1>5. ASSUME ControllerRefused \/ ControllerSelected \/ AskPrimary \/ PrimaryAdvised \/ ControllerFailed
           \/ ControllerDecides PROVE quiet
  BY <1>5, QuietElsewhere DEF ControllerRefused, ControllerSelected, AskPrimary, PrimaryAdvised,
                              ControllerFailed, ControllerDecides, Silent, seamVars, Quiet, Generating
<1>6. quiet
  BY <1>1, <1>2, <1>3, <1>4, <1>5 DEF Next, Step
<1> QED
  BY <1>6, RerunStays DEF Between

\* A request that is over, or whose controlled attempt is over, has every
\* allowance its past can have used.
LEMMA AllowancesAfter ==
  ASSUME RequestInv, RequestInv', UNCHANGED <<order, rung>>, pc' \in {"done", "judge", "ladder", "refused"}
  PROVE  PrimaryAllowance <= PrimaryAllowance' /\ WorkerAllowance <= WorkerAllowance'
<1>1. Pending' = Pending
  BY DEF Pending
<1>2. CASE Pending
  <2>1. rung # "controller" /\ ~InAttempt /\ ~Asking
    BY <1>2 DEF RequestInv, LadderInv, InAttempt, Asking, PlaceInv, ToolCaller
  <2> QED
    BY <1>1, <1>2, <2>1 DEF PrimaryAllowance, WorkerAllowance
<1>3. CASE ~Pending
  <2>1. PrimaryAllowance' = MaxPrimaryTurns /\ WorkerAllowance' = 1 + 2 * MaxControllerTurns
    BY <1>1, <1>3 DEF PrimaryAllowance, WorkerAllowance, Asking, InAttempt
  <2> QED
    BY <2>1, AllowanceTypes
<1> QED
  BY <1>2, <1>3

\* Inside one call of the send path, and back to who waits for it.
LEMMA AllowancesWithin ==
  ASSUME RequestInv, UNCHANGED <<order, rung, caller, primaryTurns, controllerTurns>>,
         pc \in {"send", "continue", "private", "batch", "repair"},
         pc' \in {"prepared", "advised", "decide", "continue", "private", "batch", "repair"},
         pc' = "prepared" => caller = "summary",
         pc' = "advised" => caller = "primary",
         pc' = "decide" => caller = "controller",
         pc' \in {"continue", "private", "batch", "repair"} => ToolCaller,
         pc' = "repair" => caller = "rung"
  PROVE  PrimaryAllowance' = PrimaryAllowance /\ WorkerAllowance' = WorkerAllowance
<1>1. Pending' = Pending
  BY DEF Pending
<1>2. pc = "repair" => rung = "worker"
  BY DEF RequestInv, PlaceInv, ToolCaller, ChoiceInv, BatchChoice
<1>3. InAttempt' = InAttempt
  BY <1>2 DEF InAttempt, ToolCaller
<1>4. Asking' = Asking
  BY DEF Asking, RequestInv, PlaceInv, ToolCaller
<1>5. PrimaryAllowance' = PrimaryAllowance
  BY <1>1, <1>3, <1>4 DEF PrimaryAllowance
<1>6. WorkerAllowance' = WorkerAllowance
  BY <1>1, <1>3, <1>4 DEF WorkerAllowance
<1> QED
  BY <1>5, <1>6

\* The end of the request, of a rung or of the controlled attempt, and every
\* return inside a call of the send path, ask for nothing.
LEMMA CountsQuietStep ==
  ASSUME RequestInv, RequestInv', CountsInv, Between, UNCHANGED <<order, rung, attempts, regens>>,
         \/ pc' \in {"done", "judge", "ladder", "refused"}
         \/ /\ UNCHANGED <<caller, primaryTurns, controllerTurns>>
            /\ pc \in {"send", "continue", "private", "batch", "repair"}
            /\ pc' \in {"prepared", "advised", "decide", "private", "batch"}
  PROVE  CountsInv'
<1>1. CASE pc' \in {"done", "judge", "ladder", "refused"}
  <2>1. Room("none")
    BY <1>1, AllowancesAfter, RoomForNone, CountTypes
  <2> QED
    BY <1>1, <2>1, CountsBetween DEF Generating
<1>2. CASE /\ UNCHANGED <<caller, primaryTurns, controllerTurns>>
           /\ pc \in {"send", "continue", "private", "batch", "repair"}
           /\ pc' \in {"prepared", "advised", "decide", "private", "batch"}
  <2>1. /\ pc' = "prepared" => caller = "summary"
        /\ pc' = "advised" => caller = "primary"
        /\ pc' = "decide" => caller = "controller"
        /\ pc' \in {"private", "batch"} => ToolCaller
    BY <1>2 DEF RequestInv, PlaceInv, ToolCaller
  <2>2. PrimaryAllowance' = PrimaryAllowance /\ WorkerAllowance' = WorkerAllowance
    BY <1>2, <2>1, AllowancesWithin
  <2>3. Room("none")
    BY <2>2, RoomForNone, AllowanceTypes
  <2> QED
    BY <1>2, <2>3, CountsBetween DEF Generating
<1> QED
  BY <1>1, <1>2

LEMMA CountsPreparation ==
  ASSUME RequestInv, RequestInv', CountsInv, Between, PrepareRequestFails \/ Summarize \/ PrepareRequest
  PROVE  CountsInv'
<1>0. UNCHANGED <<attempts, order, rung, regens>>
  BY DEF PrepareRequestFails, Summarize, PrepareRequest, Silent, budgetVars, End, Call, Goto
<1>1. CASE PrepareRequestFails \/ Goto("ladder")
  BY <1>0, <1>1, CountsQuietStep DEF PrepareRequestFails, End, Goto
<1>2. CASE Call("summary") /\ pc = "prepare"
  <2>1. Pending' = Pending /\ Tag' = "worker" /\ pc' \in Generating
    BY <1>0, <1>2 DEF Pending, Call, Tag, Generating
  <2>2. PrimaryAllowance' = PrimaryAllowance
    BY <1>0, <1>2, <2>1 DEF Call, PrimaryAllowance, Asking, InAttempt
  <2>3. WorkerAllowance + 1 <= WorkerAllowance'
    BY <1>0, <1>2, <2>1, CountTypes DEF Call, WorkerAllowance, Asking, InAttempt, RequestInv, PlaceInv, LadderInv
  <2>4. Room("worker")
    BY <1>0, <2>2, <2>3, CountTypes, AllowanceTypes, AllowanceTypesNext DEF Room, CountsInv
  <2> QED
    BY <2>1, <2>4, CountsBetween, RequestAssumption
<1>3. CASE Call("controller") /\ rung = "controller" /\ pc \in {"prepare", "prepared"}
  <2>1. ~Pending /\ Pending' = Pending /\ Tag' = "worker" /\ pc' \in Generating
    BY <1>0, <1>3 DEF Pending, Call, Tag, Generating, RequestInv, LadderInv
  <2>2. PrimaryAllowance' = PrimaryAllowance
    BY <1>0, <1>3, <2>1 DEF Call, PrimaryAllowance, Asking, InAttempt
  <2>3. WorkerAllowance + 1 <= WorkerAllowance'
    BY <1>0, <1>3, <2>1, CountTypes DEF Call, WorkerAllowance, Asking, InAttempt, RequestInv, PlaceInv
  <2>4. Room("worker")
    BY <1>0, <2>2, <2>3, CountTypes, AllowanceTypes, AllowanceTypesNext DEF Room, CountsInv
  <2> QED
    BY <2>1, <2>4, CountsBetween, RequestAssumption
<1> QED
  BY <1>1, <1>2, <1>3 DEF Summarize, PrepareRequest

LEMMA CountsLadder ==
  ASSUME RequestInv, RequestInv', CountsInv, Between, Pending' => Pending,
         Planless \/ NextRung \/ LadderEnds \/ Replan \/ Judge
  PROVE  CountsInv'
<1>1. CASE Planless \/ LadderEnds \/ Judge
  BY <1>1, CountsQuietStep DEF Planless, LadderEnds, Judge, Silent, budgetVars, End, Goto
<1>2. CASE (NextRung \/ Replan) /\ UNCHANGED <<order, rung, attempts>> /\ pc' \in {"refused", "judge"}
  BY <1>2, CountsQuietStep DEF NextRung, Replan
<1>3. attempts \in Counters /\ UNCHANGED regens
  BY DEF RequestInv, SeamInv, BudgetTypeOK, Planless, NextRung, LadderEnds, Replan, Judge, End, Goto
<1>4. CASE NextRung /\ pc' = "send" /\ rung' = "worker" /\ AllowOf("upstream", MaxUpstream, TRUE)
  <2>1. /\ attempts'.upstream = attempts.upstream + 1 /\ attempts'.upstream <= MaxUpstream
        /\ attempts'.controller = attempts.controller /\ attempts'.private = attempts.private
    BY <1>3, <1>4, CeilingAssumption DEF AllowOf, Counters
  <2>2. Tag' = "worker" /\ pc' \in Generating
    BY <1>4 DEF NextRung, Tag, Generating
  <2>3. pc = "ladder"
    BY <1>4 DEF NextRung
  <2>4. PrimaryAllowance <= PrimaryAllowance' /\ WorkerAllowance <= WorkerAllowance'
    BY <1>4, <2>3, CountTypes, AllowanceTypes
       DEF NextRung, PrimaryAllowance, WorkerAllowance, Asking, InAttempt
  <2>5. Room("worker")
    BY <1>3, <2>1, <2>4, CountTypes, AllowanceTypes, AllowanceTypesNext DEF Room, CountsInv
  <2> QED
    BY <2>2, <2>5, CountsBetween, RequestAssumption
<1>5. CASE NextRung /\ pc' = "controlled" /\ Head(order) = "controller" /\ AllowOf("controller", MaxController, TRUE)
  <2>1. /\ attempts'.controller <= MaxController
        /\ attempts'.upstream = attempts.upstream /\ attempts'.private = attempts.private
    BY <1>3, <1>5, CeilingAssumption DEF AllowOf, Counters
  <2>2. Pending /\ pc = "ladder"
    BY <1>5, LadderShrinks DEF NextRung, RequestInv, ControlTypeOK
  <2>3. /\ PrimaryAllowance = 0 /\ PrimaryAllowance' = 0
        /\ WorkerAllowance = 1 /\ WorkerAllowance' = 1
    BY <1>5, <2>2 DEF PrimaryAllowance, WorkerAllowance
  <2>4. Room("none")
    BY <1>3, <2>1, <2>3, CountTypes DEF Room, CountsInv
  <2> QED
    BY <1>5, <2>4, CountsBetween DEF Generating
<1>6. CASE Replan /\ rung = "worker" /\ pc' = "send" /\ AllowOf("upstream", MaxUpstream, TRUE)
  <2>1. /\ attempts'.upstream = attempts.upstream + 1 /\ attempts'.upstream <= MaxUpstream
        /\ attempts'.controller = attempts.controller /\ attempts'.private = attempts.private
    BY <1>3, <1>6, CeilingAssumption DEF AllowOf, Counters
  <2>2. caller = "rung" /\ pc = "judge" /\ UNCHANGED <<order, rung, caller>>
    BY <1>6 DEF Replan, MayReplan, RequestInv, PlaceInv
  <2>3. Tag' = "worker" /\ pc' \in Generating /\ Pending' = Pending
    BY <1>6, <2>2 DEF Tag, Generating, Pending
  <2>4. PrimaryAllowance = PrimaryAllowance' /\ WorkerAllowance = WorkerAllowance'
    BY <1>6, <2>2, <2>3 DEF PrimaryAllowance, WorkerAllowance, Asking, InAttempt
  <2>5. Room("worker")
    BY <1>3, <2>1, <2>4, CountTypes, AllowanceTypes DEF Room, CountsInv
  <2> QED
    BY <2>3, <2>5, CountsBetween, RequestAssumption
<1>7. CASE Replan /\ rung = "controller" /\ pc' = "controlled" /\ replans' = replans + 1
            /\ AllowOf("upstream", MaxUpstream, TRUE)
  <2>1. /\ attempts'.upstream = attempts.upstream + 1 /\ attempts'.upstream <= MaxUpstream
        /\ attempts'.controller = attempts.controller /\ attempts'.private = attempts.private
    BY <1>3, <1>7, CeilingAssumption DEF AllowOf, Counters
  <2>2. pc = "judge" /\ ~replanned /\ replanned' = TRUE /\ UNCHANGED <<order, rung>>
    BY <1>7 DEF Replan, MayReplan
  <2>3. ~Pending /\ ~Pending' /\ ~Rerun /\ Rerun'
    <3>1. replans \in Nat /\ replans' > 0
      BY <1>7, RequestAssumption DEF RequestInv, ControlTypeOK
    <3>2. ~Pending /\ Pending' = Pending
      BY <1>7, <2>2 DEF RequestInv, LadderInv, Pending
    <3> QED
      BY <1>7, <2>2, <3>1, <3>2 DEF Rerun
  <2>4. /\ PrimaryAllowance = MaxPrimaryTurns /\ PrimaryAllowance' = 0
        /\ WorkerAllowance = 1 + 2 * MaxControllerTurns /\ WorkerAllowance' = 1
    BY <1>7, <2>2, <2>3 DEF PrimaryAllowance, WorkerAllowance, Asking, InAttempt
  <2>5. \A p \in Purpose : sent'[p] = sent[p] /\ Due(p)' = 0 /\ Due(p) \in Nat
    BY <1>7, DueIsOne DEF Between, Due, Generating
  <2> QED
    BY <1>3, <2>1, <2>3, <2>4, <2>5, CountTypes, CeilingAssumption, RequestAssumption DEF CountsInv
<1>8. CASE NextRung
  <2>1. PICK ok \in BOOLEAN :
          /\ Allow(Head(order) = "controller", ok)
          /\ IF ok
               THEN /\ rung' = Head(order) /\ order' = Tail(order)
                    /\ pc' = Place(Head(order))
               ELSE /\ pc' = "refused"
                    /\ UNCHANGED <<rung, order>>
    BY <1>8 DEF NextRung
  <2>2. Head(order) \in {"worker", "controller"}
    BY <1>8 DEF NextRung, RequestInv, ControlTypeOK, Rungs
  <2>3. CASE ok
    BY <1>4, <1>5, <1>8, <2>1, <2>2, <2>3 DEF Allow, Place
  <2>4. CASE ~ok
    BY <1>2, <1>8, <2>1, <2>4 DEF Allow, AllowOf
  <2> QED
    BY <2>3, <2>4
<1>9. CASE Replan
  <2>1. PICK ok \in BOOLEAN : /\ Allow(FALSE, ok)
                              /\ replans' = IF ok THEN replans + 1 ELSE replans
                              /\ pc' = IF ok THEN Place(rung) ELSE "judge"
    BY <1>9 DEF Replan
  <2>2. rung \in {"worker", "controller"} /\ UNCHANGED <<order, rung>>
    BY <1>9 DEF Replan, RequestInv, PlaceInv
  <2>3. CASE ok
    <3>1. AllowOf("upstream", MaxUpstream, TRUE) /\ replans' = replans + 1 /\ pc' = Place(rung)
      BY <2>1, <2>3 DEF Allow
    <3>2. CASE rung = "worker"
      BY <1>6, <1>9, <3>1, <3>2 DEF Place
    <3>3. CASE rung = "controller"
      BY <1>7, <1>9, <3>1, <3>3 DEF Place
    <3> QED
      BY <2>2, <3>2, <3>3
  <2>4. CASE ~ok
    BY <1>2, <1>9, <2>1, <2>2, <2>4 DEF Allow, AllowOf
  <2> QED
    BY <2>3, <2>4
<1> QED
  BY <1>1, <1>8, <1>9

LEMMA CountsAnswers ==
  ASSUME RequestInv, RequestInv', CountsInv, Between,
         GenerationFails \/ GenerationRaises \/ TurnIsText \/ InternalCalls \/ WithheldCall \/ ClientTurn
           \/ LoopExhausted \/ Candidate("accepted") \/ Candidate("rejected") \/ Regenerated \/ BatchEnds
  PROVE  CountsInv'
<1>1. UNCHANGED <<order, rung, attempts, regens>>
  BY DEF GenerationFails, GenerationRaises, TurnIsText, InternalCalls, WithheldCall, ClientTurn, LoopExhausted,
         Candidate, Regenerated, BatchEnds, Silent, budgetVars, End, Return
<1>2. CASE GenerationRaises /\ End("raised")
  BY <1>1, <1>2, CountsQuietStep DEF End
<1>3. CASE \E r \in {"error", "withheld", "text"} \cup Verdicts : Return(r)
  <2>1. /\ pc \in {"send", "continue", "private", "batch"}
        /\ UNCHANGED <<caller, primaryTurns, controllerTurns>>
        /\ pc' \in {"prepared", "advised", "decide", "judge"}
    BY <1>3 DEF Return, GenerationFails, GenerationRaises, TurnIsText, InternalCalls, WithheldCall, ClientTurn,
                ToolTurn, LoopExhausted, Candidate, Regenerated, BatchEnds, End
  <2> QED
    BY <1>1, <2>1, CountsQuietStep
<1>4. CASE InternalCalls \/ ClientTurn \/ Candidate("accepted") \/ Candidate("rejected") \/ Regenerated
  BY <1>1, <1>4, CountsQuietStep DEF InternalCalls, ClientTurn, ToolTurn, Candidate, Regenerated
<1> QED
  BY <1>2, <1>3, <1>4 DEF GenerationFails, GenerationRaises, TurnIsText, WithheldCall, LoopExhausted, BatchEnds

LEMMA CountsPrivate ==
  ASSUME RequestInv, RequestInv', CountsInv, Between, Continue
  PROVE  CountsInv'
<1>0. attempts \in Counters /\ UNCHANGED <<order, rung, regens, caller, primaryTurns, controllerTurns>>
  BY DEF RequestInv, SeamInv, BudgetTypeOK, Continue, Return
<1>1. PICK ok \in BOOLEAN :
        /\ AllowOf("private", MaxPrivate, ok)
        /\ IF ok THEN pc' = "continue" ELSE Return("error")
  BY DEF Continue, AllowPrivateGeneration
<1>2. CASE ok
  <2>1. /\ attempts'.private = attempts.private + 1 /\ attempts'.private <= MaxPrivate
        /\ attempts'.upstream = attempts.upstream /\ attempts'.controller = attempts.controller
    <3>1. AllowOf("private", MaxPrivate, TRUE)
      BY <1>1, <1>2
    <3> QED
      BY <1>0, <3>1, CeilingAssumption DEF AllowOf, Counters
  <2>2. ToolCaller /\ pc = "private" /\ pc' = "continue"
    BY <1>1, <1>2 DEF Continue, RequestInv, PlaceInv
  <2>3. PrimaryAllowance' = PrimaryAllowance /\ WorkerAllowance' = WorkerAllowance
    BY <1>0, <2>2, AllowancesWithin
  <2>4. Room("private_continuation")
    BY <1>0, <2>1, <2>3, CountTypes, AllowanceTypes DEF Room, CountsInv
  <2>5. Tag' = "private_continuation" /\ pc' \in Generating
    BY <2>2 DEF Tag, Generating
  <2> QED
    BY <2>4, <2>5, CountsBetween, RequestAssumption
<1>3. CASE ~ok
  <2>1. UNCHANGED attempts /\ pc = "private" /\ pc' \in {"prepared", "advised", "decide", "judge"}
    BY <1>1, <1>3 DEF AllowOf, Return, Continue
  <2> QED
    BY <1>0, <2>1, CountsQuietStep
<1> QED
  BY <1>2, <1>3

LEMMA CountsRepair ==
  ASSUME RequestInv, RequestInv', CountsInv, Between, Regenerate
  PROVE  CountsInv'
<1>1. /\ UNCHANGED <<order, rung, caller, primaryTurns, controllerTurns, attempts>>
      /\ regens' = regens + 1 /\ pc = "batch" /\ pc' = "repair"
  BY DEF Regenerate, Silent, budgetVars
<1>2. ToolCaller /\ caller = "rung"
  BY DEF Regenerate, RequestInv, PlaceInv, ToolCaller, BatchChoice
<1>3. PrimaryAllowance' = PrimaryAllowance /\ WorkerAllowance' = WorkerAllowance
  BY <1>1, <1>2, AllowancesWithin
<1>4. Room("tool_repair")
  BY <1>1, <1>3, CountTypes, AllowanceTypes DEF Room, CountsInv
<1>5. Tag' = "tool_repair" /\ pc' \in Generating
  BY <1>1 DEF Tag, Generating
<1> QED
  BY <1>4, <1>5, CountsBetween, RequestAssumption

LEMMA CountsController ==
  ASSUME RequestInv, RequestInv', CountsInv, Between,
         ControllerRefused \/ ControllerSelected \/ AskPrimary \/ PrimaryAdvised
           \/ ControllerFailed \/ ControllerDecides
  PROVE  CountsInv'
<1>1. /\ UNCHANGED <<order, rung, regens, attempts>>
      /\ pc \in {"controlled", "turn", "advised", "decide"} /\ rung = "controller"
  BY DEF ControllerRefused, ControllerSelected, AskPrimary, PrimaryAdvised, ControllerFailed, ControllerDecides,
         ControlledFails, Call, Goto, Silent, budgetVars, RequestInv, PlaceInv
<1>2. ~Pending /\ Pending' = Pending
  BY <1>1 DEF Pending, RequestInv, LadderInv
<1>3. CASE pc' = "judge"
  BY <1>1, <1>3, CountsQuietStep
<1>4. CASE ControllerSelected
  <2>1. pc = "controlled" /\ pc' = "turn"
    BY <1>4 DEF ControllerSelected
  <2>2. PrimaryAllowance = 0 /\ WorkerAllowance = 1
    BY <2>1 DEF PrimaryAllowance, WorkerAllowance
  <2>3. primaryTurns' \in Nat /\ controllerTurns' \in Nat
    BY RequestAssumption DEF RequestInv, ControlTypeOK
  <2>4. PrimaryAllowance' = primaryTurns' /\ WorkerAllowance' = 2 * controllerTurns' + 1
    BY <1>1, <1>2, <2>1 DEF PrimaryAllowance, WorkerAllowance, Asking, InAttempt
  <2>5. PrimaryAllowance <= PrimaryAllowance' /\ WorkerAllowance <= WorkerAllowance'
    <3>1. \A n \in Nat : 0 <= n /\ 1 <= 2 * n + 1
      OBVIOUS
    <3> QED
      BY <2>2, <2>3, <2>4, <3>1
  <2>6. Room("none")
    BY <1>1, <2>5, RoomForNone
  <2> QED
    BY <2>1, <2>6, CountsBetween DEF Generating
<1>5. CASE AskPrimary /\ Call("primary")
  <2>1. /\ pc = "turn" /\ pc' = "send" /\ caller' = "primary" /\ UNCHANGED <<primaryTurns, controllerTurns>>
    BY <1>5 DEF AskPrimary, Call
  <2>2. PrimaryAllowance = primaryTurns /\ WorkerAllowance = 2 * controllerTurns + 1
    BY <1>1, <1>2, <2>1 DEF PrimaryAllowance, WorkerAllowance, Asking, InAttempt
  <2>3. PrimaryAllowance' = primaryTurns + 1 /\ WorkerAllowance' = 2 * controllerTurns + 1
    BY <1>1, <1>2, <2>1 DEF PrimaryAllowance, WorkerAllowance, Asking, InAttempt
  <2>4. Room("controller")
    BY <1>1, <2>2, <2>3, CountTypes DEF Room, CountsInv
  <2>5. Tag' = "controller" /\ pc' \in Generating
    BY <2>1 DEF Tag, Generating
  <2> QED
    BY <2>4, <2>5, CountsBetween, RequestAssumption
<1>6. CASE PrimaryAdvised /\ pc' = "prepare"
  <2>1. /\ pc = "advised" /\ caller = "primary"
        /\ primaryTurns' = primaryTurns + 1 /\ UNCHANGED <<caller, controllerTurns>>
    BY <1>6 DEF PrimaryAdvised, Goto, RequestInv, PlaceInv
  <2>2. PrimaryAllowance = primaryTurns + 1 /\ WorkerAllowance = 2 * controllerTurns + 1
    BY <1>1, <1>2, <2>1 DEF PrimaryAllowance, WorkerAllowance, Asking, InAttempt
  <2>3. PrimaryAllowance' = primaryTurns + 1 /\ WorkerAllowance' = 2 * controllerTurns + 1
    BY <1>1, <1>2, <1>6, <2>1 DEF PrimaryAllowance, WorkerAllowance, Asking, InAttempt
  <2>4. Room("none")
    BY <1>1, <2>2, <2>3, RoomForNone, AllowanceTypes
  <2> QED
    BY <1>6, <2>4, CountsBetween DEF Generating
<1>7. CASE ControllerDecides /\ pc' = "turn"
  <2>1. /\ pc = "decide" /\ caller = "controller"
        /\ controllerTurns' = controllerTurns + 1 /\ UNCHANGED <<caller, primaryTurns>>
    BY <1>7 DEF ControllerDecides, RequestInv, PlaceInv
  <2>2. PrimaryAllowance = primaryTurns /\ WorkerAllowance = 2 * controllerTurns + 3
    BY <1>1, <1>2, <2>1 DEF PrimaryAllowance, WorkerAllowance, Asking, InAttempt
  <2>3. PrimaryAllowance' = primaryTurns /\ WorkerAllowance' = 2 * (controllerTurns + 1) + 1
    BY <1>1, <1>2, <1>7, <2>1 DEF PrimaryAllowance, WorkerAllowance, Asking, InAttempt
  <2>4. Room("none")
    BY <1>1, <2>2, <2>3, RoomForNone, CountTypes
  <2> QED
    BY <1>7, <2>4, CountsBetween DEF Generating
<1> QED
  BY <1>3, <1>4, <1>5, <1>6, <1>7
     DEF ControllerRefused, AskPrimary, PrimaryAdvised, ControllerFailed, ControllerDecides, ControlledFails, Goto

LEMMA CountsEnvironment ==
  ASSUME RequestInv, RequestInv', CountsInv, Cancel \/ Deadline \/ Finished \/ UNCHANGED vars
  PROVE  CountsInv'
<1>1. CASE Cancel
  <2>1. Between /\ UNCHANGED <<order, rung, attempts, regens>> /\ pc' = "done"
    BY <1>1, RerunStays DEF Cancel, CancelGeneration, Idle, End, budgetVars, Between, Next
  <2> QED
    BY <2>1, CountsQuietStep
<1>2. CASE Deadline \/ Finished \/ UNCHANGED vars
  <2>1. UNCHANGED requestVars /\ UNCHANGED seamVars /\ UNCHANGED attempts
    BY <1>2 DEF Deadline, DeadlinePasses, Finished, vars, budgetVars
  <2>2. \A p \in Purpose : Due(p)' = Due(p)
    BY <2>1 DEF Due, Tag, requestVars, seamVars
  <2>3. UNCHANGED <<PrimaryAllowance, WorkerAllowance, Rerun, regens, sent>>
    BY <2>1 DEF requestVars, seamVars, PrimaryAllowance, WorkerAllowance, Pending, Asking, InAttempt, Rerun
  <2> QED
    BY <2>1, <2>2, <2>3, RequestAssumption DEF CountsInv
<1> QED
  BY <1>1, <1>2

LEMMA CountsStep ==
  ASSUME RequestInv, CountsInv, [Next]_vars PROVE CountsInv'
<1>1. RequestInv' /\ (Pending' => Pending)
  BY RequestInvStep, LadderStep
<1>2. CASE Cancel \/ Deadline \/ Finished \/ UNCHANGED vars
  BY <1>1, <1>2, CountsEnvironment
<1>3. CASE Generate \/ Reconcile
  BY <1>3, CountsUnderWay
<1>4. CASE Step /\ ~Generate /\ ~Reconcile /\ ~Cancel /\ ~Deadline /\ ~Finished
  <2>1. Between
    BY <1>4, BetweenSteps DEF Next
  <2> QED
    BY <1>1, <1>4, <2>1, CountsPreparation, CountsLadder, CountsAnswers, CountsPrivate, CountsRepair,
       CountsController DEF Step
<1> QED
  BY <1>2, <1>3, <1>4 DEF Next

LEMMA CountsInit ==
  ASSUME Init PROVE CountsInv
<1>1. RequestInv
  BY RequestInvInit
<1>2. \A p \in Purpose : sent[p] = 0 /\ Due(p) = 0
  BY DEF Init, SeamInit, Due, Generating
<1>3. /\ attempts.upstream = 0 /\ attempts.controller = 0 /\ attempts.private = 0 /\ regens = 0
      /\ ~Rerun
  BY DEF Init, BudgetInit, Rerun
<1> QED
  BY <1>1, <1>2, <1>3, AllowanceTypes, CeilingAssumption, RequestAssumption DEF CountsInv

\* What one request can cost in generations, whatever the models answer: the
\* ladder's and the private loop's allowances, one repair budget, one summary
\* per preparation and the turns of a controlled attempt, twice if a withheld
\* tool had it run again (AttemptBudget, CompatibilityAttemptExecutor,
\* PrivateContinuationLoop.run, RepairBudget, ControllerAttemptExecutor).
THEOREM RequestCostIsBounded == Spec => []GenerationsBounded
<1>1. RequestInv /\ CountsInv => GenerationsBounded
  <2>1. SUFFICES ASSUME RequestInv, CountsInv PROVE GenerationsBounded
    OBVIOUS
  <2>2. \A p \in Purpose : Due(p) \in Nat
    BY DEF Due
  <2>3. \A p \in Purpose : sent[p] \in Nat
    BY <2>1, CountTypes
  <2>4. /\ ControlledRuns * MaxPrimaryTurns = MaxPrimaryTurns + (IF replans = 0 THEN 0 ELSE MaxPrimaryTurns)
        /\ ControlledRuns * 2 * MaxControllerTurns
             = 2 * MaxControllerTurns + (IF replans = 0 THEN 0 ELSE 2 * MaxControllerTurns)
    BY RequestAssumption DEF ControlledRuns
  <2>5. Rerun => replans # 0
    BY DEF Rerun
  <2> QED
    BY <2>1, <2>2, <2>3, <2>4, <2>5, CountTypes, AllowanceTypes, RequestAssumption
       DEF CountsInv, GenerationsBounded
<1>2. Init => RequestInv /\ CountsInv
  BY RequestInvInit, CountsInit
<1>3. RequestInv /\ CountsInv /\ [Next]_vars => RequestInv' /\ CountsInv'
  BY RequestInvStep, CountsStep
<1> QED
  BY <1>1, <1>2, <1>3, PTL DEF Spec
=============================================================================
