--------------------------- MODULE GenerationSeam ---------------------------
(***************************************************************************)
(* GenerationSeam (generation_seam.py) and the send path of the gateway    *)
(* that decodes for itself: one model generation of a request, from the    *)
(* budget reservation through admission and transport to reconciliation.   *)
(* One request is one task, so at most one generation is under way.  What  *)
(* the backend answers, whether admission lets the request through and     *)
(* what the transport raises are the environment's choice.  The caller     *)
(* starts a generation when stage and outcome say there is none, and       *)
(* consumes the outcome.                                                   *)
(***************************************************************************)
EXTENDS AttemptBudget

CONSTANTS
  Estimates,   \* [inp, out] estimates: measured input and output reserve
  Usages       \* [inp, out] usages a backend reports

ASSUME EstimateAssumption ==
  /\ Estimates \subseteq Tokens /\ Nothing \notin Estimates
  /\ Usages \subseteq Tokens

VARIABLES
  stage,      \* idle; open: reserved, awaiting a slot; sent: awaiting the answer
  estimate,   \* of the open reservation
  purpose,    \* of the generation under way
  outcome,    \* what dispatch and decode gave the caller
  sent,       \* ghost: generations handed to the transport, by purpose
  lost,       \* ghost: those whose reservation nobody reconciled
  stranded    \* ghost: the estimates abandoned with them

seamVars == <<stage, estimate, purpose, outcome, sent, lost, stranded>>

SeamTypeOK ==
  /\ stage \in {"idle", "open", "sent"}
  /\ estimate \in Estimates \cup {Nothing}
  /\ purpose \in Purpose \cup {"none"}
  /\ outcome \in {"none", "answer", "error", "raise"}
  /\ sent \in [Purpose -> Nat] /\ lost \in [Purpose -> Nat]
  /\ stranded \in Tokens

SeamInit ==
  /\ stage = "idle" /\ estimate = Nothing /\ purpose = "none" /\ outcome = "none"
  /\ sent = [p \in Purpose |-> 0] /\ lost = [p \in Purpose |-> 0]
  /\ stranded = Nothing

Quiet == stage = "idle" /\ outcome = "none"

\* The caller has looked at the outcome.
Consume ==
  /\ outcome' = "none"
  /\ UNCHANGED <<stage, estimate, purpose, sent, lost, stranded>>

Idle(o) ==   \* the generation is over and the caller gets o
  /\ stage' = "idle" /\ estimate' = Nothing /\ purpose' = "none" /\ outcome' = o

-----------------------------------------------------------------------------
\* prepare: rendering raises, or the exact-context gate answers with an error.
PrepareFails ==
  /\ Quiet
  /\ outcome' \in {"error", "raise"}
  /\ UNCHANGED <<stage, estimate, purpose, sent, lost, stranded>>
  /\ UNCHANGED budgetVars

\* dispatch up to the reservation.  The two input checks come first and do
\* not start the clock.
Dispatch(e, p) ==
  /\ Quiet
  /\ UNCHANGED <<sent, lost, stranded>>
  /\ IF BodyFits /\ InputFits(e)
       THEN /\ \E ok \in BOOLEAN :
                 /\ ReserveGeneration(e, ok)
                 /\ stage' = IF ok THEN "open" ELSE "idle"
                 /\ estimate' = IF ok THEN e ELSE Nothing
                 /\ purpose' = IF ok THEN p ELSE "none"
                 /\ outcome' = IF ok THEN "none" ELSE "error"
       ELSE /\ Idle("error")
            /\ exhausted' = TRUE
            /\ UNCHANGED <<total, bodies, attempts, counted, clock>>

\* The queue is full or the wait for a slot timed out.
NotAdmitted ==
  /\ stage = "open"
  /\ Idle("error")
  /\ Release(estimate)
  /\ UNCHANGED <<bodies, attempts, clock, sent, lost, stranded>>

Send ==
  /\ stage = "open"
  /\ stage' = "sent"
  /\ sent' = [sent EXCEPT ![purpose] = @ + 1]
  /\ UNCHANGED <<estimate, purpose, outcome, lost, stranded>>
  /\ UNCHANGED budgetVars

-----------------------------------------------------------------------------
\* finalize_reservation with the decoded usage.
Answered(u) ==
  /\ stage = "sent"
  /\ Idle("answer")
  /\ Commit(estimate, u, purpose)
  /\ RecordRenderedBytes
  /\ UNCHANGED <<attempts, clock, sent, lost, stranded>>

\* The answer carries no usage (outcome answer), or it is an HTTP error, too
\* large or not JSON (outcome error): the estimate is kept.
AnsweredUnmetered ==
  /\ stage = "sent"
  /\ \E o \in {"answer", "error"} : Idle(o)
  /\ CommitEstimated(purpose)
  /\ RecordRenderedBytes
  /\ UNCHANGED <<attempts, clock, sent, lost, stranded>>

\* Nobody will reconcile the reservation any more.
Strand ==
  /\ stranded' = Plus(stranded, estimate)
  /\ lost' = IF stage = "sent" THEN [lost EXCEPT ![purpose] = @ + 1] ELSE lost

\* _transport_error re-raises what is not an oversized answer, and
\* decode_response may raise what nobody here catches.
TransportRaises ==
  /\ stage = "sent"
  /\ Strand
  /\ Idle("raise")
  /\ UNCHANGED sent
  /\ UNCHANGED budgetVars

\* CancelledError while the task waits for a slot or for the answer.
CancelGeneration ==
  /\ Strand
  /\ Idle("none")
  /\ UNCHANGED sent

SeamStep ==
  \/ NotAdmitted
  \/ Send
  \/ \E u \in Usages : Answered(u)
  \/ AnsweredUnmetered
  \/ TransportRaises
=============================================================================
