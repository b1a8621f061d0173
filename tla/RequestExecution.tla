-------------------------- MODULE RequestExecution --------------------------
(***************************************************************************)
(* One non-streaming request (Gateway.handle_request): preparation with    *)
(* its optional history summary, the compatibility ladder, the send path,  *)
(* the private continuation loop, the tool batch with hidden repairs and   *)
(* the primary/controller loop, all spending against one AttemptBudget.    *)
(*                                                                         *)
(* A request is one asyncio task: pc is where it stands, caller is who     *)
(* called _handle_request_send.  What the model writes is reduced to what  *)
(* the gateway makes of it: internal calls, a withheld tool, candidates    *)
(* that are accepted or not, plain text.  Named tool choice is folded into *)
(* required.                                                               *)
(***************************************************************************)
EXTENDS GenerationSeam, Sequences

CONSTANTS
  MaxRungs,            \* worker rungs of the longest compatibility plan
  MaxLoop,             \* MAX_INTERNAL_TOOL_LOOP_DEPTH
  MaxRegenerations,    \* repair policy max_regenerations
  MaxReplans,          \* tool_surface.max_selection_rounds
  MaxPrimaryTurns,     \* controller.max_primary_turns
  MaxControllerTurns   \* controller.max_controller_turns

ASSUME RequestAssumption ==
  /\ Purpose = {"worker", "controller", "private_continuation", "tool_repair"}
  /\ MaxRungs \in Nat /\ MaxLoop \in Nat
  /\ MaxRegenerations \in Nat /\ MaxReplans \in Nat
  /\ MaxPrimaryTurns \in Nat \ {0} /\ MaxControllerTurns \in Nat \ {0}

VARIABLES
  pc,               \* where the task stands
  caller,           \* who waits for _handle_request_send
  choice,           \* the client's tool choice
  order,            \* rungs of the ladder still to try
  rung,             \* the rung under way, "none" before the first
  replans,          \* _selection_replans
  replanned,        \* this rung has had its replan check
  loop,             \* loop_generations of the private loop
  regens,           \* regeneration_attempts of the request's RepairBudget
  fates,            \* what became of the batch's candidates so far
  primaryTurns,     \* primary_turns of the controlled attempt
  controllerTurns,  \* controller_turns
  resp,             \* the last response: error, withheld, text or calls
  result            \* how the request ended

requestVars == <<pc, caller, choice, order, rung, replans, replanned, loop, regens,
                 fates, primaryTurns, controllerTurns, resp, result>>
vars == <<requestVars, seamVars, budgetVars>>

Rungs == {"worker", "controller"}
Callers == {"none", "summary", "rung", "primary", "controller"}
Generating == {"send", "continue", "repair"}
Places == Generating \cup {"prepare", "prepared", "ladder", "refused", "judge", "private",
                           "batch", "controlled", "turn", "advised", "decide", "done"}

TypeOK ==
  /\ BudgetTypeOK /\ SeamTypeOK
  /\ pc \in Places /\ caller \in Callers
  /\ choice \in {"auto", "none", "required"}
  /\ order \in Seq(Rungs) /\ rung \in Rungs \cup {"none"}
  /\ replans \in 0..MaxReplans /\ replanned \in BOOLEAN
  /\ loop \in 0..MaxLoop
  /\ regens \in 0..MaxRegenerations
  /\ fates \subseteq {"accepted", "rejected"}
  /\ primaryTurns \in 0..MaxPrimaryTurns
  /\ controllerTurns \in 0..MaxControllerTurns
  /\ resp \in {"none", "error", "withheld", "text", "calls"}
  /\ result \in {"none", "ok", "error", "exhausted", "raised", "cancelled"}

\* The planner puts the controller last and leaves it out when the client
\* insists on a tool; a recorded hint may move it to the front.  The empty
\* ladder is the planless invocation of unsafe history.
Ladders(c) ==
  LET workers == {[i \in 1..n |-> "worker"] : n \in 0..MaxRungs}
  IN  IF c = "required" THEN workers
      ELSE workers \cup {w \o <<"controller">> : w \in workers}
                   \cup {<<"controller">> \o w : w \in workers}

Init ==
  /\ BudgetInit /\ SeamInit
  /\ choice \in {"auto", "none", "required"}
  /\ order \in Ladders(choice)
  /\ pc = "prepare" /\ caller = "none" /\ rung = "none"
  /\ replans = 0 /\ replanned = FALSE /\ loop = 0 /\ regens = 0 /\ fates = {}
  /\ primaryTurns = 0 /\ controllerTurns = 0
  /\ resp = "none" /\ result = "none"

-----------------------------------------------------------------------------
End(r) ==
  /\ pc' = "done" /\ result' = r
  /\ UNCHANGED <<caller, choice, order, rung, replans, replanned, loop, regens, fates,
                 primaryTurns, controllerTurns, resp>>

Goto(place) ==
  /\ pc' = place
  /\ UNCHANGED <<caller, choice, order, rung, replans, replanned, loop, regens, fates,
                 primaryTurns, controllerTurns, resp, result>>

\* _handle_request_send gives r back to whoever called it.
Return(r) ==
  /\ pc' = CASE caller = "summary" -> "prepared"
             [] caller = "primary" -> "advised"
             [] caller = "controller" -> "decide"
             [] OTHER -> "judge"
  /\ resp' = r
  /\ UNCHANGED <<caller, choice, order, rung, replans, replanned, loop, regens, fates,
                 primaryTurns, controllerTurns, result>>

Call(by) ==   \* _handle_request_send
  /\ pc' = "send" /\ caller' = by
  /\ UNCHANGED <<choice, order, rung, replans, replanned, loop, regens, fates,
                 primaryTurns, controllerTurns, resp, result>>

Silent == UNCHANGED <<seamVars, budgetVars>>   \* no generation is involved

-----------------------------------------------------------------------------
\* _prepare_invocation_async, for the request or for a controller turn.
PrepareRequestFails ==
  /\ pc \in {"prepare", "prepared"}
  /\ \E r \in {"error", "raised"} : End(r)   \* _preflight_error knows it, or not
  /\ Silent

\* The request is still too large: ask the controller for a summary, once.
Summarize ==
  /\ pc = "prepare"
  /\ Call("summary")
  /\ Silent

PrepareRequest ==
  /\ pc \in {"prepare", "prepared"}
  /\ IF rung = "controller" THEN Call("controller") ELSE Goto("ladder")
  /\ Silent

-----------------------------------------------------------------------------
\* CompatibilityAttemptExecutor.execute.
Planless ==   \* HISTORY_UNSAFE
  /\ pc = "ladder" /\ rung = "none" /\ order = <<>>
  /\ End("error")
  /\ Silent

Place(r) == IF r = "controller" THEN "controlled" ELSE "send"

NextRung ==
  /\ pc = "ladder" /\ order # <<>>
  /\ \E ok \in BOOLEAN :
       /\ Allow(Head(order) = "controller", ok)
       /\ IF ok
            THEN /\ rung' = Head(order) /\ order' = Tail(order)
                 /\ replanned' = FALSE
                 /\ pc' = Place(Head(order)) /\ caller' = "rung"
            ELSE /\ pc' = "refused"
                 /\ UNCHANGED <<rung, order, replanned, caller>>
  /\ UNCHANGED <<choice, replans, loop, regens, fates, primaryTurns, controllerTurns,
                 resp, result>>
  /\ UNCHANGED <<bodies, seamVars>>

LadderEnds ==
  /\ \/ pc = "refused"
     \/ pc = "ladder" /\ order = <<>> /\ rung # "none"
  /\ End(IF exhausted THEN "exhausted" ELSE "error")
  /\ Silent

\* Mutant: nothing counts the replans but the ladder's allowance.
ReplanUncounted == resp = "withheld"

MayReplan == resp = "withheld" /\ ~replanned /\ replans < MaxReplans

\* The tool the model asked for is exposed and the rung is run once more: a
\* controlled rung whose controller was the one to ask, from its first turn.
Replan ==
  /\ pc = "judge" /\ MayReplan
  /\ replanned' = TRUE
  /\ \E ok \in BOOLEAN :
       /\ Allow(FALSE, ok)
       /\ replans' = IF ok THEN replans + 1 ELSE replans
       /\ pc' = IF ok THEN Place(rung) ELSE "judge"
  /\ UNCHANGED <<caller, choice, order, rung, loop, regens, fates, primaryTurns,
                 controllerTurns, resp, result>>
  /\ UNCHANGED <<bodies, seamVars>>

\* _satisfies_tool_requirement, of a response without an error.
Accepted ==
  \/ resp = "calls"
  \/ resp = "text" /\ choice # "required"

Judge ==
  /\ pc = "judge" /\ ~MayReplan
  /\ IF Accepted THEN End("ok")
     ELSE IF choice = "auto" THEN End("error")
     ELSE Goto("ladder")
  /\ Silent

-----------------------------------------------------------------------------
\* A generation of the send path, of the private loop or of a repair.  The
\* public path tags every generation outside a controlled attempt, summaries
\* and controller turns included, as worker.
Tag ==
  CASE pc = "continue" -> "private_continuation"
    [] pc = "repair" -> "tool_repair"
    [] OTHER -> IF caller = "primary" THEN "controller" ELSE "worker"

Generate ==
  /\ pc \in Generating
  /\ PrepareFails \/ \E e \in Estimates : Dispatch(e, Tag)
  /\ UNCHANGED requestVars

Reconcile == SeamStep /\ UNCHANGED requestVars

\* A terminal response of the seam.
GenerationFails ==
  /\ pc \in {"send", "continue"} /\ outcome = "error"
  /\ Return("error")
  /\ Consume /\ UNCHANGED budgetVars

\* Mutant: the summary is asked for again until it succeeds.
GenerationRaisesRetried ==
  /\ pc \in {"send", "continue"} /\ outcome = "raise"
  /\ \/ End("raised")
     \/ caller = "summary" /\ Goto("prepare")
  /\ Consume /\ UNCHANGED budgetVars

\* An exception ends the request, unless summarize() swallows it.
GenerationRaises ==
  /\ pc \in {"send", "continue"} /\ outcome = "raise"
  /\ \/ End("raised")
     \/ caller = "summary" /\ Return("error")
  /\ Consume /\ UNCHANGED budgetVars

\* Summaries and primary turns carry no tools: nothing is extracted.
TurnIsText ==
  /\ pc = "send" /\ outcome = "answer"
  /\ caller \in {"summary", "primary"}
  /\ Return("text")
  /\ Consume /\ UNCHANGED budgetVars

ToolTurn == pc \in {"send", "continue"} /\ outcome = "answer" /\ caller \in {"rung", "controller"}

\* The model asks for a tool that is private to the gateway.
InternalCalls ==
  /\ ToolTurn
  /\ pc' = "private"
  /\ loop' = IF pc = "send" THEN 0 ELSE loop
  /\ UNCHANGED <<caller, choice, order, rung, replans, replanned, regens, fates,
                 primaryTurns, controllerTurns, resp, result>>
  /\ Consume /\ UNCHANGED budgetVars

\* The model asks for a declared tool the surface withholds from it.  The
\* controller's surface selects nothing, but its schema budget still does.
WithheldCall ==
  /\ ToolTurn
  /\ Return("withheld")
  /\ Consume /\ UNCHANGED budgetVars

ClientTurn ==
  /\ ToolTurn
  /\ pc' = "batch" /\ fates' = {}
  /\ UNCHANGED <<caller, choice, order, rung, replans, replanned, loop, regens,
                 primaryTurns, controllerTurns, resp, result>>
  /\ Consume /\ UNCHANGED budgetVars

-----------------------------------------------------------------------------
\* One round of PrivateContinuationLoop.run.
LoopExhausted ==
  /\ pc = "private" /\ loop >= MaxLoop
  /\ Return("error")
  /\ Silent

\* Mutant: the depth is not looked at.
ContinueUnbounded ==
  /\ pc = "private"
  /\ \E ok \in BOOLEAN :
       /\ AllowPrivateGeneration(ok)
       /\ pc' = IF ok THEN "continue" ELSE "judge"
       /\ resp' = IF ok THEN resp ELSE "error"
  /\ loop' = loop + 1
  /\ UNCHANGED <<caller, choice, order, rung, replans, replanned, regens, fates,
                 primaryTurns, controllerTurns, result, seamVars>>

Continue ==
  /\ pc = "private" /\ loop < MaxLoop
  /\ \E ok \in BOOLEAN :
       /\ AllowPrivateGeneration(ok)
       /\ IF ok
            THEN /\ pc' = "continue" /\ loop' = loop + 1
                 /\ UNCHANGED <<caller, choice, order, rung, replans, replanned, regens,
                                fates, primaryTurns, controllerTurns, resp, result>>
            ELSE Return("error")
  /\ UNCHANGED seamVars

-----------------------------------------------------------------------------
\* process_tool_batch.  A controller turn is validated under auto, the
\* client's own choice is enforced after it.
BatchChoice == IF caller = "controller" THEN "auto" ELSE choice

Candidate(fate) ==
  /\ pc = "batch" /\ BatchChoice # "none" /\ fate \notin fates
  /\ fates' = fates \cup {fate}
  /\ UNCHANGED <<pc, caller, choice, order, rung, replans, replanned, loop, regens,
                 primaryTurns, controllerTurns, resp, result>>
  /\ Silent

Regenerate ==
  /\ pc = "batch" /\ BatchChoice = "required" /\ regens < MaxRegenerations
  /\ pc' = "repair" /\ regens' = regens + 1
  /\ UNCHANGED <<caller, choice, order, rung, replans, replanned, loop, fates,
                 primaryTurns, controllerTurns, resp, result>>
  /\ Silent

\* The correction's outcome decides the candidate; every exception of the
\* generation is swallowed, and an oversized correction is never sent.
Regenerated ==
  /\ pc = "repair"
  /\ \/ outcome # "none" \/ Quiet
  /\ \E fate \in IF outcome = "answer" THEN {"accepted", "rejected"} ELSE {"rejected"} :
       fates' = fates \cup {fate}
  /\ pc' = "batch"
  /\ UNCHANGED <<caller, choice, order, rung, replans, replanned, loop, regens,
                 primaryTurns, controllerTurns, resp, result>>
  /\ Consume /\ UNCHANGED budgetVars

\* An empty batch violates required, a non-empty one none; with both fates
\* the batch policy decides (best_effort, atomic).
Verdicts ==
  CASE fates = {} -> IF BatchChoice = "required" THEN {"error"}
                     ELSE IF BatchChoice = "none" THEN {"text", "error"} ELSE {"text"}
    [] fates = {"accepted"} -> {"calls"}
    [] fates = {"rejected"} -> {"error"}
    [] OTHER -> {"calls", "error"}

BatchEnds ==
  /\ pc = "batch"
  /\ \E r \in Verdicts : Return(r)
  /\ Silent

-----------------------------------------------------------------------------
\* ControllerAttemptExecutor.execute.
ControlledFails ==
  /\ pc' = "judge" /\ resp' = "error"
  /\ UNCHANGED <<caller, choice, order, rung, replans, replanned, loop, regens, fates,
                 primaryTurns, controllerTurns, result>>

\* No qualified controller, a session that spent its turns, or a missing
\* tool result.
ControllerRefused ==
  /\ pc = "controlled"
  /\ ControlledFails
  /\ Silent

\* Turns the session has taken before count.
ControllerSelected ==
  /\ pc = "controlled"
  /\ primaryTurns' \in 0..MaxPrimaryTurns - 1
  /\ controllerTurns' \in 0..MaxControllerTurns - 1
  /\ pc' = "turn"
  /\ UNCHANGED <<caller, choice, order, rung, replans, replanned, loop, regens, fates,
                 resp, result>>
  /\ Silent

AskPrimary ==
  /\ pc = "turn"
  /\ IF controllerTurns >= MaxControllerTurns \/ primaryTurns >= MaxPrimaryTurns
       THEN ControlledFails
       ELSE Call("primary")
  /\ Silent

\* The work product is in: a controller request is prepared around it.
PrimaryAdvised ==
  /\ pc = "advised"
  /\ IF resp = "error"
       THEN Goto("judge")
       ELSE /\ primaryTurns' = primaryTurns + 1
            /\ pc' = "prepare"
            /\ UNCHANGED <<caller, choice, order, rung, replans, replanned, loop, regens,
                           fates, controllerTurns, resp, result>>
  /\ Silent

\* A withheld tool is an error to the attempt too: the ladder reads why.
ControllerFailed ==
  /\ pc = "decide" /\ resp \in {"error", "withheld"}
  /\ Goto("judge")
  /\ Silent

\* Mutant: the client's tool_choice is not restored after the auto turn.
OuterChoiceForgotten(r) == TRUE

\* The client's choice, restored for the controller's answer.
OuterChoice(r) ==
  /\ choice = "none" => r = "text"
  /\ choice = "required" => r = "calls"

\* CompatibilityController.decide: call the client's tools, answer in text,
\* delegate to the primary once more, or mix the two (FAIL).
ControllerDecides ==
  /\ pc = "decide" /\ resp \in {"text", "calls"}
  /\ controllerTurns' = controllerTurns + 1
  /\ \/ /\ OuterChoice(resp)
        /\ pc' = "judge" /\ UNCHANGED resp
     \/ /\ ~OuterChoice(resp) \/ resp = "calls"
        /\ pc' = "judge" /\ resp' = "error"
     \/ /\ resp = "calls"
        /\ pc' = "turn" /\ UNCHANGED resp
  /\ UNCHANGED <<caller, choice, order, rung, replans, replanned, loop, regens, fates,
                 primaryTurns, result>>
  /\ Silent

-----------------------------------------------------------------------------
\* The client goes away while the task awaits something.
Cancel ==
  /\ pc = "prepare" \/ stage # "idle"
  /\ End("cancelled")
  /\ CancelGeneration /\ UNCHANGED budgetVars

Deadline == pc # "done" /\ DeadlinePasses /\ UNCHANGED <<requestVars, seamVars>>

Step ==
  \/ PrepareRequestFails \/ Summarize \/ PrepareRequest
  \/ Planless \/ NextRung \/ LadderEnds \/ Replan \/ Judge
  \/ Generate \/ Reconcile \/ GenerationFails \/ GenerationRaises
  \/ TurnIsText \/ InternalCalls \/ WithheldCall \/ ClientTurn
  \/ LoopExhausted \/ Continue
  \/ Candidate("accepted") \/ Candidate("rejected")
  \/ Regenerate \/ Regenerated \/ BatchEnds
  \/ ControllerRefused \/ ControllerSelected \/ AskPrimary \/ PrimaryAdvised
  \/ ControllerFailed \/ ControllerDecides

Finished == pc = "done" /\ UNCHANGED vars

Next == Step \/ Cancel \/ Deadline \/ Finished

Spec == Init /\ [][Next]_vars

\* Every await of the task ends: admission and the transport time out.
\* Neither the client's departure nor the deadline is promised.
FairSpec == Spec /\ WF_vars(Step)

-----------------------------------------------------------------------------
\* Every generation that reached the transport is counted under its purpose
\* exactly once, unless its reservation was abandoned (budget.py,
\* record_generation; "first one wins" in GenerationReservation).
CountedExactly ==
  \A p \in Purpose :
    counted[p] + lost[p] + (IF stage = "sent" /\ purpose = p THEN 1 ELSE 0) = sent[p]

\* The ceilings are overrun by no more than one generation's error of
\* estimate: record_input_tokens "sets exhausted_by to stop compounding".
Excess == {Plus(Minus(u, e), Nothing) : u \in Usages, e \in Estimates} \cup {Nothing}

OverrunBounded ==
  /\ \E x \in Excess : total.inp <= MaxInput + x.inp
  /\ \E x \in Excess : total.out <= MaxGenerated + x.out
  /\ \E x \in Excess : total.inp + total.out <= MaxModel + x.inp + x.out

\* The controller is on the ladder once, and a rung is replanned once.
ControlledRuns == IF replans = 0 THEN 1 ELSE 2

\* What one request can cost in generations, whatever the models answer: the
\* ladder's and the private loop's allowances, one repair budget, one
\* summary per preparation and the bounded turns of a controlled attempt,
\* twice when a withheld tool had it run again.
GenerationsBounded ==
  /\ attempts.upstream <= MaxUpstream /\ attempts.controller <= MaxController
  /\ sent["private_continuation"] <= attempts.private /\ attempts.private <= MaxPrivate
  /\ sent["tool_repair"] <= regens
  /\ sent["controller"] <= ControlledRuns * MaxPrimaryTurns
  /\ sent["worker"] <= attempts.upstream + 1 + ControlledRuns * 2 * MaxControllerTurns

\* A successful answer keeps the client's tool choice, by whichever path it
\* came: a rung, a repair, or a controller that worked under auto.
ToolChoiceHonoured ==
  result = "ok" => /\ choice = "none" => resp = "text"
                   /\ choice = "required" => resp = "calls"

\* Whatever the models answer and even if the deadline never comes, the
\* request ends: every loop is bounded.
RequestEnds == <>(pc = "done")

Settled ==
  counted["worker"] + counted["controller"] + counted["private_continuation"]
    + counted["tool_repair"]

Ledger == INSTANCE TokenLedger WITH
  Estimate <- Estimates, Usage <- Usages,
  spent <- Minus(Minus(total, estimate), stranded),
  held <- estimate, sent <- (stage = "sent"), settled <- Settled

\* The request's accounting implements the ledger: estimates are opened
\* inside the ceilings, charged once at actual usage or at the estimate.
ImplementsLedger == Ledger!Spec

\* generation_seam.py: "A success reservation is therefore never left
\* dangling": unless the request dies of the exception, or was cancelled, no
\* estimate is abandoned.
NoPhantomEstimate ==
  stranded = Nothing \/ outcome = "raise" \/ result \in {"raised", "cancelled"}

\* budget.py: worker is "the single public generation" of a rung, the other
\* purposes are for the other paths: no more of them than the ladder allowed.
WorkerIsPublic == counted["worker"] <= attempts.upstream
=============================================================================
