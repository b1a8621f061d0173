--------------------------- MODULE AttemptBudget ---------------------------
(***************************************************************************)
(* AttemptBudget and GenerationReservation (execution_attempts/budget.py): *)
(* the ledger every model generation of one request spends against.  Token *)
(* counts are pairs [inp, out]; bodies are counted in whole rendered       *)
(* requests.  exhausted_by is kept as a flag, which limit it names is only *)
(* wording.  Each operator is one method: ok is what it returns.           *)
(***************************************************************************)
EXTENDS Integers

CONSTANTS
  Purpose,        \* the purpose tags of generations
  MaxUpstream,    \* max_upstream_attempts
  MaxController,  \* max_controller_attempts
  MaxPrivate,     \* max_private_generations
  MaxInput,       \* max_total_input_tokens
  MaxGenerated,   \* max_total_generated_tokens
  MaxModel,       \* max_total_model_tokens
  MaxBodies       \* max_total_rendered_bytes, in request bodies

ASSUME CeilingAssumption ==
  /\ MaxUpstream \in Nat /\ MaxController \in Nat /\ MaxPrivate \in Nat
  /\ MaxInput \in Nat /\ MaxGenerated \in Nat /\ MaxModel \in Nat /\ MaxBodies \in Nat

VARIABLES
  total,       \* [inp, out]: total_input_tokens, generated_tokens
  bodies,      \* total_rendered_bytes
  attempts,    \* [upstream, controller, private]: the three counters
  counted,     \* generations_by_purpose
  clock,       \* started_at: unset, running, or max_added_latency_ms ago
  exhausted    \* exhausted_by is not empty; nothing ever clears it

budgetVars == <<total, bodies, attempts, counted, clock, exhausted>>

Nothing == [inp |-> 0, out |-> 0]
Plus(a, b) == [inp |-> a.inp + b.inp, out |-> a.out + b.out]
Minus(a, b) ==   \* each side stops at zero, as max(0, ...) does
  [inp |-> IF a.inp > b.inp THEN a.inp - b.inp ELSE 0,
   out |-> IF a.out > b.out THEN a.out - b.out ELSE 0]

Tokens == [inp : Nat, out : Nat]
Counters == [upstream : Nat, controller : Nat, private : Nat]

BudgetTypeOK ==
  /\ total \in Tokens
  /\ bodies \in Nat
  /\ attempts \in Counters
  /\ counted \in [Purpose -> Nat]
  /\ clock \in {"unset", "running", "expired"}
  /\ exhausted \in BOOLEAN

BudgetInit ==
  /\ total = Nothing
  /\ bodies = 0
  /\ attempts = [upstream |-> 0, controller |-> 0, private |-> 0]
  /\ counted = [p \in Purpose |-> 0]
  /\ clock = "unset"
  /\ exhausted = FALSE

-----------------------------------------------------------------------------
\* Every check of the deadline first starts the clock.
StartClock == clock' = IF clock = "unset" THEN "running" ELSE clock

\* max_added_latency_ms go by.
DeadlinePasses ==
  /\ clock = "running"
  /\ clock' = "expired"
  /\ UNCHANGED <<total, bodies, attempts, counted, exhausted>>

\* What allow and allow_private_generation refuse before they look at their
\* own counter.
Stopped ==
  \/ clock = "expired"
  \/ total.out >= MaxGenerated
  \/ total.inp >= MaxInput
  \/ total.inp + total.out >= MaxModel

\* Mutant: the counter is compared and never advanced.
AllowUncounted(counter, max, ok) ==
  /\ StartClock
  /\ ok = (~Stopped /\ attempts[counter] < max)
  /\ exhausted' = (exhausted \/ ~ok)
  /\ UNCHANGED <<total, bodies, attempts, counted>>

AllowOf(counter, max, ok) ==
  /\ StartClock
  /\ ok = (~Stopped /\ attempts[counter] < max)
  /\ attempts' = IF ok THEN [attempts EXCEPT ![counter] = @ + 1] ELSE attempts
  /\ exhausted' = (exhausted \/ ~ok)
  /\ UNCHANGED <<total, bodies, counted>>

Allow(useController, ok) ==
  IF useController THEN AllowOf("controller", MaxController, ok)
                   ELSE AllowOf("upstream", MaxUpstream, ok)

AllowPrivateGeneration(ok) == AllowOf("private", MaxPrivate, ok)

-----------------------------------------------------------------------------
\* reserve_rendered_bytes and reserve_input only compare.
BodyFits == bodies + 1 <= MaxBodies
InputFits(e) == total.inp + e.inp <= MaxInput

\* Mutant: only the deadline is checked.
ReserveUnchecked(e, ok) ==
  /\ StartClock
  /\ ok = (clock # "expired")
  /\ total' = IF ok THEN Plus(total, e) ELSE total
  /\ exhausted' = (exhausted \/ ~ok)
  /\ UNCHANGED <<bodies, attempts, counted>>

\* reserve_generation: the estimate joins the totals at once.
ReserveGeneration(e, ok) ==
  LET projected == Plus(total, e)
  IN  /\ StartClock
      /\ ok = /\ clock # "expired"
              /\ projected.inp <= MaxInput
              /\ projected.out <= MaxGenerated
              /\ projected.inp + projected.out <= MaxModel
      /\ total' = IF ok THEN projected ELSE total
      /\ exhausted' = (exhausted \/ ~ok)
      /\ UNCHANGED <<bodies, attempts, counted>>

RecordGeneration(p) == counted' = [counted EXCEPT ![p] = @ + 1]

\* Mutant: the actuals are added on top of the estimate.
CommitDoubled(e, u, p) ==
  /\ total' = Plus(total, u)
  /\ exhausted' = exhausted
  /\ RecordGeneration(p)

\* GenerationReservation.commit: the actual usage u replaces the estimate e.
\* The combined ceiling is looked at before the input side is added.
Commit(e, u, p) ==
  LET base == Minus(total, e)
  IN  /\ total' = Plus(base, u)
      /\ exhausted' = \/ exhausted
                      \/ base.out + u.out > MaxGenerated
                      \/ base.inp + base.out + u.out > MaxModel
                      \/ base.inp + u.inp > MaxInput
      /\ RecordGeneration(p)

\* Mutant: a failed generation is charged but not counted.
CommitEstimatedUncounted(p) == UNCHANGED <<total, exhausted, counted>>

\* GenerationReservation.commit_estimated: the estimate stays.
CommitEstimated(p) ==
  /\ RecordGeneration(p)
  /\ UNCHANGED <<total, exhausted>>

\* GenerationReservation.release: nothing was generated.
Release(e) ==
  /\ total' = Minus(total, e)
  /\ UNCHANGED <<exhausted, counted>>

RecordRenderedBytes == bodies' = bodies + 1
=============================================================================
