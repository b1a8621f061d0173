------------------------- MODULE ControllerSession -------------------------
(***************************************************************************)
(* The controller's conversations.  A controlled attempt of a session      *)
(* reads the record the previous one left, alternates worker and           *)
(* controller turns, each a model generation it waits for, and writes the  *)
(* record back, or removes it.  Attempts of one session may overlap; the   *)
(* record may expire or be pushed out of its bounded store meanwhile.      *)
(***************************************************************************)
EXTENDS Naturals, FiniteSets

CONSTANTS
  Attempts,    \* controlled attempts of one session
  MaxTurns     \* max_primary_turns and max_controller_turns

ASSUME ControllerAssumption == MaxTurns \in Nat \ {0}

VARIABLES
  entry,      \* ControllerStateStore's record of the session, or NoEntry
  attempts,   \* [at, primary, controller, saw]: saw is the record it began with
  lost        \* ghost: a record with pending calls was written over unread

controllerVars == <<entry, attempts, lost>>

NoEntry == [primary |-> 0, controller |-> 0, pending |-> FALSE]
Waiting == [at |-> "idle", primary |-> 0, controller |-> 0, saw |-> NoEntry]
Entries == [primary : 0..MaxTurns, controller : 0..MaxTurns, pending : BOOLEAN]

ControllerTypeOK ==
  /\ entry \in Entries
  /\ attempts \in [Attempts -> [at : {"idle", "worker", "controller"},
                                primary : 0..MaxTurns, controller : 0..MaxTurns,
                                saw : Entries]]
  /\ lost \in BOOLEAN

ControllerInit ==
  entry = NoEntry /\ attempts = [a \in Attempts |-> Waiting] /\ lost = FALSE

\* The record is not there: never written, expired, evicted or removed.
Forget == entry # NoEntry /\ entry' = NoEntry /\ UNCHANGED <<attempts, lost>>

Spent(e) == e.primary >= MaxTurns \/ e.controller >= MaxTurns

\* A record that has spent its turns is removed and the request refused; a
\* record with pending calls refuses a request that does not bring all their
\* results; otherwise the counters go on from the record's.
Begin(a) ==
  /\ attempts[a].at = "idle"
  /\ \/ /\ Spent(entry) /\ entry' = NoEntry /\ UNCHANGED attempts
     \/ /\ ~Spent(entry) /\ UNCHANGED entry
        /\ \E brought \in BOOLEAN :
             IF entry.pending /\ ~brought THEN UNCHANGED attempts
             ELSE attempts' = [attempts EXCEPT ![a] =
                    [at |-> "worker", primary |-> entry.primary,
                     controller |-> entry.controller, saw |-> entry]]
  /\ UNCHANGED lost

Abandon(a) == attempts' = [attempts EXCEPT ![a] = Waiting]

\* Mutant: a failed worker turn is taken for an answer.
WorkerTurnFree(a) ==
  /\ attempts[a].at = "worker"
  /\ attempts' = [attempts EXCEPT ![a].at = "controller"]
  /\ UNCHANGED <<entry, lost>>

\* Mutant: the worker's turns are not limited.
WorkerTurnUnlimited(a) ==
  /\ attempts[a].at = "worker"
  /\ \/ Abandon(a)
     \/ attempts' = [attempts EXCEPT ![a].at = "controller", ![a].primary = @ + 1]
  /\ UNCHANGED <<entry, lost>>

\* ask_primary: no turn left removes the record; an error ends the attempt
\* and leaves the record as it was.
WorkerTurn(a) ==
  /\ attempts[a].at = "worker"
  /\ IF attempts[a].controller >= MaxTurns \/ attempts[a].primary >= MaxTurns
       THEN entry' = NoEntry /\ Abandon(a)
       ELSE /\ UNCHANGED entry
            /\ \/ Abandon(a)
               \/ attempts' = [attempts EXCEPT ![a].at = "controller", ![a].primary = @ + 1]
  /\ UNCHANGED lost

\* The controller's answer: an error leaves the record; a mixed or malformed
\* delegation, or calls the client's tool choice forbids, remove it; a valid
\* delegation goes back to the worker; an answer is written back, with the
\* calls whose results must come.
ControllerTurn(a) ==
  /\ attempts[a].at = "controller"
  /\ LET turns == attempts[a].controller + 1
     IN  \/ Abandon(a) /\ UNCHANGED <<entry, lost>>
         \/ Abandon(a) /\ entry' = NoEntry /\ UNCHANGED lost
         \/ /\ attempts' = [attempts EXCEPT ![a].at = "worker", ![a].controller = turns]
            /\ UNCHANGED <<entry, lost>>
         \/ /\ Abandon(a)
            /\ \E pending \in BOOLEAN :
                 entry' = [primary |-> attempts[a].primary, controller |-> turns, pending |-> pending]
            /\ lost' = (lost \/ (entry.pending /\ attempts[a].saw # entry))

ControllerNext ==
  Forget \/ \E a \in Attempts : Begin(a) \/ WorkerTurn(a) \/ ControllerTurn(a)

-----------------------------------------------------------------------------
\* Worker and controller alternate, so that a record counts as many turns of
\* one as of the other and an attempt in progress is ahead by the worker turn
\* its controller has not judged, however attempts of the session overlap and
\* whatever became of the records they continue (attempt.py:208).
TurnsAlternate ==
  /\ entry.primary = entry.controller
  /\ entry # NoEntry => entry.primary >= 1
  /\ \A a \in Attempts :
       attempts[a].primary = attempts[a].controller + (IF attempts[a].at = "controller" THEN 1 ELSE 0)

(* What the words of the code promise and it does not keep. *)

\* attempt.py:244: a session resumes after every pending result.  A second
\* attempt that began before writes over the record with the pending calls.
NoPendingLost == ~lost
=============================================================================
