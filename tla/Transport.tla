----------------------------- MODULE Transport -----------------------------
(***************************************************************************)
(* UpstreamTransport.send: concurrent non-streaming requests over one      *)
(* httpx client with a bounded pool of connections, each with its retries. *)
(* A request is safe to repeat when its method is GET, HEAD or OPTIONS; an *)
(* inference call is a POST.  httpx and the backend are the environment:   *)
(* they connect, answer, time out and fail as they like.                   *)
(***************************************************************************)
EXTENDS Naturals, FiniteSets

CONSTANTS
  Senders,         \* calls of send
  MaxRetries,      \* _max_retries
  MaxConnections   \* httpx.Limits.max_connections

ASSUME TransportAssumption ==
  MaxRetries \in Nat /\ MaxConnections \in Nat \ {0} /\ IsFiniteSet(Senders)

VARIABLES
  place,      \* where each call of send stands
  repeatable, \* retry_safe
  attempt,    \* the loop's counter
  connected,  \* senders that hold a connection of the pool
  outcome,    \* what send returned or raised
  delivered,  \* ghost: how often the backend got the request
  statuses    \* ghost: how often it answered with a status line
              \* (both saturate past anything the retries allow)

sendVars == <<place, repeatable, attempt, connected, outcome, delivered, statuses>>

SendTypeOK ==
  /\ place \in [Senders -> {"attempt", "sent", "body", "backoff", "done"}]
  /\ repeatable \in [Senders -> BOOLEAN]
  /\ attempt \in [Senders -> 0..MaxRetries]
  /\ connected \subseteq Senders
  /\ outcome \in [Senders -> {"none", "answer", "synthetic", "raised"}]
  /\ delivered \in [Senders -> Nat] /\ statuses \in [Senders -> Nat]

SendInit ==
  /\ place = [s \in Senders |-> "attempt"]
  /\ repeatable \in [Senders -> BOOLEAN]
  /\ attempt = [s \in Senders |-> 0]
  /\ connected = {}
  /\ outcome = [s \in Senders |-> "none"]
  /\ delivered = [s \in Senders |-> 0] /\ statuses = [s \in Senders |-> 0]

-----------------------------------------------------------------------------
Tick(n) == IF n <= MaxRetries + 1 THEN n + 1 ELSE n

\* Mutant: the connection is not given back.
LeaveHolding(s, result) ==
  /\ place' = [place EXCEPT ![s] = "done"]
  /\ outcome' = [outcome EXCEPT ![s] = result]
  /\ UNCHANGED <<repeatable, attempt, connected, delivered, statuses>>

Leave(s, result) ==
  /\ place' = [place EXCEPT ![s] = "done"]
  /\ outcome' = [outcome EXCEPT ![s] = result]
  /\ connected' = connected \ {s}
  /\ UNCHANGED <<repeatable, attempt, delivered, statuses>>

\* Mutant: one retry too many.
TryAgainOnceMore(s) ==
  /\ attempt[s] <= MaxRetries
  /\ place' = [place EXCEPT ![s] = "backoff"]
  /\ connected' = connected \ {s}
  /\ UNCHANGED <<repeatable, attempt, outcome, delivered, statuses>>

\* The end of an except branch: sleep and loop, or fall out of the loop into
\* the synthetic 503.
TryAgain(s) ==
  \/ /\ attempt[s] < MaxRetries
     /\ place' = [place EXCEPT ![s] = "backoff"]
     /\ connected' = connected \ {s}
     /\ UNCHANGED <<repeatable, attempt, outcome, delivered, statuses>>
  \/ attempt[s] = MaxRetries /\ Leave(s, "synthetic")

\* ConnectTimeout, ConnectError: nothing was sent, any method is retried.
ConnectFails(s) ==
  /\ place[s] = "attempt"
  /\ TryAgain(s)

Connect(s) ==
  /\ place[s] = "attempt" /\ Cardinality(connected) < MaxConnections
  /\ place' = [place EXCEPT ![s] = "sent"]
  /\ connected' = connected \cup {s}
  /\ delivered' = [delivered EXCEPT ![s] = Tick(@)]
  /\ UNCHANGED <<repeatable, attempt, outcome, statuses>>

\* Mutant: every timeout is retried.
TimesOutRetried(s) ==
  /\ \/ place[s] \in {"sent", "body"}
     \/ place[s] = "attempt" /\ Cardinality(connected) = MaxConnections
  /\ TryAgain(s)

\* Any other TimeoutException: of the pool, of writing or of reading.
TimesOut(s) ==
  /\ \/ place[s] \in {"sent", "body"}
     \/ place[s] = "attempt" /\ Cardinality(connected) = MaxConnections
  /\ \/ repeatable[s] /\ TryAgain(s)
     \/ ~repeatable[s] /\ Leave(s, "synthetic")

\* A retryable status: the backoff is slept inside the async with, which
\* keeps the connection; any other answer is read.
Status(s) ==
  /\ place[s] = "sent"
  /\ \E retryable \in BOOLEAN :
       place' = [place EXCEPT ![s] =
                   IF retryable /\ repeatable[s] /\ attempt[s] < MaxRetries THEN "backoff" ELSE "body"]
  /\ statuses' = [statuses EXCEPT ![s] = Tick(@)]
  /\ UNCHANGED <<repeatable, attempt, connected, outcome, delivered>>

BodyRead(s) ==
  /\ place[s] = "body"
  /\ Leave(s, "answer")

\* UpstreamResponseTooLargeError, or an httpx error that is neither a timeout
\* nor a failed connect: send lets it through.
Raises(s) ==
  /\ place[s] \in {"sent", "body"}
  /\ Leave(s, "raised")

\* Mutant: the attempt is not counted.
SleptUncounted(s) ==
  /\ place[s] = "backoff"
  /\ place' = [place EXCEPT ![s] = "attempt"]
  /\ connected' = connected \ {s}
  /\ UNCHANGED <<repeatable, attempt, outcome, delivered, statuses>>

Slept(s) ==
  /\ place[s] = "backoff"
  /\ place' = [place EXCEPT ![s] = "attempt"]
  /\ attempt' = [attempt EXCEPT ![s] = @ + 1]
  /\ connected' = connected \ {s}
  /\ UNCHANGED <<repeatable, outcome, delivered, statuses>>

SendStep(s) ==
  ConnectFails(s) \/ Connect(s) \/ TimesOut(s) \/ Status(s) \/ BodyRead(s) \/ Raises(s) \/ Slept(s)

SendsDone ==   \* the terminal state, kept stuttering
  /\ \A s \in Senders : place[s] = "done"
  /\ UNCHANGED sendVars

SendNext == (\E s \in Senders : SendStep(s)) \/ SendsDone

\* httpx's four timeouts and the finite backoff end every wait.
SendFairness == \A s \in Senders : WF_sendVars(SendStep(s))

SendSpec == SendInit /\ [][SendNext]_sendVars /\ SendFairness

-----------------------------------------------------------------------------
\* An inference call reaches the backend at most once, whatever fails, times
\* out or answers 503 around it; no request reaches it more often than the
\* configured retries allow; an answer that is returned was given to a
\* request that got there.
SentOnce ==
  \A s \in Senders :
    /\ ~repeatable[s] => delivered[s] <= 1
    /\ delivered[s] <= attempt[s] + 1
    /\ outcome[s] = "answer" => statuses[s] > 0 /\ statuses[s] <= delivered[s]

\* Connections are held by nobody else, within the pool's limit, and none is
\* left with a call that is over.
PoolRespected ==
  /\ Cardinality(connected) <= MaxConnections
  /\ \A s \in Senders : /\ place[s] \in {"sent", "body"} => s \in connected
                        /\ place[s] \in {"attempt", "done"} => s \notin connected

\* Every call of send ends, a full pool and endless 503s notwithstanding.
SendEnds == \A s \in Senders : <>(place[s] = "done")

(* transport/http.py:94 says of transport_failed, which marks the synthetic *)
(* answer: "the backend never actually answered".                           *)
SyntheticMeansSilent == \A s \in Senders : outcome[s] = "synthetic" => statuses[s] = 0
=============================================================================
