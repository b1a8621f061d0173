--------------------------- MODULE LoopDetection ---------------------------
(***************************************************************************)
(* The session manager: a bounded, expiring table of client sessions, each *)
(* with the signatures of its recent repairs.  Requests of several         *)
(* sessions overlap: one looks its session up when it begins, refuses if   *)
(* the session is flagged as looping, and much later records what was      *)
(* repaired or rejected, when the session may have been evicted.           *)
(***************************************************************************)
EXTENDS Naturals, Sequences, FiniteSets, SequencesExt

CONSTANTS
  Keys,         \* (session id, route id)
  Clients,      \* concurrent requests
  MaxSessions,
  MaxRepairs    \* per session

ASSUME SessionAssumption == MaxSessions \in Nat \ {0} /\ MaxRepairs \in Nat

VARIABLES
  sessions,   \* _sessions: key to session, for the keys it has
  access,     \* _last_access, as the keys from least to most recent
  client,     \* each request's key once it has begun
  earned      \* ghost: signatures recorded in each session's present life

loopVars == <<sessions, access, client, earned>>

Recent == 5   \* signatures the detector looks at
Signatures == [arguments : {"same", "other"}, result : {"repair", "rejection"}]
NewSession == [repairs |-> 0, consecutive |-> 0, signatures |-> <<>>, flagged |-> FALSE]

LoopTypeOK ==
  /\ DOMAIN sessions \subseteq Keys
  /\ \A k \in DOMAIN sessions :
       /\ sessions[k].repairs \in 0..MaxRepairs /\ sessions[k].consecutive \in 0..MaxRepairs
       /\ sessions[k].signatures \in BoundedSeq(Signatures, Recent)
       /\ sessions[k].flagged \in BOOLEAN
  /\ client \in [Clients -> Keys \union {"idle"}]
  /\ earned \in [Keys -> Nat]

LoopInit ==
  /\ sessions = [k \in {} |-> NewSession] /\ access = <<>>
  /\ client = [c \in Clients |-> "idle"] /\ earned = [k \in Keys |-> 0]

Without(table, gone) == [k \in DOMAIN table \ gone |-> table[k]]

\* The key is the last one accessed now.
Touched(order, k) ==
  Append(IF k \in ToSet(order) THEN RemoveAt(order, CHOOSE i \in DOMAIN order : order[i] = k) ELSE order, k)

\* begin_request: sessions that have expired go, the n least recently used
\* ones, then, for a new session in a full table, the one that is next; the
\* request is refused if its session is flagged (gateway.py:1182).
BeginRequest(c) ==
  /\ client[c] = "idle"
  /\ \E k \in Keys, n \in 0..Len(access) :
       LET order == SubSeq(access, n + 1, Len(access))
           alive == Without(sessions, ToSet(SubSeq(access, 1, n)))
           full == k \notin DOMAIN alive /\ Cardinality(DOMAIN alive) >= MaxSessions
           kept == IF full THEN Without(alive, {Head(order)}) ELSE alive
           table == IF k \in DOMAIN kept THEN kept
                    ELSE [j \in DOMAIN kept \union {k} |-> IF j = k THEN NewSession ELSE kept[j]]
       IN  /\ sessions' = table
           /\ access' = Touched(IF full THEN Tail(order) ELSE order, k)
           /\ client' = [client EXCEPT ![c] = IF table[k].flagged THEN "idle" ELSE k]
           /\ earned' = [j \in Keys |-> IF j \in DOMAIN kept THEN earned[j] ELSE 0]

\* _detect_loop: more than three repairs running, or three signatures of the
\* last five alike, repair status apart.
Looping(s) ==
  \/ s.consecutive > 3
  \/ \E i \in DOMAIN s.signatures :
       Cardinality({j \in DOMAIN s.signatures : s.signatures[j] = s.signatures[i]}) >= 3

\* Mutant: one repeat is enough.
RecordedHasty(s, signature) ==
  LET t == [s EXCEPT !.repairs = @ + 1,
                     !.consecutive = IF signature.result = "repair" THEN @ + 1 ELSE 0,
                     !.signatures = Append(@, signature)]
  IN  [t EXCEPT !.flagged = TRUE]

\* record_repair and record_tool.
Recorded(s, signature) ==
  LET all == Append(s.signatures, signature)
      t == [s EXCEPT !.repairs = @ + 1,
                     !.consecutive = IF signature.result = "repair" THEN @ + 1 ELSE 0,
                     !.signatures = IF Len(all) > Recent THEN Tail(all) ELSE all]
  IN  [t EXCEPT !.flagged = @ \/ Looping(t)]

\* _record_repairs_to_session: one call of the batch was repaired or rejected.
\* A session that has gone, or has recorded enough, records nothing.
RecordRepair(c) ==
  /\ client[c] # "idle"
  /\ LET k == client[c]
     IN  IF k \in DOMAIN sessions /\ sessions[k].repairs < MaxRepairs
           THEN \E signature \in Signatures :
                  /\ sessions' = [sessions EXCEPT ![k] = Recorded(@, signature)]
                  /\ earned' = [earned EXCEPT ![k] = @ + 1]
           ELSE UNCHANGED <<sessions, earned>>
  /\ UNCHANGED <<access, client>>

EndRequest(c) ==
  /\ client[c] # "idle" /\ client' = [client EXCEPT ![c] = "idle"]
  /\ UNCHANGED <<sessions, access, earned>>

LoopNext == \E c \in Clients : BeginRequest(c) \/ RecordRepair(c) \/ EndRequest(c)

-----------------------------------------------------------------------------
\* The table and the index of accesses hold the same sessions, no more than
\* allowed, whoever was evicted in the middle of a request; and a session is
\* flagged by what it did itself: by three records at least of its present
\* life, never by those of a session evicted under the same key
\* (session.py:206).
SessionsSound ==
  /\ ToSet(access) = DOMAIN sessions /\ IsInjective(access)
  /\ Cardinality(DOMAIN sessions) <= MaxSessions
  /\ \A k \in DOMAIN sessions :
       /\ sessions[k].repairs = earned[k]
       /\ sessions[k].flagged => earned[k] >= 3
=============================================================================
