---------------------------- MODULE RequestRefs ----------------------------
(***************************************************************************)
(* The refs of concurrent requests over one ContextStore: what preparation *)
(* stores, RequestRefRegistry (context_store/registry.py) and its use in   *)
(* Gateway.handle_request and handle_stream.  Requests interleave at every *)
(* await; what runs without one is one action.                             *)
(***************************************************************************)
EXTENDS ContextStore, Sequences, SequencesExt

CONSTANTS
  Request,
  SessionOf,      \* SessionOf[q]: the session q belongs to
  IdOf,           \* IdOf[q]: request_id, client supplied or generated
  MaxProjected    \* bound of the model: refs one request stores

ASSUME OwnerAssumption ==
  /\ SessionOf \in [Request -> Session]
  /\ IdOf \in [Request -> RequestId]
  /\ MaxProjected \in Nat

VARIABLES
  phase,        \* where each request stands
  projected,    \* the refs its invocation carries (pinned_refs), in order
  registered,   \* _refs of its registry
  shown         \* ghost: the refs its models were shown as handles

requestVars == <<phase, projected, registered, shown>>
vars == <<storeVars, requestVars>>

TypeOK ==
  /\ StoreTypeOK
  /\ phase \in [Request -> {"new", "preparing", "running", "over"}]
  /\ projected \in [Request -> Seq(Ref)]
  /\ registered \in [Request -> SUBSET Ref]
  /\ shown \in [Request -> SUBSET Ref]

Init ==
  /\ StoreInit
  /\ phase = [q \in Request |-> "new"]
  /\ projected = [q \in Request |-> <<>>]
  /\ registered = [q \in Request |-> {}]
  /\ shown = [q \in Request |-> {}]

-----------------------------------------------------------------------------
\* The request is answered or has failed; its locals and registry are gone.
Over(q) ==
  /\ phase' = [phase EXCEPT ![q] = "over"]
  /\ projected' = [projected EXCEPT ![q] = <<>>]
  /\ registered' = [registered EXCEPT ![q] = {}]
  /\ shown' = [shown EXCEPT ![q] = {}]

\* Preparation starts with the time-to-live sweep.
Prepare(q) ==
  /\ phase[q] = "new"
  /\ phase' = [phase EXCEPT ![q] = "preparing"]
  /\ SweepSkipped \/ \E n \in 0..Cardinality(DOMAIN entry) : EvictExpired(n)
  /\ UNCHANGED <<projected, registered, shown>>

\* A large tool result or a history fragment is virtualized.  A store()
\* that raises ends the request.  The stores of one pass follow each other
\* without an await; here other requests may also come in between them.
Project(q, b) ==
  /\ phase[q] = "preparing" /\ Len(projected[q]) < MaxProjected
  /\ \/ StoreHit(SessionOf[q], b, {})
     \/ StoreRefused(SessionOf[q], b)
     \/ StoreNew(SessionOf[q], b, {})
  /\ LET r == Given(SessionOf[q], b)
     IN  IF Stored(SessionOf[q], b) /\ Size[b] <= MaxEntry
           THEN /\ projected' = [projected EXCEPT ![q] =
                                   IF r \in Range(@) THEN @ ELSE Append(@, r)]
                /\ UNCHANGED <<phase, registered, shown>>
           ELSE Over(q)

\* register_all pins in order and raises at the first ref that is gone.  It
\* is outside the try whose finally closes the registry: the pins it has
\* taken by then stay.
Register(q) ==
  LET refs == projected[q]
      live(i) == refs[i] \in RefsOf(SessionOf[q])
      good == {i \in DOMAIN refs : live(i) /\ \A j \in 1..i-1 : live(j)}
      taken == {refs[i] : i \in good}
      all == good = DOMAIN refs
  IN  /\ phase[q] = "preparing"
      /\ Pin(SessionOf[q], taken, IdOf[q])
      /\ IF all
           THEN /\ phase' = [phase EXCEPT ![q] = "running"]
                /\ registered' = [registered EXCEPT ![q] = taken]
                /\ shown' = [shown EXCEPT ![q] = taken]
                /\ UNCHANGED projected
           ELSE Over(q)

\* Preparation raises, or the client leaves during it.
PreparationEnds(q) ==
  /\ phase[q] = "preparing"
  /\ Over(q)
  /\ UNCHANGED storeVars

-----------------------------------------------------------------------------
\* register pins a ref once: repeats are ignored.
Pins(q, r) == IF r \in registered[q] THEN {} ELSE {IdOf[q]}

\* __interop_get_tool_schema stores a large schema and registers its ref
\* before the model sees it.  A store() that raises is only a tool error.
Mint(q, b) ==
  /\ phase[q] = "running" /\ Cardinality(shown[q]) < MaxProjected
  /\ \/ /\ Hit(SessionOf[q], b)
        /\ StoreHit(SessionOf[q], b, Pins(q, dedup[<<SessionOf[q], b>>]))
     \/ StoreRefused(SessionOf[q], b)
     \/ StoreNew(SessionOf[q], b, {IdOf[q]})
  /\ LET r == IF Stored(SessionOf[q], b) /\ Size[b] <= MaxEntry
                THEN {Given(SessionOf[q], b)} ELSE {}
     IN  /\ registered' = [registered EXCEPT ![q] = @ \cup r]
         /\ shown' = [shown EXCEPT ![q] = @ \cup r]
  /\ UNCHANGED <<phase, projected>>

\* A controller turn is prepared within the request: what it virtualizes is
\* shown to the controller but never joins the registry.
Reproject(q, b) ==
  /\ phase[q] = "running" /\ Cardinality(shown[q]) < MaxProjected
  /\ StoreHit(SessionOf[q], b, {}) \/ StoreNew(SessionOf[q], b, {})
  /\ shown' = [shown EXCEPT ![q] =
                 IF Stored(SessionOf[q], b) THEN @ \cup {Given(SessionOf[q], b)} ELSE @]
  /\ UNCHANGED <<phase, projected, registered>>

MayShow(q, r) == r \in shown[q] \/ Cardinality(shown[q]) < MaxProjected

\* The model pages a result or recalls a fragment: the ref it names joins the
\* registry like a minted one.
Read(q, r) ==
  /\ phase[q] = "running" /\ r \in RefsOf(SessionOf[q]) /\ MayShow(q, r)
  /\ Touch(r, Pins(q, r))
  /\ registered' = [registered EXCEPT ![q] = @ \cup {r}]
  /\ shown' = [shown EXCEPT ![q] = @ \cup {r}]
  /\ UNCHANGED <<phase, projected>>

\* __interop_search_history shows the refs it finds, and registers none.
Search(q, r) ==
  /\ phase[q] = "running" /\ r \in RefsOf(SessionOf[q]) /\ MayShow(q, r)
  /\ Touch(r, {})
  /\ shown' = [shown EXCEPT ![q] = @ \cup {r}]
  /\ UNCHANGED <<phase, projected, registered>>

\* The finally of the request: success, error and cancellation alike.
Close(q) ==
  /\ phase[q] = "running"
  /\ Unpin(SessionOf[q], registered[q], IdOf[q])
  /\ Over(q)

Next ==
  \E q \in Request :
    \/ Prepare(q) \/ Register(q) \/ PreparationEnds(q) \/ Close(q)
    \/ \E b \in Blob : Project(q, b) \/ Mint(q, b) \/ Reproject(q, b)
    \/ \E r \in Ref : Read(q, r) \/ Search(q, r)

Spec == Init /\ [][Next]_vars

-----------------------------------------------------------------------------
\* The running counters are what the entries weigh (store.py keeps them by
\* hand at five places that drop entries).
TotalsExact ==
  /\ \A r \in DOMAIN entry : entry[r].session \in DOMAIN bytes
  /\ \A s \in DOMAIN bytes : bytes[s] = Weight(RefsOf(s), entry)
  /\ totalBytes = Weight(DOMAIN entry, entry)

\* The index knows exactly the live entries, each under its own key: no two
\* entries of a session hold the same blob, no key leads to a dropped ref.
DedupExact == Indexes(dedup, entry, DOMAIN entry)

\* All three caps hold whenever the lock is free, pinned entries or not: a
\* store() that pins keep from making room drops what it brought.
WithinCaps ==
  /\ \A s \in DOMAIN bytes : bytes[s] <= MaxBytes
  /\ totalBytes <= MaxTotal
  /\ Cardinality(DOMAIN bytes) <= MaxSessions

DistinctIds == \A p, q \in Request : IdOf[p] = IdOf[q] => p = q

\* gateway.py: the registry pins "this request's refs for the WHOLE request
\* lifecycle": while a request runs, every ref it registered is live, in its
\* own session, and pinned by it, whatever the other requests store.
RegisteredSurvive ==
  \A q \in Request : phase[q] = "running" =>
    \A r \in registered[q] :
      /\ r \in RefsOf(SessionOf[q])
      /\ IdOf[q] \in entry[r].pins

KeepsPinned ==
  \A r \in DOMAIN entry : entry[r].pins # {} =>
    r \in DOMAIN entry' /\ Key(entry'[r]) = Key(entry[r])

\* A pinned entry is never dropped nor replaced, by any step of anyone.
PinnedStay == [][KeepsPinned]_vars

\* gateway.py: "pins can never leak past the request".
NoLeakedPins ==
  \A r \in DOMAIN entry : \A id \in entry[r].pins :
    \E q \in Request : IdOf[q] = id /\ phase[q] = "running"

\* registry.py: "every ref a projection or an internal executor produces
\* goes through register".
ShownAreRegistered ==
  \A q \in Request : phase[q] = "running" => shown[q] \subseteq registered[q]
=============================================================================
