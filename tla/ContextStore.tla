---------------------------- MODULE ContextStore ----------------------------
(***************************************************************************)
(* ContextStore (context_store/store.py): the bounded, session-scoped      *)
(* store of tool results and history fragments.  An entry is known by an   *)
(* opaque ref, here the number of the store() that made it.  A blob stands *)
(* for (kind, tool_call_id, sha256), what a store() deduplicates on within *)
(* a session.  Of last_accessed_at only the order is kept.                 *)
(*                                                                         *)
(* Every operator that primes is one public method, under its lock.        *)
(***************************************************************************)
EXTENDS Integers, FiniteSetsExt

CONSTANTS
  Session, Blob, RequestId,
  Size,          \* Size[b]: byte_size of a blob
  MaxBytes,      \* max_bytes_per_session
  MaxTotal,      \* max_total_bytes
  MaxSessions,   \* max_sessions
  MaxEntry,      \* max_entry_bytes
  MaxRefs        \* bound of the model: entries ever stored

ASSUME StoreAssumption ==   \* the ranges config.py validates
  /\ Size \in [Blob -> Nat \ {0}]
  /\ MaxBytes \in Nat \ {0} /\ MaxTotal \in Nat /\ MaxTotal >= MaxBytes
  /\ MaxSessions \in Nat \ {0}
  /\ MaxEntry \in 1..MaxBytes
  /\ MaxRefs \in Nat

VARIABLES
  entry,        \* live refs -> [session, blob, pins]
  older,        \* <<x, y>>: live refs, last_accessed_at of x before that of y
  bytes,        \* sessions that have a bucket -> total_bytes of the bucket
  totalBytes,   \* _total_bytes
  dedup,        \* _dedup_index: <<session, blob>> -> ref
  minted        \* how many refs were made

storeVars == <<entry, older, bytes, totalBytes, dedup, minted>>

Ref == 1..MaxRefs
Entry == [session : Session, blob : Blob, pins : SUBSET RequestId]

\* The accesses to the refs R one after the other.
IsAccessOrder(order, R) ==
  /\ order \subseteq R \X R
  /\ \A x, y \in R : x # y => (<<x, y>> \in order <=> <<y, x>> \notin order)
  /\ \A x \in R : <<x, x>> \notin order
  /\ \A x, y, z \in R : <<x, y>> \in order /\ <<y, z>> \in order => <<x, z>> \in order

StoreTypeOK ==
  /\ DOMAIN entry \subseteq Ref /\ \A r \in DOMAIN entry : entry[r] \in Entry
  /\ IsAccessOrder(older, DOMAIN entry)
  /\ DOMAIN bytes \subseteq Session /\ \A s \in DOMAIN bytes : bytes[s] \in Nat
  /\ totalBytes \in Nat
  /\ DOMAIN dedup \subseteq Session \X Blob
  /\ \A k \in DOMAIN dedup : dedup[k] \in Ref
  /\ minted \in 0..MaxRefs

StoreInit ==
  /\ entry = <<>> /\ older = {} /\ bytes = <<>> /\ dedup = <<>>
  /\ totalBytes = 0 /\ minted = 0

-----------------------------------------------------------------------------
Key(x) == <<x.session, x.blob>>
Made(s, b, pins) == [session |-> s, blob |-> b, pins |-> pins]
RefsOf(s) == {r \in DOMAIN entry : entry[r].session = s}
Weight(R, e) == MapThenSumSet(LAMBDA r : Size[e[r].blob], R)
Indexes(index, e, R) ==   \* exactly the entries R, each under its key
  /\ DOMAIN index = {Key(e[r]) : r \in R}
  /\ \A r \in R : index[Key(e[r])] = r

Among(order, R) == order \cap (R \X R)
Latest(R, r) == (R \ {r}) \X {r}   \* r is accessed after all the others
Touched(r) == Among(older, DOMAIN entry \ {r}) \cup Latest(DOMAIN entry, r)
OlderAmong(order, R, r) == {x \in R : <<x, r>> \in order}

\* Mutant: eviction stops at the entry that would cover the excess.
EvictedOneShort(victims, order, e, excess) ==
  {r \in victims : Weight(OlderAmong(order, victims, r) \cup {r}, e) < excess}

\* The victims that go, oldest first, until they cover the excess.
Evicted(victims, order, e, excess) ==
  {r \in victims : Weight(OlderAmong(order, victims, r), e) < excess}

\* Mutant: what is dropped stays in _dedup_index.
UnindexNothing(index, dropped, e) == index

\* _dedup_index.pop of every dropped entry's key.
Unindex(index, dropped, e) ==
  [k \in DOMAIN index \ {Key(e[r]) : r \in dropped} |-> index[k]]

-----------------------------------------------------------------------------
Hit(s, b) ==
  LET k == <<s, b>>
  IN  k \in DOMAIN dedup /\ dedup[k] \in RefsOf(s)

\* last_accessed_at is refreshed (get, search); pins are taken by what follows
\* without an await.
Touch(r, pins) ==
  /\ r \in DOMAIN entry
  /\ entry' = [entry EXCEPT ![r].pins = @ \cup pins]
  /\ older' = Touched(r)
  /\ UNCHANGED <<bytes, totalBytes, dedup, minted>>

\* The stored content is there already: it is touched and given back.
StoreHit(s, b, pins) ==
  /\ Size[b] <= MaxEntry /\ Hit(s, b)
  /\ Touch(dedup[<<s, b>>], pins)

Full(s) == s \notin DOMAIN bytes /\ Cardinality(DOMAIN bytes) >= MaxSessions

Evictable(t) == t \in DOMAIN bytes /\ \A r \in RefsOf(t) : entry[r].pins = {}

\* min over the session's entries, 0.0 for an empty session: t's is no later
\* than u's.
OldestNoLater(t, u) ==
  \/ RefsOf(t) = {} \/ t = u
  \/ /\ RefsOf(u) # {}
     /\ \E x \in RefsOf(t) : \A y \in RefsOf(u) : <<x, y>> \in older

\* _ensure_session_capacity_locked: the session that makes room for s.
MakesRoom(s, t) ==
  /\ Full(s) /\ Evictable(t)
  /\ \A u \in DOMAIN bytes : Evictable(u) => OldestNoLater(t, u)

\* ContextEntryTooLargeError or ContextStoreCapacityError: nothing changes.
StoreRefused(s, b) ==
  /\ \/ Size[b] > MaxEntry
     \/ ~Hit(s, b) /\ Full(s) /\ \A t \in DOMAIN bytes : ~Evictable(t)
  /\ UNCHANGED storeVars

\* Mutant: the entries of an evicted session stay in _total_bytes.
ClearedBytesKept(cleared) == 0

\* Mutant: the bucket's bytes are taken off, then its entries' again.
ClearedBytesTwice(cleared) == 2 * MapThenSumSet(LAMBDA t : bytes[t], cleared)

ClearedBytes(cleared) == MapThenSumSet(LAMBDA t : bytes[t], cleared)

\* Mutant: pinned entries are evicted as well.
VictimsPinnedToo(R, e) == R

Victims(R, e) == {r \in R : e[r].pins = {}}

\* _evict_if_needed and _evict_global_if_needed: what they drop.
OverSession(s, e, order, excess) ==
  Evicted(Victims({r \in DOMAIN e : e[r].session = s}, e), order, e, excess)
OverTotal(e, gone, order, excess) ==
  Evicted(Victims(DOMAIN e \ gone, e), order, e, excess)

\* The entries once the session in "cleared", if any, has made room and the
\* new one is in.
Spared(cleared) == {r \in DOMAIN entry : entry[r].session \notin cleared}
Entered(s, b, pins, cleared) ==
  [r \in Spared(cleared) \cup {minted + 1} |->
     IF r = minted + 1 THEN Made(s, b, pins) ELSE entry[r]]
IndexEntered(s, b, cleared) ==
  LET kept == Unindex(dedup, DOMAIN entry \ Spared(cleared), entry)
  IN  [k \in DOMAIN kept \cup {<<s, b>>} |-> IF k = <<s, b>> THEN minted + 1 ELSE kept[k]]

Insert(s, b, pins, cleared, gone) ==
  LET e == Entered(s, b, pins, cleared)
  IN  /\ entry' = [r \in DOMAIN e \ gone |-> e[r]]
      /\ dedup' = Unindex(IndexEntered(s, b, cleared), gone, e)
      /\ minted' = minted + 1

\* The session to clear for a new bucket of s; none when there is room.
Rooms(s) == IF Full(s) THEN {{t} : t \in {u \in DOMAIN bytes : MakesRoom(s, u)}} ELSE {{}}

\* The entries e, one of them new, whose sessions had grown to "size" and which
\* had grown to "sum", once gone1 and then gone2 are evicted.  Buckets that lost
\* everything go only if the global pass runs to its end.
Settle(e, order, size, sum, gone1, gone2) ==
  LET gone == gone1 \cup gone2
      sum1 == sum - Weight(gone1, e)
      swept == sum1 > MaxTotal /\ gone2 = Victims(DOMAIN e \ gone1, e)
  IN  /\ older' = Among(order, DOMAIN e \ gone)
      /\ bytes' = [t \in (IF swept THEN {e[r].session : r \in DOMAIN e \ gone} ELSE DOMAIN size) |->
                     size[t] - Weight({r \in gone : e[r].session = t}, e)]
      /\ totalBytes' = sum1 - Weight(gone2, e)

\* A new entry goes in, then the least recently used unpinned entries go while
\* a cap is exceeded, the new one included when nothing else is left: then the
\* caller gets ContextEntryEvictedError.  It is pinned only afterwards.
StoreNew(s, b, pins) ==
  /\ Size[b] <= MaxEntry /\ ~Hit(s, b)
  /\ minted < MaxRefs
  /\ \E cleared \in Rooms(s) :
       LET e == Entered(s, b, {}, cleared)
           order == Among(older, Spared(cleared)) \cup Latest(DOMAIN e, minted + 1)
           size == [t \in (DOMAIN bytes \ cleared) \cup {s} |->
                      (IF t \in DOMAIN bytes THEN bytes[t] ELSE 0)
                        + (IF t = s THEN Size[b] ELSE 0)]
           sum == totalBytes - ClearedBytes(cleared) + Size[b]
           gone1 == OverSession(s, e, order, size[s] - MaxBytes)
           gone2 == OverTotal(e, gone1, order, sum - Weight(gone1, e) - MaxTotal)
       IN  /\ Insert(s, b, pins, cleared, gone1 \cup gone2)
           /\ Settle(e, order, size, sum, gone1, gone2)

\* The ref a store() that did not fail has given back.
Given(s, b) == dedup'[<<s, b>>]
Stored(s, b) == <<s, b>> \in DOMAIN dedup' /\ dedup'[<<s, b>>] \in DOMAIN entry'
-----------------------------------------------------------------------------
\* Mutant: unpin_refs is not narrowed to the request.
UnpinAll(s, R, id) ==
  /\ entry' = [r \in DOMAIN entry |->
                 IF r \in R \cap RefsOf(s) THEN [entry[r] EXCEPT !.pins = {}] ELSE entry[r]]
  /\ UNCHANGED <<older, bytes, totalBytes, dedup, minted>>

Pin(s, R, id) ==
  /\ entry' = [r \in DOMAIN entry |->
                 IF r \in R \cap RefsOf(s) THEN [entry[r] EXCEPT !.pins = @ \cup {id}]
                                           ELSE entry[r]]
  /\ UNCHANGED <<older, bytes, totalBytes, dedup, minted>>

Unpin(s, R, id) ==
  /\ entry' = [r \in DOMAIN entry |->
                 IF r \in R \cap RefsOf(s) THEN [entry[r] EXCEPT !.pins = @ \ {id}]
                                           ELSE entry[r]]
  /\ UNCHANGED <<older, bytes, totalBytes, dedup, minted>>

\* evict_expired: the n least recently used unpinned entries are past their
\* time to live; buckets without entries go too.
EvictExpired(n) ==
  LET old == Victims(DOMAIN entry, entry)
      expired == {r \in old : Cardinality(OlderAmong(older, old, r)) < n}
      live == DOMAIN entry \ expired
  IN  /\ n <= Cardinality(old)
      /\ entry' = [r \in live |-> entry[r]]
      /\ older' = Among(older, live)
      /\ bytes' = [t \in {entry[r].session : r \in live} |->
                     bytes[t] - Weight(expired \cap RefsOf(t), entry)]
      /\ totalBytes' = totalBytes - Weight(expired, entry)
      /\ dedup' = Unindex(dedup, expired, entry)
      /\ UNCHANGED minted

\* No time to live is configured, or the last sweep was a moment ago.
SweepSkipped == UNCHANGED storeVars
=============================================================================
