---------------------------- MODULE RefsProofs ----------------------------
(***************************************************************************)
(* For every set of requests, sessions and blobs and all caps: the         *)
(* deduplication index is exact, no step drops a pinned entry, and, if     *)
(* requests have ids of their own, what a running request has registered   *)
(* stays live and pinned.                                                  *)
(***************************************************************************)
EXTENDS RequestRefs, FiniteSetTheorems, TLAPS

\* Refs are numbered as they are made, so the next one is new.
Fresh == minted \in Nat /\ DOMAIN entry \subseteq 1..minted
Entries == entry \in [DOMAIN entry -> Entry]
Requests ==
  /\ phase \in [Request -> {"new", "preparing", "running", "over"}]
  /\ registered \in [Request -> SUBSET Nat]

StoreInv == Fresh /\ Entries /\ DedupExact
IInv == StoreInv /\ Requests

\* What a step of the store, other than an unpin, does to the pinned entries.
PinsKept ==
  \A r \in DOMAIN entry : entry[r].pins # {} =>
    /\ r \in DOMAIN entry'
    /\ Key(entry'[r]) = Key(entry[r])
    /\ entry[r].pins \subseteq entry'[r].pins

\* ref is live, in the session and pinned by the request: of one request and
\* one ref, what RegisteredSurvive says of all of them.
Safe(q, r) == r \in RefsOf(SessionOf[q]) /\ IdOf[q] \in entry[r].pins

-----------------------------------------------------------------------------
(* The operations of the store.                                            *)

\* A stored blob that the index does not lead to is not stored.
LEMMA IndexedIsHit ==
  ASSUME StoreInv, NEW s, NEW b, <<s, b>> \in DOMAIN dedup
  PROVE  Hit(s, b)
<1>1. PICK r \in DOMAIN entry : <<s, b>> = Key(entry[r])
  BY DEF StoreInv, DedupExact, Indexes
<1>2. dedup[<<s, b>>] = r /\ entry[r].session = s
  BY <1>1 DEF StoreInv, DedupExact, Indexes, Key
<1> QED
  BY <1>2 DEF Hit, RefsOf

\* A touch that takes pins keeps the index and every pin.
LEMMA TouchStep ==
  ASSUME StoreInv, NEW r, NEW pins \in SUBSET RequestId, Touch(r, pins)
  PROVE  /\ StoreInv' /\ PinsKept /\ dedup' = dedup
         /\ r \in DOMAIN entry' /\ entry'[r].session = entry[r].session
         /\ pins \subseteq entry'[r].pins
<1>1. r \in DOMAIN entry /\ entry' = [entry EXCEPT ![r].pins = @ \cup pins]
  BY DEF Touch
<1>2. UNCHANGED <<dedup, minted>>
  BY DEF Touch
<1>3. entry \in [DOMAIN entry -> Entry]
  BY DEF StoreInv, Entries
<1>4. /\ DOMAIN entry' = DOMAIN entry
      /\ \A x \in DOMAIN entry : /\ entry'[x] \in Entry
                                 /\ entry'[x].session = entry[x].session
                                 /\ entry'[x].blob = entry[x].blob
                                 /\ entry[x].pins \subseteq entry'[x].pins
      /\ entry' \in [DOMAIN entry -> Entry]
      /\ pins \subseteq entry'[r].pins
  BY <1>1, <1>3 DEF Entry
<1>5. StoreInv'
  BY <1>2, <1>4 DEF StoreInv, Fresh, Entries, DedupExact, Indexes, Key
<1> QED
  BY <1>1, <1>2, <1>4, <1>5 DEF PinsKept, Key

\* A store() that finds the content is a touch of the entry that has it.
LEMMA StoreHitStep ==
  ASSUME StoreInv, NEW s \in Session, NEW b \in Blob, NEW pins \in SUBSET RequestId,
         StoreHit(s, b, pins)
  PROVE  /\ StoreInv' /\ PinsKept
         /\ dedup[<<s, b>>] \in DOMAIN entry' /\ dedup' = dedup
         /\ entry'[dedup[<<s, b>>]].session = s
         /\ pins \subseteq entry'[dedup[<<s, b>>]].pins
<1>1. Touch(dedup[<<s, b>>], pins) /\ entry[dedup[<<s, b>>]].session = s
  BY DEF StoreHit, Hit, RefsOf
<1> QED
  BY <1>1, TouchStep

\* Taking dropped entries' keys out of an exact index leaves it exact.
LEMMA UnindexStaysExact ==
  ASSUME NEW R, NEW e, NEW index, Indexes(index, e, R), NEW gone \in SUBSET R
  PROVE  Indexes(Unindex(index, gone, e), e, R \ gone)
<1>1. \A r \in R, x \in R : Key(e[r]) = Key(e[x]) => r = x
  BY DEF Indexes
<1>2. DOMAIN Unindex(index, gone, e) = {Key(e[r]) : r \in R} \ {Key(e[r]) : r \in gone}
  BY DEF Unindex, Indexes
<1>3. DOMAIN Unindex(index, gone, e) = {Key(e[r]) : r \in R \ gone}
  BY <1>1, <1>2
<1> QED
  BY <1>1, <1>3 DEF Unindex, Indexes

\* What a store() of new content works with, once a session, if any, has made
\* room for it.
StoresWith(s, b, pins, cleared, e, order, size, sum, gone1, gone2) ==
  /\ e = Entered(s, b, {}, cleared)
  /\ order = Among(older, Spared(cleared)) \cup Latest(DOMAIN e, minted + 1)
  /\ size = [t \in (DOMAIN bytes \ cleared) \cup {s} |->
               (IF t \in DOMAIN bytes THEN bytes[t] ELSE 0) + (IF t = s THEN Size[b] ELSE 0)]
  /\ sum = totalBytes - ClearedBytes(cleared) + Size[b]
  /\ gone1 = OverSession(s, e, order, size[s] - MaxBytes)
  /\ gone2 = OverTotal(e, gone1, order, sum - Weight(gone1, e) - MaxTotal)
  /\ Insert(s, b, pins, cleared, gone1 \cup gone2)
  /\ Settle(e, order, size, sum, gone1, gone2)

LEMMA StoreNewWorks ==
  ASSUME NEW s, NEW b, NEW pins, StoreNew(s, b, pins)
  PROVE  \E cleared \in Rooms(s) : \E e, order, size, sum, gone1, gone2 :
           StoresWith(s, b, pins, cleared, e, order, size, sum, gone1, gone2)
BY ZenonT(60) DEF StoreNew, StoresWith

\* What a store() of new content clears and evicts is not pinned.
LEMMA StoreNewDrops ==
  ASSUME NEW s, NEW b, NEW pins, StoreNew(s, b, pins)
  PROVE  \E cleared, gone :
           /\ \A t \in cleared : Evictable(t)
           /\ gone \in SUBSET {r \in DOMAIN Entered(s, b, {}, cleared) :
                                 Entered(s, b, {}, cleared)[r].pins = {}}
           /\ Insert(s, b, pins, cleared, gone)
<1>0. PICK cleared \in Rooms(s) : \E e, order, size, sum, gone1, gone2 :
        StoresWith(s, b, pins, cleared, e, order, size, sum, gone1, gone2)
  BY StoreNewWorks
<1>1. PICK e, order, size, sum, gone1, gone2 :
        StoresWith(s, b, pins, cleared, e, order, size, sum, gone1, gone2)
  BY <1>0
<1>2. \A t \in cleared : Evictable(t)
  BY <1>0 DEF Rooms, MakesRoom
<1>3. gone1 \cup gone2 \subseteq {r \in DOMAIN e : e[r].pins = {}}
  BY <1>1 DEF StoresWith, OverSession, OverTotal, Evicted, Victims
<1>4. e = Entered(s, b, {}, cleared) /\ Insert(s, b, pins, cleared, gone1 \cup gone2)
  BY <1>1 DEF StoresWith
<1> QED
  BY <1>2, <1>3, <1>4

\* A store() of new content makes one entry, drops some that no request has
\* pinned (the new one, perhaps), and leaves the others as they were.
LEMMA StoreNewEffect ==
  ASSUME StoreInv, NEW s \in Session, NEW b \in Blob, NEW pins \in SUBSET RequestId,
         StoreNew(s, b, pins)
  PROVE  /\ DOMAIN entry' \subseteq DOMAIN entry \cup {minted + 1}
         /\ \A r \in DOMAIN entry' \ {minted + 1} : entry'[r] = entry[r]
         /\ minted + 1 \in DOMAIN entry' => entry'[minted + 1] = Made(s, b, pins)
         /\ \A r \in DOMAIN entry : entry[r].pins # {} => r \in DOMAIN entry'
         /\ entry' \in [DOMAIN entry' -> Entry]
         /\ DedupExact'
         /\ minted' = minted + 1
<1> DEFINE new == minted + 1
<1>1. PICK cleared, gone :
        /\ \A t \in cleared : Evictable(t)
        /\ gone \in SUBSET {r \in DOMAIN Entered(s, b, {}, cleared) :
                              Entered(s, b, {}, cleared)[r].pins = {}}
        /\ Insert(s, b, pins, cleared, gone)
  BY StoreNewDrops
<1> DEFINE
      stay == Spared(cleared)
      e == Entered(s, b, pins, cleared)
      index == IndexEntered(s, b, cleared)
<1>2. ~Hit(s, b)
  BY DEF StoreNew
<1>3. new \notin DOMAIN entry /\ <<s, b>> \notin DOMAIN dedup
  BY <1>2, IndexedIsHit DEF StoreInv, Fresh
<1>4. /\ stay \subseteq DOMAIN entry
      /\ DOMAIN e = stay \cup {new} /\ e[new] = Made(s, b, pins)
      /\ \A r \in stay : r # new /\ e[r] = entry[r]
  BY <1>3 DEF Entered, Spared
<1>5. gone \in SUBSET (stay \cup {new}) /\ \A r \in gone \ {new} : entry[r].pins = {}
  BY <1>1, <1>3 DEF Entered, Spared
<1>6. /\ entry' = [r \in (stay \cup {new}) \ gone |-> e[r]]
      /\ dedup' = Unindex(index, gone, e)
      /\ minted' = new
  BY <1>1, <1>4 DEF Insert
<1>7. Indexes(index, e, stay \cup {new})
  <2> DEFINE
        dropped == DOMAIN entry \ stay
        kept == Unindex(dedup, dropped, entry)
  <2>1. dropped \in SUBSET DOMAIN entry /\ DOMAIN entry \ dropped = stay
    BY <1>4
  <2>2. Indexes(kept, entry, stay)
    <3>1. Indexes(dedup, entry, DOMAIN entry)
      BY DEF StoreInv, DedupExact
    <3> QED
      BY <2>1, <3>1, UnindexStaysExact
  <2>3. /\ DOMAIN index = DOMAIN kept \cup {<<s, b>>} /\ index[<<s, b>>] = new
        /\ \A k \in DOMAIN kept : k # <<s, b>> => index[k] = kept[k]
    BY DEF IndexEntered
  <2>4. \A r \in stay : Key(e[r]) = Key(entry[r]) /\ Key(entry[r]) # <<s, b>>
    BY <1>3, <1>4 DEF StoreInv, DedupExact, Indexes, Key
  <2>5. Key(e[new]) = <<s, b>>
    BY <1>4 DEF Key, Made
  <2> HIDE DEF kept, stay, e, index
  <2>6. DOMAIN index = {Key(e[r]) : r \in stay \cup {new}}
    BY <2>2, <2>3, <2>4, <2>5 DEF Indexes
  <2>7. \A r \in stay \cup {new} : index[Key(e[r])] = r
    BY <2>2, <2>3, <2>4, <2>5 DEF Indexes
  <2> QED
    BY <2>6, <2>7 DEF Indexes
<1> HIDE DEF stay, e, index
<1>8. DedupExact'
  <2>1. Indexes(dedup', e, (stay \cup {new}) \ gone)
    BY <1>5, <1>6, <1>7, UnindexStaysExact
  <2>2. /\ DOMAIN entry' = (stay \cup {new}) \ gone
        /\ \A r \in DOMAIN entry' : Key(entry'[r]) = Key(e[r])
    BY <1>6 DEF Key
  <2>3. {Key(entry'[r]) : r \in DOMAIN entry'} = {Key(e[r]) : r \in DOMAIN entry'}
    BY <2>2
  <2> QED
    BY <2>1, <2>2, <2>3 DEF DedupExact, Indexes
<1>9. \A r \in DOMAIN entry : entry[r].pins # {} => r \in stay
  BY <1>1 DEF Evictable, RefsOf, stay, Spared
<1>10. \A r \in stay \cup {new} : e[r] \in Entry
  BY <1>4 DEF StoreInv, Entries, Entry, Made
<1> QED
  BY <1>3, <1>4, <1>5, <1>6, <1>8, <1>9, <1>10

\* So a store() of new content keeps the index and every pin, and what it
\* gives back is a new entry with the pins asked for.
LEMMA StoreNewStep ==
  ASSUME StoreInv, NEW s \in Session, NEW b \in Blob, NEW pins \in SUBSET RequestId,
         StoreNew(s, b, pins)
  PROVE  /\ StoreInv' /\ PinsKept
         /\ Stored(s, b) => entry'[Given(s, b)] = Made(s, b, pins)
<1>1. StoreInv'
  BY StoreNewEffect DEF StoreInv, Fresh, Entries
<1>2. PinsKept
  BY StoreNewEffect DEF PinsKept, Key, StoreInv, Fresh
<1>3. ASSUME Stored(s, b) PROVE entry'[Given(s, b)] = Made(s, b, pins)
  <2> DEFINE r == dedup'[<<s, b>>]
  <2>1. r \in DOMAIN entry' /\ <<s, b>> \in DOMAIN dedup'
    BY <1>3 DEF Stored
  <2>2. Key(entry'[r]) = <<s, b>>
    BY <1>1, <2>1 DEF StoreInv, DedupExact, Indexes
  <2>3. CASE r = minted + 1
    BY <2>1, <2>3, StoreNewEffect DEF Given
  <2>4. CASE r # minted + 1
    <3>1. r \in DOMAIN entry /\ entry'[r] = entry[r]
      BY <2>1, <2>4, StoreNewEffect
    <3>2. Key(entry[r]) = <<s, b>>
      BY <2>2, <3>1
    <3>3. <<s, b>> \in DOMAIN dedup
      BY <3>1, <3>2 DEF StoreInv, DedupExact, Indexes
    <3>4. ~Hit(s, b)
      BY DEF StoreNew
    <3> QED
      BY <3>3, <3>4, IndexedIsHit
  <2> QED
    BY <2>3, <2>4
<1> QED
  BY <1>1, <1>2, <1>3

\* The time-to-live sweep keeps the index and every pin.
LEMMA EvictExpiredStep ==
  ASSUME StoreInv, NEW n, EvictExpired(n)
  PROVE  StoreInv' /\ PinsKept
<1>1. PICK expired \in SUBSET DOMAIN entry :
        /\ \A r \in expired : entry[r].pins = {}
        /\ entry' = [r \in DOMAIN entry \ expired |-> entry[r]]
        /\ dedup' = Unindex(dedup, expired, entry)
        /\ minted' = minted
  <2> DEFINE
        old == Victims(DOMAIN entry, entry)
        expired == {r \in old : Cardinality(OlderAmong(older, old, r)) < n}
  <2>1. expired \in SUBSET DOMAIN entry /\ \A r \in expired : entry[r].pins = {}
    BY DEF Victims
  <2>2. /\ entry' = [r \in DOMAIN entry \ expired |-> entry[r]]
        /\ dedup' = Unindex(dedup, expired, entry)
        /\ minted' = minted
    BY DEF EvictExpired
  <2> HIDE DEF expired
  <2> QED
    BY <2>1, <2>2
<1>2. Indexes(dedup', entry, DOMAIN entry \ expired)
  BY <1>1, UnindexStaysExact DEF StoreInv, DedupExact
<1>3. /\ DOMAIN entry' = DOMAIN entry \ expired
      /\ \A r \in DOMAIN entry' : entry'[r] = entry[r]
  BY <1>1
<1>4. {Key(entry'[r]) : r \in DOMAIN entry'} = {Key(entry[r]) : r \in DOMAIN entry'}
  BY <1>3 DEF Key
<1>5. DedupExact'
  BY <1>2, <1>3, <1>4 DEF DedupExact, Indexes
<1> QED
  BY <1>1, <1>3, <1>5 DEF StoreInv, Fresh, Entries, PinsKept, Key

\* Pinning and unpinning change nothing but the pins of the refs named.
LEMMA PinStep ==
  ASSUME StoreInv, NEW s, NEW R, NEW id \in RequestId, Pin(s, R, id)
  PROVE  /\ StoreInv' /\ PinsKept
         /\ \A r \in R \cap RefsOf(s) :
              r \in DOMAIN entry' /\ entry'[r].session = s /\ id \in entry'[r].pins
<1>1. /\ entry \in [DOMAIN entry -> Entry]
      /\ entry' = [r \in DOMAIN entry |->
                     IF r \in R \cap RefsOf(s) THEN [entry[r] EXCEPT !.pins = @ \cup {id}]
                                               ELSE entry[r]]
      /\ UNCHANGED <<dedup, minted>>
  BY DEF Pin, StoreInv, Entries
<1>2. /\ DOMAIN entry' = DOMAIN entry
      /\ \A r \in DOMAIN entry : /\ entry'[r] \in Entry
                                 /\ entry'[r].session = entry[r].session
                                 /\ entry'[r].blob = entry[r].blob
                                 /\ entry[r].pins \subseteq entry'[r].pins
                                 /\ r \in R \cap RefsOf(s) => id \in entry'[r].pins
      /\ entry' \in [DOMAIN entry -> Entry]
  BY <1>1 DEF Entry
<1>3. StoreInv'
  BY <1>1, <1>2 DEF StoreInv, Fresh, Entries, DedupExact, Indexes, Key
<1> QED
  BY <1>2, <1>3 DEF PinsKept, Key, RefsOf

LEMMA UnpinStep ==
  ASSUME StoreInv, NEW s, NEW R, NEW id \in RequestId, Unpin(s, R, id)
  PROVE  /\ StoreInv' /\ DOMAIN entry' = DOMAIN entry
         /\ \A r \in DOMAIN entry : /\ Key(entry'[r]) = Key(entry[r])
                                    /\ entry'[r].session = entry[r].session
                                    /\ entry[r].pins \ {id} \subseteq entry'[r].pins
<1>1. /\ entry \in [DOMAIN entry -> Entry]
      /\ entry' = [r \in DOMAIN entry |->
                     IF r \in R \cap RefsOf(s) THEN [entry[r] EXCEPT !.pins = @ \ {id}]
                                               ELSE entry[r]]
      /\ UNCHANGED <<dedup, minted>>
  BY DEF Unpin, StoreInv, Entries
<1>2. /\ DOMAIN entry' = DOMAIN entry
      /\ \A r \in DOMAIN entry : /\ entry'[r] \in Entry
                                 /\ entry'[r].session = entry[r].session
                                 /\ entry'[r].blob = entry[r].blob
                                 /\ entry[r].pins \ {id} \subseteq entry'[r].pins
      /\ entry' \in [DOMAIN entry -> Entry]
  BY <1>1 DEF Entry
<1>3. StoreInv'
  BY <1>1, <1>2 DEF StoreInv, Fresh, Entries, DedupExact, Indexes, Key
<1> QED
  BY <1>2, <1>3 DEF Key

\* Nothing at all, or only the order of access, changes.
LEMMA StoreSameStep ==
  ASSUME StoreInv, UNCHANGED <<entry, dedup, minted>>
  PROVE  StoreInv' /\ PinsKept
BY DEF StoreInv, Fresh, Entries, DedupExact, Indexes, Key, PinsKept
-----------------------------------------------------------------------------
(* Totals over finite sets.  MapThenSumSet unfolds to a function that is     *)
(* defined by recursion over subsets; induction is by a smallest set for     *)
(* which a claim fails.                                                      *)

Pick(s) == CHOOSE x \in s : TRUE

\* g sums the weights w over every subset of S.
Sums(g, w, S) ==
  g = [s \in SUBSET S |-> IF s = {} THEN 0 ELSE w[Pick(s)] + g[s \ {Pick(s)}]]
Total(w, S) == (CHOOSE g : Sums(g, w, S))[S]

\* Induction over the subsets of a finite set, by a smallest counterexample.
LEMMA SmallestSet ==
  ASSUME NEW S, IsFiniteSet(S), NEW C \in SUBSET (SUBSET S), C # {}
  PROVE  \E A \in C : \A B \in C : B \subseteq A => B = A
<1>1. IsWellFoundedOn(StrictSubsetOrdering(S), SUBSET S)
  BY FS_StrictSubsetOrderingWellFounded, FS_FiniteSubsetsOfFinite
<1>2. PICK A \in C : \A B \in C : ~ (<<B, A>> \in StrictSubsetOrdering(S))
  BY <1>1, WFMin, Zenon
<1> QED
  BY <1>2 DEF StrictSubsetOrdering

\* The member picked is one of the set.
LEMMA PickIsMember ==
  ASSUME NEW s, s # {}
  PROVE  Pick(s) \in s
BY DEF Pick

\* Two such sums agree wherever both are defined.
LEMMA SumsAgree ==
  ASSUME NEW S, IsFiniteSet(S), NEW T, NEW g, NEW h, NEW w, NEW v, Sums(g, w, S), Sums(h, v, T),
         NEW A \in SUBSET S, A \subseteq T, \A x \in A : w[x] = v[x]
  PROVE  g[A] = h[A]
<1> DEFINE C == {B \in SUBSET A : g[B] # h[B]}
<1>1. CASE C = {}
  BY <1>1
<1>2. CASE C # {}
  <2>1. PICK B \in C : \A D \in C : D \subseteq B => D = B
    <3>1. C \in SUBSET (SUBSET S)
      OBVIOUS
    <3> HIDE DEF C
    <3> QED
      BY <1>2, <3>1, SmallestSet
  <2>2. B \subseteq A /\ g[B] # h[B]
    BY <2>1
  <2>3. g[B] = IF B = {} THEN 0 ELSE w[Pick(B)] + g[B \ {Pick(B)}]
    BY <2>2 DEF Sums
  <2>4. h[B] = IF B = {} THEN 0 ELSE v[Pick(B)] + h[B \ {Pick(B)}]
    BY <2>2 DEF Sums
  <2>5. B # {}
    BY <2>2, <2>3, <2>4
  <2>6. Pick(B) \in B
    BY <2>5, PickIsMember
  <2>7. g[B \ {Pick(B)}] = h[B \ {Pick(B)}]
    BY <2>1, <2>2, <2>6
  <2>8. w[Pick(B)] = v[Pick(B)]
    BY <2>2, <2>6
  <2> QED
    BY <2>2, <2>3, <2>4, <2>5, <2>7, <2>8
<1> QED
  BY <1>1, <1>2

\* For a finite set there is one.
LEMMA SumsExist ==
  ASSUME NEW S, IsFiniteSet(S), NEW w
  PROVE  \E g : Sums(g, w, S)
<1> DEFINE C == {A \in SUBSET S : ~ \E g : Sums(g, w, A)}
<1>1. CASE C = {}
  BY <1>1
<1>2. CASE C # {}
  <2>1. PICK A \in C : \A D \in C : D \subseteq A => D = A
    <3>1. C \in SUBSET (SUBSET S)
      OBVIOUS
    <3> HIDE DEF C
    <3> QED
      BY <1>2, <3>1, SmallestSet
  <2>2. A \in SUBSET S /\ ~ \E g : Sums(g, w, A)
    BY <2>1
  <2>3. \A D \in SUBSET A : D # A => \E g : Sums(g, w, D)
    BY <2>1, <2>2
  <2> HIDE DEF C
  <2> DEFINE fun(D) == CHOOSE g : Sums(g, w, D)
             val(D) == fun(D)[D]
             next(D) == IF D = {} THEN 0 ELSE w[Pick(D)] + val(D \ {Pick(D)})
  <2>4. \A D \in SUBSET A : D # A => Sums(fun(D), w, D)
    BY <2>3
  <2>5. ASSUME NEW D \in SUBSET A, D # A
        PROVE  val(D) = next(D)
    <3>1. Sums(fun(D), w, D)
      BY <2>4, <2>5
    <3>2. val(D) = IF D = {} THEN 0 ELSE w[Pick(D)] + fun(D)[D \ {Pick(D)}]
      BY <3>1 DEF Sums
    <3>3. CASE D = {}
      BY <3>2, <3>3
    <3>4. CASE D # {}
      <4>1. PICK E : E = D \ {Pick(D)}
        OBVIOUS
      <4>2. E \in SUBSET A /\ E # A /\ E \subseteq D
        BY <2>5, <4>1
      <4>3. Sums(fun(E), w, E)
        BY <2>4, <4>2
      <4>4. IsFiniteSet(D)
        BY <2>2, FS_Subset
      <4>5. fun(D)[E] = fun(E)[E]
        <5> HIDE DEF fun
        <5> QED
          BY <3>1, <4>2, <4>3, <4>4, SumsAgree
      <4> QED
        BY <3>2, <3>4, <4>1, <4>5
    <3> QED
      BY <3>3, <3>4
  <2> HIDE DEF val, fun
  <2> DEFINE g == [D \in SUBSET A |-> next(D)]
  <2>6. \A D \in SUBSET A : D # {} => D \ {Pick(D)} \in SUBSET A /\ D \ {Pick(D)} # A
    BY PickIsMember
  <2>7. \A D \in SUBSET A : D # {} => g[D \ {Pick(D)}] = val(D \ {Pick(D)})
    BY <2>5, <2>6
  <2>8. Sums(g, w, A)
    BY <2>7 DEF Sums
  <2> QED
    BY <2>2, <2>8
<1> QED
  BY <1>1, <1>2

\* A total is the member picked and the total of the others.
LEMMA TotalUnfolds ==
  ASSUME NEW S, IsFiniteSet(S), NEW w
  PROVE  /\ Total(w, {}) = 0
         /\ S # {} => Total(w, S) = w[Pick(S)] + Total(w, S \ {Pick(S)})
<1> DEFINE fun(D) == CHOOSE g : Sums(g, w, D)
<1>1. \A D \in SUBSET S : Sums(fun(D), w, D)
  BY SumsExist, FS_Subset
<1>2. Total(w, {}) = 0
  <2>1. Sums(fun({}), w, {})
    BY <1>1
  <2> QED
    BY <2>1 DEF Sums, Total
<1>3. ASSUME S # {} PROVE Total(w, S) = w[Pick(S)] + Total(w, S \ {Pick(S)})
  <2>1. PICK E : E = S \ {Pick(S)}
    OBVIOUS
  <2>2. Sums(fun(S), w, S) /\ Sums(fun(E), w, E) /\ E \in SUBSET S
    BY <1>1, <2>1
  <2>3. fun(S)[S] = w[Pick(S)] + fun(S)[E]
    BY <1>3, <2>1, <2>2 DEF Sums
  <2>4. fun(S)[E] = fun(E)[E]
    <3> HIDE DEF fun
    <3> QED
      BY <2>2, SumsAgree
  <2> QED
    BY <2>1, <2>3, <2>4 DEF Total
<1> QED
  BY <1>2, <1>3

\* Only the weights of its members matter to a total.
LEMMA TotalOfMembers ==
  ASSUME NEW S, IsFiniteSet(S), NEW w, NEW v, \A x \in S : w[x] = v[x]
  PROVE  Total(w, S) = Total(v, S)
<1>1. PICK g, h : g = (CHOOSE x : Sums(x, w, S)) /\ h = CHOOSE x : Sums(x, v, S)
  OBVIOUS
<1>2. Sums(g, w, S) /\ Sums(h, v, S)
  BY <1>1, SumsExist
<1>3. g[S] = h[S]
  BY <1>2, SumsAgree
<1> QED
  BY <1>1, <1>3 DEF Total

\* A total of numbers is a number.
LEMMA TotalIsNat ==
  ASSUME NEW S, IsFiniteSet(S), NEW w, \A x \in S : w[x] \in Nat
  PROVE  Total(w, S) \in Nat
<1> DEFINE C == {A \in SUBSET S : Total(w, A) \notin Nat}
<1>1. CASE C = {}
  BY <1>1
<1>2. CASE C # {}
  <2>1. PICK A \in C : \A D \in C : D \subseteq A => D = A
    <3>1. C \in SUBSET (SUBSET S)
      OBVIOUS
    <3> HIDE DEF C
    <3> QED
      BY <1>2, <3>1, SmallestSet
  <2>2. A \in SUBSET S /\ Total(w, A) \notin Nat /\ IsFiniteSet(A)
    BY <2>1, FS_Subset
  <2>3. A # {}
    BY <2>2, TotalUnfolds
  <2>4. Total(w, A) = w[Pick(A)] + Total(w, A \ {Pick(A)}) /\ Pick(A) \in A
    BY <2>2, <2>3, TotalUnfolds, PickIsMember
  <2>5. Total(w, A \ {Pick(A)}) \in Nat
    BY <2>1, <2>2, <2>4
  <2> QED
    BY <2>2, <2>4, <2>5
<1> QED
  BY <1>1, <1>2

\* Any member can be taken out.
LEMMA TotalTakes ==
  ASSUME NEW S, IsFiniteSet(S), NEW w, \A x \in S : w[x] \in Nat, NEW y \in S
  PROVE  Total(w, S) = w[y] + Total(w, S \ {y})
<1> DEFINE C == {A \in SUBSET S : \E x \in A : Total(w, A) # w[x] + Total(w, A \ {x})}
<1>1. CASE C = {}
  BY <1>1
<1>2. CASE C # {}
  <2>1. PICK A \in C : \A D \in C : D \subseteq A => D = A
    <3>1. C \in SUBSET (SUBSET S)
      OBVIOUS
    <3> HIDE DEF C
    <3> QED
      BY <1>2, <3>1, SmallestSet
  <2>2. A \in SUBSET S /\ IsFiniteSet(A)
    BY <2>1, FS_Subset
  <2>3. PICK x \in A : Total(w, A) # w[x] + Total(w, A \ {x})
    BY <2>1
  <2>4. PICK c \in A : c = Pick(A)
    BY <2>3, PickIsMember
  <2>5. Total(w, A) = w[c] + Total(w, A \ {c})
    BY <2>2, <2>4, TotalUnfolds
  <2>6. x # c
    BY <2>3, <2>5
  <2>7. Total(w, A \ {c}) = w[x] + Total(w, (A \ {c}) \ {x})
    <3>1. A \ {c} \in SUBSET S /\ A \ {c} # A /\ x \in A \ {c}
      BY <2>2, <2>6
    <3>2. A \ {c} \notin C
      BY <2>1, <3>1
    <3> QED
      BY <3>1, <3>2
  <2>8. Total(w, A \ {x}) = w[c] + Total(w, (A \ {x}) \ {c})
    <3>1. A \ {x} \in SUBSET S /\ A \ {x} # A /\ c \in A \ {x}
      BY <2>2, <2>6
    <3>2. A \ {x} \notin C
      BY <2>1, <3>1
    <3> QED
      BY <3>1, <3>2
  <2>9. (A \ {c}) \ {x} = (A \ {x}) \ {c} /\ (A \ {c}) \ {x} \in SUBSET S
    BY <2>2
  <2>10. w[x] \in Nat /\ w[c] \in Nat
    BY <2>2, <2>3, <2>4
  <2>11. Total(w, (A \ {c}) \ {x}) \in Nat
    <3>1. IsFiniteSet((A \ {c}) \ {x}) /\ \A z \in (A \ {c}) \ {x} : w[z] \in Nat
      BY <2>9, FS_Subset
    <3> QED
      BY <3>1, TotalIsNat
  <2> HIDE DEF C
  <2>12. PICK t \in Nat : t = Total(w, (A \ {c}) \ {x})
    BY <2>11
  <2>13. Total(w, A) = w[c] + (w[x] + t) /\ Total(w, A \ {x}) = w[c] + t
    BY <2>5, <2>7, <2>8, <2>9, <2>12
  <2> QED
    BY <2>3, <2>10, <2>13
<1> QED
  BY <1>1, <1>2

\* Totals of disjoint sets add up.
LEMMA TotalAdds ==
  ASSUME NEW S, IsFiniteSet(S), NEW T, IsFiniteSet(T), S \cap T = {}, NEW w, \A x \in S \cup T : w[x] \in Nat
  PROVE  Total(w, S \cup T) = Total(w, S) + Total(w, T)
<1> DEFINE C == {A \in SUBSET S : Total(w, A \cup T) # Total(w, A) + Total(w, T)}
<1>1. CASE C = {}
  BY <1>1
<1>2. CASE C # {}
  <2>1. PICK A \in C : \A D \in C : D \subseteq A => D = A
    <3>1. C \in SUBSET (SUBSET S)
      OBVIOUS
    <3> HIDE DEF C
    <3> QED
      BY <1>2, <3>1, SmallestSet
  <2>2. /\ A \in SUBSET S /\ IsFiniteSet(A) /\ IsFiniteSet(A \cup T)
        /\ Total(w, A \cup T) # Total(w, A) + Total(w, T)
    BY <2>1, FS_Subset, FS_Union
  <2>3. Total(w, T) \in Nat /\ Total(w, {}) = 0
    BY TotalIsNat, TotalUnfolds
  <2>4. A # {}
    BY <2>2, <2>3
  <2>5. PICK x \in A : TRUE
    BY <2>4
  <2>11. (\A z \in A : w[z] \in Nat) /\ (\A z \in A \cup T : w[z] \in Nat) /\ x \in A \cup T
    BY <2>2
  <2>6. Total(w, A) = w[x] + Total(w, A \ {x})
    BY <2>2, <2>11, TotalTakes
  <2>7. Total(w, A \cup T) = w[x] + Total(w, (A \cup T) \ {x})
    BY <2>2, <2>11, TotalTakes
  <2>8. (A \cup T) \ {x} = (A \ {x}) \cup T /\ A \ {x} \in SUBSET S /\ A \ {x} # A
    BY <2>2
  <2>9. Total(w, (A \ {x}) \cup T) = Total(w, A \ {x}) + Total(w, T)
    BY <2>1, <2>5, <2>8
  <2>10. w[x] \in Nat /\ Total(w, A \ {x}) \in Nat
    <3>1. IsFiniteSet(A \ {x}) /\ \A z \in A \ {x} : w[z] \in Nat
      BY <2>2, FS_Subset
    <3> QED
      BY <2>2, <3>1, TotalIsNat
  <2> HIDE DEF C
  <2>12. PICK t, rest, n \in Nat : t = Total(w, T) /\ rest = Total(w, A \ {x}) /\ n = w[x]
    BY <2>3, <2>10
  <2>13. Total(w, A \cup T) = n + (rest + t)
    BY <2>7, <2>8, <2>9, <2>12
  <2>14. Total(w, A) = n + rest
    BY <2>6, <2>12
  <2> QED
    BY <2>2, <2>12, <2>13, <2>14
<1> QED
  BY <1>1, <1>2

\* Part of a set weighs no more than all of it.
LEMMA TotalGrows ==
  ASSUME NEW S, IsFiniteSet(S), NEW T \in SUBSET S, NEW w, \A x \in S : w[x] \in Nat
  PROVE  /\ Total(w, S \ T) = Total(w, S) - Total(w, T)
         /\ Total(w, T) <= Total(w, S)
         /\ Total(w, T) \in Nat /\ Total(w, S) \in Nat /\ Total(w, S \ T) \in Nat
<1>1. IsFiniteSet(T) /\ IsFiniteSet(S \ T) /\ S = T \cup (S \ T) /\ T \cap (S \ T) = {}
  BY FS_Subset
<1>2. (\A x \in T : w[x] \in Nat) /\ (\A x \in S \ T : w[x] \in Nat)
  OBVIOUS
<1>3. Total(w, T) \in Nat /\ Total(w, S) \in Nat /\ Total(w, S \ T) \in Nat
  BY <1>1, <1>2, TotalIsNat
<1>4. Total(w, S) = Total(w, T) + Total(w, S \ T)
  <2>1. \A x \in T \cup (S \ T) : w[x] \in Nat
    OBVIOUS
  <2>2. Total(w, T \cup (S \ T)) = Total(w, T) + Total(w, S \ T)
    BY <1>1, <2>1, TotalAdds
  <2> QED
    BY <1>1, <2>2
<1> QED
  BY <1>3, <1>4

\* What the model sums are such totals.
LEMMA WeightIsTotal ==
  ASSUME NEW R, NEW e
  PROVE  Weight(R, e) = Total([r \in R |-> Size[e[r].blob]], R)
BY DEF Weight, MapThenSumSet, MapThenFoldSet, Total, Sums, Pick

\* The bytes of cleared buckets are such a total too.
LEMMA ClearedIsTotal ==
  ASSUME NEW cleared, NEW w, w = bytes
  PROVE  ClearedBytes(cleared) = Total([t \in cleared |-> w[t]], cleared)
BY DEF ClearedBytes, MapThenSumSet, MapThenFoldSet, Total, Sums, Pick

\* Entries whose blobs have sizes.
Weighed(R, e) == IsFiniteSet(R) /\ \A r \in R : e[r].blob \in Blob

\* The weight of entries depends on their blobs; parts of them add up.
LEMMA WeightOfBlobs ==
  ASSUME NEW R, NEW e, NEW f, Weighed(R, e), \A r \in R : f[r].blob = e[r].blob
  PROVE  Weight(R, f) = Weight(R, e)
<1>1. \A r \in R : [x \in R |-> Size[f[x].blob]][r] = [x \in R |-> Size[e[x].blob]][r]
  OBVIOUS
<1> QED
  BY <1>1, WeightIsTotal, TotalOfMembers DEF Weighed

\* What is left of some entries weighs the difference.
LEMMA WeightOfParts ==
  ASSUME NEW R, NEW e, Weighed(R, e), NEW Q \in SUBSET R
  PROVE  /\ Weight(R \ Q, e) = Weight(R, e) - Weight(Q, e)
         /\ Weight(Q, e) <= Weight(R, e)
         /\ Weight(Q, e) \in Nat /\ Weight(R, e) \in Nat
<1> DEFINE w == [r \in R |-> Size[e[r].blob]]
<1>1. IsFiniteSet(R) /\ IsFiniteSet(Q) /\ IsFiniteSet(R \ Q)
  BY FS_Subset DEF Weighed
<1>2. \A r \in R : w[r] \in Nat
  BY StoreAssumption DEF Weighed
<1>3. ASSUME NEW A \in SUBSET R PROVE Weight(A, e) = Total(w, A)
  <2>1. \A r \in A : [x \in A |-> Size[e[x].blob]][r] = w[r]
    OBVIOUS
  <2>2. IsFiniteSet(A)
    BY <1>1, FS_Subset
  <2> HIDE DEF w
  <2> QED
    BY <2>1, <2>2, WeightIsTotal, TotalOfMembers
<1>4. Weight(R, e) = Total(w, R) /\ Weight(Q, e) = Total(w, Q) /\ Weight(R \ Q, e) = Total(w, R \ Q)
  BY <1>3
<1> HIDE DEF w
<1> QED
  BY <1>1, <1>2, <1>4, TotalGrows

\* One entry weighs its blob's size, none nothing.
LEMMA WeightOfOne ==
  ASSUME NEW r, NEW e, e[r].blob \in Blob
  PROVE  Weight({r}, e) = Size[e[r].blob]
<1> DEFINE w == [x \in {r} |-> Size[e[x].blob]]
<1>1. IsFiniteSet({r}) /\ \A x \in {r} : w[x] \in Nat
  BY FS_Singleton, StoreAssumption
<1>2. {r} \ {r} = {} /\ w[r] = Size[e[r].blob] /\ w[r] \in Nat
  BY <1>1
<1>3. Weight({r}, e) = Total(w, {r})
  BY WeightIsTotal
<1> HIDE DEF w
<1>4. Total(w, {r}) = w[r] + Total(w, {r} \ {r}) /\ Total(w, {}) = 0
  BY <1>1, TotalTakes, TotalUnfolds
<1> QED
  BY <1>2, <1>3, <1>4

\* No entries weigh nothing.
LEMMA WeightOfNone ==
  ASSUME NEW e
  PROVE  Weight({}, e) = 0
<1>1. Weight({}, e) = Total([r \in {} |-> Size[e[r].blob]], {})
  BY WeightIsTotal
<1>2. IsFiniteSet({})
  BY FS_EmptySet
<1> QED
  BY <1>1, <1>2, TotalUnfolds

\* When no bucket is cleared, no bytes go.
LEMMA NothingCleared == ClearedBytes({}) = 0
<1>1. PICK b : b = bytes
  OBVIOUS
<1>2. ClearedBytes({}) = Total([x \in {} |-> b[x]], {})
  BY <1>1, ClearedIsTotal
<1> QED
  BY <1>2, FS_EmptySet, TotalUnfolds

\* A bucket that is cleared takes its bytes off.
LEMMA ClearedOfOne ==
  ASSUME NEW t, bytes[t] \in Nat
  PROVE  ClearedBytes({t}) = bytes[t]
<1>1. PICK b : b = bytes
  OBVIOUS
<1> DEFINE w == [x \in {t} |-> b[x]]
<1>2. ClearedBytes({t}) = Total(w, {t})
  BY <1>1, ClearedIsTotal
<1>3. /\ IsFiniteSet({t}) /\ (\A x \in {t} : w[x] \in Nat) /\ t \in {t}
      /\ {t} \ {t} = {} /\ w[t] = b[t] /\ b[t] \in Nat /\ IsFiniteSet({})
  BY <1>1, FS_Singleton, FS_EmptySet
<1> HIDE DEF w
<1>4. Total(w, {t}) = w[t] + Total(w, {t} \ {t})
  BY <1>3, TotalTakes
<1>5. Total(w, {}) = 0
  BY <1>3, TotalUnfolds
<1> QED
  BY <1>1, <1>2, <1>3, <1>4, <1>5

\* Eviction drops every victim there is, or the excess at least.
LEMMA EvictedCovers ==
  ASSUME NEW V, NEW e, Weighed(V, e), NEW order, NEW x \in Int,
         \A p, q, r \in V : <<p, q>> \in order /\ <<q, r>> \in order => <<p, r>> \in order,
         \A p \in V : <<p, p>> \notin order
  PROVE  Evicted(V, order, e, x) = V \/ Weight(Evicted(V, order, e, x), e) >= x
<1> DEFINE out == Evicted(V, order, e, x)
           C == {OlderAmong(order, V, r) : r \in V \ out}
<1>1. CASE C = {}
  <2>1. V \ out = {}
    BY <1>1
  <2> QED
    BY <2>1 DEF Evicted
<1>2. CASE C # {}
  <2>1. PICK A \in C : \A B \in C : B \subseteq A => B = A
    <3>1. C \in SUBSET (SUBSET V)
      BY DEF OlderAmong
    <3> HIDE DEF C
    <3> QED
      BY <1>2, <3>1, SmallestSet DEF Weighed
  <2>2. PICK r \in V \ out : A = OlderAmong(order, V, r)
    BY <2>1
  <2>3. A \subseteq out
    <3> SUFFICES ASSUME NEW y \in A, y \notin out PROVE FALSE
      OBVIOUS
    <3>1. y \in V /\ <<y, r>> \in order
      BY <2>2 DEF OlderAmong
    <3>2. OlderAmong(order, V, y) \subseteq A
      BY <2>2, <3>1 DEF OlderAmong
    <3>3. OlderAmong(order, V, y) \in C
      BY <3>1
    <3>4. OlderAmong(order, V, y) = A
      BY <2>1, <3>2, <3>3
    <3> QED
      BY <3>1, <3>4 DEF OlderAmong
  <2>4. out \in SUBSET V /\ A \in SUBSET out /\ IsFiniteSet(out)
    BY <2>3, FS_Subset DEF Evicted, Weighed
  <2>5. ~ (Weight(A, e) < x)
    BY <2>2 DEF Evicted
  <2>6. Weighed(out, e)
    BY <2>4 DEF Weighed
  <2>7. Weight(A, e) <= Weight(out, e) /\ Weight(A, e) \in Nat /\ Weight(out, e) \in Nat
    <3> HIDE DEF out
    <3> QED
      BY <2>4, <2>6, WeightOfParts
  <2> QED
    BY <2>5, <2>7
<1> QED
  BY <1>1, <1>2
-----------------------------------------------------------------------------
(* The books of the store: counters, caps and the order of accesses.         *)

Booked ==
  /\ DOMAIN bytes \subseteq Session /\ IsFiniteSet(DOMAIN bytes)
  /\ minted \in 0..MaxRefs
  /\ IsAccessOrder(older, DOMAIN entry)
  /\ TotalsExact
  /\ WithinCaps

\* The live entries are finitely many, and their blobs have sizes.
LEMMA LiveWeighed ==
  ASSUME StoreInv
  PROVE  /\ IsFiniteSet(DOMAIN entry)
         /\ \A R \in SUBSET DOMAIN entry : Weighed(R, entry)
<1>1. IsFiniteSet(DOMAIN entry)
  <2>1. IsFiniteSet(1..minted)
    BY FS_Interval DEF StoreInv, Fresh
  <2> QED
    BY <2>1, FS_Subset DEF StoreInv, Fresh
<1>2. \A r \in DOMAIN entry : entry[r].blob \in Blob
  BY DEF StoreInv, Entries, Entry
<1> QED
  BY <1>1, <1>2, FS_Subset DEF Weighed

\* A bucket holds what its entries weigh, which is a number.
LEMMA BucketsWeigh ==
  ASSUME StoreInv, Booked
  PROVE  /\ \A t \in DOMAIN bytes : bytes[t] \in Nat /\ bytes[t] = Weight(RefsOf(t), entry)
         /\ totalBytes \in Nat
<1>1. \A t \in DOMAIN bytes : RefsOf(t) \in SUBSET DOMAIN entry
  BY DEF RefsOf
<1>2. \A R \in SUBSET DOMAIN entry : Weight(R, entry) \in Nat
  <2> SUFFICES ASSUME NEW R \in SUBSET DOMAIN entry PROVE Weight(R, entry) \in Nat
    OBVIOUS
  <2> QED
    BY LiveWeighed, WeightOfParts
<1> QED
  BY <1>1, <1>2 DEF Booked, TotalsExact

\* Orders of accesses: fewer entries, and one that is accessed after all others.
LEMMA OrderOfSome ==
  ASSUME NEW order, NEW R, IsAccessOrder(order, R), NEW Q \in SUBSET R
  PROVE  IsAccessOrder(Among(order, Q), Q)
BY DEF IsAccessOrder, Among

\* A new access comes after all others.
LEMMA OrderWithLatest ==
  ASSUME NEW order, NEW R, IsAccessOrder(order, R), NEW r, r \notin R
  PROVE  IsAccessOrder(order \cup Latest(R \cup {r}, r), R \cup {r})
<1> DEFINE all == order \cup Latest(R \cup {r}, r)
<1>1. Latest(R \cup {r}, r) = R \X {r}
  BY DEF Latest
<1>2. \A x, y : <<x, y>> \in all <=> <<x, y>> \in order \/ (x \in R /\ y = r)
  BY <1>1
<1>3. all \subseteq (R \cup {r}) \X (R \cup {r})
  BY <1>1 DEF IsAccessOrder
<1>4. \A x, y : <<x, y>> \in order => x \in R /\ y \in R
  BY DEF IsAccessOrder
<1> HIDE DEF all
<1>5. \A x, y \in R \cup {r} : x # y => (<<x, y>> \in all <=> <<y, x>> \notin all)
  BY <1>2, <1>4 DEF IsAccessOrder
<1>6. \A x \in R \cup {r} : <<x, x>> \notin all
  BY <1>2, <1>4 DEF IsAccessOrder
<1>7. \A x, y, z \in R \cup {r} : <<x, y>> \in all /\ <<y, z>> \in all => <<x, z>> \in all
  BY <1>2, <1>4 DEF IsAccessOrder
<1> QED
  BY <1>3, <1>5, <1>6, <1>7 DEF IsAccessOrder, all

\* The books once they have changed, in terms of what they are then.
LEMMA BooksAre ==
  ASSUME DOMAIN bytes' \subseteq Session, IsFiniteSet(DOMAIN bytes'), minted' \in 0..MaxRefs,
         IsAccessOrder(older', DOMAIN entry'),
         \A r \in DOMAIN entry' : entry'[r].session \in DOMAIN bytes',
         \A t \in DOMAIN bytes' :
           /\ bytes'[t] = Weight({r \in DOMAIN entry' : entry'[r].session = t}, entry')
           /\ bytes'[t] <= MaxBytes,
         totalBytes' = Weight(DOMAIN entry', entry'), totalBytes' <= MaxTotal,
         Cardinality(DOMAIN bytes') <= MaxSessions
  PROVE  Booked'
BY DEF Booked, TotalsExact, WithinCaps, RefsOf

\* Touching, pinning and unpinning leave the books as they are.
LEMMA SameBooks ==
  ASSUME StoreInv, Booked, DOMAIN entry' = DOMAIN entry,
         \A r \in DOMAIN entry : entry'[r].session = entry[r].session /\ entry'[r].blob = entry[r].blob,
         UNCHANGED <<bytes, totalBytes, minted>>,
         IsAccessOrder(older', DOMAIN entry)
  PROVE  Booked'
<1>1. ASSUME NEW R \in SUBSET DOMAIN entry PROVE Weight(R, entry') = Weight(R, entry)
  <2>1. PICK f : f = entry'
    OBVIOUS
  <2>2. Weight(R, f) = Weight(R, entry)
    BY <2>1, LiveWeighed, WeightOfBlobs
  <2> QED
    BY <2>1, <2>2
<1>2. \A t : {r \in DOMAIN entry' : entry'[r].session = t} = RefsOf(t) /\ RefsOf(t) \in SUBSET DOMAIN entry
  BY DEF RefsOf
<1>3. \A t \in DOMAIN bytes' : bytes'[t] = Weight({r \in DOMAIN entry' : entry'[r].session = t}, entry')
  BY <1>1, <1>2 DEF Booked, TotalsExact
<1>4. totalBytes' = Weight(DOMAIN entry', entry')
  BY <1>1 DEF Booked, TotalsExact
<1>5. \A r \in DOMAIN entry' : entry'[r].session \in DOMAIN bytes'
  BY DEF Booked, TotalsExact
<1> QED
  BY <1>3, <1>4, <1>5, BooksAre DEF Booked, WithinCaps

\* A touch makes its entry the latest and leaves the counters.
LEMMA TouchBooks ==
  ASSUME StoreInv, Booked, NEW r, NEW pins \in SUBSET RequestId, Touch(r, pins)
  PROVE  Booked'
<1>1. r \in DOMAIN entry /\ entry' = [entry EXCEPT ![r].pins = @ \cup pins]
      /\ older' = Touched(r) /\ UNCHANGED <<bytes, totalBytes, minted>>
  BY DEF Touch
<1>2. entry \in [DOMAIN entry -> Entry]
  BY DEF StoreInv, Entries
<1>3. /\ DOMAIN entry' = DOMAIN entry
      /\ \A x \in DOMAIN entry : entry'[x].session = entry[x].session /\ entry'[x].blob = entry[x].blob
  BY <1>1, <1>2 DEF Entry
<1>4. IsAccessOrder(older', DOMAIN entry)
  <2>1. IsAccessOrder(Among(older, DOMAIN entry \ {r}), DOMAIN entry \ {r})
    BY OrderOfSome DEF Booked
  <2>2. (DOMAIN entry \ {r}) \cup {r} = DOMAIN entry
    BY <1>1
  <2>3. IsAccessOrder(Among(older, DOMAIN entry \ {r}) \cup Latest(DOMAIN entry, r), DOMAIN entry)
    BY <2>1, <2>2, OrderWithLatest
  <2> QED
    BY <1>1, <2>3 DEF Touched
<1> QED
  BY <1>1, <1>3, <1>4, SameBooks

\* Pins are not in the books.
LEMMA PinBooks ==
  ASSUME StoreInv, Booked, NEW s, NEW R, NEW id \in RequestId, Pin(s, R, id) \/ Unpin(s, R, id)
  PROVE  Booked'
<1>1. /\ entry \in [DOMAIN entry -> Entry] /\ UNCHANGED <<older, bytes, totalBytes, minted>>
      /\ DOMAIN entry' = DOMAIN entry
      /\ \A x \in DOMAIN entry : entry'[x].session = entry[x].session /\ entry'[x].blob = entry[x].blob
  BY DEF Pin, Unpin, StoreInv, Entries, Entry
<1> QED
  BY <1>1, SameBooks DEF Booked

\* The sweep takes off what the entries it drops weigh.
LEMMA ExpiredBooks ==
  ASSUME StoreInv, Booked, NEW n, EvictExpired(n)
  PROVE  Booked'
<1> DEFINE
      old == Victims(DOMAIN entry, entry)
      gone == {r \in old : Cardinality(OlderAmong(older, old, r)) < n}
      live == DOMAIN entry \ gone
<1>1. /\ gone \in SUBSET DOMAIN entry
      /\ entry' = [r \in live |-> entry[r]]
      /\ older' = Among(older, live)
      /\ bytes' = [t \in {entry[r].session : r \in live} |-> bytes[t] - Weight(gone \cap RefsOf(t), entry)]
      /\ totalBytes' = totalBytes - Weight(gone, entry)
      /\ minted' = minted
  <2>1. gone \in SUBSET DOMAIN entry
    BY DEF Victims
  <2> QED
    BY <2>1 DEF EvictExpired
<1> HIDE DEF old, gone
<1>2. DOMAIN entry' = live /\ \A r \in live : entry'[r] = entry[r]
  BY <1>1
<1>3. ASSUME NEW R \in SUBSET live PROVE Weight(R, entry') = Weight(R, entry)
  <2>1. PICK f : f = entry'
    OBVIOUS
  <2>2. Weighed(R, entry) /\ \A r \in R : f[r].blob = entry[r].blob
    BY <1>2, <2>1, LiveWeighed
  <2>3. Weight(R, f) = Weight(R, entry)
    BY <2>2, WeightOfBlobs
  <2> QED
    BY <2>1, <2>3
<1>4. ASSUME NEW t \in DOMAIN bytes'
      PROVE  /\ t \in DOMAIN bytes
             /\ bytes'[t] = Weight({r \in DOMAIN entry' : entry'[r].session = t}, entry')
             /\ bytes'[t] <= bytes[t] /\ bytes[t] \in Nat
  <2>1. t \in DOMAIN bytes /\ bytes'[t] = bytes[t] - Weight(gone \cap RefsOf(t), entry)
    BY <1>1, <1>4 DEF Booked, TotalsExact
  <2>2. Weighed(RefsOf(t), entry) /\ gone \cap RefsOf(t) \in SUBSET RefsOf(t)
    BY LiveWeighed DEF RefsOf
  <2>3. {r \in DOMAIN entry' : entry'[r].session = t} = RefsOf(t) \ (gone \cap RefsOf(t))
    BY <1>2 DEF RefsOf
  <2>4. RefsOf(t) \ (gone \cap RefsOf(t)) \in SUBSET live
    BY DEF RefsOf
  <2>5. /\ Weight(RefsOf(t) \ (gone \cap RefsOf(t)), entry) = Weight(RefsOf(t), entry) - Weight(gone \cap RefsOf(t), entry)
        /\ Weight(gone \cap RefsOf(t), entry) \in Nat
    BY <2>2, WeightOfParts
  <2>6. bytes[t] \in Nat /\ bytes[t] = Weight(RefsOf(t), entry)
    BY <2>1, BucketsWeigh
  <2>7. Weight({r \in DOMAIN entry' : entry'[r].session = t}, entry')
          = Weight(RefsOf(t) \ (gone \cap RefsOf(t)), entry)
    BY <1>3, <2>3, <2>4
  <2>8. PICK part, all \in Nat :
          part = Weight(gone \cap RefsOf(t), entry) /\ all = Weight(RefsOf(t), entry)
    BY <2>5, <2>6
  <2> QED
    BY <2>1, <2>5, <2>6, <2>7, <2>8
<1>5. totalBytes' = Weight(DOMAIN entry', entry') /\ totalBytes' <= totalBytes
  <2>1. /\ Weight(live, entry) = Weight(DOMAIN entry, entry) - Weight(gone, entry)
        /\ Weight(gone, entry) \in Nat /\ Weight(DOMAIN entry, entry) \in Nat
    BY <1>1, LiveWeighed, WeightOfParts
  <2>2. totalBytes = Weight(DOMAIN entry, entry)
    BY DEF Booked, TotalsExact
  <2>3. Weight(DOMAIN entry', entry') = Weight(live, entry)
    BY <1>2, <1>3
  <2>4. totalBytes' = totalBytes - Weight(gone, entry)
    BY <1>1
  <2> QED
    BY ONLY <2>1, <2>2, <2>3, <2>4
<1>6. IsFiniteSet(DOMAIN bytes') /\ Cardinality(DOMAIN bytes') <= Cardinality(DOMAIN bytes)
      /\ Cardinality(DOMAIN bytes) \in Nat /\ Cardinality(DOMAIN bytes') \in Nat
  <2>1. DOMAIN bytes' \subseteq DOMAIN bytes /\ IsFiniteSet(DOMAIN bytes)
    BY <1>4 DEF Booked
  <2> QED
    BY <2>1, FS_Subset, FS_CardinalityType
<1>7. \A r \in DOMAIN entry' : entry'[r].session \in DOMAIN bytes'
  BY <1>1, <1>2
<1>8. IsAccessOrder(older', DOMAIN entry')
  BY <1>1, <1>2, OrderOfSome DEF Booked
<1>9. DOMAIN bytes' \subseteq Session
  BY <1>4 DEF Booked
<1>10. \A t \in DOMAIN bytes' : bytes'[t] <= MaxBytes
  <2> SUFFICES ASSUME NEW t \in DOMAIN bytes' PROVE bytes'[t] <= MaxBytes
    OBVIOUS
  <2>1. bytes'[t] <= bytes[t] /\ bytes[t] \in Nat /\ bytes[t] <= MaxBytes
    BY <1>4 DEF Booked, WithinCaps
  <2>2. bytes'[t] = Weight({r \in DOMAIN entry' : entry'[r].session = t}, entry')
    BY <1>4
  <2>3. bytes'[t] \in Int
    <3>1. Weight(gone \cap RefsOf(t), entry) \in Nat
      BY LiveWeighed, WeightOfParts DEF RefsOf
    <3> QED
      BY <1>1, <2>1, <3>1
  <2> QED
    BY <2>1, <2>3, StoreAssumption
<1>11. totalBytes' <= MaxTotal /\ minted' \in 0..MaxRefs /\ Cardinality(DOMAIN bytes') <= MaxSessions
  <2>1. totalBytes' \in Int /\ totalBytes \in Nat
    <3>1. Weight(gone, entry) \in Nat
      BY <1>1, LiveWeighed, WeightOfParts
    <3> QED
      BY <1>1, <3>1, BucketsWeigh
  <2> QED
    BY <1>1, <1>5, <1>6, <2>1, StoreAssumption DEF Booked, WithinCaps
<1> QED
  BY <1>4, <1>5, <1>6, <1>7, <1>8, <1>9, <1>10, <1>11, BooksAre

\* The session that makes room has a bucket and nothing pinned, is not the one
\* that needs room, and with it gone there is room.
LEMMA RoomIsMade ==
  ASSUME StoreInv, Booked, NEW s \in Session, NEW cleared \in Rooms(s)
  PROVE  /\ s \notin cleared /\ cleared \subseteq DOMAIN bytes
         /\ ClearedBytes(cleared) = Weight(DOMAIN entry \ Spared(cleared), entry)
         /\ IsFiniteSet((DOMAIN bytes \ cleared) \cup {s})
         /\ Cardinality((DOMAIN bytes \ cleared) \cup {s}) \in Nat
         /\ Cardinality((DOMAIN bytes \ cleared) \cup {s}) <= MaxSessions
<1> DEFINE left == DOMAIN bytes \ cleared
<1>1. IsFiniteSet(DOMAIN bytes) /\ Cardinality(DOMAIN bytes) \in Nat
      /\ Cardinality(DOMAIN bytes) <= MaxSessions
  BY FS_CardinalityType DEF Booked, WithinCaps
<1>2. IsFiniteSet(left) /\ IsFiniteSet(left \cup {s})
  BY <1>1, FS_Subset, FS_AddElement
<1>3. /\ Cardinality(left) \in Nat /\ Cardinality(left \cup {s}) \in Nat
      /\ s \in left => Cardinality(left \cup {s}) = Cardinality(left)
      /\ s \notin left => Cardinality(left \cup {s}) = Cardinality(left) + 1
  BY <1>2, FS_CardinalityType, FS_AddElement
<1>4. CASE cleared = {}
  <2>1. DOMAIN entry \ Spared(cleared) = {} /\ left = DOMAIN bytes
    BY <1>4 DEF Spared
  <2>2. ClearedBytes(cleared) = 0
    BY <1>4, NothingCleared
  <2>3. Cardinality(left \cup {s}) <= MaxSessions
    <3>1. CASE Full(s)
      BY <1>4, <3>1 DEF Rooms
    <3>2. CASE ~Full(s)
      BY <1>1, <1>3, <2>1, <3>2, StoreAssumption DEF Full
    <3> QED
      BY <3>1, <3>2
  <2> QED
    BY <1>2, <1>3, <1>4, <2>1, <2>2, <2>3, WeightOfNone
<1>5. CASE cleared # {}
  <2>1. PICK t \in DOMAIN bytes : cleared = {t} /\ s \notin DOMAIN bytes
    BY <1>5 DEF Rooms, MakesRoom, Full
  <2>2. DOMAIN entry \ Spared(cleared) = RefsOf(t)
    BY <2>1 DEF Spared, RefsOf
  <2>3. ClearedBytes({t}) = bytes[t] /\ bytes[t] = Weight(RefsOf(t), entry)
    BY <2>1, BucketsWeigh, ClearedOfOne
  <2>4. Cardinality(left) = Cardinality(DOMAIN bytes) - 1
    BY <1>1, <2>1, FS_RemoveElement
  <2>5. Cardinality(left \cup {s}) <= MaxSessions
    BY ONLY <1>1, <1>3, <2>1, <2>4, StoreAssumption
  <2> QED
    BY <1>2, <1>3, <2>1, <2>2, <2>3, <2>5
<1> QED
  BY <1>4, <1>5

\* With the new entry in, the entries can still be weighed.
LEMMA EnteredWeighed ==
  ASSUME StoreInv, NEW s \in Session, NEW b \in Blob, NEW pins, NEW cleared,
         NEW e, e = Entered(s, b, pins, cleared)
  PROVE  Weighed(DOMAIN e, e)
<1>1. minted + 1 \notin DOMAIN entry /\ Spared(cleared) \subseteq DOMAIN entry
  BY DEF StoreInv, Fresh, Spared
<1>2. /\ DOMAIN e = Spared(cleared) \cup {minted + 1}
      /\ e[minted + 1].blob = b
      /\ \A r \in Spared(cleared) : e[r] = entry[r]
  BY <1>1 DEF Entered, Made
<1>3. IsFiniteSet(DOMAIN e)
  BY <1>1, <1>2, LiveWeighed, FS_Subset, FS_AddElement
<1>4. \A r \in DOMAIN e : e[r].blob \in Blob
  BY <1>1, <1>2 DEF StoreInv, Entries, Entry
<1> QED
  BY <1>3, <1>4 DEF Weighed

\* One entry more weighs what its blob does.
LEMMA WeightOfMore ==
  ASSUME NEW R, NEW e, NEW x, x \notin R, Weighed(R \cup {x}, e)
  PROVE  /\ Weight(R \cup {x}, e) = Weight(R, e) + Size[e[x].blob]
         /\ Weight(R, e) \in Nat /\ Size[e[x].blob] \in Nat
<1>1. (R \cup {x}) \ {x} = R /\ {x} \in SUBSET (R \cup {x}) /\ e[x].blob \in Blob
  BY DEF Weighed
<1>2. /\ Weight((R \cup {x}) \ {x}, e) = Weight(R \cup {x}, e) - Weight({x}, e)
      /\ Weight(R \cup {x}, e) \in Nat
  BY <1>1, WeightOfParts
<1>3. Weight(R, e) \in Nat
  <2>1. R \in SUBSET (R \cup {x})
    OBVIOUS
  <2> QED
    BY <2>1, WeightOfParts
<1>4. Weight({x}, e) = Size[e[x].blob] /\ Size[e[x].blob] \in Nat
  BY <1>1, WeightOfOne, StoreAssumption
<1>5. PICK n \in Nat : n = Weight(R \cup {x}, e)
  BY <1>2
<1>6. PICK m, k \in Nat : m = Weight(R, e) /\ k = Weight({x}, e) /\ k = Size[e[x].blob]
  BY <1>3, <1>4
<1>7. m = n - k
  BY <1>1, <1>2, <1>5, <1>6
<1> QED
  BY <1>5, <1>6, <1>7

\* Before anything is evicted the books are exact, the caps apart.
LEMMA EnteredWeighs ==
  ASSUME StoreInv, Booked, NEW s \in Session, NEW b \in Blob, NEW cleared \in Rooms(s),
         NEW e, e = Entered(s, b, {}, cleared)
  PROVE  /\ Weight(DOMAIN e, e) = totalBytes - ClearedBytes(cleared) + Size[b]
         /\ Weight(Spared(cleared), e) <= totalBytes
         /\ \A t \in (DOMAIN bytes \ cleared) \cup {s} :
              Weight({r \in DOMAIN e : e[r].session = t}, e)
                = (IF t \in DOMAIN bytes THEN bytes[t] ELSE 0) + (IF t = s THEN Size[b] ELSE 0)
         /\ \A r \in DOMAIN e : e[r].session \in (DOMAIN bytes \ cleared) \cup {s}
         /\ Weight(RefsOf(s), e) <= MaxBytes
<1> DEFINE
      new == minted + 1
      stay == Spared(cleared)
<1>1. /\ new \notin DOMAIN entry /\ stay \subseteq DOMAIN entry
      /\ DOMAIN e = stay \cup {new} /\ e[new] = Made(s, b, {})
      /\ \A r \in stay : e[r] = entry[r]
      /\ Weighed(DOMAIN e, e)
  <2>1. new \notin DOMAIN entry /\ stay \subseteq DOMAIN entry
    BY DEF StoreInv, Fresh, Spared
  <2>2. /\ DOMAIN e = stay \cup {new} /\ e[new] = Made(s, b, {})
        /\ \A r \in stay : e[r] = entry[r]
    BY <2>1 DEF Entered
  <2> QED
    BY <2>1, <2>2, EnteredWeighed
<1>2. /\ s \notin cleared /\ cleared \subseteq DOMAIN bytes
      /\ ClearedBytes(cleared) = Weight(DOMAIN entry \ stay, entry)
  BY RoomIsMade
<1>3. new \notin stay /\ e[new].session = s /\ e[new].blob = b
  BY <1>1 DEF Made
<1>4. \A r \in stay : entry[r].session \notin cleared
  BY DEF Spared
<1> HIDE DEF new, stay
<1>5. ASSUME NEW R \in SUBSET stay PROVE Weight(R, e) = Weight(R, entry) /\ Weight(R, entry) \in Nat
  <2>1. Weighed(R, entry) /\ \A r \in R : e[r].blob = entry[r].blob
    BY <1>1, LiveWeighed
  <2>2. R \in SUBSET R
    OBVIOUS
  <2> QED
    BY <2>1, <2>2, WeightOfBlobs, WeightOfParts
<1>6. ASSUME NEW R \in SUBSET stay PROVE Weight(R \cup {new}, e) = Weight(R, entry) + Size[b]
  <2>1. new \notin R /\ R \cup {new} \in SUBSET DOMAIN e
    BY <1>1, <1>3
  <2>2. Weighed(R \cup {new}, e)
    <3>1. IsFiniteSet(DOMAIN e) /\ \A r \in DOMAIN e : e[r].blob \in Blob
      BY <1>1 DEF Weighed
    <3>2. IsFiniteSet(R \cup {new})
      BY <2>1, <3>1, FS_Subset
    <3> QED
      BY <2>1, <3>1, <3>2 DEF Weighed
  <2>3. Weight(R \cup {new}, e) = Weight(R, e) + Size[e[new].blob]
    <3>1. PICK x : x = new
      OBVIOUS
    <3>2. x \notin R /\ Weighed(R \cup {x}, e)
      BY <2>1, <2>2, <3>1
    <3>3. Weight(R \cup {x}, e) = Weight(R, e) + Size[e[x].blob]
      BY ONLY <3>2, WeightOfMore
    <3> QED
      BY <3>1, <3>3
  <2>4. Weight(R, e) = Weight(R, entry)
    BY <1>5
  <2> QED
    BY <1>3, <2>3, <2>4
<1>7. /\ Weight(stay, entry) = totalBytes - ClearedBytes(cleared)
      /\ Weight(stay, entry) <= totalBytes
  <2>1. DOMAIN entry \ stay \in SUBSET DOMAIN entry /\ DOMAIN entry \ (DOMAIN entry \ stay) = stay
    BY <1>1
  <2>2. /\ Weight(DOMAIN entry \ (DOMAIN entry \ stay), entry)
             = Weight(DOMAIN entry, entry) - Weight(DOMAIN entry \ stay, entry)
        /\ Weight(DOMAIN entry \ stay, entry) \in Nat /\ Weight(DOMAIN entry, entry) \in Nat
    BY <2>1, LiveWeighed, WeightOfParts
  <2>3. totalBytes = Weight(DOMAIN entry, entry)
    BY DEF Booked, TotalsExact
  <2>4. PICK whole, gone \in Nat : whole = Weight(DOMAIN entry, entry) /\ gone = Weight(DOMAIN entry \ stay, entry)
    BY <2>2
  <2>5. Weight(stay, entry) = whole - gone
    BY <2>1, <2>2, <2>4
  <2> QED
    BY ONLY <1>2, <2>3, <2>4, <2>5
<1>8. ASSUME NEW t \in (DOMAIN bytes \ cleared) \cup {s}
      PROVE  Weight({r \in DOMAIN e : e[r].session = t}, e)
               = (IF t \in DOMAIN bytes THEN bytes[t] ELSE 0) + (IF t = s THEN Size[b] ELSE 0)
  <2>1. t \notin cleared
    BY <1>2
  <2>2. RefsOf(t) \in SUBSET stay
    BY <2>1 DEF RefsOf, stay, Spared
  <2>3. Weight(RefsOf(t), entry) = IF t \in DOMAIN bytes THEN bytes[t] ELSE 0
    <3>1. CASE t \in DOMAIN bytes
      BY <3>1, BucketsWeigh
    <3>2. CASE t \notin DOMAIN bytes
      <4>1. RefsOf(t) = {}
        BY <3>2 DEF RefsOf, Booked, TotalsExact
      <4> QED
        BY <3>2, <4>1, WeightOfNone
    <3> QED
      BY <3>1, <3>2
  <2>4. CASE t = s
    <3>1. {r \in DOMAIN e : e[r].session = t} = RefsOf(t) \cup {new}
      BY <1>1, <1>3, <2>2, <2>4 DEF RefsOf
    <3>2. Weight(RefsOf(t) \cup {new}, e) = Weight(RefsOf(t), entry) + Size[b]
      BY <1>6, <2>2
    <3> QED
      BY <2>3, <2>4, <3>1, <3>2
  <2>5. CASE t # s
    <3>1. {r \in DOMAIN e : e[r].session = t} = RefsOf(t)
      BY <1>1, <1>3, <2>2, <2>5 DEF RefsOf
    <3>2. Weight(RefsOf(t), e) = Weight(RefsOf(t), entry) /\ Weight(RefsOf(t), entry) \in Nat
      BY <1>5, <2>2
    <3>3. PICK n \in Nat : n = Weight(RefsOf(t), entry)
      BY <3>2
    <3>4. n = (IF t \in DOMAIN bytes THEN bytes[t] ELSE 0) + (IF t = s THEN Size[b] ELSE 0)
      BY <2>3, <2>5, <3>3
    <3> QED
      BY <3>1, <3>2, <3>3, <3>4
  <2> QED
    BY <2>4, <2>5
<1>9. \A r \in DOMAIN e : e[r].session \in (DOMAIN bytes \ cleared) \cup {s}
  BY <1>1, <1>3, <1>4 DEF Booked, TotalsExact
<1>10. Weight(DOMAIN e, e) = totalBytes - ClearedBytes(cleared) + Size[b]
  BY <1>1, <1>6, <1>7
<1>11. Weight(stay, e) <= totalBytes
  BY <1>5, <1>7
<1>12. Weight(RefsOf(s), e) <= MaxBytes
  <2>1. RefsOf(s) \in SUBSET stay
    BY <1>2 DEF RefsOf, stay, Spared
  <2>2. CASE s \in DOMAIN bytes
    BY <1>5, <2>1, <2>2, BucketsWeigh DEF Booked, WithinCaps
  <2>3. CASE s \notin DOMAIN bytes
    <3>1. RefsOf(s) = {}
      BY <2>3 DEF RefsOf, Booked, TotalsExact
    <3> QED
      BY <3>1, WeightOfNone, StoreAssumption
  <2> QED
    BY <2>2, <2>3
<1> QED
  BY <1>8, <1>9, <1>10, <1>11, <1>12 DEF stay

\* Eviction brings what is left within the cap if all that is not among some
\* entries within it may go.
LEMMA EvictionLeaves ==
  ASSUME NEW R, NEW e, Weighed(R, e), NEW cap \in Nat,
         NEW order, NEW Q, R \subseteq Q, IsAccessOrder(order, Q),
         NEW P, P \subseteq R, Weight(P, e) <= cap, \A r \in R \ P : e[r].pins = {},
         NEW gone, gone = Evicted(Victims(R, e), order, e, Weight(R, e) - cap)
  PROVE  gone \subseteq Victims(R, e) /\ Weight(R \ gone, e) <= cap
<1>1. PICK V : V = Victims(R, e)
  OBVIOUS
<1>2. V \subseteq R /\ \A r \in R \ V : r \in P
  BY <1>1 DEF Victims
<1>3. gone \subseteq V
  BY <1>1 DEF Evicted
<1>4. Weighed(V, e)
  BY <1>2, FS_Subset DEF Weighed
<1>5. PICK whole, taken, kept \in Nat :
        /\ whole = Weight(R, e) /\ taken = Weight(gone, e) /\ kept = Weight(R \ gone, e)
        /\ kept = whole - taken
  <2>1. gone \in SUBSET R /\ R \ gone \in SUBSET R
    BY <1>2, <1>3
  <2> QED
    BY <2>1, WeightOfParts
<1>6. PICK x \in Int : x = whole - cap
  OBVIOUS
<1>7. gone = Evicted(V, order, e, x)
  BY <1>1, <1>5, <1>6
<1>8. /\ \A p, q, r \in V : <<p, q>> \in order /\ <<q, r>> \in order => <<p, r>> \in order
      /\ \A p \in V : <<p, p>> \notin order
  BY <1>2 DEF IsAccessOrder
<1>9. gone = V \/ Weight(gone, e) >= x
  BY <1>4, <1>7, <1>8, EvictedCovers
<1>10. CASE gone = V
  <2>1. R \ gone \subseteq P /\ Weighed(P, e)
    BY <1>2, <1>10, FS_Subset DEF Weighed
  <2>2. Weight(R \ gone, e) <= Weight(P, e) /\ Weight(P, e) \in Nat
    BY <2>1, WeightOfParts
  <2>3. PICK some \in Nat : some = Weight(P, e)
    BY <2>2
  <2>4. kept <= some /\ some <= cap
    BY <1>5, <2>2, <2>3
  <2>5. kept <= cap
    BY ONLY <2>4, some \in Nat, kept \in Nat, cap \in Nat
  <2> QED
    BY <1>1, <1>3, <1>5, <2>5
<1>11. CASE Weight(gone, e) >= x
  <2>1. taken >= x
    BY <1>5, <1>11
  <2>2. kept <= cap
    BY ONLY <1>5, <1>6, <2>1, kept \in Nat, taken \in Nat, whole \in Nat, x \in Int, cap \in Nat
  <2> QED
    BY <1>1, <1>3, <1>5, <2>2
<1> QED
  BY <1>9, <1>10, <1>11

\* A store() of new content keeps the books: what it adds and what it drops is
\* added and taken off everywhere, and eviction ends within the caps.
LEMMA StoreNewBooks ==
  ASSUME StoreInv, Booked, NEW s \in Session, NEW b \in Blob, NEW pins, StoreNew(s, b, pins)
  PROVE  Booked'
<1> DEFINE new == minted + 1
<1>1. PICK cleared \in Rooms(s) : \E e, order, size, sum, gone1, gone2 :
        StoresWith(s, b, pins, cleared, e, order, size, sum, gone1, gone2)
  BY StoreNewWorks
<1>2. PICK e, order, size, sum, gone1, gone2 :
        StoresWith(s, b, pins, cleared, e, order, size, sum, gone1, gone2)
  BY <1>1
<1> DEFINE
      stay == Spared(cleared)
      all == DOMAIN e
      of(t) == {r \in all : e[r].session = t}
      gone == gone1 \cup gone2
<1>3. /\ new \notin DOMAIN entry /\ stay \subseteq DOMAIN entry
      /\ all = stay \cup {new} /\ e[new] = Made(s, b, {})
      /\ \A r \in stay : e[r] = entry[r]
  <2>1. new \notin DOMAIN entry /\ stay \subseteq DOMAIN entry
    BY DEF StoreInv, Fresh, Spared
  <2> QED
    BY <1>2, <2>1 DEF Entered, StoresWith
<1>4. /\ Weighed(all, e)
      /\ Weight(all, e) = sum /\ Weight(stay, e) <= totalBytes
      /\ \A t \in DOMAIN size : Weight(of(t), e) = size[t]
      /\ \A r \in all : e[r].session \in DOMAIN size
      /\ Weight(RefsOf(s), e) <= MaxBytes
      /\ DOMAIN size = (DOMAIN bytes \ cleared) \cup {s}
  <2>1. /\ Weight(all, e) = sum /\ Weight(stay, e) <= totalBytes
        /\ \A t \in (DOMAIN bytes \ cleared) \cup {s} :
             Weight(of(t), e) = (IF t \in DOMAIN bytes THEN bytes[t] ELSE 0) + (IF t = s THEN Size[b] ELSE 0)
        /\ \A r \in all : e[r].session \in (DOMAIN bytes \ cleared) \cup {s}
        /\ Weight(RefsOf(s), e) <= MaxBytes
    BY <1>2, EnteredWeighs DEF StoresWith
  <2>2. Weighed(all, e)
    BY <1>2, EnteredWeighed DEF StoresWith
  <2> QED
    BY <1>2, <2>1, <2>2 DEF StoresWith
<1>5. ASSUME NEW R \in SUBSET all
      PROVE  Weighed(R, e) /\ Weight(R, e) \in Nat /\ Weight(R, e) <= sum
  <2>1. Weighed(R, e)
    BY <1>4, FS_Subset DEF Weighed
  <2> QED
    BY <1>4, <2>1, WeightOfParts
<1>6. IsAccessOrder(order, all)
  <2>1. IsAccessOrder(Among(older, stay), stay)
    BY <1>3, OrderOfSome DEF Booked
  <2>2. new \notin stay
    BY <1>3
  <2> QED
    BY <1>2, <1>3, <2>1, <2>2, OrderWithLatest DEF StoresWith
<1>7. gone1 \subseteq of(s) /\ Weight(of(s) \ gone1, e) <= MaxBytes
  <2>1. PICK R : R = of(s)
    OBVIOUS
  <2>2. R \subseteq all /\ Weighed(R, e) /\ size[s] = Weight(R, e)
    BY <1>4, <1>5, <2>1
  <2>3. RefsOf(s) \subseteq R /\ \A r \in R \ RefsOf(s) : e[r].pins = {}
    <3>1. s \notin cleared
      BY RoomIsMade
    <3>2. RefsOf(s) \subseteq stay
      BY <3>1 DEF RefsOf, Spared
    <3>3. e[new].pins = {}
      BY <1>3 DEF Made
    <3> QED
      BY <1>3, <2>1, <3>2, <3>3 DEF RefsOf
  <2>4. gone1 = Evicted(Victims(R, e), order, e, Weight(R, e) - MaxBytes)
    BY <1>2, <2>1, <2>2 DEF OverSession, StoresWith
  <2>5. MaxBytes \in Nat
    BY StoreAssumption
  <2>6. gone1 \subseteq Victims(R, e) /\ Weight(R \ gone1, e) <= MaxBytes
    BY <1>4, <1>6, <2>2, <2>3, <2>4, <2>5, EvictionLeaves
  <2> QED
    BY <2>1, <2>6 DEF Victims
<1>8. gone2 \subseteq all \ gone1 /\ Weight(all \ gone, e) <= MaxTotal
  <2>1. PICK R : R = all \ gone1
    OBVIOUS
  <2>2. PICK P : P = stay \ gone1
    OBVIOUS
  <2>3. Weighed(R, e) /\ Weight(R, e) = sum - Weight(gone1, e)
    <3>1. gone1 \in SUBSET all /\ R \in SUBSET all
      BY <1>7, <2>1
    <3> QED
      BY <1>4, <1>5, <2>1, <3>1, WeightOfParts
  <2>4. P \subseteq R /\ \A r \in R \ P : e[r].pins = {}
    BY <1>3, <2>1, <2>2 DEF Made
  <2>5. Weight(P, e) <= MaxTotal
    <3>1. P \in SUBSET stay /\ stay \in SUBSET all
      BY <1>3, <2>2
    <3>2. Weighed(stay, e)
      BY <1>5, <3>1
    <3>3. Weight(P, e) <= Weight(stay, e) /\ Weight(P, e) \in Nat /\ Weight(stay, e) \in Nat
      BY <3>1, <3>2, WeightOfParts
    <3>4. totalBytes \in Nat /\ totalBytes <= MaxTotal
      BY BucketsWeigh DEF Booked, WithinCaps
    <3>5. Weight(stay, e) <= totalBytes
      BY <1>4
    <3> QED
      BY ONLY <3>3, <3>4, <3>5, StoreAssumption
  <2>6. gone2 = Evicted(Victims(R, e), order, e, Weight(R, e) - MaxTotal)
    BY <1>2, <2>1, <2>3 DEF OverTotal, StoresWith
  <2>7. MaxTotal \in Nat /\ R \subseteq all
    BY <2>1, StoreAssumption
  <2>8. gone2 \subseteq Victims(R, e) /\ Weight(R \ gone2, e) <= MaxTotal
    BY <1>6, <2>3, <2>4, <2>5, <2>6, <2>7, EvictionLeaves
  <2>9. R \ gone2 = all \ gone
    BY <2>1
  <2> QED
    BY <2>1, <2>8, <2>9 DEF Victims
<1>9. /\ DOMAIN entry' = all \ gone /\ minted' = new
      /\ \A r \in DOMAIN entry' : entry'[r].session = e[r].session /\ entry'[r].blob = e[r].blob
  <2>1. PICK f : f = Entered(s, b, pins, cleared)
    OBVIOUS
  <2>2. entry' = [r \in DOMAIN f \ gone |-> f[r]] /\ minted' = new
    BY <1>2, <2>1 DEF Insert, StoresWith
  <2>3. /\ DOMAIN f = all /\ f[new] = Made(s, b, pins)
        /\ \A r \in stay : f[r] = entry[r]
    BY <1>3, <2>1 DEF Entered
  <2> QED
    BY <1>3, <2>2, <2>3 DEF Made
<1>10. ASSUME NEW R \in SUBSET (all \ gone) PROVE Weight(R, entry') = Weight(R, e)
  <2>1. PICK f : f = entry'
    OBVIOUS
  <2>2. Weighed(R, e) /\ \A r \in R : f[r].blob = e[r].blob
    BY <1>5, <1>9, <2>1
  <2>3. Weight(R, f) = Weight(R, e)
    BY <2>2, WeightOfBlobs
  <2> QED
    BY <2>1, <2>3
<1>11. PICK homes :
         /\ homes = DOMAIN size \/ homes = {e[r].session : r \in all \ gone}
         /\ older' = Among(order, all \ gone)
         /\ bytes' = [t \in homes |-> size[t] - Weight({r \in gone : e[r].session = t}, e)]
         /\ totalBytes' = sum - Weight(gone1, e) - Weight(gone2, e)
  BY <1>2 DEF Settle, StoresWith
<1> HIDE DEF all
<1>12. /\ homes \subseteq DOMAIN size /\ DOMAIN bytes' = homes
       /\ \A r \in DOMAIN entry' : entry'[r].session \in homes
  BY <1>4, <1>9, <1>11
<1>13. totalBytes' = Weight(DOMAIN entry', entry') /\ totalBytes' <= MaxTotal
  <2>1. PICK rest : rest = all \ gone1
    OBVIOUS
  <2>2. gone1 \in SUBSET all /\ rest \in SUBSET all /\ gone2 \in SUBSET rest /\ rest \ gone2 = all \ gone
    BY <1>7, <1>8, <2>1 DEF all
  <2>3. /\ Weight(rest, e) = sum - Weight(gone1, e)
        /\ Weight(all \ gone, e) = Weight(rest, e) - Weight(gone2, e)
    <3>1. Weighed(rest, e) /\ Weight(all, e) = sum /\ Weighed(all, e)
      BY <1>4, <1>5, <2>2
    <3>2. Weight(all \ gone1, e) = Weight(all, e) - Weight(gone1, e)
      BY <2>2, <3>1, WeightOfParts
    <3>3. Weight(rest \ gone2, e) = Weight(rest, e) - Weight(gone2, e)
      BY <2>2, <3>1, WeightOfParts
    <3> QED
      BY <2>1, <2>2, <3>1, <3>2, <3>3
  <2>4. Weight(DOMAIN entry', entry') = Weight(all \ gone, e)
    BY <1>9, <1>10
  <2>5. totalBytes' = Weight(all \ gone, e)
    BY <1>11, <2>3
  <2> QED
    BY <1>8, <2>4, <2>5
<1>14. ASSUME NEW t \in homes
       PROVE  /\ bytes'[t] = Weight({r \in DOMAIN entry' : entry'[r].session = t}, entry')
              /\ bytes'[t] <= MaxBytes
  <2>1. PICK R, lost : R = of(t) /\ lost = {r \in gone : e[r].session = t}
    OBVIOUS
  <2>2. t \in DOMAIN size /\ Weight(R, e) = size[t] /\ R \in SUBSET all /\ lost \in SUBSET R
    BY <1>4, <1>7, <1>8, <1>12, <2>1 DEF all
  <2>3. Weighed(R, e) /\ Weight(R, e) \in Nat
    BY <1>5, <2>2
  <2>4. /\ Weight(R \ lost, e) = size[t] - Weight(lost, e)
        /\ Weight(lost, e) \in Nat
    BY <2>2, <2>3, WeightOfParts
  <2>5. bytes'[t] = size[t] - Weight(lost, e)
    BY <1>11, <2>1
  <2>6. {r \in DOMAIN entry' : entry'[r].session = t} = R \ lost /\ R \ lost \in SUBSET (all \ gone)
    BY <1>9, <2>1, <2>2
  <2>7. bytes'[t] = Weight(R \ lost, e)
    BY <2>4, <2>5
  <2>8. Weight(R \ lost, e) <= MaxBytes
    <3>1. CASE t = s
      <4>1. R \ lost \in SUBSET (R \ gone1) /\ R \ gone1 \in SUBSET all
        BY <1>7, <2>1, <2>2, <3>1
      <4>2. Weight(R \ lost, e) <= Weight(R \ gone1, e) /\ Weight(R \ lost, e) \in Nat /\ Weight(R \ gone1, e) \in Nat
        BY <1>5, <4>1, WeightOfParts
      <4>3. Weight(R \ gone1, e) <= MaxBytes
        BY <1>7, <2>1, <3>1
      <4> QED
        BY ONLY <4>2, <4>3, StoreAssumption
    <3>2. CASE t # s
      <4>1. size[t] = bytes[t] /\ bytes[t] \in Nat /\ bytes[t] <= MaxBytes
        <5>1. t \in DOMAIN bytes
          BY <1>4, <2>2, <3>2
        <5>2. bytes[t] \in Nat /\ bytes[t] <= MaxBytes
          BY <5>1, BucketsWeigh DEF Booked, WithinCaps
        <5> QED
          BY <1>2, <2>2, <3>2, <5>1, <5>2 DEF StoresWith
      <4>2. Weight(R \ lost, e) = bytes[t] - Weight(lost, e)
        BY <2>4, <4>1
      <4> QED
        BY ONLY <2>4, <4>1, <4>2, StoreAssumption
    <3> QED
      BY <3>1, <3>2
  <2>9. Weight(R \ lost, entry') = Weight(R \ lost, e)
    BY <1>10, <2>6
  <2> QED
    BY <2>6, <2>7, <2>8, <2>9
<1>15. /\ DOMAIN bytes' \subseteq Session /\ IsFiniteSet(DOMAIN bytes')
       /\ Cardinality(DOMAIN bytes') <= MaxSessions
  <2>1. /\ IsFiniteSet(DOMAIN size) /\ Cardinality(DOMAIN size) \in Nat
        /\ Cardinality(DOMAIN size) <= MaxSessions
    <3>1. /\ IsFiniteSet((DOMAIN bytes \ cleared) \cup {s})
          /\ Cardinality((DOMAIN bytes \ cleared) \cup {s}) \in Nat
          /\ Cardinality((DOMAIN bytes \ cleared) \cup {s}) <= MaxSessions
      BY RoomIsMade
    <3>2. DOMAIN size = (DOMAIN bytes \ cleared) \cup {s}
      BY <1>4
    <3> QED
      BY ONLY <3>1, <3>2
  <2>2. IsFiniteSet(homes) /\ Cardinality(homes) <= Cardinality(DOMAIN size) /\ Cardinality(homes) \in Nat
    BY <1>12, <2>1, FS_Subset, FS_CardinalityType
  <2>3. Cardinality(homes) <= MaxSessions
    BY ONLY <2>1, <2>2, StoreAssumption
  <2>4. DOMAIN size \subseteq Session
    BY <1>4 DEF Booked
  <2> QED
    BY <1>12, <2>2, <2>3, <2>4
<1>16. IsAccessOrder(older', DOMAIN entry')
  BY <1>6, <1>9, <1>11, OrderOfSome DEF all
<1>17. minted' \in 0..MaxRefs
  BY <1>9, StoreAssumption DEF Booked, StoreNew
<1> QED
  BY <1>12, <1>13, <1>14, <1>15, <1>16, <1>17, BooksAre

-----------------------------------------------------------------------------
(* The requests.                                                           *)

\* Every action but Close leaves the store exact and the pins as they are.
Opening(q) ==
  \/ Prepare(q) \/ Register(q) \/ PreparationEnds(q)
  \/ \E b \in Blob : Project(q, b) \/ Mint(q, b) \/ Reproject(q, b)
  \/ \E r \in Ref : Read(q, r) \/ Search(q, r)

LEMMA OpeningStep ==
  ASSUME IInv, NEW q \in Request, Opening(q)
  PROVE  StoreInv' /\ PinsKept
<1>0. StoreInv /\ SessionOf[q] \in Session /\ IdOf[q] \in RequestId
  BY OwnerAssumption DEF IInv
<1>1. CASE Prepare(q)
  BY <1>0, <1>1, StoreSameStep, EvictExpiredStep DEF Prepare, SweepSkipped, storeVars
<1>2. CASE Register(q)
  BY <1>0, <1>2, PinStep DEF Register
<1>3. CASE PreparationEnds(q)
  BY <1>0, <1>3, StoreSameStep DEF PreparationEnds, storeVars
<1>4. ASSUME NEW b \in Blob, Project(q, b) \/ Mint(q, b) \/ Reproject(q, b)
      PROVE  StoreInv' /\ PinsKept
  <2>1. \/ \E pins \in SUBSET RequestId : StoreHit(SessionOf[q], b, pins)
        \/ \E pins \in SUBSET RequestId : StoreNew(SessionOf[q], b, pins)
        \/ UNCHANGED storeVars
    BY <1>0, <1>4 DEF Project, Mint, Reproject, StoreRefused, Pins
  <2> QED
    BY <1>0, <2>1, StoreHitStep, StoreNewStep, StoreSameStep DEF storeVars
<1>5. ASSUME NEW r \in Ref, Read(q, r) \/ Search(q, r) PROVE StoreInv' /\ PinsKept
  <2>1. \E pins \in SUBSET RequestId : Touch(r, pins)
    BY <1>0, <1>5 DEF Read, Search, Pins
  <2> QED
    BY <1>0, <2>1, TouchStep
<1> QED
  BY <1>1, <1>2, <1>3, <1>4, <1>5, Zenon DEF Opening

\* A protected ref stays so while pins are kept.
LEMMA SafeKept ==
  ASSUME PinsKept, NEW q, NEW r, Safe(q, r)
  PROVE  Safe(q, r)'
BY DEF PinsKept, Safe, RefsOf, Key

\* A request registers nothing but what it has just found, or made, and
\* pinned; it touches no other request.
LEMMA NewlyRegistered ==
  ASSUME IInv, NEW q \in Request, Opening(q)
  PROVE  /\ Requests'
         /\ \A p \in Request \ {q} : registered'[p] = registered[p] /\ phase'[p] = phase[p]
         /\ phase'[q] = "running" =>
              \A r \in registered'[q] :
                (phase[q] = "running" /\ r \in registered[q]) \/ Safe(q, r)'
<1>0. StoreInv /\ Requests /\ SessionOf[q] \in Session /\ IdOf[q] \in RequestId
  BY OwnerAssumption DEF IInv
<1>1. CASE Prepare(q)
  BY <1>0, <1>1 DEF Prepare, Requests
<1>2. CASE PreparationEnds(q)
  BY <1>0, <1>2 DEF PreparationEnds, Over, Requests
<1>3. CASE Register(q)
  <2> DEFINE
        refs == projected[q]
        live(i) == refs[i] \in RefsOf(SessionOf[q])
        good == {i \in DOMAIN refs : live(i) /\ \A j \in 1..i-1 : live(j)}
        taken == {refs[i] : i \in good}
  <2>1. \/ Over(q)
        \/ \E R : /\ R \subseteq RefsOf(SessionOf[q])
                  /\ Pin(SessionOf[q], R, IdOf[q])
                  /\ phase' = [phase EXCEPT ![q] = "running"]
                  /\ registered' = [registered EXCEPT ![q] = R]
    <3>1. taken \subseteq RefsOf(SessionOf[q])
      OBVIOUS
    <3>2. /\ Pin(SessionOf[q], taken, IdOf[q])
          /\ \/ Over(q)
             \/ /\ phase' = [phase EXCEPT ![q] = "running"]
                /\ registered' = [registered EXCEPT ![q] = taken]
      BY <1>3 DEF Register
    <3> HIDE DEF taken
    <3> QED
      BY <3>1, <3>2
  <2>2. CASE Over(q)
    BY <1>0, <2>2 DEF Over, Requests
  <2>3. ASSUME NEW R, R \subseteq RefsOf(SessionOf[q]), Pin(SessionOf[q], R, IdOf[q]),
               phase' = [phase EXCEPT ![q] = "running"],
               registered' = [registered EXCEPT ![q] = R]
        PROVE  /\ Requests'
               /\ \A p \in Request \ {q} : registered'[p] = registered[p] /\ phase'[p] = phase[p]
               /\ \A r \in registered'[q] : Safe(q, r)'
    <3>1. R \subseteq Nat
      BY <1>0, <2>3 DEF RefsOf, StoreInv, Fresh
    <3>2. registered'[q] = R
      BY <1>0, <2>3 DEF Requests
    <3>3. \A r \in R : Safe(q, r)'
      BY <1>0, <2>3, PinStep DEF Safe, RefsOf
    <3> QED
      BY <1>0, <2>3, <3>1, <3>2, <3>3 DEF Requests
  <2> QED
    BY <2>1, <2>2, <2>3
<1>4. ASSUME NEW b \in Blob, Project(q, b) PROVE
        /\ Requests'
        /\ \A p \in Request \ {q} : registered'[p] = registered[p] /\ phase'[p] = phase[p]
        /\ phase'[q] # "running"
  BY <1>0, <1>4 DEF Project, Over, Requests
<1>5. ASSUME NEW b \in Blob, Mint(q, b) PROVE
        /\ Requests'
        /\ \A p \in Request \ {q} : registered'[p] = registered[p] /\ phase'[p] = phase[p]
        /\ \A r \in registered'[q] : (phase[q] = "running" /\ r \in registered[q]) \/ Safe(q, r)'
  <2> DEFINE
        s == SessionOf[q]
        new == IF Stored(s, b) /\ Size[b] <= MaxEntry THEN {Given(s, b)} ELSE {}
  <2>1. \A r \in new : r \in Nat /\ (r \in registered[q] \/ Safe(q, r)')
    <3> SUFFICES ASSUME NEW r, r = Given(s, b), Stored(s, b), Size[b] <= MaxEntry,
                        r \notin registered[q]
                 PROVE  Safe(q, r)'
      <4> SUFFICES ASSUME NEW r \in new PROVE r \in Nat
        OBVIOUS
      <4> QED
        BY <1>0, OpeningStep DEF Stored, Given, StoreInv, Fresh
    <3>1. s \in Session /\ {IdOf[q]} \in SUBSET RequestId /\ r \in DOMAIN entry' /\ StoreInv'
      BY <1>0, OpeningStep DEF Stored, Given
    <3>2. CASE Hit(s, b) /\ StoreHit(s, b, Pins(q, dedup[<<s, b>>]))
      <4>1. Pins(q, dedup[<<s, b>>]) \in SUBSET RequestId
        BY <3>1 DEF Pins
      <4>2. r = dedup[<<s, b>>]
        BY <1>0, <3>1, <3>2, <4>1, StoreHitStep DEF Given
      <4>3. Pins(q, r) = {IdOf[q]}
        BY DEF Pins
      <4> QED
        BY <1>0, <3>1, <3>2, <4>2, <4>3, StoreHitStep DEF Safe, RefsOf
    <3>3. CASE StoreNew(s, b, {IdOf[q]})
      <4>1. entry'[r] = Made(s, b, {IdOf[q]})
        BY <1>0, <3>1, <3>3, StoreNewStep
      <4> QED
        BY <3>1, <4>1 DEF Safe, RefsOf, Made
    <3>4. CASE StoreRefused(s, b)
      <4>1. ~Hit(s, b) /\ UNCHANGED <<entry, dedup>>
        BY <3>4, StoreAssumption DEF StoreRefused, storeVars
      <4> QED
        BY <1>0, <4>1, IndexedIsHit DEF Stored
    <3> QED
      BY <1>5, <3>2, <3>3, <3>4 DEF Mint
  <2>2. registered' = [registered EXCEPT ![q] = @ \cup new] /\ phase' = phase
    BY <1>5 DEF Mint
  <2>3. phase[q] = "running"
    BY <1>5 DEF Mint
  <2> HIDE DEF new
  <2> QED
    BY <1>0, <2>1, <2>2, <2>3 DEF Requests
<1>6. ASSUME NEW b \in Blob, Reproject(q, b) PROVE UNCHANGED <<registered, phase>>
  BY <1>6 DEF Reproject
<1>7. ASSUME NEW r \in Ref, Read(q, r) PROVE
        /\ Requests'
        /\ \A p \in Request \ {q} : registered'[p] = registered[p] /\ phase'[p] = phase[p]
        /\ \A x \in registered'[q] : (phase[q] = "running" /\ x \in registered[q]) \/ Safe(q, x)'
  <2>1. /\ phase[q] = "running" /\ phase' = phase /\ r \in Nat
        /\ registered' = [registered EXCEPT ![q] = @ \cup {r}]
        /\ entry[r].session = SessionOf[q] /\ Touch(r, Pins(q, r))
    BY <1>7 DEF Read, RefsOf, Ref
  <2>2. r \in registered[q] \/ Safe(q, r)'
    BY <1>0, <2>1, TouchStep DEF Pins, Safe, RefsOf
  <2> QED
    BY <1>0, <2>1, <2>2 DEF Requests
<1>8. ASSUME NEW r \in Ref, Search(q, r) PROVE UNCHANGED <<registered, phase>>
  BY <1>8 DEF Search
<1> QED
  BY <1>0, <1>1, <1>2, <1>3, <1>4, <1>5, <1>6, <1>7, <1>8 DEF Opening, Requests

\* The invariant holds before the first request.
LEMMA InitInvariant == Init => IInv /\ RegisteredSurvive
<1> SUFFICES ASSUME Init PROVE IInv /\ RegisteredSurvive
  OBVIOUS
<1>1. entry = <<>> /\ dedup = <<>> /\ minted = 0
  BY DEF Init, StoreInit
<1>2. DOMAIN entry = {} /\ entry \in [{} -> Entry] /\ DOMAIN dedup = {}
  BY <1>1
<1>3. StoreInv
  BY <1>1, <1>2 DEF StoreInv, Fresh, Entries, DedupExact, Indexes
<1> QED
  BY <1>3 DEF Init, IInv, Requests, RegisteredSurvive

\* Closing a request takes its own pins only.
LEMMA CloseStep ==
  ASSUME IInv, NEW q \in Request, Close(q)
  PROVE  /\ IInv' /\ DOMAIN entry' = DOMAIN entry
         /\ \A r \in DOMAIN entry : Key(entry'[r]) = Key(entry[r])
         /\ phase'[q] # "running"
         /\ \A p \in Request \ {q} : registered'[p] = registered[p] /\ phase'[p] = phase[p]
         /\ \A p, r : IdOf[p] # IdOf[q] /\ Safe(p, r) => Safe(p, r)'
<1>1. StoreInv /\ Requests /\ IdOf[q] \in RequestId
  BY OwnerAssumption DEF IInv
<1>2. Unpin(SessionOf[q], registered[q], IdOf[q]) /\ Over(q)
  BY DEF Close
<1>3. Requests' /\ phase'[q] = "over"
  BY <1>1, <1>2 DEF Over, Requests
<1>4. \A p, r : IdOf[p] # IdOf[q] /\ Safe(p, r) => Safe(p, r)'
  BY <1>1, <1>2, UnpinStep DEF Safe, RefsOf
<1>5. \A p \in Request \ {q} : registered'[p] = registered[p] /\ phase'[p] = phase[p]
  BY <1>1, <1>2 DEF Over, Requests
<1> QED
  BY <1>1, <1>2, <1>3, <1>4, <1>5, UnpinStep DEF IInv

LEMMA StepInvariant == IInv /\ [Next]_vars => IInv'
<1> SUFFICES ASSUME IInv, [Next]_vars PROVE IInv'
  OBVIOUS
<1>1. CASE UNCHANGED vars
  BY <1>1, StoreSameStep DEF IInv, Requests, vars, storeVars, requestVars
<1>2. ASSUME NEW q \in Request, Opening(q) PROVE IInv'
  BY <1>2, OpeningStep, NewlyRegistered DEF IInv
<1>3. ASSUME NEW q \in Request, Close(q) PROVE IInv'
  BY <1>3, CloseStep
<1> QED
  BY <1>1, <1>2, <1>3, Zenon DEF Next, Opening

LEMMA InvariantHolds == Spec => []IInv
<1>1. Init => IInv
  BY InitInvariant
<1>2. IInv /\ [Next]_vars => IInv'
  BY StepInvariant
<1> QED
  BY <1>1, <1>2, PTL DEF Spec

\* store(), eviction, clearing and expiry: the index holds the live entries
\* and nothing else, so a hit never gives back a dropped ref and a session
\* never holds the same content twice.
THEOREM IndexIsExact == Spec => []DedupExact
<1>1. IInv => DedupExact
  BY DEF IInv, StoreInv
<1> QED
  BY <1>1, InvariantHolds, PTL

LEMMA StepKeepsPinned ==
  ASSUME IInv, [Next]_vars, NEW r \in DOMAIN entry, entry[r].pins # {}
  PROVE  r \in DOMAIN entry' /\ Key(entry'[r]) = Key(entry[r])
<1>1. CASE UNCHANGED vars
  BY <1>1 DEF vars, storeVars, Key
<1>2. ASSUME NEW q \in Request, Opening(q)
      PROVE  r \in DOMAIN entry' /\ Key(entry'[r]) = Key(entry[r])
  BY <1>2, OpeningStep DEF PinsKept
<1>3. ASSUME NEW q \in Request, Close(q)
      PROVE  r \in DOMAIN entry' /\ Key(entry'[r]) = Key(entry[r])
  BY <1>3, CloseStep
<1> QED
  BY <1>1, <1>2, <1>3, Zenon DEF Next, Opening

\* pin_refs: "pin a ref to prevent eviction": no store(), sweep, session
\* eviction or unpin of anyone drops or replaces a pinned entry.
THEOREM PinnedEntriesStay == Spec => PinnedStay
<1>1. IInv /\ [Next]_vars => [KeepsPinned]_vars
  BY StepKeepsPinned DEF KeepsPinned
<1> QED
  BY <1>1, InvariantHolds, PTL DEF Spec, PinnedStay

LEMMA StepKeepsRegistered ==
  DistinctIds /\ IInv /\ RegisteredSurvive /\ [Next]_vars => RegisteredSurvive'
<1> SUFFICES ASSUME DistinctIds, IInv, RegisteredSurvive, [Next]_vars,
                    NEW p \in Request, phase'[p] = "running", NEW r \in registered'[p]
             PROVE  Safe(p, r)'
  BY DEF RegisteredSurvive, Safe
<1>1. phase[p] = "running" /\ r \in registered[p] => Safe(p, r)
  BY DEF RegisteredSurvive, Safe
<1>2. CASE UNCHANGED vars
  BY <1>1, <1>2 DEF vars, storeVars, requestVars, Safe, RefsOf
<1>3. ASSUME NEW q \in Request, Opening(q) PROVE Safe(p, r)'
  <2>1. (phase[p] = "running" /\ r \in registered[p]) \/ Safe(p, r)'
    BY <1>3, NewlyRegistered
  <2>2. PinsKept
    BY <1>3, OpeningStep
  <2> QED
    BY <1>1, <2>1, <2>2, SafeKept
<1>4. ASSUME NEW q \in Request, Close(q) PROVE Safe(p, r)'
  <2>1. p # q
    BY <1>4, CloseStep
  <2>2. IdOf[p] # IdOf[q]
    BY <2>1 DEF DistinctIds
  <2> QED
    BY <1>1, <1>4, <2>1, <2>2, CloseStep
<1> QED
  BY <1>2, <1>3, <1>4, Zenon DEF Next, Opening

\* RequestRefRegistry: while a request runs, each ref it registered is live
\* in its session and pinned by it, whatever other requests store or evict.
\* Assumed: no two requests carry the same id.
THEOREM RegisteredRefsSurvive == DistinctIds => (Spec => []RegisteredSurvive)
<1> SUFFICES ASSUME DistinctIds PROVE Spec => []RegisteredSurvive
  OBVIOUS
<1>1. Init => RegisteredSurvive
  BY InitInvariant
<1>2. IInv /\ RegisteredSurvive /\ [Next]_vars => RegisteredSurvive'
  BY StepKeepsRegistered
<1> QED
  BY <1>1, <1>2, InvariantHolds, PTL DEF Spec
-----------------------------------------------------------------------------
(* The store's books and the types, whoever steps.                         *)

\* No action of a request but Close, which only unpins, disturbs the books.
LEMMA OpeningBooks ==
  ASSUME IInv, Booked, NEW q \in Request, Opening(q)
  PROVE  Booked'
<1>0. StoreInv /\ SessionOf[q] \in Session /\ IdOf[q] \in RequestId
  BY OwnerAssumption DEF IInv
<1>1. CASE UNCHANGED storeVars
  BY <1>1 DEF storeVars, Booked, TotalsExact, WithinCaps, RefsOf
<1>2. CASE Prepare(q)
  BY <1>0, <1>1, <1>2, ExpiredBooks DEF Prepare, SweepSkipped
<1>3. CASE Register(q)
  BY <1>0, <1>3, PinBooks DEF Register
<1>4. CASE PreparationEnds(q)
  BY <1>1, <1>4 DEF PreparationEnds
<1>5. ASSUME NEW b \in Blob, Project(q, b) \/ Mint(q, b) \/ Reproject(q, b) PROVE Booked'
  <2>1. \/ \E pins \in SUBSET RequestId : StoreHit(SessionOf[q], b, pins)
        \/ \E pins \in SUBSET RequestId : StoreNew(SessionOf[q], b, pins)
        \/ UNCHANGED storeVars
    BY <1>0, <1>5 DEF Project, Mint, Reproject, StoreRefused, Pins
  <2>2. ASSUME NEW pins \in SUBSET RequestId, StoreHit(SessionOf[q], b, pins) PROVE Booked'
    BY <1>0, <2>2, TouchBooks DEF StoreHit
  <2>3. ASSUME NEW pins \in SUBSET RequestId, StoreNew(SessionOf[q], b, pins) PROVE Booked'
    BY <1>0, <2>3, StoreNewBooks
  <2> QED
    BY <1>1, <2>1, <2>2, <2>3
<1>6. ASSUME NEW r \in Ref, Read(q, r) \/ Search(q, r) PROVE Booked'
  <2>1. \E pins \in SUBSET RequestId : Touch(r, pins)
    BY <1>0, <1>6 DEF Read, Search, Pins
  <2> QED
    BY <1>0, <2>1, TouchBooks
<1> QED
  BY <1>2, <1>3, <1>4, <1>5, <1>6, Zenon DEF Opening

LEMMA StepBooks == IInv /\ Booked /\ [Next]_vars => Booked'
<1> SUFFICES ASSUME IInv, Booked, [Next]_vars PROVE Booked'
  OBVIOUS
<1>1. CASE UNCHANGED vars
  BY <1>1 DEF vars, storeVars, Booked, TotalsExact, WithinCaps, RefsOf
<1>2. ASSUME NEW q \in Request, Opening(q) PROVE Booked'
  BY <1>2, OpeningBooks
<1>3. ASSUME NEW q \in Request, Close(q) PROVE Booked'
  BY <1>3, PinBooks, OwnerAssumption DEF Close, IInv
<1> QED
  BY <1>1, <1>2, <1>3, Zenon DEF Next, Opening

LEMMA InitBooks == Init => Booked
<1> SUFFICES ASSUME Init PROVE Booked
  OBVIOUS
<1>1. entry = <<>> /\ older = {} /\ bytes = <<>> /\ totalBytes = 0 /\ minted = 0
  BY DEF Init, StoreInit
<1>2. DOMAIN entry = {} /\ DOMAIN bytes = {}
  BY <1>1
<1>3. Weight(DOMAIN entry, entry) = 0 /\ IsFiniteSet({}) /\ Cardinality({}) = 0
  BY <1>2, WeightOfNone, FS_EmptySet
<1>4. IsAccessOrder(older, DOMAIN entry)
  BY <1>1, <1>2 DEF IsAccessOrder
<1> QED
  BY <1>1, <1>2, <1>3, <1>4, StoreAssumption DEF Booked, TotalsExact, WithinCaps

LEMMA BooksAreKept == Spec => [](IInv /\ Booked)
<1>1. IInv /\ Booked /\ [Next]_vars => (IInv /\ Booked)'
  BY StepInvariant, StepBooks
<1>2. Init => IInv /\ Booked
  BY InitInvariant, InitBooks
<1> QED
  BY <1>1, <1>2, PTL DEF Spec

\* store.py keeps total_bytes of every session and _total_bytes by hand, at
\* each place that adds or drops entries: they are always what the live
\* entries weigh, and every live entry is in a bucket.
THEOREM CountersAreExact == Spec => []TotalsExact
<1>1. Booked => TotalsExact
  BY DEF Booked
<1> QED
  BY <1>1, BooksAreKept, PTL

\* max_bytes_per_session, max_total_bytes and max_sessions hold whenever the
\* lock is free, whatever is pinned: eviction cannot fail to make room, since
\* the entry that came last is not pinned yet.
THEOREM CapsHold == Spec => []WithinCaps
<1>1. Booked => WithinCaps
  BY DEF Booked
<1> QED
  BY <1>1, BooksAreKept, PTL

\* The refs the requests hold are refs of the store.
Holdings ==
  /\ projected \in [Request -> Seq(Ref)]
  /\ registered \in [Request -> SUBSET Ref]
  /\ shown \in [Request -> SUBSET Ref]

LEMMA LiveAreRefs == StoreInv /\ Booked => DOMAIN entry \subseteq Ref
BY StoreAssumption DEF StoreInv, Fresh, Booked, Ref

\* What a store() gives back is a ref.
LEMMA StoredIsRef ==
  ASSUME StoreInv', Booked', NEW s, NEW b, Stored(s, b)
  PROVE  Given(s, b) \in Ref
<1>1. DOMAIN entry' \subseteq Ref
  BY StoreAssumption DEF StoreInv, Fresh, Booked, Ref
<1> QED
  BY <1>1 DEF Stored, Given

\* A request that is over holds nothing.
LEMMA OverHoldings ==
  ASSUME Holdings, NEW q \in Request, Over(q)
  PROVE  Holdings'
<1>1. projected' \in [Request -> Seq(Ref)]
  <2>1. <<>> \in Seq(Ref)
    OBVIOUS
  <2> QED
    BY <2>1 DEF Over, Holdings
<1>2. registered' \in [Request -> SUBSET Ref] /\ shown' \in [Request -> SUBSET Ref]
  BY DEF Over, Holdings
<1> QED
  BY <1>1, <1>2 DEF Holdings

LEMMA OpeningHoldings ==
  ASSUME IInv, Booked, Holdings, NEW q \in Request, Opening(q)
  PROVE  Holdings'
<1>0. StoreInv' /\ Booked'
  BY OpeningStep, OpeningBooks
<1>1. CASE Prepare(q) \/ PreparationEnds(q)
  <2>1. UNCHANGED <<projected, registered, shown>> \/ Over(q)
    BY <1>1 DEF Prepare, PreparationEnds
  <2> QED
    BY <2>1, OverHoldings DEF Holdings
<1>2. CASE Register(q)
  <2> DEFINE
        refs == projected[q]
        live(i) == refs[i] \in RefsOf(SessionOf[q])
        good == {i \in DOMAIN refs : live(i) /\ \A j \in 1..i-1 : live(j)}
        taken == {refs[i] : i \in good}
  <2>1. taken \subseteq Ref
    BY LiveAreRefs DEF RefsOf, IInv
  <2>2. \/ Over(q)
        \/ /\ registered' = [registered EXCEPT ![q] = taken]
           /\ shown' = [shown EXCEPT ![q] = taken]
           /\ UNCHANGED projected
    BY <1>2 DEF Register
  <2> HIDE DEF taken
  <2>3. CASE Over(q)
    BY <2>3, OverHoldings
  <2>4. CASE ~Over(q)
    BY <2>1, <2>2, <2>4 DEF Holdings
  <2> QED
    BY <2>3, <2>4
<1>3. ASSUME NEW b \in Blob, Project(q, b) PROVE Holdings'
  <2> DEFINE r == Given(SessionOf[q], b)
  <2>1. CASE Over(q)
    BY <2>1, OverHoldings
  <2>2. CASE Stored(SessionOf[q], b) /\ UNCHANGED <<registered, shown>>
             /\ projected' = [projected EXCEPT ![q] = IF r \in Range(@) THEN @ ELSE Append(@, r)]
    <3>1. r \in Ref
      BY <1>0, <2>2, StoredIsRef
    <3>2. projected[q] \in Seq(Ref)
      BY DEF Holdings
    <3> HIDE DEF r
    <3>3. Append(projected[q], r) \in Seq(Ref)
      BY <3>1, <3>2
    <3>4. projected' \in [Request -> Seq(Ref)]
      BY <2>2, <3>2, <3>3 DEF Holdings
    <3> QED
      BY <2>2, <3>4 DEF Holdings
  <2> QED
    BY <1>3, <2>1, <2>2 DEF Project
<1>4. ASSUME NEW b \in Blob, Mint(q, b) PROVE Holdings'
  <2>1. PICK new : /\ new = IF Stored(SessionOf[q], b) /\ Size[b] <= MaxEntry
                              THEN {Given(SessionOf[q], b)} ELSE {}
                   /\ registered' = [registered EXCEPT ![q] = @ \cup new]
                   /\ shown' = [shown EXCEPT ![q] = @ \cup new]
                   /\ projected' = projected
    BY <1>4 DEF Mint
  <2>2. new \subseteq Ref
    BY <1>0, <2>1, StoredIsRef
  <2> QED
    BY <2>1, <2>2 DEF Holdings
<1>5. ASSUME NEW b \in Blob, Reproject(q, b) PROVE Holdings'
  <2>1. /\ shown' = [shown EXCEPT ![q] =
                       IF Stored(SessionOf[q], b) THEN @ \cup {Given(SessionOf[q], b)} ELSE @]
        /\ UNCHANGED <<projected, registered>>
    BY <1>5 DEF Reproject
  <2>2. CASE Stored(SessionOf[q], b)
    <3>1. Given(SessionOf[q], b) \in Ref
      BY <1>0, <2>2, StoredIsRef
    <3> QED
      BY <2>1, <2>2, <3>1 DEF Holdings
  <2>3. CASE ~Stored(SessionOf[q], b)
    BY <2>1, <2>3 DEF Holdings
  <2> QED
    BY <2>2, <2>3
<1>6. ASSUME NEW r \in Ref, Read(q, r) \/ Search(q, r) PROVE Holdings'
  BY <1>6 DEF Read, Search, Holdings
<1> QED
  BY <1>1, <1>2, <1>3, <1>4, <1>5, <1>6, Zenon DEF Opening

LEMMA StepHoldings == IInv /\ Booked /\ Holdings /\ [Next]_vars => Holdings'
<1> SUFFICES ASSUME IInv, Booked, Holdings, [Next]_vars PROVE Holdings'
  OBVIOUS
<1>1. CASE UNCHANGED vars
  BY <1>1 DEF vars, requestVars, Holdings
<1>2. ASSUME NEW q \in Request, Opening(q) PROVE Holdings'
  BY <1>2, OpeningHoldings
<1>3. ASSUME NEW q \in Request, Close(q) PROVE Holdings'
  BY <1>3, OverHoldings DEF Close
<1> QED
  BY <1>1, <1>2, <1>3, Zenon DEF Next, Opening

LEMMA BooksAreTyped == IInv /\ Booked /\ Holdings => TypeOK
<1> SUFFICES ASSUME IInv, Booked, Holdings PROVE TypeOK
  OBVIOUS
<1>1. DOMAIN entry \subseteq Ref /\ \A r \in DOMAIN entry : entry[r] \in Entry
  BY LiveAreRefs DEF IInv, StoreInv, Entries
<1>2. /\ DOMAIN bytes \subseteq Session /\ \A s \in DOMAIN bytes : bytes[s] \in Nat
      /\ totalBytes \in Nat
  BY BucketsWeigh DEF IInv, Booked
<1>3. DOMAIN dedup \subseteq Session \X Blob /\ \A k \in DOMAIN dedup : dedup[k] \in Ref
  BY <1>1 DEF IInv, StoreInv, DedupExact, Indexes, Key, Entry
<1>4. phase \in [Request -> {"new", "preparing", "running", "over"}]
  BY DEF IInv, Requests
<1> QED
  BY <1>1, <1>2, <1>3, <1>4 DEF TypeOK, StoreTypeOK, Booked, Holdings

\* Every variable of the store and of the requests keeps its type; older is at
\* all times one order of the accesses to the live entries.
THEOREM RefsTypeCorrect == Spec => []TypeOK
<1>1. Init => Holdings
  BY DEF Init, Holdings
<1>2. IInv /\ Booked /\ Holdings /\ [Next]_vars => Holdings'
  BY StepHoldings
<1>3. IInv /\ Booked /\ Holdings => TypeOK
  BY BooksAreTyped
<1> QED
  BY <1>1, <1>2, <1>3, BooksAreKept, PTL DEF Spec
=============================================================================
