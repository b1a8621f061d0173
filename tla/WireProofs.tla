----------------------------- MODULE WireProofs -----------------------------
(***************************************************************************)
(* The two ends of the wire.  For any number of senders, of connections    *)
(* and of retries, an inference call reaches the backend at most once, and *)
(* the pool is respected.  For any number of events, the stream a client   *)
(* gets ends once and honestly, and its frames can be put together; for    *)
(* any number of calls, the engine ends a turn with those the backend made.*)
(* For any bytes in any chunks, the decoder is the one that got them one   *)
(* by one, and what it gives are the frames of the body; and all that is   *)
(* on the wire has its type.                                               *)
(***************************************************************************)
EXTENDS MCWire, FiniteSetTheorems, TLAPS

\* What one call of send knows: whether it holds a connection follows from
\* where it stands, and before the next attempt the backend has got the
\* request no more often than attempts were made, or not at all when it may
\* not be repeated.
SenderInv(s) ==
  /\ place[s] \in {"sent", "body"} => s \in connected
  /\ place[s] \in {"attempt", "done"} => s \notin connected
  /\ place[s] = "backoff" => attempt[s] < MaxRetries
  /\ delivered[s] <= attempt[s] + 1 /\ statuses[s] <= delivered[s]
  /\ place[s] = "attempt" => delivered[s] <= attempt[s]
  /\ place[s] = "sent" => statuses[s] < delivered[s]
  /\ place[s] = "body" => statuses[s] > 0
  /\ outcome[s] = "answer" => statuses[s] > 0
  /\ ~repeatable[s] => /\ delivered[s] <= 1
                       /\ place[s] \in {"attempt", "backoff"} => delivered[s] = 0

SendInv ==
  /\ SendTypeOK
  /\ Cardinality(connected) <= MaxConnections
  /\ \A s \in Senders : SenderInv(s)

\* A step of one sender changes that sender's part of the state only.
Untouched(s) ==
  \A u \in Senders \ {s} :
    /\ place'[u] = place[u] /\ repeatable'[u] = repeatable[u] /\ attempt'[u] = attempt[u]
    /\ outcome'[u] = outcome[u] /\ delivered'[u] = delivered[u] /\ statuses'[u] = statuses[u]
    /\ u \in connected' <=> u \in connected

-----------------------------------------------------------------------------
\* The pool is a finite set; taking a connection adds one holder, giving it
\* back removes one.
LEMMA Pool ==
  ASSUME SendInv, NEW s \in Senders
  PROVE  /\ Cardinality(connected) \in Nat
         /\ Cardinality(connected \ {s}) <= MaxConnections
         /\ Cardinality(connected) < MaxConnections => Cardinality(connected \cup {s}) <= MaxConnections
<1>1. IsFiniteSet(connected) /\ Cardinality(connected) <= MaxConnections /\ MaxConnections \in Nat
  BY TransportAssumption, FS_Subset DEF SendInv, SendTypeOK
<1>2. Cardinality(connected) \in Nat
  BY <1>1, FS_CardinalityType
<1>3. Cardinality(connected \ {s}) = IF s \in connected THEN Cardinality(connected) - 1 ELSE Cardinality(connected)
  BY <1>1, FS_RemoveElement
<1>4. Cardinality(connected \cup {s}) = IF s \in connected THEN Cardinality(connected) ELSE Cardinality(connected) + 1
  BY <1>1, FS_AddElement
<1> QED
  BY <1>1, <1>2, <1>3, <1>4

\* What is left to prove of a step of s, when the others are untouched.
LEMMA OneSender ==
  ASSUME SendInv, NEW s \in Senders, Untouched(s), SendTypeOK', SenderInv(s)',
         Cardinality(connected') <= MaxConnections
  PROVE  SendInv'
<1>1. ASSUME NEW u \in Senders, u # s PROVE SenderInv(u)'
  BY <1>1 DEF SendInv, SenderInv, Untouched
<1> QED
  BY <1>1 DEF SendInv

\* A sender that is at work leaves with a result.
LEMMA LeaveStep ==
  ASSUME SendInv, NEW s \in Senders, NEW result \in {"answer", "synthetic", "raised"},
         Leave(s, result), result = "answer" => statuses[s] > 0
  PROVE  SendInv'
<1>1. SendTypeOK'
  BY DEF SendInv, SendTypeOK, Leave
<1>2. Untouched(s)
  BY DEF Untouched, SendInv, SendTypeOK, Leave
<1>3. SenderInv(s)'
  BY DEF SenderInv, SendInv, SendTypeOK, Leave
<1> QED
  BY <1>1, <1>2, <1>3, Pool, OneSender DEF Leave

\* A sender that may try again does, or leaves with the synthetic answer.
LEMMA TryAgainStep ==
  ASSUME SendInv, NEW s \in Senders, TryAgain(s), repeatable[s] \/ delivered[s] = 0
  PROVE  SendInv'
<1>1. CASE Leave(s, "synthetic")
  BY <1>1, LeaveStep
<1>2. CASE /\ attempt[s] < MaxRetries
           /\ place' = [place EXCEPT ![s] = "backoff"]
           /\ connected' = connected \ {s}
           /\ UNCHANGED <<repeatable, attempt, outcome, delivered, statuses>>
  <2>1. SendTypeOK'
    BY <1>2 DEF SendInv, SendTypeOK
  <2>2. Untouched(s)
    BY <1>2 DEF Untouched, SendInv, SendTypeOK
  <2>3. SenderInv(s)'
    BY <1>2 DEF SenderInv, SendInv, SendTypeOK
  <2> QED
    BY <1>2, <2>1, <2>2, <2>3, Pool, OneSender
<1> QED
  BY <1>1, <1>2 DEF TryAgain

\* Every step of a sender keeps the invariant.
LEMMA SendStepInvariant ==
  ASSUME SendInv, NEW s \in Senders, SendStep(s)
  PROVE  SendInv'
<1>0. /\ MaxRetries \in Nat /\ MaxConnections \in Nat
      /\ SendTypeOK /\ SenderInv(s)
  BY TransportAssumption DEF SendInv
<1>1. CASE ConnectFails(s)
  BY <1>0, <1>1, TryAgainStep DEF ConnectFails, SenderInv
<1>2. CASE Connect(s)
  <2>1. delivered'[s] = delivered[s] + 1
    BY <1>0, <1>2 DEF Connect, Tick, SenderInv, SendTypeOK
  <2>2. SendTypeOK'
    BY <1>0, <1>2 DEF Connect, SendTypeOK, Tick
  <2>3. Untouched(s)
    BY <1>0, <1>2 DEF Connect, Untouched, SendTypeOK
  <2>4. SenderInv(s)'
    BY <1>0, <1>2, <2>1 DEF Connect, SenderInv, SendTypeOK
  <2> QED
    BY <1>2, <2>2, <2>3, <2>4, Pool, OneSender DEF Connect
<1>3. CASE TimesOut(s)
  BY <1>3, TryAgainStep, LeaveStep DEF TimesOut
<1>4. CASE Status(s)
  <2>1. statuses'[s] = statuses[s] + 1
    BY <1>0, <1>4 DEF Status, Tick, SenderInv, SendTypeOK
  <2>2. SendTypeOK'
    BY <1>0, <1>4 DEF Status, SendTypeOK, Tick
  <2>3. Untouched(s)
    BY <1>0, <1>4 DEF Status, Untouched, SendTypeOK
  <2>4. SenderInv(s)'
    BY <1>0, <1>4, <2>1 DEF Status, SenderInv, SendTypeOK
  <2> QED
    BY <1>4, <2>2, <2>3, <2>4, OneSender DEF Status, SendInv
<1>5. CASE BodyRead(s)
  BY <1>0, <1>5, LeaveStep DEF BodyRead, SenderInv
<1>6. CASE Raises(s)
  BY <1>6, LeaveStep DEF Raises
<1>7. CASE Slept(s)
  <2>1. SendTypeOK'
    BY <1>0, <1>7 DEF Slept, SendTypeOK, SenderInv
  <2>2. Untouched(s)
    BY <1>0, <1>7 DEF Slept, Untouched, SendTypeOK
  <2>3. SenderInv(s)'
    BY <1>0, <1>7 DEF Slept, SenderInv, SendTypeOK
  <2> QED
    BY <1>7, <2>1, <2>2, <2>3, Pool, OneSender DEF Slept
<1> QED
  BY <1>1, <1>2, <1>3, <1>4, <1>5, <1>6, <1>7 DEF SendStep

LEMMA SendInvInit == SendInit => SendInv
BY TransportAssumption, FS_EmptySet DEF SendInit, SendInv, SendTypeOK, SenderInv

LEMMA SendInvStep == SendInv /\ [SendNext]_sendVars => SendInv'
<1> SUFFICES ASSUME SendInv, [SendNext]_sendVars PROVE SendInv'
  OBVIOUS
<1>1. CASE UNCHANGED sendVars
  BY <1>1 DEF sendVars, SendInv, SendTypeOK, SenderInv
<1>2. CASE SendsDone
  BY <1>1, <1>2 DEF SendsDone
<1>3. ASSUME NEW s \in Senders, SendStep(s) PROVE SendInv'
  BY <1>3, SendStepInvariant
<1> QED
  BY <1>1, <1>2, <1>3 DEF SendNext

LEMMA SendInvariant == SendSpec => []SendInv
BY SendInvInit, SendInvStep, PTL DEF SendSpec

\* UpstreamTransport.send never repeats what may not be repeated: whatever
\* times out, fails or is answered by 503, the backend gets an inference call
\* at most once and any other request no more often than the retries allow.
THEOREM InferenceSentOnce == SendSpec => []SentOnce
<1>1. SendInv => SentOnce
  BY DEF SendInv, SenderInv, SentOnce
<1> QED
  BY <1>1, SendInvariant, PTL

\* httpx's pool is never exceeded and holds no connection of a call that is
\* over or has yet to connect.
THEOREM PoolIsRespected == SendSpec => []PoolRespected
<1>1. SendInv => PoolRespected
  BY DEF SendInv, SenderInv, PoolRespected
<1> QED
  BY <1>1, SendInvariant, PTL

\* The transport's state is well typed; its counters stay within the retries.
THEOREM TransportTypeOK == SendSpec => []SendTypeOK
<1>1. SendInv => SendTypeOK
  BY DEF SendInv
<1> QED
  BY <1>1, SendInvariant, PTL

-----------------------------------------------------------------------------
(* The frames of a client, and what one more of them does to what the      *)
(* client was told.                                                         *)

Kind == Terminals \cup
  {"message_start", "created", "start", "delta", "arguments", "stop", "message_stop", "tool",
   "usage", "done", "text", "item_added", "error"}
AllReasons == Success \cup {"invalid_output", "content_filter"}
StreamFrame ==
  [kind : Kind] \cup [kind : Kind, index : Nat] \cup [kind : Kind, index : Nat, item : Nat]
                \cup [kind : Kind, reason : AllReasons]

\* A frame that some block, call or item is in.
Carries == {"text", "tool", "start", "delta", "arguments", "item_added"}

ErrorSeen(fs) == \E i \in DOMAIN fs : fs[i].kind = "error"

\* Nothing has ended, and the encoder knows of an error as the client does.
Unended(fs, failed) ==
  /\ \A i \in DOMAIN fs :
       /\ fs[i].kind \notin Terminals \cup {"done", "message_stop"}
       /\ fs[i].kind = "error" => failed
  /\ failed => ErrorSeen(fs)

\* No terminal that passes a failure off as a success.
Honest(f) ==
  f.kind # "completed" /\ ("reason" \in DOMAIN f => f.reason \notin Success)

\* `how` is terminal_was_failure, which a Responses terminal goes by.
EndedAt(p, fs, failed, how, e) ==
  /\ e \in DOMAIN fs /\ fs[e].kind \in Terminals
  /\ \A i \in DOMAIN fs :
       /\ fs[i].kind \in Terminals => i = e
       /\ fs[i].kind \in Carries => i < e
       /\ fs[i].kind = "error" /\ i < e => Honest(fs[e])
       /\ fs[i].kind = "done" => fs[e].kind # "failed"
  /\ fs[e].kind = "failed" => p = "responses" /\ how
  /\ failed => ErrorSeen(fs)

Ended(p, fs, failed, how) == \E e \in DOMAIN fs : EndedAt(p, fs, failed, how, e)

\* Named, so that the provers take them as they are.
More(fs, f) == Append(fs, f)
Place(fs) == Len(fs) + 1
Sent(fs, out) == fs \o out

LEMMA OneMore ==
  ASSUME NEW fs \in Seq(StreamFrame), NEW f \in StreamFrame
  PROVE  /\ More(fs, f) \in Seq(StreamFrame)
         /\ Len(fs) \in Nat /\ DOMAIN fs = 1..Len(fs)
         /\ Len(More(fs, f)) = Len(fs) + 1
         /\ DOMAIN More(fs, f) = 1..(Len(fs) + 1)
         /\ \A i \in 1..Len(fs) : More(fs, f)[i] = fs[i]
         /\ More(fs, f)[Len(fs) + 1] = f
BY DEF More

LEMMA UnendedMore ==
  ASSUME NEW fs \in Seq(StreamFrame), NEW f \in StreamFrame, NEW failed \in BOOLEAN, NEW known \in BOOLEAN,
         Unended(fs, failed), f.kind \notin Terminals \cup {"done", "message_stop"},
         failed => known, f.kind = "error" => known, known => failed \/ f.kind = "error"
  PROVE  Unended(More(fs, f), known)
<1> DEFINE n == Len(fs)  gs == More(fs, f)
<1>1. /\ n \in Nat /\ DOMAIN fs = 1..n /\ DOMAIN gs = 1..(n + 1)
      /\ \A i \in 1..n : gs[i] = fs[i]
      /\ gs[n + 1] = f
  BY OneMore
<1> HIDE DEF n, gs
<1>2. /\ \A i \in 1..(n + 1) : i \in 1..n \/ i = n + 1
      /\ \A i \in 1..n : i \in 1..(n + 1)
      /\ n + 1 \in 1..(n + 1)
  BY <1>1
<1>3. Unended(gs, known)
  BY <1>1, <1>2 DEF Unended, ErrorSeen
<1> QED
  BY <1>3 DEF gs

\* The terminal comes once nothing has ended yet.
LEMMA EndedNow ==
  ASSUME NEW p, NEW fs \in Seq(StreamFrame), NEW f \in StreamFrame, NEW failed \in BOOLEAN, NEW how,
         Unended(fs, failed), f.kind \in Terminals, failed => Honest(f),
         f.kind = "failed" => p = "responses" /\ how
  PROVE  Ended(p, More(fs, f), failed, how)
<1> DEFINE n == Len(fs)  gs == More(fs, f)
<1>1. /\ n \in Nat /\ DOMAIN fs = 1..n /\ DOMAIN gs = 1..(n + 1)
      /\ \A i \in 1..n : gs[i] = fs[i]
      /\ gs[n + 1] = f
  BY OneMore
<1> HIDE DEF n, gs
<1>2. /\ n + 1 \in 1..(n + 1)
      /\ \A i \in 1..(n + 1) : i = n + 1 \/ (i \in 1..n /\ i < n + 1)
      /\ \A i \in 1..n : i \in 1..(n + 1)
  BY <1>1
<1>3. f.kind \notin Carries \cup {"error", "done"}
  BY DEF Carries, Terminals
<1>4. EndedAt(p, gs, failed, how, n + 1)
  BY <1>1, <1>2, <1>3 DEF Unended, EndedAt, ErrorSeen
<1>5. Ended(p, gs, failed, how)
  BY <1>1, <1>2, <1>4 DEF Ended
<1> QED
  BY <1>5 DEF gs

\* After it come only frames that carry nothing.
LEMMA EndedMore ==
  ASSUME NEW p, NEW fs \in Seq(StreamFrame), NEW f \in StreamFrame, NEW failed \in BOOLEAN, NEW known \in BOOLEAN,
         NEW how, Ended(p, fs, failed, how), f.kind \notin Terminals \cup Carries,
         known => failed \/ f.kind = "error", f.kind = "done" => ~(p = "responses" /\ how)
  PROVE  Ended(p, More(fs, f), known, how)
<1> DEFINE n == Len(fs)  gs == More(fs, f)
<1>1. /\ n \in Nat /\ DOMAIN fs = 1..n /\ DOMAIN gs = 1..(n + 1)
      /\ \A i \in 1..n : gs[i] = fs[i]
      /\ gs[n + 1] = f
  BY OneMore
<1>2. PICK e \in DOMAIN fs : EndedAt(p, fs, failed, how, e)
  BY DEF Ended
<1> HIDE DEF n, gs
<1>3. /\ e \in 1..n /\ e \in 1..(n + 1) /\ ~(n + 1 < e)
      /\ \A i \in 1..(n + 1) : i \in 1..n \/ i = n + 1
      /\ \A i \in 1..n : i \in 1..(n + 1)
      /\ n + 1 \in 1..(n + 1)
  BY <1>1, <1>2
<1>4. EndedAt(p, gs, known, how, e)
  <2>1. known => ErrorSeen(gs)
    BY <1>1, <1>2, <1>3 DEF EndedAt, ErrorSeen
  <2> QED
    BY <1>1, <1>2, <1>3, <2>1 DEF EndedAt
<1>5. Ended(p, gs, known, how)
  BY <1>1, <1>3, <1>4 DEF Ended
<1> QED
  BY <1>5 DEF gs

-----------------------------------------------------------------------------
(* What the frames of a kind are numbered with.                             *)

Named(fs, kind) == {i \in DOMAIN fs : fs[i].kind = kind}
Indexed(fs, kind) == {fs[i].index : i \in Named(fs, kind)}
Once(fs, kind) == \A i, j \in Named(fs, kind) : i < j => fs[i].index # fs[j].index

\* Deltas and arguments come between the start and the stop of their block.
InsideBlocks(fs) ==
  \A i \in Named(fs, "delta") \cup Named(fs, "arguments") :
    /\ \E j \in Named(fs, "start") : j < i /\ fs[j].index = fs[i].index
    /\ ~\E j \in Named(fs, "stop") : j < i /\ fs[j].index = fs[i].index

\* Sequence numbers of items and texts rise up to the last.
Rising(fs, last) ==
  /\ \A i \in Named(fs, "text") \cup Named(fs, "item_added") : fs[i].index \in 0..last
  /\ \A i, j \in Named(fs, "text") \cup Named(fs, "item_added") : i < j => fs[i].index < fs[j].index

\* Of the n blocks begun, those in open have not been stopped.
Blocks(fs, n, open) ==
  /\ open \subseteq 0..(n - 1)
  /\ Indexed(fs, "start") = 0..(n - 1) /\ Indexed(fs, "stop") = 0..(n - 1) \ open
  /\ Indexed(fs, "tool") = {}
  /\ Once(fs, "start") /\ Once(fs, "stop") /\ InsideBlocks(fs)

LEMMA NamedMore ==
  ASSUME NEW fs \in Seq(StreamFrame), NEW f \in StreamFrame, NEW kind
  PROVE  /\ Named(More(fs, f), kind) = IF f.kind = kind THEN Named(fs, kind) \cup {Place(fs)}
                                                          ELSE Named(fs, kind)
         /\ \A i \in Named(fs, kind) : i \in Int /\ i < Place(fs) /\ More(fs, f)[i] = fs[i]
         /\ More(fs, f)[Place(fs)] = f /\ Place(fs) \in Int
<1> DEFINE l == Len(fs)  gs == More(fs, f)
<1>1. /\ l \in Nat /\ DOMAIN fs = 1..l /\ DOMAIN gs = 1..(l + 1)
      /\ \A i \in 1..l : gs[i] = fs[i]
      /\ gs[l + 1] = f
  BY OneMore
<1> HIDE DEF l, gs, Place
<1>2. 1..(l + 1) = 1..l \cup {l + 1} /\ \A i \in 1..l : i \in Int /\ i < l + 1
  BY <1>1
<1>3. Named(gs, kind) = IF f.kind = kind THEN Named(fs, kind) \cup {l + 1} ELSE Named(fs, kind)
  BY <1>1, <1>2 DEF Named
<1>4. \A i \in Named(fs, kind) : i \in Int /\ i < l + 1 /\ gs[i] = fs[i]
  BY <1>1, <1>2 DEF Named
<1> QED
  BY <1>1, <1>3, <1>4 DEF l, gs, Place

LEMMA IndexedMore ==
  ASSUME NEW fs \in Seq(StreamFrame), NEW f \in StreamFrame, NEW kind
  PROVE  Indexed(More(fs, f), kind) = Indexed(fs, kind) \cup (IF f.kind = kind THEN {f.index} ELSE {})
<1> DEFINE l == Place(fs)  gs == More(fs, f)
<1>1. /\ Named(gs, kind) = IF f.kind = kind THEN Named(fs, kind) \cup {l} ELSE Named(fs, kind)
      /\ \A i \in Named(fs, kind) : gs[i] = fs[i]
      /\ gs[l] = f
  BY NamedMore
<1> HIDE DEF l, gs
<1>2. Indexed(gs, kind) = Indexed(fs, kind) \cup (IF f.kind = kind THEN {f.index} ELSE {})
  BY <1>1 DEF Indexed
<1> QED
  BY <1>2 DEF gs

LEMMA OnceMore ==
  ASSUME NEW fs \in Seq(StreamFrame), NEW f \in StreamFrame, NEW kind, Once(fs, kind),
         f.kind = kind => f.index \notin Indexed(fs, kind)
  PROVE  Once(More(fs, f), kind)
<1> DEFINE l == Place(fs)  gs == More(fs, f)
<1>1. /\ Named(gs, kind) = IF f.kind = kind THEN Named(fs, kind) \cup {l} ELSE Named(fs, kind)
      /\ \A i \in Named(fs, kind) : i \in Int /\ i < l /\ gs[i] = fs[i]
      /\ gs[l] = f /\ l \in Int
  BY NamedMore
<1> HIDE DEF l, gs
<1>2. \A i \in Named(fs, kind) : ~(l < i)
  BY <1>1
<1>3. Once(gs, kind)
  BY <1>1, <1>2 DEF Once, Indexed
<1> QED
  BY <1>3 DEF gs

LEMMA InsideMore ==
  ASSUME NEW fs \in Seq(StreamFrame), NEW f \in StreamFrame, InsideBlocks(fs),
         f.kind \in {"delta", "arguments"} => f.index \in Indexed(fs, "start") \ Indexed(fs, "stop")
  PROVE  InsideBlocks(More(fs, f))
<1> DEFINE l == Place(fs)  gs == More(fs, f)  In(hs) == Named(hs, "delta") \cup Named(hs, "arguments")
<1>1. /\ \A kind : Named(fs, kind) \subseteq Named(gs, kind)
      /\ \A kind : Named(gs, kind) \subseteq Named(fs, kind) \cup {l}
      /\ \A kind : l \in Named(gs, kind) => f.kind = kind
      /\ \A kind : \A i \in Named(fs, kind) : i \in Int /\ i < l /\ gs[i] = fs[i]
      /\ gs[l] = f /\ l \in Int
  <2>1. ASSUME NEW kind
        PROVE  /\ Named(gs, kind) = IF f.kind = kind THEN Named(fs, kind) \cup {l} ELSE Named(fs, kind)
               /\ \A i \in Named(fs, kind) : i \in Int /\ i < l /\ gs[i] = fs[i]
               /\ gs[l] = f /\ l \in Int
    BY NamedMore
  <2> HIDE DEF l, gs
  <2> QED
    BY <2>1
<1> HIDE DEF l, gs
<1>2. ASSUME NEW i \in In(fs)
      PROVE  /\ \E j \in Named(gs, "start") : j < i /\ gs[j].index = gs[i].index
             /\ ~\E j \in Named(gs, "stop") : j < i /\ gs[j].index = gs[i].index
  <2>0. i < l /\ i \in Int /\ gs[i] = fs[i] /\ ~(l < i)
    BY <1>1
  <2>1. PICK j \in Named(fs, "start") : j < i /\ fs[j].index = fs[i].index
    BY DEF InsideBlocks
  <2>2. \E k \in Named(gs, "start") : k < i /\ gs[k].index = gs[i].index
    BY <1>1, <2>0, <2>1
  <2>3. ~\E k \in Named(fs, "stop") : k < i /\ fs[k].index = fs[i].index
    BY DEF InsideBlocks
  <2>4. ~\E k \in Named(gs, "stop") : k < i /\ gs[k].index = gs[i].index
    BY <1>1, <2>0, <2>3
  <2> QED
    BY <2>2, <2>4
<1>3. ASSUME l \in In(gs)
      PROVE  /\ \E j \in Named(gs, "start") : j < l /\ gs[j].index = gs[l].index
             /\ ~\E j \in Named(gs, "stop") : j < l /\ gs[j].index = gs[l].index
  <2>1. f.index \in Indexed(fs, "start") /\ f.index \notin Indexed(fs, "stop")
    BY <1>1, <1>3
  <2>2. PICK j \in Named(fs, "start") : fs[j].index = f.index
    BY <2>1 DEF Indexed
  <2>3. \A k \in Named(gs, "stop") : k < l => gs[k].index # f.index
    BY <1>1, <2>1 DEF Indexed
  <2> QED
    BY <1>1, <2>2, <2>3
<1>4. \A i \in In(gs) : i \in In(fs) \/ i = l
  BY <1>1
<1>5. InsideBlocks(gs)
  BY <1>2, <1>3, <1>4 DEF InsideBlocks
<1> QED
  BY <1>5 DEF gs

LEMMA RisingMore ==
  ASSUME NEW fs \in Seq(StreamFrame), NEW f \in StreamFrame, NEW last \in Nat, NEW next \in Nat, Rising(fs, last),
         IF f.kind \in {"text", "item_added"} THEN f.index = next /\ next = last + 1 ELSE next = last
  PROVE  Rising(More(fs, f), next)
<1> DEFINE l == Place(fs)  gs == More(fs, f)  Items(hs) == Named(hs, "text") \cup Named(hs, "item_added")
<1>1. /\ Items(gs) = IF f.kind \in {"text", "item_added"} THEN Items(fs) \cup {l} ELSE Items(fs)
      /\ \A i \in Items(fs) : i \in Int /\ i < l /\ gs[i] = fs[i]
      /\ gs[l] = f /\ l \in Int
  <2>1. ASSUME NEW kind
        PROVE  /\ Named(gs, kind) = IF f.kind = kind THEN Named(fs, kind) \cup {l} ELSE Named(fs, kind)
               /\ \A i \in Named(fs, kind) : i \in Int /\ i < l /\ gs[i] = fs[i]
               /\ gs[l] = f /\ l \in Int
    BY NamedMore
  <2> HIDE DEF l, gs
  <2> QED
    BY <2>1
<1>2. /\ \A i \in Items(fs) : fs[i].index \in 0..last
      /\ \A i, j \in Items(fs) : i < j => fs[i].index < fs[j].index
  BY DEF Rising
<1> HIDE DEF l, gs, Items
<1>3. \A i \in Items(gs) : gs[i].index \in 0..next
  <2> TAKE i \in Items(gs)
  <2>1. CASE i \in Items(fs)
    <3>1. fs[i].index \in 0..last /\ gs[i] = fs[i] /\ last <= next
      BY <1>1, <1>2, <2>1
    <3> QED
      BY <3>1
  <2>2. CASE i \notin Items(fs)
    <3>1. i = l /\ f.kind \in {"text", "item_added"}
      BY <1>1, <2>2
    <3>2. gs[i] = f /\ f.index = next
      BY <1>1, <3>1
    <3> QED
      BY <3>2
  <2> QED
    BY <2>1, <2>2
<1>4. \A i, j \in Items(gs) : i < j => gs[i].index < gs[j].index
  BY <1>1, <1>2
<1>5. Rising(gs, next)
  BY <1>3, <1>4 DEF Rising, Items
<1> QED
  BY <1>5 DEF gs

-----------------------------------------------------------------------------
(* The blocks of an Anthropic stream, frame by frame.                       *)

LEMMA BlockStarts ==
  ASSUME NEW fs \in Seq(StreamFrame), NEW n \in Nat, NEW open, Blocks(fs, n, open)
  PROVE  Blocks(More(fs, At("start", n)), n + 1, open \cup {n})
<1> DEFINE f == At("start", n)
<1>1. f \in StreamFrame /\ f.kind = "start" /\ f.index = n
  BY DEF At, StreamFrame, Kind
<1> HIDE DEF f
<1>2. 0..(n + 1 - 1) = 0..(n - 1) \cup {n} /\ n \notin 0..(n - 1)
  OBVIOUS
<1>3. \A kind : Indexed(More(fs, f), kind) = Indexed(fs, kind) \cup (IF f.kind = kind THEN {f.index} ELSE {})
  BY <1>1, IndexedMore
<1>4. Once(More(fs, f), "start") /\ Once(More(fs, f), "stop")
  BY <1>1, <1>2, OnceMore DEF Blocks
<1>5. InsideBlocks(More(fs, f))
  BY <1>1, InsideMore DEF Blocks
<1>6. open \cup {n} \subseteq 0..(n + 1 - 1) /\ 0..(n + 1 - 1) \ (open \cup {n}) = 0..(n - 1) \ open
  BY <1>2 DEF Blocks
<1>7. /\ Indexed(More(fs, f), "start") = 0..(n + 1 - 1)
      /\ Indexed(More(fs, f), "stop") = 0..(n + 1 - 1) \ (open \cup {n})
      /\ Indexed(More(fs, f), "tool") = {}
  BY <1>1, <1>2, <1>3, <1>6 DEF Blocks
<1>8. Blocks(More(fs, f), n + 1, open \cup {n})
  BY <1>4, <1>5, <1>6, <1>7 DEF Blocks
<1> QED
  BY <1>8 DEF f

LEMMA BlockGrows ==
  ASSUME NEW fs \in Seq(StreamFrame), NEW n \in Nat, NEW open, Blocks(fs, n, open),
         NEW b \in open, NEW kind \in {"delta", "arguments"}
  PROVE  Blocks(More(fs, At(kind, b)), n, open)
<1> DEFINE f == At(kind, b)
<1>1. b \in 0..(n - 1) /\ b \in Nat
  BY DEF Blocks
<1>2. f \in StreamFrame /\ f.kind = kind /\ f.index = b
  BY <1>1 DEF At, StreamFrame, Kind
<1> HIDE DEF f
<1>3. \A k : Indexed(More(fs, f), k) = Indexed(fs, k) \cup (IF f.kind = k THEN {f.index} ELSE {})
  BY <1>2, IndexedMore
<1>4. Once(More(fs, f), "start") /\ Once(More(fs, f), "stop")
  BY <1>2, OnceMore DEF Blocks
<1>5. InsideBlocks(More(fs, f))
  BY <1>1, <1>2, InsideMore DEF Blocks
<1>6. Blocks(More(fs, f), n, open)
  BY <1>2, <1>3, <1>4, <1>5 DEF Blocks
<1> QED
  BY <1>6 DEF f

LEMMA BlockStops ==
  ASSUME NEW fs \in Seq(StreamFrame), NEW n \in Nat, NEW open, Blocks(fs, n, open), NEW b \in open
  PROVE  Blocks(More(fs, At("stop", b)), n, open \ {b})
<1> DEFINE f == At("stop", b)
<1>1. b \in 0..(n - 1) /\ b \in Nat
  BY DEF Blocks
<1>2. f \in StreamFrame /\ f.kind = "stop" /\ f.index = b
  BY <1>1 DEF At, StreamFrame, Kind
<1> HIDE DEF f
<1>3. \A k : Indexed(More(fs, f), k) = Indexed(fs, k) \cup (IF f.kind = k THEN {f.index} ELSE {})
  BY <1>2, IndexedMore
<1>4. Once(More(fs, f), "start") /\ Once(More(fs, f), "stop")
  BY <1>2, OnceMore DEF Blocks
<1>5. InsideBlocks(More(fs, f))
  BY <1>2, InsideMore DEF Blocks
<1>6. Indexed(More(fs, f), "stop") = 0..(n - 1) \ (open \ {b})
  BY <1>1, <1>2, <1>3 DEF Blocks
<1>7. Blocks(More(fs, f), n, open \ {b})
  BY <1>2, <1>3, <1>4, <1>5, <1>6 DEF Blocks
<1> QED
  BY <1>7 DEF f

\* Frames outside the blocks.
LEMMA BlocksStay ==
  ASSUME NEW fs \in Seq(StreamFrame), NEW n \in Nat, NEW open, Blocks(fs, n, open), NEW f \in StreamFrame,
         f.kind \notin {"start", "stop", "delta", "arguments", "tool"}
  PROVE  Blocks(More(fs, f), n, open)
<1>1. \A k : Indexed(More(fs, f), k) = Indexed(fs, k) \cup (IF f.kind = k THEN {f.index} ELSE {})
  BY IndexedMore
<1>2. Once(More(fs, f), "start") /\ Once(More(fs, f), "stop")
  BY OnceMore DEF Blocks
<1>3. InsideBlocks(More(fs, f))
  BY InsideMore DEF Blocks
<1> QED
  BY <1>1, <1>2, <1>3 DEF Blocks

-----------------------------------------------------------------------------
(* What an encoder knows of the frames it has made.                         *)

Encoder ==
  [failure : BOOLEAN, terminal : BOOLEAN, failed : BOOLEAN, done : BOOLEAN, usage : BOOLEAN,
   textOpen : BOOLEAN, textIndex : Nat, next : Nat, sequence : Nat]

OpenText(e) == IF e.textOpen THEN {e.textIndex} ELSE {}

Made(p, fs, e) ==
  /\ fs \in Seq(StreamFrame) /\ e \in Encoder /\ e.textIndex <= e.next
  /\ p = "anthropic" => Blocks(fs, e.next, OpenText(e))
  /\ p = "chat" => /\ Indexed(fs, "start") = {} /\ Indexed(fs, "stop") = {}
                   /\ Indexed(fs, "tool") \subseteq 0..(e.next - 1) /\ Once(fs, "tool")
  /\ p = "responses" => /\ Indexed(fs, "start") = {} /\ Indexed(fs, "stop") = {}
                        /\ Indexed(fs, "tool") = {} /\ Rising(fs, e.sequence)

\* An encoder that counts and has come no further.
Counted(e, d) ==
  /\ d.failure = e.failure /\ d.terminal = e.terminal /\ d.done = e.done
  /\ d.next <= e.next + 1 /\ d.sequence <= e.sequence + 1

\* An encoder that counts no more.
Resting(e, d) ==
  d.textIndex = e.textIndex /\ d.next = e.next /\ d.sequence = e.sequence

\* Frames that are sent together, one by one.
LEMMA SentNone ==
  ASSUME NEW fs \in Seq(StreamFrame)
  PROVE  Sent(fs, <<>>) = fs
BY DEF Sent

LEMMA SentOne ==
  ASSUME NEW fs \in Seq(StreamFrame), NEW a \in StreamFrame, NEW out, out = <<a>>
  PROVE  Sent(fs, out) = More(fs, a) /\ More(fs, a) \in Seq(StreamFrame)
BY DEF More, Sent

LEMMA SentTwo ==
  ASSUME NEW fs \in Seq(StreamFrame), NEW a \in StreamFrame, NEW b \in StreamFrame, NEW out, out = <<a, b>>
  PROVE  /\ Sent(fs, out) = More(More(fs, a), b)
         /\ More(fs, a) \in Seq(StreamFrame) /\ More(More(fs, a), b) \in Seq(StreamFrame)
<1>1. Sent(fs, <<a, b>>) = More(More(fs, a), b)
  BY DEF More, Sent
<1>2. More(fs, a) \in Seq(StreamFrame) /\ More(More(fs, a), b) \in Seq(StreamFrame)
  BY DEF More
<1> QED
  BY <1>1, <1>2

LEMMA SentThree ==
  ASSUME NEW fs \in Seq(StreamFrame), NEW a \in StreamFrame, NEW b \in StreamFrame, NEW c \in StreamFrame,
         NEW out, out = <<a, b, c>>
  PROVE  /\ Sent(fs, out) = More(More(More(fs, a), b), c)
         /\ More(fs, a) \in Seq(StreamFrame) /\ More(More(fs, a), b) \in Seq(StreamFrame)
         /\ More(More(More(fs, a), b), c) \in Seq(StreamFrame)
<1>1. Sent(fs, <<a, b, c>>) = More(More(More(fs, a), b), c)
  BY DEF More, Sent
<1>2. More(fs, a) \in Seq(StreamFrame) /\ More(More(fs, a), b) \in Seq(StreamFrame)
  BY DEF More
<1>3. More(More(More(fs, a), b), c) \in Seq(StreamFrame)
  BY <1>2 DEF More
<1> QED
  BY <1>1, <1>2, <1>3

LEMMA Pair ==
  ASSUME NEW a, NEW b
  PROVE  <<>> \o <<b>> = <<b>> /\ <<a>> \o <<b>> = <<a, b>>
<1> DEFINE S == {a, b}  x == <<a>> \o <<b>>  y == <<a, b>>
<1>1. /\ x \in Seq(S) /\ Len(x) = 2 /\ x[1] = a /\ x[2] = b
      /\ y \in Seq(S) /\ Len(y) = 2 /\ y[1] = a /\ y[2] = b
  OBVIOUS
<1>2. <<>> \o <<b>> = <<b>>
  OBVIOUS
<1> HIDE DEF S, x, y
<1>3. x = y
  BY <1>1
<1> QED
  BY <1>2, <1>3 DEF x, y

\* A frame without a number.
LEMMA PlainFrame ==
  ASSUME NEW p, NEW fs, NEW e, Made(p, fs, e), NEW f \in StreamFrame, NEW d \in Encoder, Resting(e, d),
         d.textOpen = e.textOpen,
         f.kind \notin {"start", "stop", "delta", "arguments", "tool", "item_added"},
         f.kind = "text" => p = "chat"
  PROVE  Made(p, More(fs, f), d)
<1>1. fs \in Seq(StreamFrame) /\ More(fs, f) \in Seq(StreamFrame) /\ OpenText(d) = OpenText(e)
  BY OneMore DEF Made, More, OpenText, Resting
<1>2. \A k : Indexed(More(fs, f), k) = Indexed(fs, k) \cup (IF f.kind = k THEN {f.index} ELSE {})
  BY <1>1, IndexedMore
<1>3. CASE p = "anthropic"
  <2>1. Blocks(More(fs, f), e.next, OpenText(e))
    BY <1>1, <1>3, BlocksStay DEF Made, Encoder
  <2> QED
    BY <1>1, <1>3, <2>1 DEF Made, Resting
<1>4. CASE p = "chat"
  <2>1. Once(More(fs, f), "tool")
    BY <1>1, <1>4, OnceMore DEF Made
  <2> QED
    BY <1>1, <1>2, <1>4, <2>1 DEF Made, Resting
<1>5. CASE p = "responses"
  <2>1. Rising(More(fs, f), e.sequence)
    BY <1>1, <1>5, RisingMore DEF Made, Encoder
  <2> QED
    BY <1>1, <1>2, <1>5, <2>1 DEF Made, Resting
<1>6. CASE p \notin {"anthropic", "chat", "responses"}
  BY <1>1, <1>6 DEF Made, Resting
<1> QED
  BY <1>3, <1>4, <1>5, <1>6

-----------------------------------------------------------------------------
(* Each event: what its frames do to what was made.                         *)

\* A numbered frame of a Responses stream.
LEMMA ResponsesFrameMade ==
  ASSUME NEW fs, NEW e, Made("responses", fs, e), Unended(fs, e.failure),
         NEW kind \in {"text", "item_added"}, NEW item \in Nat, NEW added \in 0..1,
         NEW s, s = ResponsesFrame(e, kind, item, added)
  PROVE  /\ Made("responses", Sent(fs, s.out), s.enc) /\ Unended(Sent(fs, s.out), e.failure)
         /\ Counted(e, s.enc)
<1>0. fs \in Seq(StreamFrame) /\ e \in Encoder /\ e.textIndex <= e.next
  BY DEF Made
<1> DEFINE f == [kind |-> kind, index |-> e.sequence + 1, item |-> item]
<1>1. s = Out(<<f>>, [e EXCEPT !.next = @ + added, !.sequence = @ + 1])
  BY DEF ResponsesFrame
<1>2. /\ s.enc \in Encoder /\ s.enc.next = e.next + added /\ s.enc.sequence = e.sequence + 1
      /\ s.enc.textIndex = e.textIndex
      /\ s.enc.failure = e.failure /\ s.enc.terminal = e.terminal /\ s.enc.done = e.done
  <2>1. e.next + added \in Nat /\ e.sequence + 1 \in Nat
    BY <1>0 DEF Encoder
  <2>2. PICK n \in Nat, q \in Nat : n = e.next + added /\ q = e.sequence + 1
    BY <2>1
  <2>3. s.enc = [e EXCEPT !.next = n, !.sequence = q]
    BY <1>1, <2>2 DEF Out
  <2>4. /\ s.enc \in Encoder /\ s.enc.next = n /\ s.enc.sequence = q
        /\ s.enc.textIndex = e.textIndex
        /\ s.enc.failure = e.failure /\ s.enc.terminal = e.terminal /\ s.enc.done = e.done
    BY <1>0, <2>3 DEF Encoder
  <2> QED
    BY <2>2, <2>4
<1>3. /\ s.out = <<f>> /\ f \in StreamFrame /\ f.kind = kind /\ f.index = e.sequence + 1
      /\ e.sequence \in Nat /\ e.next \in Nat /\ e.textIndex \in Nat
  BY <1>0, <1>1 DEF Out, StreamFrame, Kind, Encoder
<1> HIDE DEF f
<1>4. Sent(fs, s.out) = More(fs, f) /\ More(fs, f) \in Seq(StreamFrame)
  BY <1>0, <1>3, SentOne
<1>5. Unended(More(fs, f), e.failure)
  BY <1>0, <1>3, UnendedMore DEF Terminals, Encoder
<1>6. Rising(More(fs, f), e.sequence + 1)
  BY <1>0, <1>3, RisingMore DEF Made
<1>7. \A k : Indexed(More(fs, f), k) = Indexed(fs, k) \cup (IF f.kind = k THEN {f.index} ELSE {})
  BY <1>0, <1>3, IndexedMore
<1>8. Made("responses", More(fs, f), s.enc)
  <2>1. s.enc.textIndex <= s.enc.next
    BY <1>0, <1>2, <1>3
  <2>2. Indexed(More(fs, f), "start") = {} /\ Indexed(More(fs, f), "stop") = {} /\ Indexed(More(fs, f), "tool") = {}
    BY <1>3, <1>7 DEF Made
  <2> QED
    BY <1>2, <1>4, <1>6, <2>1, <2>2 DEF Made
<1>9. Counted(e, s.enc)
  BY <1>2, <1>3 DEF Counted
<1> QED
  BY <1>4, <1>5, <1>8, <1>9

\* Content: text and tool calls, before anything has ended.
LEMMA TextMade ==
  ASSUME NEW fs, NEW e, Made(protocol, fs, e), Unended(fs, e.failure),
         protocol \in {"anthropic", "chat", "responses"}, NEW s, s = Text(e)
  PROVE  /\ Made(protocol, Sent(fs, s.out), s.enc) /\ Unended(Sent(fs, s.out), e.failure)
         /\ Counted(e, s.enc)
<1>0. fs \in Seq(StreamFrame) /\ e \in Encoder /\ e.textIndex <= e.next
  BY DEF Made
<1>1. CASE protocol = "anthropic" /\ e.textOpen
  <2> DEFINE f == At("delta", e.textIndex)
  <2>1. s.out = <<f>> /\ s.enc = e /\ f \in StreamFrame /\ f.kind = "delta"
    BY <1>0, <1>1 DEF Text, AnthropicText, Out, At, StreamFrame, Kind, Encoder
  <2>2. Blocks(fs, e.next, {e.textIndex}) /\ e.next \in Nat
    BY <1>0, <1>1 DEF Made, OpenText, Encoder
  <2>3. Blocks(More(fs, f), e.next, {e.textIndex})
    BY <1>0, <2>2, BlockGrows
  <2> HIDE DEF f
  <2>4. Sent(fs, s.out) = More(fs, f) /\ More(fs, f) \in Seq(StreamFrame)
    BY <1>0, <2>1, SentOne
  <2>5. Unended(More(fs, f), e.failure)
    BY <1>0, <2>1, UnendedMore DEF Terminals, Encoder
  <2> QED
    <3>1. Made(protocol, More(fs, f), e)
      BY <1>0, <1>1, <2>3, <2>4 DEF Made, OpenText
    <3>2. Counted(e, e)
      BY <1>0 DEF Counted, Encoder
    <3> QED
      BY <2>1, <2>4, <2>5, <3>1, <3>2
<1>2. CASE protocol = "anthropic" /\ ~e.textOpen
  <2> DEFINE f == At("start", e.next)  g == At("delta", e.next)
  <2>1. /\ f \in StreamFrame /\ f.kind = "start" /\ g \in StreamFrame /\ g.kind = "delta"
        /\ e.next \in Nat
    BY <1>0 DEF At, StreamFrame, Kind, Encoder
  <2>a. s = Out(<<f, g>>, [e EXCEPT !.textOpen = TRUE, !.textIndex = e.next, !.next = @ + 1])
    BY <1>2 DEF Text, AnthropicText
  <2>b. s.out = <<f, g>>
    BY <2>a DEF Out
  <2>c. /\ s.enc \in Encoder /\ s.enc.textOpen = TRUE /\ s.enc.textIndex = e.next
        /\ s.enc.next = e.next + 1 /\ s.enc.sequence = e.sequence
        /\ s.enc.failure = e.failure /\ s.enc.terminal = e.terminal /\ s.enc.done = e.done
    <3>1. e.next + 1 \in Nat
      BY <2>1
    <3>2. PICK n \in Nat : n = e.next + 1
      BY <3>1
    <3>3. s.enc = [e EXCEPT !.textOpen = TRUE, !.textIndex = e.next, !.next = n]
      BY <2>a, <3>2 DEF Out
    <3>4. /\ s.enc \in Encoder /\ s.enc.textOpen = TRUE /\ s.enc.textIndex = e.next
          /\ s.enc.next = n /\ s.enc.sequence = e.sequence
          /\ s.enc.failure = e.failure /\ s.enc.terminal = e.terminal /\ s.enc.done = e.done
      BY <1>0, <2>1, <3>3 DEF Encoder
    <3> QED
      BY <3>2, <3>4
  <2>2. Blocks(fs, e.next, {})
    BY <1>2 DEF Made, OpenText
  <2>3. Blocks(More(fs, f), e.next + 1, {e.next})
    <3>1. Blocks(More(fs, f), e.next + 1, {} \cup {e.next})
      BY <1>0, <2>1, <2>2, BlockStarts
    <3> QED
      BY <3>1
  <2>4. /\ Sent(fs, s.out) = More(More(fs, f), g) /\ More(fs, f) \in Seq(StreamFrame)
        /\ More(More(fs, f), g) \in Seq(StreamFrame)
    BY <1>0, <2>1, <2>b, SentTwo
  <2>5. Blocks(More(More(fs, f), g), e.next + 1, {e.next})
    <3>1. e.next + 1 \in Nat /\ e.next \in {e.next} /\ "delta" \in {"delta", "arguments"}
      BY <2>1
    <3> QED
      BY <2>3, <2>4, <3>1, BlockGrows
  <2> HIDE DEF f, g
  <2>6. Unended(More(More(fs, f), g), e.failure)
    <3>1. Unended(More(fs, f), e.failure)
      BY <1>0, <2>1, UnendedMore DEF Terminals, Encoder
    <3> QED
      BY <1>0, <2>1, <2>4, <3>1, UnendedMore DEF Terminals, Encoder
  <2>7. OpenText(s.enc) = {e.next}
    BY <2>c DEF OpenText
  <2>8. Made(protocol, Sent(fs, s.out), s.enc)
    BY <1>2, <2>1, <2>4, <2>5, <2>7, <2>c DEF Made
  <2>9. Counted(e, s.enc)
    BY <1>0, <2>c DEF Counted, Encoder
  <2> QED
    BY <2>4, <2>6, <2>8, <2>9
<1>3. CASE protocol = "chat"
  <2> DEFINE f == [kind |-> "text"]
  <2>1. s.out = <<f>> /\ s.enc = e /\ f \in StreamFrame /\ f.kind = "text"
    BY <1>3 DEF Text, Out, StreamFrame, Kind
  <2> HIDE DEF f
  <2>2. Sent(fs, s.out) = More(fs, f)
    BY <1>0, <2>1, SentOne
  <2>3. Unended(More(fs, f), e.failure)
    BY <1>0, <2>1, UnendedMore DEF Terminals, Encoder
  <2>4. Made(protocol, More(fs, f), e)
    BY <1>0, <1>3, <2>1, PlainFrame DEF Resting
  <2> QED
    <3>1. Counted(e, e)
      BY <1>0 DEF Counted, Encoder
    <3> QED
      BY <2>1, <2>2, <2>3, <2>4, <3>1
<1>4. CASE protocol = "responses"
  BY <1>0, <1>4, ResponsesFrameMade DEF Text
<1> QED
  BY <1>1, <1>2, <1>3, <1>4

LEMMA ToolMade ==
  ASSUME NEW fs, NEW e, Made(protocol, fs, e), Unended(fs, e.failure),
         protocol \in {"anthropic", "chat", "responses"}, NEW s, s = ToolUse(e)
  PROVE  /\ Made(protocol, Sent(fs, s.out), s.enc) /\ Unended(Sent(fs, s.out), e.failure)
         /\ Counted(e, s.enc)
<1>0. /\ fs \in Seq(StreamFrame) /\ e \in Encoder /\ e.textIndex <= e.next
      /\ e.next \in Nat /\ e.textIndex \in Nat /\ e.sequence \in Nat /\ e.failure \in BOOLEAN
  BY DEF Made, Encoder
<1>1. PICK n \in Nat : n = e.next + 1
  BY <1>0
<1>2. ASSUME s.enc = [e EXCEPT !.next = n]
      PROVE  /\ s.enc \in Encoder /\ s.enc.textIndex = e.textIndex /\ s.enc.textOpen = e.textOpen
             /\ s.enc.next = e.next + 1 /\ s.enc.sequence = e.sequence
             /\ Counted(e, s.enc) /\ s.enc.textIndex <= s.enc.next
  <2>1. /\ s.enc \in Encoder /\ s.enc.textIndex = e.textIndex /\ s.enc.textOpen = e.textOpen
        /\ s.enc.next = n /\ s.enc.sequence = e.sequence
        /\ s.enc.failure = e.failure /\ s.enc.terminal = e.terminal /\ s.enc.done = e.done
    BY <1>0, <1>2 DEF Encoder
  <2>2. n <= e.next + 1 /\ e.sequence <= e.sequence + 1 /\ e.textIndex <= n
    BY <1>0, <1>1
  <2> QED
    BY <1>1, <2>1, <2>2 DEF Counted
<1>3. CASE protocol = "anthropic"
  <2> DEFINE f == At("start", e.next)  g == At("arguments", e.next)  h == At("stop", e.next)
  <2>1. /\ f \in StreamFrame /\ f.kind = "start" /\ g \in StreamFrame /\ g.kind = "arguments"
        /\ h \in StreamFrame /\ h.kind = "stop"
    BY <1>0 DEF At, StreamFrame, Kind
  <2>2. s.out = <<f, g, h>> /\ s.enc = [e EXCEPT !.next = n]
    BY <1>1, <1>3 DEF ToolUse, AnthropicTool, Out
  <2>3. /\ Sent(fs, s.out) = More(More(More(fs, f), g), h)
        /\ More(fs, f) \in Seq(StreamFrame) /\ More(More(fs, f), g) \in Seq(StreamFrame)
        /\ More(More(More(fs, f), g), h) \in Seq(StreamFrame)
    <3> HIDE DEF f, g, h
    <3> QED
      BY <1>0, <2>1, <2>2, SentThree
  <2>4. Blocks(fs, e.next, OpenText(e)) /\ OpenText(e) \subseteq 0..(e.next - 1)
    BY <1>3 DEF Made, Blocks
  <2>5. PICK open : open = OpenText(e)
    OBVIOUS
  <2>6. e.next \notin open /\ (open \cup {e.next}) \ {e.next} = open
    BY <1>0, <2>4, <2>5
  <2>7. Blocks(More(fs, f), n, open \cup {e.next})
    BY <1>0, <1>1, <2>4, <2>5, BlockStarts
  <2>8. Blocks(More(More(fs, f), g), n, open \cup {e.next})
    <3>1. e.next \in open \cup {e.next} /\ "arguments" \in {"delta", "arguments"}
      OBVIOUS
    <3> QED
      BY <2>3, <2>7, <3>1, BlockGrows
  <2>9. Blocks(More(More(More(fs, f), g), h), n, open)
    <3>1. e.next \in open \cup {e.next}
      OBVIOUS
    <3>2. Blocks(More(More(More(fs, f), g), h), n, (open \cup {e.next}) \ {e.next})
      BY <2>3, <2>8, <3>1, BlockStops
    <3> QED
      BY <2>6, <3>2
  <2> HIDE DEF f, g, h
  <2>10. Unended(More(More(More(fs, f), g), h), e.failure)
    <3>1. Unended(More(fs, f), e.failure)
      BY <1>0, <2>1, UnendedMore DEF Terminals
    <3>2. Unended(More(More(fs, f), g), e.failure)
      BY <1>0, <2>1, <2>3, <3>1, UnendedMore DEF Terminals
    <3> QED
      BY <1>0, <2>1, <2>3, <3>2, UnendedMore DEF Terminals
  <2>11. OpenText(s.enc) = open
    BY <1>2, <2>2, <2>5 DEF OpenText
  <2>12. Made(protocol, Sent(fs, s.out), s.enc)
    BY <1>1, <1>2, <1>3, <2>2, <2>3, <2>9, <2>11 DEF Made
  <2> QED
    BY <1>2, <2>2, <2>3, <2>10, <2>12
<1>4. CASE protocol = "chat"
  <2> DEFINE f == At("tool", e.next)  g == At("arguments", e.next)
  <2>1. /\ f \in StreamFrame /\ f.kind = "tool" /\ f.index = e.next /\ g \in StreamFrame /\ g.kind = "arguments"
    BY <1>0 DEF At, StreamFrame, Kind
  <2>2. s.out = <<f, g>> /\ s.enc = [e EXCEPT !.next = n]
    BY <1>1, <1>4 DEF ToolUse, ChatTool, Out
  <2> HIDE DEF f, g
  <2>3. /\ Sent(fs, s.out) = More(More(fs, f), g)
        /\ More(fs, f) \in Seq(StreamFrame) /\ More(More(fs, f), g) \in Seq(StreamFrame)
    BY <1>0, <2>1, <2>2, SentTwo
  <2>4. Unended(More(More(fs, f), g), e.failure)
    <3>1. Unended(More(fs, f), e.failure)
      BY <1>0, <2>1, UnendedMore DEF Terminals
    <3> QED
      BY <1>0, <2>1, <2>3, <3>1, UnendedMore DEF Terminals
  <2>5. \A k : Indexed(More(More(fs, f), g), k)
                 = (Indexed(fs, k) \cup (IF f.kind = k THEN {f.index} ELSE {}))
                     \cup (IF g.kind = k THEN {g.index} ELSE {})
    <3>1. \A k : Indexed(More(fs, f), k) = Indexed(fs, k) \cup (IF f.kind = k THEN {f.index} ELSE {})
      BY <1>0, <2>1, IndexedMore
    <3>2. \A k : Indexed(More(More(fs, f), g), k)
                   = Indexed(More(fs, f), k) \cup (IF g.kind = k THEN {g.index} ELSE {})
      BY <2>1, <2>3, IndexedMore
    <3> QED
      BY <3>1, <3>2
  <2>6. e.next \notin 0..(e.next - 1) /\ 0..(n - 1) = 0..(e.next - 1) \cup {e.next}
    BY <1>0, <1>1
  <2>7. /\ Indexed(fs, "start") = {} /\ Indexed(fs, "stop") = {}
        /\ Indexed(fs, "tool") \subseteq 0..(e.next - 1) /\ Once(fs, "tool")
    BY <1>4 DEF Made
  <2>8. Once(More(More(fs, f), g), "tool")
    <3>1. Once(More(fs, f), "tool")
      BY <1>0, <2>1, <2>6, <2>7, OnceMore
    <3> QED
      BY <2>1, <2>3, <3>1, OnceMore
  <2>9. Indexed(More(More(fs, f), g), "tool") \subseteq 0..(n - 1)
    BY <2>1, <2>5, <2>6, <2>7
  <2>10. Indexed(More(More(fs, f), g), "start") = {} /\ Indexed(More(More(fs, f), g), "stop") = {}
    BY <2>1, <2>5, <2>7
  <2>11. Made(protocol, Sent(fs, s.out), s.enc)
    BY <1>1, <1>2, <1>4, <2>2, <2>3, <2>8, <2>9, <2>10 DEF Made
  <2> QED
    BY <1>2, <2>2, <2>3, <2>4, <2>11
<1>5. CASE protocol = "responses"
  BY <1>0, <1>5, ResponsesFrameMade DEF ToolUse
<1> QED
  BY <1>3, <1>4, <1>5

\* An error: the encoder knows of it from here on.
ErrorOut(e) == Out(<<[kind |-> "error"]>>, [e EXCEPT !.failure = TRUE])

\* What an error frame leaves of the frames and of the encoder.
ErrorKept(p, fs, e, s) ==
  /\ Made(p, Sent(fs, s.out), s.enc) /\ Resting(e, s.enc)
  /\ s.enc.failure = TRUE /\ s.enc.terminal = e.terminal /\ s.enc.done = e.done
  /\ s.enc.failed = e.failed /\ s.enc.textOpen = e.textOpen
  /\ Unended(fs, e.failure) => Unended(Sent(fs, s.out), TRUE)
  /\ Ended(p, fs, e.failure, e.failed) => Ended(p, Sent(fs, s.out), TRUE, e.failed)

LEMMA ErrorMade ==
  ASSUME NEW p, NEW fs, NEW e, Made(p, fs, e),
         NEW s, s = ErrorOut(e)
  PROVE  ErrorKept(p, fs, e, s)
<1>0. fs \in Seq(StreamFrame) /\ e \in Encoder /\ e.failure \in BOOLEAN
  BY DEF Made, Encoder
<1> DEFINE f == [kind |-> "error"]
<1>1. f \in StreamFrame /\ f.kind = "error"
  BY DEF StreamFrame, Kind
<1>2. s.out = <<f>> /\ s.enc = [e EXCEPT !.failure = TRUE]
  BY DEF ErrorOut, Out
<1> HIDE DEF f
<1>3. /\ s.enc \in Encoder /\ Resting(e, s.enc) /\ s.enc.textOpen = e.textOpen
      /\ s.enc.failure = TRUE /\ s.enc.terminal = e.terminal /\ s.enc.done = e.done
      /\ s.enc.failed = e.failed
  BY <1>0, <1>2 DEF Encoder, Resting
<1>4. Sent(fs, s.out) = More(fs, f)
  BY <1>0, <1>1, <1>2, SentOne
<1>5. Made(p, More(fs, f), s.enc)
  BY <1>1, <1>3, PlainFrame
<1>6. Unended(fs, e.failure) => Unended(More(fs, f), TRUE)
  BY <1>0, <1>1, UnendedMore DEF Terminals
<1>7. Ended(p, fs, e.failure, e.failed) => Ended(p, More(fs, f), TRUE, e.failed)
  BY <1>0, <1>1, EndedMore DEF Terminals, Carries
<1> QED
  BY <1>3, <1>4, <1>5, <1>6, <1>7 DEF ErrorKept

\* The terminal frame tells the truth about the errors before it.
LEMMA TerminalFrame ==
  ASSUME NEW p, NEW fs, NEW e, Made(p, fs, e), NEW f \in StreamFrame, NEW d \in Encoder,
         Resting(e, d), d.textOpen = e.textOpen, Unended(fs, e.failure),
         f.kind \in Terminals, e.failure => Honest(f), f.kind = "failed" => p = "responses" /\ d.failed
  PROVE  Made(p, More(fs, f), d) /\ Ended(p, More(fs, f), e.failure, d.failed)
<1>1. fs \in Seq(StreamFrame) /\ e.failure \in BOOLEAN
  BY DEF Made, Encoder
<1>2. Made(p, More(fs, f), d)
  BY PlainFrame DEF Terminals
<1>3. Ended(p, More(fs, f), e.failure, d.failed)
  BY <1>1, EndedNow
<1> QED
  BY <1>2, <1>3

\* What the terminal frame leaves of them, and what the trailer does.
StopKept(p, fs, e, s) ==
  /\ Made(p, Sent(fs, s.out), s.enc) /\ Ended(p, Sent(fs, s.out), e.failure, s.enc.failed)
  /\ Resting(e, s.enc) /\ s.enc.failure = e.failure /\ s.enc.terminal = TRUE
  /\ s.enc.done = e.done /\ (p = "anthropic" => s.enc.textOpen = FALSE)

TrailerKept(p, fs, e, s) ==
  /\ Made(p, Sent(fs, s.out), s.enc) /\ Ended(p, Sent(fs, s.out), e.failure, e.failed)
  /\ Resting(e, s.enc) /\ (p = "anthropic" => s.enc.textOpen = e.textOpen)

LEMMA StopMade ==
  ASSUME NEW fs, NEW e, Made(protocol, fs, e), Unended(fs, e.failure), e.terminal = FALSE,
         protocol \in {"anthropic", "chat", "responses"},
         NEW r \in StopReasons, e.failure => r \in {"none", "invalid"},
         NEW s, s = MessageStop(e, r)
  PROVE  StopKept(protocol, fs, e, s)
<1>0. fs \in Seq(StreamFrame) /\ e \in Encoder /\ e.failure \in BOOLEAN /\ e.textOpen \in BOOLEAN
  BY DEF Made, Encoder
<1>1. CASE protocol = "anthropic"
  <2> DEFINE f == Reason("message_delta", AnthropicReason(e, r))  g == At("stop", e.textIndex)
  <2>1. s = Out((IF e.textOpen THEN <<g>> ELSE <<>>) \o <<f>>, [e EXCEPT !.terminal = TRUE, !.textOpen = FALSE])
    BY <1>1 DEF MessageStop, AnthropicStop
  <2>2. /\ AnthropicReason(e, r) \in AllReasons
        /\ e.failure => AnthropicReason(e, r) \notin Success
    BY DEF AnthropicReason, AllReasons, Success
  <2>3. f \in StreamFrame /\ f.kind = "message_delta" /\ (e.failure => Honest(f))
    BY <2>2 DEF Reason, StreamFrame, Kind, Terminals, Honest
  <2>4. g \in StreamFrame /\ g.kind = "stop" /\ g.index = e.textIndex
    BY <1>0 DEF At, StreamFrame, Kind, Encoder
  <2>5. s.enc = [e EXCEPT !.terminal = TRUE, !.textOpen = FALSE]
    BY <2>1 DEF Out
  <2>6. /\ s.enc \in Encoder /\ Resting(e, s.enc) /\ s.enc.textOpen = FALSE /\ s.enc.terminal = TRUE
        /\ s.enc.failure = e.failure /\ s.enc.done = e.done
    BY <1>0, <2>5 DEF Encoder, Resting
  <2>7. CASE ~e.textOpen
    <3> HIDE DEF f, g
    <3>1. s.out = <<f>>
      BY <2>1, <2>7, Pair DEF Out
    <3>2. Sent(fs, s.out) = More(fs, f)
      BY <1>0, <2>3, <3>1, SentOne
    <3>3. Made(protocol, More(fs, f), s.enc) /\ Ended(protocol, More(fs, f), e.failure, s.enc.failed)
      <4>1. e.textOpen = FALSE /\ f.kind \in Terminals /\ f.kind # "failed"
        BY <1>0, <2>3, <2>7 DEF Terminals
      <4> QED
        BY <2>3, <2>6, <4>1, TerminalFrame
    <3> QED
      BY <2>6, <3>2, <3>3 DEF StopKept
  <2>8. CASE e.textOpen
    <3>1. Blocks(fs, e.next, {e.textIndex}) /\ e.next \in Nat
      BY <1>0, <1>1, <2>8 DEF Made, OpenText, Encoder
    <3>2. Blocks(More(fs, g), e.next, {e.textIndex} \ {e.textIndex})
      BY <1>0, <3>1, BlockStops
    <3> HIDE DEF f, g
    <3>3. s.out = <<g, f>>
      BY <2>1, <2>8, Pair DEF Out
    <3>4. Sent(fs, s.out) = More(More(fs, g), f) /\ More(fs, g) \in Seq(StreamFrame)
      BY <1>0, <2>3, <2>4, <3>3, SentTwo
    <3>5. PICK d \in Encoder : /\ Resting(e, d) /\ d.textOpen = FALSE /\ d.failure = e.failure
      <4>1. [e EXCEPT !.textOpen = FALSE] \in Encoder
        BY <1>0 DEF Encoder
      <4> QED
        BY <1>0, <4>1 DEF Encoder, Resting
    <3>6. Made(protocol, More(fs, g), d)
      <4>1. OpenText(d) = {} /\ {e.textIndex} \ {e.textIndex} = {}
        BY <3>5 DEF OpenText
      <4>2. d.next = e.next /\ d.textIndex <= d.next
        BY <3>5 DEF Resting, Made
      <4> QED
        BY <1>1, <3>2, <3>4, <4>1, <4>2 DEF Made
    <3>7. Unended(More(fs, g), d.failure)
      BY <1>0, <2>4, <3>5, UnendedMore DEF Terminals
    <3>8. Made(protocol, More(More(fs, g), f), s.enc) /\ Ended(protocol, More(More(fs, g), f), d.failure, s.enc.failed)
      <4>1. Resting(d, s.enc) /\ s.enc.textOpen = d.textOpen
        BY <2>6, <3>5 DEF Resting
      <4>2. f.kind \in Terminals /\ f.kind # "failed" /\ (d.failure => Honest(f))
        BY <2>3, <3>5 DEF Terminals
      <4> QED
        BY <2>3, <2>6, <3>6, <3>7, <4>1, <4>2, TerminalFrame
    <3> QED
      BY <2>6, <3>4, <3>5, <3>8 DEF StopKept
  <2> QED
    BY <2>6, <2>7, <2>8
<1>2. CASE protocol = "chat"
  <2> DEFINE f == Reason("finish", ChatReason(e, r))
  <2>1. s.out = <<f>> /\ s.enc = [e EXCEPT !.terminal = TRUE]
    BY <1>2 DEF MessageStop, ChatStop, Out
  <2>2. /\ ChatReason(e, r) \in AllReasons
        /\ e.failure => ChatReason(e, r) \notin Success
    BY DEF ChatReason, AllReasons, Success
  <2>3. f \in StreamFrame /\ f.kind = "finish" /\ (e.failure => Honest(f))
    BY <2>2 DEF Reason, StreamFrame, Kind, Terminals, Honest
  <2> HIDE DEF f
  <2>4. /\ s.enc \in Encoder /\ Resting(e, s.enc) /\ s.enc.textOpen = e.textOpen
        /\ s.enc.terminal = TRUE /\ s.enc.failure = e.failure /\ s.enc.done = e.done
    BY <1>0, <2>1 DEF Encoder, Resting
  <2>5. Sent(fs, s.out) = More(fs, f)
    BY <1>0, <2>1, <2>3, SentOne
  <2>6. Made(protocol, More(fs, f), s.enc) /\ Ended(protocol, More(fs, f), e.failure, s.enc.failed)
    <3>1. f.kind \in Terminals /\ f.kind # "failed"
      BY <2>3 DEF Terminals
    <3> QED
      BY <2>3, <2>4, <3>1, TerminalFrame
  <2> QED
    BY <1>2, <2>4, <2>5, <2>6 DEF StopKept
<1>3. CASE protocol = "responses"
  <2> DEFINE f == [kind |-> IF e.failure THEN "failed" ELSE "completed"]
  <2>1. s.out = <<f>> /\ s.enc = [e EXCEPT !.terminal = TRUE, !.failed = e.failure]
    BY <1>3 DEF MessageStop, ResponsesStop, Out
  <2>2. f \in StreamFrame /\ f.kind \in Terminals
    BY <1>0 DEF StreamFrame, Kind, Terminals
  <2>3. (e.failure => Honest(f)) /\ (f.kind = "failed" => e.failure)
    BY <1>0 DEF Honest
  <2> HIDE DEF f
  <2>4. /\ s.enc \in Encoder /\ Resting(e, s.enc) /\ s.enc.textOpen = e.textOpen
        /\ s.enc.terminal = TRUE /\ s.enc.failure = e.failure /\ s.enc.done = e.done
        /\ s.enc.failed = e.failure
    BY <1>0, <2>1 DEF Encoder, Resting
  <2>5. Sent(fs, s.out) = More(fs, f)
    BY <1>0, <2>1, <2>2, SentOne
  <2>6. Made(protocol, More(fs, f), s.enc) /\ Ended(protocol, More(fs, f), e.failure, s.enc.failed)
    BY <1>3, <2>2, <2>3, <2>4, TerminalFrame
  <2> QED
    BY <1>3, <2>4, <2>5, <2>6 DEF StopKept
<1> QED
  BY <1>1, <1>2, <1>3

\* What closes the stream after its terminal.
LEMMA TrailerFrame ==
  ASSUME NEW p, NEW fs, NEW e, Made(p, fs, e), Ended(p, fs, e.failure, e.failed), NEW f \in StreamFrame,
         f.kind \in {"message_stop", "usage", "done"},
         f.kind = "done" => ~(p = "responses" /\ e.failed)
  PROVE  Made(p, More(fs, f), e) /\ Ended(p, More(fs, f), e.failure, e.failed)
<1>1. fs \in Seq(StreamFrame) /\ e \in Encoder /\ e.failure \in BOOLEAN
  BY DEF Made, Encoder
<1>2. Made(p, More(fs, f), e)
  BY <1>1, PlainFrame DEF Resting
<1>3. Ended(p, More(fs, f), e.failure, e.failed)
  BY <1>1, EndedMore DEF Terminals, Carries
<1> QED
  BY <1>2, <1>3

LEMMA TrailerMade ==
  ASSUME NEW fs, NEW e, Made(protocol, fs, e), Ended(protocol, fs, e.failure, e.failed),
         e.terminal = TRUE, e.done = FALSE,
         protocol \in {"anthropic", "chat", "responses"}, NEW s, s = Trailer(e)
  PROVE  TrailerKept(protocol, fs, e, s)
<1>0. /\ fs \in Seq(StreamFrame) /\ e \in Encoder /\ e.failure \in BOOLEAN /\ e.failed \in BOOLEAN
      /\ Resting(e, e)
  BY DEF Made, Encoder, Resting
<1> DEFINE stop == [kind |-> "message_stop"]  usage == [kind |-> "usage"]  done == [kind |-> "done"]
<1>1. /\ stop \in StreamFrame /\ usage \in StreamFrame /\ done \in StreamFrame
      /\ stop.kind = "message_stop" /\ usage.kind = "usage" /\ done.kind = "done"
  BY DEF StreamFrame, Kind
<1>2. CASE protocol = "anthropic"
  <2>1. s.out = <<stop>> /\ s.enc = e
    BY <1>2 DEF Trailer, AnthropicTrailer, Out
  <2> HIDE DEF stop
  <2>2. Sent(fs, s.out) = More(fs, stop)
    BY <1>0, <1>1, <2>1, SentOne
  <2>3. Made(protocol, More(fs, stop), e) /\ Ended(protocol, More(fs, stop), e.failure, e.failed)
    BY <1>1, TrailerFrame
  <2> QED
    BY <1>0, <2>1, <2>2, <2>3 DEF TrailerKept
<1>3. CASE protocol = "chat"
  <2>1. /\ s.out = (IF e.usage /\ ~e.failure THEN <<usage>> ELSE <<>>) \o <<done>>
        /\ s.enc = [e EXCEPT !.done = TRUE, !.terminal = TRUE]
    BY <1>0, <1>3 DEF Trailer, ChatTrailer, Out
  <2>2. s.enc \in Encoder /\ Resting(e, s.enc) /\ s.enc.textOpen = e.textOpen
    BY <1>0, <2>1 DEF Encoder, Resting
  <2> HIDE DEF usage, done
  <2>3. ASSUME NEW gs, Made(protocol, gs, e), Ended(protocol, gs, e.failure, e.failed)
        PROVE  Made(protocol, More(gs, done), s.enc) /\ Ended(protocol, More(gs, done), e.failure, e.failed)
    <3>1. Ended(protocol, More(gs, done), e.failure, e.failed)
      BY <1>1, <1>3, <2>3, TrailerFrame
    <3>2. Made(protocol, More(gs, done), s.enc)
      BY <1>1, <2>2, <2>3, PlainFrame
    <3> QED
      BY <3>1, <3>2
  <2>4. CASE e.usage /\ ~e.failure
    <3>1. s.out = <<usage, done>>
      BY <2>1, <2>4, Pair
    <3>2. Sent(fs, s.out) = More(More(fs, usage), done)
      BY <1>0, <1>1, <3>1, SentTwo
    <3>3. Made(protocol, More(fs, usage), e) /\ Ended(protocol, More(fs, usage), e.failure, e.failed)
      BY <1>1, TrailerFrame
    <3> QED
      BY <1>3, <2>2, <2>3, <3>2, <3>3 DEF TrailerKept
  <2>5. CASE ~(e.usage /\ ~e.failure)
    <3>1. s.out = <<done>>
      BY <2>1, <2>5, Pair
    <3>2. Sent(fs, s.out) = More(fs, done)
      BY <1>0, <1>1, <3>1, SentOne
    <3> QED
      BY <1>3, <2>2, <2>3, <3>2 DEF TrailerKept
  <2> QED
    BY <1>3, <2>4, <2>5
<1>4. CASE protocol = "responses"
  <2>1. s.out = (IF e.failed THEN <<>> ELSE <<done>>) /\ s.enc = e
    BY <1>4 DEF Trailer, ResponsesTrailer, Out
  <2> HIDE DEF done
  <2>2. CASE e.failed
    <3>1. Sent(fs, s.out) = fs
      BY <1>0, <2>1, <2>2, SentNone
    <3> QED
      BY <1>0, <2>1, <3>1 DEF TrailerKept
  <2>3. CASE ~e.failed
    <3>1. Sent(fs, s.out) = More(fs, done)
      BY <1>0, <1>1, <2>1, <2>3, SentOne
    <3>2. Made(protocol, More(fs, done), e) /\ Ended(protocol, More(fs, done), e.failure, e.failed)
      BY <1>1, <2>3, TrailerFrame
    <3> QED
      BY <1>0, <2>1, <3>1, <3>2 DEF TrailerKept
  <2> QED
    BY <2>2, <2>3
<1> QED
  BY <1>2, <1>3, <1>4

-----------------------------------------------------------------------------
Given == {"text", "tool", "usage", "error", "stop"}

\* A stream whose generator just returned: no terminal, and a [DONE] only of
\* a Responses stream.
Silent(p, fs) ==
  \A i \in DOMAIN fs : /\ fs[i].kind \notin Terminals \cup {"error", "message_stop"}
                       /\ fs[i].kind = "done" => p = "responses"

\* Whether an error is known is what the gateway said; once the terminal is
\* out, no text block is open.
EncoderInv ==
  /\ protocol \in {"anthropic", "chat", "responses"} /\ serving \in {"open", "trailer", "over"}
  /\ given \in Seq(Given) /\ Len(given) <= MaxGiven + (IF serving = "open" THEN 1 ELSE 2)
  /\ Made(protocol, frames, encoder)
  /\ encoder.next <= Len(given) /\ encoder.next <= MaxGiven
  /\ encoder.sequence <= Len(given) /\ encoder.sequence <= MaxGiven
  /\ serving = "open" => /\ Unended(frames, encoder.failure)
                         /\ encoder.terminal = FALSE /\ encoder.done = FALSE
                         /\ encoder.failure => "error" \in ToSet(given)
                         /\ "error" \in ToSet(given) => encoder.failure
                         /\ "stop" \notin ToSet(given)
  /\ serving = "trailer" => /\ Ended(protocol, frames, encoder.failure, encoder.failed)
                            /\ encoder.terminal = TRUE /\ encoder.done = FALSE
                            /\ "stop" \in ToSet(given)
                            /\ protocol = "anthropic" => encoder.textOpen = FALSE
  /\ serving = "over" =>
       \/ /\ \E known, how \in BOOLEAN :
               Ended(protocol, frames, known, how) /\ ("stop" \in ToSet(given) \/ known)
          /\ protocol = "anthropic" => encoder.textOpen = FALSE
       \/ Silent(protocol, frames) /\ "stop" \notin ToSet(given)

LEMMA GivenMore ==
  ASSUME NEW g \in Seq(Given), NEW event \in Given
  PROVE  /\ Append(g, event) \in Seq(Given)
         /\ Len(g) \in Nat /\ Len(Append(g, event)) = Len(g) + 1
         /\ ToSet(Append(g, event)) = ToSet(g) \cup {event}
<1> DEFINE n == Len(g)  h == Append(g, event)
<1>1. /\ h \in Seq(Given) /\ n \in Nat /\ Len(h) = n + 1
      /\ DOMAIN g = 1..n /\ DOMAIN h = 1..(n + 1)
      /\ \A i \in 1..n : h[i] = g[i]
      /\ h[n + 1] = event
  OBVIOUS
<1> HIDE DEF n, h
<1>2. 1..(n + 1) = 1..n \cup {n + 1}
  BY <1>1
<1>3. ToSet(h) = ToSet(g) \cup {event}
  BY <1>1, <1>2 DEF ToSet
<1> QED
  BY <1>1, <1>3 DEF n, h

LEMMA ContentStep ==
  ASSUME EncoderInv, Content
  PROVE  EncoderInv'
<1>1. /\ serving = "open" /\ Len(given) < MaxGiven /\ "error" \notin ToSet(given)
      /\ protocol' = protocol /\ serving' = serving
  BY DEF Content
<1>2. PICK event \in {"text", "tool", "usage"} : Take(event, "none")
  BY DEF Content
<1>3. PICK s : s = Encode(encoder, event, "none")
  OBVIOUS
<1>4. given' = Append(given, event) /\ encoder' = s.enc /\ frames' = Sent(frames, s.out)
  BY <1>2, <1>3 DEF Take, Sent
<1>5. /\ Made(protocol, frames, encoder) /\ Unended(frames, encoder.failure)
      /\ encoder \in Encoder /\ encoder.failure = FALSE
      /\ protocol \in {"anthropic", "chat", "responses"}
      /\ encoder.terminal = FALSE /\ encoder.done = FALSE /\ frames \in Seq(StreamFrame)
  BY <1>1 DEF EncoderInv, Made, Encoder
<1>6. /\ Made(protocol, Sent(frames, s.out), s.enc) /\ Unended(Sent(frames, s.out), encoder.failure)
      /\ Counted(encoder, s.enc)
  <2>1. CASE event = "text"
    <3>1. s = Text(encoder)
      BY <1>3, <1>5, <2>1 DEF Encode
    <3> QED
      BY <1>5, <3>1, TextMade
  <2>2. CASE event = "tool"
    <3>1. s = ToolUse(encoder)
      BY <1>3, <1>5, <2>2 DEF Encode
    <3> QED
      BY <1>5, <3>1, ToolMade
  <2>3. CASE event = "usage"
    <3>1. s = Out(<<>>, [encoder EXCEPT !.usage = TRUE])
      BY <1>3, <2>3 DEF Encode
    <3>2. s.out = <<>> /\ s.enc = [encoder EXCEPT !.usage = TRUE]
      BY <3>1 DEF Out
    <3>3. /\ s.enc \in Encoder /\ Resting(encoder, s.enc) /\ s.enc.textOpen = encoder.textOpen
          /\ s.enc.failure = encoder.failure /\ s.enc.terminal = encoder.terminal
          /\ s.enc.done = encoder.done
      BY <1>5, <3>2 DEF Encoder, Resting
    <3>4. Counted(encoder, s.enc)
      BY <1>5, <3>3 DEF Counted, Resting, Encoder
    <3>5. Sent(frames, s.out) = frames
      BY <1>5, <3>2, SentNone
    <3>6. Made(protocol, frames, s.enc)
      <4>1. OpenText(s.enc) = OpenText(encoder)
        BY <3>3 DEF OpenText, Resting
      <4> QED
        BY <1>5, <3>3, <4>1 DEF Made, Resting
    <3> QED
      BY <1>5, <3>4, <3>5, <3>6
  <2> QED
    BY <2>1, <2>2, <2>3
<1>7. /\ given' \in Seq(Given) /\ Len(given) \in Nat /\ Len(given') = Len(given) + 1
      /\ "error" \notin ToSet(given') /\ "stop" \notin ToSet(given')
  BY <1>1, <1>2, <1>4, GivenMore DEF EncoderInv, Given
<1>8. /\ encoder'.next <= Len(given') /\ encoder'.next <= MaxGiven
      /\ encoder'.sequence <= Len(given') /\ encoder'.sequence <= MaxGiven
      /\ Len(given') <= MaxGiven + 1
  <2>1. /\ encoder.next \in Nat /\ encoder.sequence \in Nat /\ s.enc.next \in Nat /\ s.enc.sequence \in Nat
        /\ encoder.next <= Len(given) /\ encoder.sequence <= Len(given)
    <3>1. encoder \in Encoder /\ s.enc \in Encoder
      BY <1>5, <1>6 DEF Made
    <3>2. encoder.next <= Len(given) /\ encoder.sequence <= Len(given)
      BY DEF EncoderInv
    <3> QED
      BY <3>1, <3>2 DEF Encoder
  <2>2. s.enc.next <= encoder.next + 1 /\ s.enc.sequence <= encoder.sequence + 1
    BY <1>6 DEF Counted
  <2>3. PICK n \in Nat : n = Len(given)
    BY <1>7
  <2>4. s.enc.next <= n + 1 /\ s.enc.sequence <= n + 1
    BY <2>1, <2>2, <2>3
  <2>5. n + 1 <= MaxGiven
    BY <1>1, <2>3, EncoderAssumption
  <2> QED
    BY <1>4, <1>7, <2>1, <2>3, <2>4, <2>5, EncoderAssumption
<1>9. PICK p, fs, e : p = protocol' /\ fs = frames' /\ e = encoder'
  OBVIOUS
<1>10. Made(p, fs, e) /\ Unended(fs, e.failure) /\ e.terminal = FALSE /\ e.done = FALSE /\ e.failure = FALSE
  BY <1>1, <1>4, <1>5, <1>6, <1>9 DEF Counted
<1> QED
  BY <1>1, <1>5, <1>7, <1>8, <1>9, <1>10 DEF EncoderInv

\* Facts of the state that the other steps need.
LEMMA EncoderFacts ==
  ASSUME EncoderInv
  PROVE  /\ Made(protocol, frames, encoder) /\ frames \in Seq(StreamFrame) /\ encoder \in Encoder
         /\ encoder.failure \in BOOLEAN
         /\ protocol \in {"anthropic", "chat", "responses"}
         /\ given \in Seq(Given) /\ Len(given) \in Nat
         /\ encoder.next \in Nat /\ encoder.sequence \in Nat
BY DEF EncoderInv, Made, Encoder

LEMMA FailedStep ==
  ASSUME EncoderInv, StreamFailed
  PROVE  EncoderInv'
<1>1. /\ serving = "open" /\ Len(given) <= MaxGiven
      /\ protocol' = protocol /\ serving' = serving
  BY DEF StreamFailed
<1>2. PICK s : s = Encode(encoder, "error", "none")
  OBVIOUS
<1>3. given' = Append(given, "error") /\ encoder' = s.enc /\ frames' = Sent(frames, s.out)
  BY <1>2 DEF StreamFailed, Take, Sent
<1>4. s = ErrorOut(encoder)
  BY <1>2 DEF Encode, ErrorOut
<1>5. /\ Made(protocol, Sent(frames, s.out), s.enc) /\ Resting(encoder, s.enc)
      /\ s.enc.failure = TRUE /\ s.enc.terminal = FALSE /\ s.enc.done = FALSE
      /\ Unended(Sent(frames, s.out), TRUE)
  <2>1. Made(protocol, frames, encoder)
    BY EncoderFacts
  <2>2. Unended(frames, encoder.failure) /\ encoder.terminal = FALSE /\ encoder.done = FALSE
    BY <1>1 DEF EncoderInv
  <2>3. ErrorKept(protocol, frames, encoder, s)
    BY <1>4, <2>1, ErrorMade
  <2> QED
    BY <2>2, <2>3 DEF ErrorKept
<1>6. /\ given' \in Seq(Given) /\ Len(given') = Len(given) + 1
      /\ "error" \in ToSet(given') /\ "stop" \notin ToSet(given')
  <2>1. "stop" \notin ToSet(given)
    BY <1>1 DEF EncoderInv
  <2> QED
    BY <1>3, <2>1, EncoderFacts, GivenMore DEF Given
<1>7. /\ encoder'.next <= Len(given') /\ encoder'.next <= MaxGiven
      /\ encoder'.sequence <= Len(given') /\ encoder'.sequence <= MaxGiven
      /\ Len(given') <= MaxGiven + 1
  <2>1. /\ encoder.next <= Len(given) /\ encoder.next <= MaxGiven
        /\ encoder.sequence <= Len(given) /\ encoder.sequence <= MaxGiven
        /\ encoder'.next = encoder.next /\ encoder'.sequence = encoder.sequence
    BY <1>3, <1>5 DEF EncoderInv, Resting
  <2> QED
    BY <1>1, <1>6, <2>1, EncoderFacts, EncoderAssumption
<1>8. PICK p, fs, e : p = protocol' /\ fs = frames' /\ e = encoder'
  OBVIOUS
<1>9. Made(p, fs, e) /\ Unended(fs, e.failure) /\ e.terminal = FALSE /\ e.done = FALSE /\ e.failure = TRUE
  BY <1>1, <1>3, <1>5, <1>8
<1> QED
  BY <1>1, <1>6, <1>7, <1>8, <1>9, EncoderFacts DEF EncoderInv

\* The gateway's message_stop: after an error it says "none" or "invalid".
LEMMA StoppedStep ==
  ASSUME EncoderInv, Stopped
  PROVE  EncoderInv'
<1>1. serving = "open" /\ serving' = "trailer" /\ protocol' = protocol
  BY DEF Stopped
<1>2. PICK r \in StopReasons : /\ Take("stop", r)
                               /\ "error" \in ToSet(given) => r \in {"none", "invalid"}
  BY DEF Stopped, StopReasons
<1>3. PICK s : s = Encode(encoder, "stop", r)
  OBVIOUS
<1>4. given' = Append(given, "stop") /\ encoder' = s.enc /\ frames' = Sent(frames, s.out)
  BY <1>2, <1>3 DEF Take, Sent
<1>5. s = MessageStop(encoder, r)
  BY <1>3 DEF Encode
<1>6. /\ Made(protocol, Sent(frames, s.out), s.enc)
      /\ Ended(protocol, Sent(frames, s.out), encoder.failure, s.enc.failed)
      /\ Resting(encoder, s.enc) /\ s.enc.failure = encoder.failure /\ s.enc.terminal = TRUE
      /\ s.enc.done = FALSE /\ (protocol = "anthropic" => s.enc.textOpen = FALSE)
  <2>1. /\ Unended(frames, encoder.failure) /\ encoder.terminal = FALSE /\ encoder.done = FALSE
        /\ encoder.failure => r \in {"none", "invalid"}
    BY <1>1, <1>2 DEF EncoderInv
  <2>2. Made(protocol, frames, encoder) /\ protocol \in {"anthropic", "chat", "responses"}
    BY EncoderFacts
  <2>3. StopKept(protocol, frames, encoder, s)
    BY <1>5, <2>1, <2>2, StopMade
  <2> QED
    BY <2>1, <2>3 DEF StopKept
<1>7. given' \in Seq(Given) /\ Len(given') = Len(given) + 1 /\ "stop" \in ToSet(given')
  BY <1>4, EncoderFacts, GivenMore DEF Given
<1>8. /\ encoder'.next <= Len(given') /\ encoder'.next <= MaxGiven
      /\ encoder'.sequence <= Len(given') /\ encoder'.sequence <= MaxGiven
      /\ Len(given') <= MaxGiven + 2
  <2>1. /\ encoder.next <= Len(given) /\ encoder.next <= MaxGiven
        /\ encoder.sequence <= Len(given) /\ encoder.sequence <= MaxGiven
        /\ encoder'.next = encoder.next /\ encoder'.sequence = encoder.sequence
        /\ Len(given) <= MaxGiven + 1
    BY <1>1, <1>4, <1>6 DEF EncoderInv, Resting
  <2> QED
    BY <1>7, <2>1, EncoderFacts, EncoderAssumption
<1>9. PICK p, fs, e : p = protocol' /\ fs = frames' /\ e = encoder'
  OBVIOUS
<1>10. /\ Made(p, fs, e) /\ Ended(p, fs, e.failure, e.failed) /\ e.terminal = TRUE /\ e.done = FALSE
       /\ p = "anthropic" => e.textOpen = FALSE
  BY <1>1, <1>4, <1>6, <1>9
<1> QED
  BY <1>1, <1>7, <1>8, <1>9, <1>10, EncoderFacts DEF EncoderInv

\* What is left to prove of a step that ends the stream.
LEMMA LastFrames ==
  ASSUME EncoderInv, protocol' = protocol, given' = given, serving' = "over",
         NEW fs, fs = frames', NEW e, e = encoder', Made(protocol, fs, e), Resting(encoder, e),
         \/ /\ \E known, how \in BOOLEAN :
                 Ended(protocol, fs, known, how) /\ ("stop" \in ToSet(given) \/ known)
            /\ protocol = "anthropic" => e.textOpen = FALSE
         \/ Silent(protocol, fs) /\ "stop" \notin ToSet(given)
  PROVE  EncoderInv'
<1>1. /\ e.next <= Len(given) /\ e.next <= MaxGiven
      /\ e.sequence <= Len(given) /\ e.sequence <= MaxGiven
  BY DEF EncoderInv, Resting
<1>2. Len(given) <= MaxGiven + 2
  BY EncoderFacts, EncoderAssumption DEF EncoderInv
<1>3. PICK p, g : p = protocol' /\ g = given'
  OBVIOUS
<1>4. /\ Made(p, fs, e)
      /\ \/ /\ \E known, how \in BOOLEAN : Ended(p, fs, known, how) /\ ("stop" \in ToSet(g) \/ known)
            /\ p = "anthropic" => e.textOpen = FALSE
         \/ Silent(p, fs) /\ "stop" \notin ToSet(g)
  BY <1>3
<1> QED
  BY <1>1, <1>2, <1>3, <1>4, EncoderFacts DEF EncoderInv

LEMMA FinishedStep ==
  ASSUME EncoderInv, Finished
  PROVE  EncoderInv'
<1>1. PICK s : s = Trailer(encoder)
  OBVIOUS
<1>2. /\ serving = "trailer" /\ serving' = "over" /\ protocol' = protocol /\ given' = given
      /\ encoder' = s.enc /\ frames' = Sent(frames, s.out)
  BY <1>1 DEF Finished, Sent
<1>3. /\ Ended(protocol, frames, encoder.failure, encoder.failed)
      /\ encoder.terminal = TRUE /\ encoder.done = FALSE /\ "stop" \in ToSet(given)
      /\ encoder.failure \in BOOLEAN /\ encoder.failed \in BOOLEAN
      /\ protocol = "anthropic" => encoder.textOpen = FALSE
  BY <1>2, EncoderFacts DEF EncoderInv, Encoder
<1>4. /\ Made(protocol, Sent(frames, s.out), s.enc)
      /\ Ended(protocol, Sent(frames, s.out), encoder.failure, encoder.failed)
      /\ Resting(encoder, s.enc) /\ (protocol = "anthropic" => s.enc.textOpen = encoder.textOpen)
  <2>1. TrailerKept(protocol, frames, encoder, s)
    BY <1>1, <1>3, TrailerMade, EncoderFacts
  <2> QED
    BY <2>1 DEF TrailerKept
<1> QED
  BY <1>2, <1>3, <1>4, LastFrames, EncoderFacts

\* A generator that just returns: the trailer of an encoder that knows of no
\* terminal and of no error.
LEMMA SilentStep ==
  ASSUME EncoderInv, EndsSilently
  PROVE  EncoderInv'
<1>1. PICK s : s = Trailer(encoder)
  OBVIOUS
<1>2. /\ serving = "open" /\ "error" \notin ToSet(given)
      /\ serving' = "over" /\ protocol' = protocol /\ given' = given
      /\ encoder' = s.enc /\ frames' = Sent(frames, s.out)
  BY <1>1 DEF EndsSilently, Sent
<1>3. PICK e : e = encoder
  OBVIOUS
<1>4. /\ Made(protocol, frames, e) /\ frames \in Seq(StreamFrame) /\ e \in Encoder
      /\ Unended(frames, FALSE) /\ "stop" \notin ToSet(given)
      /\ e.failure = FALSE /\ e.terminal = FALSE /\ e.done = FALSE
  <2>1. /\ Unended(frames, e.failure) /\ "stop" \notin ToSet(given)
        /\ e.terminal = FALSE /\ e.done = FALSE /\ ~e.failure
    BY <1>2, <1>3 DEF EncoderInv
  <2>2. e.failure = FALSE
    BY <1>3, <2>1, EncoderFacts
  <2> QED
    BY <1>3, <2>1, <2>2, EncoderFacts
<1>5. Silent(protocol, frames)
  BY <1>4 DEF Unended, Silent
<1> DEFINE done == [kind |-> "done"]
<1>6. /\ Made(protocol, Sent(frames, s.out), s.enc) /\ Resting(e, s.enc)
      /\ Silent(protocol, Sent(frames, s.out))
  <2>1. CASE protocol = "anthropic"
    <3>1. s.out = <<>> /\ s.enc = e
      BY <1>1, <1>3, <1>4, <2>1 DEF Trailer, AnthropicTrailer, Out
    <3> QED
      BY <1>4, <1>5, <3>1, SentNone DEF Resting
  <2>2. CASE protocol = "chat"
    <3>1. s.out = <<>> /\ s.enc = [e EXCEPT !.done = TRUE, !.terminal = FALSE]
      BY <1>1, <1>3, <1>4, <2>2 DEF Trailer, ChatTrailer, Out
    <3>2. s.enc \in Encoder /\ Resting(e, s.enc) /\ s.enc.textOpen = e.textOpen
      BY <1>4, <3>1 DEF Encoder, Resting
    <3>3. Made(protocol, frames, s.enc)
      <4>1. OpenText(s.enc) = OpenText(e)
        BY <3>2 DEF OpenText, Resting
      <4> QED
        BY <1>4, <3>2, <4>1 DEF Made, Resting
    <3> QED
      BY <1>4, <1>5, <3>1, <3>2, <3>3, SentNone
  <2>3. CASE protocol = "responses"
    <3>1. s.out \in {<<>>, <<done>>} /\ s.enc = e
      BY <1>1, <1>3, <1>4, <2>3 DEF Trailer, ResponsesTrailer, Out
    <3>2. done \in StreamFrame /\ done.kind = "done"
      BY DEF StreamFrame, Kind
    <3>3. Resting(e, e)
      BY DEF Resting
    <3> HIDE DEF done
    <3>4. CASE s.out = <<>>
      BY <1>4, <1>5, <3>1, <3>3, <3>4, SentNone
    <3>5. CASE s.out = <<done>>
      <4>1. Sent(frames, s.out) = More(frames, done)
        BY <1>4, <3>2, <3>5, SentOne
      <4>2. Made(protocol, More(frames, done), e)
        BY <1>4, <3>2, <3>3, PlainFrame
      <4>3. Silent(protocol, More(frames, done))
        <5> DEFINE n == Len(frames)  gs == More(frames, done)
        <5>1. /\ n \in Nat /\ DOMAIN frames = 1..n /\ DOMAIN gs = 1..(n + 1)
              /\ \A i \in 1..n : gs[i] = frames[i]
              /\ gs[n + 1] = done
          BY <1>4, <3>2, OneMore
        <5> HIDE DEF n, gs
        <5>2. \A i \in 1..(n + 1) : i \in 1..n \/ i = n + 1
          BY <5>1
        <5>3. Silent(protocol, gs)
          BY <1>5, <2>3, <3>2, <5>1, <5>2 DEF Silent, Terminals
        <5> QED
          BY <5>3 DEF gs
      <4> QED
        BY <3>1, <3>3, <4>1, <4>2, <4>3
    <3> QED
      BY <3>1, <3>4, <3>5
  <2> QED
    BY <2>1, <2>2, <2>3, EncoderFacts
<1> QED
  BY <1>2, <1>3, <1>4, <1>6, LastFrames

\* An exception before the message_stop makes the terminal itself, one after
\* it adds an error that the terminal could not know of.
LEMMA RaisesStep ==
  ASSUME EncoderInv, GeneratorRaises
  PROVE  EncoderInv'
<1>1. PICK one : one = Encode(encoder, "error", "none")
  OBVIOUS
<1>2. PICK two : two = Encode(one.enc, "stop", "invalid")
  OBVIOUS
<1>3. PICK three : three = Trailer(two.enc)
  OBVIOUS
<1> DEFINE fs1 == Sent(frames, one.out)  fs2 == Sent(fs1, two.out)  fs3 == Sent(fs2, three.out)
<1>4. /\ serving \in {"open", "trailer"} /\ serving' = "over"
      /\ protocol' = protocol /\ given' = given
      /\ encoder' = three.enc /\ frames' = fs3
  BY <1>1, <1>2, <1>3 DEF GeneratorRaises, Sent
<1>5. one = ErrorOut(encoder)
  BY <1>1 DEF Encode, ErrorOut
<1>6. /\ Made(protocol, fs1, one.enc) /\ Resting(encoder, one.enc)
      /\ one.enc.failure = TRUE /\ one.enc.terminal = encoder.terminal
      /\ one.enc.done = encoder.done /\ one.enc.textOpen = encoder.textOpen
      /\ Unended(frames, encoder.failure) => Unended(fs1, TRUE)
      /\ one.enc.failed = encoder.failed
      /\ Ended(protocol, frames, encoder.failure, encoder.failed) => Ended(protocol, fs1, TRUE, encoder.failed)
  <2>1. Made(protocol, frames, encoder)
    BY EncoderFacts
  <2>2. ErrorKept(protocol, frames, encoder, one)
    BY <1>5, <2>1, ErrorMade
  <2> QED
    BY <2>2 DEF ErrorKept, fs1
<1>p. protocol \in {"anthropic", "chat", "responses"}
  BY EncoderFacts
<1> HIDE DEF fs1, fs2, fs3
<1>7. /\ Made(protocol, fs2, two.enc) /\ Ended(protocol, fs2, TRUE, two.enc.failed) /\ Resting(one.enc, two.enc)
      /\ two.enc.failure = TRUE /\ two.enc.terminal = TRUE /\ two.enc.done = FALSE
      /\ protocol = "anthropic" => two.enc.textOpen = FALSE
  <2>1. two = MessageStop(one.enc, "invalid")
    BY <1>2 DEF Encode
  <2>2. CASE serving = "open"
    <3>1. Unended(fs1, one.enc.failure) /\ one.enc.terminal = FALSE /\ one.enc.done = FALSE
      BY <1>6, <2>2 DEF EncoderInv
    <3>2. "invalid" \in StopReasons /\ "invalid" \in {"none", "invalid"}
      BY DEF StopReasons
    <3>3. StopKept(protocol, fs1, one.enc, two)
      BY <1>6, <1>p, <2>1, <3>1, <3>2, StopMade
    <3> QED
      BY <1>6, <3>1, <3>3 DEF StopKept, fs2
  <2>3. CASE serving = "trailer"
    <3>1. /\ Ended(protocol, fs1, TRUE, one.enc.failed) /\ one.enc.terminal = TRUE /\ one.enc.done = FALSE
          /\ protocol = "anthropic" => one.enc.textOpen = FALSE
      BY <1>6, <2>3 DEF EncoderInv
    <3>2. two.out = <<>> /\ two.enc = one.enc
      BY <2>1, <3>1 DEF MessageStop, Out
    <3>3. fs2 = fs1
      BY <1>6, <3>2, SentNone DEF fs2, Made
    <3>4. Resting(one.enc, one.enc)
      BY DEF Resting
    <3> QED
      BY <1>6, <3>1, <3>2, <3>3, <3>4
  <2> QED
    BY <1>4, <2>2, <2>3
<1>8. /\ Made(protocol, fs3, three.enc) /\ Ended(protocol, fs3, TRUE, two.enc.failed)
      /\ Resting(two.enc, three.enc) /\ (protocol = "anthropic" => three.enc.textOpen = FALSE)
  <2>1. Ended(protocol, fs2, two.enc.failure, two.enc.failed)
    BY <1>7
  <2>2. TrailerKept(protocol, fs2, two.enc, three)
    BY <1>3, <1>7, <1>p, <2>1, TrailerMade
  <2> QED
    BY <1>7, <2>2 DEF TrailerKept, fs3
<1>9. Resting(encoder, three.enc)
  BY <1>6, <1>7, <1>8 DEF Resting
<1>10. \E known, how \in BOOLEAN : Ended(protocol, fs3, known, how) /\ ("stop" \in ToSet(given) \/ known)
  <2>1. two.enc.failed \in BOOLEAN
    BY <1>7 DEF Made, Encoder
  <2> QED
    BY <1>8, <2>1
<1> QED
  BY <1>4, <1>8, <1>9, <1>10, LastFrames

LEMMA FirstFrame ==
  ASSUME EncoderInit
  PROVE  EncoderInv
<1>1. /\ protocol \in {"anthropic", "chat", "responses"} /\ given = <<>> /\ serving = "open"
      /\ encoder = [failure |-> FALSE, terminal |-> FALSE, failed |-> FALSE, done |-> FALSE, usage |-> FALSE,
                    textOpen |-> FALSE, textIndex |-> 0, next |-> 0, sequence |-> 0]
  BY DEF EncoderInit
<1>2. /\ encoder \in Encoder /\ encoder.failure = FALSE /\ encoder.terminal = FALSE
      /\ encoder.done = FALSE /\ encoder.textOpen = FALSE /\ encoder.textIndex = 0
      /\ encoder.next = 0 /\ encoder.sequence = 0
  BY <1>1 DEF Encoder
<1>3. PICK e \in Encoder : e = encoder
  BY <1>2
<1>4. OpenText(e) = {} /\ 0..(0 - 1) = {}
  BY <1>2, <1>3 DEF OpenText
<1>5. /\ <<>> \in Seq(StreamFrame) /\ \A k : Named(<<>>, k) = {}
  BY DEF Named
<1>6. Made(protocol, <<>>, e) /\ Unended(<<>>, FALSE)
  <2>1. \A k : Indexed(<<>>, k) = {} /\ Once(<<>>, k)
    BY <1>5 DEF Indexed, Once
  <2>2. InsideBlocks(<<>>) /\ Rising(<<>>, 0)
    BY <1>5 DEF InsideBlocks, Rising
  <2>3. Blocks(<<>>, 0, {})
    BY <1>4, <2>1, <2>2 DEF Blocks
  <2> QED
    BY <1>2, <1>3, <1>4, <1>5, <2>1, <2>2, <2>3 DEF Made, Unended
<1>7. Made(protocol, frames, e) /\ Unended(frames, FALSE)
  <2> DEFINE f == [kind |-> "message_start"]  g == [kind |-> "created"]
  <2>1. /\ f \in StreamFrame /\ f.kind = "message_start" /\ g \in StreamFrame /\ g.kind = "created"
    BY DEF StreamFrame, Kind
  <2>2. /\ protocol = "anthropic" => frames = <<f>>
        /\ protocol = "responses" => frames = <<g>>
        /\ protocol = "chat" => frames = <<>>
    BY DEF EncoderInit
  <2> HIDE DEF f, g
  <2>3. More(<<>>, f) = <<f>> /\ More(<<>>, g) = <<g>>
    BY DEF More
  <2>4. \A h \in {f, g} : Made(protocol, More(<<>>, h), e) /\ Unended(More(<<>>, h), FALSE)
    <3>1. Resting(e, e)
      BY DEF Resting
    <3> TAKE h \in {f, g}
    <3>2. h \in StreamFrame /\ h.kind \in {"message_start", "created"}
      BY <2>1
    <3>3. Made(protocol, More(<<>>, h), e)
      BY <1>6, <3>1, <3>2, PlainFrame
    <3>4. Unended(More(<<>>, h), FALSE)
      BY <1>5, <1>6, <3>2, UnendedMore DEF Terminals
    <3> QED
      BY <3>3, <3>4
  <2> QED
    BY <1>1, <1>6, <2>2, <2>3, <2>4
<1>8. given \in Seq(Given) /\ Len(given) = 0 /\ ToSet(given) = {}
  BY <1>1 DEF ToSet
<1>9. Made(protocol, frames, encoder)
  BY <1>3, <1>7
<1>10. Unended(frames, encoder.failure)
  <2>1. PICK failed : failed = encoder.failure
    OBVIOUS
  <2>2. failed = FALSE
    BY <1>2, <2>1
  <2>3. Unended(frames, failed)
    BY <1>7, <2>2
  <2> QED
    BY <2>1, <2>3
<1>11. /\ encoder.next <= Len(given) /\ encoder.next <= MaxGiven
       /\ encoder.sequence <= Len(given) /\ encoder.sequence <= MaxGiven
       /\ Len(given) <= MaxGiven + 1
  BY <1>2, <1>8, EncoderAssumption
<1>12. "error" \notin ToSet(given) /\ "stop" \notin ToSet(given) /\ ~encoder.failure
  BY <1>2, <1>8
<1>13. /\ protocol \in {"anthropic", "chat", "responses"} /\ serving \in {"open", "trailer", "over"}
       /\ serving = "open" /\ encoder.terminal = FALSE /\ encoder.done = FALSE
       /\ encoder.textOpen = FALSE
  BY <1>1, <1>2
<1> QED
  BY <1>8, <1>9, <1>10, <1>11, <1>12, <1>13 DEF EncoderInv

LEMMA EncoderInvStep == EncoderInv /\ [EncoderNext]_encoderVars => EncoderInv'
<1> SUFFICES ASSUME EncoderInv, [EncoderNext]_encoderVars
             PROVE  EncoderInv'
  OBVIOUS
<1>1. CASE UNCHANGED encoderVars \/ EncoderDone
  BY <1>1 DEF EncoderDone, encoderVars, EncoderInv
<1> QED
  BY <1>1, ContentStep, FailedStep, StoppedStep, FinishedStep, SilentStep, RaisesStep DEF EncoderNext

LEMMA EncoderInvariant == EncoderSpec => []EncoderInv
BY FirstFrame, EncoderInvStep, PTL DEF EncoderSpec

\* Ended by its message_stop, by an error or by an exception, a stream of each
\* protocol has one terminal frame, after it no more content, and none that
\* passes off as a success what failed before it; one whose generator just
\* returned has no terminal, and no frame that only follows one but the [DONE]
\* of Responses (server/app.py, event_stream, and the stream encoders).
THEOREM StreamsEndHonestly == EncoderSpec => []OneHonestTerminal
<1>1. ASSUME EncoderInv
      PROVE  OneHonestTerminal
  <2> DEFINE end == {i \in DOMAIN frames : frames[i].kind \in Terminals}
  <2>1. CASE serving # "over"
    BY <2>1 DEF OneHonestTerminal
  <2>2. CASE serving = "over" /\ Silent(protocol, frames) /\ "stop" \notin ToSet(given)
    <3>1. end = {} /\ "error" \notin Kinds
      BY <2>2 DEF Silent, Kinds
    <3>2. Kinds \cap {"message_stop", "done"} \subseteq (IF protocol = "responses" THEN {"done"} ELSE {})
      BY <2>2 DEF Silent, Kinds
    <3>3. Cardinality(end) = 0
      BY <3>1, FS_EmptySet
    <3> QED
      BY <2>2, <3>1, <3>2, <3>3 DEF OneHonestTerminal
  <2>3. ASSUME serving = "over", NEW known \in BOOLEAN, NEW how \in BOOLEAN,
               Ended(protocol, frames, known, how), "stop" \in ToSet(given) \/ known
        PROVE  OneHonestTerminal
    <3>1. PICK e \in DOMAIN frames : EndedAt(protocol, frames, known, how, e)
      BY <2>3 DEF Ended
    <3>2. end = {e}
      BY <3>1 DEF EndedAt
    <3>3. Cardinality(end) = 1
      BY <3>2, FS_Singleton
    <3>4. "stop" \in ToSet(given) \/ "error" \in Kinds
      BY <2>3, <3>1 DEF EndedAt, ErrorSeen, Kinds
    <3>5. \A j \in DOMAIN frames :
            frames[j].kind \in {"text", "tool", "start", "delta", "arguments", "item_added"} => j < e
      BY <3>1 DEF EndedAt, Carries
    <3>6. \A j \in Of("error") :
            j < e => /\ frames[e].kind # "completed"
                     /\ "reason" \in DOMAIN frames[e] => frames[e].reason \notin Success
      BY <3>1 DEF EndedAt, Honest, Of
    <3>7. frames[e].kind = "failed" => "done" \notin Kinds
      BY <3>1 DEF EndedAt, Kinds
    <3> HIDE DEF end
    <3>8. \A i \in end :
            /\ \A j \in DOMAIN frames :
                 frames[j].kind \in {"text", "tool", "start", "delta", "arguments", "item_added"} => j < i
            /\ \A j \in Of("error") :
                 j < i => /\ frames[i].kind # "completed"
                          /\ "reason" \in DOMAIN frames[i] => frames[i].reason \notin Success
            /\ frames[i].kind = "failed" => "done" \notin Kinds
      BY <3>2, <3>5, <3>6, <3>7
    <3>9. end # {} /\ Cardinality(end) = IF "stop" \in ToSet(given) \/ "error" \in Kinds THEN 1 ELSE 0
      BY <3>2, <3>3, <3>4
    <3> QED
      BY <3>8, <3>9 DEF OneHonestTerminal, end
  <2> QED
    BY <1>1, <2>1, <2>2, <2>3 DEF EncoderInv
<1> QED
  BY <1>1, EncoderInvariant, PTL

\* A client can put a stream together by the numbers its frames carry: blocks
\* are begun and stopped once, with their pieces in between, tool indexes are
\* used once, and sequence numbers rise (protocols/, the stream encoders).
THEOREM StreamsAssemble == EncoderSpec => []Assemblable
<1>1. ASSUME EncoderInv
      PROVE  Assemblable
  <2>1. Made(protocol, frames, encoder) /\ protocol \in {"anthropic", "chat", "responses"}
    BY <1>1, EncoderFacts
  <2>2. \A k : \A i : Indexed(frames, k) = {} => i \notin Named(frames, k)
    BY DEF Indexed
  <2>3. Once(frames, "start") /\ Once(frames, "stop") /\ Once(frames, "tool")
    BY <2>1, <2>2 DEF Made, Blocks, Once
  <2>4. \A i, j \in DOMAIN frames :
          i < j /\ frames[i].kind = frames[j].kind /\ frames[i].kind \in {"start", "stop", "tool"}
            => frames[i].index # frames[j].index
    BY <2>3 DEF Once, Named
  <2>5. ASSUME protocol = "anthropic"
        PROVE  /\ \A i \in Of("delta") \cup Of("arguments") :
                    /\ \E j \in Of("start") : j < i /\ frames[j].index = frames[i].index
                    /\ ~\E j \in Of("stop") : j < i /\ frames[j].index = frames[i].index
               /\ "message_delta" \in Kinds =>
                    {frames[i].index : i \in Of("start")} = {frames[i].index : i \in Of("stop")}
    <3>1. Blocks(frames, encoder.next, OpenText(encoder))
      BY <2>1, <2>5 DEF Made
    <3>2. \A k : Of(k) = Named(frames, k)
      BY DEF Of, Named
    <3>3. InsideBlocks(frames)
      BY <3>1 DEF Blocks
    <3>4. ASSUME "message_delta" \in Kinds
          PROVE  Indexed(frames, "start") = Indexed(frames, "stop")
      <4>1. serving # "open" /\ ~Silent(protocol, frames)
        BY <1>1, <3>4 DEF EncoderInv, Unended, Silent, Kinds, Terminals
      <4>2. OpenText(encoder) = {}
        BY <1>1, <2>5, <4>1 DEF EncoderInv, OpenText
      <4> QED
        BY <3>1, <4>2 DEF Blocks
    <3> QED
      BY <3>2, <3>3, <3>4 DEF InsideBlocks, Indexed
  <2>6. ASSUME protocol = "responses"
        PROVE  \A i, j \in Of("text") \cup Of("item_added") : i < j => frames[i].index < frames[j].index
    <3>1. Rising(frames, encoder.sequence)
      BY <2>1, <2>6 DEF Made
    <3> QED
      BY <3>1 DEF Rising, Of, Named
  <2> QED
    BY <2>4, <2>5, <2>6 DEF Assemblable
<1> QED
  BY <1>1, EncoderInvariant, PTL

LEMMA EncoderIsTyped ==
  ASSUME EncoderInv
  PROVE  EncoderTypeOK
<1>1. encoder \in Encoder /\ encoder.textIndex <= encoder.next
  BY DEF EncoderInv, Made
<1>2. /\ encoder.next \in 0..MaxGiven /\ encoder.sequence \in 0..MaxGiven
      /\ encoder.textIndex \in 0..MaxGiven
  BY <1>1, EncoderAssumption DEF EncoderInv, Encoder
<1>3. encoder \in [failure : BOOLEAN, terminal : BOOLEAN, failed : BOOLEAN, done : BOOLEAN, usage : BOOLEAN,
                   textOpen : BOOLEAN, textIndex : 0..MaxGiven, next : 0..MaxGiven, sequence : 0..MaxGiven]
  BY <1>1, <1>2 DEF Encoder
<1>4. Len(given) <= MaxGiven + 2
  BY EncoderFacts, EncoderAssumption DEF EncoderInv
<1> QED
  BY <1>3, <1>4 DEF EncoderInv, EncoderTypeOK

\* Types of the encoders' fields, whose numbers never pass the number of the
\* events they were given.
THEOREM EncoderTypeCorrect == EncoderSpec => []EncoderTypeOK
BY EncoderIsTyped, EncoderInvariant, PTL

-----------------------------------------------------------------------------
(* The decoders.  The fold over the events of a frame unfolds, for a frame *)
(* of up to two events, by the function that computes it.                  *)

Absorbs(g, s, es, S) ==
  g = [d \in SUBSET S |-> IF d = {} THEN s ELSE AbsorbOne(g[d \ {Max(d)}], es[Max(d)])]

\* The fold under a name, for the provers that know no operator arguments.
Absorbed(s, es) == FoldLeft(AbsorbOne, s, es)

LEMMA FoldIsAbsorbed ==
  ASSUME NEW s, NEW es
  PROVE  Absorbed(s, es) = (CHOOSE g : Absorbs(g, s, es, DOMAIN es))[DOMAIN es]
BY DEF Absorbed, FoldLeft, MapThenFoldSet, Absorbs

LEMMA MaxOfFirst ==
  /\ Max({1}) = 1 /\ Max({2}) = 2 /\ Max({1, 2}) = 2
<1>1. Max({1}) = 1
  BY DEF Max
<1>2. Max({2}) = 2
  BY DEF Max
<1>3. Max({1, 2}) = 2
  BY DEF Max
<1> QED
  BY <1>1, <1>2, <1>3

LEMMA AbsorbedOne ==
  ASSUME NEW s, NEW e
  PROVE  Absorbed(s, <<e>>) = AbsorbOne(s, e)
<1>1. PICK es : es = <<e>>
  OBVIOUS
<1>2. DOMAIN es = {1} /\ es[1] = e
  BY <1>1
<1>3. PICK t : t = AbsorbOne(s, e)
  OBVIOUS
<1>4. Absorbs([d \in SUBSET {1} |-> IF d = {} THEN s ELSE t], s, es, {1})
  <2>1. SUBSET {1} = {{}, {1}} /\ {1} \ {1} = {}
    OBVIOUS
  <2> DEFINE h == [d \in SUBSET {1} |-> IF d = {} THEN s ELSE t]
  <2>2. h[{}] = s /\ h[{1}] = t
    BY <2>1
  <2>3. \A d \in SUBSET {1} : h[d] = IF d = {} THEN s ELSE AbsorbOne(h[d \ {Max(d)}], es[Max(d)])
    BY <1>2, <1>3, <2>1, <2>2, MaxOfFirst
  <2>4. h = [d \in SUBSET {1} |-> h[d]]
    OBVIOUS
  <2>5. Absorbs(h, s, es, {1})
    <3> HIDE DEF h
    <3> QED
      BY <2>3, <2>4 DEF Absorbs
  <2> QED
    BY <2>5
<1>5. PICK g : g = CHOOSE h : Absorbs(h, s, es, {1})
  OBVIOUS
<1>6. Absorbs(g, s, es, {1})
  BY <1>4, <1>5
<1>7. g[{}] = s /\ g[{1}] = AbsorbOne(g[{1} \ {1}], es[1])
  BY <1>6, MaxOfFirst DEF Absorbs
<1>8. {1} \ {1} = {}
  OBVIOUS
<1>9. g[{1}] = AbsorbOne(s, e)
  BY <1>2, <1>7, <1>8
<1>10. Absorbed(s, es) = (CHOOSE h : Absorbs(h, s, es, DOMAIN es))[DOMAIN es]
  BY FoldIsAbsorbed
<1>11. Absorbed(s, es) = g[{1}]
  BY ONLY <1>2, <1>5, <1>10
<1> QED
  BY ONLY <1>1, <1>9, <1>11

LEMMA AbsorbedTwo ==
  ASSUME NEW s, NEW e, NEW f
  PROVE  Absorbed(s, <<e, f>>) = AbsorbOne(AbsorbOne(s, e), f)
<1>1. PICK es : es = <<e, f>>
  OBVIOUS
<1>2. DOMAIN es = {1, 2} /\ es[1] = e /\ es[2] = f
  BY <1>1
<1>3. PICK t : t = AbsorbOne(s, e)
  OBVIOUS
<1>4. PICK u : u = AbsorbOne(t, f)
  OBVIOUS
<1>5. PICK v : v = AbsorbOne(s, f)
  OBVIOUS
<1> DEFINE h == [d \in SUBSET {1, 2} |-> IF d = {} THEN s ELSE IF d = {1} THEN t ELSE IF d = {2} THEN v ELSE u]
<1>6. SUBSET {1, 2} = {{}, {1}, {2}, {1, 2}} /\ {1} \ {1} = {} /\ {2} \ {2} = {} /\ {1, 2} \ {2} = {1}
  OBVIOUS
<1>7. h[{}] = s /\ h[{1}] = t
  BY <1>6
<1>8. Absorbs(h, s, es, {1, 2})
  <2>1. \A d \in SUBSET {1, 2} : h[d] = IF d = {} THEN s ELSE AbsorbOne(h[d \ {Max(d)}], es[Max(d)])
    <3> TAKE d \in SUBSET {1, 2}
    <3>1. CASE d = {}
      BY <3>1
    <3>2. CASE d = {1}
      BY <1>2, <1>3, <1>6, <1>7, <3>2, MaxOfFirst
    <3>3. CASE d = {2}
      BY <1>2, <1>5, <1>6, <1>7, <3>3, MaxOfFirst
    <3>4. CASE d = {1, 2}
      BY <1>2, <1>4, <1>6, <1>7, <3>4, MaxOfFirst
    <3> QED
      BY <1>6, <3>1, <3>2, <3>3, <3>4
  <2>2. h = [d \in SUBSET {1, 2} |-> h[d]]
    OBVIOUS
  <2> HIDE DEF h
  <2> QED
    BY <2>1, <2>2 DEF Absorbs
<1>9. PICK g : g = CHOOSE k : Absorbs(k, s, es, {1, 2})
  OBVIOUS
<1>10. Absorbs(g, s, es, {1, 2})
  BY <1>8, <1>9
<1>11. /\ g[{}] = s /\ g[{1}] = AbsorbOne(g[{1} \ {1}], es[1])
       /\ g[{1, 2}] = AbsorbOne(g[{1, 2} \ {2}], es[2])
  BY <1>10, MaxOfFirst DEF Absorbs
<1>12. g[{1, 2}] = AbsorbOne(AbsorbOne(s, e), f)
  BY <1>2, <1>6, <1>11
<1>13. Absorbed(s, es) = (CHOOSE k : Absorbs(k, s, es, DOMAIN es))[DOMAIN es]
  BY FoldIsAbsorbed
<1>14. Absorbed(s, es) = g[{1, 2}]
  BY ONLY <1>2, <1>9, <1>13
<1> QED
  BY ONLY <1>1, <1>12, <1>14

LEMMA FrameEffect ==
  ASSUME NEW es, NEW last, Frames(es, last)
  PROVE  /\ reading = "yes" /\ reading' = (IF last THEN "done" ELSE "yes")
         /\ assembly' = IF last THEN CloseAll(Absorbed([assembly |-> assembly, final |-> final], es).assembly)
                        ELSE Absorbed([assembly |-> assembly, final |-> final], es).assembly
BY Zenon DEF Frames, Absorbed

\* What the events do to the calls, whatever they do to the final reason.
LEMMA PartAbsorbed ==
  ASSUME NEW a, NEW f, NEW e, e.type = "fragment"
  PROVE  AbsorbOne([assembly |-> a, final |-> f], e) = [assembly |-> AddPart(a, e), final |-> f]
BY DEF AbsorbOne

LEMMA BatchAbsorbed ==
  ASSUME NEW a, NEW f
  PROVE  AbsorbOne([assembly |-> a, final |-> f], Batch) = [assembly |-> CloseAll(a), final |-> f]
BY DEF AbsorbOne, Batch

LEMMA StopAbsorbed ==
  ASSUME NEW a, NEW f, NEW r
  PROVE  AbsorbOne([assembly |-> a, final |-> f], Stop(r)) = [assembly |-> a, final |-> [f EXCEPT !.stop = r]]
BY DEF AbsorbOne, Stop

LEMMA UsageAbsorbed ==
  ASSUME NEW a, NEW f
  PROVE  AbsorbOne([assembly |-> a, final |-> f], Usage) = [assembly |-> a, final |-> [f EXCEPT !.usage = TRUE]]
BY DEF AbsorbOne, Usage

\* A frame of the calls' events.
LEMMA PartFrame ==
  ASSUME NEW e, e.type = "fragment", Frames(<<e>>, FALSE)
  PROVE  reading = "yes" /\ reading' = "yes" /\ assembly' = AddPart(assembly, e)
<1>1. PICK s : s = [assembly |-> assembly, final |-> final]
  OBVIOUS
<1>2. Absorbed(s, <<e>>) = AbsorbOne(s, e)
  BY AbsorbedOne
<1>3. Absorbed(s, <<e>>).assembly = AddPart(assembly, e)
  <2>1. AbsorbOne(s, e) = [assembly |-> AddPart(assembly, e), final |-> final]
    BY <1>1, PartAbsorbed
  <2> QED
    BY <1>2, <2>1
<1> QED
  BY <1>1, <1>3, FrameEffect

LEMMA BatchFrame ==
  ASSUME Frames(<<Batch>>, FALSE)
  PROVE  reading = "yes" /\ reading' = "yes" /\ assembly' = CloseAll(assembly)
<1>1. PICK s : s = [assembly |-> assembly, final |-> final]
  OBVIOUS
<1>2. Absorbed(s, <<Batch>>) = AbsorbOne(s, Batch)
  BY AbsorbedOne
<1>3. Absorbed(s, <<Batch>>).assembly = CloseAll(assembly)
  <2>1. AbsorbOne(s, Batch) = [assembly |-> CloseAll(assembly), final |-> final]
    BY <1>1, BatchAbsorbed
  <2> QED
    BY <1>2, <2>1
<1> QED
  BY <1>1, <1>3, FrameEffect

LEMMA ReasonFrame ==
  ASSUME NEW r, Frames(<<Usage, Stop(r)>>, FALSE)
  PROVE  reading = "yes" /\ reading' = "yes" /\ assembly' = assembly
<1>1. PICK s : s = [assembly |-> assembly, final |-> final]
  OBVIOUS
<1>2. Absorbed(s, <<Usage, Stop(r)>>) = AbsorbOne(AbsorbOne(s, Usage), Stop(r))
  <2>1. PICK e, f : e = Usage /\ f = Stop(r)
    OBVIOUS
  <2>2. Absorbed(s, <<e, f>>) = AbsorbOne(AbsorbOne(s, e), f)
    BY AbsorbedTwo
  <2> QED
    BY <2>1, <2>2
<1>3. AbsorbOne(s, Usage) = [assembly |-> assembly, final |-> [final EXCEPT !.usage = TRUE]]
  BY <1>1, UsageAbsorbed
<1>4. Absorbed(s, <<Usage, Stop(r)>>).assembly = assembly
  <2>1. PICK f : f = [final EXCEPT !.usage = TRUE]
    OBVIOUS
  <2>2. AbsorbOne([assembly |-> assembly, final |-> f], Stop(r)) = [assembly |-> assembly, final |-> [f EXCEPT !.stop = r]]
    BY StopAbsorbed
  <2> QED
    BY <1>2, <1>3, <2>1, <2>2
<1> QED
  BY <1>1, <1>4, FrameEffect

LEMMA LastFrame ==
  ASSUME NEW r, Frames(<<Stop(r)>>, TRUE)
  PROVE  reading = "yes" /\ reading' = "done" /\ assembly' = CloseAll(assembly)
<1>1. PICK s : s = [assembly |-> assembly, final |-> final]
  OBVIOUS
<1>2. Absorbed(s, <<Stop(r)>>) = AbsorbOne(s, Stop(r))
  BY AbsorbedOne
<1>3. Absorbed(s, <<Stop(r)>>).assembly = assembly
  <2>1. AbsorbOne(s, Stop(r)) = [assembly |-> assembly, final |-> [final EXCEPT !.stop = r]]
    BY <1>1, StopAbsorbed
  <2> QED
    BY <1>2, <2>1
<1> QED
  BY <1>1, <1>3, FrameEffect

LEMMA LastChunk ==
  ASSUME NEW b \in BOOLEAN, NEW e, e = Batch \/ \E r : e = Stop(r),
         Frames((IF b THEN <<Usage>> ELSE <<>>) \o <<e>>, TRUE)
  PROVE  /\ reading = "yes" /\ reading' = "done"
         /\ assembly' \in {CloseAll(assembly), CloseAll(CloseAll(assembly))}
<1>1. PICK es : es = (IF b THEN <<Usage>> ELSE <<>>) \o <<e>>
  OBVIOUS
<1>2. es = <<e>> \/ es = <<Usage, e>>
  <2>1. PICK u : u = Usage
    OBVIOUS
  <2>2. <<u>> \o <<e>> = <<u, e>> /\ <<>> \o <<e>> = <<e>>
    BY Pair
  <2> QED
    BY <1>1, <2>1, <2>2
<1>3. Frames(es, TRUE)
  BY <1>1
<1>4. PICK s : s = Absorbed([assembly |-> assembly, final |-> final], es)
  OBVIOUS
<1>5. reading = "yes" /\ reading' = "done" /\ assembly' = CloseAll(s.assembly)
  BY <1>3, <1>4, FrameEffect
<1>6. \A f : AbsorbOne([assembly |-> assembly, final |-> f], e).assembly \in {assembly, CloseAll(assembly)}
  <2> TAKE f
  <2>1. CASE e = Batch
    <3>1. AbsorbOne([assembly |-> assembly, final |-> f], Batch) = [assembly |-> CloseAll(assembly), final |-> f]
      BY BatchAbsorbed
    <3> QED
      BY <2>1, <3>1
  <2>2. CASE \E r : e = Stop(r)
    <3>1. PICK r : e = Stop(r)
      BY <2>2
    <3>2. AbsorbOne([assembly |-> assembly, final |-> f], Stop(r)) = [assembly |-> assembly, final |-> [f EXCEPT !.stop = r]]
      BY StopAbsorbed
    <3> QED
      BY <3>1, <3>2
  <2> QED
    BY <2>1, <2>2
<1>7. s.assembly \in {assembly, CloseAll(assembly)}
  <2>1. CASE es = <<e>>
    <3>1. s = AbsorbOne([assembly |-> assembly, final |-> final], e)
      BY <1>4, <2>1, AbsorbedOne
    <3> QED
      BY <1>6, <3>1
  <2>2. CASE es = <<Usage, e>>
    <3>1. s = AbsorbOne(AbsorbOne([assembly |-> assembly, final |-> final], Usage), e)
      BY <1>4, <2>2, AbsorbedTwo
    <3>2. s = AbsorbOne([assembly |-> assembly, final |-> [final EXCEPT !.usage = TRUE]], e)
      BY <3>1, UsageAbsorbed
    <3> QED
      BY <1>6, <3>2
  <2> QED
    BY <1>2, <2>1, <2>2
<1> QED
  BY <1>5, <1>7

-----------------------------------------------------------------------------
(* Closing the open calls. *)

Lower(ks, k) == {q \in ks : q < k}

LEMMA CloseNone ==
  ASSUME NEW a, DOMAIN a.open = {}, NEW S, a.closed \in Seq(S)
  PROVE  DOMAIN CloseAll(a).open = {} /\ CloseAll(a).closed = a.closed
<1>1. Cardinality(DOMAIN a.open) = 0
  BY FS_EmptySet
<1> DEFINE at(i) == CHOOSE k \in DOMAIN a.open : Cardinality({q \in DOMAIN a.open : q < k}) = i - 1
           more == [i \in 1..Cardinality(DOMAIN a.open) |-> a.open[at(i)]]
<1>2. more = <<>>
  BY <1>1
<1>3. CloseAll(a) = [open |-> <<>>, closed |-> a.closed \o more]
  BY DEF CloseAll
<1> HIDE DEF more
<1> QED
  BY <1>2, <1>3

LEMMA CloseOne ==
  ASSUME NEW a, NEW k \in Nat, DOMAIN a.open = {k}, NEW S, a.closed \in Seq(S), a.open[k] \in S
  PROVE  DOMAIN CloseAll(a).open = {} /\ CloseAll(a).closed = Append(a.closed, a.open[k])
<1>1. Cardinality(DOMAIN a.open) = 1
  BY FS_Singleton
<1> DEFINE at(i) == CHOOSE j \in DOMAIN a.open : Cardinality({q \in DOMAIN a.open : q < j}) = i - 1
           more == [i \in 1..Cardinality(DOMAIN a.open) |-> a.open[at(i)]]
<1>2. at(1) = k
  <2>1. {q \in DOMAIN a.open : q < k} = {}
    OBVIOUS
  <2>2. Cardinality({q \in DOMAIN a.open : q < k}) = 1 - 1
    <3>1. Cardinality({q \in DOMAIN a.open : q < k}) = 0
      BY <2>1, FS_EmptySet, Zenon
    <3> QED
      BY <3>1
  <2> QED
    BY <2>2
<1>3. more = <<a.open[k]>>
  <2>1. PICK v : v = a.open[k]
    OBVIOUS
  <2> HIDE DEF at
  <2>2. \A i \in 1..1 : a.open[at(i)] = v
    BY <1>2, <2>1
  <2>3. more = [i \in 1..1 |-> v]
    BY <1>1, <2>2
  <2>4. [i \in 1..1 |-> v] = <<v>>
    OBVIOUS
  <2> HIDE DEF more
  <2> QED
    BY ONLY <2>1, <2>3, <2>4
<1>4. CloseAll(a) = [open |-> <<>>, closed |-> a.closed \o more]
  BY DEF CloseAll
<1> HIDE DEF more
<1>5. a.closed \o <<a.open[k]>> = Append(a.closed, a.open[k])
  OBVIOUS
<1> QED
  BY <1>3, <1>4, <1>5

LEMMA CloseMany ==
  ASSUME NEW a, NEW n \in Nat, DOMAIN a.open = 0..(n - 1), a.closed = <<>>
  PROVE  DOMAIN CloseAll(a).open = {} /\ CloseAll(a).closed = [i \in 1..n |-> a.open[i - 1]]
<1>1. Cardinality(0..(n - 1)) = n
  BY FS_Interval
<1> DEFINE at(i) == CHOOSE j \in DOMAIN a.open : Cardinality({q \in DOMAIN a.open : q < j}) = i - 1
           more == [i \in 1..Cardinality(DOMAIN a.open) |-> a.open[at(i)]]
<1>2. \A j \in 0..(n - 1) : Cardinality({q \in DOMAIN a.open : q < j}) = j
  <2> TAKE j \in 0..(n - 1)
  <2>1. {q \in DOMAIN a.open : q < j} = 0..(j - 1)
    OBVIOUS
  <2>2. Cardinality(0..(j - 1)) = j
    BY FS_Interval
  <2> QED
    BY <2>1, <2>2
<1>3. \A i \in 1..n : at(i) = i - 1
  <2> TAKE i \in 1..n
  <2>1. i - 1 \in DOMAIN a.open
    OBVIOUS
  <2>2. \A j \in DOMAIN a.open : Cardinality({q \in DOMAIN a.open : q < j}) = i - 1 => j = i - 1
    BY <1>2
  <2>3. Cardinality({q \in DOMAIN a.open : q < i - 1}) = i - 1
    BY <1>2
  <2> QED
    BY <2>1, <2>2, <2>3
<1>4. more = [i \in 1..n |-> a.open[i - 1]]
  <2> HIDE DEF at
  <2> QED
    BY <1>1, <1>3
<1>5. CloseAll(a) = [open |-> <<>>, closed |-> a.closed \o more]
  BY DEF CloseAll
<1> HIDE DEF more
<1>6. <<>> \o [i \in 1..n |-> a.open[i - 1]] = [i \in 1..n |-> a.open[i - 1]]
  <2> DEFINE f == [i \in 1..n |-> a.open[i - 1]]
  <2>1. f \in Seq({f[i] : i \in 1..n})
    <3>1. f \in [1..n -> {f[i] : i \in 1..n}]
      OBVIOUS
    <3> HIDE DEF f
    <3> QED
      BY <3>1
  <2> HIDE DEF f
  <2>2. <<>> \o f = f
    BY <2>1
  <2> QED
    BY <2>2 DEF f
<1> QED
  BY <1>4, <1>5, <1>6

-----------------------------------------------------------------------------
(* The calls the accumulator holds are the backend's.                      *)

TheCall(m, k) == [name |-> <<k>>, args |-> [i \in 1..m[k] |-> <<k, i>>]]

Calls(m, n) == [k \in 1..n |-> TheCall(m, k)]

NoCall == [name |-> <<>>, args |-> <<>>]

Joined(c, n, g) == [name |-> c.name \o n, args |-> c.args \o g]

LEMMA OnePieceMore ==
  ASSUME NEW k, NEW n \in Nat
  PROVE  [i \in 1..n |-> <<k, i>>] \o <<<<k, n + 1>>>> = [i \in 1..(n + 1) |-> <<k, i>>]
<1> DEFINE S == {<<k, i>> : i \in Nat}
           f == [i \in 1..n |-> <<k, i>>]
           g == [i \in 1..(n + 1) |-> <<k, i>>]
<1>1. PICK p : p = <<k, n + 1>>
  OBVIOUS
<1>2. f \in Seq(S) /\ Len(f) = n /\ p \in S /\ g \in Seq(S) /\ Len(g) = n + 1
  <2>1. f \in [1..n -> S] /\ g \in [1..(n + 1) -> S] /\ p \in S
    BY <1>1
  <2> HIDE DEF f, g, S
  <2> QED
    BY <2>1
<1>3. \A i \in 1..n : f[i] = g[i]
  OBVIOUS
<1>4. g[n + 1] = p
  BY <1>1
<1> HIDE DEF f, g, S
<1>5. f \o <<p>> = g
  BY <1>2, <1>3, <1>4
<1> QED
  BY <1>1, <1>5 DEF f, g

LEMMA PartAdded ==
  ASSUME NEW o, NEW c, NEW x, NEW n, NEW g, NEW r,
         r = AddPart([open |-> o, closed |-> c], Part(x, n, g))
  PROVE  /\ r = [open |-> r.open, closed |-> c]
         /\ DOMAIN r.open = DOMAIN o \cup {x}
         /\ \A i \in DOMAIN o : i # x => r.open[i] = o[i]
         /\ x \in DOMAIN o => r.open[x] = Joined(o[x], n, g)
         /\ x \notin DOMAIN o => r.open[x] = Joined(NoCall, n, g)
<1>1. PICK old : old = IF x \in DOMAIN o THEN o[x] ELSE NoCall
  OBVIOUS
<1>2. PICK new : new = Joined(old, n, g)
  OBVIOUS
<1>3. r = [open |-> [i \in DOMAIN o \cup {x} |-> IF i = x THEN new ELSE o[i]], closed |-> c]
  BY <1>1, <1>2 DEF AddPart, Part, NoCall, Joined
<1>4. r.open = [i \in DOMAIN o \cup {x} |-> IF i = x THEN new ELSE o[i]]
  BY <1>3
<1>5. /\ DOMAIN r.open = DOMAIN o \cup {x} /\ r.open[x] = new
      /\ \A i \in DOMAIN o : i # x => r.open[i] = o[i]
  BY <1>4
<1>6. r = [open |-> r.open, closed |-> c]
  BY <1>3, <1>4
<1> QED
  BY <1>1, <1>2, <1>5, <1>6

LEMMA CallsAreASequence ==
  ASSUME NEW m, NEW n \in Nat
  PROVE  /\ Calls(m, n) \in Seq({TheCall(m, k) : k \in 1..n})
         /\ Len(Calls(m, n)) = n
<1> DEFINE S == {TheCall(m, k) : k \in 1..n}
<1>1. Calls(m, n) \in [1..n -> S]
  BY DEF Calls
<1> HIDE DEF S
<1>2. Calls(m, n) \in Seq(S) /\ Len(Calls(m, n)) = n
  BY <1>1
<1> QED
  BY <1>2 DEF S

LEMMA OneCallMore ==
  ASSUME NEW m, NEW n \in Nat \ {0}
  PROVE  Append(Calls(m, n - 1), TheCall(m, n)) = Calls(m, n)
<1> DEFINE S == {TheCall(m, k) : k \in 1..n}
           f == Calls(m, n - 1)
           g == Calls(m, n)
<1>1. PICK p : p = TheCall(m, n)
  OBVIOUS
<1>2. f \in Seq(S) /\ Len(f) = n - 1 /\ g \in Seq(S) /\ Len(g) = n /\ p \in S
  <2>1. f \in [1..(n - 1) -> S] /\ g \in [1..n -> S] /\ p \in S
    BY <1>1 DEF Calls
  <2> HIDE DEF f, g, S
  <2> QED
    BY <2>1
<1>3. \A i \in 1..(n - 1) : f[i] = g[i]
  BY DEF Calls
<1>4. g[n] = p
  BY <1>1 DEF Calls
<1> HIDE DEF f, g, S
<1>5. Append(f, p) = g
  BY <1>2, <1>3, <1>4
<1> QED
  BY <1>1, <1>5 DEF f, g

-----------------------------------------------------------------------------
\* While frames are read, a Chat Completions turn has all its calls open, by
\* index; an Anthropic turn has closed those of the blocks that stopped, and
\* the block it is in, if any, is the last call.
Held == assembly = [open |-> assembly.open, closed |-> assembly.closed]

ChatInv ==
  /\ DOMAIN assembly.open = 0..(Len(made) - 1)
  /\ \A k \in 1..Len(made) : assembly.open[k - 1] = TheCall(made, k)
  /\ assembly.closed = <<>>

BetweenBlocks ==
  DOMAIN assembly.open = {} /\ assembly.closed = Calls(made, Len(made))

InBlock ==
  /\ current = Len(made) /\ said.stop = "none"
  /\ DOMAIN assembly.open = {current} /\ assembly.open[current] = TheCall(made, current)
  /\ assembly.closed = Calls(made, current - 1)

CodecInv ==
  /\ made \in Seq(Nat) /\ upstream \in Protocols /\ current \in Nat
  /\ upstream \in {"chat", "anthropic"} => Held
  /\ reading = "yes" /\ upstream = "chat" => ChatInv
  /\ reading = "yes" /\ upstream = "anthropic" =>
       IF current = 0 THEN BetweenBlocks ELSE InBlock
  /\ CallsFaithful

LEMMA IntendedIsCalls ==
  ASSUME made \in Seq(Nat)
  PROVE  Intended = Calls(made, Len(made))
BY DEF Intended, Calls, TheCall

LEMMA ClosedIsHeld ==
  ASSUME NEW a
  PROVE  CloseAll(a) = [open |-> CloseAll(a).open, closed |-> CloseAll(a).closed]
<1> DEFINE at(i) == CHOOSE j \in DOMAIN a.open : Cardinality({q \in DOMAIN a.open : q < j}) = i - 1
           more == [i \in 1..Cardinality(DOMAIN a.open) |-> a.open[at(i)]]
<1>1. CloseAll(a) = [open |-> <<>>, closed |-> a.closed \o more]
  BY DEF CloseAll
<1> HIDE DEF more
<1> QED
  BY <1>1

LEMMA CodecInvInit == CodecInit => CodecInv
<1> SUFFICES ASSUME CodecInit PROVE CodecInv
  OBVIOUS
<1>1. made = <<>> /\ Len(made) = 0 /\ made \in Seq(Nat)
  BY DEF CodecInit
<1>2. assembly = [open |-> <<>>, closed |-> <<>>] /\ DOMAIN assembly.open = {} /\ assembly.closed = <<>>
  BY DEF CodecInit
<1>3. Calls(made, Len(made)) = <<>>
  BY <1>1 DEF Calls
<1>4. ChatInv /\ BetweenBlocks /\ Held
  BY <1>1, <1>2, <1>3 DEF ChatInv, BetweenBlocks, Held
<1>5. upstream \in Protocols /\ current = 0 /\ reading = "yes"
  BY DEF CodecInit
<1> QED
  BY <1>1, <1>4, <1>5 DEF CodecInv, CallsFaithful, Whole

LEMMA PartEffect ==
  ASSUME Held, NEW x, NEW n, NEW g, assembly' = AddPart(assembly, Part(x, n, g))
  PROVE  /\ Held' /\ assembly'.closed = assembly.closed
         /\ DOMAIN assembly'.open = DOMAIN assembly.open \cup {x}
         /\ \A i \in DOMAIN assembly.open : i # x => assembly'.open[i] = assembly.open[i]
         /\ x \in DOMAIN assembly.open => assembly'.open[x] = Joined(assembly.open[x], n, g)
         /\ x \notin DOMAIN assembly.open => assembly'.open[x] = Joined(NoCall, n, g)
<1>1. PICK o, c : o = assembly.open /\ c = assembly.closed
  OBVIOUS
<1>2. PICK r : r = assembly'
  OBVIOUS
<1>3. assembly = [open |-> o, closed |-> c]
  BY <1>1 DEF Held
<1>4. r = AddPart([open |-> o, closed |-> c], Part(x, n, g))
  BY <1>2, <1>3
<1>5. /\ r = [open |-> r.open, closed |-> c]
      /\ DOMAIN r.open = DOMAIN o \cup {x}
      /\ \A i \in DOMAIN o : i # x => r.open[i] = o[i]
      /\ x \in DOMAIN o => r.open[x] = Joined(o[x], n, g)
      /\ x \notin DOMAIN o => r.open[x] = Joined(NoCall, n, g)
  BY <1>4, PartAdded
<1>6. r.closed = c
  BY <1>5
<1> QED
  BY <1>1, <1>2, <1>5, <1>6 DEF Held

\* A call begun by the fragment with its name.
LEMMA BeginEffect ==
  ASSUME made \in Seq(Nat), Held, NEW n \in Nat, n = Len(made) + 1, NEW x,
         x \notin DOMAIN assembly.open, made' = Append(made, 0),
         Frames(<<Part(x, <<n>>, <<>>)>>, FALSE)
  PROVE  /\ reading = "yes" /\ reading' = "yes"
         /\ made' \in Seq(Nat) /\ Len(made') = n
         /\ \A k \in 1..Len(made) : TheCall(made', k) = TheCall(made, k)
         /\ Held' /\ assembly'.closed = assembly.closed
         /\ DOMAIN assembly'.open = DOMAIN assembly.open \cup {x}
         /\ \A i \in DOMAIN assembly.open : i # x => assembly'.open[i] = assembly.open[i]
         /\ assembly'.open[x] = TheCall(made', n)
<1>1. PICK b, g : b = <<n>> /\ g = <<>>
  OBVIOUS
<1>2. /\ made' \in Seq(Nat) /\ Len(made') = n /\ made'[n] = 0
      /\ \A k \in 1..Len(made) : made'[k] = made[k]
  OBVIOUS
<1>3. \A k \in 1..Len(made) : TheCall(made', k) = TheCall(made, k)
  BY <1>2 DEF TheCall
<1>4. TheCall(made', n) = Joined(NoCall, b, g)
  <2>1. [i \in 1..made'[n] |-> <<n, i>>] = <<>>
    BY <1>2
  <2>2. <<>> \o <<n>> = <<n>> /\ <<>> \o <<>> = <<>>
    OBVIOUS
  <2> QED
    BY <1>1, <2>1, <2>2 DEF TheCall, Joined, NoCall
<1>5. Part(x, b, g).type = "fragment" /\ Frames(<<Part(x, b, g)>>, FALSE)
  BY <1>1 DEF Part
<1>6. reading = "yes" /\ reading' = "yes" /\ assembly' = AddPart(assembly, Part(x, b, g))
  BY <1>5, PartFrame
<1>7. /\ Held' /\ assembly'.closed = assembly.closed
      /\ DOMAIN assembly'.open = DOMAIN assembly.open \cup {x}
      /\ \A i \in DOMAIN assembly.open : i # x => assembly'.open[i] = assembly.open[i]
      /\ assembly'.open[x] = Joined(NoCall, b, g)
  BY <1>6, PartEffect
<1> QED
  BY <1>2, <1>3, <1>4, <1>6, <1>7

\* The next piece of a call's arguments.
LEMMA ExtendEffect ==
  ASSUME made \in Seq(Nat), Held, NEW k \in DOMAIN made, NEW x \in DOMAIN assembly.open,
         assembly.open[x] = TheCall(made, k), made' = [made EXCEPT ![k] = @ + 1],
         Frames(<<Part(x, <<>>, <<<<k, made[k] + 1>>>>)>>, FALSE)
  PROVE  /\ reading = "yes" /\ reading' = "yes"
         /\ made' \in Seq(Nat) /\ Len(made') = Len(made)
         /\ \A j \in 1..Len(made) : j # k => TheCall(made', j) = TheCall(made, j)
         /\ Held' /\ assembly'.closed = assembly.closed
         /\ DOMAIN assembly'.open = DOMAIN assembly.open
         /\ \A i \in DOMAIN assembly.open : i # x => assembly'.open[i] = assembly.open[i]
         /\ assembly'.open[x] = TheCall(made', k)
<1>1. PICK b, g : b = <<>> /\ g = <<<<k, made[k] + 1>>>>
  OBVIOUS
<1>2. /\ made' \in Seq(Nat) /\ Len(made') = Len(made) /\ made'[k] = made[k] + 1 /\ made[k] \in Nat
      /\ \A j \in 1..Len(made) : j # k => made'[j] = made[j]
  OBVIOUS
<1>3. \A j \in 1..Len(made) : j # k => TheCall(made', j) = TheCall(made, j)
  BY <1>2 DEF TheCall
<1>4. TheCall(made', k) = Joined(TheCall(made, k), b, g)
  <2>1. [i \in 1..made[k] |-> <<k, i>>] \o <<<<k, made[k] + 1>>>> = [i \in 1..made'[k] |-> <<k, i>>]
    BY <1>2, OnePieceMore
  <2>2. <<k>> \o <<>> = <<k>>
    OBVIOUS
  <2> QED
    BY <1>1, <2>1, <2>2 DEF TheCall, Joined
<1>5. Part(x, b, g).type = "fragment" /\ Frames(<<Part(x, b, g)>>, FALSE)
  BY <1>1 DEF Part
<1>6. reading = "yes" /\ reading' = "yes" /\ assembly' = AddPart(assembly, Part(x, b, g))
  BY <1>5, PartFrame
<1>7. /\ Held' /\ assembly'.closed = assembly.closed
      /\ DOMAIN assembly'.open = DOMAIN assembly.open \cup {x}
      /\ \A i \in DOMAIN assembly.open : i # x => assembly'.open[i] = assembly.open[i]
      /\ assembly'.open[x] = Joined(assembly.open[x], b, g)
  BY <1>6, PartEffect
<1> QED
  BY <1>2, <1>3, <1>4, <1>6, <1>7

LEMMA ChatCallKept ==
  ASSUME CodecInv, ChatCall
  PROVE  CodecInv'
<1>1. made \in Seq(Nat) /\ current \in Nat
  BY DEF CodecInv
<1>2. PICK n \in Nat : n = Len(made) + 1
  BY <1>1
<1>3. PICK x \in Nat : x = n - 1
  BY <1>1, <1>2
<1>4. /\ upstream = "chat" /\ upstream' = upstream /\ current' = current
      /\ made' = Append(made, 0)
      /\ Frames(<<Part(x, <<n>>, <<>>)>>, FALSE)
  BY <1>2, <1>3 DEF ChatCall, Begin, Next1
<1>5. reading = "yes"
  BY <1>4 DEF Frames
<1>6. Held /\ ChatInv
  BY <1>4, <1>5 DEF CodecInv
<1>7. DOMAIN assembly.open = 0..(Len(made) - 1) /\ assembly.closed = <<>>
  BY <1>6 DEF ChatInv
<1>8. x \notin DOMAIN assembly.open
  BY <1>1, <1>2, <1>3, <1>7
<1>9. /\ reading' = "yes"
      /\ made' \in Seq(Nat) /\ Len(made') = n
      /\ \A k \in 1..Len(made) : TheCall(made', k) = TheCall(made, k)
      /\ Held' /\ assembly'.closed = assembly.closed
      /\ DOMAIN assembly'.open = DOMAIN assembly.open \cup {x}
      /\ \A i \in DOMAIN assembly.open : i # x => assembly'.open[i] = assembly.open[i]
      /\ assembly'.open[x] = TheCall(made', n)
  BY <1>1, <1>2, <1>4, <1>6, <1>8, BeginEffect
<1>10. ChatInv'
  <2>1. DOMAIN assembly'.open = 0..(n - 1)
    BY <1>1, <1>2, <1>3, <1>7, <1>9
  <2>2. ASSUME NEW k \in 1..n
        PROVE  assembly'.open[k - 1] = TheCall(made', k)
    <3>1. CASE k = n
      BY <1>3, <1>9, <3>1
    <3>2. CASE k # n
      <4>1. k \in 1..Len(made) /\ k - 1 \in DOMAIN assembly.open /\ k - 1 # x
        BY <1>1, <1>2, <1>3, <1>7, <3>2
      <4>2. assembly.open[k - 1] = TheCall(made, k)
        BY <1>6, <4>1 DEF ChatInv
      <4> QED
        BY <1>9, <4>1, <4>2
    <3> QED
      BY <3>1, <3>2
  <2> QED
    BY <1>7, <1>9, <2>1, <2>2 DEF ChatInv
<1> QED
  BY <1>1, <1>4, <1>9, <1>10 DEF CodecInv, CallsFaithful, Whole, Protocols

LEMMA ChatArgumentsKept ==
  ASSUME CodecInv, ChatArguments
  PROVE  CodecInv'
<1>1. made \in Seq(Nat) /\ current \in Nat
  BY DEF CodecInv
<1>2. PICK k \in DOMAIN made :
        made' = [made EXCEPT ![k] = @ + 1] /\ Frames(<<Part(k - 1, <<>>, <<<<k, made[k] + 1>>>>)>>, FALSE)
  BY DEF ChatArguments, Extend
<1>3. upstream = "chat" /\ upstream' = upstream /\ current' = current
  BY DEF ChatArguments
<1>4. reading = "yes"
  BY <1>2 DEF Frames
<1>5. Held /\ ChatInv
  BY <1>3, <1>4 DEF CodecInv
<1>6. DOMAIN assembly.open = 0..(Len(made) - 1) /\ assembly.closed = <<>>
  BY <1>5 DEF ChatInv
<1>7. k \in 1..Len(made) /\ k - 1 \in DOMAIN assembly.open /\ assembly.open[k - 1] = TheCall(made, k)
  BY <1>1, <1>5, <1>6 DEF ChatInv
<1>8. /\ reading' = "yes"
      /\ made' \in Seq(Nat) /\ Len(made') = Len(made)
      /\ \A j \in 1..Len(made) : j # k => TheCall(made', j) = TheCall(made, j)
      /\ Held' /\ assembly'.closed = assembly.closed
      /\ DOMAIN assembly'.open = DOMAIN assembly.open
      /\ \A i \in DOMAIN assembly.open : i # k - 1 => assembly'.open[i] = assembly.open[i]
      /\ assembly'.open[k - 1] = TheCall(made', k)
  BY <1>1, <1>2, <1>5, <1>7, ExtendEffect
<1>9. ChatInv'
  <2>1. ASSUME NEW j \in 1..Len(made)
        PROVE  assembly'.open[j - 1] = TheCall(made', j)
    <3>1. CASE j = k
      BY <1>8, <3>1
    <3>2. CASE j # k
      <4>1. j - 1 \in DOMAIN assembly.open /\ j - 1 # k - 1
        BY <1>1, <1>6, <1>7, <3>2
      <4>2. assembly.open[j - 1] = TheCall(made, j)
        BY <1>5 DEF ChatInv
      <4> QED
        BY <1>8, <3>2, <4>1, <4>2
    <3> QED
      BY <3>1, <3>2
  <2> QED
    BY <1>6, <1>8, <2>1 DEF ChatInv
<1> QED
  BY <1>1, <1>3, <1>8, <1>9 DEF CodecInv, CallsFaithful, Whole, Protocols

LEMMA ChatFinishKept ==
  ASSUME CodecInv, ChatFinish
  PROVE  CodecInv'
<1>1. made \in Seq(Nat) /\ Len(made) \in Nat /\ current \in Nat
  BY DEF CodecInv
<1>2. PICK reason \in TurnReason, b \in BOOLEAN :
        Frames((IF b THEN <<Usage>> ELSE <<>>) \o <<IF reason = "tool" THEN Batch ELSE Stop(reason)>>, TRUE)
  BY DEF ChatFinish
<1>3. upstream = "chat" /\ upstream' = upstream /\ current' = current /\ made' = made
  BY DEF ChatFinish
<1>4. PICK e : e = IF reason = "tool" THEN Batch ELSE Stop(reason)
  OBVIOUS
<1>5. /\ e = Batch \/ \E r : e = Stop(r)
      /\ Frames((IF b THEN <<Usage>> ELSE <<>>) \o <<e>>, TRUE)
  BY <1>2, <1>4
<1>6. /\ reading = "yes" /\ reading' = "done"
      /\ assembly' \in {CloseAll(assembly), CloseAll(CloseAll(assembly))}
  BY <1>5, LastChunk
<1>7. Held /\ ChatInv
  BY <1>3, <1>6 DEF CodecInv
<1>8. PICK a : a = CloseAll(assembly)
  OBVIOUS
<1>9. DOMAIN a.open = {} /\ a.closed = [i \in 1..Len(made) |-> assembly.open[i - 1]]
  BY <1>1, <1>7, <1>8, CloseMany DEF ChatInv
<1>10. a.closed = Calls(made, Len(made))
  BY <1>7, <1>9 DEF ChatInv, Calls
<1>11. CloseAll(a).closed = a.closed
  <2>1. a.closed \in Seq({TheCall(made, k) : k \in 1..Len(made)})
    BY <1>1, <1>10, CallsAreASequence
  <2> QED
    BY <1>9, <2>1, CloseNone
<1>12. assembly'.closed = Calls(made, Len(made))
  BY <1>6, <1>8, <1>10, <1>11
<1>13. Held'
  <2>1. a = [open |-> a.open, closed |-> a.closed]
    BY <1>8, ClosedIsHeld
  <2>2. CloseAll(a) = [open |-> CloseAll(a).open, closed |-> CloseAll(a).closed]
    BY ClosedIsHeld
  <2> QED
    BY <1>6, <1>8, <2>1, <2>2 DEF Held
<1>14. CallsFaithful'
  <2>1. Intended = Calls(made, Len(made))
    BY <1>1, IntendedIsCalls
  <2>2. Intended' = Intended
    BY <1>3 DEF Intended
  <2> QED
    BY <1>12, <2>1, <2>2 DEF CallsFaithful
<1> QED
  BY <1>1, <1>3, <1>6, <1>13, <1>14 DEF CodecInv, Protocols

\* What an Anthropic turn knows before a frame.
LEMMA AnthropicHolds ==
  ASSUME CodecInv, reading = "yes", upstream = "anthropic"
  PROVE  /\ made \in Seq(Nat) /\ Len(made) \in Nat /\ current \in Nat
         /\ Held
         /\ IF current = 0 THEN BetweenBlocks ELSE InBlock
BY DEF CodecInv

LEMMA AnthropicStartKept ==
  ASSUME CodecInv, AnthropicStart
  PROVE  CodecInv'
<1>1. reading = "yes" /\ upstream = "anthropic" /\ upstream' = upstream /\ current = 0 /\ said.stop = "none"
  BY DEF AnthropicStart, Frames
<1>2. made \in Seq(Nat) /\ Len(made) \in Nat /\ Held /\ BetweenBlocks
  BY <1>1, AnthropicHolds
<1>3. PICK n \in Nat : n = Len(made) + 1
  BY <1>2
<1>4. made' = Append(made, 0) /\ current' = n /\ said' = said /\ Frames(<<Part(n, <<n>>, <<>>)>>, FALSE)
  BY <1>3 DEF AnthropicStart, Begin, Next1
<1>5. DOMAIN assembly.open = {} /\ assembly.closed = Calls(made, Len(made))
  BY <1>2 DEF BetweenBlocks
<1>6. /\ reading' = "yes"
      /\ made' \in Seq(Nat) /\ Len(made') = n
      /\ \A k \in 1..Len(made) : TheCall(made', k) = TheCall(made, k)
      /\ Held' /\ assembly'.closed = assembly.closed
      /\ DOMAIN assembly'.open = DOMAIN assembly.open \cup {n}
      /\ assembly'.open[n] = TheCall(made', n)
  BY <1>2, <1>3, <1>4, <1>5, BeginEffect
<1>7. Calls(made', n - 1) = Calls(made, Len(made))
  <2>1. n - 1 = Len(made)
    BY <1>2, <1>3
  <2> QED
    BY <1>6, <2>1 DEF Calls
<1>8. InBlock' /\ current' # 0
  BY <1>1, <1>3, <1>4, <1>5, <1>6, <1>7 DEF InBlock
<1> QED
  BY <1>1, <1>3, <1>4, <1>6, <1>8 DEF CodecInv, CallsFaithful, Whole, Protocols

LEMMA AnthropicDeltaKept ==
  ASSUME CodecInv, AnthropicDelta
  PROVE  CodecInv'
<1>1. reading = "yes" /\ upstream = "anthropic" /\ upstream' = upstream /\ current' = current /\ current > 0
  BY DEF AnthropicDelta, Frames
<1>2. made \in Seq(Nat) /\ Len(made) \in Nat /\ current \in Nat /\ Held /\ InBlock
  BY <1>1, AnthropicHolds
<1>3. PICK k : k = current
  OBVIOUS
<1>4. /\ k \in DOMAIN made /\ k = Len(made) /\ k \in DOMAIN assembly.open
      /\ assembly.open[k] = TheCall(made, k)
  BY <1>1, <1>2, <1>3 DEF InBlock
<1>5. /\ made' = [made EXCEPT ![k] = @ + 1] /\ said' = said
      /\ Frames(<<Part(k, <<>>, <<<<k, made[k] + 1>>>>)>>, FALSE)
  BY <1>3 DEF AnthropicDelta, Extend
<1>6. /\ reading' = "yes"
      /\ made' \in Seq(Nat) /\ Len(made') = Len(made)
      /\ \A j \in 1..Len(made) : j # k => TheCall(made', j) = TheCall(made, j)
      /\ Held' /\ assembly'.closed = assembly.closed
      /\ DOMAIN assembly'.open = DOMAIN assembly.open
      /\ assembly'.open[k] = TheCall(made', k)
  BY <1>2, <1>4, <1>5, ExtendEffect
<1>7. Calls(made', k - 1) = Calls(made, k - 1)
  <2>1. \A j \in 1..(k - 1) : j \in 1..Len(made) /\ j # k
    BY <1>2, <1>4
  <2> QED
    BY <1>6, <2>1 DEF Calls
<1>8. InBlock'
  BY <1>1, <1>2, <1>3, <1>4, <1>5, <1>6, <1>7 DEF InBlock
<1> QED
  BY <1>1, <1>2, <1>6, <1>8 DEF CodecInv, CallsFaithful, Whole, Protocols

\* A block stop, or the end of the stream, closes what is open of its calls.
LEMMA AnthropicCloses ==
  ASSUME CodecInv, reading = "yes", upstream = "anthropic"
  PROVE  DOMAIN CloseAll(assembly).open = {} /\ CloseAll(assembly).closed = Calls(made, Len(made))
<1>0. /\ made \in Seq(Nat) /\ Len(made) \in Nat /\ current \in Nat
      /\ IF current = 0 THEN BetweenBlocks ELSE InBlock
  BY AnthropicHolds
<1>1. CASE current = 0
  <2>1. DOMAIN assembly.open = {} /\ assembly.closed = Calls(made, Len(made))
    BY <1>0, <1>1 DEF BetweenBlocks
  <2>2. Calls(made, Len(made)) \in Seq({TheCall(made, k) : k \in 1..Len(made)})
    BY <1>0, CallsAreASequence
  <2> QED
    BY <2>1, <2>2, CloseNone
<1>2. CASE current # 0
  <2>1. PICK k \in Nat \ {0} : k = current
    BY <1>0, <1>2
  <2>2. /\ k = Len(made) /\ DOMAIN assembly.open = {k} /\ assembly.open[k] = TheCall(made, k)
        /\ assembly.closed = Calls(made, k - 1)
    BY <1>0, <1>2, <2>1 DEF InBlock
  <2> DEFINE S == {TheCall(made, j) : j \in 1..(k - 1)} \cup {TheCall(made, k)}
  <2>3. assembly.closed \in Seq(S)
    <3>1. Calls(made, k - 1) \in Seq({TheCall(made, j) : j \in 1..(k - 1)})
      BY CallsAreASequence
    <3> QED
      BY <2>2, <3>1
  <2>4. assembly.open[k] \in S
    BY <2>2
  <2> HIDE DEF S
  <2>5. /\ DOMAIN CloseAll(assembly).open = {}
        /\ CloseAll(assembly).closed = Append(assembly.closed, assembly.open[k])
    BY <2>2, <2>3, <2>4, CloseOne
  <2>6. Append(Calls(made, k - 1), TheCall(made, k)) = Calls(made, k)
    BY OneCallMore
  <2> QED
    BY <2>2, <2>5, <2>6
<1> QED
  BY <1>1, <1>2

LEMMA AnthropicBlockStopKept ==
  ASSUME CodecInv, AnthropicBlockStop
  PROVE  CodecInv'
<1>1. upstream = "anthropic" /\ upstream' = upstream /\ current' = 0 /\ made' = made /\ Frames(<<Batch>>, FALSE)
  BY DEF AnthropicBlockStop
<1>2. reading = "yes" /\ reading' = "yes" /\ assembly' = CloseAll(assembly)
  BY <1>1, BatchFrame
<1>3. /\ made \in Seq(Nat) /\ Len(made) \in Nat /\ current \in Nat
      /\ IF current = 0 THEN BetweenBlocks ELSE InBlock
  BY <1>1, <1>2, AnthropicHolds
<1>4. BetweenBlocks'
  <2>1. DOMAIN CloseAll(assembly).open = {} /\ CloseAll(assembly).closed = Calls(made, Len(made))
    BY <1>1, <1>2, AnthropicCloses
  <2> QED
    BY <1>1, <1>2, <2>1 DEF BetweenBlocks
<1>5. Held'
  BY <1>2, ClosedIsHeld DEF Held
<1> QED
  BY <1>1, <1>2, <1>3, <1>4, <1>5 DEF CodecInv, CallsFaithful, Whole, Protocols

LEMMA AnthropicMessageDeltaKept ==
  ASSUME CodecInv, AnthropicMessageDelta
  PROVE  CodecInv'
<1>1. PICK r \in TurnReason : Frames(<<Usage, Stop(r)>>, FALSE)
  BY DEF AnthropicMessageDelta
<1>2. upstream = "anthropic" /\ upstream' = upstream /\ current = 0 /\ current' = 0 /\ made' = made
  BY DEF AnthropicMessageDelta
<1>3. reading = "yes" /\ reading' = "yes" /\ assembly' = assembly
  BY <1>1, ReasonFrame
<1>4. made \in Seq(Nat) /\ Held /\ BetweenBlocks
  BY <1>2, <1>3, AnthropicHolds
<1>5. Held' /\ BetweenBlocks'
  BY <1>2, <1>3, <1>4 DEF Held, BetweenBlocks
<1> QED
  BY <1>2, <1>3, <1>4, <1>5 DEF CodecInv, CallsFaithful, Whole, Protocols

LEMMA AnthropicMessageStopKept ==
  ASSUME CodecInv, AnthropicMessageStop
  PROVE  CodecInv'
<1>1. /\ upstream = "anthropic" /\ upstream' = upstream /\ current' = current /\ made' = made
      /\ said.stop # "none" /\ Frames(<<Stop("end")>>, TRUE)
  BY DEF AnthropicMessageStop
<1>2. reading = "yes" /\ reading' = "done" /\ assembly' = CloseAll(assembly)
  BY <1>1, LastFrame
<1>3. /\ made \in Seq(Nat) /\ Len(made) \in Nat /\ current \in Nat
      /\ IF current = 0 THEN BetweenBlocks ELSE InBlock
  BY <1>1, <1>2, AnthropicHolds
<1>4. BetweenBlocks
  BY <1>1, <1>3 DEF InBlock
<1>5. assembly'.closed = Calls(made, Len(made))
  <2>1. DOMAIN assembly.open = {} /\ assembly.closed = Calls(made, Len(made))
    BY <1>4 DEF BetweenBlocks
  <2>2. Calls(made, Len(made)) \in Seq({TheCall(made, k) : k \in 1..Len(made)})
    BY <1>3, CallsAreASequence
  <2>3. CloseAll(assembly).closed = assembly.closed
    BY <2>1, <2>2, CloseNone
  <2> QED
    BY <1>2, <2>1, <2>3
<1>6. Held'
  BY <1>2, ClosedIsHeld DEF Held
<1>7. CallsFaithful'
  <2>1. Intended = Calls(made, Len(made))
    BY <1>3, IntendedIsCalls
  <2>2. Intended' = Intended
    BY <1>1 DEF Intended
  <2> QED
    BY <1>5, <2>1, <2>2 DEF CallsFaithful
<1> QED
  BY <1>1, <1>2, <1>3, <1>6, <1>7 DEF CodecInv, Protocols

\* The other two protocols: only the types of their own calls.
LEMMA OtherKept ==
  ASSUME CodecInv, upstream \in {"responses", "ollama"}, upstream' = upstream,
         made' \in Seq(Nat), current' \in Nat
  PROVE  CodecInv'
BY DEF CodecInv, CallsFaithful, Protocols

LEMMA OtherStepKept ==
  ASSUME CodecInv,
         \/ ResponsesItem \/ ResponsesDelta \/ ResponsesDone \/ ResponsesEnd \/ OllamaChunk
  PROVE  CodecInv'
<1>1. made \in Seq(Nat) /\ Len(made) \in Nat /\ current \in Nat
  BY DEF CodecInv
<1>2. CASE ResponsesItem
  <2>1. upstream = "responses" /\ upstream' = upstream /\ made' = Append(made, 0) /\ current' = Len(made) + 1
    BY <1>2 DEF ResponsesItem, Begin, Next1
  <2>2. made' \in Seq(Nat) /\ current' \in Nat
    BY <1>1, <2>1
  <2> QED
    BY <2>1, <2>2, OtherKept
<1>3. CASE ResponsesDelta
  <2>1. /\ upstream = "responses" /\ upstream' = upstream /\ current' = current
        /\ made' = [made EXCEPT ![current] = @ + 1]
    BY <1>3 DEF ResponsesDelta, Extend
  <2>2. made' \in Seq(Nat)
    <3>1. CASE current \in DOMAIN made
      BY <1>1, <2>1, <3>1
    <3>2. CASE current \notin DOMAIN made
      <4>1. made \in [1..Len(made) -> Nat] /\ DOMAIN made = 1..Len(made)
        BY <1>1
      <4>2. made' \in [1..Len(made) -> Nat]
        BY <2>1, <3>2, <4>1
      <4> QED
        BY <1>1, <4>2
    <3> QED
      BY <3>1, <3>2
  <2> QED
    BY <1>1, <2>1, <2>2, OtherKept
<1>4. CASE ResponsesDone
  <2>1. upstream = "responses" /\ upstream' = upstream /\ made' = made /\ current' = 0
    BY <1>4 DEF ResponsesDone
  <2> QED
    BY <1>1, <2>1, OtherKept
<1>5. CASE ResponsesEnd
  <2>1. upstream = "responses" /\ upstream' = upstream /\ made' = made /\ current' = current
    BY <1>5 DEF ResponsesEnd
  <2> QED
    BY <1>1, <2>1, OtherKept
<1>6. CASE OllamaChunk
  <2>1. upstream = "ollama" /\ upstream' = upstream /\ current' = current
    BY <1>6 DEF OllamaChunk
  <2>2. PICK n \in 0..(MaxMade - Len(made)) : made' = made \o [i \in 1..n |-> 1]
    BY <1>6 DEF OllamaChunk
  <2>3. made' \in Seq(Nat)
    <3> DEFINE ones == [i \in 1..n |-> 1]
    <3>1. n \in Nat /\ ones \in [1..n -> Nat]
      OBVIOUS
    <3> HIDE DEF ones
    <3>2. ones \in Seq(Nat)
      BY <3>1
    <3>3. made \o ones \in Seq(Nat)
      BY <1>1, <3>2
    <3> QED
      BY <2>2, <3>3 DEF ones
  <2> QED
    BY <1>1, <2>1, <2>3, OtherKept
<1> QED
  BY <1>2, <1>3, <1>4, <1>5, <1>6

\* The stream runs out: the calls as far as they have come.
LEMMA RunsOutKept ==
  ASSUME CodecInv, RunsOut
  PROVE  CodecInv'
<1>1. /\ reading = "yes" /\ reading' = "done" /\ assembly' = CloseAll(assembly)
      /\ upstream' = upstream /\ made' = made /\ current' = current
  BY DEF RunsOut
<1>2. made \in Seq(Nat) /\ Len(made) \in Nat /\ current \in Nat /\ upstream \in Protocols
  BY DEF CodecInv
<1>3. CASE upstream \in {"responses", "ollama"}
  BY <1>1, <1>2, <1>3, OtherKept
<1>4. CASE upstream \in {"chat", "anthropic"}
  <2>1. CloseAll(assembly).closed = Calls(made, Len(made))
    <3>1. CASE upstream = "anthropic"
      BY <1>1, <3>1, AnthropicCloses
    <3>2. CASE upstream = "chat"
      <4>1. ChatInv
        BY <1>1, <3>2 DEF CodecInv
      <4>2. CloseAll(assembly).closed = [i \in 1..Len(made) |-> assembly.open[i - 1]]
        BY <1>2, <4>1, CloseMany DEF ChatInv
      <4> QED
        BY <4>1, <4>2 DEF ChatInv, Calls
    <3> QED
      BY <1>4, <3>1, <3>2
  <2>2. Held'
    BY <1>1, ClosedIsHeld DEF Held
  <2>3. CallsFaithful'
    <3>1. Intended = Calls(made, Len(made))
      BY <1>2, IntendedIsCalls
    <3>2. Intended' = Intended
      BY <1>1 DEF Intended
    <3> QED
      BY <1>1, <2>1, <3>1, <3>2 DEF CallsFaithful
  <2> QED
    BY <1>1, <1>2, <1>4, <2>2, <2>3 DEF CodecInv
<1> QED
  BY <1>2, <1>3, <1>4 DEF Protocols

LEMMA QuietKept ==
  ASSUME CodecInv, CutShort \/ UNCHANGED codecVars
  PROVE  CodecInv'
<1>1. /\ upstream' = upstream /\ made' = made /\ current' = current /\ said' = said
      /\ assembly' = assembly /\ reading' \in {reading, "error"}
  BY DEF CutShort, codecVars
<1>2. Held' = Held /\ ChatInv' = ChatInv /\ BetweenBlocks' = BetweenBlocks /\ InBlock' = InBlock
  BY <1>1 DEF Held, ChatInv, BetweenBlocks, InBlock
<1>3. Intended' = Intended
  BY <1>1 DEF Intended
<1> QED
  BY <1>1, <1>2, <1>3 DEF CodecInv, CallsFaithful, Whole

\* Behind Chat Completions and Anthropic backends, for any number of calls in
\* any number of pieces, a turn that ends, or runs out, has exactly the
\* calls the backend made, in their order, each with its own name and pieces.
THEOREM CallsArriveAsMade == CodecSpec => []CallsFaithful
<1>1. CodecInit => CodecInv
  BY CodecInvInit
<1>2. CodecInv /\ [CodecNext]_codecVars => CodecInv'
  <2> SUFFICES ASSUME CodecInv, [CodecNext]_codecVars PROVE CodecInv'
    OBVIOUS
  <2>1. CASE ChatCall \/ ChatArguments \/ ChatFinish
    BY <2>1, ChatCallKept, ChatArgumentsKept, ChatFinishKept
  <2>2. CASE AnthropicStart \/ AnthropicDelta \/ AnthropicBlockStop
    BY <2>2, AnthropicStartKept, AnthropicDeltaKept, AnthropicBlockStopKept
  <2>3. CASE AnthropicMessageDelta \/ AnthropicMessageStop
    BY <2>3, AnthropicMessageDeltaKept, AnthropicMessageStopKept
  <2>4. CASE ResponsesItem \/ ResponsesDelta \/ ResponsesDone \/ ResponsesEnd \/ OllamaChunk
    BY <2>4, OtherStepKept
  <2>5. CASE CutShort \/ CodecDone \/ UNCHANGED codecVars
    BY <2>5, QuietKept DEF CodecDone
  <2>6. CASE RunsOut
    BY <2>6, RunsOutKept
  <2> QED
    BY <2>1, <2>2, <2>3, <2>4, <2>5, <2>6 DEF CodecNext
<1>3. CodecInv => CallsFaithful
  BY DEF CodecInv
<1> QED
  BY <1>1, <1>2, <1>3, PTL DEF CodecSpec

-----------------------------------------------------------------------------
(* A fold over any number of bytes or of events: it is there, and what each *)
(* step keeps is kept by the whole.                                         *)

\* A set of subsets of a finite set has a smallest member.
LEMMA SmallestSet ==
  ASSUME NEW S, IsFiniteSet(S), NEW C \in SUBSET (SUBSET S), C # {}
  PROVE  \E A \in C : \A B \in C : B \subseteq A => B = A
<1>1. IsWellFoundedOn(StrictSubsetOrdering(S), SUBSET S)
  BY FS_StrictSubsetOrderingWellFounded, FS_FiniteSubsetsOfFinite
<1>2. PICK A \in C : \A B \in C : ~ (<<B, A>> \in StrictSubsetOrdering(S))
  BY <1>1, WFMin, Zenon
<1> QED
  BY <1>2 DEF StrictSubsetOrdering

\* A set of numbers has a smallest one.
LEMMA SomeMin ==
  ASSUME NEW S \in SUBSET Nat, S # {}
  PROVE  Min(S) \in S /\ \A k \in S : Min(S) <= k
<1>1. PICK n \in S : TRUE
  OBVIOUS
<1>2. PICK T : T = 0 .. n
  OBVIOUS
<1> DEFINE C == {D \in SUBSET T : \E m \in S : D = 0 .. m}
<1>3. C \in SUBSET (SUBSET T) /\ T \in C
  BY <1>1, <1>2
<1>4. PICK A \in C : \A B \in C : B \subseteq A => B = A
  <2>1. 0 \in Int /\ n \in Int
    BY <1>1
  <2>2. IsFiniteSet(T)
    BY <1>2, <2>1, FS_Interval
  <2> HIDE DEF C
  <2> QED
    BY <1>3, <2>2, SmallestSet
<1>5. PICK m \in S : A = 0 .. m /\ m <= n
  <2>1. PICK m \in S : A = 0 .. m
    BY <1>4
  <2>2. m \in 0 .. m
    BY <2>1
  <2> QED
    BY <1>2, <1>4, <2>1, <2>2
<1>6. ASSUME NEW k \in S, k < m PROVE FALSE
  <2>1. 0 .. k \in C /\ 0 .. k \subseteq A /\ m \in A /\ m \notin 0 .. k
    BY <1>1, <1>2, <1>5, <1>6
  <2> QED
    BY <2>1, <1>4
<1>7. \A k \in S : m <= k
  BY <1>6
<1> QED
  BY <1>5, <1>7 DEF Min

\* A set of numbers up to n has a largest one, which is n if n is in it.
LEMMA SomeMax ==
  ASSUME NEW n \in Nat, NEW S \in SUBSET (0 .. n), S # {}
  PROVE  Max(S) \in S /\ (\A k \in S : k <= Max(S)) /\ (n \in S => Max(S) = n)
<1> DEFINE R == {n - k : k \in S}
<1>1. R \in SUBSET Nat /\ R # {}
  <2>1. \A k \in S : n - k \in Nat
    OBVIOUS
  <2> QED
    BY <2>1
<1>2. PICK r : r = Min(R)
  OBVIOUS
<1>3. r \in R /\ \A k \in R : r <= k
  <2> HIDE DEF R
  <2> QED
    BY <1>1, <1>2, SomeMin
<1>4. PICK m \in S : r = n - m
  BY <1>3
<1>5. ASSUME NEW k \in S PROVE k <= m
  <2>1. n - k \in R
    OBVIOUS
  <2>2. r <= n - k
    BY <2>1, <1>3
  <2> QED
    BY <2>2, <1>4
<1>6. \E x \in S : \A y \in S : x >= y
  BY <1>4, <1>5
<1>7. PICK x : x = Max(S)
  OBVIOUS
<1>8. x \in S /\ \A y \in S : x >= y
  BY <1>6, <1>7 DEF Max
<1>9. (\A k \in S : k <= x) /\ (n \in S => x = n)
  BY <1>8
<1> QED
  BY <1>7, <1>8, <1>9

\* The next byte of a chunk, the next event of a frame, or the next number.
Taken(how, x, e) ==
  CASE how = "bytes" -> Byte(x, e)
    [] how = "events" -> AbsorbOne(x, e)
    [] how = "numbers" -> x + e

Takes(g, how, s, es, S) ==
  g = [d \in SUBSET S |-> IF d = {} THEN s ELSE Taken(how, g[d \ {Max(d)}], es[Max(d)])]

\* Whether there is a fold over the first n.
Foldable(how, s, es, n) == \E g : Takes(g, how, s, es, 1 .. n)

LEMMA OneMoreFolds ==
  ASSUME NEW how, NEW s, NEW es, NEW j \in Nat, Foldable(how, s, es, j)
  PROVE  Foldable(how, s, es, j + 1)
<1>1. PICK f : Takes(f, how, s, es, 1 .. j)
  BY DEF Foldable
<1>2. PICK k \in Nat : k = j + 1
  OBVIOUS
<1> DEFINE g == [d \in SUBSET (1 .. k) |->
                   IF d \in SUBSET (1 .. j) THEN f[d] ELSE Taken(how, f[d \ {k}], es[k])]
           h == [d \in SUBSET (1 .. k) |-> IF d = {} THEN s ELSE Taken(how, g[d \ {Max(d)}], es[Max(d)])]
<1>3. /\ g = [d \in SUBSET (1 .. k) |-> g[d]]
      /\ \A d \in SUBSET (1 .. k) : g[d] = IF d \in SUBSET (1 .. j) THEN f[d] ELSE Taken(how, f[d \ {k}], es[k])
  OBVIOUS
<1> HIDE DEF g
<1>4. ASSUME NEW d \in SUBSET (1 .. k)
      PROVE  g[d] = IF d = {} THEN s ELSE Taken(how, g[d \ {Max(d)}], es[Max(d)])
  <2>1. CASE d \in SUBSET (1 .. j)
    <3>1. PICK e : e = d \ {Max(d)}
      OBVIOUS
    <3>2. e \in SUBSET (1 .. j) /\ e \in SUBSET (1 .. k)
      BY <2>1, <3>1
    <3>3. g[d] = f[d] /\ g[e] = f[e]
      BY <2>1, <3>2, <1>3
    <3>4. f[d] = IF d = {} THEN s ELSE Taken(how, f[e], es[Max(d)])
      BY <2>1, <3>1, <1>1 DEF Takes
    <3> QED
      BY <3>1, <3>3, <3>4
  <2>2. CASE d \notin SUBSET (1 .. j)
    <3>1. k \in d
      BY <2>2, <1>2
    <3>2. d # {} /\ d \in SUBSET (0 .. k)
      BY <3>1
    <3>3. Max(d) = k
      BY <3>1, <3>2, SomeMax
    <3>4. PICK e : e = d \ {k}
      OBVIOUS
    <3>5. e \in SUBSET (1 .. j) /\ e \in SUBSET (1 .. k)
      BY <1>2, <3>4
    <3>6. g[d] = Taken(how, f[e], es[k]) /\ g[e] = f[e]
      BY <2>2, <3>4, <3>5, <1>3
    <3> QED
      BY <3>2, <3>3, <3>4, <3>6
  <2> QED
    BY <2>1, <2>2
<1>5. g = h
  BY <1>3, <1>4
<1>6. Takes(g, how, s, es, 1 .. k)
  BY <1>5 DEF Takes
<1> QED
  BY <1>2, <1>6 DEF Foldable

LEMMA AllFold ==
  ASSUME NEW how, NEW s, NEW es, NEW n \in Nat
  PROVE  Foldable(how, s, es, n)
<1> DEFINE C == {k \in Nat : ~ Foldable(how, s, es, k)}
<1>1. CASE C = {}
  BY <1>1
<1>2. CASE C # {}
  <2>1. PICK k : k = Min(C)
    OBVIOUS
  <2>2. k \in C /\ \A j \in C : k <= j
    <3>1. C \in SUBSET Nat
      OBVIOUS
    <3> HIDE DEF C
    <3> QED
      BY <1>2, <2>1, <3>1, SomeMin
  <2>3. CASE k = 0
    <3>1. 1 .. k = {}
      BY <2>3
    <3> DEFINE g == [d \in SUBSET {} |-> s]
    <3>2. \A d \in SUBSET {} : d = {}
      OBVIOUS
    <3>3. g = [d \in SUBSET {} |-> IF d = {} THEN s ELSE Taken(how, g[d \ {Max(d)}], es[Max(d)])]
      BY <3>2
    <3> HIDE DEF g
    <3>4. Takes(g, how, s, es, 1 .. k)
      BY <3>1, <3>3 DEF Takes
    <3> QED
      BY <2>2, <3>4 DEF Foldable
  <2>4. CASE k # 0
    <3>1. PICK j \in Nat : k = j + 1
      <4>1. k - 1 \in Nat /\ k = (k - 1) + 1
        BY <2>2, <2>4
      <4> QED
        BY <4>1
    <3>2. Foldable(how, s, es, j)
      BY <2>2, <3>1
    <3>3. Foldable(how, s, es, j + 1)
      BY <3>2, OneMoreFolds
    <3> QED
      BY <2>2, <3>1, <3>3
  <2> QED
    BY <2>3, <2>4
<1> QED
  BY <1>1, <1>2

-----------------------------------------------------------------------------
(* The types of the framing and of the decoders.                            *)

\* A decoder between two bytes, its record no larger than a line may be.
Decoding(d) ==
  /\ d = [line |-> d.line, data |-> d.data, size |-> d.size, total |-> d.total, frames |-> d.frames, error |-> d.error]
  /\ d.line \in Seq(Bytes) /\ d.data \in Seq(Nat) /\ d.size \in 0..MaxLine /\ d.total \in Nat

\* An accumulator whose open calls are known by numbers within the bound.
Assembled(a) == a = [open |-> a.open, closed |-> a.closed] /\ DOMAIN a.open \subseteq 0..MaxMade
Endings == [stop : Reasons \cup {"none"}, usage : BOOLEAN]
Assembling(s) == s = [assembly |-> s.assembly, final |-> s.final] /\ Assembled(s.assembly) /\ s.final \in Endings

\* What a frame decodes into.
Event(e) ==
  \/ e \in {Batch, Usage} \/ \E r \in Reasons : e = Stop(r)
  \/ \E i \in 0..MaxMade, n, g \in {e.name, e.args} : e = Part(i, n, g)

LEMMA PartIsEvent == ASSUME NEW i \in 0..MaxMade, NEW n, NEW g PROVE Event(Part(i, n, g))
<1>1. Part(i, n, g).name = n /\ Part(i, n, g).args = g
  BY DEF Part
<1> QED
  BY <1>1 DEF Event

\* The length of what is left of a line without its line end.
LEMMA ChompedLengths ==
  ASSUME NEW line \in Seq(Bytes)
  PROVE  Len(Chomp(line)) \in Nat /\ Len(ChompAll(line)) \in Nat
<1>1. PICK n \in Nat : n = Len(line) /\ DOMAIN line = 1 .. n
  OBVIOUS
<1>2. PICK S : S = {0} \cup {i \in DOMAIN line : line[i] # "r"}
  OBVIOUS
<1>3. PICK m : m = Max(S)
  OBVIOUS
<1>4. m \in 0 .. n
  <2>1. S \in SUBSET (0 .. n) /\ S # {}
    BY <1>1, <1>2
  <2>2. Max(S) \in S
    BY <2>1, SomeMax
  <2> QED
    BY <1>3, <2>1, <2>2
<1>5. ChompAll(line) = SubSeq(line, 1, m)
  BY <1>2, <1>3 DEF ChompAll
<1>6. Len(SubSeq(line, 1, m)) \in Nat
  BY <1>1, <1>4
<1>7. Chomp(line) = line \/ Chomp(line) = SubSeq(line, 1, n - 1)
  BY <1>1 DEF Chomp, Front
<1>8. line # <<>> => Len(SubSeq(line, 1, n - 1)) \in Nat
  BY <1>1
<1>9. line = <<>> => Chomp(line) = line
  BY DEF Chomp
<1> QED
  BY <1>1, <1>5, <1>6, <1>7, <1>8, <1>9

LEMMA JSONLineKeeps ==
  ASSUME NEW d, Decoding(d), NEW raw
  PROVE  Decoding(JSONLine(d, raw))
<1>1. PICK x : x = ChompAll(raw)
  OBVIOUS
<1>2. PICK item : item = JSONItem(x)
  OBVIOUS
<1>3. JSONLine(d, raw) = IF x = <<>> THEN [d EXCEPT !.line = <<>>]
                         ELSE [[d EXCEPT !.line = <<>>] EXCEPT !.frames = Append(@, item)]
  BY <1>1, <1>2 DEF JSONLine
<1>4. PICK l, a, z, t, fs, e : d = [line |-> l, data |-> a, size |-> z, total |-> t, frames |-> fs, error |-> e]
  BY DEF Decoding
<1>5. a \in Seq(Nat) /\ z \in 0..MaxLine /\ t \in Nat
  BY <1>4 DEF Decoding
<1>6. JSONLine(d, raw) = [line |-> <<>>, data |-> a, size |-> z, total |-> t,
                          frames |-> IF x = <<>> THEN fs ELSE Append(fs, item), error |-> e]
  BY <1>3, <1>4
<1>7. <<>> \in Seq(Bytes)
  OBVIOUS
<1> QED
  BY <1>5, <1>6, <1>7 DEF Decoding

LEMMA EmitKeeps == ASSUME NEW d, Decoding(d) PROVE Decoding(Emit(d))
<1>1. PICK l, a, z, t, fs, e : d = [line |-> l, data |-> a, size |-> z, total |-> t, frames |-> fs, error |-> e]
  BY DEF Decoding
<1>2. l \in Seq(Bytes) /\ t \in Nat
  BY <1>1 DEF Decoding
<1>3. PICK none, more : none = <<>> /\ more = Append(fs, a)
  OBVIOUS
<1>4. Emit(d) = [d EXCEPT !.frames = more, !.data = none, !.size = 0]
  BY <1>1, <1>3 DEF Emit
<1>5. Emit(d) = [line |-> l, data |-> none, size |-> 0, total |-> t, frames |-> more, error |-> e]
  BY <1>1, <1>4
<1>6. <<>> \in Seq(Nat) /\ 0 \in 0..MaxLine
  BY FramingAssumption
<1> QED
  BY <1>2, <1>3, <1>5, <1>6 DEF Decoding

LEMMA FailedKeeps == ASSUME NEW d, Decoding(d) PROVE Decoding(Failed(d))
<1>1. PICK l, a, z, t, fs, e : d = [line |-> l, data |-> a, size |-> z, total |-> t, frames |-> fs, error |-> e]
  BY DEF Decoding
<1>2. l \in Seq(Bytes) /\ a \in Seq(Nat) /\ z \in 0..MaxLine /\ t \in Nat
  BY <1>1 DEF Decoding
<1>3. PICK yes : yes = TRUE
  OBVIOUS
<1>4. Failed(d) = [d EXCEPT !.error = yes]
  BY <1>3 DEF Failed
<1>5. Failed(d) = [line |-> l, data |-> a, size |-> z, total |-> t, frames |-> fs, error |-> yes]
  BY <1>1, <1>4
<1> QED
  BY <1>2, <1>5 DEF Decoding

\* Whether a record has too much data with one more line of it.
TooMuch(d, n) == FoldLeft(LAMBDA a, b : a + b, n, d.data) > MaxData

LEMMA SSELineKeeps ==
  ASSUME NEW d, Decoding(d), NEW raw \in Seq(Bytes)
  PROVE  Decoding(SSELine(d, raw))
<1>1. PICK x : x = Chomp(raw)
  OBVIOUS
<1>2. PICK y : y = ChompAll(x)
  OBVIOUS
<1>3. PICK w : w = [d EXCEPT !.line = <<>>, !.total = @ + Len(x) + 1, !.size = @ + Len(x) + 1]
  OBVIOUS
<1>4. SSELine(d, raw) = IF w.total > MaxTotal \/ w.size > MaxLine THEN Failed(d)
                        ELSE CASE y = <<>> -> Emit(w)
                               [] y # <<>> /\ y[1] = "x" ->
                                    IF TooMuch(d, Len(y)) THEN Failed(d)
                                    ELSE [w EXCEPT !.data = Append(@, Len(y))]
                               [] OTHER -> w
  BY <1>1, <1>2, <1>3, Zenon DEF SSELine, TooMuch
<1>5. x \in Seq(Bytes) /\ Len(x) \in Nat /\ Len(y) \in Nat
  <2>1. x \in Seq(Bytes)
    <3>1. PICK n \in Nat : n = Len(raw)
      OBVIOUS
    <3>2. CASE raw = <<>>
      BY <1>1, <3>2 DEF Chomp
    <3>3. CASE raw # <<>>
      <4>1. SubSeq(raw, 1, n - 1) \in Seq(Bytes)
        BY <3>1, <3>3
      <4>2. x = raw \/ x = SubSeq(raw, 1, n - 1)
        BY <1>1, <3>1 DEF Chomp, Front
      <4> QED
        BY <4>1, <4>2
    <3> QED
      BY <3>2, <3>3
  <2> QED
    BY <1>2, <2>1, ChompedLengths
<1>6. PICK l, a, z, t, fs, e : d = [line |-> l, data |-> a, size |-> z, total |-> t, frames |-> fs, error |-> e]
  BY DEF Decoding
<1>7. a \in Seq(Nat) /\ z \in 0..MaxLine /\ t \in Nat
  BY <1>6 DEF Decoding
<1>8. PICK k \in Nat : k = Len(x) + 1
  BY <1>5
<1>9. <<>> \in Seq(Bytes)
  OBVIOUS
<1>10. PICK none \in Seq(Bytes) : none = <<>>
  BY <1>9
<1>11. PICK z2, t2 \in Nat : z2 = z + k /\ t2 = t + k
  BY <1>7, <1>8
<1>12. d.total + Len(x) + 1 = t2 /\ d.size + Len(x) + 1 = z2
  BY <1>5, <1>6, <1>7, <1>8, <1>11
<1>13. w = [d EXCEPT !.line = none, !.total = t2, !.size = z2]
  BY <1>3, <1>10, <1>12
<1>14. w = [line |-> none, data |-> a, size |-> z2, total |-> t2, frames |-> fs, error |-> e]
  BY <1>6, <1>13
<1>15. ASSUME w.size <= MaxLine PROVE Decoding(w)
  <2>1. z2 \in 0..MaxLine
    BY <1>11, <1>14, <1>15, FramingAssumption
  <2>2. /\ w.line = none /\ w.data = a /\ w.size = z2 /\ w.total = t2 /\ w.frames = fs /\ w.error = e
    BY <1>14
  <2>3. w = [line |-> w.line, data |-> w.data, size |-> w.size, total |-> w.total, frames |-> w.frames, error |-> w.error]
    BY <1>14, <2>2
  <2> QED
    BY <1>7, <1>10, <1>11, <2>1, <2>2, <2>3 DEF Decoding
<1>16. CASE w.total > MaxTotal \/ w.size > MaxLine
  <2>1. PICK f : f = Failed(d)
    OBVIOUS
  <2>2. SSELine(d, raw) = f
    BY <1>4, <1>16, <2>1
  <2> QED
    BY <2>1, <2>2, FailedKeeps
<1>17. CASE ~(w.total > MaxTotal \/ w.size > MaxLine)
  <2>1. Decoding(w)
    BY <1>11, <1>14, <1>15, <1>17, FramingAssumption
  <2>2. CASE y = <<>>
    <3>1. SSELine(d, raw) = Emit(w)
      BY <1>4, <1>17, <2>2
    <3> QED
      BY <2>1, <3>1, EmitKeeps
  <2>3. CASE y # <<>> /\ y[1] = "x"
    <3>1. PICK v : v = [w EXCEPT !.data = Append(@, Len(y))]
      OBVIOUS
    <3>2. SSELine(d, raw) = Failed(d) \/ SSELine(d, raw) = v
      BY <1>4, <1>17, <2>3, <3>1
    <3>3. Append(a, Len(y)) \in Seq(Nat)
      BY <1>5, <1>7
    <3>4. PICK b \in Seq(Nat) : b = Append(a, Len(y))
      BY <3>3
    <3>5. v = [w EXCEPT !.data = b]
      BY <1>14, <3>1, <3>4
    <3>6. v = [line |-> none, data |-> b, size |-> z2, total |-> t2, frames |-> fs, error |-> e]
      BY <1>14, <3>5
    <3>7. z2 \in 0..MaxLine /\ t2 \in Nat
      BY <1>14, <2>1 DEF Decoding
    <3>8. Decoding(v)
      BY <1>10, <3>6, <3>7 DEF Decoding
    <3> QED
      BY <3>2, <3>8, FailedKeeps
  <2>4. CASE y # <<>> /\ y[1] # "x"
    <3>1. SSELine(d, raw) = w
      BY <1>4, <1>17, <2>4
    <3> QED
      BY <2>1, <3>1
  <2> QED
    BY <2>2, <2>3, <2>4
<1> QED
  BY <1>16, <1>17

LEMMA ByteKeeps ==
  ASSUME NEW d, Decoding(d), NEW b \in Bytes
  PROVE  Decoding(Byte(d, b))
<1>1. d.line \in Seq(Bytes)
  BY DEF Decoding
<1>2. PICK v : v = [d EXCEPT !.line = Append(@, b)]
  OBVIOUS
<1>3. Decoding(v)
  <2>1. PICK l, a, z, t, fs, e : d = [line |-> l, data |-> a, size |-> z, total |-> t, frames |-> fs, error |-> e]
    BY DEF Decoding
  <2>2. l \in Seq(Bytes) /\ a \in Seq(Nat) /\ z \in 0..MaxLine /\ t \in Nat
    BY <2>1 DEF Decoding
  <2>3. Append(l, b) \in Seq(Bytes)
    BY <2>2
  <2>4. PICK m \in Seq(Bytes) : m = Append(l, b)
    BY <2>3
  <2>5. v = [d EXCEPT !.line = m]
    BY <1>2, <2>1, <2>4
  <2>6. v = [line |-> m, data |-> a, size |-> z, total |-> t, frames |-> fs, error |-> e]
    BY <2>1, <2>5
  <2> QED
    BY <2>2, <2>6 DEF Decoding
<1>4. Byte(d, b) \in {d, v, SSELine(d, d.line), JSONLine(d, d.line)}
  BY <1>2 DEF Byte
<1> QED
  BY <1>1, <1>3, <1>4, SSELineKeeps, JSONLineKeeps

\* A state of the fold, and what it goes over.
Fit(how, x) == IF how = "bytes" THEN Decoding(x) ELSE Assembling(x)
Fits(how, e) == IF how = "bytes" THEN e \in Bytes ELSE Event(e)

LEMMA ClosesAll ==
  ASSUME NEW a
  PROVE  Assembled(CloseAll(a))
<1>1. PICK none, more : CloseAll(a) = [open |-> none, closed |-> more] /\ none = <<>>
  BY Zenon DEF CloseAll
<1>2. CloseAll(a).open = none /\ CloseAll(a).closed = more
  BY <1>1
<1>3. DOMAIN <<>> = {}
  OBVIOUS
<1> QED
  BY <1>1, <1>2, <1>3 DEF Assembled

\* One event, as the frame loop takes it.
LEMMA EventKeeps ==
  ASSUME NEW s, Assembling(s), NEW e, Event(e)
  PROVE  Assembling(AbsorbOne(s, e))
<1>1. PICK a, f : s = [assembly |-> a, final |-> f]
  BY DEF Assembling
<1>2. Assembled(a) /\ f \in Endings
  BY <1>1 DEF Assembling
<1>3. PICK st \in Reasons \cup {"none"}, u \in BOOLEAN : f = [stop |-> st, usage |-> u]
  BY <1>2 DEF Endings
<1>4. ASSUME NEW a2, NEW f2, Assembled(a2), f2 \in Endings, AbsorbOne(s, e) = [assembly |-> a2, final |-> f2]
      PROVE  Assembling(AbsorbOne(s, e))
  <2>1. AbsorbOne(s, e).assembly = a2 /\ AbsorbOne(s, e).final = f2
    BY <1>4
  <2> QED
    BY <1>4, <2>1 DEF Assembling
<1>5. CASE e = Batch
  <2>1. AbsorbOne(s, e) = [assembly |-> CloseAll(a), final |-> f]
    BY <1>1, <1>5, BatchAbsorbed
  <2>2. PICK a2 : a2 = CloseAll(a)
    OBVIOUS
  <2> QED
    BY <1>2, <1>4, <2>1, <2>2, ClosesAll
<1>6. CASE e = Usage
  <2>1. PICK yes \in BOOLEAN : yes = TRUE
    OBVIOUS
  <2>2. PICK f2 : f2 = [f EXCEPT !.usage = TRUE]
    OBVIOUS
  <2>3. f2 = [f EXCEPT !.usage = yes]
    BY <2>1, <2>2, Zenon
  <2>4. f2 = [stop |-> st, usage |-> yes]
    BY <1>3, <2>3
  <2>5. f2 \in Endings
    BY <2>4 DEF Endings
  <2>6. AbsorbOne(s, e) = [assembly |-> a, final |-> f2]
    BY <1>1, <1>6, <2>2, UsageAbsorbed, Zenon
  <2> QED
    BY <1>2, <1>4, <2>5, <2>6
<1>7. CASE \E r \in Reasons : e = Stop(r)
  <2>1. PICK r \in Reasons : e = Stop(r)
    BY <1>7
  <2>2. PICK f2 : f2 = [f EXCEPT !.stop = r]
    OBVIOUS
  <2>3. f2 = [stop |-> r, usage |-> u]
    BY <1>3, <2>2
  <2>4. f2 \in Endings
    BY <2>3 DEF Endings
  <2>5. AbsorbOne(s, e) = [assembly |-> a, final |-> f2]
    BY <1>1, <2>1, <2>2, StopAbsorbed, Zenon
  <2> QED
    BY <1>2, <1>4, <2>4, <2>5
<1>8. CASE \E i \in 0..MaxMade, n, g \in {e.name, e.args} : e = Part(i, n, g)
  <2>1. PICK i \in 0..MaxMade, n, g \in {e.name, e.args} : e = Part(i, n, g)
    BY <1>8
  <2>2. PICK o, c : a = [open |-> o, closed |-> c]
    BY <1>2 DEF Assembled
  <2>3. DOMAIN o \subseteq 0..MaxMade
    BY <1>2, <2>2 DEF Assembled
  <2>4. PICK a2 : a2 = AddPart(a, e)
    OBVIOUS
  <2>5. a2 = [open |-> a2.open, closed |-> c] /\ DOMAIN a2.open = DOMAIN o \cup {i}
    BY <2>1, <2>2, <2>4, PartAdded
  <2>6. a2 = [open |-> a2.open, closed |-> a2.closed]
    BY <2>5
  <2>7. Assembled(a2)
    BY <2>1, <2>3, <2>5, <2>6 DEF Assembled
  <2>8. e.type = "fragment"
    BY <2>1 DEF Part
  <2>9. AbsorbOne(s, e) = [assembly |-> a2, final |-> f]
    BY <1>1, <2>4, <2>8, PartAbsorbed
  <2> QED
    BY <1>2, <1>4, <2>7, <2>9
<1> QED
  BY <1>5, <1>6, <1>7, <1>8 DEF Event

LEMMA TakenKeeps ==
  ASSUME NEW how \in {"bytes", "events"}, NEW x, Fit(how, x), NEW e, Fits(how, e)
  PROVE  Fit(how, Taken(how, x, e))
<1>1. CASE how = "bytes"
  <2>1. Decoding(x) /\ e \in Bytes /\ Taken(how, x, e) = Byte(x, e)
    BY <1>1 DEF Fit, Fits, Taken
  <2> QED
    BY <1>1, <2>1, ByteKeeps DEF Fit
<1>2. CASE how = "events"
  <2>1. Assembling(x) /\ Event(e) /\ Taken(how, x, e) = AbsorbOne(x, e)
    BY <1>2 DEF Fit, Fits, Taken
  <2>2. PICK y : y = Taken(how, x, e)
    OBVIOUS
  <2>3. Assembling(y)
    BY <2>1, <2>2, EventKeeps
  <2> QED
    BY <1>2, <2>2, <2>3 DEF Fit
<1> QED
  BY <1>1, <1>2

\* What each step keeps is kept by the whole.
LEMMA FoldKeeps ==
  ASSUME NEW how \in {"bytes", "events"}, NEW s, Fit(how, s), NEW n \in Nat, NEW es, \A i \in 1 .. n : Fits(how, es[i]),
         NEW g, Takes(g, how, s, es, 1 .. n), NEW d \in SUBSET (1 .. n)
  PROVE  Fit(how, g[d])
<1> DEFINE C == {e \in SUBSET (1 .. n) : ~ Fit(how, g[e])}
<1>1. CASE C = {}
  BY <1>1
<1>2. CASE C # {}
  <2>1. PICK T : T = 1 .. n
    OBVIOUS
  <2>2. IsFiniteSet(T)
    BY <2>1, FS_Interval
  <2>3. PICK e \in C : \A b \in C : b \subseteq e => b = e
    <3>1. C \in SUBSET (SUBSET T)
      BY <2>1
    <3> HIDE DEF C
    <3> QED
      BY <1>2, <2>2, <3>1, SmallestSet
  <2>4. e \in SUBSET (1 .. n) /\ ~ Fit(how, g[e])
    BY <2>3
  <2>5. e # {}
    BY <2>4 DEF Takes
  <2>6. Max(e) \in e
    <3>1. e \in SUBSET (0 .. n)
      BY <2>4
    <3> QED
      BY <2>5, <3>1, SomeMax
  <2>7. PICK b, m : b = e \ {Max(e)} /\ m = Max(e)
    OBVIOUS
  <2>8. b \in SUBSET (1 .. n) /\ b \subseteq e /\ b # e
    BY <2>4, <2>6, <2>7
  <2>9. Fit(how, g[b])
    BY <2>3, <2>8
  <2>10. g[e] = Taken(how, g[b], es[m])
    BY <2>4, <2>5, <2>7 DEF Takes
  <2>11. Fits(how, es[m])
    BY <2>4, <2>6, <2>7
  <2> QED
    BY <2>4, <2>9, <2>10, <2>11, TakenKeeps
<1> QED
  BY <1>1, <1>2

LEMMA WholeFoldKeeps ==
  ASSUME NEW how \in {"bytes", "events"}, NEW s, Fit(how, s), NEW S, NEW es \in Seq(S), \A e \in S : Fits(how, e)
  PROVE  Fit(how, (CHOOSE g : Takes(g, how, s, es, DOMAIN es))[DOMAIN es])
<1>1. PICK n \in Nat : DOMAIN es = 1 .. n /\ \A i \in 1 .. n : es[i] \in S
  OBVIOUS
<1>2. \E g : Takes(g, how, s, es, 1 .. n)
  BY AllFold DEF Foldable
<1>3. PICK g : g = CHOOSE f : Takes(f, how, s, es, DOMAIN es)
  OBVIOUS
<1>4. Takes(g, how, s, es, 1 .. n)
  BY <1>1, <1>2, <1>3, Zenon
<1>5. \A i \in 1 .. n : Fits(how, es[i])
  BY <1>1
<1>6. PICK d \in SUBSET (1 .. n) : d = 1 .. n
  OBVIOUS
<1>7. Fit(how, g[d])
  BY <1>4, <1>5, FoldKeeps
<1> QED
  BY <1>1, <1>3, <1>6, <1>7

\* The fold over a chunk under a name.
FedBytes(d, chunk) == FoldLeft(Byte, d, chunk)

LEMMA FoldIsFed ==
  ASSUME NEW d, NEW chunk
  PROVE  FedBytes(d, chunk) = (CHOOSE g : Takes(g, "bytes", d, chunk, DOMAIN chunk))[DOMAIN chunk]
BY DEF FedBytes, FoldLeft, MapThenFoldSet, Takes, Taken

LEMMA AbsorbedIsTaken ==
  ASSUME NEW s, NEW es
  PROVE  Absorbed(s, es) = (CHOOSE g : Takes(g, "events", s, es, DOMAIN es))[DOMAIN es]
BY DEF Absorbed, FoldLeft, MapThenFoldSet, Takes, Taken

\* So do all the how of a chunk and all the events of a frame.
LEMMA BytesKeep ==
  ASSUME NEW d, Decoding(d), NEW chunk \in Seq(Bytes)
  PROVE  Decoding(FedBytes(d, chunk))
<1>1. Fit("bytes", d) /\ \A e \in Bytes : Fits("bytes", e)
  BY DEF Fit, Fits
<1>2. PICK x : x = FedBytes(d, chunk)
  OBVIOUS
<1>3. Fit("bytes", x)
  BY <1>1, <1>2, FoldIsFed, WholeFoldKeeps
<1> QED
  BY <1>2, <1>3 DEF Fit

LEMMA EventsKeep ==
  ASSUME NEW s, Assembling(s), NEW S, NEW es \in Seq(S), \A e \in S : Event(e)
  PROVE  Assembling(Absorbed(s, es))
<1>1. Fit("events", s) /\ \A e \in S : Fits("events", e)
  BY DEF Fit, Fits
<1>2. PICK x : x = Absorbed(s, es)
  OBVIOUS
<1>3. Fit("events", x)
  BY <1>1, <1>2, AbsorbedIsTaken, WholeFoldKeeps
<1> QED
  BY <1>2, <1>3 DEF Fit

-----------------------------------------------------------------------------
\* A chunk, and the end of a stream.
LEMMA ChunkKeeps ==
  ASSUME NEW d, Decoding(d), NEW chunk \in Seq(Bytes)
  PROVE  Decoding(FeedChunk(d, chunk))
<1>1. PICK v : v = [d EXCEPT !.total = @ + Len(chunk)]
  OBVIOUS
<1>2. FeedChunk(d, chunk) \in {FedBytes(d, chunk), Failed(FedBytes(d, chunk)), Failed(v), FedBytes(v, chunk)}
  BY <1>1, Zenon DEF FeedChunk, FedBytes
<1>3. Decoding(v)
  <2>1. PICK l, a, z, t, fs, e : d = [line |-> l, data |-> a, size |-> z, total |-> t, frames |-> fs, error |-> e]
    BY DEF Decoding
  <2>2. l \in Seq(Bytes) /\ a \in Seq(Nat) /\ z \in 0..MaxLine /\ t \in Nat
    BY <2>1 DEF Decoding
  <2>3. PICK u \in Nat : u = t + Len(chunk)
    BY <2>2
  <2>4. v = [d EXCEPT !.total = u]
    BY <1>1, <2>1, <2>3
  <2>5. v = [line |-> l, data |-> a, size |-> z, total |-> u, frames |-> fs, error |-> e]
    BY <2>1, <2>4
  <2> QED
    BY <2>2, <2>5 DEF Decoding
<1>4. PICK x, y : x = FedBytes(d, chunk) /\ y = FedBytes(v, chunk)
  OBVIOUS
<1>5. Decoding(x) /\ Decoding(y)
  BY <1>3, <1>4, BytesKeep
<1>6. Decoding(Failed(x)) /\ Decoding(Failed(v))
  BY <1>3, <1>5, FailedKeeps
<1>7. FeedChunk(d, chunk) \in {x, Failed(x), Failed(v), y}
  BY <1>2, <1>4, Zenon
<1> QED
  BY <1>5, <1>6, <1>7

LEMMA FlushKeeps ==
  ASSUME NEW d, Decoding(d)
  PROVE  Decoding(Flush(d))
<1>1. PICK x, tail : x = (IF d.line = <<>> THEN d ELSE SSELine(d, d.line)) /\ tail = Strip(d.line)
  OBVIOUS
<1>2. PICK v : v = [d EXCEPT !.line = <<>>]
  OBVIOUS
<1>3. Flush(d) \in {x, Emit(x), v, JSONLine(d, tail)}
  BY <1>1, <1>2, Zenon DEF Flush
<1>4. d.line \in Seq(Bytes)
  BY DEF Decoding
<1>5. PICK y : y = SSELine(d, d.line)
  OBVIOUS
<1>6. Decoding(y)
  BY <1>4, <1>5, SSELineKeeps
<1>7. Decoding(x)
  BY <1>1, <1>5, <1>6
<1>8. Decoding(v)
  <2>1. PICK l, a, z, t, fs, e : d = [line |-> l, data |-> a, size |-> z, total |-> t, frames |-> fs, error |-> e]
    BY DEF Decoding
  <2>2. a \in Seq(Nat) /\ z \in 0..MaxLine /\ t \in Nat
    BY <2>1 DEF Decoding
  <2>3. <<>> \in Seq(Bytes)
    OBVIOUS
  <2>4. PICK none \in Seq(Bytes) : none = <<>>
    BY <2>3
  <2>5. v = [line |-> none, data |-> a, size |-> z, total |-> t, frames |-> fs, error |-> e]
    BY <1>2, <2>1, <2>4
  <2> QED
    BY <2>2, <2>5 DEF Decoding
<1>9. Decoding(Emit(x)) /\ Decoding(JSONLine(d, tail))
  BY <1>7, EmitKeeps, JSONLineKeeps
<1> QED
  BY <1>3, <1>7, <1>8, <1>9

FramingInv ==
  /\ framing \in {"sse", "ndjson"} /\ wire \in BoundedSeq(Bytes, WireLength)
  /\ fed \in 0..Len(wire) /\ streamEnd \in {"open", "eof", "limit", "broken"}
  /\ Decoding(decoder)

LEMMA WireIsASequence ==
  ASSUME wire \in BoundedSeq(Bytes, WireLength)
  PROVE  wire \in Seq(Bytes)
<1>1. PICK m \in Nat : wire \in [1..m -> Bytes]
  BY FramingAssumption DEF BoundedSeq, SeqOf
<1> QED
  BY <1>1

LEMMA FramingInvInit == FramingInit => FramingInv
<1> SUFFICES ASSUME FramingInit PROVE FramingInv
  OBVIOUS
<1>1. PICK none, no : none = <<>> /\ no = FALSE
  OBVIOUS
<1>2. decoder = [line |-> none, data |-> none, size |-> 0, total |-> 0, frames |-> none, error |-> no]
  BY <1>1, Zenon DEF FramingInit
<1>3. none \in Seq(Bytes) /\ none \in Seq(Nat) /\ 0 \in 0..MaxLine
  BY <1>1, FramingAssumption
<1>4. Decoding(decoder)
  BY <1>2, <1>3 DEF Decoding
<1>5. wire \in Seq(Bytes)
  BY WireIsASequence DEF FramingInit
<1> QED
  BY <1>4, <1>5 DEF FramingInit, FramingInv

LEMMA FramingInvStep == FramingInv /\ [FramingNext]_framingVars => FramingInv'
<1> SUFFICES ASSUME FramingInv, [FramingNext]_framingVars PROVE FramingInv'
  OBVIOUS
<1>1. wire \in Seq(Bytes) /\ fed \in Nat
  BY WireIsASequence DEF FramingInv
<1>2. CASE Chunk
  <2>1. PICK n \in 1..(Len(wire) - fed) :
          fed' = fed + n /\ decoder' = FeedChunk(decoder, SubSeq(wire, fed + 1, fed + n))
    BY <1>2 DEF Chunk
  <2>2. SubSeq(wire, fed + 1, fed + n) \in Seq(Bytes)
    BY <1>1, <2>1
  <2>3. PICK chunk \in Seq(Bytes) : chunk = SubSeq(wire, fed + 1, fed + n)
    BY <2>2
  <2>4. PICK d : d = FeedChunk(decoder, chunk)
    OBVIOUS
  <2>5. Decoding(d)
    BY <2>3, <2>4, ChunkKeeps DEF FramingInv
  <2>6. decoder' = d
    BY <2>1, <2>3, <2>4
  <2>7. Decoding(decoder')
    BY <2>5, <2>6
  <2>8. fed' \in 0..Len(wire')
    BY <1>1, <1>2, <2>1 DEF Chunk, FramingInv
  <2> QED
    BY <1>2, <2>7, <2>8 DEF Chunk, FramingInv
<1>3. CASE EndOfStream
  <2>1. PICK d : d = Flush(decoder)
    OBVIOUS
  <2>2. Decoding(d)
    BY <2>1, FlushKeeps DEF FramingInv
  <2>3. decoder' = d
    BY <1>3, <2>1 DEF EndOfStream
  <2>4. Decoding(decoder')
    BY <2>2, <2>3
  <2> QED
    BY <1>3, <2>4 DEF EndOfStream, FramingInv
<1>4. CASE Breaks
  <2>1. decoder' = decoder
    BY <1>4 DEF Breaks
  <2>2. Decoding(decoder')
    BY <2>1 DEF FramingInv
  <2> QED
    BY <1>4, <2>2 DEF Breaks, FramingInv
<1>5. CASE UNCHANGED framingVars
  <2>1. decoder' = decoder
    BY <1>5 DEF framingVars
  <2>2. Decoding(decoder')
    BY <2>1 DEF FramingInv
  <2> QED
    BY <1>5, <2>2 DEF framingVars, FramingInv
<1> QED
  BY <1>2, <1>3, <1>4, <1>5 DEF FramingNext, FramingDone

LEMMA FramingIsTyped == FramingInv => FramingTypeOK
<1> SUFFICES ASSUME FramingInv PROVE FramingTypeOK
  OBVIOUS
<1>1. /\ decoder.line \in Seq(Bytes) /\ decoder.data \in Seq(Nat)
      /\ decoder.size \in 0..MaxLine /\ decoder.total \in Nat
  BY DEF FramingInv, Decoding
<1> QED
  BY <1>1 DEF FramingInv, FramingTypeOK

-----------------------------------------------------------------------------
(* A chunk is its bytes: feeding one after the other is feeding both at     *)
(* once.                                                                    *)

\* What holds of zero, and of the next number when it holds of one, holds.
LEMMA UpTo ==
  ASSUME NEW n \in Nat, NEW S, 0 \in S, \A k \in 0 .. n : k # n /\ k \in S => k + 1 \in S
  PROVE  \A k \in 0 .. n : k \in S
<1> DEFINE C == {k \in 0 .. n : k \notin S}
<1>1. CASE C = {}
  BY <1>1
<1>2. CASE C # {}
  <2>1. C \in SUBSET Nat
    OBVIOUS
  <2>2. PICK m : m = Min(C)
    OBVIOUS
  <2>3. m \in C /\ \A k \in C : m <= k
    <3> HIDE DEF C
    <3> QED
      BY <1>2, <2>1, <2>2, SomeMin
  <2>4. PICK k \in 0 .. n : m = k + 1 /\ k # n
    <3>1. m - 1 \in 0 .. n /\ m = (m - 1) + 1 /\ m - 1 # n
      BY <2>3
    <3> QED
      BY <3>1
  <2>5. k \in S
    BY <2>3, <2>4
  <2> QED
    BY <2>3, <2>4, <2>5
<1> QED
  BY <1>1, <1>2

\* A fold after each of its n steps.
OneByOne(h, how, d, es, n) ==
  /\ h = [k \in 0 .. n |-> h[k]] /\ h[0] = d
  /\ \A k \in 0 .. n : k # n => h[k + 1] = Taken(how, h[k], es[k + 1])

LEMMA FoldedOneByOne ==
  ASSUME NEW how, NEW d, NEW es, NEW n \in Nat, DOMAIN es = 1 .. n
  PROVE  \E h : /\ OneByOne(h, how, d, es, n)
                /\ h[n] = (CHOOSE g : Takes(g, how, d, es, DOMAIN es))[DOMAIN es]
<1>1. \E g : Takes(g, how, d, es, 1 .. n)
  BY AllFold DEF Foldable
<1>2. PICK g : g = CHOOSE f : Takes(f, how, d, es, 1 .. n)
  OBVIOUS
<1>3. Takes(g, how, d, es, 1 .. n)
  BY <1>1, <1>2, Zenon
<1>4. PICK h : h = [k \in 0 .. n |-> g[1 .. k]]
  OBVIOUS
<1>5. h[0] = d
  <2>1. 1 .. 0 = {} /\ {} \in SUBSET (1 .. n)
    OBVIOUS
  <2>2. g[{}] = d
    BY <1>3, <2>1 DEF Takes
  <2> QED
    BY <1>4, <2>1, <2>2
<1>6. ASSUME NEW k \in 0 .. n, k # n PROVE h[k + 1] = Taken(how, h[k], es[k + 1])
  <2>1. PICK m \in 1 .. n : m = k + 1
    <3>1. k + 1 \in 1 .. n
      BY <1>6
    <3> QED
      BY <3>1
  <2>2. PICK x, y : x = 1 .. m /\ y = 1 .. k
    OBVIOUS
  <2>3. m \in x /\ x # {} /\ x \in SUBSET (1 .. n) /\ y \in SUBSET (1 .. n)
    <3>1. m \in 1 .. m /\ \A i \in 1 .. m : i \in 1 .. n
      BY <2>1
    <3>2. \A i \in 1 .. k : i \in 1 .. n
      BY <2>1
    <3> QED
      BY <2>2, <3>1, <3>2
  <2>4. Max(x) = m
    <3>1. m \in Nat /\ x \in SUBSET (0 .. m)
      BY <2>1, <2>2
    <3> QED
      BY <2>3, <3>1, SomeMax
  <2>5. x \ {m} = y
    BY <2>1, <2>2
  <2>6. g[x] = Taken(how, g[x \ {Max(x)}], es[Max(x)])
    BY <1>3, <2>3 DEF Takes
  <2>7. g[x] = Taken(how, g[y], es[m])
    BY <2>4, <2>5, <2>6
  <2>8. h[m] = g[x] /\ h[k] = g[y]
    BY <1>4, <2>1, <2>2
  <2> QED
    BY <2>1, <2>7, <2>8
<1>7. h[n] = g[DOMAIN es]
  BY <1>4
<1>8. OneByOne(h, how, d, es, n)
  <2>1. h = [k \in 0 .. n |-> h[k]]
    BY <1>4
  <2> QED
    BY <1>5, <1>6, <2>1 DEF OneByOne
<1> QED
  BY <1>2, <1>7, <1>8

\* The decoder after each of n bytes.
ByByte(h, d, es, n) ==
  /\ h = [k \in 0 .. n |-> h[k]] /\ h[0] = d
  /\ \A k \in 0 .. n : k # n => h[k + 1] = Byte(h[k], es[k + 1])

LEMMA FedByByte ==
  ASSUME NEW d, NEW es, NEW n \in Nat, DOMAIN es = 1 .. n
  PROVE  \E h : ByByte(h, d, es, n) /\ h[n] = FedBytes(d, es)
<1>1. PICK h : /\ OneByOne(h, "bytes", d, es, n)
               /\ h[n] = (CHOOSE g : Takes(g, "bytes", d, es, DOMAIN es))[DOMAIN es]
  BY FoldedOneByOne
<1>2. h[n] = FedBytes(d, es)
  BY <1>1, FoldIsFed, Zenon
<1>3. ByByte(h, d, es, n)
  BY <1>1 DEF OneByOne, ByByte, Taken
<1> QED
  BY <1>2, <1>3

LEMMA OneAfterAnother ==
  ASSUME NEW a \in Seq(Bytes), NEW b \in Seq(Bytes)
  PROVE  /\ a \o b \in Seq(Bytes) /\ Len(a \o b) = Len(a) + Len(b)
         /\ \A k \in 1 .. Len(a) : (a \o b)[k] = a[k]
         /\ \A k \in 1 .. Len(b) : (a \o b)[Len(a) + k] = b[k]
OBVIOUS

LEMMA FedInTwo ==
  ASSUME NEW d, NEW a \in Seq(Bytes), NEW b \in Seq(Bytes)
  PROVE  FedBytes(d, a \o b) = FedBytes(FedBytes(d, a), b)
<1>1. PICK m \in Nat, n \in Nat : m = Len(a) /\ n = Len(b) /\ DOMAIN a = 1 .. m /\ DOMAIN b = 1 .. n
  OBVIOUS
<1>2. PICK c : c = a \o b
  OBVIOUS
<1>3. /\ DOMAIN c = 1 .. (m + n) /\ m + n \in Nat
      /\ \A k \in 1 .. m : c[k] = a[k]
      /\ \A k \in 1 .. n : c[m + k] = b[k]
  BY <1>1, <1>2
<1>4. PICK h : ByByte(h, d, c, m + n) /\ h[m + n] = FedBytes(d, c)
  BY <1>3, FedByByte
<1>5. PICK f : ByByte(f, d, a, m) /\ f[m] = FedBytes(d, a)
  BY <1>1, FedByByte
<1>6. PICK e : ByByte(e, f[m], b, n) /\ e[n] = FedBytes(f[m], b)
  BY <1>1, FedByByte
<1>7. h[m] = f[m]
  <2> DEFINE S == {k \in 0 .. m : h[k] = f[k]}
  <2>1. 0 \in S
    BY <1>4, <1>5 DEF ByByte
  <2>2. ASSUME NEW k \in 0 .. m, k # m, k \in S PROVE k + 1 \in S
    <3>1. PICK j \in 1 .. m : j = k + 1
      <4>1. k + 1 \in 1 .. m
        BY <2>2
      <4> QED
        BY <4>1
    <3>2. k \in 0 .. (m + n) /\ k # m + n
      BY <1>1, <2>2
    <3>3. h[j] = Byte(h[k], c[j])
      BY <1>4, <3>1, <3>2 DEF ByByte
    <3>4. f[j] = Byte(f[k], a[j])
      BY <1>5, <2>2, <3>1 DEF ByByte
    <3>5. h[k] = f[k] /\ c[j] = a[j]
      BY <1>3, <2>2, <3>1
    <3>6. h[j] = f[j]
      BY <3>3, <3>4, <3>5
    <3> QED
      BY <3>1, <3>6
  <2> HIDE DEF S
  <2>3. \A k \in 0 .. m : k \in S
    BY <2>1, <2>2, UpTo
  <2> QED
    BY <2>3 DEF S
<1>8. h[m + n] = e[n]
  <2> DEFINE S == {k \in 0 .. n : h[m + k] = e[k]}
  <2>1. 0 \in S
    <3>1. e[0] = f[m] /\ m + 0 = m
      BY <1>6 DEF ByByte
    <3> QED
      BY <1>7, <3>1
  <2>2. ASSUME NEW k \in 0 .. n, k # n, k \in S PROVE k + 1 \in S
    <3>1. PICK j \in 1 .. n : j = k + 1
      <4>1. k + 1 \in 1 .. n
        BY <2>2
      <4> QED
        BY <4>1
    <3>2. PICK x, y : x \in 0 .. (m + n) /\ x = m + k /\ x # m + n /\ y = m + j /\ y = x + 1
      <4>1. m + k \in 0 .. (m + n) /\ m + k # m + n /\ m + j = (m + k) + 1
        BY <1>1, <2>2, <3>1
      <4> QED
        BY <4>1
    <3>3. h[y] = Byte(h[x], c[y])
      BY <1>4, <3>2 DEF ByByte
    <3>4. e[j] = Byte(e[k], b[j])
      BY <1>6, <2>2, <3>1 DEF ByByte
    <3>5. h[x] = e[k] /\ c[y] = b[j]
      BY <1>3, <2>2, <3>1, <3>2
    <3>6. h[y] = e[j]
      BY <3>3, <3>4, <3>5
    <3> QED
      BY <3>1, <3>2, <3>6
  <2> HIDE DEF S
  <2>3. \A k \in 0 .. n : k \in S
    BY <2>1, <2>2, UpTo
  <2> QED
    BY <2>3 DEF S
<1> QED
  BY <1>2, <1>4, <1>5, <1>6, <1>8

\* An NDJSON decoder does not look at its total.
Retotalled(d2, d, t) == d2 = [d EXCEPT !.total = t]

LEMMA ByteAside ==
  ASSUME framing = "ndjson", NEW d, Decoding(d), NEW b \in Bytes, NEW t, NEW r, Retotalled(r, d, t)
  PROVE  Retotalled(Byte(r, b), Byte(d, b), t)
<1>1. PICK l, a, z, u, fs, e : d = [line |-> l, data |-> a, size |-> z, total |-> u, frames |-> fs, error |-> e]
  BY DEF Decoding
<1>2. PICK d2 : d2 = [line |-> l, data |-> a, size |-> z, total |-> t, frames |-> fs, error |-> e]
  OBVIOUS
<1>3. r = d2
  BY <1>1, <1>2 DEF Retotalled
<1>4. d.line = l /\ d.frames = fs /\ d.error = e /\ d2.line = l /\ d2.frames = fs /\ d2.error = e
  BY <1>1, <1>2
<1>5. CASE e
  <2>1. Byte(d, b) = d /\ Byte(d2, b) = d2
    BY <1>4, <1>5 DEF Byte
  <2> QED
    BY <1>3, <2>1 DEF Retotalled
<1>6. CASE ~ e /\ b # "n"
  <2>1. PICK m : m = Append(l, b)
    OBVIOUS
  <2>2. Byte(d, b) = [d EXCEPT !.line = m] /\ Byte(d2, b) = [d2 EXCEPT !.line = m]
    BY <1>1, <1>2, <1>4, <1>6, <2>1 DEF Byte
  <2>3. PICK v : v = [line |-> m, data |-> a, size |-> z, total |-> u, frames |-> fs, error |-> e]
    OBVIOUS
  <2>4. [d EXCEPT !.line = m] = v
    BY <1>1, <2>3
  <2>5. [v EXCEPT !.total = t] = [d2 EXCEPT !.line = m]
    BY <1>2, <2>3
  <2>6. [[d EXCEPT !.line = m] EXCEPT !.total = t] = [d2 EXCEPT !.line = m]
    BY <2>4, <2>5
  <2> QED
    BY <1>3, <2>2, <2>6 DEF Retotalled
<1>7. CASE ~ e /\ b = "n"
  <2>1. Byte(d, b) = JSONLine(d, l) /\ Byte(d2, b) = JSONLine(d2, l)
    BY <1>4, <1>7 DEF Byte
  <2>2. PICK x, none : x = ChompAll(l) /\ none = <<>>
    OBVIOUS
  <2>3. PICK more : more = Append(fs, JSONItem(x))
    OBVIOUS
  <2>4. PICK fs2 : fs2 = IF x = <<>> THEN fs ELSE more
    OBVIOUS
  <2>5. JSONLine(d, l) = [line |-> none, data |-> a, size |-> z, total |-> u, frames |-> fs2, error |-> e]
    BY <1>1, <2>2, <2>3, <2>4 DEF JSONLine
  <2>6. JSONLine(d2, l) = [line |-> none, data |-> a, size |-> z, total |-> t, frames |-> fs2, error |-> e]
    BY <1>2, <2>2, <2>3, <2>4 DEF JSONLine
  <2>7. PICK v : v = JSONLine(d, l)
    OBVIOUS
  <2>8. [v EXCEPT !.total = t] = JSONLine(d2, l)
    BY <2>5, <2>6, <2>7
  <2> QED
    BY <1>3, <2>1, <2>7, <2>8 DEF Retotalled
<1> QED
  BY <1>5, <1>6, <1>7

LEMMA TotalAside ==
  ASSUME framing = "ndjson", NEW d, Decoding(d), NEW es \in Seq(Bytes), NEW t, NEW r, Retotalled(r, d, t)
  PROVE  Retotalled(FedBytes(r, es), FedBytes(d, es), t)
<1>1. PICK n \in Nat : DOMAIN es = 1 .. n /\ \A k \in 1 .. n : es[k] \in Bytes
  OBVIOUS
<1>2. PICK h : ByByte(h, d, es, n) /\ h[n] = FedBytes(d, es)
  BY <1>1, FedByByte
<1>3. PICK f : ByByte(f, r, es, n) /\ f[n] = FedBytes(r, es)
  BY <1>1, FedByByte
<1> DEFINE S == {k \in 0 .. n : Decoding(h[k]) /\ Retotalled(f[k], h[k], t)}
<1>4. 0 \in S
  BY <1>2, <1>3 DEF ByByte
<1>5. ASSUME NEW k \in 0 .. n, k # n, k \in S PROVE k + 1 \in S
  <2>1. PICK j \in 1 .. n : j = k + 1
    <3>1. k + 1 \in 1 .. n
      BY <1>5
    <3> QED
      BY <3>1
  <2>2. PICK x, y, b : x = h[k] /\ y = f[k] /\ b = es[j]
    OBVIOUS
  <2>3. Decoding(x) /\ Retotalled(y, x, t) /\ b \in Bytes
    BY <1>1, <1>5, <2>2
  <2>4. h[j] = Byte(x, b) /\ f[j] = Byte(y, b)
    BY <1>2, <1>3, <1>5, <2>1, <2>2 DEF ByByte
  <2>5. PICK v, w : v = Byte(x, b) /\ w = Byte(y, b)
    OBVIOUS
  <2>6. Decoding(v) /\ Retotalled(w, v, t)
    BY <2>3, <2>5, ByteKeeps, ByteAside
  <2> QED
    BY <2>1, <2>4, <2>5, <2>6
<1> HIDE DEF S
<1>6. \A k \in 0 .. n : k \in S
  BY <1>4, <1>5, UpTo
<1>7. Retotalled(f[n], h[n], t)
  BY <1>6 DEF S
<1> QED
  BY <1>2, <1>3, <1>7

-----------------------------------------------------------------------------
\* The decoder that is fed what was read so far byte by byte.
NewDecoder == [line |-> <<>>, data |-> <<>>, size |-> 0, total |-> 0, frames |-> <<>>, error |-> FALSE]

Unchunked ==
  LET u == FedBytes(NewDecoder, SubSeq(wire, 1, fed))
  IN  IF framing = "sse" THEN u ELSE [u EXCEPT !.total = fed]

\* A chunk leaves no trace: while a stream is open, its decoder is the one
\* that got the same bytes one at a time, and a stream that ends well is
\* flushed from there.
ChunksVanish ==
  /\ streamEnd = "open" => decoder = Unchunked
  /\ streamEnd = "eof" => decoder = Flush(Unchunked)

\* Feeding depends on no more of the state than the framing.
LEMMA UnchunkedNext ==
  ASSUME framing' = framing, NEW c, c = SubSeq(wire', 1, fed'), NEW f, f = fed'
  PROVE  Unchunked' = IF framing = "sse" THEN FedBytes(NewDecoder, c)
                      ELSE [FedBytes(NewDecoder, c) EXCEPT !.total = f]
<1>1. PICK d : d = NewDecoder
  OBVIOUS
<1>2. d = NewDecoder'
  BY <1>1 DEF NewDecoder
<1>3. FedBytes(d, c)' = FedBytes(d, c)
  BY SMT DEF FedBytes, FoldLeft, MapThenFoldSet, Byte
<1>4. Unchunked' = IF framing = "sse" THEN FedBytes(d, c)' ELSE [FedBytes(d, c)' EXCEPT !.total = f]
  BY <1>1, <1>2, Zenon DEF Unchunked
<1> QED
  BY <1>1, <1>3, <1>4, Zenon

LEMMA NewIsDecoding == Decoding(NewDecoder)
<1>1. PICK none, no : none = <<>> /\ no = FALSE
  OBVIOUS
<1>2. NewDecoder = [line |-> none, data |-> none, size |-> 0, total |-> 0, frames |-> none, error |-> no]
  BY <1>1, Zenon DEF NewDecoder
<1>3. none \in Seq(Bytes) /\ none \in Seq(Nat) /\ 0 \in 0..MaxLine
  BY <1>1, FramingAssumption
<1> QED
  BY <1>2, <1>3 DEF Decoding

LEMMA FailedIsError == ASSUME NEW d, Decoding(d) PROVE Failed(d).error = TRUE
<1>1. PICK l, a, z, t, fs, e : d = [line |-> l, data |-> a, size |-> z, total |-> t, frames |-> fs, error |-> e]
  BY DEF Decoding
<1>2. PICK yes : yes = TRUE
  OBVIOUS
<1>3. Failed(d) = [d EXCEPT !.error = yes]
  BY <1>2 DEF Failed
<1>4. Failed(d).error = yes
  BY <1>1, <1>3
<1> QED
  BY <1>2, <1>4

LEMMA VanishInit == FramingInit => ChunksVanish
<1> SUFFICES ASSUME FramingInit PROVE ChunksVanish
  OBVIOUS
<1>1. PICK d : d = NewDecoder
  OBVIOUS
<1>2. decoder = d /\ fed = 0 /\ streamEnd = "open"
  BY <1>1 DEF FramingInit, NewDecoder
<1>3. FedBytes(d, <<>>) = d
  <2>1. PICK h : ByByte(h, d, <<>>, 0) /\ h[0] = FedBytes(d, <<>>)
    <3>1. DOMAIN <<>> = 1 .. 0 /\ 0 \in Nat
      OBVIOUS
    <3> QED
      BY <3>1, FedByByte
  <2> QED
    BY <2>1 DEF ByByte
<1>4. SubSeq(wire, 1, 0) = <<>>
  <2>1. wire \in Seq(Bytes)
    BY WireIsASequence DEF FramingInit
  <2> QED
    BY <2>1
<1>5. [d EXCEPT !.total = 0] = d
  <2>1. PICK none, no : none = <<>> /\ no = FALSE
    OBVIOUS
  <2>2. d = [line |-> none, data |-> none, size |-> 0, total |-> 0, frames |-> none, error |-> no]
    BY <1>1, <2>1, Zenon DEF NewDecoder
  <2> QED
    BY <2>2
<1>6. Unchunked = d
  BY <1>1, <1>2, <1>3, <1>4, <1>5 DEF Unchunked
<1> QED
  BY <1>2, <1>6 DEF ChunksVanish

LEMMA ReadInTwo ==
  ASSUME NEW w \in Seq(Bytes), NEW k \in Nat, NEW n \in 1 .. (Len(w) - k)
  PROVE  /\ SubSeq(w, 1, k) \in Seq(Bytes) /\ SubSeq(w, k + 1, k + n) \in Seq(Bytes)
         /\ SubSeq(w, 1, k + n) = SubSeq(w, 1, k) \o SubSeq(w, k + 1, k + n)
         /\ Len(SubSeq(w, k + 1, k + n)) = n
<1>1. PICK a, b, c : a = SubSeq(w, 1, k) /\ b = SubSeq(w, k + 1, k + n) /\ c = SubSeq(w, 1, k + n)
  OBVIOUS
<1>2. PICK m \in Nat : m = Len(w)
  OBVIOUS
<1>3. n \in Nat /\ k + n \in Nat /\ k + n <= m
  BY <1>2
<1>4. a \in Seq(Bytes) /\ Len(a) = k /\ \A i \in 1 .. k : a[i] = w[i]
  BY <1>1, <1>2, <1>3
<1>5. b \in Seq(Bytes) /\ Len(b) = n /\ \A i \in 1 .. n : b[i] = w[k + i]
  BY <1>1, <1>2, <1>3
<1>6. c \in Seq(Bytes) /\ Len(c) = k + n /\ \A i \in 1 .. (k + n) : c[i] = w[i]
  BY <1>1, <1>2, <1>3
<1>7. PICK e : e = a \o b
  OBVIOUS
<1>8. /\ e \in Seq(Bytes) /\ Len(e) = k + n
      /\ \A i \in 1 .. k : e[i] = a[i]
      /\ \A i \in 1 .. n : e[k + i] = b[i]
  BY <1>4, <1>5, <1>7, OneAfterAnother, Zenon
<1>9. ASSUME NEW i \in 1 .. (k + n) PROVE e[i] = c[i]
  <2>1. CASE i <= k
    <3>1. i \in 1 .. k
      BY <1>3, <2>1
    <3> QED
      BY <1>4, <1>6, <1>8, <3>1
  <2>2. CASE i > k
    <3>1. PICK j \in 1 .. n : i = k + j
      <4>1. i - k \in 1 .. n /\ i = k + (i - k)
        BY <1>3, <2>2
      <4> QED
        BY <4>1
    <3>2. e[i] = b[j]
      BY <1>8, <3>1
    <3> QED
      BY <1>5, <1>6, <3>1, <3>2
  <2> QED
    BY <2>1, <2>2
<1>10. e = c
  BY <1>6, <1>8, <1>9
<1> QED
  BY <1>1, <1>4, <1>5, <1>7, <1>10

\* The decoder that got the first p bytes one by one.
FedTo(p) == FedBytes(NewDecoder, SubSeq(wire, 1, p))

\* A chunk is as good as its bytes one by one, unless it leaves a line too long
\* for the buffer or is one too many for the total.
LEMMA ChunkOutcome ==
  ASSUME FramingInv, ChunksVanish, Chunk
  PROVE  \E n, v :
           /\ n \in 0 .. Len(wire) /\ n = fed' /\ v = FedTo(n) /\ Decoding(v)
           /\ \/ framing = "sse" /\ decoder' = v
              \/ framing = "sse" /\ decoder' = Failed(v) /\ Len(v.line) > MaxLine
              \/ framing = "ndjson" /\ n <= MaxTotal /\ Retotalled(decoder', v, n)
              \/ framing = "ndjson" /\ n > MaxTotal /\ decoder'.error = TRUE /\ decoder'.frames = decoder.frames
<1>1. wire \in Seq(Bytes) /\ fed \in Nat /\ fed <= Len(wire) /\ Decoding(decoder) /\ Len(wire) \in Nat
  BY WireIsASequence DEF FramingInv
<1>2. PICK n \in 1..(Len(wire) - fed) :
        fed' = fed + n /\ decoder' = FeedChunk(decoder, SubSeq(wire, fed + 1, fed + n))
  BY DEF Chunk
<1>3. PICK before, chunk, after : /\ before = SubSeq(wire, 1, fed) /\ chunk = SubSeq(wire, fed + 1, fed + n)
                                  /\ after = SubSeq(wire, 1, fed + n)
  OBVIOUS
<1>4. /\ before \in Seq(Bytes) /\ chunk \in Seq(Bytes) /\ after = before \o chunk /\ Len(chunk) = n
  BY <1>1, <1>2, <1>3, ReadInTwo
<1>5. PICK u, v : u = FedBytes(NewDecoder, before) /\ v = FedBytes(NewDecoder, after)
  OBVIOUS
<1>6. v = FedBytes(u, chunk)
  BY <1>4, <1>5, FedInTwo
<1>7. Decoding(u)
  BY <1>4, <1>5, NewIsDecoding, BytesKeep
<1>8. Decoding(v)
  BY <1>4, <1>6, <1>7, BytesKeep
<1>9. decoder = IF framing = "sse" THEN u ELSE [u EXCEPT !.total = fed]
  BY <1>3, <1>5, Zenon DEF ChunksVanish, Unchunked, Chunk
<1>10. PICK t \in 0 .. Len(wire) : t = fed + n
  <2>1. fed + n \in 0 .. Len(wire)
    BY <1>1, <1>2
  <2> QED
    BY <2>1
<1>11. t = fed' /\ v = FedTo(t)
  BY <1>2, <1>3, <1>5, <1>10 DEF FedTo
<1>12. CASE framing = "sse"
  <2>1. decoder = u
    BY <1>9, <1>12
  <2>2. decoder' = IF Len(v.line) > MaxLine THEN Failed(v) ELSE v
    BY <1>2, <1>3, <1>6, <1>12, <2>1, Zenon DEF FeedChunk, FedBytes
  <2> QED
    BY <1>8, <1>11, <1>12, <2>2
<1>13. CASE framing = "ndjson"
  <2>1. decoder = [u EXCEPT !.total = fed]
    BY <1>9, <1>13
  <2>2. PICK w : w = [decoder EXCEPT !.total = @ + Len(chunk)]
    OBVIOUS
  <2>3. decoder' = IF w.total > MaxTotal THEN Failed(w) ELSE FedBytes(w, chunk)
    BY <1>2, <1>3, <1>13, <2>2, Zenon DEF FeedChunk, FedBytes
  <2>4. PICK l, a, z, m, fs, e : u = [line |-> l, data |-> a, size |-> z, total |-> m, frames |-> fs, error |-> e]
    BY <1>7 DEF Decoding
  <2>5. l \in Seq(Bytes) /\ a \in Seq(Nat) /\ z \in 0..MaxLine
    BY <1>7, <2>4 DEF Decoding
  <2>6. decoder = [line |-> l, data |-> a, size |-> z, total |-> fed, frames |-> fs, error |-> e]
    BY <2>1, <2>4
  <2>7. w = [line |-> l, data |-> a, size |-> z, total |-> t, frames |-> fs, error |-> e]
    BY <1>4, <1>10, <2>2, <2>6
  <2>8. t \in Nat
    BY <1>1, <1>10
  <2>9. Decoding(w) /\ Retotalled(w, u, t) /\ w.total = t /\ w.frames = decoder.frames
    <3>1. Decoding(w)
      BY <2>5, <2>7, <2>8 DEF Decoding
    <3>2. Retotalled(w, u, t)
      BY <2>4, <2>7 DEF Retotalled
    <3> QED
      BY <2>6, <2>7, <3>1, <3>2
  <2>10. CASE t > MaxTotal
    <3>1. decoder' = Failed(w)
      BY <2>3, <2>9, <2>10
    <3>2. decoder'.error = TRUE
      BY <2>9, <3>1, FailedIsError
    <3>3. decoder'.frames = decoder.frames
      <4>1. PICK yes : yes = TRUE
        OBVIOUS
      <4>2. Failed(w) = [w EXCEPT !.error = yes]
        BY <4>1 DEF Failed
      <4> QED
        BY <2>6, <2>7, <3>1, <4>2
    <3> QED
      BY <1>8, <1>11, <1>13, <2>10, <3>2, <3>3
  <2>11. CASE ~ (t > MaxTotal)
    <3>1. decoder' = FedBytes(w, chunk)
      BY <2>3, <2>9, <2>11
    <3>2. Retotalled(FedBytes(w, chunk), v, t)
      BY <1>4, <1>6, <1>7, <1>13, <2>9, TotalAside
    <3>3. t <= MaxTotal
      BY <2>8, <2>11, FramingAssumption
    <3> QED
      BY <1>8, <1>11, <1>13, <3>1, <3>2, <3>3
  <2> QED
    BY <2>10, <2>11
<1> QED
  BY <1>12, <1>13 DEF FramingInv

LEMMA ChunkVanishes ==
  ASSUME FramingInv, ChunksVanish, Chunk, streamEnd' = "open"
  PROVE  decoder' = Unchunked'
<1>1. PICK n, v :
        /\ n \in 0 .. Len(wire) /\ n = fed' /\ v = FedTo(n) /\ Decoding(v)
        /\ \/ framing = "sse" /\ decoder' = v
           \/ framing = "sse" /\ decoder' = Failed(v) /\ Len(v.line) > MaxLine
           \/ framing = "ndjson" /\ n <= MaxTotal /\ Retotalled(decoder', v, n)
           \/ framing = "ndjson" /\ n > MaxTotal /\ decoder'.error = TRUE /\ decoder'.frames = decoder.frames
  BY ChunkOutcome
<1>2. wire' = wire /\ framing' = framing /\ ~ decoder'.error
  BY DEF Chunk
<1>3. Unchunked' = IF framing = "sse" THEN v ELSE [v EXCEPT !.total = n]
  <2>1. PICK c : c = SubSeq(wire, 1, n)
    OBVIOUS
  <2>2. c = SubSeq(wire', 1, fed') /\ v = FedBytes(NewDecoder, c)
    BY <1>1, <1>2, <2>1 DEF FedTo
  <2> QED
    BY <1>1, <1>2, <2>2, UnchunkedNext, Zenon
<1>4. Failed(v).error = TRUE
  BY <1>1, FailedIsError
<1>5. CASE framing = "sse"
  <2>1. decoder' = v
    BY <1>1, <1>2, <1>4, <1>5
  <2> QED
    BY <1>3, <1>5, <2>1
<1>6. CASE framing = "ndjson"
  <2>1. Retotalled(decoder', v, n)
    BY <1>1, <1>2, <1>6
  <2> QED
    BY <1>3, <1>6, <2>1 DEF Retotalled
<1> QED
  BY <1>5, <1>6 DEF FramingInv

LEMMA SameFlushed ==
  ASSUME UNCHANGED <<framing, wire, fed>>
  PROVE  Unchunked' = Unchunked /\ Flush(Unchunked)' = Flush(Unchunked)
<1>1. PICK c, f, u : c = SubSeq(wire, 1, fed) /\ f = fed /\ u = Unchunked
  OBVIOUS
<1>2. u = IF framing = "sse" THEN FedBytes(NewDecoder, c) ELSE [FedBytes(NewDecoder, c) EXCEPT !.total = f]
  BY <1>1, Zenon DEF Unchunked
<1>3. Unchunked' = u
  <2>1. c = SubSeq(wire', 1, fed') /\ f = fed' /\ framing' = framing
    BY <1>1
  <2> QED
    BY <1>2, <2>1, UnchunkedNext, Zenon
<1>4. Flush(u)' = Flush(u)
  BY DEF Flush
<1>5. Flush(Unchunked)' = Flush(u)'
  BY <1>3 DEF Flush
<1> QED
  BY <1>1, <1>3, <1>4, <1>5

LEMMA VanishStep == FramingInv /\ ChunksVanish /\ [FramingNext]_framingVars => ChunksVanish'
<1> SUFFICES ASSUME FramingInv, ChunksVanish, [FramingNext]_framingVars PROVE ChunksVanish'
  OBVIOUS
<1>1. CASE Chunk
  <2>1. streamEnd' # "eof"
    BY <1>1 DEF Chunk
  <2> QED
    BY <1>1, <2>1, ChunkVanishes DEF ChunksVanish
<1>2. CASE EndOfStream
  <2>1. UNCHANGED <<framing, wire, fed>>
    BY <1>2 DEF EndOfStream
  <2>2. streamEnd = "open" /\ decoder' = Flush(decoder) /\ streamEnd' # "open"
    BY <1>2 DEF EndOfStream
  <2>3. decoder' = Flush(Unchunked)
    BY <2>2 DEF ChunksVanish
  <2>4. Flush(Unchunked)' = Flush(Unchunked)
    BY <2>1, SameFlushed
  <2> QED
    BY <2>2, <2>3, <2>4 DEF ChunksVanish
<1>3. CASE Breaks
  BY <1>3 DEF Breaks, ChunksVanish
<1>4. CASE UNCHANGED framingVars
  <2>1. UNCHANGED <<framing, wire, fed>> /\ decoder' = decoder /\ streamEnd' = streamEnd
    BY <1>4 DEF framingVars
  <2>2. Unchunked' = Unchunked /\ Flush(Unchunked)' = Flush(Unchunked)
    BY <2>1, SameFlushed
  <2> QED
    BY <2>1, <2>2 DEF ChunksVanish
<1> QED
  BY <1>1, <1>2, <1>3, <1>4 DEF FramingNext, FramingDone

\* For a body and chunks of any length: wherever the socket cuts a body, in a
\* line, a line end or a record, the decoder is the one that was fed byte by
\* byte, so what the engine gets does not depend on the cuts.
THEOREM ChunksLeaveNoTrace == FramingSpec => []ChunksVanish
<1>1. FramingInit => FramingInv /\ ChunksVanish
  BY FramingInvInit, VanishInit
<1>2. FramingInv /\ ChunksVanish /\ [FramingNext]_framingVars => FramingInv' /\ ChunksVanish'
  BY FramingInvStep, VanishStep
<1> QED
  BY <1>1, <1>2, PTL DEF FramingSpec

-----------------------------------------------------------------------------
(* What a body means: its numbers in order, its lines, its records.         *)

LEMMA BeforeIs ==
  ASSUME NEW S \in SUBSET Nat, NEW e \in Nat
  PROVE  /\ Before(S, e) \in 0 .. e /\ (Before(S, e) = 0 \/ (Before(S, e) \in S /\ Before(S, e) < e))
         /\ \A x \in S : x < e => x <= Before(S, e)
<1>1. PICK R : R = {0} \cup {x \in S : x < e}
  OBVIOUS
<1>2. R \in SUBSET (0 .. e) /\ R # {}
  <2>1. \A x \in R : x \in 0 .. e
    BY <1>1
  <2>2. 0 \in R
    BY <1>1
  <2> QED
    BY <2>1, <2>2
<1>3. PICK m : m = Max(R)
  OBVIOUS
<1>4. m \in R /\ \A x \in R : x <= m
  BY <1>2, <1>3, SomeMax
<1>5. m \in 0 .. e /\ (m = 0 \/ (m \in S /\ m < e)) /\ \A x \in S : x < e => x <= m
  BY <1>1, <1>2, <1>4
<1>6. Before(S, e) = m
  BY <1>1, <1>3 DEF Before
<1> QED
  BY <1>5, <1>6

LEMMA BeforeThat ==
  ASSUME NEW S \in SUBSET Nat, NEW e \in Nat, NEW m \in Nat, m = 0 \/ (m \in S /\ m < e),
         \A x \in S : x < e => x <= m
  PROVE  Before(S, e) = m
<1>1. PICK k : k = Before(S, e)
  OBVIOUS
<1>2. k \in 0 .. e /\ (k = 0 \/ (k \in S /\ k < e)) /\ \A x \in S : x < e => x <= k
  BY <1>1, BeforeIs
<1>3. k <= m /\ m <= k
  BY <1>2
<1> QED
  BY <1>1, <1>2, <1>3

\* The number of a member, and what a larger one changes.
LEMMA RankIs ==
  ASSUME NEW S \in SUBSET Nat, IsFiniteSet(S), NEW e \in S
  PROVE  Rank(S, e) \in 1 .. Cardinality(S)
<1>1. PICK T : T = {x \in S : x <= e}
  OBVIOUS
<1>2. T \subseteq S /\ e \in T
  BY <1>1
<1>3. IsFiniteSet(T) /\ Cardinality(T) \in Nat /\ Cardinality(S) \in Nat /\ Cardinality(T) <= Cardinality(S)
  BY <1>2, FS_Subset, FS_CardinalityType
<1>4. Cardinality(T) # 0
  BY <1>2, <1>3, FS_EmptySet
<1> QED
  BY <1>1, <1>3, <1>4 DEF Rank

LEMMA OneMoreRanked ==
  ASSUME NEW S \in SUBSET Nat, IsFiniteSet(S), NEW m \in Nat, \A x \in S : x < m
  PROVE  /\ IsFiniteSet(S \cup {m}) /\ Cardinality(S \cup {m}) = Cardinality(S) + 1
         /\ Rank(S \cup {m}, m) = Cardinality(S) + 1
         /\ \A x \in S : Rank(S \cup {m}, x) = Rank(S, x)
<1>1. m \notin S
  OBVIOUS
<1>2. IsFiniteSet(S \cup {m}) /\ Cardinality(S \cup {m}) = Cardinality(S) + 1
  BY <1>1, FS_AddElement
<1>3. {x \in S \cup {m} : x <= m} = S \cup {m}
  <2>1. \A x \in S \cup {m} : x <= m
    OBVIOUS
  <2> QED
    BY <2>1
<1>4. ASSUME NEW x \in S PROVE Rank(S \cup {m}, x) = Rank(S, x)
  <2>1. {y \in S \cup {m} : y <= x} = {y \in S : y <= x}
    OBVIOUS
  <2> QED
    BY <2>1 DEF Rank
<1> QED
  BY <1>2, <1>3, <1>4 DEF Rank

\* The members up to some point are the first ones.
LEMMA FirstRanked ==
  ASSUME NEW S \in SUBSET Nat, IsFiniteSet(S), NEW F \in SUBSET S,
         \A e \in F, x \in S : x < e => x \in F
  PROVE  /\ IsFiniteSet(F) /\ Cardinality(F) \in Nat /\ Cardinality(F) <= Cardinality(S)
         /\ \A e \in F : Rank(F, e) = Rank(S, e)
         /\ \A e \in S : Rank(S, e) <= Cardinality(F) => e \in F
<1>1. IsFiniteSet(F) /\ Cardinality(F) \in Nat /\ Cardinality(F) <= Cardinality(S)
  BY FS_Subset, FS_CardinalityType
<1>2. ASSUME NEW e \in F PROVE Rank(F, e) = Rank(S, e)
  <2>1. \A x \in S : x <= e => x \in F
    OBVIOUS
  <2>2. {x \in F : x <= e} = {x \in S : x <= e}
    BY <2>1
  <2> QED
    BY <2>2 DEF Rank
<1>3. ASSUME NEW e \in S, Rank(S, e) <= Cardinality(F) PROVE e \in F
  <2>1. SUFFICES ASSUME e \notin F PROVE FALSE
    OBVIOUS
  <2>2. PICK T : T = {x \in S : x <= e}
    OBVIOUS
  <2>3. F \subseteq T \ {e} /\ e \in T /\ T \subseteq S
    BY <2>1, <2>2
  <2>4. IsFiniteSet(T) /\ Cardinality(T) \in Nat
    BY <2>3, FS_Subset, FS_CardinalityType
  <2>5. IsFiniteSet(T \ {e}) /\ Cardinality(T \ {e}) = Cardinality(T) - 1
    BY <2>3, <2>4, FS_RemoveElement
  <2>6. Cardinality(F) <= Cardinality(T) - 1
    <3>1. Cardinality(F) <= Cardinality(T \ {e})
      BY <2>3, <2>5, FS_Subset
    <3> QED
      BY <2>5, <3>1
  <2>7. Cardinality(T) <= Cardinality(F)
    BY <1>3, <2>2 DEF Rank
  <2> QED
    BY <1>1, <2>4, <2>6, <2>7
<1> QED
  BY <1>1, <1>2, <1>3

-----------------------------------------------------------------------------
(* Line ends.                                                               *)

LEMMA ChompIs ==
  ASSUME NEW line \in Seq(Bytes), NEW n, n = Len(line)
  PROVE  /\ n > 0 /\ line[n] = "r" => Chomp(line) = SubSeq(line, 1, n - 1) /\ Len(Chomp(line)) = n - 1
         /\ ~ (n > 0 /\ line[n] = "r") => Chomp(line) = line
         /\ Chomp(line) \in Seq(Bytes)
<1>1. n \in Nat /\ (line # <<>> <=> n > 0)
  OBVIOUS
<1>2. Last(line) = line[n] /\ Front(line) = SubSeq(line, 1, n - 1)
  BY DEF Last, Front
<1>3. n > 0 => SubSeq(line, 1, n - 1) \in Seq(Bytes) /\ Len(SubSeq(line, 1, n - 1)) = n - 1
  BY <1>1
<1> QED
  BY <1>1, <1>2, <1>3 DEF Chomp

LEMMA ChompAllIs ==
  ASSUME NEW line \in Seq(Bytes)
  PROVE  \E m \in 0 .. Len(line) :
           /\ ChompAll(line) = SubSeq(line, 1, m) /\ Len(SubSeq(line, 1, m)) = m /\ (m = 0 \/ line[m] # "r")
           /\ \A i \in 1 .. Len(line) : i > m => line[i] = "r"
<1>1. PICK n \in Nat : n = Len(line) /\ DOMAIN line = 1 .. n
  OBVIOUS
<1>2. PICK S : S = {0} \cup {i \in DOMAIN line : line[i] # "r"}
  OBVIOUS
<1>3. PICK m : m = Max(S)
  OBVIOUS
<1>4. m \in S /\ \A i \in S : i <= m
  <2>1. S \in SUBSET (0 .. n) /\ S # {}
    BY <1>1, <1>2
  <2> QED
    BY <1>3, <2>1, SomeMax
<1>5. m \in 0 .. n
  BY <1>1, <1>2, <1>4
<1>6. ChompAll(line) = SubSeq(line, 1, m)
  BY <1>2, <1>3 DEF ChompAll
<1>7. ASSUME NEW i \in 1 .. n, i > m PROVE line[i] = "r"
  <2>1. i \notin S
    BY <1>4, <1>5, <1>7
  <2> QED
    BY <1>1, <1>2, <2>1
<1>8. m = 0 \/ line[m] # "r"
  BY <1>2, <1>4
<1>9. Len(SubSeq(line, 1, m)) = m
  BY <1>1, <1>5
<1> QED
  BY <1>1, <1>5, <1>6, <1>7, <1>8, <1>9

\* Two ways to leave out the line end give the same.
LEMMA ChompedSame ==
  ASSUME NEW a \in Seq(Bytes), NEW b \in Seq(Bytes), Len(b) <= Len(a),
         \A i \in 1 .. Len(b) : b[i] = a[i], \A i \in 1 .. Len(a) : i > Len(b) => a[i] = "r"
  PROVE  ChompAll(b) = ChompAll(a)
<1>1. PICK n, k \in Nat : n = Len(a) /\ k = Len(b)
  OBVIOUS
<1>2. PICK m \in 0 .. n : /\ ChompAll(a) = SubSeq(a, 1, m) /\ (m = 0 \/ a[m] # "r")
                          /\ \A i \in 1 .. n : i > m => a[i] = "r"
  BY <1>1, ChompAllIs
<1>3. PICK j \in 0 .. k : /\ ChompAll(b) = SubSeq(b, 1, j) /\ (j = 0 \/ b[j] # "r")
                          /\ \A i \in 1 .. k : i > j => b[i] = "r"
  BY <1>1, ChompAllIs
<1>4. m <= k
  BY <1>1, <1>2
<1>5. m = j
  BY <1>1, <1>2, <1>3, <1>4
<1>6. SubSeq(a, 1, m) = SubSeq(b, 1, m)
  BY <1>1, <1>2, <1>4
<1> QED
  BY <1>2, <1>3, <1>5, <1>6

LEMMA ChompTwice ==
  ASSUME NEW line \in Seq(Bytes)
  PROVE  ChompAll(Chomp(line)) = ChompAll(line)
<1>1. PICK n, c : n \in Nat /\ n = Len(line) /\ c = Chomp(line)
  OBVIOUS
<1>2. c \in Seq(Bytes)
  BY <1>1, ChompIs
<1>3. CASE n > 0 /\ line[n] = "r"
  <2>1. c = SubSeq(line, 1, n - 1) /\ Len(c) = n - 1
    BY <1>1, <1>3, ChompIs
  <2>2. \A i \in 1 .. (n - 1) : c[i] = line[i]
    BY <1>1, <1>3, <2>1
  <2>3. \A i \in 1 .. n : i > n - 1 => line[i] = "r"
    BY <1>1, <1>3
  <2>4. PICK k \in Nat : k = n - 1 /\ k <= n
    BY <1>1, <1>3
  <2>5. /\ Len(c) <= Len(line) /\ \A i \in 1 .. Len(c) : c[i] = line[i]
        /\ \A i \in 1 .. Len(line) : i > Len(c) => line[i] = "r"
    BY <1>1, <2>1, <2>2, <2>3, <2>4
  <2> QED
    BY <1>1, <1>2, <2>5, ChompedSame
<1>4. CASE ~ (n > 0 /\ line[n] = "r")
  BY <1>1, <1>4, ChompIs
<1> QED
  BY <1>3, <1>4

LEMMA StripIs ==
  ASSUME NEW line \in Seq(Bytes)
  PROVE  /\ Strip(line) \in Seq(Bytes) /\ ChompAll(Strip(line)) = Strip(line)
         /\ line = <<>> => Strip(line) = <<>>
<1>1. PICK n \in Nat : n = Len(line) /\ DOMAIN line = 1 .. n
  OBVIOUS
<1>2. PICK S : S = {i \in DOMAIN line : line[i] # "r"}
  OBVIOUS
<1>3. S \in SUBSET (1 .. n) /\ S \in SUBSET (0 .. n) /\ S \in SUBSET Nat
  BY <1>1, <1>2
<1>4. CASE S = {}
  <2>1. Strip(line) = <<>>
    BY <1>2, <1>4 DEF Strip
  <2>2. <<>> \in Seq(Bytes)
    OBVIOUS
  <2>3. PICK m \in 0 .. Len(<<>>) : ChompAll(<<>>) = SubSeq(<<>>, 1, m)
    BY <2>2, ChompAllIs
  <2>4. ChompAll(<<>>) = <<>>
    BY <2>3
  <2> QED
    BY <2>1, <2>2, <2>4
<1>5. CASE S # {}
  <2>1. PICK k, m : k = Min(S) /\ m = Max(S)
    OBVIOUS
  <2>2. k \in S /\ m \in S /\ k <= m
    BY <1>3, <1>5, <2>1, SomeMin, SomeMax
  <2>3. k \in 1 .. n /\ m \in 1 .. n /\ line[m] # "r"
    BY <1>2, <1>3, <2>2
  <2>4. PICK s : s = SubSeq(line, k, m)
    OBVIOUS
  <2>5. Strip(line) = s
    BY <1>2, <1>5, <2>1, <2>4 DEF Strip
  <2>6. PICK j \in Nat : j = m - k + 1 /\ j > 0
    BY <2>2, <2>3
  <2>7. s \in Seq(Bytes) /\ Len(s) = j /\ s[j] = line[m]
    BY <1>1, <2>2, <2>3, <2>4, <2>6
  <2>8. PICK q \in 0 .. j : ChompAll(s) = SubSeq(s, 1, q) /\ \A i \in 1 .. j : i > q => s[i] = "r"
    BY <2>7, ChompAllIs
  <2>9. q = j
    BY <2>3, <2>6, <2>7, <2>8
  <2>10. SubSeq(s, 1, j) = s
    BY <2>6, <2>7
  <2>11. n # 0
    BY <2>3
  <2> QED
    BY <1>1, <2>5, <2>7, <2>8, <2>9, <2>10, <2>11
<1> QED
  BY <1>4, <1>5

-----------------------------------------------------------------------------
(* The lines of a body.                                                     *)

LEMMA EndsAre ==
  ASSUME wire \in Seq(Bytes), NEW n, n = Len(wire)
  PROVE  /\ n \in Nat /\ Ends \in SUBSET (1 .. (n + 1)) /\ Ends \in SUBSET Nat /\ IsFiniteSet(Ends)
         /\ \A i \in 1 .. n : i \in Ends <=> wire[i] = "n"
         /\ n + 1 \in Ends <=> n > 0 /\ wire[n] # "n"
<1>1. n \in Nat /\ DOMAIN wire = 1 .. n /\ (wire # <<>> <=> n > 0)
  OBVIOUS
<1>2. PICK S : S = {i \in 1 .. n : wire[i] = "n"}
  OBVIOUS
<1>3. Ends = S \cup (IF n > 0 /\ wire[n] # "n" THEN {n + 1} ELSE {})
  BY <1>1, <1>2 DEF Ends, Last
<1>4. n + 1 \notin 1 .. n /\ 1 .. n \in SUBSET (1 .. (n + 1)) /\ n + 1 \in 1 .. (n + 1)
  BY <1>1
<1>5. PICK T : T = 1 .. (n + 1)
  OBVIOUS
<1>6. Ends \in SUBSET T
  BY <1>2, <1>3, <1>4, <1>5
<1>7. IsFiniteSet(T) /\ T \in SUBSET Nat
  <2>1. 1 \in Int /\ n + 1 \in Int
    BY <1>1
  <2>2. T \in SUBSET Nat
    BY <1>1, <1>5
  <2> QED
    BY <1>5, <2>1, <2>2, FS_Interval
<1>8. IsFiniteSet(Ends)
  BY <1>6, <1>7, FS_Subset
<1> QED
  BY <1>1, <1>2, <1>3, <1>4, <1>5, <1>6, <1>7, <1>8

\* A line end that is a CRLF, and those of some lines.
CRLF(e) == e > 1 /\ wire[e - 1] = "r"
CRLFs(from, e) == {c \in Ends : from < c /\ c <= e /\ CRLF(c)}

\* The line that ends at e follows the line end before.
Follows(m, e) == m \in Nat /\ m < e /\ (m = 0 \/ m \in Ends) /\ \A x \in Ends : x < e => x <= m

LEMMA LineIs ==
  ASSUME wire \in Seq(Bytes), NEW e \in Ends
  PROVE  /\ Follows(Before(Ends, e), e)
         /\ \A m : Follows(m, e) =>
              /\ Before(Ends, e) = m /\ LineTo(e) = SubSeq(wire, m + 1, e - 1)
              /\ LineTo(e) \in Seq(Bytes) /\ Len(LineTo(e)) = e - 1 - m
              /\ Len(Chomp(LineTo(e))) + 1 = e - m - (IF CRLF(e) THEN 1 ELSE 0)
<1>1. PICK n : n = Len(wire)
  OBVIOUS
<1>2. /\ n \in Nat /\ Ends \in SUBSET (1 .. (n + 1)) /\ Ends \in SUBSET Nat
      /\ \A i \in 1 .. n : i \in Ends <=> wire[i] = "n"
  BY <1>1, EndsAre
<1>3. e \in Nat /\ e > 0 /\ e <= n + 1
  BY <1>2
<1>4. PICK E : E = Ends
  OBVIOUS
<1>5. PICK k : k = Before(E, e)
  OBVIOUS
<1>6. Follows(k, e)
  <2>1. k \in 0 .. e /\ (k = 0 \/ (k \in E /\ k < e)) /\ \A x \in E : x < e => x <= k
    BY <1>2, <1>3, <1>4, <1>5, BeforeIs
  <2> QED
    BY <1>3, <1>4, <2>1 DEF Follows
<1>7. ASSUME NEW m, Follows(m, e)
      PROVE  /\ k = m /\ LineTo(e) = SubSeq(wire, m + 1, e - 1)
             /\ LineTo(e) \in Seq(Bytes) /\ Len(LineTo(e)) = e - 1 - m
             /\ Len(Chomp(LineTo(e))) + 1 = e - m - (IF CRLF(e) THEN 1 ELSE 0)
  <2>1. k = m
    <3>1. m \in Nat /\ (m = 0 \/ (m \in E /\ m < e)) /\ \A x \in E : x < e => x <= m
      BY <1>4, <1>7 DEF Follows
    <3> QED
      BY <1>2, <1>3, <1>4, <1>5, <3>1, BeforeThat
  <2>2. PICK l : l = SubSeq(wire, m + 1, e - 1)
    OBVIOUS
  <2>3. LineTo(e) = l
    BY <1>4, <1>5, <2>1, <2>2 DEF LineTo
  <2>4. m \in Nat /\ m < e /\ (m = 0 \/ m \in Ends)
    BY <1>7 DEF Follows
  <2>5. PICK q \in Nat : q = e - 1 - m
    BY <1>3, <2>4
  <2>6. l \in Seq(Bytes) /\ Len(l) = q /\ (q > 0 => l[q] = wire[e - 1])
    BY <1>1, <1>2, <1>3, <2>2, <2>4, <2>5
  <2>7. q > 0 /\ l[q] = "r" <=> CRLF(e)
    <3>1. CASE q > 0
      <4>1. e > 1
        BY <1>3, <2>4, <2>5, <3>1
      <4> QED
        BY <2>6, <3>1, <4>1 DEF CRLF
    <3>2. CASE q = 0 /\ m = 0
      BY <1>3, <2>5, <3>2 DEF CRLF
    <3>3. CASE q = 0 /\ m # 0
      <4>1. e - 1 = m /\ m \in 1 .. n /\ m \in Ends
        BY <1>2, <1>3, <2>4, <2>5, <3>3
      <4>2. wire[m] = "n"
        BY <1>2, <4>1
      <4> QED
        BY <2>5, <3>3, <4>1, <4>2 DEF CRLF
    <3> QED
      BY <2>5, <3>1, <3>2, <3>3
  <2>8. PICK c : c = Chomp(l)
    OBVIOUS
  <2>9. Len(c) = IF CRLF(e) THEN q - 1 ELSE q
    <3>1. CASE q > 0 /\ l[q] = "r"
      <4>1. Len(c) = q - 1
        BY <2>6, <2>8, <3>1, ChompIs
      <4> QED
        BY <2>7, <3>1, <4>1
    <3>2. CASE ~ (q > 0 /\ l[q] = "r")
      <4>1. c = l
        BY <2>6, <2>8, <3>2, ChompIs
      <4> QED
        BY <2>6, <2>7, <3>2, <4>1
    <3> QED
      BY <3>1, <3>2
  <2>10. Len(c) + 1 = e - m - (IF CRLF(e) THEN 1 ELSE 0)
    BY <1>3, <2>4, <2>5, <2>9
  <2> QED
    BY <2>1, <2>2, <2>3, <2>5, <2>6, <2>8, <2>10
<1> QED
  BY <1>4, <1>5, <1>6, <1>7

\* A line more weighs as much more.
LEMMA OneLineWeighs ==
  ASSUME wire \in Seq(Bytes), NEW e \in Ends, NEW m, Follows(m, e), NEW a \in 0 .. m
  PROVE  /\ Weight(a, e) = Weight(a, m) + Len(Chomp(LineTo(e))) + 1
         /\ Weight(a, m) \in Int /\ Weight(e, e) = 0 /\ Weight(0, 0) = 0
<1>1. /\ Ends \in SUBSET Nat /\ IsFiniteSet(Ends)
  BY EndsAre
<1>2. e \in Nat /\ m \in Nat /\ m < e /\ a \in Nat /\ a <= m
  BY <1>1 DEF Follows
<1>3. PICK S, T : S = CRLFs(a, m) /\ T = CRLFs(a, e)
  OBVIOUS
<1>4. IsFiniteSet(S) /\ Cardinality(S) \in Nat /\ e \notin S
  <2>1. S \in SUBSET Ends
    BY <1>3 DEF CRLFs
  <2>2. e \notin S
    BY <1>2, <1>3 DEF CRLFs
  <2> QED
    BY <1>1, <2>1, <2>2, FS_Subset, FS_CardinalityType
<1>5. PICK x \in {0, 1} : x = (IF CRLF(e) THEN 1 ELSE 0)
  OBVIOUS
<1>6. Cardinality(T) = Cardinality(S) + x
  <2>1. \A c \in Ends : c <= e <=> (c <= m \/ c = e)
    BY <1>1, <1>2 DEF Follows
  <2>2. CASE CRLF(e)
    <3>1. a < e /\ e <= e
      BY <1>2
    <3>2. \A c : c \in T <=> c \in S \/ c = e
      BY <1>3, <2>1, <2>2, <3>1, Zenon DEF CRLFs
    <3>3. T = S \cup {e}
      BY <3>2
    <3> QED
      BY <1>4, <1>5, <2>2, <3>3, FS_AddElement
  <2>3. CASE ~ CRLF(e)
    <3>1. \A c : c \in T <=> c \in S
      BY <1>2, <1>3, <2>1, <2>3 DEF CRLFs
    <3>2. T = S
      BY <3>1
    <3> QED
      BY <1>4, <1>5, <2>3, <3>2
  <2> QED
    BY <2>2, <2>3
<1>7. Weight(a, m) = m - a - Cardinality(S) /\ Weight(a, e) = e - a - Cardinality(T)
  BY <1>3 DEF Weight, CRLFs, CRLF
<1>8. PICK w : w = Len(Chomp(LineTo(e))) + 1
  OBVIOUS
<1>9. w = e - m - x
  BY <1>5, <1>8, LineIs
<1>10. Weight(a, e) = Weight(a, m) + w /\ Weight(a, m) \in Int
  <2>1. PICK y, z \in Nat : y = Cardinality(S) /\ z = Cardinality(T) /\ z = y + x
    BY <1>4, <1>6
  <2>2. x \in Int /\ y \in Int /\ e \in Int /\ m \in Int /\ a \in Int
    BY <1>2, <1>5
  <2>3. (e - a) - (y + x) = ((m - a) - y) + ((e - m) - x) /\ (m - a) - y \in Int
    BY <2>2
  <2> QED
    BY <1>7, <1>9, <2>1, <2>3
<1>11. Weight(e, e) = 0 /\ Weight(0, 0) = 0
  <2>1. \A c \in Ends : ~ (e < c /\ c <= e) /\ ~ (0 < c /\ c <= 0)
    BY <1>1, <1>2
  <2>2. CRLFs(e, e) = {} /\ CRLFs(0, 0) = {}
    BY <2>1 DEF CRLFs
  <2>3. Weight(e, e) = e - e - 0 /\ Weight(0, 0) = 0 - 0 - 0
    BY <2>2, FS_EmptySet DEF Weight, CRLFs, CRLF
  <2> QED
    BY <1>2, <2>3
<1>12. Len(Chomp(LineTo(e))) \in Nat
  BY LineIs, ChompedLengths
<1> QED
  BY <1>8, <1>10, <1>11, <1>12

-----------------------------------------------------------------------------
(* The records of a body.                                                   *)

\* The data lines of the record that is open after the line end m.
Pending(m) == {c \in DataLines : Before(Blanks, m + 1) < c /\ c <= m}

LEMMA BlankBefore ==
  ASSUME wire \in Seq(Bytes), NEW e \in Ends, NEW m, Follows(m, e)
  PROVE  /\ Before(Blanks, e) = Before(Blanks, m + 1) /\ Before(Blanks, e) \in 0 .. m
         /\ Before(Blanks, e + 1) = IF e \in Blanks THEN e ELSE Before(Blanks, e)
<1>1. /\ Ends \in SUBSET Nat /\ e \in Nat /\ m \in Nat /\ m < e
      /\ \A x \in Ends : x < e => x <= m
  BY EndsAre DEF Follows
<1>2. PICK B : B = Blanks
  OBVIOUS
<1>3. B \in SUBSET Nat /\ \A x \in B : x \in Ends
  BY <1>1, <1>2 DEF Blanks
<1>4. PICK k : k = Before(B, e)
  OBVIOUS
<1>5. k \in Nat /\ (k = 0 \/ (k \in B /\ k < e)) /\ \A x \in B : x < e => x <= k
  BY <1>1, <1>3, <1>4, BeforeIs
<1>6. k <= m
  BY <1>1, <1>3, <1>5
<1>7. Before(B, m + 1) = k
  <2>1. m + 1 \in Nat /\ (k = 0 \/ (k \in B /\ k < m + 1)) /\ \A x \in B : x < m + 1 => x <= k
    BY <1>1, <1>3, <1>5, <1>6
  <2> QED
    BY <1>3, <1>5, <2>1, BeforeThat
<1>8. Before(B, e + 1) = IF e \in B THEN e ELSE k
  <2>1. PICK j \in Nat : j = IF e \in B THEN e ELSE k
    BY <1>1, <1>5
  <2>2. e + 1 \in Nat /\ (j = 0 \/ (j \in B /\ j < e + 1)) /\ \A x \in B : x < e + 1 => x <= j
    BY <1>1, <1>3, <1>5, <2>1
  <2>3. Before(B, e + 1) = j
    BY <1>3, <2>2, BeforeThat
  <2> QED
    BY <2>1, <2>3
<1> QED
  BY <1>1, <1>2, <1>4, <1>5, <1>6, <1>7, <1>8

LEMMA OneLineMore ==
  ASSUME wire \in Seq(Bytes), NEW e \in Ends, NEW m, Follows(m, e)
  PROVE  /\ Pending(m) \in SUBSET DataLines /\ IsFiniteSet(Pending(m)) /\ \A c \in Pending(m) : c \in Nat /\ c <= m /\ c < e
         /\ DataOf(e) = IF e \in DataLines THEN Pending(m) \cup {e} ELSE Pending(m)
         /\ Pending(e) = IF e \in Blanks THEN {} ELSE DataOf(e)
<1>1. /\ Ends \in SUBSET Nat /\ IsFiniteSet(Ends) /\ e \in Nat /\ m \in Nat /\ m < e
      /\ \A x \in Ends : x < e => x <= m
  BY EndsAre DEF Follows
<1>2. PICK k : k = Before(Blanks, e)
  OBVIOUS
<1>3. k \in 0 .. m /\ Before(Blanks, m + 1) = k /\ Before(Blanks, e + 1) = IF e \in Blanks THEN e ELSE k
  BY <1>2, BlankBefore
<1>4. \A c \in DataLines : c \in Ends /\ c \in Nat
  BY <1>1 DEF DataLines
<1>5. PICK P, D : P = Pending(m) /\ D = DataOf(e)
  OBVIOUS
<1>6. /\ P = {c \in DataLines : k < c /\ c <= m}
      /\ D = {c \in DataLines : k < c /\ c <= e}
  BY <1>2, <1>3, <1>5 DEF Pending, DataOf
<1>7. P \in SUBSET DataLines /\ IsFiniteSet(P) /\ \A c \in P : c \in Nat /\ c <= m /\ c < e
  <2>1. P \in SUBSET Ends
    BY <1>4, <1>6
  <2>2. IsFiniteSet(P)
    BY <1>1, <2>1, FS_Subset
  <2>3. \A c \in P : c \in Nat /\ c <= m /\ c < e
    BY <1>1, <1>4, <1>6
  <2> QED
    BY <1>6, <2>2, <2>3
<1>8. D = IF e \in DataLines THEN P \cup {e} ELSE P
  <2>1. \A c \in DataLines : c <= e <=> c <= m \/ c = e
    BY <1>1, <1>4
  <2>2. k < e
    BY <1>1, <1>3
  <2>3. \A c : c \in D <=> c \in P \/ (c = e /\ e \in DataLines)
    BY <1>6, <2>1, <2>2, Zenon
  <2>4. CASE e \in DataLines
    <3>1. D = P \cup {e}
      BY <2>3, <2>4
    <3> QED
      BY <2>4, <3>1
  <2>5. CASE e \notin DataLines
    <3>1. D = P
      BY <2>3, <2>5
    <3> QED
      BY <2>5, <3>1
  <2> QED
    BY <2>4, <2>5
<1>9. Pending(e) = IF e \in Blanks THEN {} ELSE D
  <2>1. CASE e \in Blanks
    <3>1. Pending(e) = {c \in DataLines : e < c /\ c <= e}
      BY <1>3, <2>1 DEF Pending
    <3>2. \A c \in DataLines : ~ (e < c /\ c <= e)
      BY <1>1, <1>4
    <3> QED
      BY <2>1, <3>1, <3>2
  <2>2. CASE e \notin Blanks
    <3>1. Pending(e) = {c \in DataLines : k < c /\ c <= e}
      BY <1>3, <2>2 DEF Pending
    <3> QED
      BY <1>6, <2>2, <3>1
  <2> QED
    BY <2>1, <2>2
<1> QED
  BY <1>5, <1>7, <1>8, <1>9

\* The bytes of some data lines.
BytesOf(S) == UNION {Before(Ends, c) + 1 .. Before(Ends, c) + Len(Field(c)) : c \in S}

LEMMA FieldIs ==
  ASSUME wire \in Seq(Bytes), NEW e \in Ends, NEW m, Follows(m, e)
  PROVE  Len(Field(e)) \in Nat /\ m + Len(Field(e)) < e
<1>1. PICK l \in Seq(Bytes) : l = LineTo(e) /\ Len(l) = e - 1 - m
  BY LineIs
<1>2. PICK k \in 0 .. Len(l) : ChompAll(l) = SubSeq(l, 1, k) /\ Len(SubSeq(l, 1, k)) = k
  BY ChompAllIs
<1>3. Len(Field(e)) = k
  BY <1>1, <1>2 DEF Field
<1>4. e \in Nat /\ m \in Nat /\ Len(l) \in Nat
  BY EndsAre DEF Follows
<1> QED
  BY <1>1, <1>2, <1>3, <1>4

LEMMA BytesAdd ==
  ASSUME wire \in Seq(Bytes), NEW e \in Ends, NEW m, Follows(m, e), NEW S \in SUBSET Ends, \A c \in S : c <= m,
         IsFiniteSet(BytesOf(S))
  PROVE  /\ IsFiniteSet(BytesOf(S \cup {e}))
         /\ Cardinality(BytesOf(S \cup {e})) = Cardinality(BytesOf(S)) + Len(Field(e))
<1>1. /\ Ends \in SUBSET Nat /\ e \in Nat /\ m \in Nat /\ m < e
  BY EndsAre DEF Follows
<1>2. Before(Ends, e) = m
  BY LineIs
<1>3. PICK k \in Nat : k = Len(Field(e))
  BY FieldIs
<1>4. PICK A, B, C : A = BytesOf(S) /\ B = m + 1 .. m + k /\ C = BytesOf(S \cup {e})
  OBVIOUS
<1>5. C = A \cup B
  BY <1>2, <1>3, <1>4 DEF BytesOf
<1>6. A \cap B = {}
  <2>1. SUFFICES ASSUME NEW i \in A, i \in B PROVE FALSE
    OBVIOUS
  <2>2. PICK c \in S : i \in Before(Ends, c) + 1 .. Before(Ends, c) + Len(Field(c))
    BY <1>4, <2>1 DEF BytesOf
  <2>3. PICK b : b = Before(Ends, c)
    OBVIOUS
  <2>4. Follows(b, c)
    BY <2>3, LineIs
  <2>5. Len(Field(c)) \in Nat /\ b + Len(Field(c)) < c /\ b \in Nat /\ c \in Nat /\ c <= m
    BY <1>1, <2>4, FieldIs DEF Follows
  <2>6. PICK q \in Nat : q = Len(Field(c)) /\ b + q < c
    BY <2>5
  <2>7. i \in b + 1 .. b + q /\ i \in m + 1 .. m + k
    BY <1>4, <2>1, <2>2, <2>3, <2>6
  <2> QED
    BY <1>1, <1>3, <2>5, <2>6, <2>7
<1>7. IsFiniteSet(B) /\ Cardinality(B) = k
  <2>1. m + 1 \in Int /\ m + k \in Int
    BY <1>1, <1>3
  <2>2. IsFiniteSet(B) /\ Cardinality(B) = IF m + 1 > m + k THEN 0 ELSE (m + k) - (m + 1) + 1
    BY <1>4, <2>1, FS_Interval
  <2>3. PICK z : z = Cardinality(B)
    OBVIOUS
  <2>4. z = IF m + 1 > m + k THEN 0 ELSE (m + k) - (m + 1) + 1
    BY <2>2, <2>3
  <2>5. m \in Int /\ k \in Int /\ k >= 0
    BY <1>1, <1>3
  <2>6. z = k
    BY <2>4, <2>5
  <2> QED
    BY <2>2, <2>3, <2>6
<1>8. IsFiniteSet(C) /\ Cardinality(C) = Cardinality(A) + Cardinality(B) - Cardinality(A \cap B)
  <2>1. IsFiniteSet(A)
    BY <1>4
  <2>2. IsFiniteSet(A \cup B) /\ Cardinality(A \cup B) = Cardinality(A) + Cardinality(B) - Cardinality(A \cap B)
    BY <1>7, <2>1, FS_Union
  <2> QED
    BY <1>5, <2>2
<1>9. Cardinality(C) = Cardinality(A) + k
  <2>1. Cardinality(A \cap B) = 0
    BY <1>6, FS_EmptySet
  <2>2. Cardinality(A) \in Nat
    BY <1>4, FS_CardinalityType
  <2> QED
    BY <1>7, <1>8, <2>1, <2>2
<1> QED
  BY <1>3, <1>4, <1>8, <1>9

-----------------------------------------------------------------------------
(* How much data a record holds.                                            *)

Total(n, s) == FoldLeft(LAMBDA a, b : a + b, n, s)

LEMMA TotalOneByOne ==
  ASSUME NEW n, NEW s, NEW k \in Nat, DOMAIN s = 1 .. k
  PROVE  \E h : OneByOne(h, "numbers", n, s, k) /\ h[k] = Total(n, s)
<1>1. PICK h : /\ OneByOne(h, "numbers", n, s, k)
               /\ h[k] = (CHOOSE g : Takes(g, "numbers", n, s, DOMAIN s))[DOMAIN s]
  BY FoldedOneByOne
<1>2. Total(n, s) = (CHOOSE g : Takes(g, "numbers", n, s, DOMAIN s))[DOMAIN s]
  BY DEF Total, FoldLeft, MapThenFoldSet, Takes, Taken
<1> QED
  BY <1>1, <1>2

LEMMA Appended ==
  ASSUME NEW S, NEW s \in Seq(S), NEW x \in S, NEW k, k = Len(s), NEW r, r = Append(s, x)
  PROVE  /\ r \in Seq(S) /\ k \in Nat /\ DOMAIN r = 1 .. (k + 1) /\ Len(r) = k + 1
         /\ r[k + 1] = x /\ \A i \in 1 .. k : r[i] = s[i]
OBVIOUS

\* The numbers of s come to b.
Sums(s, b) == s \in Seq(Nat) /\ b \in Nat /\ \A n \in Nat : Total(n, s) = n + b

LEMMA NoneSum == Sums(<<>>, 0)
<1>1. ASSUME NEW n \in Nat PROVE Total(n, <<>>) = n + 0
  <2>1. PICK h : OneByOne(h, "numbers", n, <<>>, 0) /\ h[0] = Total(n, <<>>)
    <3>1. DOMAIN <<>> = 1 .. 0 /\ 0 \in Nat
      OBVIOUS
    <3> QED
      BY <3>1, TotalOneByOne
  <2> QED
    BY <2>1 DEF OneByOne
<1>2. <<>> \in Seq(Nat)
  OBVIOUS
<1> QED
  BY <1>1, <1>2 DEF Sums

LEMMA OneMoreSums ==
  ASSUME NEW s, NEW b, Sums(s, b), NEW x \in Nat
  PROVE  Sums(Append(s, x), b + x)
<1>1. s \in Seq(Nat) /\ b \in Nat /\ \A n \in Nat : Total(n, s) = n + b
  BY DEF Sums
<1>2. PICK k \in Nat : k = Len(s) /\ DOMAIN s = 1 .. k
  BY <1>1
<1>3. PICK r : r = Append(s, x)
  OBVIOUS
<1>4. /\ r \in Seq(Nat) /\ DOMAIN r = 1 .. (k + 1) /\ k + 1 \in Nat
      /\ r[k + 1] = x /\ \A i \in 1 .. k : r[i] = s[i]
  <2>1. s \in Seq(Nat) /\ x \in Nat /\ k = Len(s) /\ r = Append(s, x)
    BY <1>1, <1>2, <1>3
  <2> QED
    BY <2>1, Appended
<1>5. ASSUME NEW n \in Nat PROVE Total(n, r) = n + (b + x)
  <2>1. PICK h : OneByOne(h, "numbers", n, r, k + 1) /\ h[k + 1] = Total(n, r)
    BY <1>4, TotalOneByOne
  <2>2. PICK f : OneByOne(f, "numbers", n, s, k) /\ f[k] = Total(n, s)
    BY <1>2, TotalOneByOne
  <2> DEFINE S == {i \in 0 .. k : h[i] = f[i]}
  <2>3. 0 \in S
    BY <2>1, <2>2 DEF OneByOne
  <2>4. ASSUME NEW i \in 0 .. k, i # k, i \in S PROVE i + 1 \in S
    <3>1. PICK j \in 1 .. k : j = i + 1
      <4>1. i + 1 \in 1 .. k
        BY <2>4
      <4> QED
        BY <4>1
    <3>2. i \in 0 .. (k + 1) /\ i # k + 1
      BY <1>2, <2>4
    <3>3. h[j] = Taken("numbers", h[i], r[j])
      BY <2>1, <3>1, <3>2 DEF OneByOne
    <3>4. f[j] = Taken("numbers", f[i], s[j])
      BY <2>2, <2>4, <3>1 DEF OneByOne
    <3>5. h[i] = f[i] /\ r[j] = s[j]
      BY <1>4, <2>4, <3>1
    <3>6. h[j] = f[j]
      BY <3>3, <3>4, <3>5
    <3> QED
      BY <3>1, <3>6
  <2> HIDE DEF S
  <2>5. \A i \in 0 .. k : i \in S
    BY <2>3, <2>4, UpTo
  <2>6. h[k] = f[k]
    BY <2>5 DEF S
  <2>7. h[k + 1] = Taken("numbers", h[k], x)
    <3>1. k \in 0 .. (k + 1) /\ k # k + 1
      BY <1>2
    <3> QED
      BY <1>4, <2>1, <3>1 DEF OneByOne
  <2>8. h[k + 1] = h[k] + x
    BY <2>7 DEF Taken
  <2>9. f[k] = n + b
    BY <1>1, <2>2
  <2>10. Total(n, r) = (n + b) + x
    BY <2>1, <2>6, <2>8, <2>9
  <2> QED
    BY <1>1, <2>10
<1>6. b + x \in Nat
  BY <1>1
<1> QED
  BY <1>3, <1>4, <1>5, <1>6 DEF Sums

-----------------------------------------------------------------------------
(* What a decoder holds between two lines.                                  *)

Frame0 == Seq(Nat) \cup {Long}

\* s holds the data lines of S, and fs the frames of the records of F.
Holds(s, S) == Len(s) = Cardinality(S) /\ \A c \in S : s[Rank(S, c)] = Len(Field(c))
Told(fs, F) == fs \in Seq(Frame0) /\ Len(fs) = Cardinality(F) /\ \A e \in F : IsFrame(fs[Rank(F, e)], e)

LEMMA HoldsMore ==
  ASSUME NEW s \in Seq(Nat), NEW S \in SUBSET Nat, IsFiniteSet(S), Holds(s, S), NEW e \in Nat, \A c \in S : c < e,
         NEW k \in Nat, k = Len(Field(e))
  PROVE  Holds(Append(s, k), S \cup {e})
<1>1. PICK n \in Nat : n = Len(s) /\ n = Cardinality(S)
  BY DEF Holds
<1>2. PICK r, T : r = Append(s, k) /\ T = S \cup {e}
  OBVIOUS
<1>3. Len(r) = n + 1 /\ r[n + 1] = k /\ \A i \in 1 .. n : r[i] = s[i]
  <2>1. s \in Seq(Nat) /\ k \in Nat /\ n = Len(s) /\ r = Append(s, k)
    BY <1>1, <1>2
  <2> QED
    BY <2>1, Appended
<1>4. Cardinality(T) = n + 1 /\ Rank(T, e) = n + 1 /\ \A c \in S : Rank(T, c) = Rank(S, c)
  BY <1>1, <1>2, OneMoreRanked
<1>5. ASSUME NEW c \in S PROVE r[Rank(T, c)] = Len(Field(c))
  <2>1. PICK i \in 1 .. n : i = Rank(S, c)
    BY <1>1, RankIs
  <2>2. s[i] = Len(Field(c))
    BY <2>1 DEF Holds
  <2> QED
    BY <1>3, <1>4, <2>1, <2>2
<1>6. r[Rank(T, e)] = Len(Field(e))
  BY <1>3, <1>4
<1>7. \A c \in T : r[Rank(T, c)] = Len(Field(c))
  BY <1>2, <1>5, <1>6
<1> QED
  BY <1>2, <1>3, <1>4, <1>7 DEF Holds

LEMMA ToldMore ==
  ASSUME NEW fs, NEW F \in SUBSET Nat, IsFiniteSet(F), Told(fs, F), NEW e \in Nat, \A c \in F : c < e,
         NEW f \in Frame0, IsFrame(f, e)
  PROVE  Told(Append(fs, f), F \cup {e})
<1>1. PICK n \in Nat : n = Len(fs) /\ n = Cardinality(F) /\ fs \in Seq(Frame0)
  BY DEF Told
<1>2. PICK r, T : r = Append(fs, f) /\ T = F \cup {e}
  OBVIOUS
<1>3. r \in Seq(Frame0) /\ Len(r) = n + 1 /\ r[n + 1] = f /\ \A i \in 1 .. n : r[i] = fs[i]
  <2>1. fs \in Seq(Frame0) /\ f \in Frame0 /\ n = Len(fs) /\ r = Append(fs, f)
    BY <1>1, <1>2
  <2> QED
    BY <2>1, Appended
<1>4. Cardinality(T) = n + 1 /\ Rank(T, e) = n + 1 /\ \A c \in F : Rank(T, c) = Rank(F, c)
  BY <1>1, <1>2, OneMoreRanked
<1>5. ASSUME NEW c \in F PROVE IsFrame(r[Rank(T, c)], c)
  <2>1. PICK i \in 1 .. n : i = Rank(F, c)
    BY <1>1, RankIs
  <2>2. IsFrame(fs[i], c)
    BY <2>1 DEF Told
  <2>3. r[Rank(T, c)] = fs[i]
    BY <1>3, <1>4, <2>1
  <2> QED
    BY <2>2, <2>3
<1>6. r[Rank(T, e)] = f
  BY <1>3, <1>4
<1>7. \A c \in T : IsFrame(r[Rank(T, c)], c)
  BY <1>2, <1>5, <1>6
<1> QED
  BY <1>2, <1>3, <1>4, <1>7 DEF Told

BlanksTo(m) == {b \in Blanks : b <= m}

\* The lines up to the line end m are read: data, size, total and frames of a
\* decoder.
DataRead(a, m) ==
  /\ Holds(a, Pending(m)) /\ IsFiniteSet(BytesOf(Pending(m)))
  /\ Sums(a, Cardinality(BytesOf(Pending(m)))) /\ Cardinality(BytesOf(Pending(m))) <= MaxData

AllRead(a, z, t, fs, m) ==
  /\ DataRead(a, m) /\ z = Weight(Before(Blanks, m + 1), m) /\ t = Weight(0, m)
  /\ Told(fs, BlanksTo(m)) /\ \A x \in Ends : x <= m => ~ Oversized(x)

\* Whether a line is refused.
LEMMA LineRefused ==
  ASSUME wire \in Seq(Bytes), NEW e \in Ends, NEW m, Follows(m, e),
         NEW a, NEW z, NEW t, NEW fs, AllRead(a, z, t, fs, m), NEW k, k = Len(Chomp(LineTo(e)))
  PROVE  /\ Weight(0, e) = t + k + 1 /\ Weight(Before(Blanks, e), e) = z + k + 1
         /\ Oversized(e) <=> \/ Weight(0, e) > MaxTotal \/ Weight(Before(Blanks, e), e) > MaxLine
                             \/ e \in DataLines /\ Total(Len(Field(e)), a) > MaxData
<1>1. PICK b : b = Before(Blanks, e)
  OBVIOUS
<1>2. b \in 0 .. m /\ Before(Blanks, m + 1) = b /\ m \in Nat
  BY <1>1, BlankBefore DEF Follows
<1>3. Weight(0, e) = t + k + 1 /\ Weight(b, e) = z + k + 1
  <2>1. t = Weight(0, m) /\ z = Weight(b, m)
    BY <1>2 DEF AllRead
  <2>2. 0 \in 0 .. m
    BY <1>2
  <2> QED
    BY <1>2, <2>1, <2>2, OneLineWeighs
<1>4. PICK P, p : P = Pending(m) /\ p = Cardinality(BytesOf(P))
  OBVIOUS
<1>5. Sums(a, p) /\ p <= MaxData /\ p \in Nat /\ IsFiniteSet(BytesOf(P))
  BY <1>4 DEF AllRead, DataRead, Sums
<1>6. DataBytes(e) = BytesOf(DataOf(e))
  BY DEF DataBytes, BytesOf
<1>7. Cardinality(DataBytes(e)) > MaxData <=> e \in DataLines /\ Total(Len(Field(e)), a) > MaxData
  <2>1. CASE e \in DataLines
    <3>1. DataOf(e) = P \cup {e} /\ P \in SUBSET Ends /\ \A c \in P : c <= m
      BY <1>4, <2>1, OneLineMore DEF DataLines
    <3>2. PICK q \in Nat : q = Len(Field(e))
      BY FieldIs
    <3>3. Cardinality(BytesOf(P \cup {e})) = p + q
      BY <1>4, <1>5, <3>1, <3>2, BytesAdd
    <3>4. Total(q, a) = q + p
      BY <1>5, <3>2 DEF Sums
    <3>5. q + p = p + q
      BY <1>5, <3>2
    <3> QED
      BY <1>6, <2>1, <3>1, <3>2, <3>3, <3>4, <3>5
  <2>2. CASE e \notin DataLines
    <3>1. DataOf(e) = P
      BY <1>4, <2>2, OneLineMore
    <3>2. ~ (p > MaxData)
      BY <1>5, FramingAssumption
    <3> QED
      BY <1>4, <1>6, <2>2, <3>1, <3>2
  <2> QED
    BY <2>1, <2>2
<1>8. Oversized(e) <=> \/ Weight(0, e) > MaxTotal \/ Weight(Before(Blanks, e), e) > MaxLine
                       \/ e \in DataLines /\ Total(Len(Field(e)), a) > MaxData
  <2> DEFINE A == Weight(0, e) > MaxTotal \/ Weight(Before(Blanks, e), e) > MaxLine
             B == Cardinality(DataBytes(e)) > MaxData
             C == e \in DataLines /\ Total(Len(Field(e)), a) > MaxData
  <2>1. Oversized(e) <=> A \/ B
    BY Zenon DEF Oversized
  <2>2. B <=> C
    BY <1>7, Zenon
  <2>3. Oversized(e) <=> A \/ C
    <3> HIDE DEF A, B, C
    <3> QED
      BY <2>1, <2>2
  <2> QED
    BY <2>3, Zenon
<1> QED
  BY <1>1, <1>3, <1>8

\* The blank lines that are read.
LEMMA BlanksRead ==
  ASSUME wire \in Seq(Bytes), NEW e \in Ends, NEW m, Follows(m, e), NEW F, F = BlanksTo(m),
         NEW G, G = BlanksTo(e)
  PROVE  /\ F \in SUBSET Nat /\ IsFiniteSet(F) /\ e \in Nat /\ \A b \in F : b < e
         /\ e \in Blanks => G = F \cup {e}
         /\ e \notin Blanks => G = F
<1>1. /\ Ends \in SUBSET Nat /\ IsFiniteSet(Ends) /\ e \in Nat /\ m \in Nat /\ m < e
      /\ \A x \in Ends : x < e => x <= m
  BY EndsAre DEF Follows
<1>2. \A b \in Blanks : b \in Ends /\ b \in Nat
  BY <1>1 DEF Blanks
<1>3. F \in SUBSET Ends /\ \A b \in F : b \in Nat /\ b <= m
  BY <1>2 DEF BlanksTo
<1>4. IsFiniteSet(F)
  BY <1>1, <1>3, FS_Subset
<1>5. F \in SUBSET Nat /\ \A b \in F : b < e
  <2>1. ASSUME NEW b \in F PROVE b \in Nat /\ b < e
    <3>1. b \in Nat /\ b <= m
      BY <1>3
    <3> QED
      BY <1>1, <3>1
  <2> QED
    BY <2>1
<1>6. \A b \in Blanks : b <= e <=> b <= m \/ b = e
  BY <1>1, <1>2
<1>7. e \in Blanks => G = F \cup {e}
  BY <1>6 DEF BlanksTo
<1>8. e \notin Blanks => G = F
  BY <1>6 DEF BlanksTo
<1> QED
  BY <1>1, <1>4, <1>5, <1>7, <1>8

LEMMA NoneRefused ==
  ASSUME wire \in Seq(Bytes), NEW e \in Ends, NEW m, Follows(m, e), ~ Oversized(e),
         \A x \in Ends : x <= m => ~ Oversized(x)
  PROVE  \A x \in Ends : x <= e => ~ Oversized(x)
<1>1. /\ Ends \in SUBSET Nat /\ e \in Nat /\ m \in Nat /\ m < e
      /\ \A x \in Ends : x < e => x <= m
  BY EndsAre DEF Follows
<1>2. \A x \in Ends : x <= e => x <= m \/ x = e
  BY <1>1
<1> QED
  BY <1>2, Zenon

\* A blank line ends a record, a data line adds to it, any other is passed by.
LEMMA BlankRead ==
  ASSUME framing = "sse", wire \in Seq(Bytes), NEW e \in Ends, NEW m, Follows(m, e),
         NEW a, NEW z, NEW t, NEW fs, AllRead(a, z, t, fs, m), e \in Blanks, ~ Oversized(e)
  PROVE  AllRead(<<>>, 0, Weight(0, e), Append(fs, a), e)
<1>1. PICK F, G : F = BlanksTo(m) /\ G = BlanksTo(e)
  OBVIOUS
<1>2. e \notin DataLines
  BY DEF Blanks, DataLines
<1>3. DataOf(e) = Pending(m) /\ Pending(e) = {} /\ Before(Blanks, e + 1) = e
  BY <1>2, OneLineMore, BlankBefore
<1>4. a \in Seq(Nat) /\ Holds(a, DataOf(e))
  BY <1>3 DEF AllRead, DataRead, Sums
<1>5. IsFrame(a, e) /\ a \in Frame0
  BY <1>4 DEF IsFrame, Holds, Frame0
<1>6. Told(Append(fs, a), F \cup {e})
  <2>1. Told(fs, F)
    BY <1>1 DEF AllRead
  <2>2. F \in SUBSET Nat /\ IsFiniteSet(F) /\ e \in Nat /\ \A b \in F : b < e
    BY <1>1, BlanksRead
  <2> QED
    BY <1>5, <2>1, <2>2, ToldMore
<1>7. Told(Append(fs, a), G) /\ \A x \in Ends : x <= e => ~ Oversized(x)
  <2>1. G = F \cup {e}
    BY <1>1, BlanksRead
  <2>2. \A x \in Ends : x <= m => ~ Oversized(x)
    BY DEF AllRead
  <2> QED
    BY <1>6, <2>1, <2>2, NoneRefused
<1>8. DataRead(<<>>, e)
  <2>1. BytesOf({}) = {}
    BY DEF BytesOf
  <2>2. IsFiniteSet({}) /\ Cardinality({}) = 0
    BY FS_EmptySet
  <2>3. Holds(<<>>, {})
    BY <2>2 DEF Holds
  <2>4. 0 <= MaxData
    BY FramingAssumption
  <2> QED
    BY <1>3, <2>1, <2>2, <2>3, <2>4, NoneSum DEF DataRead
<1>9. Weight(e, e) = 0
  <2>1. 0 \in 0 .. m
    BY DEF Follows
  <2> QED
    BY <2>1, OneLineWeighs
<1> QED
  BY <1>1, <1>3, <1>7, <1>8, <1>9 DEF AllRead

LEMMA DataLineRead ==
  ASSUME wire \in Seq(Bytes), NEW e \in Ends, NEW m, Follows(m, e),
         NEW a, NEW z, NEW t, NEW fs, AllRead(a, z, t, fs, m), e \in DataLines, ~ Oversized(e)
  PROVE  AllRead(Append(a, Len(Field(e))), Weight(Before(Blanks, e), e), Weight(0, e), fs, e)
<1>1. PICK F, G : F = BlanksTo(m) /\ G = BlanksTo(e)
  OBVIOUS
<1>2. e \notin Blanks
  BY DEF Blanks, DataLines
<1>3. PICK P : P = Pending(m)
  OBVIOUS
<1>4. Pending(e) = P \cup {e} /\ DataOf(e) = P \cup {e} /\ Before(Blanks, e + 1) = Before(Blanks, e)
  BY <1>2, <1>3, OneLineMore, BlankBefore
<1>5. Told(fs, G) /\ \A x \in Ends : x <= e => ~ Oversized(x)
  <2>1. G = F
    BY <1>1, <1>2, BlanksRead
  <2>2. Told(fs, F) /\ \A x \in Ends : x <= m => ~ Oversized(x)
    BY <1>1 DEF AllRead
  <2> QED
    BY <2>1, <2>2, NoneRefused
<1>6. PICK k \in Nat : k = Len(Field(e))
  BY FieldIs
<1>7. PICK p : p = Cardinality(BytesOf(P))
  OBVIOUS
<1>8. Holds(a, P) /\ IsFiniteSet(BytesOf(P)) /\ Sums(a, p)
  BY <1>3, <1>7 DEF AllRead, DataRead
<1>9. P \in SUBSET Ends /\ P \in SUBSET Nat /\ IsFiniteSet(P) /\ \A c \in P : c <= m /\ c < e
  BY <1>3, OneLineMore DEF DataLines
<1>10. IsFiniteSet(BytesOf(P \cup {e})) /\ Cardinality(BytesOf(P \cup {e})) = p + k
  BY <1>6, <1>7, <1>8, <1>9, BytesAdd
<1>11. Cardinality(BytesOf(P \cup {e})) <= MaxData
  <2>1. DataBytes(e) = BytesOf(P \cup {e})
    BY <1>4 DEF DataBytes, BytesOf
  <2>2. p \in Nat
    BY <1>8 DEF Sums
  <2>3. ~ (p + k > MaxData)
    BY <1>10, <2>1 DEF Oversized
  <2> QED
    BY <1>6, <1>10, <2>2, <2>3, FramingAssumption
<1>12. Sums(Append(a, k), p + k)
  BY <1>8, OneMoreSums
<1>13. Holds(Append(a, k), P \cup {e})
  <2>1. e \in Nat /\ a \in Seq(Nat)
    BY <1>8, EndsAre DEF Sums
  <2> QED
    BY <1>6, <1>8, <1>9, <2>1, HoldsMore
<1>14. DataRead(Append(a, k), e)
  BY <1>4, <1>10, <1>11, <1>12, <1>13 DEF DataRead
<1> QED
  BY <1>1, <1>4, <1>5, <1>6, <1>14 DEF AllRead

LEMMA OtherLineRead ==
  ASSUME wire \in Seq(Bytes), NEW e \in Ends, NEW m, Follows(m, e),
         NEW a, NEW z, NEW t, NEW fs, AllRead(a, z, t, fs, m), e \notin Blanks, e \notin DataLines, ~ Oversized(e)
  PROVE  AllRead(a, Weight(Before(Blanks, e), e), Weight(0, e), fs, e)
<1>1. PICK F, G : F = BlanksTo(m) /\ G = BlanksTo(e)
  OBVIOUS
<1>2. Pending(e) = Pending(m) /\ Before(Blanks, e + 1) = Before(Blanks, e)
  BY OneLineMore, BlankBefore
<1>3. Told(fs, G) /\ \A x \in Ends : x <= e => ~ Oversized(x)
  <2>1. G = F
    BY <1>1, BlanksRead
  <2>2. Told(fs, F) /\ \A x \in Ends : x <= m => ~ Oversized(x)
    BY <1>1 DEF AllRead
  <2> QED
    BY <2>1, <2>2, NoneRefused
<1>4. DataRead(a, e)
  BY <1>2 DEF AllRead, DataRead
<1> QED
  BY <1>1, <1>2, <1>3, <1>4 DEF AllRead

\* The decoder at a line end: nothing of the next line, everything before.
Reading(d, m) == d.error = FALSE /\ AllRead(d.data, d.size, d.total, d.frames, m)

\* A line is refused for its sizes, or it is read.
LEMMA SSELineRead ==
  ASSUME framing = "sse", wire \in Seq(Bytes), NEW e \in Ends, NEW m, Follows(m, e), NEW d, Decoding(d), Reading(d, m),
         NEW d2, d2 = SSELine(d, LineTo(e))
  PROVE  /\ Oversized(e) => d2 = Failed(d)
         /\ ~ Oversized(e) => d2.line = <<>> /\ Reading(d2, e)
<1>1. PICK raw \in Seq(Bytes) : raw = LineTo(e)
  BY LineIs
<1>2. PICK x : x = Chomp(raw)
  OBVIOUS
<1>3. PICK y : y = ChompAll(x)
  OBVIOUS
<1>4. y = Field(e)
  BY <1>1, <1>2, <1>3, ChompTwice DEF Field
<1>5. PICK w : w = [d EXCEPT !.line = <<>>, !.total = @ + Len(x) + 1, !.size = @ + Len(x) + 1]
  OBVIOUS
<1>6. d2 = IF w.total > MaxTotal \/ w.size > MaxLine THEN Failed(d)
           ELSE CASE y = <<>> -> Emit(w)
                  [] y # <<>> /\ y[1] = "x" ->
                       IF TooMuch(d, Len(y)) THEN Failed(d)
                       ELSE [w EXCEPT !.data = Append(@, Len(y))]
                  [] OTHER -> w
  BY <1>1, <1>2, <1>3, <1>5, Zenon DEF SSELine, TooMuch
<1>7. PICK l, a, z, t, fs, no : /\ d = [line |-> l, data |-> a, size |-> z, total |-> t, frames |-> fs, error |-> no]
                                /\ no = FALSE
  BY DEF Decoding, Reading
<1>8. AllRead(a, z, t, fs, m)
  BY <1>7 DEF Reading
<1>9. PICK z2, t2, none : z2 = Weight(Before(Blanks, e), e) /\ t2 = Weight(0, e) /\ none = <<>>
  OBVIOUS
<1>10. t2 = t + Len(x) + 1 /\ z2 = z + Len(x) + 1
  BY <1>1, <1>2, <1>8, <1>9, LineRefused
<1>11. w = [line |-> none, data |-> a, size |-> z2, total |-> t2, frames |-> fs, error |-> no]
  <2>1. d.total + Len(x) + 1 = t2 /\ d.size + Len(x) + 1 = z2
    BY <1>7, <1>10
  <2>2. w = [d EXCEPT !.line = none, !.total = t2, !.size = z2]
    BY <1>5, <1>9, <2>1
  <2> QED
    BY <1>7, <2>2
<1>12. Oversized(e) <=> \/ t2 > MaxTotal \/ z2 > MaxLine
                        \/ e \in DataLines /\ TooMuch(d, Len(y))
  <2>1. TooMuch(d, Len(y)) <=> Total(Len(Field(e)), a) > MaxData
    <3>1. TooMuch(d, Len(y)) <=> Total(Len(y), d.data) > MaxData
      BY Zenon DEF TooMuch, Total
    <3>2. d.data = a
      BY <1>7
    <3> QED
      BY <1>4, <3>1, <3>2
  <2>2. Oversized(e) <=> \/ Weight(0, e) > MaxTotal \/ Weight(Before(Blanks, e), e) > MaxLine
                         \/ e \in DataLines /\ Total(Len(Field(e)), a) > MaxData
    BY <1>8, LineRefused, Zenon
  <2> QED
    BY <1>9, <2>1, <2>2, Zenon
<1>13. (e \in Blanks <=> y = <<>>) /\ (e \in DataLines <=> y # <<>> /\ y[1] = "x")
  BY <1>4 DEF Blanks, DataLines
<1>14. CASE t2 > MaxTotal \/ z2 > MaxLine
  <2>1. w.total > MaxTotal \/ w.size > MaxLine
    BY <1>11, <1>14
  <2> QED
    BY <1>6, <1>12, <1>14, <2>1
<1>15. CASE ~ (t2 > MaxTotal \/ z2 > MaxLine)
  <2>1. ~ (w.total > MaxTotal \/ w.size > MaxLine)
    BY <1>11, <1>15
  <2>2. CASE y = <<>>
    <3>1. e \in Blanks /\ e \notin DataLines /\ ~ Oversized(e)
      BY <1>12, <1>13, <1>15, <2>2
    <3>2. PICK more : more = Append(fs, a)
      OBVIOUS
    <3>3. AllRead(none, 0, t2, more, e)
      BY <1>8, <1>9, <3>1, <3>2, BlankRead
    <3>4. d2 = Emit(w)
      BY <1>6, <2>1, <2>2
    <3>5. Emit(w) = [w EXCEPT !.frames = more, !.data = none, !.size = 0]
      BY <1>9, <1>11, <3>2 DEF Emit
    <3>6. d2 = [line |-> none, data |-> none, size |-> 0, total |-> t2, frames |-> more, error |-> no]
      BY <1>11, <3>4, <3>5
    <3>7. Reading(d2, e) /\ d2.line = none
      BY <1>7, <3>3, <3>6 DEF Reading
    <3> QED
      BY <1>9, <3>1, <3>7
  <2>3. CASE y # <<>> /\ y[1] = "x"
    <3>1. e \in DataLines
      BY <1>13, <2>3
    <3>2. CASE TooMuch(d, Len(y))
      BY <1>6, <1>12, <2>1, <2>3, <3>1, <3>2
    <3>3. CASE ~ TooMuch(d, Len(y))
      <4>1. ~ Oversized(e)
        BY <1>12, <1>15, <3>3
      <4>2. PICK b : b = Append(a, Len(y))
        OBVIOUS
      <4>3. AllRead(b, z2, t2, fs, e)
        BY <1>4, <1>8, <1>9, <3>1, <4>1, <4>2, DataLineRead
      <4>4. d2 = [w EXCEPT !.data = Append(@, Len(y))]
        BY <1>6, <2>1, <2>3, <3>3
      <4>5. d2 = [w EXCEPT !.data = b]
        BY <1>11, <4>2, <4>4
      <4>6. d2 = [line |-> none, data |-> b, size |-> z2, total |-> t2, frames |-> fs, error |-> no]
        BY <1>11, <4>5
      <4>7. Reading(d2, e) /\ d2.line = none
        BY <1>7, <4>3, <4>6 DEF Reading
      <4> QED
        BY <1>9, <4>1, <4>7
    <3> QED
      BY <3>2, <3>3
  <2>4. CASE y # <<>> /\ y[1] # "x"
    <3>1. e \notin Blanks /\ e \notin DataLines
      BY <1>13, <2>4
    <3>2. ~ Oversized(e)
      BY <1>12, <1>15, <3>1
    <3>3. AllRead(a, z2, t2, fs, e)
      BY <1>8, <1>9, <3>1, <3>2, OtherLineRead
    <3>4. d2 = w
      BY <1>6, <2>1, <2>4
    <3>5. Reading(d2, e) /\ d2.line = none
      BY <1>7, <1>11, <3>3, <3>4 DEF Reading
    <3> QED
      BY <1>9, <3>2, <3>5
  <2> QED
    BY <2>2, <2>3, <2>4
<1> QED
  BY <1>14, <1>15

\* The same of a decoder of JSON lines.
RecordsTo(m) == {r \in Records : r <= m}
JSONReading(d, m) == d.error = FALSE /\ Told(d.frames, RecordsTo(m))

LEMMA JSONLineRead ==
  ASSUME framing = "ndjson", wire \in Seq(Bytes), NEW e \in Ends, NEW m, Follows(m, e), NEW d, Decoding(d),
         JSONReading(d, m), NEW raw \in Seq(Bytes), ChompAll(raw) = Item(e), NEW d2, d2 = JSONLine(d, raw)
  PROVE  d2.line = <<>> /\ JSONReading(d2, e)
<1>1. /\ Ends \in SUBSET Nat /\ IsFiniteSet(Ends) /\ e \in Nat /\ m \in Nat /\ m < e
      /\ \A x \in Ends : x < e => x <= m
  BY EndsAre DEF Follows
<1>2. Records = {r \in Ends : Item(r) # <<>>}
  BY DEF Records
<1>3. PICK F, G : F = RecordsTo(m) /\ G = RecordsTo(e)
  OBVIOUS
<1>4. F \in SUBSET Ends /\ F \in SUBSET Nat /\ \A r \in F : r < e
  <2>1. ASSUME NEW r \in F PROVE r \in Ends /\ r \in Nat /\ r < e
    <3>1. r \in Ends /\ r <= m
      BY <1>2, <1>3 DEF RecordsTo
    <3> QED
      BY <1>1, <3>1
  <2> QED
    BY <2>1
<1>5. IsFiniteSet(F)
  BY <1>1, <1>4, FS_Subset
<1>6. \A r \in Records : r <= e <=> r <= m \/ r = e
  BY <1>1, <1>2
<1>7. (Item(e) # <<>> => G = F \cup {e}) /\ (Item(e) = <<>> => G = F)
  BY <1>2, <1>3, <1>6 DEF RecordsTo
<1>8. PICK x, f, none : x = Item(e) /\ f = JSONItem(x) /\ none = <<>>
  OBVIOUS
<1>9. d2 = IF x = none THEN [d EXCEPT !.line = none] ELSE [[d EXCEPT !.line = none] EXCEPT !.frames = Append(@, f)]
  BY <1>8 DEF JSONLine
<1>10. PICK l, a, z, t, fs, no : /\ d = [line |-> l, data |-> a, size |-> z, total |-> t, frames |-> fs, error |-> no]
                                 /\ no = FALSE
  BY DEF Decoding, JSONReading
<1>11. Told(fs, F)
  BY <1>3, <1>10 DEF JSONReading
<1>12. PICK more : more = Append(fs, f)
  OBVIOUS
<1>13. d2 = [line |-> none, data |-> a, size |-> z, total |-> t, frames |-> IF x = none THEN fs ELSE more, error |-> no]
  BY <1>9, <1>10, <1>12
<1>14. CASE x = none
  BY <1>3, <1>7, <1>8, <1>10, <1>11, <1>13, <1>14 DEF JSONReading
<1>15. CASE x # none
  <2>1. f \in Frame0
    <3>1. Len(x) \in Nat
      BY <1>8, ChompedLengths
    <3> QED
      BY <1>8, <3>1 DEF JSONItem, Frame0
  <2>2. IsFrame(f, e)
    BY <1>8 DEF IsFrame
  <2>3. Told(more, F \cup {e})
    BY <1>1, <1>4, <1>5, <1>11, <1>12, <2>1, <2>2, ToldMore
  <2>4. d2 = [line |-> none, data |-> a, size |-> z, total |-> t, frames |-> more, error |-> no]
    BY <1>13, <1>15
  <2>5. G = F \cup {e}
    BY <1>7, <1>8, <1>15
  <2>6. d2.line = none /\ d2.error = FALSE /\ d2.frames = more
    BY <1>10, <2>4
  <2> QED
    BY <1>3, <1>8, <2>3, <2>5, <2>6 DEF JSONReading
<1> QED
  BY <1>14, <1>15

-----------------------------------------------------------------------------
(* The frames of a decoder are the first ones of the body.                  *)

LEMMA RecordsAre ==
  ASSUME framing \in {"sse", "ndjson"}, wire \in Seq(Bytes), NEW n, n = Len(wire)
  PROVE  /\ Records \in SUBSET Nat /\ IsFiniteSet(Records)
         /\ framing = "sse" => Records = Blanks \/ Records = Blanks \cup {n + 1}
         /\ framing = "ndjson" => Records \in SUBSET Ends
<1>1. /\ n \in Nat /\ Ends \in SUBSET Nat /\ IsFiniteSet(Ends)
  BY EndsAre
<1>2. Blanks \in SUBSET Ends
  BY DEF Blanks
<1>3. CASE framing = "sse"
  <2>1. Records = Blanks \/ Records = Blanks \cup {n + 1}
    BY <1>3 DEF Records
  <2>2. IsFiniteSet(Blanks) /\ IsFiniteSet(Blanks \cup {n + 1})
    BY <1>1, <1>2, FS_Subset, FS_AddElement
  <2>3. Records \in SUBSET Nat
    <3>1. Blanks \in SUBSET Nat /\ n + 1 \in Nat
      BY <1>1, <1>2
    <3> QED
      BY <2>1, <3>1
  <2> QED
    BY <1>3, <2>1, <2>2, <2>3
<1>4. CASE framing = "ndjson"
  <2>1. Records \in SUBSET Ends
    BY <1>4 DEF Records
  <2>2. Records \in SUBSET Nat /\ IsFiniteSet(Records)
    BY <1>1, <2>1, FS_Subset
  <2> QED
    BY <1>4, <2>1, <2>2
<1> QED
  BY <1>3, <1>4

FirstFrames(fs) ==
  /\ Len(fs) <= Cardinality(Records)
  /\ \A e \in Records : Rank(Records, e) <= Len(fs) => IsFrame(fs[Rank(Records, e)], e)

LEMMA ToldFirst ==
  ASSUME framing \in {"sse", "ndjson"}, wire \in Seq(Bytes), NEW F \in SUBSET Records,
         \A e \in F, x \in Records : x < e => x \in F, NEW fs, Told(fs, F)
  PROVE  FirstFrames(fs)
<1>1. PICK R : R = Records
  OBVIOUS
<1>2. R \in SUBSET Nat /\ IsFiniteSet(R)
  BY <1>1, RecordsAre
<1>3. /\ Cardinality(F) <= Cardinality(R)
      /\ \A e \in F : Rank(F, e) = Rank(R, e)
      /\ \A e \in R : Rank(R, e) <= Cardinality(F) => e \in F
  <2>1. F \in SUBSET R /\ \A e \in F, x \in R : x < e => x \in F
    BY <1>1
  <2> QED
    BY <1>2, <2>1, FirstRanked
<1>4. Len(fs) = Cardinality(F) /\ \A e \in F : IsFrame(fs[Rank(F, e)], e)
  BY DEF Told
<1>5. ASSUME NEW e \in R, Rank(R, e) <= Len(fs) PROVE IsFrame(fs[Rank(R, e)], e)
  <2>1. e \in F
    BY <1>3, <1>4, <1>5
  <2>2. PICK i : i = Rank(F, e)
    OBVIOUS
  <2>3. IsFrame(fs[i], e) /\ Rank(R, e) = i
    BY <1>3, <1>4, <2>1, <2>2
  <2> QED
    BY <2>3
<1>6. Len(fs) <= Cardinality(R)
  BY <1>3, <1>4
<1> QED
  BY <1>1, <1>5, <1>6 DEF FirstFrames

\* A decoder between two lines.
Between(d, m) == IF framing = "sse" THEN Reading(d, m) ELSE JSONReading(d, m)

LEMMA BetweenFirst ==
  ASSUME framing \in {"sse", "ndjson"}, wire \in Seq(Bytes), NEW m \in Nat, NEW d, Between(d, m)
  PROVE  FirstFrames(d.frames)
<1>1. PICK n : n = Len(wire)
  OBVIOUS
<1>2. n \in Nat /\ Ends \in SUBSET (1 .. (n + 1)) /\ Ends \in SUBSET Nat
  BY <1>1, EndsAre
<1>3. CASE framing = "sse"
  <2>1. Told(d.frames, BlanksTo(m))
    BY <1>3 DEF Between, Reading, AllRead
  <2>2. Records = Blanks \/ Records = Blanks \cup {n + 1}
    BY <1>1, <1>3, RecordsAre
  <2>3. \A b \in Blanks : b \in Nat /\ b <= n + 1
    BY <1>2 DEF Blanks
  <2>4. ASSUME NEW e \in BlanksTo(m), NEW x \in Records, x < e PROVE x \in BlanksTo(m)
    <3>1. e \in Blanks /\ e <= m /\ e <= n + 1 /\ e \in Nat
      BY <2>3 DEF BlanksTo
    <3>2. x # n + 1
      BY <1>2, <2>4, <3>1
    <3>3. x \in Blanks
      BY <2>2, <3>2
    <3> QED
      BY <2>3, <2>4, <3>1, <3>3 DEF BlanksTo
  <2> QED
    <3>1. BlanksTo(m) \in SUBSET Records
      BY <2>2 DEF BlanksTo
    <3> QED
      BY <2>1, <2>4, <3>1, ToldFirst
<1>4. CASE framing = "ndjson"
  <2>1. Told(d.frames, RecordsTo(m))
    BY <1>4 DEF Between, JSONReading
  <2>2. Records \in SUBSET Nat
    BY RecordsAre
  <2>3. ASSUME NEW e \in RecordsTo(m), NEW x \in Records, x < e PROVE x \in RecordsTo(m)
    BY <2>2, <2>3 DEF RecordsTo
  <2> QED
    <3>1. RecordsTo(m) \in SUBSET Records
      BY DEF RecordsTo
    <3> QED
      BY <2>1, <2>3, <3>1, ToldFirst
<1> QED
  BY <1>3, <1>4

-----------------------------------------------------------------------------
(* Byte by byte.                                                            *)

\* A decoder that was fed p bytes: it is within a line, or it has failed.
ReadTo(d, p) ==
  \/ \E m : Follows(m, p + 1) /\ d.line = SubSeq(wire, m + 1, p) /\ Between(d, m)
  \/ framing = "sse" /\ d.error = TRUE /\ TooLarge /\ FirstFrames(d.frames)

LEMMA NothingRead ==
  ASSUME framing \in {"sse", "ndjson"}, wire \in Seq(Bytes), NEW d, d = NewDecoder
  PROVE  ReadTo(d, 0)
<1>1. Ends \in SUBSET Nat /\ \A x \in Ends : ~ (x <= 0) /\ ~ (x < 1)
  <2>1. PICK n : n = Len(wire)
    OBVIOUS
  <2>2. n \in Nat /\ Ends \in SUBSET (1 .. (n + 1)) /\ Ends \in SUBSET Nat
    BY <2>1, EndsAre
  <2> QED
    BY <2>2
<1>2. PICK none, no : none = <<>> /\ no = FALSE
  OBVIOUS
<1>3. d = [line |-> none, data |-> none, size |-> 0, total |-> 0, frames |-> none, error |-> no]
  BY <1>2, Zenon DEF NewDecoder
<1>4. Follows(0, 0 + 1)
  BY <1>1 DEF Follows
<1>5. d.line = SubSeq(wire, 0 + 1, 0)
  BY <1>2, <1>3
<1>6. IsFiniteSet({}) /\ Cardinality({}) = 0
  BY FS_EmptySet
<1>7. Told(none, {})
  <2>1. <<>> \in Seq(Frame0) /\ Len(<<>>) = 0
    OBVIOUS
  <2> QED
    BY <1>2, <1>6, <2>1 DEF Told
<1>8. CASE framing = "sse"
  <2>1. \A b \in Blanks : b \in Ends
    BY DEF Blanks
  <2>2. \A b \in DataLines : b \in Ends
    BY DEF DataLines
  <2>3. Pending(0) = {} /\ BlanksTo(0) = {} /\ CRLFs(0, 0) = {}
    BY <1>1, <2>1, <2>2 DEF Pending, BlanksTo, CRLFs
  <2>4. Before(Blanks, 0 + 1) = 0
    <3>1. Blanks \in SUBSET Nat /\ \A x \in Blanks : ~ (x < 1)
      BY <1>1, <2>1
    <3>2. 0 + 1 = 1 /\ 0 + 1 \in Nat /\ 0 \in Nat
      OBVIOUS
    <3>3. \A x \in Blanks : x < 0 + 1 => x <= 0
      BY <3>1, <3>2, Zenon
    <3>4. Blanks \in SUBSET Nat
      BY <3>1
    <3> QED
      BY <3>2, <3>3, <3>4, BeforeThat
  <2>5. Weight(0, 0) = 0
    <3>1. Weight(0, 0) = 0 - 0 - 0
      BY <1>6, <2>3 DEF Weight, CRLFs, CRLF
    <3> QED
      BY <3>1
  <2>6. DataRead(none, 0)
    <3>1. BytesOf({}) = {}
      BY DEF BytesOf
    <3>2. Holds(none, {})
      BY <1>2, <1>6 DEF Holds
    <3>3. 0 <= MaxData
      BY FramingAssumption
    <3> QED
      BY <1>2, <1>6, <2>3, <3>1, <3>2, <3>3, NoneSum DEF DataRead
  <2>7. AllRead(none, 0, 0, none, 0)
    BY <1>1, <1>7, <2>3, <2>4, <2>5, <2>6 DEF AllRead
  <2>8. Between(d, 0)
    BY <1>2, <1>3, <1>8, <2>7 DEF Between, Reading
  <2> QED
    BY <1>4, <1>5, <2>8 DEF ReadTo
<1>9. CASE framing = "ndjson"
  <2>1. RecordsTo(0) = {}
    BY <1>1, <1>9, RecordsAre DEF RecordsTo
  <2>2. d.frames = none /\ d.error = FALSE
    BY <1>2, <1>3
  <2>3. framing # "sse"
    BY <1>9
  <2>4. Between(d, 0)
    BY <1>7, <2>1, <2>2, <2>3 DEF Between, JSONReading
  <2> QED
    BY <1>4, <1>5, <2>4 DEF ReadTo
<1> QED
  BY <1>8, <1>9

\* A line refused is a body too large.
LEMMA RefusedIsTooLarge ==
  ASSUME framing = "sse", wire \in Seq(Bytes), NEW e \in Ends, Oversized(e), NEW m \in Nat, NEW d, Decoding(d), Between(d, m),
         NEW d2, d2 = Failed(d)
  PROVE  d2.error = TRUE /\ TooLarge /\ FirstFrames(d2.frames)
<1>1. d2.error = TRUE
  BY FailedIsError
<1>2. d2.frames = d.frames
  <2>1. PICK l, a, z, t, fs, er : d = [line |-> l, data |-> a, size |-> z, total |-> t, frames |-> fs, error |-> er]
    BY DEF Decoding
  <2>2. PICK yes : yes = TRUE
    OBVIOUS
  <2>3. d2 = [d EXCEPT !.error = yes]
    BY <2>2 DEF Failed
  <2> QED
    BY <2>1, <2>3
<1>3. FirstFrames(d.frames)
  BY BetweenFirst
<1>4. TooLarge
  BY DEF TooLarge
<1> QED
  BY <1>1, <1>2, <1>3, <1>4

LEMMA ByteRead ==
  ASSUME framing \in {"sse", "ndjson"}, wire \in Seq(Bytes), NEW p \in Nat, NEW q \in 1 .. Len(wire), q = p + 1,
         NEW d, Decoding(d), ReadTo(d, p), NEW d2, d2 = Byte(d, wire[q])
  PROVE  ReadTo(d2, q)
<1>1. PICK n : n = Len(wire)
  OBVIOUS
<1>2. /\ n \in Nat /\ Ends \in SUBSET Nat /\ q \in 1 .. n /\ q \in Nat
      /\ q \in Ends <=> wire[q] = "n"
  BY <1>1, EndsAre
<1>3. CASE framing = "sse" /\ d.error = TRUE /\ TooLarge /\ FirstFrames(d.frames)
  <2>1. d2 = d
    BY <1>3 DEF Byte
  <2> QED
    BY <1>3, <2>1 DEF ReadTo
<1>4. CASE \E m : Follows(m, p + 1) /\ d.line = SubSeq(wire, m + 1, p) /\ Between(d, m)
  <2>1. PICK m : Follows(m, q) /\ d.line = SubSeq(wire, m + 1, p) /\ Between(d, m)
    BY <1>4
  <2>2. m \in Nat /\ m < q /\ \A x \in Ends : x < q => x <= m
    BY <2>1 DEF Follows
  <2>3. d.error = FALSE
    BY <2>1 DEF Between, Reading, JSONReading
  <2>4. PICK b \in Bytes : b = wire[q]
    BY <1>1, <1>2
  <2>5. CASE b # "n"
    <3>1. PICK l, a, z, t, fs, er : d = [line |-> l, data |-> a, size |-> z, total |-> t, frames |-> fs, error |-> er]
      BY DEF Decoding
    <3>2. PICK l2 : l2 = Append(l, b)
      OBVIOUS
    <3>3. d2 = [d EXCEPT !.line = l2]
      BY <2>3, <2>4, <2>5, <3>1, <3>2 DEF Byte
    <3>4. d2.line = l2 /\ d2.data = d.data /\ d2.size = d.size /\ d2.total = d.total /\ d2.frames = d.frames /\ d2.error = d.error
      BY <3>1, <3>3
    <3>5. Between(d2, m)
      BY <2>1, <3>4 DEF Between, Reading, JSONReading
    <3>6. Follows(m, q + 1)
      <4>1. \A x \in Ends : x < q + 1 => x <= m
        BY <1>2, <2>2, <2>4, <2>5
      <4> QED
        BY <1>2, <2>1, <2>2, <4>1 DEF Follows
    <3>7. l2 = SubSeq(wire, m + 1, q)
      <4>1. PICK u, v : u = SubSeq(wire, m + 1, p) /\ v = SubSeq(wire, m + 1, q)
        OBVIOUS
      <4>2. /\ u \in Seq(Bytes) /\ Len(u) = p - m /\ \A i \in 1 .. (p - m) : u[i] = wire[m + i]
            /\ v \in Seq(Bytes) /\ Len(v) = q - m /\ \A i \in 1 .. (q - m) : v[i] = wire[m + i]
        BY <1>1, <1>2, <2>2, <4>1
      <4>3. PICK k \in Nat : k = p - m /\ q - m = k + 1 /\ m + (k + 1) = q
        BY <2>2
      <4>4. /\ l2 \in Seq(Bytes) /\ Len(l2) = k + 1 /\ l2[k + 1] = b /\ \A i \in 1 .. k : l2[i] = u[i]
        <5>1. u \in Seq(Bytes) /\ b \in Bytes /\ k = Len(u) /\ l2 = Append(u, b)
          BY <2>1, <3>1, <3>2, <4>1, <4>2, <4>3
        <5> QED
          BY <5>1, Appended
      <4>5. \A i \in 1 .. (k + 1) : l2[i] = v[i]
        <5>1. \A i \in 1 .. k : l2[i] = v[i]
          BY <4>2, <4>3, <4>4
        <5>2. v[k + 1] = b
          BY <2>4, <4>2, <4>3
        <5> QED
          BY <4>4, <5>1, <5>2
      <4>6. Len(v) = k + 1 /\ v \in Seq(Bytes)
        BY <4>2, <4>3
      <4>7. l2 = v
        BY <4>4, <4>5, <4>6
      <4> QED
        BY <4>1, <4>7
    <3> QED
      BY <3>4, <3>5, <3>6, <3>7 DEF ReadTo
  <2>6. CASE b = "n"
    <3>1. q \in Ends
      BY <1>2, <2>4, <2>6
    <3>2. q - 1 = p
      OBVIOUS
    <3>3. d.line = LineTo(q) /\ LineTo(q) \in Seq(Bytes)
      BY <2>1, <3>1, <3>2, LineIs
    <3>4. Follows(q, q + 1)
      BY <1>2, <3>1 DEF Follows
    <3>5. SubSeq(wire, q + 1, q) = <<>>
      BY <1>2
    <3>6. CASE framing = "sse"
      <4>1. d2 = SSELine(d, LineTo(q))
        BY <2>3, <2>4, <2>6, <3>3, <3>6 DEF Byte
      <4>2. Reading(d, m)
        BY <2>1, <3>6 DEF Between
      <4>3. CASE Oversized(q)
        <5>1. d2 = Failed(d)
          BY <2>1, <3>1, <3>6, <4>1, <4>2, <4>3, SSELineRead
        <5> QED
          BY <2>1, <2>2, <3>1, <3>6, <4>3, <5>1, RefusedIsTooLarge DEF ReadTo
      <4>4. CASE ~ Oversized(q)
        <5>1. d2.line = <<>> /\ Reading(d2, q)
          BY <2>1, <3>1, <3>6, <4>1, <4>2, <4>4, SSELineRead
        <5>2. Between(d2, q)
          BY <3>6, <5>1 DEF Between
        <5> QED
          BY <3>4, <3>5, <5>1, <5>2 DEF ReadTo
      <4> QED
        BY <4>3, <4>4
    <3>7. CASE framing = "ndjson"
      <4>1. d2 = JSONLine(d, LineTo(q))
        BY <2>3, <2>4, <2>6, <3>3, <3>7 DEF Byte
      <4>2. JSONReading(d, m)
        BY <2>1, <3>7 DEF Between
      <4>3. ChompAll(LineTo(q)) = Item(q)
        BY <1>1, <1>2 DEF Item, Field
      <4>4. d2.line = <<>> /\ JSONReading(d2, q)
        BY <2>1, <3>1, <3>3, <3>7, <4>1, <4>2, <4>3, JSONLineRead
      <4>5. Between(d2, q)
        BY <3>7, <4>4 DEF Between
      <4> QED
        BY <3>4, <3>5, <4>4, <4>5 DEF ReadTo
    <3> QED
      BY <3>6, <3>7
  <2> QED
    BY <2>5, <2>6
<1> QED
  BY <1>3, <1>4 DEF ReadTo

LEMMA AllBytesRead ==
  ASSUME framing \in {"sse", "ndjson"}, wire \in Seq(Bytes), NEW p \in 0 .. Len(wire)
  PROVE  Decoding(FedTo(p)) /\ ReadTo(FedTo(p), p)
<1>1. PICK n \in Nat : n = Len(wire)
  OBVIOUS
<1>2. PICK d0 : d0 = NewDecoder
  OBVIOUS
<1> DEFINE S == {k \in 0 .. n : Decoding(FedTo(k)) /\ ReadTo(FedTo(k), k)}
<1>3. 0 \in S
  <2>1. SubSeq(wire, 1, 0) = <<>>
    OBVIOUS
  <2>2. FedBytes(d0, <<>>) = d0
    <3>1. DOMAIN <<>> = 1 .. 0 /\ 0 \in Nat
      OBVIOUS
    <3>2. PICK h : ByByte(h, d0, <<>>, 0) /\ h[0] = FedBytes(d0, <<>>)
      BY <3>1, FedByByte
    <3> QED
      BY <3>2 DEF ByByte
  <2>3. FedTo(0) = d0
    BY <1>2, <2>1, <2>2 DEF FedTo
  <2>4. Decoding(d0) /\ ReadTo(d0, 0)
    BY <1>2, NewIsDecoding, NothingRead
  <2> QED
    BY <1>1, <2>3, <2>4
<1>4. ASSUME NEW k \in 0 .. n, k # n, k \in S PROVE k + 1 \in S
  <2>1. PICK d : d = FedTo(k)
    OBVIOUS
  <2>2. Decoding(d) /\ ReadTo(d, k) /\ k \in Nat
    BY <1>4, <2>1
  <2>3. PICK q \in 1 .. n : q = k + 1
    <3>1. k + 1 \in 1 .. n
      BY <1>4
    <3> QED
      BY <3>1
  <2>4. PICK a, b, c : a = SubSeq(wire, 1, k) /\ b = SubSeq(wire, q, q) /\ c = SubSeq(wire, 1, q)
    OBVIOUS
  <2>5. a \in Seq(Bytes) /\ b \in Seq(Bytes) /\ c = a \o b
    <3>1. 1 \in 1 .. (Len(wire) - k)
      BY <1>1, <1>4
    <3> QED
      BY <2>2, <2>3, <2>4, <3>1, ReadInTwo
  <2>6. DOMAIN b = 1 .. 1 /\ b[1] = wire[q]
    <3>1. q \in Nat /\ q >= 1 /\ q <= n /\ wire \in Seq(Bytes)
      BY <2>3
    <3>2. q - q + 1 = 1 /\ q + 1 - 1 = q
      BY <3>1
    <3>3. Len(b) = 1 /\ b \in Seq(Bytes)
      BY <1>1, <2>4, <2>5, <3>1
    <3>4. b[1] = wire[q]
      BY <1>1, <2>4, <3>1
    <3> QED
      BY <3>3, <3>4
  <2>7. FedBytes(d0, c) = FedBytes(d, b)
    <3>1. FedBytes(d0, a \o b) = FedBytes(FedBytes(d0, a), b)
      BY <2>5, FedInTwo
    <3>2. d = FedBytes(d0, a)
      BY <1>2, <2>1, <2>4 DEF FedTo
    <3> QED
      BY <2>5, <3>1, <3>2
  <2>8. PICK h : ByByte(h, d, b, 1) /\ h[1] = FedBytes(d, b)
    <3>1. 1 \in Nat
      OBVIOUS
    <3> QED
      BY <2>6, <3>1, FedByByte
  <2>9. h[0 + 1] = Byte(h[0], b[0 + 1]) /\ h[0] = d
    BY <2>8 DEF ByByte
  <2>10. FedTo(q) = Byte(d, wire[q])
    BY <1>2, <2>4, <2>6, <2>7, <2>8, <2>9 DEF FedTo
  <2>11. PICK d2 : d2 = FedTo(q)
    OBVIOUS
  <2>12. Decoding(d2)
    BY <1>1, <2>2, <2>3, <2>10, <2>11, ByteKeeps
  <2>13. ReadTo(d2, q)
    BY <1>1, <2>2, <2>3, <2>10, <2>11, ByteRead
  <2> QED
    BY <2>3, <2>11, <2>12, <2>13
<1> HIDE DEF S
<1>5. \A k \in 0 .. n : k \in S
  BY <1>3, <1>4, UpTo
<1> QED
  BY <1>1, <1>5 DEF S

\* A line too long for the buffer is one too long for its record.
LEMMA LongLine ==
  ASSUME framing = "sse", wire \in Seq(Bytes), NEW p \in 0 .. Len(wire), NEW d, Decoding(d), ReadTo(d, p),
         Len(d.line) > MaxLine
  PROVE  TooLarge /\ FirstFrames(d.frames)
<1>1. CASE d.error = TRUE /\ TooLarge /\ FirstFrames(d.frames)
  BY <1>1
<1>2. CASE \E m : Follows(m, p + 1) /\ d.line = SubSeq(wire, m + 1, p) /\ Between(d, m)
  <2>1. PICK m : Follows(m, p + 1) /\ d.line = SubSeq(wire, m + 1, p) /\ Between(d, m)
    BY <1>2
  <2>2. PICK n : n = Len(wire)
    OBVIOUS
  <2>3. /\ n \in Nat /\ Ends \in SUBSET (1 .. (n + 1)) /\ Ends \in SUBSET Nat
        /\ \A i \in 1 .. n : i \in Ends <=> wire[i] = "n"
        /\ n + 1 \in Ends <=> n > 0 /\ wire[n] # "n"
    BY <2>2, EndsAre
  <2>4. m \in Nat /\ m <= p /\ p \in Nat /\ p <= n /\ (m = 0 \/ m \in Ends) /\ \A x \in Ends : x <= p => x <= m
    BY <2>1, <2>2, <2>3 DEF Follows
  <2>5. PICK k \in Nat : k = Len(d.line) /\ k = p - m /\ k > MaxLine
    BY <2>1, <2>2, <2>4
  <2>6. m < p
    BY <2>4, <2>5, FramingAssumption
  <2>7. PICK S : S = {e \in Ends : e > p}
    OBVIOUS
  <2>8. S \in SUBSET Nat /\ S # {}
    <3>1. S \in SUBSET Nat
      BY <2>3, <2>7
    <3>2. n > 0 /\ n \in 1 .. n
      <4>1. n > 0
        BY <2>3, <2>4, <2>6
      <4> QED
        BY <2>3, <4>1
    <3>3. CASE n \in Ends
      <4>1. ~ (n <= m) /\ (n <= p => n <= m)
        BY <2>3, <2>4, <2>6, <3>3
      <4>2. n \in S
        BY <2>3, <2>4, <2>7, <3>3, <4>1
      <4> QED
        BY <3>1, <4>2
    <3>4. CASE n \notin Ends
      <4>1. n + 1 \in Ends
        BY <2>3, <3>2, <3>4
      <4>2. n + 1 > p
        BY <2>3, <2>4
      <4>3. n + 1 \in S
        BY <2>7, <4>1, <4>2
      <4> QED
        BY <3>1, <4>3
    <3> QED
      BY <3>1, <3>3, <3>4
  <2>9. PICK e : e = Min(S)
    OBVIOUS
  <2>10. e \in S /\ \A x \in S : e <= x
    BY <2>8, <2>9, SomeMin
  <2>11. e \in Ends /\ e \in Nat /\ p < e
    BY <2>3, <2>4, <2>7, <2>10
  <2>12. Follows(m, e)
    <3>1. ASSUME NEW x \in Ends, x < e PROVE x <= m
      <4>1. x \in Nat /\ x \notin S
        BY <2>3, <2>10, <2>11, <3>1
      <4>2. x <= p
        BY <2>4, <2>7, <4>1
      <4> QED
        BY <2>4, <4>2
    <3> QED
      BY <2>4, <2>6, <2>11, <3>1 DEF Follows
  <2>13. PICK j : j = Len(Chomp(LineTo(e)))
    OBVIOUS
  <2>14. j + 1 = e - m - (IF CRLF(e) THEN 1 ELSE 0) /\ j \in Nat
    BY <2>11, <2>12, <2>13, LineIs, ChompedLengths
  <2>15. j + 1 > MaxLine
    BY <2>4, <2>5, <2>11, <2>14, FramingAssumption
  <2>16. AllRead(d.data, d.size, d.total, d.frames, m) /\ d.size \in Nat
    <3>1. 0 .. MaxLine \in SUBSET Nat
      OBVIOUS
    <3> QED
      BY <2>1, <3>1 DEF Between, Reading, Decoding
  <2>17. Weight(Before(Blanks, e), e) = d.size + j + 1
    BY <2>11, <2>12, <2>13, <2>16, LineRefused
  <2>18. Oversized(e)
    <3>1. d.size + j + 1 > MaxLine
      BY <2>14, <2>15, <2>16, FramingAssumption
    <3> QED
      BY <2>17, <3>1 DEF Oversized
  <2>19. FirstFrames(d.frames)
    BY <2>1, <2>4, BetweenFirst
  <2> QED
    BY <2>11, <2>18, <2>19 DEF TooLarge
<1> QED
  BY <1>1, <1>2 DEF ReadTo

-----------------------------------------------------------------------------
(* The end of a body.                                                       *)

\* The line that is open when the body ends.
LEMMA LastLine ==
  ASSUME wire \in Seq(Bytes), NEW n, n = Len(wire), NEW m, Follows(m, n + 1)
  PROVE  /\ m \in 0 .. n /\ n \in Nat
         /\ m = n => n + 1 \notin Ends /\ SubSeq(wire, m + 1, n) = <<>>
         /\ m # n => n + 1 \in Ends /\ SubSeq(wire, m + 1, n) = LineTo(n + 1) /\ SubSeq(wire, m + 1, n) # <<>>
<1>1. /\ n \in Nat /\ Ends \in SUBSET (1 .. (n + 1)) /\ Ends \in SUBSET Nat
      /\ \A i \in 1 .. n : i \in Ends <=> wire[i] = "n"
      /\ n + 1 \in Ends <=> n > 0 /\ wire[n] # "n"
  BY EndsAre
<1>2. m \in Nat /\ m < n + 1 /\ (m = 0 \/ m \in Ends) /\ \A x \in Ends : x < n + 1 => x <= m
  BY DEF Follows
<1>3. m \in 0 .. n
  BY <1>1, <1>2
<1>4. CASE m = n
  <2>1. n + 1 \notin Ends
    <3>1. CASE n = 0
      BY <1>1, <3>1
    <3>2. CASE n # 0
      <4>1. n \in 1 .. n /\ n \in Ends
        BY <1>1, <1>2, <1>4, <3>2
      <4> QED
        BY <1>1, <4>1
    <3> QED
      BY <3>1, <3>2
  <2>2. SubSeq(wire, m + 1, n) = <<>>
    BY <1>1, <1>4
  <2> QED
    BY <1>1, <1>3, <1>4, <2>1, <2>2
<1>5. CASE m # n
  <2>1. n > 0 /\ n \in 1 .. n /\ n < n + 1 /\ ~ (n <= m)
    BY <1>1, <1>2, <1>5
  <2>2. n + 1 \in Ends
    BY <1>1, <1>2, <2>1
  <2>3. LineTo(n + 1) = SubSeq(wire, m + 1, (n + 1) - 1)
    BY <2>2, LineIs
  <2>4. (n + 1) - 1 = n
    BY <1>1
  <2>5. Len(SubSeq(wire, m + 1, n)) = n - m /\ n - m # 0
    BY <1>1, <1>2, <2>1
  <2>6. SubSeq(wire, m + 1, n) # <<>>
    BY <2>5
  <2> QED
    BY <1>1, <1>3, <1>5, <2>2, <2>3, <2>4, <2>6
<1> QED
  BY <1>4, <1>5

\* The last number of a line, whether or not it has its end.
LastEnd(q, n) == (q = n /\ n + 1 \notin Ends) \/ (q = n + 1 /\ n + 1 \in Ends)

LEMMA AllEnded ==
  ASSUME wire \in Seq(Bytes), NEW n, n = Len(wire), NEW q, LastEnd(q, n)
  PROVE  q \in Nat /\ \A x \in Ends : x <= q
<1>1. n \in Nat /\ Ends \in SUBSET (1 .. (n + 1))
  BY EndsAre
<1>2. ASSUME NEW x \in Ends PROVE x <= q
  BY <1>1 DEF LastEnd
<1> QED
  BY <1>1, <1>2 DEF LastEnd

\* The last record may lack its blank line.
LEMMA LastRecord ==
  ASSUME framing = "sse", wire \in Seq(Bytes), NEW n, n = Len(wire), NEW q, LastEnd(q, n),
         NEW F, F = BlanksTo(q), NEW P, P = Pending(q)
  PROVE  /\ F \in SUBSET Nat /\ IsFiniteSet(F) /\ IsFiniteSet(P)
         /\ P = {} => Records = F
         /\ P # {} => Records = F \cup {n + 1} /\ DataOf(n + 1) = P /\ \A b \in F : b < n + 1
<1>1. /\ n \in Nat /\ Ends \in SUBSET (1 .. (n + 1)) /\ Ends \in SUBSET Nat /\ IsFiniteSet(Ends)
  BY EndsAre
<1>2. q \in Nat /\ \A x \in Ends : x <= q
  BY AllEnded
<1>3. (\A b \in Blanks : b \in Ends) /\ \A c \in DataLines : c \in Ends
  BY DEF Blanks, DataLines
<1>4. F = Blanks
  BY <1>2, <1>3 DEF BlanksTo
<1>5. F \in SUBSET Nat /\ IsFiniteSet(F)
  <2>1. F \in SUBSET Ends
    BY <1>3, <1>4
  <2> QED
    BY <1>1, <2>1, FS_Subset
<1>6. P \in SUBSET Ends /\ IsFiniteSet(P)
  <2>1. P \in SUBSET Ends
    BY <1>3 DEF Pending
  <2> QED
    BY <1>1, <2>1, FS_Subset
<1>7. PICK D : D = DataOf(n + 1)
  OBVIOUS
<1>8. Records = IF D = {} THEN F ELSE F \cup {n + 1}
  <2>1. Records = Blanks \cup {e \in {n + 1} : DataOf(e) # {}}
    BY DEF Records
  <2>2. CASE D = {}
    <3>1. {e \in {n + 1} : DataOf(e) # {}} = {}
      BY <1>7, <2>2
    <3> QED
      BY <1>4, <2>1, <2>2, <3>1
  <2>3. CASE D # {}
    <3>1. {e \in {n + 1} : DataOf(e) # {}} = {n + 1}
      BY <1>7, <2>3
    <3> QED
      BY <1>4, <2>1, <2>3, <3>1
  <2> QED
    BY <2>2, <2>3
<1>9. CASE n + 1 \notin Blanks
  <2>1. \A b \in F : b < n + 1
    <3>1. \A b \in F : b \in 1 .. (n + 1) /\ b # n + 1
      BY <1>1, <1>3, <1>4, <1>9
    <3> QED
      BY <1>1, <3>1
  <2>2. P = D
    <3>1. CASE q = n
      <4>1. PICK k : k = Before(Blanks, n + 1)
        OBVIOUS
      <4>2. \A c \in DataLines : c <= n <=> c <= n + 1
        <5>1. ASSUME NEW c \in DataLines PROVE c <= n /\ c <= n + 1
          <6>1. c \in Nat /\ c <= n
            BY <1>1, <1>2, <1>3, <3>1
          <6> QED
            BY <1>1, <6>1
        <5> QED
          BY <5>1
      <4>3. \A c : c \in P <=> c \in D
        BY <1>7, <3>1, <4>1, <4>2, Zenon DEF Pending, DataOf
      <4> QED
        BY <4>3
    <3>2. CASE q = n + 1 /\ n + 1 \in Ends
      <4>1. PICK e, m : e = n + 1 /\ m = Before(Ends, e)
        OBVIOUS
      <4>2. e \in Ends /\ Follows(m, e)
        BY <3>2, <4>1, LineIs
      <4>3. Pending(e) = DataOf(e)
        BY <1>9, <4>1, <4>2, OneLineMore
      <4> QED
        BY <1>7, <3>2, <4>1, <4>3
    <3> QED
      BY <3>1, <3>2 DEF LastEnd
  <2> QED
    BY <1>5, <1>6, <1>7, <1>8, <2>1, <2>2
<1>10. CASE n + 1 \in Blanks
  <2>1. PICK e, m : e = n + 1 /\ m = Before(Ends, e)
    OBVIOUS
  <2>2. e \in Ends /\ q = e
    BY <1>3, <1>10, <2>1 DEF LastEnd
  <2>3. Follows(m, e)
    BY <2>1, <2>2, LineIs
  <2>4. P = {}
    BY <1>10, <2>1, <2>2, <2>3, OneLineMore
  <2>5. F \cup {n + 1} = F
    BY <1>4, <1>10
  <2> QED
    BY <1>5, <1>6, <1>8, <2>4, <2>5
<1> QED
  BY <1>9, <1>10

\* What a stream that ended well, and one that was refused, has given.
ReadWhole(d) == d.error = FALSE /\ Told(d.frames, Records) /\ ~ TooLarge
ReadRefused(d) == d.error = TRUE /\ TooLarge /\ FirstFrames(d.frames)

LEMMA LastEmitted ==
  ASSUME framing = "sse", wire \in Seq(Bytes), NEW n, n = Len(wire), NEW q, LastEnd(q, n),
         NEW d, Decoding(d), Reading(d, q), NEW f, f = IF d.data = <<>> THEN d ELSE Emit(d)
  PROVE  ReadWhole(f)
<1>1. PICK F, P : F = BlanksTo(q) /\ P = Pending(q)
  OBVIOUS
<1>2. /\ F \in SUBSET Nat /\ IsFiniteSet(F) /\ IsFiniteSet(P)
      /\ P = {} => Records = F
      /\ P # {} => Records = F \cup {n + 1} /\ DataOf(n + 1) = P /\ \A b \in F : b < n + 1
  BY <1>1, LastRecord
<1>3. PICK l, a, z, t, fs, no : /\ d = [line |-> l, data |-> a, size |-> z, total |-> t, frames |-> fs, error |-> no]
                                /\ no = FALSE
  BY DEF Decoding, Reading
<1>4. /\ Holds(a, P) /\ a \in Seq(Nat) /\ Told(fs, F) /\ \A x \in Ends : x <= q => ~ Oversized(x)
  BY <1>1, <1>3 DEF Reading, AllRead, DataRead, Sums
<1>5. ~ TooLarge
  <2>1. \A x \in Ends : ~ Oversized(x)
    BY <1>4, AllEnded
  <2> QED
    BY <2>1 DEF TooLarge
<1>6. a = <<>> <=> P = {}
  <2>1. Len(a) = Cardinality(P)
    BY <1>4 DEF Holds
  <2>2. Cardinality(P) = 0 <=> P = {}
    BY <1>2, FS_EmptySet
  <2>3. a = <<>> <=> Len(a) = 0
    BY <1>4
  <2> QED
    BY <2>1, <2>2, <2>3
<1>7. CASE a = <<>>
  <2>1. f = d
    BY <1>3, <1>7
  <2>2. Records = F
    BY <1>2, <1>6, <1>7
  <2> QED
    BY <1>3, <1>4, <1>5, <2>1, <2>2 DEF ReadWhole
<1>8. CASE a # <<>>
  <2>1. PICK none, more : none = <<>> /\ more = Append(fs, a)
    OBVIOUS
  <2>2. f = Emit(d)
    BY <1>3, <1>8
  <2>3. Emit(d) = [d EXCEPT !.frames = more, !.data = none, !.size = 0]
    BY <1>3, <2>1 DEF Emit
  <2>4. f = [line |-> l, data |-> none, size |-> 0, total |-> t, frames |-> more, error |-> no]
    BY <1>3, <2>2, <2>3
  <2>5. PICK e \in Nat : e = n + 1
    BY EndsAre
  <2>6. Records = F \cup {e} /\ DataOf(e) = P /\ \A b \in F : b < e
    BY <1>2, <1>6, <1>8, <2>5
  <2>7. IsFrame(a, e) /\ a \in Frame0
    BY <1>4, <2>6 DEF IsFrame, Holds, Frame0
  <2>8. Told(more, Records)
    BY <1>2, <1>4, <2>1, <2>6, <2>7, ToldMore
  <2>9. f.error = FALSE /\ f.frames = more
    BY <1>3, <2>4
  <2> QED
    BY <1>5, <2>8, <2>9 DEF ReadWhole
<1> QED
  BY <1>7, <1>8

LEMMA SSEFlushed ==
  ASSUME framing = "sse", wire \in Seq(Bytes), NEW n, n = Len(wire), NEW d, Decoding(d), ReadTo(d, n), ~ d.error,
         NEW f, f = Flush(d)
  PROVE  ReadWhole(f) \/ ReadRefused(f)
<1>1. PICK m : Follows(m, n + 1) /\ d.line = SubSeq(wire, m + 1, n) /\ Reading(d, m)
  BY DEF ReadTo, Between
<1>2. m \in Nat /\ n \in Nat
  BY <1>1, LastLine
<1>3. PICK x : x = IF d.line = <<>> THEN d ELSE SSELine(d, d.line)
  OBVIOUS
<1>4. f = IF x.error \/ x.data = <<>> THEN x ELSE Emit(x)
  BY <1>3, Zenon DEF Flush
<1>5. CASE m = n
  <2>1. LastEnd(n, n) /\ d.line = <<>>
    BY <1>1, <1>5, LastLine DEF LastEnd
  <2>2. x = d /\ Reading(d, n)
    BY <1>1, <1>3, <1>5, <2>1
  <2>3. f = IF d.data = <<>> THEN d ELSE Emit(d)
    BY <1>4, <2>2
  <2> QED
    BY <2>1, <2>2, <2>3, LastEmitted
<1>6. CASE m # n
  <2>1. PICK e : e = n + 1
    OBVIOUS
  <2>2. e \in Ends /\ d.line = LineTo(e) /\ d.line # <<>> /\ Follows(m, e) /\ LastEnd(e, n)
    BY <1>1, <1>6, <2>1, LastLine DEF LastEnd
  <2>3. x = SSELine(d, LineTo(e))
    BY <1>3, <2>2
  <2>4. CASE Oversized(e)
    <3>1. x = Failed(d)
      BY <1>1, <2>2, <2>3, <2>4, SSELineRead
    <3>2. Between(d, m)
      BY <1>1 DEF Between
    <3>3. x.error = TRUE /\ TooLarge /\ FirstFrames(x.frames)
      BY <1>2, <2>2, <2>4, <3>1, <3>2, RefusedIsTooLarge
    <3>4. f = x
      BY <1>4, <3>3
    <3> QED
      BY <3>3, <3>4 DEF ReadRefused
  <2>5. CASE ~ Oversized(e)
    <3>1. Reading(x, e)
      BY <1>1, <2>2, <2>3, <2>5, SSELineRead
    <3>2. Decoding(x)
      <4>1. LineTo(e) \in Seq(Bytes)
        BY <2>2, LineIs
      <4> QED
        BY <2>3, <4>1, SSELineKeeps
    <3>3. f = IF x.data = <<>> THEN x ELSE Emit(x)
      <4>1. x.error = FALSE
        BY <3>1 DEF Reading
      <4> QED
        BY <1>4, <4>1
    <3> QED
      BY <2>2, <3>1, <3>2, <3>3, LastEmitted
  <2> QED
    BY <2>4, <2>5
<1> QED
  BY <1>5, <1>6

LEMMA JSONFlushed ==
  ASSUME framing = "ndjson", wire \in Seq(Bytes), NEW n, n = Len(wire), NEW d, Decoding(d), ReadTo(d, n),
         NEW f, f = Flush(d)
  PROVE  f.error = FALSE /\ Told(f.frames, Records)
<1>1. PICK m : Follows(m, n + 1) /\ d.line = SubSeq(wire, m + 1, n) /\ JSONReading(d, m)
  BY DEF ReadTo, Between
<1>2. m \in Nat /\ n \in Nat
  BY <1>1, LastLine
<1>3. PICK tail : tail = Strip(d.line)
  OBVIOUS
<1>4. tail \in Seq(Bytes) /\ ChompAll(tail) = tail /\ (d.line = <<>> => tail = <<>>)
  BY <1>3, StripIs DEF Decoding
<1>5. f = IF tail = <<>> THEN [d EXCEPT !.line = <<>>] ELSE JSONLine(d, tail)
  BY <1>3 DEF Flush
<1>6. f = JSONLine(d, tail)
  BY <1>4, <1>5 DEF JSONLine
<1>7. \A r \in Records : r \in Ends
  BY RecordsAre
<1>8. CASE m = n
  <2>1. LastEnd(n, n) /\ tail = <<>>
    BY <1>1, <1>4, <1>8, LastLine DEF LastEnd
  <2>2. PICK l, a, z, t, fs, no : d = [line |-> l, data |-> a, size |-> z, total |-> t, frames |-> fs, error |-> no]
    BY DEF Decoding
  <2>3. PICK none : none = <<>>
    OBVIOUS
  <2>4. f = [d EXCEPT !.line = none]
    BY <1>5, <2>1, <2>3
  <2>5. f.error = d.error /\ f.frames = d.frames
    BY <2>2, <2>4
  <2>6. RecordsTo(n) = Records
    BY <1>7, <2>1, AllEnded DEF RecordsTo
  <2> QED
    BY <1>1, <1>8, <2>5, <2>6 DEF JSONReading
<1>9. CASE m # n
  <2>1. PICK e : e = n + 1
    OBVIOUS
  <2>2. e \in Ends /\ d.line = LineTo(e) /\ Follows(m, e) /\ LastEnd(e, n)
    BY <1>1, <1>9, <2>1, LastLine DEF LastEnd
  <2>3. Item(e) = tail
    <3>1. ~ (e <= n)
      BY <1>2, <2>1
    <3> QED
      BY <1>3, <2>2, <3>1 DEF Item
  <2>4. JSONReading(f, e)
    BY <1>1, <1>4, <1>6, <2>2, <2>3, JSONLineRead
  <2>5. RecordsTo(e) = Records
    BY <1>7, <2>2, AllEnded DEF RecordsTo
  <2> QED
    BY <2>4, <2>5 DEF JSONReading
<1> QED
  BY <1>8, <1>9

\* A stream that is open has kept to its limits.
KeptTo == streamEnd = "open" => ~ decoder.error /\ (framing = "ndjson" => fed <= MaxTotal)

\* What the property says of the frames and of how the stream stands.
Irrelevant(fs, how) ==
  /\ FirstFrames(fs)
  /\ how = "eof" => Len(fs) = Cardinality(Records) /\ ~ TooLarge
  /\ how = "limit" => TooLarge

LEMMA WholeIsIrrelevant ==
  ASSUME framing \in {"sse", "ndjson"}, wire \in Seq(Bytes), NEW fs, Told(fs, Records)
  PROVE  FirstFrames(fs) /\ Len(fs) = Cardinality(Records)
<1>1. FirstFrames(fs)
  <2>1. PICK R : R = Records
    OBVIOUS
  <2>2. R \in SUBSET Records /\ (\A e \in R, x \in Records : x < e => x \in R) /\ Told(fs, R)
    BY <2>1
  <2> QED
    BY <2>2, ToldFirst
<1>2. Len(fs) = Cardinality(Records)
  BY DEF Told
<1> QED
  BY <1>1, <1>2

\* It is about no more of the state than the body.
LEMMA SameBody ==
  ASSUME framing' = framing, wire' = wire, NEW fs, NEW how
  PROVE  Irrelevant(fs, how)' = Irrelevant(fs, how)
BY SMT DEF Irrelevant, FirstFrames, TooLarge, Oversized, DataBytes, IsFrame, Weight, Rank, JSONItem, Records, Blanks,
           DataOf, DataLines, Field, LineTo, Ends, Before, Item, ChompAll, Strip, Last

LEMMA IrrelevantNext ==
  ASSUME framing' = framing, wire' = wire, NEW fs, NEW how, fs = decoder'.frames, how = streamEnd', Irrelevant(fs, how)
  PROVE  ChunkingIrrelevant'
<1>1. Irrelevant(fs, how)' = Irrelevant(fs, how)
  BY SameBody
<1>2. ChunkingIrrelevant' <=> Irrelevant(fs, how)'
  BY DEF ChunkingIrrelevant, Irrelevant, FirstFrames
<1> QED
  BY <1>1, <1>2

LEMMA AsideRead ==
  ASSUME framing = "ndjson", NEW d, Decoding(d), NEW p, ReadTo(d, p), NEW t \in Nat, NEW r, Retotalled(r, d, t)
  PROVE  Decoding(r) /\ ReadTo(r, p) /\ r.error = FALSE
<1>1. PICK l, a, z, m, fs, e : d = [line |-> l, data |-> a, size |-> z, total |-> m, frames |-> fs, error |-> e]
  BY DEF Decoding
<1>2. l \in Seq(Bytes) /\ a \in Seq(Nat) /\ z \in 0..MaxLine
  BY <1>1 DEF Decoding
<1>3. r = [line |-> l, data |-> a, size |-> z, total |-> t, frames |-> fs, error |-> e]
  BY <1>1 DEF Retotalled
<1>4. Decoding(r)
  BY <1>2, <1>3 DEF Decoding
<1>5. PICK k : Follows(k, p + 1) /\ d.line = SubSeq(wire, k + 1, p) /\ JSONReading(d, k)
  BY DEF ReadTo, Between
<1>6. r.line = d.line /\ r.frames = d.frames /\ r.error = d.error
  BY <1>1, <1>3
<1>7. JSONReading(r, k)
  BY <1>5, <1>6 DEF JSONReading
<1> QED
  BY <1>4, <1>5, <1>6, <1>7 DEF ReadTo, Between, JSONReading

\* Every chunk gives frames of the body, or finds it too large.
LEMMA ChunkIsIrrelevant ==
  ASSUME FramingInv, ChunksVanish, ChunkingIrrelevant, KeptTo, Chunk
  PROVE  ChunkingIrrelevant' /\ KeptTo'
<1>1. PICK n, v :
        /\ n \in 0 .. Len(wire) /\ n = fed' /\ v = FedTo(n) /\ Decoding(v)
        /\ \/ framing = "sse" /\ decoder' = v
           \/ framing = "sse" /\ decoder' = Failed(v) /\ Len(v.line) > MaxLine
           \/ framing = "ndjson" /\ n <= MaxTotal /\ Retotalled(decoder', v, n)
           \/ framing = "ndjson" /\ n > MaxTotal /\ decoder'.error = TRUE /\ decoder'.frames = decoder.frames
  BY ChunkOutcome
<1>2. framing \in {"sse", "ndjson"} /\ wire \in Seq(Bytes)
  BY WireIsASequence DEF FramingInv
<1>3. wire' = wire /\ framing' = framing
  BY DEF Chunk
<1>4. PICK d, fs, how : d = decoder' /\ fs = decoder'.frames /\ how = streamEnd'
  OBVIOUS
<1>5. how = IF d.error THEN "limit" ELSE "open"
  BY <1>4 DEF Chunk
<1>6. ReadTo(v, n)
  BY <1>1, <1>2, AllBytesRead
<1>7. CASE framing = "sse" /\ d = v
  <2>1. CASE v.error = TRUE /\ TooLarge /\ FirstFrames(v.frames)
    <3>1. Irrelevant(fs, how)
      BY <1>4, <1>5, <1>7, <2>1 DEF Irrelevant
    <3> QED
      BY <1>3, <1>4, <1>5, <1>7, <2>1, <3>1, IrrelevantNext DEF KeptTo
  <2>2. CASE \E m : Follows(m, n + 1) /\ v.line = SubSeq(wire, m + 1, n) /\ Between(v, m)
    <3>1. PICK m \in Nat : Between(v, m)
      BY <2>2 DEF Follows
    <3>2. FirstFrames(v.frames) /\ v.error = FALSE
      BY <1>2, <1>7, <3>1, BetweenFirst DEF Between, Reading
    <3>3. Irrelevant(fs, how)
      BY <1>4, <1>5, <1>7, <3>2 DEF Irrelevant
    <3>4. KeptTo'
      BY <1>3, <1>4, <1>7, <3>2 DEF KeptTo
    <3> QED
      BY <1>3, <1>4, <3>3, <3>4, IrrelevantNext
  <2> QED
    BY <1>6, <2>1, <2>2 DEF ReadTo
<1>8. CASE framing = "sse" /\ d = Failed(v) /\ Len(v.line) > MaxLine
  <2>1. TooLarge /\ FirstFrames(v.frames)
    BY <1>1, <1>2, <1>6, <1>8, LongLine
  <2>2. d.error = TRUE /\ d.frames = v.frames
    <3>1. PICK l, a, z, t, gs, e : v = [line |-> l, data |-> a, size |-> z, total |-> t, frames |-> gs, error |-> e]
      BY <1>1 DEF Decoding
    <3>2. PICK yes : yes = TRUE
      OBVIOUS
    <3>3. d = [v EXCEPT !.error = yes]
      BY <1>8, <3>2 DEF Failed
    <3>4. d.frames = v.frames
      BY <3>1, <3>3
    <3> QED
      BY <1>1, <1>8, <3>4, FailedIsError
  <2>3. how = "limit"
    BY <1>5, <2>2
  <2>4. Irrelevant(fs, how)
    BY <1>4, <2>1, <2>2, <2>3 DEF Irrelevant
  <2> QED
    BY <1>3, <1>4, <2>3, <2>4, IrrelevantNext DEF KeptTo
<1>9. CASE framing = "ndjson" /\ n <= MaxTotal /\ Retotalled(d, v, n)
  <2>1. n \in Nat
    BY <1>1, <1>2
  <2>2. ReadTo(d, n) /\ d.error = FALSE
    BY <1>1, <1>6, <1>9, <2>1, AsideRead
  <2>3. PICK m \in Nat : Between(d, m)
    BY <1>9, <2>2 DEF ReadTo, Follows
  <2>4. FirstFrames(d.frames)
    BY <1>2, <2>3, BetweenFirst
  <2>5. Irrelevant(fs, how)
    BY <1>4, <1>5, <2>2, <2>4 DEF Irrelevant
  <2>6. KeptTo'
    BY <1>1, <1>4, <1>9, <2>2 DEF KeptTo
  <2> QED
    BY <1>3, <1>4, <2>5, <2>6, IrrelevantNext
<1>10. CASE framing = "ndjson" /\ n > MaxTotal /\ d.error = TRUE /\ d.frames = decoder.frames
  <2>1. TooLarge
    <3>1. Len(wire) > MaxTotal
      BY <1>1, <1>2, <1>10, FramingAssumption
    <3> QED
      BY <1>10, <3>1 DEF TooLarge
  <2>2. FirstFrames(fs)
    BY <1>4, <1>10 DEF ChunkingIrrelevant, FirstFrames
  <2>3. how = "limit"
    BY <1>5, <1>10
  <2>4. Irrelevant(fs, how)
    BY <2>1, <2>2, <2>3 DEF Irrelevant
  <2> QED
    BY <1>3, <1>4, <2>3, <2>4, IrrelevantNext DEF KeptTo
<1> QED
  BY <1>1, <1>4, <1>7, <1>8, <1>9, <1>10

LEMMA EndIsIrrelevant ==
  ASSUME FramingInv, ChunksVanish, KeptTo, EndOfStream
  PROVE  ChunkingIrrelevant' /\ KeptTo'
<1>1. framing \in {"sse", "ndjson"} /\ wire \in Seq(Bytes) /\ fed = Len(wire) /\ Decoding(decoder)
  BY WireIsASequence DEF FramingInv, EndOfStream
<1>2. wire' = wire /\ framing' = framing /\ decoder = Unchunked /\ ~ decoder.error /\ (framing = "ndjson" => fed <= MaxTotal)
  BY DEF EndOfStream, ChunksVanish, KeptTo
<1>3. PICK n, d, f, fs, how :
        n = fed /\ d = decoder /\ f = decoder' /\ fs = decoder'.frames /\ how = streamEnd'
  OBVIOUS
<1>4. f = Flush(d) /\ how = IF f.error THEN "limit" ELSE "eof"
  BY <1>3 DEF EndOfStream
<1>5. PICK v : v = FedTo(n)
  OBVIOUS
<1>6. n \in Nat /\ Decoding(v) /\ ReadTo(v, n)
  <2>1. n \in Nat /\ n \in 0 .. Len(wire)
    BY <1>1, <1>3
  <2> QED
    BY <1>1, <1>5, <2>1, AllBytesRead
<1>7. d = IF framing = "sse" THEN v ELSE [v EXCEPT !.total = n]
  BY <1>2, <1>3, <1>5, Zenon DEF Unchunked, FedTo
<1>8. CASE framing = "sse"
  <2>1. ReadWhole(f) \/ ReadRefused(f)
    <3>1. ReadTo(d, n) /\ Decoding(d) /\ ~ d.error /\ n = Len(wire)
      BY <1>1, <1>2, <1>3, <1>6, <1>7, <1>8
    <3> QED
      BY <1>1, <1>4, <1>8, <3>1, SSEFlushed
  <2>2. Irrelevant(fs, how)
    <3>1. CASE ReadWhole(f)
      <4>1. FirstFrames(fs) /\ Len(fs) = Cardinality(Records) /\ ~ TooLarge
        BY <1>1, <1>3, <3>1, WholeIsIrrelevant DEF ReadWhole
      <4>2. how = "eof"
        BY <1>4, <3>1 DEF ReadWhole
      <4> QED
        BY <4>1, <4>2 DEF Irrelevant
    <3>2. CASE ReadRefused(f)
      BY <1>3, <1>4, <3>2 DEF Irrelevant, ReadRefused
    <3> QED
      BY <2>1, <3>1, <3>2
  <2> QED
    BY <1>2, <1>3, <1>4, <2>2, IrrelevantNext DEF KeptTo
<1>9. CASE framing = "ndjson"
  <2>1. Retotalled(d, v, n)
    BY <1>7, <1>9 DEF Retotalled
  <2>2. ReadTo(d, n) /\ n = Len(wire) /\ Decoding(d)
    BY <1>1, <1>3, <1>6, <1>9, <2>1, AsideRead
  <2>3. f.error = FALSE /\ Told(f.frames, Records)
    BY <1>1, <1>4, <1>9, <2>2, JSONFlushed
  <2>4. FirstFrames(fs) /\ Len(fs) = Cardinality(Records)
    BY <1>1, <1>3, <2>3, WholeIsIrrelevant
  <2>5. ~ TooLarge
    <3>1. ~ (Len(wire) > MaxTotal)
      BY <1>1, <1>2, <1>3, <1>6, <1>9, FramingAssumption
    <3> QED
      BY <1>9, <3>1 DEF TooLarge
  <2>6. how = "eof"
    BY <1>4, <2>3
  <2>7. Irrelevant(fs, how)
    BY <2>4, <2>5, <2>6 DEF Irrelevant
  <2> QED
    BY <1>2, <1>3, <2>6, <2>7, IrrelevantNext DEF KeptTo
<1> QED
  BY <1>1, <1>8, <1>9

LEMMA IrrelevantInit == FramingInit => ChunkingIrrelevant /\ KeptTo
<1> SUFFICES ASSUME FramingInit PROVE ChunkingIrrelevant /\ KeptTo
  OBVIOUS
<1>1. framing \in {"sse", "ndjson"} /\ wire \in Seq(Bytes) /\ streamEnd = "open" /\ fed = 0
  BY WireIsASequence DEF FramingInit
<1>2. PICK d : d = NewDecoder
  OBVIOUS
<1>3. decoder = d
  BY <1>2 DEF FramingInit, NewDecoder
<1>4. ReadTo(d, 0)
  BY <1>1, <1>2, NothingRead
<1>5. d.error = FALSE
  BY <1>2 DEF NewDecoder
<1>6. PICK m \in Nat : Between(d, m)
  BY <1>4, <1>5 DEF ReadTo, Follows
<1>7. FirstFrames(d.frames)
  BY <1>1, <1>6, BetweenFirst
<1> QED
  BY <1>1, <1>3, <1>5, <1>7, FramingAssumption DEF ChunkingIrrelevant, FirstFrames, KeptTo

LEMMA IrrelevantStep ==
  FramingInv /\ ChunksVanish /\ ChunkingIrrelevant /\ KeptTo /\ [FramingNext]_framingVars => ChunkingIrrelevant' /\ KeptTo'
<1> SUFFICES ASSUME FramingInv, ChunksVanish, ChunkingIrrelevant, KeptTo, [FramingNext]_framingVars
             PROVE  ChunkingIrrelevant' /\ KeptTo'
  OBVIOUS
<1>1. CASE Breaks \/ UNCHANGED framingVars
  <2>1. /\ framing' = framing /\ wire' = wire /\ fed' = fed /\ decoder' = decoder
        /\ streamEnd' \in {streamEnd, "broken"}
    BY <1>1 DEF Breaks, framingVars
  <2>2. PICK fs, how : fs = decoder'.frames /\ how = streamEnd'
    OBVIOUS
  <2>3. Irrelevant(fs, how)
    BY <2>1, <2>2 DEF ChunkingIrrelevant, Irrelevant, FirstFrames
  <2> QED
    BY <2>1, <2>2, <2>3, IrrelevantNext DEF KeptTo
<1> QED
  BY <1>1, ChunkIsIrrelevant, EndIsIrrelevant DEF FramingNext, FramingDone

\* For a body, chunks and limits of any size: wherever the socket cuts a body,
\* in a line, a line end or a record, the engine gets the frames of the body
\* in their order and none made of a part of one; a stream that ends well has
\* given them all; and the limits refuse a body for what it is.
THEOREM BodiesAreRead == FramingSpec => []ChunkingIrrelevant
<1>1. FramingInit => FramingInv /\ ChunksVanish /\ ChunkingIrrelevant /\ KeptTo
  BY FramingInvInit, VanishInit, IrrelevantInit
<1>2. FramingInv /\ ChunksVanish /\ ChunkingIrrelevant /\ KeptTo /\ [FramingNext]_framingVars
        => FramingInv' /\ ChunksVanish' /\ ChunkingIrrelevant' /\ KeptTo'
  BY FramingInvStep, VanishStep, IrrelevantStep
<1> QED
  BY <1>1, <1>2, PTL DEF FramingSpec

-----------------------------------------------------------------------------
\* The decoders between two frames.
CodecFits ==
  /\ upstream \in Protocols /\ made \in Seq(0..MaxPieces) /\ Len(made) <= MaxMade
  /\ current \in 0..Len(made) /\ reading \in {"yes", "done", "error"}
  /\ said \in Endings /\ Assembled(assembly) /\ final \in Endings

\* A frame is made of events.
Eventful(es) == \E S : es \in Seq(S) /\ \A e \in S : Event(e)

LEMMA FramesFit ==
  ASSUME Assembled(assembly), final \in Endings,
         NEW es, Eventful(es), NEW last, Frames(es, last)
  PROVE  Assembled(assembly') /\ final' \in Endings /\ reading' \in {"yes", "done", "error"}
<1>1. PICK s : s = [assembly |-> assembly, final |-> final]
  OBVIOUS
<1>2. Assembling(s)
  <2>1. s.assembly = assembly /\ s.final = final
    BY <1>1
  <2> QED
    BY <1>1, <2>1 DEF Assembling
<1>3. PICK r : r = Absorbed(s, es)
  OBVIOUS
<1>4. Assembling(r)
  BY <1>2, <1>3, EventsKeep DEF Eventful
<1>5. PICK a : a = r.assembly
  OBVIOUS
<1>6. /\ assembly' = IF last THEN CloseAll(a) ELSE a
      /\ final' = r.final /\ reading' = IF last THEN "done" ELSE "yes"
  BY <1>1, <1>3, <1>5, Zenon DEF Frames, Absorbed
<1>7. PICK c : c = CloseAll(a)
  OBVIOUS
<1>8. Assembled(a) /\ Assembled(c) /\ r.final \in Endings
  BY <1>4, <1>5, <1>7, ClosesAll DEF Assembling
<1> QED
  BY <1>6, <1>7, <1>8

\* A frame of one event, or of two.
LEMMA OneFits ==
  ASSUME Assembled(assembly), final \in Endings, NEW e, Event(e), NEW last, Frames(<<e>>, last)
  PROVE  Assembled(assembly') /\ final' \in Endings /\ reading' \in {"yes", "done", "error"}
<1>1. PICK S : S = {e}
  OBVIOUS
<1>2. Eventful(<<e>>)
  <2>1. <<e>> \in Seq(S) /\ \A x \in S : Event(x)
    <3>1. <<e>> \in Seq(S)
      BY <1>1
    <3> QED
      BY <1>1, <3>1
  <2> QED
    BY <2>1 DEF Eventful
<1> QED
  BY <1>2, FramesFit

LEMMA TwoFit ==
  ASSUME Assembled(assembly), final \in Endings, NEW e, NEW f, Event(e), Event(f), NEW last, Frames(<<e, f>>, last)
  PROVE  Assembled(assembly') /\ final' \in Endings /\ reading' \in {"yes", "done", "error"}
<1>1. PICK S : S = {e, f}
  OBVIOUS
<1>2. Eventful(<<e, f>>)
  <2>1. <<e, f>> \in Seq(S) /\ \A x \in S : Event(x)
    <3>1. <<e, f>> \in Seq(S)
      BY <1>1
    <3> QED
      BY <1>1, <3>1
  <2> QED
    BY <2>1 DEF Eventful
<1> QED
  BY <1>2, FramesFit

LEMMA SingleEvents ==
  /\ Event(Batch) /\ Event(Usage) /\ \A r \in Reasons : Event(Stop(r))
  /\ \A i \in 0..MaxMade : \A n, g : Event(Part(i, n, g))
<1>1. Event(Batch) /\ Event(Usage) /\ \A r \in Reasons : Event(Stop(r))
  BY Zenon DEF Event
<1> QED
  BY <1>1, PartIsEvent

LEMMA BeginFits ==
  ASSUME made \in Seq(0..MaxPieces), Begin
  PROVE  made' \in Seq(0..MaxPieces) /\ Len(made') = Len(made) + 1 /\ Len(made') <= MaxMade
<1>1. 0 \in 0..MaxPieces /\ Len(made) \in Nat
  BY CodecAssumption
<1> QED
  BY <1>1, CodecAssumption DEF Begin

LEMMA ExtendFits ==
  ASSUME made \in Seq(0..MaxPieces), NEW k \in 1..Len(made), Extend(k)
  PROVE  made' \in Seq(0..MaxPieces) /\ Len(made') = Len(made)
<1>1. made[k] \in 0..MaxPieces
  BY CodecAssumption
<1>2. PICK v \in 0..MaxPieces : v = made[k] + 1
  <2>1. made[k] + 1 \in 0..MaxPieces
    BY <1>1, CodecAssumption DEF Extend
  <2> QED
    BY <2>1
<1>3. made' = [made EXCEPT ![k] = v]
  BY <1>2 DEF Extend
<1> QED
  BY <1>3

LEMMA SaysFits ==
  ASSUME NEW r \in Reasons, Says(r, TRUE)
  PROVE  said' \in Endings
BY DEF Says, Endings

LEMMA TurnReasonFits == TurnReason \subseteq Reasons
BY DEF TurnReason, Reasons

\* The actions of each backend.
LEMMA ChatFits ==
  ASSUME CodecFits, ChatCall \/ ChatArguments \/ ChatFinish
  PROVE  CodecFits'
<1>1. /\ made \in Seq(0..MaxPieces) /\ Len(made) \in Nat /\ Len(made) <= MaxMade /\ current \in 0..Len(made)
      /\ Assembled(assembly) /\ final \in Endings /\ MaxMade \in Nat
  BY CodecAssumption DEF CodecFits
<1>2. CASE ChatCall
  <2>1. PICK x \in 0..MaxMade : x = Next1 - 1
    <3>1. Next1 - 1 \in 0..MaxMade
      BY <1>1 DEF Next1
    <3> QED
      BY <3>1
  <2>2. PICK e : e = Part(x, <<Next1>>, <<>>)
    OBVIOUS
  <2>3. Event(e) /\ Frames(<<e>>, FALSE)
    BY <1>2, <2>1, <2>2, SingleEvents DEF ChatCall
  <2>4. Assembled(assembly') /\ final' \in Endings /\ reading' \in {"yes", "done", "error"}
    BY <1>1, <2>3, OneFits
  <2>5. made' \in Seq(0..MaxPieces) /\ Len(made') = Len(made) + 1 /\ Len(made') <= MaxMade
    BY <1>1, <1>2, BeginFits DEF ChatCall
  <2>6. current' \in 0..Len(made')
    BY <1>1, <1>2, <2>5 DEF ChatCall
  <2> QED
    BY <1>2, <2>4, <2>5, <2>6 DEF ChatCall, CodecFits
<1>3. CASE ChatArguments
  <2>1. PICK k \in DOMAIN made : Extend(k) /\ Frames(<<Part(k - 1, <<>>, <<<<k, made[k] + 1>>>>)>>, FALSE)
    BY <1>3 DEF ChatArguments
  <2>2. k \in 1..Len(made)
    BY <1>1
  <2>3. PICK x \in 0..MaxMade : x = k - 1
    <3>1. k - 1 \in 0..MaxMade
      BY <1>1, <2>2
    <3> QED
      BY <3>1
  <2>4. PICK e : e = Part(x, <<>>, <<<<k, made[k] + 1>>>>)
    OBVIOUS
  <2>5. Event(e) /\ Frames(<<e>>, FALSE)
    BY <2>1, <2>3, <2>4, SingleEvents
  <2>6. Assembled(assembly') /\ final' \in Endings /\ reading' \in {"yes", "done", "error"}
    BY <1>1, <2>5, OneFits
  <2>7. made' \in Seq(0..MaxPieces) /\ Len(made') = Len(made)
    BY <1>1, <2>1, <2>2, ExtendFits
  <2> QED
    BY <1>1, <1>3, <2>6, <2>7 DEF ChatArguments, CodecFits
<1>4. CASE ChatFinish
  <2>1. PICK r \in TurnReason, inChunk \in BOOLEAN :
          /\ Says(r, TRUE)
          /\ Frames((IF inChunk THEN <<Usage>> ELSE <<>>) \o <<IF r = "tool" THEN Batch ELSE Stop(r)>>, TRUE)
    BY <1>4 DEF ChatFinish
  <2>2. r \in Reasons
    BY TurnReasonFits
  <2>3. PICK u, e : u = Usage /\ e = (IF r = "tool" THEN Batch ELSE Stop(r))
    OBVIOUS
  <2>4. Event(u) /\ Event(e)
    BY <2>2, <2>3, SingleEvents
  <2>5. Frames(<<u, e>>, TRUE) \/ Frames(<<e>>, TRUE)
    <3>1. <<u>> \o <<e>> = <<u, e>> /\ <<>> \o <<e>> = <<e>>
      BY Pair
    <3>2. CASE inChunk
      <4>1. Frames(<<u>> \o <<e>>, TRUE)
        BY <2>1, <2>3, <3>2, Zenon
      <4> QED
        BY <3>1, <4>1, Zenon
    <3>3. CASE ~inChunk
      <4>1. Frames(<<>> \o <<e>>, TRUE)
        BY <2>1, <2>3, <3>3, Zenon
      <4> QED
        BY <3>1, <4>1, Zenon
    <3> QED
      BY <3>2, <3>3
  <2>6. Assembled(assembly') /\ final' \in Endings /\ reading' \in {"yes", "done", "error"}
    BY <1>1, <2>4, <2>5, OneFits, TwoFit
  <2>7. said' \in Endings
    BY <2>1, <2>2, SaysFits
  <2> QED
    BY <1>1, <1>4, <2>6, <2>7 DEF ChatFinish, CodecFits
<1> QED
  BY <1>2, <1>3, <1>4

LEMMA AnthropicFits ==
  ASSUME CodecFits,
         AnthropicStart \/ AnthropicDelta \/ AnthropicBlockStop \/ AnthropicMessageDelta \/ AnthropicMessageStop
  PROVE  CodecFits'
<1>1. /\ made \in Seq(0..MaxPieces) /\ Len(made) \in Nat /\ Len(made) <= MaxMade /\ current \in 0..Len(made)
      /\ Assembled(assembly) /\ final \in Endings /\ MaxMade \in Nat
  BY CodecAssumption DEF CodecFits
<1>2. CASE AnthropicStart
  <2>1. made' \in Seq(0..MaxPieces) /\ Len(made') = Len(made) + 1 /\ Len(made') <= MaxMade
    BY <1>1, <1>2, BeginFits DEF AnthropicStart
  <2>2. PICK x \in 0..MaxMade : x = Next1
    <3>1. Next1 \in 0..MaxMade
      BY <1>1, <2>1 DEF Next1
    <3> QED
      BY <3>1
  <2>3. PICK e : e = Part(x, <<Next1>>, <<>>)
    OBVIOUS
  <2>4. Event(e) /\ Frames(<<e>>, FALSE)
    BY <1>2, <2>2, <2>3, SingleEvents DEF AnthropicStart
  <2>5. Assembled(assembly') /\ final' \in Endings /\ reading' \in {"yes", "done", "error"}
    BY <1>1, <2>4, OneFits
  <2>6. current' \in 0..Len(made')
    BY <1>1, <1>2, <2>1 DEF AnthropicStart, Next1
  <2> QED
    BY <1>2, <2>1, <2>5, <2>6 DEF AnthropicStart, CodecFits
<1>3. CASE AnthropicDelta
  <2>1. current \in 1..Len(made) /\ current \in 0..MaxMade
    BY <1>1, <1>3 DEF AnthropicDelta
  <2>2. PICK e : e = Part(current, <<>>, <<<<current, made[current] + 1>>>>)
    OBVIOUS
  <2>3. Event(e) /\ Frames(<<e>>, FALSE)
    BY <1>3, <2>1, <2>2, SingleEvents DEF AnthropicDelta
  <2>4. Assembled(assembly') /\ final' \in Endings /\ reading' \in {"yes", "done", "error"}
    BY <1>1, <2>3, OneFits
  <2>5. made' \in Seq(0..MaxPieces) /\ Len(made') = Len(made)
    BY <1>1, <1>3, <2>1, ExtendFits DEF AnthropicDelta
  <2> QED
    BY <1>1, <1>3, <2>4, <2>5 DEF AnthropicDelta, CodecFits
<1>4. CASE AnthropicBlockStop
  <2>1. Assembled(assembly') /\ final' \in Endings /\ reading' \in {"yes", "done", "error"}
    BY <1>1, <1>4, OneFits, SingleEvents DEF AnthropicBlockStop
  <2> QED
    BY <1>1, <1>4, <2>1 DEF AnthropicBlockStop, CodecFits
<1>5. CASE AnthropicMessageDelta
  <2>1. PICK r \in TurnReason : Says(r, TRUE) /\ Frames(<<Usage, Stop(r)>>, FALSE)
    BY <1>5 DEF AnthropicMessageDelta
  <2>2. r \in Reasons
    BY TurnReasonFits
  <2>3. Assembled(assembly') /\ final' \in Endings /\ reading' \in {"yes", "done", "error"}
    BY <1>1, <2>1, <2>2, TwoFit, SingleEvents
  <2>4. said' \in Endings
    BY <2>1, <2>2, SaysFits
  <2> QED
    BY <1>1, <1>5, <2>3, <2>4 DEF AnthropicMessageDelta, CodecFits
<1>6. CASE AnthropicMessageStop
  <2>1. "end" \in Reasons
    BY DEF Reasons
  <2>2. Assembled(assembly') /\ final' \in Endings /\ reading' \in {"yes", "done", "error"}
    BY <1>1, <1>6, <2>1, OneFits, SingleEvents DEF AnthropicMessageStop
  <2> QED
    BY <1>1, <1>6, <2>2 DEF AnthropicMessageStop, CodecFits
<1> QED
  BY <1>2, <1>3, <1>4, <1>5, <1>6

LEMMA ResponsesFits ==
  ASSUME CodecFits, ResponsesItem \/ ResponsesDelta \/ ResponsesDone \/ ResponsesEnd
  PROVE  CodecFits'
<1>1. /\ made \in Seq(0..MaxPieces) /\ Len(made) \in Nat /\ Len(made) <= MaxMade /\ current \in 0..Len(made)
      /\ Assembled(assembly) /\ final \in Endings /\ MaxMade \in Nat
  BY CodecAssumption DEF CodecFits
<1>2. CASE ResponsesItem
  <2>1. made' \in Seq(0..MaxPieces) /\ Len(made') = Len(made) + 1 /\ Len(made') <= MaxMade
    BY <1>1, <1>2, BeginFits DEF ResponsesItem
  <2>2. Eventful(<<>>)
    <3>1. PICK S : S = {}
      OBVIOUS
    <3>2. <<>> \in Seq(S) /\ \A e \in S : Event(e)
      <4>1. <<>> \in Seq(S)
        OBVIOUS
      <4> QED
        BY <3>1, <4>1
    <3> QED
      BY <3>2 DEF Eventful
  <2>3. Assembled(assembly') /\ final' \in Endings /\ reading' \in {"yes", "done", "error"}
    BY <1>1, <1>2, <2>2, FramesFit DEF ResponsesItem
  <2>4. current' \in 0..Len(made')
    BY <1>1, <1>2, <2>1 DEF ResponsesItem, Next1
  <2> QED
    BY <1>2, <2>1, <2>3, <2>4 DEF ResponsesItem, CodecFits
<1>3. CASE ResponsesDelta
  <2>1. current \in 1..Len(made)
    BY <1>1, <1>3 DEF ResponsesDelta
  <2>2. PICK x \in 0..MaxMade : x = current - 1
    <3>1. current - 1 \in 0..MaxMade
      BY <1>1, <2>1
    <3> QED
      BY <3>1
  <2>3. PICK e : e = Part(x, <<>>, <<<<current, made[current] + 1>>>>)
    OBVIOUS
  <2>4. Event(e) /\ Frames(<<e>>, FALSE)
    BY <1>3, <2>2, <2>3, SingleEvents DEF ResponsesDelta
  <2>5. Assembled(assembly') /\ final' \in Endings /\ reading' \in {"yes", "done", "error"}
    BY <1>1, <2>4, OneFits
  <2>6. made' \in Seq(0..MaxPieces) /\ Len(made') = Len(made)
    BY <1>1, <1>3, <2>1, ExtendFits DEF ResponsesDelta
  <2> QED
    BY <1>1, <1>3, <2>5, <2>6 DEF ResponsesDelta, CodecFits
<1>4. CASE ResponsesDone
  <2>1. Assembled(assembly') /\ final' \in Endings /\ reading' \in {"yes", "done", "error"}
    BY <1>1, <1>4, OneFits, SingleEvents DEF ResponsesDone
  <2> QED
    BY <1>1, <1>4, <2>1 DEF ResponsesDone, CodecFits
<1>5. CASE ResponsesEnd
  <2>1. PICK r \in TurnReason :
          /\ Says(r, TRUE)
          /\ Frames(IF r = "length" THEN <<Stop("length")>> ELSE <<Usage, Stop("end")>>, TRUE)
    BY <1>5 DEF ResponsesEnd
  <2>2. r \in Reasons /\ "length" \in Reasons /\ "end" \in Reasons
    BY TurnReasonFits DEF Reasons
  <2>3. Frames(<<Stop("length")>>, TRUE) \/ Frames(<<Usage, Stop("end")>>, TRUE)
    BY <2>1, Zenon
  <2>4. Assembled(assembly') /\ final' \in Endings /\ reading' \in {"yes", "done", "error"}
    BY <1>1, <2>2, <2>3, OneFits, TwoFit, SingleEvents
  <2>5. said' \in Endings
    BY <2>1, <2>2, SaysFits
  <2> QED
    BY <1>1, <1>5, <2>4, <2>5 DEF ResponsesEnd, CodecFits
<1> QED
  BY <1>2, <1>3, <1>4, <1>5

LEMMA OllamaFits ==
  ASSUME CodecFits, OllamaChunk
  PROVE  CodecFits'
<1>1. /\ made \in Seq(0..MaxPieces) /\ Len(made) \in Nat /\ Len(made) <= MaxMade /\ current \in 0..Len(made)
      /\ Assembled(assembly) /\ final \in Endings /\ MaxMade \in Nat /\ said \in Endings
  BY CodecAssumption DEF CodecFits
<1> DEFINE call(i) == Len(made) + i
           calls(n) == [i \in 1..n |-> Part(i - 1, <<call(i)>>, <<<<call(i), 1>>>>)]
           stop(n) == IF n > 0 THEN <<Batch>> ELSE <<Stop("end")>>
           ones(n) == [i \in 1..n |-> 1]
<1>2. PICK n \in 0..(MaxMade - Len(made)), done \in BOOLEAN :
        /\ made' = made \o ones(n)
        /\ IF done THEN Says(IF made' = <<>> THEN "end" ELSE "tool", TRUE) ELSE UNCHANGED said
        /\ Frames(calls(n) \o (IF done THEN stop(n) ELSE <<>>), done)
  BY DEF OllamaChunk
<1>3. n \in Nat /\ n <= MaxMade - Len(made)
  BY <1>1
<1>4. \A i \in 1..n : Event(calls(n)[i])
  <2> TAKE i \in 1..n
  <2>1. PICK x \in 0..MaxMade : x = i - 1
    <3>1. i - 1 \in 0..MaxMade
      BY <1>1, <1>3
    <3> QED
      BY <3>1
  <2>2. calls(n)[i] = Part(x, <<call(i)>>, <<<<call(i), 1>>>>)
    BY <2>1
  <2> QED
    BY <2>2, SingleEvents
<1>5. "end" \in Reasons /\ "tool" \in Reasons
  BY DEF Reasons
<1>6. PICK b, e : b = Batch /\ e = Stop("end")
  OBVIOUS
<1>7. Event(b) /\ Event(e)
  BY <1>5, <1>6, SingleEvents
<1>8. PICK cs, m : cs = calls(n) /\ m = ones(n)
  OBVIOUS
<1>9. m \in Seq(0..MaxPieces) /\ Len(m) = n
  <2>1. 1 \in 0..MaxPieces
    BY CodecAssumption
  <2>2. ones(n) \in [1..n -> 0..MaxPieces]
    BY <2>1
  <2>3. PICK T : T = 0..MaxPieces
    OBVIOUS
  <2>4. m \in [1..n -> T]
    BY <1>8, <2>2, <2>3
  <2>5. m \in Seq(T) /\ Len(m) = n
    BY <1>3, <2>4
  <2> QED
    BY <2>3, <2>5
<1>10. made' \in Seq(0..MaxPieces) /\ Len(made') = Len(made) + n
  BY <1>1, <1>2, <1>8, <1>9
<1>11. PICK S : S = {cs[i] : i \in 1..n} \cup {b, e}
  OBVIOUS
<1>12. \A y \in S : Event(y)
  BY <1>4, <1>7, <1>8, <1>11
<1>13. cs \in Seq(S)
  <2>1. cs = [i \in 1..n |-> cs[i]]
    BY <1>8
  <2>2. cs \in [1..n -> S]
    BY <1>11, <2>1
  <2> QED
    BY <1>3, <2>2
<1>14. PICK t : t = IF done THEN stop(n) ELSE <<>>
  OBVIOUS
<1>15. t \in Seq(S)
  <2>1. t \in {<<b>>, <<e>>, <<>>}
    BY <1>6, <1>14
  <2>2. <<b>> \in Seq(S) /\ <<e>> \in Seq(S) /\ <<>> \in Seq(S)
    BY <1>11
  <2> QED
    BY <2>1, <2>2
<1>16. Eventful(cs \o t)
  <2>1. cs \o t \in Seq(S)
    BY <1>13, <1>15
  <2> QED
    BY <1>12, <2>1 DEF Eventful
<1>17. Frames(cs \o t, done)
  BY <1>2, <1>8, <1>14, Zenon
<1>18. Assembled(assembly') /\ final' \in Endings /\ reading' \in {"yes", "done", "error"}
  BY <1>1, <1>16, <1>17, FramesFit
<1>19. said' \in Endings
  <2>1. CASE done
    <3>1. PICK r : r = IF made' = <<>> THEN "end" ELSE "tool"
      OBVIOUS
    <3>2. r \in Reasons /\ said' = [stop |-> r, usage |-> TRUE]
      BY <1>2, <1>5, <2>1, <3>1 DEF Says
    <3> QED
      BY <3>2 DEF Endings
  <2>2. CASE ~done
    BY <1>1, <1>2, <2>2
  <2> QED
    BY <2>1, <2>2
<1>20. upstream' = upstream /\ current' = current
  BY DEF OllamaChunk
<1> HIDE DEF call, calls, stop, ones
<1> QED
  BY <1>1, <1>3, <1>10, <1>18, <1>19, <1>20 DEF CodecFits

LEMMA CodecFitsInit == CodecInit => CodecFits
<1> SUFFICES ASSUME CodecInit PROVE CodecFits
  OBVIOUS
<1>1. PICK none, o : none = <<>> /\ o = "none"
  OBVIOUS
<1>2. assembly = [open |-> none, closed |-> none] /\ assembly.open = none /\ assembly.closed = none
  BY <1>1 DEF CodecInit
<1>3. DOMAIN none = {}
  BY <1>1
<1>4. Assembled(assembly)
  BY <1>2, <1>3 DEF Assembled
<1>5. [stop |-> "none", usage |-> FALSE] \in Endings
  BY DEF Endings
<1>6. made \in Seq(0..MaxPieces) /\ Len(made) = 0 /\ current = 0
  BY DEF CodecInit
<1> QED
  BY <1>4, <1>5, <1>6, CodecAssumption DEF CodecInit, CodecFits

LEMMA CodecFitsStep == CodecFits /\ [CodecNext]_codecVars => CodecFits'
<1> SUFFICES ASSUME CodecFits, [CodecNext]_codecVars PROVE CodecFits'
  OBVIOUS
<1>1. CASE CutShort \/ UNCHANGED codecVars
  <2>1. /\ upstream' = upstream /\ made' = made /\ current' = current /\ said' = said
        /\ assembly' = assembly /\ final' = final /\ reading' \in {reading, "error"}
    BY <1>1 DEF CutShort, codecVars
  <2> QED
    BY <2>1 DEF CodecFits
<1>2. CASE CodecDone
  <2>1. UNCHANGED codecVars
    BY <1>2 DEF CodecDone
  <2> QED
    BY <1>1, <2>1
<1>3. CASE RunsOut
  <2>1. /\ upstream' = upstream /\ made' = made /\ current' = current /\ said' = said
        /\ assembly' = CloseAll(assembly) /\ final' = final /\ reading' = "done"
    BY <1>3 DEF RunsOut
  <2>2. PICK c : c = CloseAll(assembly)
    OBVIOUS
  <2>3. Assembled(c)
    BY <2>2, ClosesAll
  <2> QED
    BY <2>1, <2>2, <2>3 DEF CodecFits
<1> QED
  BY <1>1, <1>2, <1>3, ChatFits, AnthropicFits, ResponsesFits, OllamaFits DEF CodecNext

LEMMA CodecIsTyped == CodecFits => CodecTypeOK
<1> SUFFICES ASSUME CodecFits PROVE CodecTypeOK
  OBVIOUS
<1>1. made \in BoundedSeq(0..MaxPieces, MaxMade)
  <2>1. PICK T : T = 0..MaxPieces
    OBVIOUS
  <2>2. made \in Seq(T) /\ Len(made) <= MaxMade
    BY <2>1 DEF CodecFits
  <2>3. PICK m \in Nat : m = Len(made) /\ m <= MaxMade
    BY <2>2
  <2>4. made \in [1..m -> T]
    BY <2>2, <2>3
  <2>5. m \in 0..MaxMade
    BY <2>3, CodecAssumption
  <2> QED
    BY <2>1, <2>4, <2>5, Zenon DEF BoundedSeq, SeqOf
<1>2. current \in 0..MaxMade
  BY CodecAssumption DEF CodecFits
<1>3. DOMAIN assembly.open \subseteq 0..MaxMade
  BY DEF CodecFits, Assembled
<1>4. /\ said.stop \in Reasons \cup {"none"} /\ final.stop \in Reasons \cup {"none"}
      /\ said.usage \in BOOLEAN /\ final.usage \in BOOLEAN
  BY DEF CodecFits, Endings
<1> QED
  BY <1>1, <1>2, <1>3, <1>4 DEF CodecFits, CodecTypeOK

-----------------------------------------------------------------------------
(* The wire as a whole: a step of one part leaves the others alone. *)

WireInv == SendInv /\ FramingInv /\ CodecFits /\ EncoderInv

\* Types of all that is on the wire, for a body, a backend's turn and a
\* gateway's answer of any length, cut into any chunks: a decoder's record
\* never passes max_sse_buffer_bytes however it is fed, the calls being
\* assembled are numbered within those the backend made, and the encoders
\* number blocks and events within those they were given.
THEOREM WireTypeCorrect == WireSpec => []WireTypeOK
<1>1. WireInit => WireInv
  BY SendInvInit, FramingInvInit, CodecFitsInit, FirstFrame DEF WireInit, WireInv
<1>2. WireInv /\ [Send \/ Frame \/ Decode \/ Render]_wireVars => WireInv'
  <2> SUFFICES ASSUME WireInv, [Send \/ Frame \/ Decode \/ Render]_wireVars PROVE WireInv'
    OBVIOUS
  <2>1. SendInv'
    <3>1. [SendNext]_sendVars
      BY DEF Send, Frame, Decode, Render, wireVars
    <3> QED
      BY <3>1, SendInvStep DEF WireInv
  <2>2. FramingInv'
    <3>1. [FramingNext]_framingVars
      BY DEF Send, Frame, Decode, Render, wireVars
    <3> QED
      BY <3>1, FramingInvStep DEF WireInv
  <2>3. CodecFits'
    <3>1. [CodecNext]_codecVars
      BY DEF Send, Frame, Decode, Render, wireVars
    <3> QED
      BY <3>1, CodecFitsStep DEF WireInv
  <2>4. EncoderInv'
    <3>1. [EncoderNext]_encoderVars
      BY DEF Send, Frame, Decode, Render, wireVars
    <3> QED
      BY <3>1, EncoderInvStep DEF WireInv
  <2> QED
    BY <2>1, <2>2, <2>3, <2>4 DEF WireInv
<1>3. WireInv => WireTypeOK
  <2>1. SendInv => SendTypeOK
    BY DEF SendInv
  <2> QED
    BY <2>1, FramingIsTyped, CodecIsTyped, EncoderIsTyped DEF WireInv, WireTypeOK
<1> QED
  BY <1>1, <1>2, <1>3, PTL DEF WireSpec

=============================================================================
