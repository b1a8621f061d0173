---------------------------- MODULE StreamProofs ----------------------------
(***************************************************************************)
(* For any limits of the accumulator, any number of tolerated frames and   *)
(* any length of the streams: a stream is accounted for before its first   *)
(* closing event, ends in one terminal event, reconciles honestly, returns *)
(* what it holds and says truthfully why it stopped.                       *)
(***************************************************************************)
EXTENDS StreamEngine, FiniteSetTheorems, TLAPS

\* The kinds of event the consumer took or will be offered.
Told == seen \cup {outq[i] : i \in DOMAIN outq}

Before == {"prepare", "dispatch", "ladder", "gate", "reserve"}
Streaming == {"open", "frames", "frame", "turn", "private", "batch", "rejected", "unlock", "tail"}
Deciding == {"turn", "private", "batch", "rejected", "unlock", "tail"}
AtWork == Working \ {"rejected"}

Types ==
  /\ pc \in Working \cup {"idle", "closing", "ended"}
  /\ outq \in Seq(Events) /\ seen \subseteq Events /\ stops \in {0, 1}
  /\ late = FALSE /\ gone \in BOOLEAN /\ sent \in BOOLEAN
  /\ reservation \in {"none", "open", "committed", "estimated", "released"}
  /\ slot \in {"none", "held", "free"} /\ refs \in {"none", "open", "closed"}
  /\ record \in {"active", "succeeded", "failed", "cancelled"}
  /\ claim \in Claims \cup {"none"}

\* A stop is the last event there is; once one is offered the engine has
\* nothing left to yield and the record is final; an error brings one.
Terminal ==
  /\ \A i \in DOMAIN outq : outq[i] \in Stops => i = Len(outq)
  /\ stops = 1 => outq = <<>>
  /\ stops = 1 <=> Stops \cap seen # {}
  /\ Told \cap Stops # {} => pc \in {"closing", "rejected", "ended"} /\ record # "active"
  /\ "error" \in Told /\ ~gone => Told \cap Stops # {}
  /\ pc \in {"idle", "ended"} => outq = <<>>
  /\ gone => pc = "ended"

\* How far the task has come decides what it holds.
Holds ==
  /\ pc \in AtWork => record = "active"
  /\ pc \in Before => ~sent /\ reservation = "none"
  /\ pc \in {"prepare", "dispatch", "ladder"} => seen = {} /\ outq = <<>>
  /\ pc = "admission" => ~sent /\ reservation = "open"
  /\ pc \in Streaming => sent /\ reservation = "open"
  /\ pc \in Deciding => slot = "free"
  /\ pc = "ended" => slot # "held" /\ refs # "open"

\* What a stream that was told these events says of its calls.
Calls == {"decided", "undecided"}
Speaks(told, said, direct) ==
  /\ Calls \cap told # {} => "stopEnd" \notin told /\ (direct => "stopTool" \in told)
  /\ "stopTool" \in told => Calls \cap told # {} \/ said = "tool"

Accounts ==
  /\ record = "succeeded" /\ Direct => reservation \in {"committed", "estimated"}
  /\ reservation = "released" => ~sent
  /\ reservation \in {"committed", "estimated"} => sent
  /\ record = "succeeded" /\ ~gone => Speaks(Told, claim, Direct)

StreamInv == Types /\ Terminal /\ Holds /\ Accounts

-----------------------------------------------------------------------------
\* Two sequences one after the other, by their elements.
LEMMA Joined ==
  ASSUME NEW S, NEW a \in Seq(S), NEW b \in Seq(S), NEW c \in Seq(S),
         Len(c) = Len(a) + Len(b),
         \A i \in 1..Len(a) : c[i] = a[i],
         \A i \in 1..Len(b) : c[Len(a) + i] = b[i]
  PROVE  a \o b = c
<1>1. a \o b \in Seq(S) /\ Len(a \o b) = Len(c)
  OBVIOUS
<1>2. ASSUME NEW i \in 1..Len(c)
      PROVE  (a \o b)[i] = c[i]
  <2>1. CASE i <= Len(a)
    BY <2>1
  <2>2. CASE i > Len(a)
    <3>1. i - Len(a) \in 1..Len(b)
      BY <2>2
    <3>2. c[i] = b[i - Len(a)]
      BY <3>1
    <3> QED
      BY <2>2, <3>1, <3>2
  <2> QED
    BY <2>1, <2>2
<1> QED
  BY <1>1, <1>2

\* The short ones the engine yields.
LEMMA Tuples ==
  ASSUME NEW x, NEW y, NEW z
  PROVE  <<x>> \o <<y>> = <<x, y>> /\ <<x>> \o <<y, z>> = <<x, y, z>>
<1> DEFINE S == {x, y, z}
<1>1. <<x>> \o <<y>> = <<x, y>>
  <2> DEFINE a == <<x>>  b == <<y>>  c == <<x, y>>
  <2>1. /\ a \in Seq(S) /\ b \in Seq(S) /\ c \in Seq(S)
        /\ Len(a) = 1 /\ Len(b) = 1 /\ Len(c) = 2
        /\ a[1] = x /\ b[1] = y /\ c[1] = x /\ c[2] = y
    OBVIOUS
  <2> HIDE DEF S, a, b, c
  <2>2. /\ Len(c) = Len(a) + Len(b)
        /\ \A i \in 1..Len(a) : c[i] = a[i]
        /\ \A i \in 1..Len(b) : c[Len(a) + i] = b[i]
    BY <2>1
  <2>3. a \o b = c
    BY <2>1, <2>2, Joined
  <2> QED
    BY <2>3 DEF a, b, c
<1>2. <<x>> \o <<y, z>> = <<x, y, z>>
  <2> DEFINE a == <<x>>  b == <<y, z>>  c == <<x, y, z>>
  <2>1. /\ a \in Seq(S) /\ b \in Seq(S) /\ c \in Seq(S)
        /\ Len(a) = 1 /\ Len(b) = 2 /\ Len(c) = 3
        /\ a[1] = x /\ b[1] = y /\ b[2] = z /\ c[1] = x /\ c[2] = y /\ c[3] = z
    OBVIOUS
  <2> HIDE DEF S, a, b, c
  <2>2. /\ Len(c) = Len(a) + Len(b)
        /\ \A i \in 1..Len(a) : c[i] = a[i]
        /\ \A i \in 1..Len(b) : c[Len(a) + i] = b[i]
    BY <2>1
  <2>3. a \o b = c
    BY <2>1, <2>2, Joined
  <2> QED
    BY <2>3 DEF a, b, c
<1> QED
  BY <1>1, <1>2

LEMMA FourTuple ==
  ASSUME NEW w, NEW x, NEW y, NEW z
  PROVE  <<w, x>> \o <<y, z>> = <<w, x, y, z>>
<1> DEFINE S == {w, x, y, z}  a == <<w, x>>  b == <<y, z>>  c == <<w, x, y, z>>
<1>1. /\ a \in Seq(S) /\ b \in Seq(S) /\ c \in Seq(S)
      /\ Len(a) = 2 /\ Len(b) = 2 /\ Len(c) = 4 /\ a[1] = w /\ a[2] = x
      /\ b[1] = y /\ b[2] = z /\ c[1] = w /\ c[2] = x /\ c[3] = y /\ c[4] = z
  OBVIOUS
<1> HIDE DEF S, a, b, c
<1>2. /\ Len(c) = Len(a) + Len(b)
      /\ \A i \in 1..Len(a) : c[i] = a[i]
      /\ \A i \in 1..Len(b) : c[Len(a) + i] = b[i]
  BY <1>1
<1>3. a \o b = c
  BY <1>1, <1>2, Joined
<1> QED
  BY <1>3 DEF a, b, c

LEMMA NothingBefore ==
  ASSUME NEW S, NEW a \in Seq(S)
  PROVE  <<>> \o a = a
OBVIOUS

-----------------------------------------------------------------------------
\* What an engine at a yield point tells the consumer.
LEMMA Yielded ==
  ASSUME outq = <<>>, NEW es \in Seq(Events), Yield(es)
  PROVE  /\ outq' = es /\ seen' = seen /\ stops' = stops /\ late' = late /\ gone' = gone
         /\ Told = seen
         /\ Told' = seen \cup {es[i] : i \in DOMAIN es}
<1>1. outq' = es
  BY DEF Yield
<1> QED
  BY <1>1 DEF Yield, Told

\* A step that tells the consumer nothing and leaves the record alone.
LEMMA SilentStep ==
  ASSUME StreamInv, UNCHANGED consumerVars, UNCHANGED record,
         pc \in AtWork, pc' \in AtWork, Types', Holds',
         reservation' # "released"
  PROVE  StreamInv'
<1>1. Told' = Told
  BY DEF Told, consumerVars
<1>2. Terminal'
  BY <1>1 DEF StreamInv, Types, Terminal, Holds, AtWork, Working, consumerVars
<1>3. record' = "active"
  BY DEF StreamInv, Holds
<1>4. Accounts'
  BY <1>3 DEF StreamInv, Holds, Types, Accounts, AtWork, Working, Before, Streaming
<1> QED
  BY <1>2, <1>4 DEF StreamInv

\* A step that ends the stream with an error and a stop.
LEMMA ErrorStep ==
  ASSUME StreamInv, pc \in AtWork, outq = <<>>, NEW stop \in Stops, ErrorExit(stop),
         sent' = sent, claim' = claim,
         reservation' \in {"none", "open", "committed", "estimated", "released"},
         reservation' = "released" => ~sent,
         reservation' \in {"committed", "estimated"} => sent,
         slot' \in {"none", "held", "free"}, refs' \in {"none", "open", "closed"}
  PROVE  StreamInv'
<1>1. pc' = "closing" /\ record' = "failed" /\ Yield(<<"error", stop>>)
  BY DEF ErrorExit, FailWith, Finalize, StreamInv, Holds
<1>2. <<"error", stop>> \in Seq(Events)
  BY DEF Events, Stops
<1> DEFINE es == <<"error", stop>>
<1>a. {es[i] : i \in DOMAIN es} = {"error", stop}
  <2>1. DOMAIN es = {1, 2} /\ es[1] = "error" /\ es[2] = stop
    OBVIOUS
  <2> HIDE DEF es
  <2> QED
    BY <2>1
<1>3. /\ outq' = <<"error", stop>> /\ seen' = seen /\ stops' = stops /\ late' = late
      /\ gone' = gone /\ Told' = seen \cup {"error", stop}
  BY <1>1, <1>2, <1>a, Yielded
<1>4. stops = 0 /\ gone = FALSE
  BY DEF StreamInv, Types, Terminal, Told, AtWork, Working
<1>5. Types'
  BY <1>1, <1>2, <1>3 DEF StreamInv, Types
<1>6. Terminal'
  BY <1>1, <1>3, <1>4 DEF StreamInv, Terminal, Stops
<1>7. Holds' /\ Accounts'
  BY <1>1, <1>3 DEF Holds, Accounts, AtWork, Working, Before, Streaming, Deciding
<1> QED
  BY <1>5, <1>6, <1>7 DEF StreamInv

\* A step that offers text or calls and leaves the record alone.
LEMMA OfferStep ==
  ASSUME StreamInv, pc \in AtWork \ {"prepare", "dispatch", "ladder"}, outq = <<>>,
         NEW es \in Seq({"text", "decided", "undecided"}), Yield(es),
         UNCHANGED <<sent, reservation, slot, refs, record, claim>>,
         pc \in Streaming, pc' \in (Streaming \ {"rejected"}) \cup {"closing"},
         pc' \in Deciding => slot = "free"
  PROVE  StreamInv'
<1>1. es \in Seq(Events)
  BY DEF Events
<1>2. /\ outq' = es /\ seen' = seen /\ stops' = stops /\ late' = late /\ gone' = gone
      /\ Told = seen /\ Told' = seen \cup {es[i] : i \in DOMAIN es}
  BY <1>1, Yielded
<1>3. \A i \in DOMAIN es : es[i] \in {"text", "decided", "undecided"}
  OBVIOUS
<1>4. record = "active" /\ record' = "active" /\ gone = FALSE
  BY DEF StreamInv, Holds, Terminal, AtWork, Working, Types
<1>5. Told \cap Stops = {} /\ "error" \notin Told /\ stops = 0
  BY <1>4 DEF StreamInv, Terminal, AtWork, Working, Types, Told
<1>6. Told' \cap Stops = {} /\ "error" \notin Told'
  BY <1>2, <1>3, <1>5 DEF Stops
<1>7. Types'
  BY <1>1, <1>2 DEF StreamInv, Types, Streaming, Working
<1>8. Terminal'
  BY <1>2, <1>3, <1>4, <1>5, <1>6 DEF Terminal, Stops, Streaming
<1>9. Holds'
  BY <1>4 DEF StreamInv, Holds, AtWork, Working, Before, Streaming, Deciding
<1>10. Accounts'
  BY <1>4 DEF StreamInv, Accounts
<1> QED
  BY <1>7, <1>8, <1>9, <1>10 DEF StreamInv

\* A step that offers the stream's last events: a stop comes last, the record
\* is final, and a stream that succeeds is reconciled and tells why it stops.
LEMMA LastStep ==
  ASSUME StreamInv, pc \in AtWork, outq = <<>>,
         NEW es \in Seq(Events), NEW n \in Nat \ {0}, n = Len(es), Yield(es),
         es[n] \in Stops, \A i \in 1..(n - 1) : es[i] \notin Stops,
         record' \in {"succeeded", "failed"}, pc' \in {"closing", "rejected"},
         UNCHANGED <<sent, slot, refs>>, claim' \in Claims \cup {"none"},
         reservation' \in {"none", "open", "committed", "estimated"},
         reservation' \in {"committed", "estimated"} => sent,
         record' = "succeeded" /\ (sent \/ reservation' # "none")
           => reservation' \in {"committed", "estimated"},
         record' = "succeeded"
           => Speaks(seen \cup {es[i] : i \in 1..n}, claim', sent \/ reservation' # "none"),
         pc' = "rejected" => sent /\ reservation' = "open" /\ slot = "free"
  PROVE  StreamInv'
<1>1. DOMAIN es = 1..n
  OBVIOUS
<1>2. /\ outq' = es /\ seen' = seen /\ stops' = stops /\ late' = late /\ gone' = gone
      /\ Told = seen /\ Told' = seen \cup {es[i] : i \in 1..n}
  BY <1>1, Yielded
<1>3. record = "active" /\ gone = FALSE
  BY DEF StreamInv, Holds, Terminal, AtWork, Working, Types
<1>4. seen \cap Stops = {} /\ stops = 0
  BY <1>2, <1>3 DEF StreamInv, Terminal, AtWork, Working, Types
<1>5. es[n] \in Told' \cap Stops
  BY <1>2
<1>6. Types'
  BY <1>2 DEF StreamInv, Types, Working
<1>7. Terminal'
  <2>1. \A i \in 1..n : es[i] \in Stops => i = n
    OBVIOUS
  <2> QED
    BY <1>1, <1>2, <1>3, <1>4, <1>5, <2>1 DEF Terminal
<1>8. Holds'
  BY DEF Holds, AtWork, Working, Before, Streaming, Deciding
<1>9. Accounts'
  BY <1>2, <1>3 DEF Accounts, Direct
<1> QED
  BY <1>6, <1>7, <1>8, <1>9 DEF StreamInv

-----------------------------------------------------------------------------
\* The steps that neither tell the consumer anything nor end the turn.
LEMMA QuietSteps ==
  ASSUME StreamInv,
         \/ Prepare \/ Dispatch \/ Gate \/ Reserve \/ Admitted \/ Opened \/ Frame
         \/ CallsComplete \/ UsageUpdate \/ StreamComplete \/ StreamError \/ StreamRunsOut
  PROVE  StreamInv'
<1> USE DEF StreamInv, Types, Holds, At, AtWork, Working, Before, Streaming, Deciding,
            engineVars, consumerVars
<1>1. /\ UNCHANGED consumerVars /\ UNCHANGED record /\ pc \in AtWork /\ pc' \in AtWork
      /\ reservation' # "released"
  <2>1. CASE Prepare  BY <2>1 DEF Prepare
  <2>2. CASE Dispatch  BY <2>2 DEF Dispatch
  <2>3. CASE Gate  BY <2>3 DEF Gate
  <2>4. CASE Reserve  BY <2>4 DEF Reserve
  <2>5. CASE Admitted  BY <2>5 DEF Admitted
  <2>6. CASE Opened  BY <2>6 DEF Opened
  <2>7. CASE Frame  BY <2>7 DEF Frame
  <2>8. CASE CallsComplete \/ UsageUpdate \/ StreamComplete \/ StreamError
    BY <2>8 DEF CallsComplete, UsageUpdate, StreamComplete, StreamError, Decoded
  <2>9. CASE StreamRunsOut  BY <2>9 DEF StreamRunsOut, Finish
  <2> QED
    BY <2>1, <2>2, <2>3, <2>4, <2>5, <2>6, <2>7, <2>8, <2>9
<1>2. Types' /\ Holds'
  <2>1. CASE Prepare  BY <1>1, <2>1 DEF Prepare
  <2>2. CASE Dispatch  BY <1>1, <2>2 DEF Dispatch
  <2>3. CASE Gate  BY <1>1, <2>3 DEF Gate
  <2>4. CASE Reserve  BY <1>1, <2>4 DEF Reserve
  <2>5. CASE Admitted  BY <1>1, <2>5 DEF Admitted
  <2>6. CASE Opened  BY <1>1, <2>6 DEF Opened
  <2>7. CASE Frame  BY <1>1, <2>7 DEF Frame
  <2>8. CASE CallsComplete \/ UsageUpdate \/ StreamComplete \/ StreamError
    BY <1>1, <2>8 DEF CallsComplete, UsageUpdate, StreamComplete, StreamError, Decoded
  <2>9. CASE StreamRunsOut  BY <1>1, <2>9 DEF StreamRunsOut, Finish
  <2> QED
    BY <2>1, <2>2, <2>3, <2>4, <2>5, <2>6, <2>7, <2>8, <2>9
<1> QED
  BY <1>1, <1>2, SilentStep

\* The many exits with an error.
LEMMA ErrorSteps ==
  ASSUME StreamInv,
         Raise \/ GateRefuses \/ Exhausted \/ NotAdmitted \/ Refused \/ PrivateFails
  PROVE  StreamInv'
<1> USE DEF At, engineVars, consumerVars
<1>1. "stop" \in Stops /\ "stopInvalid" \in Stops
  BY DEF Stops
<1>2. pc \in AtWork /\ outq = <<>> /\ sent' = sent /\ claim' = claim
      /\ (ErrorExit("stop") \/ ErrorExit("stopInvalid"))
  BY DEF Raise, GateRefuses, Exhausted, NotAdmitted, Refused, PrivateFails, AtWork, Working
<1>3. /\ reservation' \in {"none", "open", "committed", "estimated", "released"}
      /\ reservation' = "released" => ~sent
      /\ reservation' \in {"committed", "estimated"} => sent
      /\ slot' \in {"none", "held", "free"} /\ refs' \in {"none", "open", "closed"}
  <2> USE DEF StreamInv, Types, Holds, Accounts
  <2>1. CASE Raise  BY <2>1 DEF Raise, Closes, Closed
  <2>2. CASE GateRefuses \/ Exhausted \/ PrivateFails
    BY <2>2 DEF GateRefuses, Exhausted, PrivateFails
  <2>3. CASE NotAdmitted  BY <2>3 DEF NotAdmitted
  <2>4. CASE Refused  BY <2>4 DEF Refused, Streaming
  <2> QED
    BY <2>1, <2>2, <2>3, <2>4
<1> QED
  BY <1>1, <1>2, <1>3, ErrorStep

\* A frame's end, a malformed frame and a fragment either end the stream or
\* stay with it.
LEMMA FrameSteps ==
  ASSUME StreamInv, Malformed \/ Fragment \/ FrameEnds
  PROVE  StreamInv'
<1> USE DEF At, engineVars, consumerVars, Stops
<1>1. CASE ErrorExit("stop") /\ (Malformed \/ Fragment \/ FrameEnds)
  <2>1. /\ pc \in AtWork /\ outq = <<>> /\ sent' = sent /\ reservation' = reservation
        /\ claim' = claim
        /\ slot' \in {slot, "free"} /\ refs' = refs
    BY <1>1 DEF Malformed, Fragment, Decoded, FrameEnds, Finish, AtWork, Working
  <2> QED
    BY <1>1, <2>1, ErrorStep DEF StreamInv, Types, Accounts
<1>2. CASE ~ErrorExit("stop")
  <2>1. /\ UNCHANGED consumerVars /\ UNCHANGED record /\ pc \in {"frames", "frame"}
        /\ pc' \in {"frames", "frame", "turn"}
        /\ pc' = "turn" => slot' = "free"
        /\ sent' = sent /\ reservation' = reservation /\ slot' \in {slot, "free"}
        /\ refs' = refs /\ claim' = claim
    BY <1>2 DEF Malformed, Fragment, Decoded, FrameEnds, Finish
  <2>2. pc \in AtWork /\ pc' \in AtWork /\ reservation' # "released"
    BY <2>1 DEF AtWork, Working, StreamInv, Holds, Streaming
  <2>3. Types' /\ Holds'
    BY <2>1 DEF StreamInv, Types, Holds, AtWork, Working, Before, Streaming, Deciding
  <2> QED
    BY <2>1, <2>2, <2>3, SilentStep
<1> QED
  BY <1>1, <1>2

\* Text, and what the turn's candidates come to while the stream goes on.
LEMMA OfferSteps ==
  ASSUME StreamInv,
         \/ TextDelta \/ Turn \/ PrivateText \/ PrivateCalls \/ BatchAccepted
  PROVE  StreamInv'
<1> USE DEF At, engineVars, consumerVars
<1>1. /\ pc \in {"frame", "turn", "private", "batch"} /\ outq = <<>>
      /\ UNCHANGED <<sent, reservation, slot, refs, record, claim>>
      /\ pc' \in {"frame", "private", "batch", "tail", "unlock", "closing"}
      /\ pc' = "frame" => pc = "frame"
      /\ pc' # "frame" => pc \in {"turn", "private", "batch"}
  BY DEF TextDelta, Decoded, Turn, PrivateText, PrivateCalls, BatchAccepted
<1>2. \/ UNCHANGED consumerVars /\ pc' # "closing"
      \/ \E es \in Seq({"text", "decided", "undecided"}) : Yield(es)
  <2> DEFINE offered == Seq({"text", "decided", "undecided"})
  <2>0. /\ <<>> \in offered /\ <<"text">> \in offered
        /\ <<"decided">> \in offered /\ <<"undecided">> \in offered
    OBVIOUS
  <2>1. CASE TextDelta
    <3>1. Yield(<<"text">>) \/ (UNCHANGED consumerVars /\ pc' # "closing")
      BY <2>1, <1>1 DEF TextDelta
    <3> QED
      BY <2>0, <3>1
  <2>2. CASE Turn
    <3>1. \/ Yield(<<"text">>) \/ Yield(<<>>)
          \/ UNCHANGED consumerVars /\ pc' # "closing"
      BY <2>2 DEF Turn
    <3> QED
      BY <2>0, <3>1
  <2>3. CASE PrivateText  BY <2>0, <2>3 DEF PrivateText
  <2>4. CASE PrivateCalls
    <3>1. Yield(<<"undecided">>) \/ (UNCHANGED consumerVars /\ pc' # "closing")
      BY <2>4 DEF PrivateCalls
    <3> QED
      BY <2>0, <3>1
  <2>5. CASE BatchAccepted
    <3> DEFINE es == (IF text THEN <<"text">> ELSE <<>>) \o <<"decided">>
    <3>1. es \in offered
      <4>1. ASSUME NEW S, NEW a \in Seq(S), NEW b \in Seq(S)
            PROVE  a \o b \in Seq(S)
        OBVIOUS
      <4>2. (IF text THEN <<"text">> ELSE <<>>) \in offered
        <5> HIDE DEF offered
        <5> QED
          BY <2>0
      <4> QED
        BY <2>0, <4>1, <4>2
    <3>2. Yield(es)
      BY <2>5 DEF BatchAccepted
    <3> QED
      BY <3>1, <3>2
  <2> QED
    BY <2>1, <2>2, <2>3, <2>4, <2>5
<1>3. /\ pc \in AtWork \ {"prepare", "dispatch", "ladder"} /\ pc \in Streaming
      /\ pc' \in (Streaming \ {"rejected"}) \cup {"closing"}
      /\ pc' \in Deciding => slot = "free"
  BY <1>1 DEF AtWork, Working, Streaming, Deciding, StreamInv, Holds
<1>4. CASE \E es \in Seq({"text", "decided", "undecided"}) : Yield(es)
  BY <1>1, <1>3, <1>4, OfferStep
<1>5. CASE UNCHANGED consumerVars /\ pc' # "closing"
  <2>1. pc' \in AtWork
    BY <1>1, <1>5 DEF AtWork, Working
  <2>2. Types' /\ Holds'
    BY <1>1, <1>3, <1>5 DEF StreamInv, Types, Holds, AtWork, Working, Before, Streaming, Deciding
  <2>3. reservation' # "released"
    BY <1>1, <1>3 DEF StreamInv, Holds
  <2> QED
    BY <1>1, <1>3, <1>5, <2>1, <2>2, <2>3, SilentStep
<1> QED
  BY <1>2, <1>4, <1>5

\* The buffered response, delivered at once.
LEMMA LadderStep ==
  ASSUME StreamInv, Ladder
  PROVE  StreamInv'
<1> USE DEF At
<1>1. pc = "ladder" /\ outq = <<>> /\ sent' = sent /\ UNCHANGED <<reservation, slot, refs>>
  BY DEF Ladder
<1>2. /\ pc \in AtWork /\ record = "active" /\ seen = {} /\ ~sent /\ reservation = "none"
      /\ slot \in {"none", "held", "free"} /\ refs \in {"none", "open", "closed"}
  BY <1>1 DEF StreamInv, Holds, Types, AtWork, Working, Before
<1>3. CASE ErrorExit("stopInvalid") /\ claim' = claim
  <2>1. "stopInvalid" \in Stops
    BY DEF Stops
  <2> QED
    BY <1>1, <1>2, <1>3, <2>1, ErrorStep
<1>4. ASSUME NEW body \in {<<"text">>, <<"decided">>, <<"text", "decided">>}, NEW c \in Claims,
             claim' = c, Finalize("succeeded"), pc' = "closing",
             Yield(body \o <<"usage", AssembledStop(body # <<"text">>, c)>>)
      PROVE  StreamInv'
  <2> DEFINE calls == body # <<"text">>
             stop == AssembledStop(calls, c)
             es == body \o <<"usage", stop>>
  <2>1. calls \in BOOLEAN
    OBVIOUS
  <2>2. /\ stop \in {"stopTool", "stopEnd", "stopOther"}
        /\ calls => stop # "stopEnd"
        /\ stop = "stopTool" => calls \/ c = "tool"
    <3> HIDE DEF calls
    <3> QED
      BY <2>1 DEF AssembledStop, StopFor, Claims
  <2>3. record' = "succeeded"
    BY <1>2, <1>4 DEF Finalize
  <2> HIDE DEF stop
  <2>4. \/ ~calls /\ es = <<"text", "usage", stop>>
        \/ calls /\ es = <<"decided", "usage", stop>>
        \/ calls /\ es = <<"text", "decided", "usage", stop>>
    <3>1. CASE body = <<"text">>
      BY <3>1, Tuples
    <3>2. CASE body = <<"decided">>
      <4>1. <<"decided">> # <<"text">>
        OBVIOUS
      <4> QED
        BY <3>2, <4>1, Tuples
    <3>3. CASE body = <<"text", "decided">>
      <4>1. <<"text", "decided">> # <<"text">>
        OBVIOUS
      <4> QED
        BY <3>3, <4>1, FourTuple
    <3> QED
      BY <3>1, <3>2, <3>3
  <2> HIDE DEF calls, es
  <2>5. PICK n \in {3, 4} :
          /\ es \in Seq(Events) /\ n = Len(es) /\ es[n] \in Stops
          /\ \A i \in 1..(n - 1) : es[i] \notin Stops
          /\ \/ ~calls /\ {es[i] : i \in 1..n} = {"text", "usage", stop}
             \/ calls /\ {es[i] : i \in 1..n} = {"decided", "usage", stop}
             \/ calls /\ {es[i] : i \in 1..n} = {"text", "decided", "usage", stop}
    <3>1. CASE ~calls /\ es = <<"text", "usage", stop>>
      <4>1. {es[i] : i \in 1..3} = {"text", "usage", stop}
        BY <3>1
      <4>2. /\ es \in Seq(Events) /\ 3 = Len(es) /\ es[3] \in Stops
            /\ \A i \in 1..(3 - 1) : es[i] \notin Stops
        BY <2>2, <3>1 DEF Events, Stops
      <4> QED
        BY <3>1, <4>1, <4>2
    <3>2. CASE calls /\ es = <<"decided", "usage", stop>>
      <4>1. {es[i] : i \in 1..3} = {"decided", "usage", stop}
        BY <3>2
      <4>2. /\ es \in Seq(Events) /\ 3 = Len(es) /\ es[3] \in Stops
            /\ \A i \in 1..(3 - 1) : es[i] \notin Stops
        BY <2>2, <3>2 DEF Events, Stops
      <4> QED
        BY <3>2, <4>1, <4>2
    <3>3. CASE calls /\ es = <<"text", "decided", "usage", stop>>
      <4>1. {es[i] : i \in 1..4} = {"text", "decided", "usage", stop}
        BY <3>3
      <4>2. /\ es \in Seq(Events) /\ 4 = Len(es) /\ es[4] \in Stops
            /\ \A i \in 1..(4 - 1) : es[i] \notin Stops
        BY <2>2, <3>3 DEF Events, Stops
      <4> QED
        BY <3>3, <4>1, <4>2
    <3> QED
      BY <2>4, <3>1, <3>2, <3>3
  <2>6. Speaks({es[i] : i \in 1..n}, c, FALSE)
    BY <2>2, <2>5 DEF Speaks, Calls
  <2>7. Yield(es)
    BY <1>4 DEF es, stop, calls
  <2>8. /\ Speaks(seen \cup {es[i] : i \in 1..n}, claim', FALSE)
        /\ claim' \in Claims \cup {"none"}
    BY <1>2, <1>4, <2>6
  <2>9. n \in Nat \ {0}
    OBVIOUS
  <2> QED
    BY <1>1, <1>2, <1>4, <2>3, <2>5, <2>7, <2>8, <2>9, LastStep
<1> QED
  BY <1>3, <1>4 DEF Ladder

\* A rejected batch and the end of a turn.
LEMMA TurnEnds ==
  ASSUME StreamInv, BatchRejected \/ EndTurn
  PROVE  StreamInv'
<1> USE DEF At, consumerVars
<1>1. /\ pc \in {"batch", "tail"} /\ outq = <<>> /\ UNCHANGED <<sent, slot, refs, claim>>
  BY DEF BatchRejected, EndTurn
<1>2. /\ pc \in AtWork /\ record = "active" /\ sent /\ reservation = "open"
      /\ slot = "free" /\ refs \in {"none", "open", "closed"} /\ gone = FALSE
      /\ seen \cap Stops = {} /\ claim \in Claims \cup {"none"}
  BY <1>1 DEF StreamInv, Holds, Types, Terminal, Told, AtWork, Working, Streaming, Deciding
<1>3. CASE ErrorExit("stopInvalid") /\ EndTurn
  <2>1. "stopInvalid" \in Stops /\ reservation' \in {"committed", "estimated"}
    BY <1>3 DEF Stops, EndTurn
  <2> QED
    BY <1>1, <1>2, <1>3, <2>1, ErrorStep
<1>4. CASE BatchRejected
  <2>1. record' = "failed" /\ pc' = "rejected" /\ reservation' = reservation
    BY <1>2, <1>4 DEF BatchRejected, Finalize
  <2>2. \E es \in {<<"error", "stopInvalid">>, <<"text", "error", "stopInvalid">>} : Yield(es)
    <3>1. /\ <<>> \o <<"error", "stopInvalid">> = <<"error", "stopInvalid">>
          /\ <<"text">> \o <<"error", "stopInvalid">> = <<"text", "error", "stopInvalid">>
      <4>1. <<"error", "stopInvalid">> \in Seq({"error", "stopInvalid"})
        OBVIOUS
      <4>2. <<>> \o <<"error", "stopInvalid">> = <<"error", "stopInvalid">>
        BY <4>1, NothingBefore
      <4>3. <<"text">> \o <<"error", "stopInvalid">> = <<"text", "error", "stopInvalid">>
        BY Tuples
      <4> QED
        BY <4>2, <4>3
    <3>2. CASE text
      BY <1>4, <3>1, <3>2 DEF BatchRejected
    <3>3. CASE ~text
      BY <1>4, <3>1, <3>3 DEF BatchRejected
    <3> QED
      BY <3>2, <3>3
  <2>3. PICK es \in {<<"error", "stopInvalid">>, <<"text", "error", "stopInvalid">>} : Yield(es)
    BY <2>2
  <2>4. /\ es \in Seq(Events) /\ Len(es) \in Nat \ {0} /\ es[Len(es)] \in Stops
        /\ \A i \in 1..(Len(es) - 1) : es[i] \notin Stops
    <3>1. CASE es = <<"error", "stopInvalid">>
      BY <3>1 DEF Events, Stops
    <3>2. CASE es = <<"text", "error", "stopInvalid">>
      BY <3>2 DEF Events, Stops
    <3> QED
      BY <3>1, <3>2
  <2> QED
    BY <1>1, <1>2, <2>1, <2>3, <2>4, LastStep
<1>5. CASE EndTurn /\ ~ErrorExit("stopInvalid")
  <2>1. /\ record' = "succeeded" /\ pc' = "closing"
        /\ reservation' \in {"committed", "estimated"}
    BY <1>2, <1>5 DEF EndTurn, Finalize
  <2>2. \E es \in {<<StopReason>>, <<"usage", StopReason>>} : Yield(es)
    <3>1. /\ <<>> \o <<StopReason>> = <<StopReason>>
          /\ <<"usage">> \o <<StopReason>> = <<"usage", StopReason>>
      <4>1. <<StopReason>> \in Seq({StopReason})
        OBVIOUS
      <4> QED
        BY <4>1, Tuples, NothingBefore
    <3>2. CASE usage
      BY <1>5, <3>1, <3>2 DEF EndTurn
    <3>3. CASE ~usage
      BY <1>5, <3>1, <3>3 DEF EndTurn
    <3> QED
      BY <3>2, <3>3
  <2>3. PICK es \in {<<StopReason>>, <<"usage", StopReason>>} : Yield(es)
    BY <2>2
  <2>4. /\ es \in Seq(Events) /\ Len(es) \in Nat \ {0} /\ es[Len(es)] \in Stops
        /\ \A i \in 1..(Len(es) - 1) : es[i] \notin Stops
    <3>1. StopReason \in Stops /\ StopReason \in Events /\ "usage" \in Events \ Stops
      BY <1>2 DEF Events, Stops, StopReason, StopFor, Claims
    <3> HIDE DEF StopReason
    <3>2. CASE es = <<StopReason>>
      BY <3>1, <3>2
    <3>3. CASE es = <<"usage", StopReason>>
      <4>1. /\ es \in Seq(Events) /\ Len(es) = 2 /\ es[1] = "usage" /\ es[2] = StopReason
        BY <3>1, <3>3
      <4> QED
        BY <3>1, <4>1
    <3> QED
      BY <3>2, <3>3
  <2>5. {es[i] : i \in 1..Len(es)} \in {{StopReason}, {"usage", StopReason}}
    <3>1. CASE es = <<StopReason>>
      <4>1. {es[i] : i \in 1..Len(es)} = {StopReason}
        BY <3>1
      <4> QED
        BY <4>1
    <3>2. CASE es = <<"usage", StopReason>>
      <4>1. {es[i] : i \in 1..Len(es)} = {"usage", StopReason}
        BY <3>2
      <4> QED
        BY <4>1
    <3> QED
      BY <3>1, <3>2
  <2>6. Speaks(seen \cup {es[i] : i \in 1..Len(es)}, claim, TRUE)
    <3>1. seen \cap {"stopTool", "stopEnd"} = {}
      BY <1>2 DEF Stops
    <3>2. StopReason = "stopTool" => CallsSeen \/ claim = "tool"
      BY <1>2 DEF StopReason, StopFor, Claims
    <3>3. CallsSeen => StopReason = "stopTool"
      BY DEF StopReason
    <3>4. CallsSeen <=> Calls \cap seen # {}
      BY DEF CallsSeen, Calls
    <3>5. StopReason \notin Calls /\ "usage" \notin Calls
      BY <1>2 DEF StopReason, StopFor, Claims, Calls
    <3> HIDE DEF StopReason
    <3> QED
      BY <2>5, <3>1, <3>2, <3>3, <3>4, <3>5 DEF Speaks
  <2> QED
    BY <1>1, <1>2, <2>1, <2>3, <2>4, <2>6, LastStep
<1> QED
  BY <1>3, <1>4, <1>5

-----------------------------------------------------------------------------
\* The observation after a decision, and the generator's return.
LEMMA ClosingSteps ==
  ASSUME StreamInv, Observe \/ Return
  PROVE  StreamInv'
<1> USE DEF At, engineVars, consumerVars
<1>1. CASE pc' = "tail"
  <2>1. /\ pc \in {"unlock"} /\ UNCHANGED consumerVars
        /\ UNCHANGED <<record, claim, sent, reservation, slot, refs>>
    BY <1>1 DEF Observe, AfterDecision, Return
  <2>2. pc \in AtWork /\ pc' \in AtWork /\ reservation' # "released" /\ Types' /\ Holds'
    BY <1>1, <2>1
       DEF StreamInv, Types, Holds, AtWork, Working, Before, Streaming, Deciding
  <2> QED
    BY <2>1, <2>2, SilentStep
<1>2. CASE pc' \in {"closing", "ended"}
  <2>1. /\ pc \in {"rejected", "closing"} /\ outq = <<>> /\ UNCHANGED consumerVars
        /\ UNCHANGED <<record, claim, sent, reservation>>
        /\ slot' \in {slot, "free"} /\ refs' \in {refs, "closed"}
    BY <1>2 DEF Observe, AfterDecision, Return, Closes, Closed
  <2>2. pc' = "ended" => slot' # "held" /\ refs' # "open"
    BY <1>2 DEF Observe, AfterDecision, Return, Closes, Closed
  <2>3. Told' = Told
    BY <2>1 DEF Told
  <2>4. Types'
    BY <1>2, <2>1 DEF StreamInv, Types
  <2>5. Terminal'
    BY <1>2, <2>1, <2>3 DEF StreamInv, Terminal
  <2>6. Holds'
    BY <1>2, <2>2 DEF Holds, AtWork, Working, Before, Streaming, Deciding
  <2>7. Accounts'
    BY <2>1, <2>3 DEF StreamInv, Accounts, Direct
  <2> QED
    BY <2>4, <2>5, <2>6, <2>7 DEF StreamInv
<1> QED
  BY <1>1, <1>2 DEF Observe, AfterDecision, Return

\* The consumer takes an event: what it took and what it may still take stay
\* the same together, and a stop is the last.
LEMMA DeliverStep ==
  ASSUME StreamInv, Deliver
  PROVE  StreamInv'
<1> DEFINE e == Head(outq)
           leave == req.consumer = "server" /\ e \in Stops
<1>1. /\ outq # <<>> /\ outq \in Seq(Events) /\ seen' = seen \cup {e}
      /\ stops' = (IF e \in Stops THEN stops + 1 ELSE stops)
      /\ late' = (late \/ stops > 0)
      /\ outq' = (IF leave THEN <<>> ELSE Tail(outq))
      /\ pc' = (IF leave THEN "ended" ELSE pc)
      /\ UNCHANGED <<reservation, record, claim, gone, sent>>
  BY DEF Deliver, StreamInv, Types
<1>2. /\ slot' \in {slot, "free"} /\ refs' \in {refs, "closed"}
      /\ leave => slot' # "held" /\ refs' # "open"
      /\ ~leave => slot' = slot /\ refs' = refs
  BY DEF Deliver, Closes, Closed
<1>3. /\ Len(outq) \in Nat \ {0} /\ e = outq[1] /\ e \in Events
      /\ Tail(outq) \in Seq(Events) /\ Len(Tail(outq)) = Len(outq) - 1
      /\ \A i \in 1..(Len(outq) - 1) : Tail(outq)[i] = outq[i + 1]
      /\ DOMAIN outq = 1..Len(outq) /\ DOMAIN Tail(outq) = 1..(Len(outq) - 1)
  BY <1>1
<1>4. stops = 0 /\ gone = FALSE /\ pc \notin {"idle", "ended"} /\ Stops \cap seen = {}
  BY <1>1 DEF StreamInv, Types, Terminal
<1>5. e \in Stops => Tail(outq) = <<>>
  <2>1. e \in Stops => Len(outq) = 1
    BY <1>3 DEF StreamInv, Terminal
  <2> QED
    BY <1>3, <2>1
<1>6. outq' = Tail(outq) /\ outq' \in Seq(Events)
  BY <1>1, <1>3, <1>5
<1> HIDE DEF e, leave
<1>7. Told' = Told
  <2>1. {outq[i] : i \in DOMAIN outq} = {e} \cup {Tail(outq)[i] : i \in DOMAIN Tail(outq)}
    <3>1. ASSUME NEW i \in DOMAIN outq
          PROVE  outq[i] \in {e} \cup {Tail(outq)[j] : j \in DOMAIN Tail(outq)}
      <4>1. CASE i = 1
        BY <1>3, <4>1
      <4>2. CASE i # 1
        <5>1. i - 1 \in DOMAIN Tail(outq) /\ Tail(outq)[i - 1] = outq[i]
          BY <1>3, <4>2
        <5> QED
          BY <5>1
      <4> QED
        BY <4>1, <4>2
    <3>2. ASSUME NEW j \in DOMAIN Tail(outq)
          PROVE  Tail(outq)[j] \in {outq[i] : i \in DOMAIN outq}
      <4>1. j + 1 \in DOMAIN outq /\ Tail(outq)[j] = outq[j + 1]
        BY <1>3
      <4> QED
        BY <4>1
    <3>3. e \in {outq[i] : i \in DOMAIN outq}
      <4>1. 1 \in DOMAIN outq
        BY <1>3
      <4> QED
        BY <1>3, <4>1
    <3> QED
      BY <3>1, <3>2, <3>3
  <2> QED
    BY <1>1, <1>6, <2>1 DEF Told
<1>8. Types'
  BY <1>1, <1>2, <1>3, <1>4, <1>6 DEF StreamInv, Types
<1>9. Terminal'
  <2>1. \A i \in DOMAIN outq' : outq'[i] \in Stops => i = Len(outq')
    BY <1>3, <1>6 DEF StreamInv, Terminal
  <2>2. stops' = 1 => outq' = <<>>
    BY <1>1, <1>4, <1>5, <1>6
  <2>3. stops' = 1 <=> Stops \cap seen' # {}
    BY <1>1, <1>4
  <2>4. Told \cap Stops # {} => pc \in {"closing", "rejected", "ended"} /\ record # "active"
    BY DEF StreamInv, Terminal
  <2>5. pc' \in {"idle", "ended"} => outq' = <<>>
    BY <1>1, <1>4
  <2> QED
    BY <1>1, <1>4, <1>7, <2>1, <2>2, <2>3, <2>4, <2>5 DEF StreamInv, Terminal
<1>10. Holds'
  <2>1. CASE leave
    BY <1>1, <1>2, <2>1 DEF Holds, AtWork, Working, Before, Streaming, Deciding
  <2>2. CASE ~leave
    <3>1. pc' = pc /\ slot' = slot /\ refs' = refs /\ UNCHANGED <<reservation, record, sent>>
      BY <1>1, <1>2, <2>2
    <3> QED
      BY <1>1, <3>1 DEF StreamInv, Holds
  <2> QED
    BY <2>1, <2>2
<1>11. Accounts'
  BY <1>1, <1>7 DEF StreamInv, Accounts, Direct
<1> QED
  BY <1>8, <1>9, <1>10, <1>11 DEF StreamInv

\* The client goes away, and the next request begins.
LEMMA OuterSteps ==
  ASSUME StreamInv, Start \/ Disconnect
  PROVE  StreamInv'
<1>1. CASE Start
  <2>1. Told' = {}
    BY <1>1 DEF Start, Told
  <2>2. Types'
    <3>1. <<>> \in Seq(Events)
      OBVIOUS
    <3> QED
      BY <1>1, <3>1 DEF Start, Types, Working, StreamInv
  <2>3. Terminal'
    BY <1>1, <2>1 DEF Start, Terminal
  <2>4. Holds' /\ Accounts'
    BY <1>1, <2>1 DEF Start, Holds, Accounts, Direct, AtWork, Working, Before, Streaming, Deciding
  <2> QED
    BY <2>2, <2>3, <2>4 DEF StreamInv
<1>2. CASE Disconnect
  <2>1. /\ pc \notin {"idle", "ended"} /\ gone' = TRUE /\ pc' = "ended" /\ outq' = <<>>
        /\ UNCHANGED <<seen, stops, late, claim, reservation, sent>>
        /\ record' \in {record, "cancelled"}
        /\ slot' \in {slot, "free"} /\ refs' \in {refs, "closed"}
        /\ slot' # "held" /\ refs' # "open"
    BY <1>2 DEF Disconnect, Finalize, Closes, Closed, Working
  <2>2. Told' = seen /\ seen \subseteq Told
    BY <2>1 DEF Told
  <2>3. Types'
    <3>1. <<>> \in Seq(Events)
      OBVIOUS
    <3> QED
      BY <2>1, <3>1 DEF StreamInv, Types
  <2>4. Terminal'
    BY <2>1, <2>2 DEF StreamInv, Terminal
  <2>5. Holds'
    BY <2>1 DEF Holds, AtWork, Working, Before, Streaming, Deciding
  <2>6. Accounts'
    BY <2>1 DEF StreamInv, Accounts, Direct
  <2> QED
    BY <2>3, <2>4, <2>5, <2>6 DEF StreamInv
<1> QED
  BY <1>1, <1>2

-----------------------------------------------------------------------------
LEMMA StreamInductive ==
  /\ Init => StreamInv
  /\ StreamInv /\ [Next]_vars => StreamInv'
<1>1. Init => StreamInv
  <2> SUFFICES ASSUME Init
               PROVE  StreamInv
    OBVIOUS
  <2>1. Told = {} /\ <<>> \in Seq(Events)
    BY DEF Init, Told
  <2>2. Types
    BY <2>1 DEF Init, Types
  <2>4. Terminal
    BY <2>1 DEF Init, Terminal
  <2>3. Holds /\ Accounts
    BY <2>1 DEF Init, Holds, Accounts, Direct, AtWork, Working, Before, Streaming, Deciding
  <2> QED
    BY <2>2, <2>3, <2>4 DEF StreamInv
<1>2. StreamInv /\ [Next]_vars => StreamInv'
  <2> SUFFICES ASSUME StreamInv, [Next]_vars
               PROVE  StreamInv'
    OBVIOUS
  <2>1. CASE UNCHANGED vars \/ Rest
    <3>1. UNCHANGED vars
      BY <2>1 DEF Rest
    <3>2. Told' = Told
      BY <3>1 DEF vars, consumerVars, Told
    <3> QED
      BY <3>1, <3>2
         DEF StreamInv, Types, Terminal, Holds, Accounts, Direct, vars, engineVars, consumerVars
  <2>2. CASE Start \/ Disconnect
    BY <2>2, OuterSteps
  <2>3. CASE Deliver
    BY <2>3, DeliverStep
  <2>4. CASE Engine
    BY <2>4, QuietSteps, ErrorSteps, FrameSteps, OfferSteps, LadderStep, TurnEnds, ClosingSteps
       DEF Engine
  <2> QED
    BY <2>1, <2>2, <2>3, <2>4 DEF Next
<1> QED
  BY <1>1, <1>2

LEMMA StreamInvariant == Spec => []StreamInv
BY StreamInductive, PTL DEF Spec

\* When the server closes the generator at message_stop, the record is final
\* and a stream that succeeded has been charged for.
THEOREM AccountedBeforeStop == Spec => []AccountedAtStop
<1>1. StreamInv => AccountedAtStop
  BY DEF StreamInv, Types, Terminal, Accounts, AccountedAtStop, Told
<1> QED
  BY <1>1, StreamInvariant, PTL

\* One message_stop at most, nothing after it, and one after every error.
THEOREM OneStopPerStream == Spec => []OneTerminalEvent
<1>1. StreamInv => OneTerminalEvent
  BY DEF StreamInv, Types, Terminal, OneTerminalEvent, Told
<1> QED
  BY <1>1, StreamInvariant, PTL

\* What was sent is charged, what was never sent is given back.
THEOREM StreamsReconcileHonestly == Spec => []ReservationHonest
<1>1. StreamInv => ReservationHonest
  BY DEF StreamInv, Types, Accounts, ReservationHonest, Direct
<1> QED
  BY <1>1, StreamInvariant, PTL

\* Slot and ref registry are returned on every way out.
THEOREM StreamsReturnResources == Spec => []ResourcesReturned
<1>1. StreamInv => ResourcesReturned
  BY DEF StreamInv, Holds, Deciding, ResourcesReturned
<1> QED
  BY <1>1, StreamInvariant, PTL

\* A stream that ends well and handed out calls never says end_turn, on the
\* direct path always tool_call; without calls only the backend's own claim
\* makes it say so (_assemble_response, and the tail of run_send_stream).
THEOREM StopsSpeakTrue == Spec => []StopReasonTruthful
<1>1. StreamInv => StopReasonTruthful
  <2> SUFFICES ASSUME StreamInv, stops > 0, record = "succeeded", ~gone
               PROVE  Speaks(seen, claim, Direct)
    BY DEF StopReasonTruthful, Speaks, Calls, CallsSeen
  <2>1. outq = <<>>
    BY DEF StreamInv, Types, Terminal
  <2>2. Told = seen
    BY <2>1 DEF Told
  <2> QED
    BY <2>2 DEF StreamInv, Accounts
<1> QED
  BY <1>1, StreamInvariant, PTL

-----------------------------------------------------------------------------
(* Type correctness.  The completed calls are listed in key order: that the *)
(* accumulator's list is one of calls rests on every place of that order    *)
(* having a key.                                                            *)

Done == [key : Keys, named : BOOLEAN, ok : BOOLEAN]
Below(ks, k) == {q \in ks : q < k}

\* In a finite set of numbers some number has exactly i - 1 smaller ones.
LEMMA Ranked ==
  ASSUME NEW ks \in SUBSET Nat, IsFiniteSet(ks), NEW i \in 1..Cardinality(ks)
  PROVE  \E k \in ks : Cardinality(Below(ks, k)) = i - 1
<1> DEFINE n == Cardinality(ks)
           T == 0..(n - 1)
           f == [k \in ks |-> Cardinality(Below(ks, k))]
<1>1. n \in Nat \ {0}
  BY FS_CardinalityType
<1>2. ASSUME NEW k \in ks
      PROVE  IsFiniteSet(Below(ks, k)) /\ Cardinality(Below(ks, k)) \in T
  <2>1. Below(ks, k) \in SUBSET ks /\ Below(ks, k) # ks
    BY DEF Below
  <2>2. /\ IsFiniteSet(Below(ks, k)) /\ Cardinality(Below(ks, k)) <= n
        /\ Cardinality(Below(ks, k)) # n
    BY <2>1, FS_Subset
  <2>3. Cardinality(Below(ks, k)) \in Nat
    BY <2>2, FS_CardinalityType
  <2> QED
    BY <1>1, <2>2, <2>3
<1>3. ASSUME NEW x \in ks, NEW y \in ks, x < y
      PROVE  f[x] # f[y]
  <2>a. x \in Nat /\ y \in Nat /\ \A q \in ks : q \in Nat
    OBVIOUS
  <2>b. \A q \in ks : q < x => q < y
    BY <1>3, <2>a
  <2>c. x \in Below(ks, y) /\ x \notin Below(ks, x)
    BY <1>3, <2>a DEF Below
  <2>1. Below(ks, x) \in SUBSET Below(ks, y) /\ Below(ks, x) # Below(ks, y)
    BY <2>b, <2>c DEF Below
  <2>2. Cardinality(Below(ks, y)) # Cardinality(Below(ks, x))
    BY <1>2, <2>1, FS_Subset
  <2> QED
    BY <2>2
<1>4. f \in Injection(ks, T)
  <2>1. f \in [ks -> T]
    BY <1>2
  <2>2. \A x, y \in ks : f[x] = f[y] => x = y
    <3> SUFFICES ASSUME NEW x \in ks, NEW y \in ks, x # y
                 PROVE  f[x] # f[y]
      OBVIOUS
    <3>1. x < y \/ y < x
      OBVIOUS
    <3> QED
      BY <1>3, <3>1
  <2> HIDE DEF f
  <2> QED
    BY <2>1, <2>2 DEF Injection, IsInjective
<1>5. IsFiniteSet(T) /\ Cardinality(T) = n
  <2>1. 0 \in Int /\ n - 1 \in Int /\ ~(0 > n - 1) /\ n - 1 - 0 + 1 = n
    BY <1>1
  <2> HIDE DEF n
  <2> QED
    BY <2>1, FS_Interval
<1>6. f \in Surjection(ks, T)
  BY <1>4, <1>5, FS_Injection
<1>7. i - 1 \in T
  BY <1>1
<1>8. PICK k \in ks : f[k] = i - 1
  <2> HIDE DEF f, T
  <2> QED
    BY <1>6, <1>7 DEF Surjection
<1> QED
  BY <1>8

FragmentInv == FragmentTypeOK /\ IsFiniteSet(Open)

\* The calls that leave the accumulator, in key order.
LEMMA MovedAreCalls ==
  ASSUME FragmentInv, NEW ks \in SUBSET Open, NEW ok \in BOOLEAN
  PROVE  Moved(ks, ok) \in Seq(Done)
<1> DEFINE at(i) == CHOOSE k \in ks : Cardinality({q \in ks : q < k}) = i - 1
           n == Cardinality(ks)
<1>1. IsFiniteSet(ks) /\ ks \in SUBSET Nat /\ ks \in SUBSET Keys
  BY FS_Subset, FragmentAssumption DEF FragmentInv, FragmentTypeOK
<1>2. n \in Nat
  BY <1>1, FS_CardinalityType
<1>3. ASSUME NEW i \in 1..n
      PROVE  at(i) \in ks
  BY <1>1, Ranked DEF Below
<1>4. ASSUME NEW i \in 1..n
      PROVE  [key |-> at(i), named |-> pending[at(i)].named, ok |-> ok] \in Done
  <2>1. at(i) \in Open /\ at(i) \in Keys
    BY <1>1, <1>3
  <2> HIDE DEF at
  <2>2. pending[at(i)].named \in BOOLEAN
    BY <2>1 DEF FragmentInv, FragmentTypeOK
  <2> QED
    BY <2>1, <2>2 DEF Done
<1>5. Moved(ks, ok) = [i \in 1..n |-> [key |-> at(i), named |-> pending[at(i)].named, ok |-> ok]]
  BY DEF Moved
<1> HIDE DEF at, n
<1> QED
  BY <1>2, <1>4, <1>5

LEMMA MoveKeepsFragments ==
  ASSUME FragmentInv, NEW ks \in SUBSET Open, NEW ok \in BOOLEAN, MoveCalls(ks, ok)
  PROVE  FragmentInv'
<1>1. completed' \in Seq(Done)
  <2>1. completed \in Seq(Done)
    BY DEF FragmentInv, FragmentTypeOK, Done
  <2>2. completed' = completed \o Moved(ks, ok)
    BY DEF MoveCalls
  <2> QED
    BY <2>1, <2>2, MovedAreCalls
<1>2. pending' = [k \in Open \ ks |-> pending[k]] /\ Open' = Open \ ks
  BY DEF MoveCalls, Open
<1>3. Open' \in SUBSET Open /\ IsFiniteSet(Open) /\ Cardinality(Open) <= MaxCalls
  BY <1>2 DEF FragmentInv, FragmentTypeOK
<1>4. IsFiniteSet(Open') /\ Cardinality(Open') <= MaxCalls
  <2>1. IsFiniteSet(Open') /\ Cardinality(Open') <= Cardinality(Open)
    BY <1>3, FS_Subset
  <2>2. Cardinality(Open) \in Nat /\ Cardinality(Open') \in Nat
    BY <1>3, <2>1, FS_CardinalityType
  <2> QED
    BY <1>3, <2>1, <2>2, FragmentAssumption
<1>5. pending' \in [Open' -> [named : BOOLEAN, args : 0..MaxArgs]] /\ Open' \subseteq Keys
  BY <1>2 DEF FragmentInv, FragmentTypeOK
<1> QED
  BY <1>1, <1>4, <1>5 DEF FragmentInv, FragmentTypeOK, Done

\* A fragment that passes the two limits of the accumulator keeps them.
LEMMA FeedKeepsFragments ==
  ASSUME FragmentInv, NEW k \in Keys, NEW named \in BOOLEAN, NEW bytes \in 0..1,
         ~TooManyCalls(k), bytes > 0 => ~TooLong(k, bytes), Feed(k, named, bytes)
  PROVE  FragmentInv'
<1>1. /\ pending' = [q \in Open \cup {k} |->
            IF q = k THEN [named |-> Call(k).named \/ named, args |-> Call(k).args + bytes]
                     ELSE pending[q]]
      /\ Open' = Open \cup {k} /\ completed' = completed
  BY DEF Feed, Open
<1>2. Call(k) \in [named : BOOLEAN, args : 0..MaxArgs]
  BY FragmentAssumption DEF Call, FragmentInv, FragmentTypeOK
<1>3. [named |-> Call(k).named \/ named, args |-> Call(k).args + bytes]
        \in [named : BOOLEAN, args : 0..MaxArgs]
  <2>1. Call(k).args + bytes \in 0..MaxArgs
    BY <1>2, FragmentAssumption DEF TooLong
  <2> QED
    BY <1>2, <2>1
<1>4. pending' \in [Open' -> [named : BOOLEAN, args : 0..MaxArgs]] /\ Open' \subseteq Keys
  BY <1>1, <1>3 DEF FragmentInv, FragmentTypeOK
<1>5. IsFiniteSet(Open') /\ Cardinality(Open') <= MaxCalls
  <2>1. IsFiniteSet(Open) /\ Cardinality(Open) <= MaxCalls
    BY DEF FragmentInv, FragmentTypeOK
  <2>2. Cardinality(Open) \in Nat
    BY <2>1, FS_CardinalityType
  <2>3. /\ IsFiniteSet(Open')
        /\ Cardinality(Open') = IF k \in Open THEN Cardinality(Open) ELSE Cardinality(Open) + 1
    BY <1>1, <2>1, FS_AddElement
  <2> QED
    BY <2>1, <2>2, <2>3, FragmentAssumption DEF TooManyCalls
<1> QED
  BY <1>1, <1>4, <1>5 DEF FragmentInv, FragmentTypeOK

\* A new stream starts with an empty accumulator.
LEMMA NoFragments ==
  ASSUME pending = <<>>, completed = <<>>
  PROVE  FragmentInv
<1>1. Open = {}
  BY DEF Open
<1>2. IsFiniteSet(Open) /\ Cardinality(Open) = 0
  BY <1>1, FS_EmptySet
<1> QED
  BY <1>1, <1>2, FragmentAssumption DEF FragmentInv, FragmentTypeOK

-----------------------------------------------------------------------------
\* What TypeOK adds to StreamInv.  The malformed frames that are one too many
\* end the stream with the step that counts them.
Forms ==
  /\ FragmentInv
  /\ req \in Requests /\ streams \in 0..MaxStreams /\ safe \in BOOLEAN
  /\ frame \in [complete : BOOLEAN, error : BOOLEAN]
  /\ events \in 0..MaxEvents /\ malformed \in 0..(MaxMalformed + 1)
  /\ malformed > MaxMalformed => pc \in {"closing", "ended"}
  /\ text \in BOOLEAN /\ usage \in BOOLEAN
  /\ decided \in {"none", "accepted", "partial", "rejected"}

LEMMA FragmentsStay ==
  ASSUME FragmentInv, UNCHANGED fragmentVars
  PROVE  FragmentInv'
BY DEF FragmentInv, FragmentTypeOK, fragmentVars, Open

\* Most steps leave all of it alone, and none leads back from the end.
LEMMA FormsStay ==
  ASSUME Forms,
         UNCHANGED <<req, fragmentVars, streams, safe, frame, events, malformed, text, usage, decided>>,
         pc \in {"closing", "ended"} => pc' \in {"closing", "ended"}
  PROVE  Forms'
<1>1. FragmentInv'
  BY FragmentsStay DEF Forms
<1> QED
  BY <1>1 DEF Forms

LEMMA PlainSteps ==
  ASSUME Forms,
         \/ Raise \/ Prepare \/ Dispatch \/ Ladder \/ GateRefuses \/ Gate \/ Exhausted \/ Reserve
         \/ NotAdmitted \/ Admitted \/ Refused \/ Opened \/ PrivateFails \/ PrivateText
         \/ PrivateCalls \/ EndTurn \/ Return \/ Deliver \/ Disconnect
  PROVE  Forms'
<1> USE DEF At, Working, ErrorExit, FailWith, tupleVars, engineVars
<1> DEFINE Stays ==
      /\ UNCHANGED <<req, fragmentVars, streams, safe, frame, events, malformed, text, usage, decided>>
      /\ pc \in {"closing", "ended"} => pc' \in {"closing", "ended"}
<1>1. CASE Raise \/ Prepare \/ Dispatch \/ Ladder
  <2>1. Stays
    BY <1>1 DEF Raise, Prepare, Dispatch, Ladder
  <2> QED
    BY <2>1, FormsStay
<1>2. CASE GateRefuses \/ Gate \/ Exhausted \/ Reserve
  <2>1. Stays
    BY <1>2 DEF GateRefuses, Gate, Exhausted, Reserve
  <2> QED
    BY <2>1, FormsStay
<1>3. CASE NotAdmitted \/ Admitted \/ Refused \/ Opened
  <2>1. Stays
    BY <1>3 DEF NotAdmitted, Admitted, Refused, Opened
  <2> QED
    BY <2>1, FormsStay
<1>4. CASE PrivateFails \/ PrivateText \/ PrivateCalls
  <2>1. Stays
    BY <1>4 DEF PrivateFails, PrivateText, PrivateCalls
  <2> QED
    BY <2>1, FormsStay
<1>5. CASE EndTurn \/ Return \/ Deliver \/ Disconnect
  <2>1. Stays
    BY <1>5 DEF EndTurn, Return, Deliver, Disconnect
  <2> QED
    BY <2>1, FormsStay
<1> QED
  BY <1>1, <1>2, <1>3, <1>4, <1>5

\* A next stream starts afresh; the batch and the observation after it leave
\* what the tuple's next stream finds.
LEMMA TupleSteps ==
  ASSUME Forms, Start \/ BatchAccepted \/ BatchRejected \/ Observe
  PROVE  Forms'
<1>1. CASE Start
  <2>1. FragmentInv'
    <3>1. pending' = <<>> /\ completed' = <<>>
      BY <1>1 DEF Start
    <3>2. Open' = {}
      BY <3>1 DEF Open
    <3>3. IsFiniteSet(Open') /\ Cardinality(Open') = 0
      BY <3>2, FS_EmptySet
    <3> QED
      BY <3>1, <3>2, <3>3, FragmentAssumption DEF FragmentInv, FragmentTypeOK
  <2>2. req' \in Requests
    BY <1>1 DEF Start, Forms, Requests
  <2>3. streams' \in 0..MaxStreams
    BY <1>1, StreamAssumption DEF Start, Forms
  <2>4. /\ frame' \in [complete : BOOLEAN, error : BOOLEAN]
        /\ events' = 0 /\ malformed' = 0 /\ text' = FALSE /\ usage' = FALSE
        /\ UNCHANGED <<safe, decided>>
    BY <1>1 DEF Start
  <2>5. 0 \in 0..MaxEvents /\ 0 \in 0..(MaxMalformed + 1) /\ ~(0 > MaxMalformed)
    BY StreamAssumption
  <2> QED
    BY <2>1, <2>2, <2>3, <2>4, <2>5 DEF Forms
<1>2. CASE BatchAccepted \/ BatchRejected
  <2>1. FragmentInv'
    BY <1>2, FragmentsStay DEF BatchAccepted, BatchRejected, Forms
  <2> QED
    BY <1>2, <2>1, StreamAssumption
       DEF BatchAccepted, BatchRejected, Forms, engineVars, At
<1>3. CASE Observe
  <2>1. FragmentInv'
    BY <1>3, FragmentsStay DEF Observe, Forms
  <2> QED
    BY <1>3, <2>1 DEF Observe, Forms, engineVars
<1> QED
  BY <1>1, <1>2, <1>3

\* Frames and the events decoded from them.
LEMMA FrameForms ==
  ASSUME Forms,
         \/ Malformed \/ Frame \/ TextDelta \/ Fragment \/ CallsComplete \/ UsageUpdate
         \/ StreamComplete \/ StreamError
  PROVE  Forms'
<1> USE StreamAssumption DEF At
<1>1. events < MaxEvents /\ events' = events + 1
  BY DEF Malformed, Frame, TextDelta, Fragment, CallsComplete, UsageUpdate, StreamComplete,
         StreamError, Decoded
<1>2. events' \in 0..MaxEvents
  BY <1>1 DEF Forms
<1>3. CASE Malformed
  <2>1. /\ pc = "frames" /\ malformed' = malformed + 1
        /\ UNCHANGED <<req, tupleVars, frame, text, usage>>
        /\ malformed' > MaxMalformed => pc' \in {"closing", "ended"}
    BY <1>3 DEF Malformed, Intolerable, ErrorExit, FailWith, Forms
  <2>2. malformed' \in 0..(MaxMalformed + 1)
    BY <2>1 DEF Forms
  <2>3. FragmentInv'
    <3>1. FailAll \/ UNCHANGED fragmentVars
      BY <1>3 DEF Malformed, fragmentVars
    <3>2. CASE FailAll
      BY <3>2, MoveKeepsFragments DEF FailAll, Forms
    <3>3. CASE UNCHANGED fragmentVars
      BY <3>3, FragmentsStay DEF Forms
    <3> QED
      BY <3>1, <3>2, <3>3
  <2> QED
    BY <1>2, <2>1, <2>2, <2>3 DEF Forms, tupleVars
<1>4. CASE Frame
  <2>1. FragmentInv'
    BY <1>4, FragmentsStay DEF Frame, Forms
  <2> QED
    BY <1>2, <1>4, <2>1 DEF Frame, Forms, tupleVars
<1>5. CASE TextDelta \/ UsageUpdate \/ StreamComplete \/ StreamError
  <2>1. FragmentInv'
    BY <1>5, FragmentsStay DEF TextDelta, UsageUpdate, StreamComplete, StreamError, Forms
  <2> QED
    BY <1>2, <1>5, <2>1
       DEF TextDelta, UsageUpdate, StreamComplete, StreamError, Decoded, Forms, tupleVars
<1>6. CASE Fragment
  <2>1. FragmentInv'
    <3>1. PICK k \in Keys, named \in BOOLEAN, bytes \in 0..1 :
            /\ ~TooManyCalls(k)
            /\ IF bytes > 0 /\ TooLong(k, bytes) THEN Feed(k, named, 0) ELSE Feed(k, named, bytes)
      BY <1>6 DEF Fragment
    <3>2. CASE bytes > 0 /\ TooLong(k, bytes)
      <4>1. Feed(k, named, 0) /\ 0 \in 0..1 /\ ~(0 > 0)
        BY <3>1, <3>2
      <4> QED
        BY <3>1, <4>1, FeedKeepsFragments DEF Forms
    <3>3. CASE ~(bytes > 0 /\ TooLong(k, bytes))
      <4>1. Feed(k, named, bytes)
        BY <3>1, <3>3
      <4> QED
        BY <3>1, <3>3, <4>1, FeedKeepsFragments DEF Forms
    <3> QED
      BY <3>2, <3>3
  <2>2. pc = "frame" /\ UNCHANGED <<req, tupleVars, frame, malformed, text, usage>>
    BY <1>6 DEF Fragment, Decoded
  <2> QED
    BY <1>2, <2>1, <2>2 DEF Forms, tupleVars
<1>7. CASE CallsComplete
  <2>1. FragmentInv'
    <3>1. CompleteAll \/ \E k \in Keys : CompleteCall(k)
      BY <1>7 DEF CallsComplete
    <3>2. CASE CompleteAll
      BY <3>2, MoveKeepsFragments DEF CompleteAll, Forms
    <3>3. ASSUME NEW k \in Keys, CompleteCall(k)
          PROVE  FragmentInv'
      <4>1. {k} \cap Open \in SUBSET Open
        OBVIOUS
      <4> QED
        BY <3>3, <4>1, MoveKeepsFragments DEF CompleteCall, Forms
    <3> QED
      BY <3>1, <3>2, <3>3
  <2>2. pc = "frame" /\ UNCHANGED <<req, tupleVars, frame, malformed, text, usage>>
    BY <1>7 DEF CallsComplete, Decoded
  <2> QED
    BY <1>2, <2>1, <2>2 DEF Forms, tupleVars
<1> QED
  BY <1>3, <1>4, <1>5, <1>6, <1>7

\* The end of a frame or of the turn.
LEMMA TurnForms ==
  ASSUME Forms, FrameEnds \/ StreamRunsOut \/ Turn
  PROVE  Forms'
<1> USE DEF At
<1>1. CASE FrameEnds \/ StreamRunsOut
  <2>1. FragmentInv'
    <3>1. CompleteAll \/ UNCHANGED fragmentVars
      BY <1>1 DEF FrameEnds, StreamRunsOut, Finish
    <3>2. CASE CompleteAll
      BY <3>2, MoveKeepsFragments DEF CompleteAll, Forms
    <3>3. CASE UNCHANGED fragmentVars
      BY <3>3, FragmentsStay DEF Forms
    <3> QED
      BY <3>1, <3>2, <3>3
  <2>2. pc \in {"frame", "frames"} /\ UNCHANGED <<req, tupleVars, frame, events, malformed, text, usage>>
    BY <1>1 DEF FrameEnds, StreamRunsOut
  <2> QED
    BY <2>1, <2>2 DEF Forms, tupleVars
<1>2. CASE Turn
  <2>1. pc = "turn" /\ completed' = <<>> /\ UNCHANGED <<req, pending, engineVars, tupleVars>>
    BY <1>2 DEF Turn
  <2>2. FragmentInv'
    BY <2>1 DEF FragmentInv, FragmentTypeOK, Forms, Open
  <2> QED
    BY <2>1, <2>2 DEF Forms, tupleVars, engineVars
<1> QED
  BY <1>1, <1>2

LEMMA FormsInductive ==
  /\ Init => Forms
  /\ Forms /\ [Next]_vars => Forms'
<1>1. ASSUME Init
      PROVE  Forms
  <2>1. FragmentInv
    BY <1>1, NoFragments DEF Init, FragmentInit
  <2>2. /\ req \in Requests /\ streams = 0 /\ safe = FALSE /\ decided = "none"
        /\ frame \in [complete : BOOLEAN, error : BOOLEAN]
        /\ events = 0 /\ malformed = 0 /\ text = FALSE /\ usage = FALSE
    BY <1>1 DEF Init
  <2>3. /\ 0 \in 0..MaxEvents /\ 0 \in 0..(MaxMalformed + 1) /\ ~(0 > MaxMalformed)
        /\ 0 \in 0..MaxStreams
    BY StreamAssumption
  <2> QED
    BY <2>1, <2>2, <2>3 DEF Forms
<1>2. ASSUME Forms, [Next]_vars
      PROVE  Forms'
  <2>1. CASE UNCHANGED vars \/ Rest
    <3>1. UNCHANGED vars
      BY <2>1 DEF Rest
    <3> QED
      BY <1>2, <3>1, FormsStay DEF vars, engineVars, tupleVars
  <2>2. CASE Start
    BY <1>2, <2>2, TupleSteps
  <2>3. CASE Deliver \/ Disconnect
    BY <1>2, <2>3, PlainSteps
  <2>4. CASE Engine
    BY <1>2, <2>4, PlainSteps, TupleSteps, FrameForms, TurnForms DEF Engine
  <2> QED
    BY <1>2, <2>1, <2>2, <2>3, <2>4 DEF Next
<1> QED
  BY <1>1, <1>2

\* Types of the engine and of the accumulator: at all times its open calls and
\* their arguments are within its limits, and the malformed frame that is one
\* too many is the last (coordinator.py, start_call, feed_arguments).
THEOREM StreamTypeCorrect == Spec => []TypeOK
<1>1. ASSUME StreamInv, Forms
      PROVE  TypeOK
  <2>1. FragmentTypeOK
    BY <1>1 DEF Forms, FragmentInv
  <2>2. stops \in {0, 1} /\ late = FALSE
    BY <1>1 DEF StreamInv, Types
  <2>3. stops \in Nat
    BY <2>2
  <2>4. late \in BOOLEAN
    BY <2>2
  <2> QED
    BY <1>1, <2>1, <2>3, <2>4 DEF StreamInv, Types, Forms, TypeOK
<1> QED
  BY <1>1, StreamInvariant, FormsInductive, PTL DEF Spec
=============================================================================
