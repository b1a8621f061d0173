---------------------------- MODULE StreamEngine ----------------------------
(***************************************************************************)
(* Streaming requests of one serving tuple, one after the other:           *)
(* Gateway.handle_stream, the choice between the buffered ladder and the   *)
(* direct stream, StreamEngine.run_send_stream, and the consumer.  The     *)
(* engine is an async generator: what it yields waits in outq, the code    *)
(* after a yield runs only when the consumer takes the event and asks for  *)
(* more.  The server's consumer stops at message_stop and closes the       *)
(* generator; other consumers of the API drain it.  The ladder is          *)
(* RequestExecution's subject and answers here in one step, the ledger is  *)
(* AttemptBudget's: here a reservation only has a status.                  *)
(***************************************************************************)
EXTENDS ToolFragments

CONSTANTS
  MaxMalformed,   \* config.max_malformed_stream_frames
  MaxEvents,      \* frames and decoded events of a stream (bound)
  MaxStreams      \* streams one after the other (bound)

ASSUME StreamAssumption == MaxMalformed \in Nat /\ MaxEvents \in Nat /\ MaxStreams \in Nat

VARIABLES
  pc,           \* where the task of handle_stream stands
  req,          \* the stream's request, invocation and consumer
  streams,      \* streams started so far
  safe,         \* StreamSafetyCache holds the tuple
  frame,        \* of the frame being decoded: [complete, error]
  events,       \* frames and decoded events so far
  malformed,    \* malformed_frame_count
  text,         \* buffered_text_parts is not empty
  usage,        \* final_usage is not None
  claim,        \* final_stop_reason, on the ladder decoded.stop_reason
  reservation,  \* of the stream's generation
  slot,         \* the admission slot
  refs,         \* the RequestRefRegistry
  record,       \* InteropRequestExecution.state
  outq,         \* events yielded and not yet taken
  seen,         \* ghost: kinds of event the consumer took
  stops,        \* ghost: message_stop events among them
  late,         \* ghost: it took an event after a message_stop
  gone,         \* ghost: the client went away
  sent,         \* ghost: the transport was opened
  decided       \* ghost: the tuple's last decided batch of a direct stream

engineVars == <<frame, events, malformed, text, usage, claim, reservation, slot, refs, record,
                sent>>
consumerVars == <<outq, seen, stops, late, gone>>
tupleVars == <<streams, safe, decided>>
vars == <<pc, req, fragmentVars, engineVars, consumerVars, tupleVars>>

Claims == {"end", "tool", "other"}   \* END_TURN, TOOL_CALL, MAX_TOKENS and the like
StopFor == [none |-> "stopEnd", end |-> "stopEnd", tool |-> "stopTool", other |-> "stopOther"]
Stops == {"stop", "stopInvalid", "stopTool", "stopEnd", "stopOther"}
Events == Stops \cup {"text", "decided", "undecided", "error", "usage"}
Working == {"prepare", "dispatch", "ladder", "gate", "reserve", "admission", "open", "frames",
            "frame", "turn", "private", "batch", "rejected", "unlock", "tail"}

Requests ==
  [flag : BOOLEAN,        \* compatibility.buffer_unverified_streaming
   caps : BOOLEAN,        \* private_capabilities.has_any
   tools : BOOLEAN,       \* the request offers tools and does not choose none
   native : BOOLEAN,      \* direct path, native tool mode: tool fragments
   evidence : BOOLEAN,    \* an evidence record
   consumer : {"server", "drain"}]

TypeOK ==
  /\ FragmentTypeOK
  /\ pc \in Working \cup {"idle", "closing", "ended"}
  /\ req \in Requests
  /\ streams \in 0..MaxStreams /\ safe \in BOOLEAN
  /\ frame \in [complete : BOOLEAN, error : BOOLEAN]
  /\ events \in 0..MaxEvents /\ malformed \in 0..(MaxMalformed + 1)
  /\ text \in BOOLEAN /\ usage \in BOOLEAN /\ claim \in Claims \cup {"none"}
  /\ reservation \in {"none", "open", "committed", "estimated", "released"}
  /\ slot \in {"none", "held", "free"} /\ refs \in {"none", "open", "closed"}
  /\ record \in {"active", "succeeded", "failed", "cancelled"}
  /\ outq \in Seq(Events) /\ seen \subseteq Events /\ stops \in Nat
  /\ late \in BOOLEAN /\ gone \in BOOLEAN /\ sent \in BOOLEAN
  /\ decided \in {"none", "accepted", "partial", "rejected"}

Init ==
  /\ pc = "idle" /\ streams = 0 /\ safe = FALSE /\ decided = "none"
  /\ req \in Requests
  /\ FragmentInit
  /\ frame = [complete |-> FALSE, error |-> FALSE]
  /\ events = 0 /\ malformed = 0 /\ text = FALSE /\ usage = FALSE /\ claim = "none"
  /\ reservation = "none" /\ slot = "none" /\ refs = "none" /\ record = "active"
  /\ outq = <<>> /\ seen = {} /\ stops = 0 /\ late = FALSE /\ gone = FALSE /\ sent = FALSE

\* A next request of the same tuple; evidence may have come or gone.
Start ==
  /\ pc \in {"idle", "ended"} /\ streams < MaxStreams
  /\ pc' = "prepare" /\ streams' = streams + 1
  /\ \E e \in BOOLEAN : req' = [req EXCEPT !.evidence = e]
  /\ pending' = <<>> /\ completed' = <<>>
  /\ frame' = [complete |-> FALSE, error |-> FALSE]
  /\ events' = 0 /\ malformed' = 0 /\ text' = FALSE /\ usage' = FALSE /\ claim' = "none"
  /\ reservation' = "none" /\ slot' = "none" /\ refs' = "none" /\ record' = "active"
  /\ outq' = <<>> /\ seen' = {} /\ stops' = 0 /\ late' = FALSE /\ gone' = FALSE /\ sent' = FALSE
  /\ UNCHANGED <<safe, decided>>

-----------------------------------------------------------------------------
\* The engine runs when nothing it yielded waits to be taken.
At(place) == pc = place /\ outq = <<>>

Finalize(s) ==   \* finalize_response, _error, _cancelled: only while active
  record' = IF record = "active" THEN s ELSE record

Yield(es) ==
  /\ outq' = outq \o es
  /\ UNCHANGED <<seen, stops, late, gone>>

\* Finalize the record as failed, then yield the error and the stop.
FailWith(stop) ==
  /\ Finalize("failed")
  /\ Yield(<<"error", stop>>)
  /\ pc' = "closing"

\* Mutant: the record is finalized after the last yield, or never.
FailUnrecorded(stop) ==
  /\ UNCHANGED record
  /\ Yield(<<"error", stop>>)
  /\ pc' = "closing"

ErrorExit(stop) == FailWith(stop)

Closed ==   \* the context managers and finally blocks of every exit
  /\ slot' = IF slot = "held" THEN "free" ELSE slot
  /\ refs' = IF refs = "open" THEN "closed" ELSE refs

\* Mutant: the registry is only closed when the stream came to its end.
ClosedSlotOnly ==
  /\ slot' = IF slot = "held" THEN "free" ELSE slot
  /\ UNCHANGED refs

Closes == Closed

\* An exception that handle_stream turns into a terminal error: preparation,
\* the transport, start_call at its limit, the batch or the private loop.
Raise ==
  /\ pc \in Working \ {"rejected"} /\ outq = <<>>
  /\ ErrorExit("stop") /\ Closes
  /\ UNCHANGED <<req, fragmentVars, tupleVars, frame, events, malformed, text, usage, claim,
                 reservation, sent>>

Prepare ==
  /\ At("prepare")
  /\ pc' = "dispatch" /\ refs' = "open"
  /\ UNCHANGED <<req, fragmentVars, consumerVars, tupleVars, frame, events, malformed, text,
                 usage, claim, reservation, slot, record, sent>>

\* _buffered_stream_policy
Buffers(r) ==
  /\ r.flag
  /\ \/ r.caps
     \/ r.tools /\ ~(r.native /\ (r.evidence \/ safe))

\* _stream_dispatch
Dispatch ==
  /\ At("dispatch")
  /\ pc' = IF Buffers(req) THEN "ladder" ELSE "gate"
  /\ UNCHANGED <<req, fragmentVars, engineVars, consumerVars, tupleVars>>

\* _assemble_response: accepted calls turn END_TURN, and nothing else, into
\* TOOL_CALL.
AssembledStop(calls, c) == IF calls /\ c = "end" THEN "stopTool" ELSE StopFor[c]

\* The ladder's response, and _events_from_buffered_response.
Ladder ==
  /\ At("ladder")
  /\ \/ ErrorExit("stopInvalid") /\ UNCHANGED claim
     \/ \E body \in {<<"text">>, <<"decided">>, <<"text", "decided">>}, c \in Claims :
          /\ body # <<"text">> => req.tools
          /\ claim' = c
          /\ Finalize("succeeded")
          /\ Yield(body \o <<"usage", AssembledStop(body # <<"text">>, c)>>)
          /\ pc' = "closing"
  /\ UNCHANGED <<req, fragmentVars, tupleVars, frame, events, malformed, text, usage,
                 reservation, slot, refs, sent>>

-----------------------------------------------------------------------------
\* Unsafe history, a disabled tool choice, a failed preparation.
GateRefuses ==
  /\ At("gate")
  /\ ErrorExit("stop")
  /\ UNCHANGED <<req, fragmentVars, tupleVars, frame, events, malformed, text, usage, claim,
                 reservation, slot, refs, sent>>

Gate ==
  /\ At("gate")
  /\ pc' = "reserve"
  /\ UNCHANGED <<req, fragmentVars, engineVars, consumerVars, tupleVars>>

\* The input checks or reserve_generation refuse.
Exhausted ==
  /\ At("reserve")
  /\ ErrorExit("stop")
  /\ UNCHANGED <<req, fragmentVars, tupleVars, frame, events, malformed, text, usage, claim,
                 reservation, slot, refs, sent>>

Reserve ==
  /\ At("reserve")
  /\ reservation' = "open" /\ pc' = "admission"
  /\ UNCHANGED <<req, fragmentVars, consumerVars, tupleVars, frame, events, malformed, text,
                 usage, claim, slot, refs, record, sent>>

\* Queue full or timed out: the transport was never opened.
NotAdmitted ==
  /\ At("admission")
  /\ reservation' = "released"
  /\ ErrorExit("stop")
  /\ UNCHANGED <<req, fragmentVars, tupleVars, frame, events, malformed, text, usage, claim, slot,
                 refs, sent>>

Admitted ==
  /\ At("admission")
  /\ slot' = "held" /\ sent' = TRUE /\ pc' = "open"
  /\ UNCHANGED <<req, fragmentVars, consumerVars, tupleVars, frame, events, malformed, text,
                 usage, claim, reservation, refs, record>>

\* Mutant: a status error gives its reservation back.
RefusedReleased ==
  /\ At("open")
  /\ reservation' = "released"
  /\ ErrorExit("stop")
  /\ UNCHANGED <<req, fragmentVars, tupleVars, frame, events, malformed, text, usage, claim, slot,
                 refs, sent>>

\* HTTP status 400 or above: dispatched, the estimate is kept.
Refused ==
  /\ At("open")
  /\ reservation' = "estimated"
  /\ ErrorExit("stop")
  /\ UNCHANGED <<req, fragmentVars, tupleVars, frame, events, malformed, text, usage, claim, slot,
                 refs, sent>>

Opened ==
  /\ At("open")
  /\ pc' = "frames"
  /\ UNCHANGED <<req, fragmentVars, engineVars, consumerVars, tupleVars>>

-----------------------------------------------------------------------------
\* Mutant: the count is compared with the wrong limit.
Forgiven(n) == n > MaxEvents

Intolerable(n) == n > MaxMalformed

\* A frame _iter_frame_data could not parse.
Malformed ==
  /\ At("frames") /\ events < MaxEvents
  /\ events' = events + 1 /\ malformed' = malformed + 1
  /\ \/ Open # {} /\ FailAll /\ ErrorExit("stop")
     \/ Open = {} /\ Intolerable(malformed') /\ ErrorExit("stop") /\ UNCHANGED fragmentVars
     \/ /\ Open = {} /\ ~Intolerable(malformed')
        /\ UNCHANGED <<pc, record, fragmentVars, consumerVars>>
  /\ UNCHANGED <<req, tupleVars, frame, text, usage, claim, reservation, slot, refs, sent>>

Frame ==
  /\ At("frames") /\ events < MaxEvents
  /\ \E c \in BOOLEAN : frame' = [complete |-> c, error |-> FALSE]
  /\ pc' = "frame" /\ events' = events + 1
  /\ UNCHANGED <<req, fragmentVars, consumerVars, tupleVars, malformed, text, usage, claim,
                 reservation, slot, refs, record, sent>>

Decoded ==   \* one more event of the frame
  /\ At("frame") /\ events < MaxEvents
  /\ events' = events + 1
  /\ UNCHANGED <<req, tupleVars, malformed, reservation, slot, refs, sent>>

TextDelta ==
  /\ Decoded
  /\ IF req.native THEN Yield(<<"text">>) /\ UNCHANGED text
                   ELSE text' = TRUE /\ UNCHANGED consumerVars
  /\ UNCHANGED <<pc, fragmentVars, frame, usage, claim, record>>

Fragment ==
  /\ Decoded
  /\ \E k \in Keys, named \in BOOLEAN, bytes \in 0..1 :
       /\ ~TooManyCalls(k)   \* otherwise Raise
       /\ IF bytes > 0 /\ TooLong(k, bytes)
            THEN Feed(k, named, 0) /\ ErrorExit("stop")
            ELSE Feed(k, named, bytes) /\ UNCHANGED <<pc, record, consumerVars>>
  /\ UNCHANGED <<frame, text, usage, claim>>

CallsComplete ==   \* DecodedToolCallComplete, DecodedToolBatchComplete
  /\ Decoded
  /\ CompleteAll \/ \E k \in Keys : CompleteCall(k)
  /\ UNCHANGED <<pc, consumerVars, frame, text, usage, claim, record>>

UsageUpdate ==
  /\ Decoded
  /\ usage' = TRUE
  /\ UNCHANGED <<pc, fragmentVars, consumerVars, frame, text, claim, record>>

\* DecodedStreamComplete, with or without usage: the last claim stands.
StreamComplete ==
  /\ Decoded
  /\ claim' \in Claims /\ usage' \in {usage, TRUE}
  /\ UNCHANGED <<pc, fragmentVars, consumerVars, frame, text, record>>

StreamError ==   \* acted upon when the frame's other events are through
  /\ Decoded
  /\ frame' = [frame EXCEPT !.error = TRUE]
  /\ UNCHANGED <<pc, fragmentVars, consumerVars, text, usage, claim, record>>

\* Mutant: the slot is kept through the batch and the tail.
FinishHolding ==
  /\ CompleteAll
  /\ pc' = "turn"
  /\ UNCHANGED <<slot, record, consumerVars>>

\* End of turn: the slot is given back, open calls are completed.
Finish ==
  /\ slot' = "free"
  /\ CompleteAll
  /\ pc' = "turn"
  /\ UNCHANGED <<record, consumerVars>>

FrameEnds ==
  /\ At("frame")
  /\ \/ frame.error /\ ErrorExit("stop") /\ UNCHANGED <<fragmentVars, slot>>
     \/ ~frame.error /\ frame.complete /\ Finish
     \/ ~frame.error /\ ~frame.complete /\ pc' = "frames"
        /\ UNCHANGED <<fragmentVars, slot, record, consumerVars>>
  /\ UNCHANGED <<req, tupleVars, frame, events, malformed, text, usage, claim, reservation, refs,
                 sent>>

StreamRunsOut ==   \* without a terminal frame: a normal end all the same
  /\ At("frames")
  /\ Finish
  /\ UNCHANGED <<req, tupleVars, frame, events, malformed, text, usage, claim, reservation, refs,
                 sent>>

-----------------------------------------------------------------------------
\* The whole turn's candidates: native ones, and in buffer mode those found
\* in the buffered text, decided as one batch.
Turn ==
  /\ At("turn")
  /\ \E textual \in IF ~req.native /\ text THEN BOOLEAN ELSE {FALSE} :
       LET any == Candidates(completed) # <<>> \/ textual
       IN  \/ any /\ req.caps /\ pc' = "private" /\ UNCHANGED consumerVars
           \/ any /\ pc' = "batch" /\ UNCHANGED consumerVars
           \/ ~any /\ pc' = "tail" /\ Yield(IF text THEN <<"text">> ELSE <<>>)
  /\ completed' = <<>>   \* drain_completed
  /\ UNCHANGED <<req, pending, engineVars, tupleVars>>

PrivateFails ==   \* the private loop answers with a terminal error
  /\ At("private")
  /\ ErrorExit("stopInvalid")
  /\ UNCHANGED <<req, fragmentVars, tupleVars, frame, events, malformed, text, usage, claim,
                 reservation, slot, refs, sent>>

\* The firewalled final turn is text.  In native mode the turn is marked
\* rejected, the caller skips its tail and the generator returns without a
\* message_stop, its record still active.
PrivateText ==
  /\ At("private")
  /\ Yield(<<"text">>)
  /\ pc' = IF req.native THEN "closing" ELSE "tail"
  /\ UNCHANGED <<req, fragmentVars, engineVars, tupleVars>>

\* The final turn calls client tools.  In native mode they are emitted as
\* they come, in buffer mode they go through the batch.
PrivateCalls ==
  /\ At("private")
  /\ IF req.native THEN pc' = "tail" /\ Yield(<<"undecided">>)
                   ELSE pc' = "batch" /\ UNCHANGED consumerVars
  /\ UNCHANGED <<req, fragmentVars, engineVars, tupleVars>>

\* process_tool_batch and _emit_batch_decision_events.  What follows the
\* yields, the stream-safety observation, is a step of its own.  Under
\* BEST_EFFORT a batch with one accepted call is accepted, in part.
BatchAccepted ==
  /\ At("batch")
  /\ pc' = "unlock" /\ decided' \in {"accepted", "partial"}
  /\ Yield((IF text THEN <<"text">> ELSE <<>>) \o <<"decided">>)
  /\ UNCHANGED <<req, fragmentVars, engineVars, streams, safe>>

BatchRejected ==
  /\ At("batch")
  /\ pc' = "rejected" /\ decided' = "rejected"
  /\ Finalize("failed")
  /\ Yield((IF text THEN <<"text">> ELSE <<>>) \o <<"error", "stopInvalid">>)
  /\ UNCHANGED <<req, fragmentVars, streams, safe, frame, events, malformed, text, usage, claim,
                 reservation, slot, refs, sent>>

\* Mutant: the caller does not look at turn_rejected.
AlwaysTail == "tail"

AfterDecision == IF pc = "rejected" THEN "closing" ELSE "tail"

\* _record_stream_safety_observation
Observe ==
  /\ pc \in {"unlock", "rejected"} /\ outq = <<>>
  /\ safe' = (pc = "unlock")
  /\ pc' = AfterDecision
  /\ UNCHANGED <<req, fragmentVars, engineVars, consumerVars, streams, decided>>

CallsSeen == {"decided", "undecided"} \cap seen # {}   \* has_emitted_tool_calls

\* Mutant: the backend's last frame wins.
StopReasonClaimed == StopFor[claim]

StopReason == IF CallsSeen THEN "stopTool" ELSE StopFor[claim]

\* Mutant: the tail finalizes and leaves the reservation open.
EndUnreconciled ==
  /\ At("tail")
  /\ Finalize("succeeded")
  /\ Yield(<<StopReason>>)
  /\ pc' = "closing"
  /\ UNCHANGED <<req, fragmentVars, tupleVars, frame, events, malformed, text, usage, claim,
                 reservation, slot, refs, sent>>

\* Reconcile, write evidence, finalize; only then the closing events.  When
\* one of these raises, a terminal error takes their place.
EndTurn ==
  /\ At("tail")
  /\ reservation' = IF usage THEN "committed" ELSE "estimated"
  /\ \/ /\ Finalize("succeeded")
        /\ Yield((IF usage THEN <<"usage">> ELSE <<>>) \o <<StopReason>>)
        /\ pc' = "closing"
     \/ ErrorExit("stopInvalid")
  /\ UNCHANGED <<req, fragmentVars, tupleVars, frame, events, malformed, text, usage, claim, slot,
                 refs, sent>>

-----------------------------------------------------------------------------
\* The consumer takes an event.  At message_stop the server closes the
\* generator, which never resumes.
Deliver ==
  /\ outq # <<>>
  /\ LET e == Head(outq)
         leave == req.consumer = "server" /\ e \in Stops
     IN  /\ seen' = seen \cup {e}
         /\ stops' = IF e \in Stops THEN stops + 1 ELSE stops
         /\ late' = (late \/ stops > 0)
         /\ outq' = IF leave THEN <<>> ELSE Tail(outq)
         /\ pc' = IF leave THEN "ended" ELSE pc
         /\ IF leave THEN Closes ELSE UNCHANGED <<slot, refs>>
  /\ UNCHANGED <<req, fragmentVars, tupleVars, frame, events, malformed, text, usage, claim,
                 reservation, record, gone, sent>>

\* The generator returns.
Return ==
  /\ At("closing")
  /\ pc' = "ended"
  /\ Closes
  /\ UNCHANGED <<req, fragmentVars, consumerVars, tupleVars, frame, events, malformed, text,
                 usage, claim, reservation, record, sent>>

\* The client goes away.  While the engine awaits, it is cancelled and the
\* record says so; at a yield it gets GeneratorExit, which nothing handles.
Disconnect ==
  /\ pc \in Working \cup {"closing"}
  /\ gone' = TRUE /\ pc' = "ended" /\ outq' = <<>>
  /\ IF outq = <<>> THEN Finalize("cancelled") ELSE UNCHANGED record
  /\ Closes
  /\ UNCHANGED <<req, fragmentVars, tupleVars, seen, stops, late, frame, events, malformed,
                 text, usage, claim, reservation, sent>>

-----------------------------------------------------------------------------
Engine ==
  \/ Raise \/ Prepare \/ Dispatch \/ Ladder
  \/ GateRefuses \/ Gate \/ Exhausted \/ Reserve \/ NotAdmitted \/ Admitted \/ Refused \/ Opened
  \/ Malformed \/ Frame \/ TextDelta \/ Fragment \/ CallsComplete \/ UsageUpdate
  \/ StreamComplete \/ StreamError
  \/ FrameEnds \/ StreamRunsOut
  \/ Turn \/ PrivateFails \/ PrivateText \/ PrivateCalls
  \/ BatchAccepted \/ BatchRejected \/ Observe \/ EndTurn \/ Return

Rest == pc = "ended" /\ streams = MaxStreams /\ UNCHANGED vars

Next == Start \/ Engine \/ Deliver \/ Disconnect \/ Rest

Spec == Init /\ [][Next]_vars

-----------------------------------------------------------------------------
Direct == sent \/ reservation # "none"

\* The server closes the generator at message_stop, so whatever accounts for
\* the stream has run by then: the record is final, and a stream recorded as
\* succeeded has its reservation reconciled before its first closing event.
AccountedAtStop ==
  /\ stops > 0 => record # "active"
  /\ record = "succeeded" /\ Direct => reservation \in {"committed", "estimated"}

\* No consumer is given anything after message_stop, or an error event that
\* no message_stop follows, whichever of the many exits the stream took and
\* whether or not the consumer drains the generator.
OneTerminalEvent ==
  /\ stops <= 1 /\ ~late
  /\ pc = "ended" /\ "error" \in seen /\ ~gone => stops = 1

\* A reservation is given back only when the transport was never opened, and
\* charged only when it was; one still open when the stream is over belongs
\* to a stream that did not succeed.
ReservationHonest ==
  /\ reservation = "released" => ~sent
  /\ reservation \in {"committed", "estimated"} => sent
  /\ pc = "ended" /\ reservation = "open" => record # "succeeded"

\* Every way out, the consumer's early close and a disconnect included, gives
\* the slot back and closes the ref registry, and no slot is held while the
\* turn is decided and emitted at the pace of the client.
ResourcesReturned ==
  /\ pc = "ended" => slot # "held" /\ refs # "open"
  /\ pc \in {"turn", "private", "batch", "unlock", "rejected", "tail"}
       => slot = "free"

\* A stream that ends well and handed out tool calls never says end_turn, and
\* on the direct path says tool_call whatever stop reason the backend's last
\* frame claimed; one that handed out none says tool_call only when the backend
\* itself claimed it.
StopReasonTruthful ==
  stops > 0 /\ record = "succeeded" /\ ~gone
    => /\ CallsSeen => "stopEnd" \notin seen /\ (Direct => "stopTool" \in seen)
       /\ "stopTool" \in seen => CallsSeen \/ claim = "tool"

-----------------------------------------------------------------------------
(* What the code or its comments promise and the code does not keep. *)

\* stream_engine.py:578: a rejected batch revokes the tuple's observation.
RejectionRevokes == pc = "ended" /\ decided = "rejected" /\ ~gone => ~safe

\* stream_engine.py:321, :660: no record is left permanently active.
RecordFinal == pc = "ended" => record # "active"

\* stream_engine.py:573: a fully accepted tool batch is the one observation
\* that unlocks later streams of the tuple.
UnlockedByWholeBatch == [][~safe /\ safe' => decided = "accepted"]_vars

\* stream_engine.py:624: a response with an emitted tool_use block must report
\* tool_use, whatever the backend's last frame claimed, on both paths.
ToolUseReported == stops > 0 /\ record = "succeeded" /\ ~gone /\ CallsSeen => "stopTool" \in seen

\* private_loop.py:580: the private loop never bypasses client authority.
OnlyDecidedCalls == "undecided" \notin seen
=============================================================================
