--------------------------- MODULE StreamEncoders ---------------------------
(***************************************************************************)
(* The last leg of a stream: the server's event_stream feeds the gateway's *)
(* events to the protocol's stream encoder and sends what it returns.  The *)
(* gateway gives text, whole tool calls and usage, then message_stop, with *)
(* an error event before it when the stream failed; or its generator       *)
(* raises, and _encode_failure ends the stream; or it returns with none of *)
(* these.  A frame is its kind, and the block index, sequence number and   *)
(* output index, or reason it carries.                                     *)
(***************************************************************************)
EXTENDS Naturals, Sequences, FiniteSets, SequencesExt

CONSTANT MaxGiven   \* events before the ending (bound)

ASSUME EncoderAssumption == MaxGiven \in Nat

VARIABLES
  protocol,     \* of the client
  given,        \* the gateway's events so far
  encoder,      \* the encoder's fields
  frames,       \* what was sent to the client
  serving       \* event_stream: "open", "trailer", "over"

encoderVars == <<protocol, given, encoder, frames, serving>>

StopReasons == {"end", "tool", "length", "invalid", "none"}

EncoderTypeOK ==
  /\ protocol \in {"anthropic", "chat", "responses"}
  /\ Len(given) <= MaxGiven + 2
  /\ encoder \in [failure : BOOLEAN, terminal : BOOLEAN, failed : BOOLEAN, done : BOOLEAN, usage : BOOLEAN,
                  textOpen : BOOLEAN, textIndex : 0..MaxGiven, next : 0..MaxGiven, sequence : 0..MaxGiven]
  /\ serving \in {"open", "trailer", "over"}

EncoderInit ==
  /\ protocol \in {"anthropic", "chat", "responses"}
  /\ given = <<>> /\ serving = "open"
  /\ encoder = [failure |-> FALSE, terminal |-> FALSE, failed |-> FALSE, done |-> FALSE, usage |-> FALSE,
                textOpen |-> FALSE, textIndex |-> 0, next |-> 0, sequence |-> 0]
  /\ frames = CASE protocol = "anthropic" -> <<[kind |-> "message_start"]>>
                [] protocol = "responses" -> <<[kind |-> "created"]>>
                [] protocol = "chat" -> <<>>

At(kind, i) == [kind |-> kind, index |-> i]
Reason(kind, r) == [kind |-> kind, reason |-> r]

-----------------------------------------------------------------------------
(* Each encoder, by event: the frames and the encoder's next fields. *)

Out(frs, e) == [out |-> frs, enc |-> e]

AnthropicText(e) ==
  IF e.textOpen THEN Out(<<At("delta", e.textIndex)>>, e)
  ELSE Out(<<At("start", e.next), At("delta", e.next)>>,
           [e EXCEPT !.textOpen = TRUE, !.textIndex = e.next, !.next = @ + 1])

AnthropicTool(e) ==
  Out(<<At("start", e.next), At("arguments", e.next), At("stop", e.next)>>, [e EXCEPT !.next = @ + 1])

AnthropicReason(e, r) ==
  CASE e.failure \/ r = "invalid" -> "invalid_output"
    [] ~e.failure /\ r = "tool" -> "tool_use"
    [] ~e.failure /\ r = "length" -> "max_tokens"
    [] OTHER -> "end_turn"

AnthropicStop(e, r) ==
  Out((IF e.textOpen THEN <<At("stop", e.textIndex)>> ELSE <<>>)
        \o <<Reason("message_delta", AnthropicReason(e, r))>>,
      [e EXCEPT !.terminal = TRUE, !.textOpen = FALSE])

AnthropicTrailer(e) == Out(IF e.terminal THEN <<[kind |-> "message_stop"]>> ELSE <<>>, e)

ChatTool(e) == Out(<<At("tool", e.next), At("arguments", e.next)>>, [e EXCEPT !.next = @ + 1])

ChatReason(e, r) ==   \* _openai_finish_reason(failure=True) after an error
  CASE r = "tool" -> "tool_calls"
    [] r = "length" -> "length"
    [] r \notin {"tool", "length"} /\ (r = "invalid" \/ e.failure) -> "content_filter"
    [] OTHER -> "stop"

ChatStop(e, r) == Out(<<Reason("finish", ChatReason(e, r))>>, [e EXCEPT !.terminal = TRUE])

ChatTrailer(e) ==
  Out(CASE e.done -> <<>>
        [] ~e.done /\ e.terminal ->
             (IF e.usage /\ ~e.failure THEN <<[kind |-> "usage"]>> ELSE <<>>) \o <<[kind |-> "done"]>>
        [] ~e.done /\ ~e.terminal /\ e.failure ->
             <<Reason("finish", "content_filter"), [kind |-> "done"]>>
        [] OTHER -> <<>>,
      [e EXCEPT !.done = TRUE, !.terminal = @ \/ e.failure])

\* A frame of the output item `item`, which only an added one moves on.
ResponsesFrame(e, kind, item, added) ==
  Out(<<[kind |-> kind, index |-> e.sequence + 1, item |-> item]>>,
      [e EXCEPT !.next = @ + added, !.sequence = @ + 1])

\* The trailer goes by terminal_was_failure, as it is set here.
ResponsesStop(e) ==
  Out(<<[kind |-> IF e.failure THEN "failed" ELSE "completed"]>>,
      [e EXCEPT !.terminal = TRUE, !.failed = e.failure])

\* Mutant: [DONE] whatever the terminal was.
ResponsesTrailerAlways(e) == Out(<<[kind |-> "done"]>>, e)

ResponsesTrailer(e) == Out(IF e.failed THEN <<>> ELSE <<[kind |-> "done"]>>, e)

-----------------------------------------------------------------------------
Text(e) ==
  CASE protocol = "anthropic" -> AnthropicText(e)
    [] protocol = "chat" -> Out(<<[kind |-> "text"]>>, e)
    [] protocol = "responses" -> ResponsesFrame(e, "text", 0, 0)

ToolUse(e) ==
  CASE protocol = "anthropic" -> AnthropicTool(e)
    [] protocol = "chat" -> ChatTool(e)
    [] protocol = "responses" -> ResponsesFrame(e, "item_added", e.next, 1)

\* Mutant: a second message_stop, or an open block, is not looked at.
StopUnchecked(e, r) ==
  CASE protocol = "anthropic" ->
         Out(<<Reason("message_delta", AnthropicReason(e, r))>>, [e EXCEPT !.terminal = TRUE])
    [] protocol = "chat" -> ChatStop(e, r)
    [] protocol = "responses" -> ResponsesStop(e)

MessageStop(e, r) ==
  CASE e.terminal -> Out(<<>>, e)
    [] ~e.terminal /\ protocol = "anthropic" -> AnthropicStop(e, r)
    [] ~e.terminal /\ protocol = "chat" -> ChatStop(e, r)
    [] ~e.terminal /\ protocol = "responses" -> ResponsesStop(e)

Encode(e, event, r) ==
  CASE event \in {"text", "tool"} /\ e.failure -> Out(<<>>, e)
    [] event = "text" /\ ~e.failure -> Text(e)
    [] event = "tool" /\ ~e.failure -> ToolUse(e)
    [] event = "usage" -> Out(<<>>, [e EXCEPT !.usage = TRUE])
    [] event = "error" -> Out(<<[kind |-> "error"]>>, [e EXCEPT !.failure = TRUE])
    [] event = "stop" -> MessageStop(e, r)

Trailer(e) ==   \* finish
  CASE protocol = "anthropic" -> AnthropicTrailer(e)
    [] protocol = "chat" -> ChatTrailer(e)
    [] protocol = "responses" -> ResponsesTrailer(e)

-----------------------------------------------------------------------------
Take(event, r) ==
  LET step == Encode(encoder, event, r)
  IN  /\ given' = Append(given, event)
      /\ encoder' = step.enc
      /\ frames' = frames \o step.out

Content ==
  /\ serving = "open" /\ Len(given) < MaxGiven
  /\ "error" \notin ToSet(given)
  /\ \E event \in {"text", "tool", "usage"} : Take(event, "none")
  /\ UNCHANGED <<protocol, serving>>

StreamFailed ==   \* the gateway's error event
  /\ serving = "open" /\ Len(given) <= MaxGiven /\ "error" \notin ToSet(given)
  /\ Take("error", "none")
  /\ UNCHANGED <<protocol, serving>>

\* message_stop: the server stops consuming.
Stopped ==
  /\ serving = "open"
  /\ \E r \in IF "error" \in ToSet(given) THEN {"none", "invalid"}
              ELSE {"tool", "length"} \cup (IF "tool" \in ToSet(given) THEN {} ELSE {"end"}) : Take("stop", r)
  /\ serving' = "trailer"
  /\ UNCHANGED protocol

Finished ==
  /\ serving = "trailer"
  /\ LET t == Trailer(encoder) IN encoder' = t.enc /\ frames' = frames \o t.out
  /\ serving' = "over"
  /\ UNCHANGED <<protocol, given>>

\* The generator returns with no message_stop, as a native private turn that
\* ends in text makes it: what there is of a trailer closes the stream.
EndsSilently ==
  /\ serving = "open" /\ "error" \notin ToSet(given)
  /\ LET t == Trailer(encoder) IN encoder' = t.enc /\ frames' = frames \o t.out
  /\ serving' = "over"
  /\ UNCHANGED <<protocol, given>>

\* _encode_failure: an exception of the generator, before or after its
\* message_stop: error, message_stop, finish.
GeneratorRaises ==
  /\ serving \in {"open", "trailer"}
  /\ LET one == Encode(encoder, "error", "none")
         two == Encode(one.enc, "stop", "invalid")
         three == Trailer(two.enc)
     IN  /\ frames' = frames \o one.out \o two.out \o three.out
         /\ encoder' = three.enc
  /\ serving' = "over"
  /\ UNCHANGED <<protocol, given>>

EncoderDone == serving = "over" /\ UNCHANGED encoderVars

EncoderNext == Content \/ StreamFailed \/ Stopped \/ Finished \/ EndsSilently \/ GeneratorRaises \/ EncoderDone

EncoderSpec == EncoderInit /\ [][EncoderNext]_encoderVars

-----------------------------------------------------------------------------
Kinds == {frames[i].kind : i \in DOMAIN frames}
Of(kind) == {i \in DOMAIN frames : frames[i].kind = kind}

Terminals == {"message_delta", "finish", "completed", "failed"}
Success == {"end_turn", "tool_use", "max_tokens", "stop", "tool_calls", "length"}

\* A stream that ends at its message_stop, by its error event or by an
\* exception out of the generator gives the client one terminal frame, after
\* it no more content, and one whose error came before the terminal is never
\* closed as a success, nor with a [DONE] after response.failed.  A stream
\* whose generator just returns gets no terminal, and no more than the [DONE]
\* of a Responses stream.
OneHonestTerminal ==
  serving = "over" =>
    LET end == {i \in DOMAIN frames : frames[i].kind \in Terminals}
    IN  /\ Cardinality(end) = IF "stop" \in ToSet(given) \/ "error" \in Kinds THEN 1 ELSE 0
        /\ \A i \in end :
             /\ \A j \in DOMAIN frames :
                  frames[j].kind \in {"text", "tool", "start", "delta", "arguments", "item_added"} => j < i
             /\ \A j \in Of("error") :
                  j < i => /\ frames[i].kind # "completed"
                           /\ "reason" \in DOMAIN frames[i] => frames[i].reason \notin Success
             /\ frames[i].kind = "failed" => "done" \notin Kinds
        /\ end = {} => Kinds \cap {"message_stop", "done"} \subseteq
                         (IF protocol = "responses" THEN {"done"} ELSE {})

\* Content frames can be put together by their numbers: a block is started
\* once, gets its deltas between its start and its stop and is stopped by the
\* terminal; tool indexes are used once; sequence numbers count up.
Assemblable ==
  /\ \A i, j \in DOMAIN frames :
       i < j /\ frames[i].kind = frames[j].kind /\ frames[i].kind \in {"start", "stop", "tool"}
         => frames[i].index # frames[j].index
  /\ protocol = "anthropic" =>
       /\ \A i \in Of("delta") \cup Of("arguments") :
            /\ \E j \in Of("start") : j < i /\ frames[j].index = frames[i].index
            /\ ~\E j \in Of("stop") : j < i /\ frames[j].index = frames[i].index
       /\ "message_delta" \in Kinds =>
            {frames[i].index : i \in Of("start")} = {frames[i].index : i \in Of("stop")}
  /\ protocol = "responses" =>
       \A i, j \in Of("text") \cup Of("item_added") : i < j => frames[i].index < frames[j].index

(* What the encoders' own descriptions promise and they do not keep. *)

\* anthropic_messages.py:389: start, deltas, stop, one block after the other.
BlocksInTurn ==
  \A i, j \in Of("start") : i < j => \E k \in Of("stop") : k < j /\ frames[k].index = frames[i].index

\* openai_chat.py:368: exactly one terminal event.  A stream whose generator
\* just returns gets none.
TerminalAlways == serving = "over" /\ protocol = "chat" => Kinds \cap Terminals # {}

\* openai_responses.py:401: the lifecycle of each item of the response, under
\* a stable number.
OutputIndexesDistinct ==
  \A i \in Of("text"), j \in Of("item_added") : frames[i].item # frames[j].item

\* openai_responses.py:430: an item is followed by its arguments and its end.
ArgumentsSent == serving = "over" /\ "item_added" \in Kinds => "arguments" \in Kinds
=============================================================================
