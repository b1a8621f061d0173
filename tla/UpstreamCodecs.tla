--------------------------- MODULE UpstreamCodecs ---------------------------
(***************************************************************************)
(* A backend's stream as the engine understands it: the four codecs'       *)
(* decode_stream_chunk and is_stream_complete, and the accumulator and     *)
(* loop variables the decoded events go into.  The backend makes tool      *)
(* calls, each with a name and pieces of arguments, and ends with a stop   *)
(* reason and its usage, in the wire order of its protocol.  A piece is    *)
(* <<call, number>>, so that a piece in a wrong place shows.               *)
(***************************************************************************)
EXTENDS Naturals, Sequences, SequencesExt, FiniteSetsExt

CONSTANTS
  MaxMade,     \* tool calls a backend makes (bound)
  MaxPieces    \* argument pieces of one of them (bound)

\* Ollama gives a call's arguments in one piece.
ASSUME CodecAssumption == MaxMade \in Nat /\ MaxPieces \in Nat \ {0}

VARIABLES
  upstream,    \* UpstreamProtocol
  made,        \* the backend's calls so far: pieces given of each
  current,     \* block or item the backend is in, 0 for none
  said,        \* [stop, usage]: what the backend said of the end
  assembly,    \* PendingToolCallAccumulator: [open, closed]
  final,       \* the engine's final_stop_reason and final_usage
  reading      \* the engine's frame loop: "yes", "done", "error"

codecVars == <<upstream, made, current, said, assembly, final, reading>>

Protocols == {"chat", "anthropic", "responses", "ollama"}
Reasons == {"end", "tool", "length"}

CodecTypeOK ==
  /\ upstream \in Protocols /\ made \in BoundedSeq(0..MaxPieces, MaxMade)
  /\ current \in 0..MaxMade /\ reading \in {"yes", "done", "error"}
  /\ DOMAIN assembly.open \subseteq 0..MaxMade
  /\ said.stop \in Reasons \cup {"none"} /\ final.stop \in Reasons \cup {"none"}
  /\ said.usage \in BOOLEAN /\ final.usage \in BOOLEAN

CodecInit ==
  /\ upstream \in Protocols
  /\ made = <<>> /\ current = 0 /\ reading = "yes"
  /\ assembly = [open |-> <<>>, closed |-> <<>>]
  /\ said = [stop |-> "none", usage |-> FALSE]
  /\ final = [stop |-> "none", usage |-> FALSE]

-----------------------------------------------------------------------------
(* Decoded events and what the frame loop does with one. *)

Part(index, name, args) == [type |-> "fragment", index |-> index, name |-> name, args |-> args]
Batch == [type |-> "batch"]
Stop(reason) == [type |-> "stop", reason |-> reason]
Usage == [type |-> "usage"]

\* Mutant: calls are kept apart by choice only.
AddPartByChoice(a, e) ==
  LET old == IF 0 \in DOMAIN a.open THEN a.open[0] ELSE [name |-> <<>>, args |-> <<>>]
  IN  [a EXCEPT !.open = [i \in {0} |-> [name |-> old.name \o e.name, args |-> old.args \o e.args]]]

\* start_call, feed_name, feed_arguments
AddPart(a, e) ==
  LET old == IF e.index \in DOMAIN a.open THEN a.open[e.index] ELSE [name |-> <<>>, args |-> <<>>]
      new == [name |-> old.name \o e.name, args |-> old.args \o e.args]
  IN  [a EXCEPT !.open = [i \in DOMAIN a.open \cup {e.index} |-> IF i = e.index THEN new ELSE a.open[i]]]

CloseAll(a) ==   \* complete_all_pending, by index
  LET ks == DOMAIN a.open
      at(i) == CHOOSE k \in ks : Cardinality({q \in ks : q < k}) = i - 1
  IN  [open |-> <<>>, closed |-> a.closed \o [i \in 1..Cardinality(ks) |-> a.open[at(i)]]]

AbsorbOne(s, e) ==
  CASE e.type = "fragment" -> [s EXCEPT !.assembly = AddPart(@, e)]
    [] e.type = "batch" -> [s EXCEPT !.assembly = CloseAll(@)]
    [] e.type = "stop" -> [s EXCEPT !.final.stop = e.reason]
    [] e.type = "usage" -> [s EXCEPT !.final.usage = TRUE]

\* One frame: all its events, then the end of the turn if it was the last.
Frames(events, last) ==
  LET s == FoldLeft(AbsorbOne, [assembly |-> assembly, final |-> final], events)
  IN  /\ reading = "yes"
      /\ final' = s.final
      /\ assembly' = IF last THEN CloseAll(s.assembly) ELSE s.assembly
      /\ reading' = IF last THEN "done" ELSE "yes"

Says(stop, usage) == said' = [stop |-> stop, usage |-> usage]

\* The backend begins call k, or gives the next piece of it.
Begin == Len(made) < MaxMade /\ made' = Append(made, 0)
Extend(k) == made[k] < MaxPieces /\ made' = [made EXCEPT ![k] = @ + 1]
Next1 == Len(made) + 1

TurnReason == IF made = <<>> THEN {"end", "length"} ELSE {"tool"}

-----------------------------------------------------------------------------
\* Chat Completions: fragments of calls in any order, by index; a chunk with
\* the finish_reason, where is_stream_complete ends the loop; usage in that
\* chunk or in one of its own after it, which is never read.
ChatCall ==
  /\ upstream = "chat" /\ said.stop = "none"
  /\ Begin
  /\ Frames(<<Part(Next1 - 1, <<Next1>>, <<>>)>>, FALSE)
  /\ UNCHANGED <<upstream, current, said>>

ChatArguments ==
  /\ upstream = "chat" /\ said.stop = "none"
  /\ \E k \in DOMAIN made :
       Extend(k) /\ Frames(<<Part(k - 1, <<>>, <<<<k, made[k] + 1>>>>)>>, FALSE)
  /\ UNCHANGED <<upstream, current, said>>

ChatFinish ==
  /\ upstream = "chat" /\ said.stop = "none"
  /\ \E reason \in TurnReason, inChunk \in BOOLEAN :
       /\ Says(reason, TRUE)
       /\ Frames((IF inChunk THEN <<Usage>> ELSE <<>>)
                   \o <<IF reason = "tool" THEN Batch ELSE Stop(reason)>>, TRUE)
  /\ UNCHANGED <<upstream, made, current>>

\* Anthropic: one block after the other, each stopped; message_delta with
\* reason and usage, and message_stop, whose event says END_TURN.
AnthropicStart ==
  /\ upstream = "anthropic" /\ current = 0 /\ said.stop = "none"
  /\ Begin /\ current' = Next1
  /\ Frames(<<Part(Next1, <<Next1>>, <<>>)>>, FALSE)
  /\ UNCHANGED <<upstream, said>>

AnthropicDelta ==
  /\ upstream = "anthropic" /\ current > 0
  /\ Extend(current)
  /\ Frames(<<Part(current, <<>>, <<<<current, made[current] + 1>>>>)>>, FALSE)
  /\ UNCHANGED <<upstream, current, said>>

AnthropicBlockStop ==   \* of a tool_use block, or of a text block between them
  /\ upstream = "anthropic" /\ said.stop = "none"
  /\ current' = 0
  /\ Frames(<<Batch>>, FALSE)
  /\ UNCHANGED <<upstream, made, said>>

AnthropicMessageDelta ==
  /\ upstream = "anthropic" /\ current = 0 /\ said.stop = "none"
  /\ \E reason \in TurnReason : Says(reason, TRUE) /\ Frames(<<Usage, Stop(reason)>>, FALSE)
  /\ UNCHANGED <<upstream, made, current>>

AnthropicMessageStop ==
  /\ upstream = "anthropic" /\ said.stop # "none"
  /\ Frames(<<Stop("end")>>, TRUE)
  /\ UNCHANGED <<upstream, made, current, said>>

\* Responses: an item is announced with its name (not decoded), its argument
\* deltas, done; response.completed or response.incomplete.
ResponsesItem ==
  /\ upstream = "responses" /\ current = 0 /\ said.stop = "none"
  /\ Begin /\ current' = Next1
  /\ Frames(<<>>, FALSE)
  /\ UNCHANGED <<upstream, said>>

ResponsesDelta ==
  /\ upstream = "responses" /\ current > 0
  /\ Extend(current)
  /\ Frames(<<Part(current - 1, <<>>, <<<<current, made[current] + 1>>>>)>>, FALSE)
  /\ UNCHANGED <<upstream, current, said>>

ResponsesDone ==
  /\ upstream = "responses" /\ current > 0
  /\ current' = 0
  /\ Frames(<<Batch>>, FALSE)
  /\ UNCHANGED <<upstream, made, said>>

ResponsesEnd ==
  /\ upstream = "responses" /\ current = 0
  /\ \E reason \in TurnReason :
       /\ Says(reason, TRUE)
       /\ Frames(IF reason = "length" THEN <<Stop("length")>> ELSE <<Usage, Stop("end")>>, TRUE)
  /\ UNCHANGED <<upstream, made, current>>

\* Ollama: whole calls, one or more to a chunk, numbered from zero in each;
\* the last chunk is done and carries counts that are not decoded.
OllamaChunk ==
  /\ upstream = "ollama"
  /\ \E n \in 0..(MaxMade - Len(made)), done \in BOOLEAN :
       LET call(i) == Len(made) + i
           calls == [i \in 1..n |-> Part(i - 1, <<call(i)>>, <<<<call(i), 1>>>>)]
           stop == IF n > 0 THEN <<Batch>> ELSE <<Stop("end")>>
       IN  /\ n > 0 \/ done
           /\ made' = made \o [i \in 1..n |-> 1]
           /\ IF done THEN Says(IF made' = <<>> THEN "end" ELSE "tool", TRUE) ELSE UNCHANGED said
           /\ Frames(calls \o (IF done THEN stop ELSE <<>>), done)
  /\ UNCHANGED <<upstream, current>>

\* The transport ends without a terminal frame: to the loop a natural end, and
\* what there is of the calls is completed.
RunsOut ==
  /\ reading = "yes"
  /\ reading' = "done" /\ assembly' = CloseAll(assembly)
  /\ UNCHANGED <<upstream, made, current, said, final>>

\* An error frame, or an exception of the transport.
CutShort ==
  /\ reading = "yes"
  /\ reading' = "error"
  /\ UNCHANGED <<upstream, made, current, said, assembly, final>>

CodecDone == reading # "yes" /\ UNCHANGED codecVars

CodecNext ==
  \/ ChatCall \/ ChatArguments \/ ChatFinish
  \/ AnthropicStart \/ AnthropicDelta \/ AnthropicBlockStop
  \/ AnthropicMessageDelta \/ AnthropicMessageStop
  \/ ResponsesItem \/ ResponsesDelta \/ ResponsesDone \/ ResponsesEnd
  \/ OllamaChunk \/ RunsOut \/ CutShort \/ CodecDone

CodecSpec == CodecInit /\ [][CodecNext]_codecVars

-----------------------------------------------------------------------------
Whole == reading = "done"

Intended == [k \in DOMAIN made |-> [name |-> <<k>>,
                                    args |-> [i \in 1..made[k] |-> <<k, i>>]]]

\* Behind Chat Completions and Anthropic backends the engine ends a turn with
\* exactly the calls the backend made, in their order, each with its own name
\* and its own argument pieces, as many as have come, however their fragments
\* were interleaved and wherever the stream ran out.
CallsFaithful ==
  Whole /\ upstream \in {"chat", "anthropic"} => assembly.closed = Intended

(* What the same promise says of the other codecs, and what else is lost.   *)

\* codec.py:65: a fragment's identity lets parallel and fragmented calls be
\* accumulated correctly.  Ollama numbers the calls of every chunk from zero,
\* Responses never gives a name.
AllCallsFaithful == Whole => assembly.closed = Intended

\* PROPOSED_CHANGES.md:436: the backend's completion marker decides that a
\* call is complete.  A stream that just runs out completes its calls too.
MarkedComplete == Whole => said.stop # "none"

\* upstreams/anthropic.py:134: message_delta updates usage and stop metadata.
StopReasonKept == Whole /\ said.stop = "length" => final.stop = "length"

\* Usage the backend reported is what the reservation is reconciled with.
UsageKept == Whole /\ said.usage => final.usage
=============================================================================
