------------------------------- MODULE Server -------------------------------
(***************************************************************************)
(* The HTTP front: how one request passes authentication, the bounded      *)
(* reading of its body, parsing and decoding, and is answered by one       *)
(* response or one stream of frames, whatever the gateway does meanwhile.  *)
(* Bytes are counted in units of a small limit.                            *)
(***************************************************************************)
EXTENDS Naturals, Sequences

CONSTANTS
  MaxBody,    \* max_request_bytes
  MaxChunk,   \* largest chunk the transport delivers (bound)
  MaxEvents   \* events of a gateway stream (bound)

ASSUME ServerAssumption == MaxBody \in Nat \ {0} /\ MaxChunk \in Nat \ {0} /\ MaxEvents \in Nat

VARIABLES
  mode,      \* ingress_auth's mode
  request,   \* what the client sent, as far as the answer depends on it
  phase,     \* how far the request has come
  kept,      \* bytes buffered
  answer,    \* [status, error]: of a response, or of a stream that began
  events     \* kinds of event given to the stream's encoder

serverVars == <<mode, request, phase, kept, answer, events>>

Modes == {"none_loopback", "session_token", "static_token", "misspelt"}
NoAnswer == [status |-> 0, error |-> FALSE]
Kinds == {"object", "other", "malformed", "not utf-8", "too deep"}

\* A foreign token has a character outside ASCII.
Incoming == [loopback : BOOLEAN, token : {"right", "wrong", "foreign"}, declared : {"none", "small", "large"},
              body : Kinds, streams : BOOLEAN, decodes : BOOLEAN]

ServerTypeOK ==
  /\ mode \in Modes /\ request \in Incoming
  /\ phase \in {"arrived", "reading", "read", "parsed", "gateway", "stopping", "closing", "answered"}
  /\ kept \in Nat /\ answer.status \in {0, 200, 400, 401, 403, 413, 422, 500, 502}
  /\ events \in Seq({"start", "content", "error", "stop", "finish"})

ServerInit ==
  /\ mode \in Modes /\ request \in Incoming
  /\ phase = "arrived" /\ kept = 0 /\ answer = NoAnswer /\ events = <<>>

-----------------------------------------------------------------------------
Respond(status) == phase' = "answered" /\ answer' = [status |-> status, error |-> status >= 400]

\* _auth_error_response.  The codes' statuses are errors.py's.  compare_digest
\* raises at a foreign token, which nothing catches: a bare 500.
Authenticate ==
  LET refused == CASE mode = "none_loopback" -> IF request.loopback THEN 0 ELSE 403
                   [] mode \in {"session_token", "static_token"} ->
                        [right |-> 0, wrong |-> 401, foreign |-> 500][request.token]
                   [] OTHER -> 401
  IN  /\ phase = "arrived"
      /\ IF refused # 0 THEN Respond(refused) ELSE phase' = "reading" /\ UNCHANGED answer
      /\ UNCHANGED <<mode, request, kept, events>>

\* _encode_failure: the error, the terminal and the end, through the encoder.
Failure(given) == given \o <<"error", "stop", "finish">>

\* _handle_body_parse_error: a streaming client gets its error as a stream,
\* whose status is that of a stream that began.
ParseError(status, streams) ==
  /\ phase' = "answered"
  /\ answer' = [status |-> IF streams THEN 200 ELSE status, error |-> TRUE]
  /\ events' = IF streams THEN Failure(<<>>) ELSE events

DeclaredTooLarge ==
  /\ phase = "reading" /\ kept = 0 /\ request.declared = "large"
  /\ ParseError(413, FALSE)
  /\ UNCHANGED <<mode, request, kept>>

\* Mutant: the chunk is kept, then measured.
ChunkKeptFirst(size) ==
  /\ phase = "reading" /\ request.declared # "large"
  /\ kept' = kept + size
  /\ IF kept' > MaxBody THEN \E sniffed \in BOOLEAN : ParseError(413, sniffed)
     ELSE UNCHANGED <<phase, answer, events>>
  /\ UNCHANGED <<mode, request>>

\* A chunk that would pass the limit is not kept; whether the client streams
\* is guessed from what came before, unless that nests too deeply to be read.
Chunk(size) ==
  /\ phase = "reading" /\ request.declared # "large"
  /\ IF kept + size > MaxBody
       THEN /\ \/ \E sniffed \in BOOLEAN : ParseError(413, sniffed)
               \/ request.body = "too deep" /\ Respond(500) /\ UNCHANGED events
            /\ UNCHANGED kept
       ELSE kept' = kept + size /\ UNCHANGED <<phase, answer, events>>
  /\ UNCHANGED <<mode, request>>

BodyEnds ==
  /\ phase = "reading" /\ request.declared # "large" /\ phase' = "read"
  /\ UNCHANGED <<mode, request, kept, answer, events>>

\* Only an object gets past.  Of a malformed body a pattern tells whether the
\* client streams; of another value nothing does.  The two errors that are no
\* JSONDecodeError leave the handler: a bare 500.
ParseRequest ==
  /\ phase = "read"
  /\ CASE request.body = "object" -> phase' = "parsed" /\ UNCHANGED <<answer, events>>
       [] request.body = "malformed" -> ParseError(400, request.streams)
       [] request.body = "other" -> ParseError(400, FALSE)
       [] request.body \in {"not utf-8", "too deep"} -> Respond(500) /\ UNCHANGED events
  /\ UNCHANGED <<mode, request, kept>>

\* decode_request, and the opener of a stream.
Decode ==
  /\ phase = "parsed"
  /\ CASE request.decodes ->
            /\ phase' = "gateway"
            /\ IF request.streams THEN events' = <<"start">> /\ answer' = [status |-> 200, error |-> FALSE]
               ELSE UNCHANGED <<events, answer>>
       [] OTHER -> ParseError(422, request.streams)
  /\ UNCHANGED <<mode, request, kept>>

-----------------------------------------------------------------------------
(* The answer that is not streamed. *)

\* Mutant: the result is encoded without a look at its error.
ResultAsSuccess ==
  /\ phase = "gateway" /\ ~request.streams
  /\ \E failed \in BOOLEAN : answer' = [status |-> 200, error |-> failed]
  /\ phase' = "answered" /\ UNCHANGED <<mode, request, kept, events>>

\* handle_request returns: _encode_gateway_result looks at its error first.
Result ==
  /\ phase = "gateway" /\ ~request.streams
  /\ \E failed \in BOOLEAN : IF failed THEN Respond(502) ELSE Respond(200)
  /\ UNCHANGED <<mode, request, kept, events>>

\* Or raises: a ValueError is the client's, anything else is not.
Raised ==
  /\ phase = "gateway" /\ ~request.streams
  /\ \E status \in {400, 500} : Respond(status)
  /\ UNCHANGED <<mode, request, kept, events>>

-----------------------------------------------------------------------------
(* The stream. *)

Produced == Len(SelectSeq(events, LAMBDA e : e \in {"content", "error"}))

Event ==
  /\ phase = "gateway" /\ request.streams
  /\ \/ /\ Produced < MaxEvents
        /\ \E e \in {"content", "error"} : events' = Append(events, e)
        /\ UNCHANGED phase
     \/ events' = Append(events, "stop") /\ phase' = "closing"
     \/ phase' = "stopping" /\ UNCHANGED events   \* the generator just ends
  /\ UNCHANGED <<mode, request, kept, answer>>

\* The generator is closed, then the encoder finishes.
StreamEnds ==
  /\ phase \in {"closing", "stopping"}
  /\ events' = Append(events, "finish") /\ phase' = "answered"
  /\ answer' = [answer EXCEPT !.error = \E i \in DOMAIN events : events[i] = "error"]
  /\ UNCHANGED <<mode, request, kept>>

\* The generator raises while it runs or while it is closed.
StreamRaises ==
  /\ phase \in {"gateway", "closing"} /\ request.streams
  /\ events' = Failure(events) /\ phase' = "answered"
  /\ answer' = [answer EXCEPT !.error = TRUE]
  /\ UNCHANGED <<mode, request, kept>>

\* The client goes: the generator is closed and nothing more is sent.
Disconnect ==
  /\ phase \in {"gateway", "closing"} /\ request.streams
  /\ phase' = "answered" /\ answer' = [answer EXCEPT !.status = 0]
  /\ UNCHANGED <<mode, request, kept, events>>

ServerNext ==
  \/ Authenticate \/ DeclaredTooLarge \/ (\E size \in 1..MaxChunk : Chunk(size)) \/ BodyEnds
  \/ ParseRequest \/ Decode \/ Result \/ Raised \/ Event \/ StreamEnds \/ StreamRaises \/ Disconnect

-----------------------------------------------------------------------------
\* Nobody unauthenticated has a byte of his body read, no client makes the
\* server keep more than the limit whatever length he declared, and a body
\* over the limit never reaches the gateway (app.py:89).
BodyBounded ==
  /\ kept <= MaxBody
  /\ kept > 0 => /\ mode = "none_loopback" => request.loopback
                 /\ mode # "none_loopback" => mode # "misspelt" /\ request.token = "right"

\* A client is told how it ended, once: an error is never a response of 200,
\* success is never anything else, and a stream that ends without a
\* disconnect has its opener first and its end last, and an error in between
\* when it failed (app.py:223, app.py:560).
AnsweredHonestly ==
  phase = "answered" =>
    /\ answer.status # 0 \/ request.streams
    /\ events = <<>> => (answer.error <=> answer.status >= 400)
    /\ (events # <<>> /\ answer.status = 200) =>
         /\ events[Len(events)] = "finish"
         /\ \A i \in DOMAIN events : (events[i] = "finish" => i = Len(events)) /\ (events[i] = "start" => i = 1)
         /\ answer.error <=> \E i \in DOMAIN events : events[i] = "error"

ServerSound == BodyBounded /\ AnsweredHonestly

(* What the words of the code promise and it does not keep. *)

\* app.py:211: the failure goes through the encoder as any in-band error does.
\* After the gateway has stopped, its terminal has been encoded already.
OneStop == \A i, j \in DOMAIN events : events[i] = "stop" /\ events[j] = "stop" => i = j

\* app.py:102: a body that cannot be parsed is a BodyParseError, "so callers
\* can encode a protocol-correct error"; app.py:144 says the same of a value
\* that is no object.
ParseErrorsEncoded ==
  (phase = "answered" /\ kept > 0 /\ answer.status = 500) => request.body = "object"
=============================================================================
