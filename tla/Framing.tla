------------------------------ MODULE Framing ------------------------------
(***************************************************************************)
(* A streamed body on its way from the socket to the engine: byte chunks   *)
(* of any size, lines (UpstreamStream._bounded_lines), records             *)
(* (SSEDecoder) or JSON lines (NDJSONDecoder), each with its limits.  Of a *)
(* byte only its role is kept: "x" is content that starts or continues a   *)
(* data line, "c" starts a comment or a field without data, "r" and "n"   *)
(* are the line end.  A frame is the content bytes of its data lines.      *)
(***************************************************************************)
EXTENDS Naturals, Sequences, SequencesExt, FiniteSetsExt

CONSTANTS
  WireLength,  \* bytes of a body (bound)
  MaxLine,     \* max_sse_buffer_bytes, max_ndjson_frame_bytes
  MaxData,     \* max_sse_data_bytes
  MaxTotal     \* max_total_stream_bytes

ASSUME FramingAssumption == WireLength \in Nat /\ MaxLine \in Nat /\ MaxData \in Nat /\ MaxTotal \in Nat

VARIABLES
  framing,     \* StreamFraming of the route
  wire,        \* what the backend sends
  fed,         \* bytes of it read so far
  decoder,     \* the line buffer and the decoder's accumulators
  streamEnd    \* "open", "eof", "limit" or "broken"

framingVars == <<framing, wire, fed, decoder, streamEnd>>

Bytes == {"x", "c", "r", "n"}
Long == <<"long">>   \* a MalformedNDJSONLine for its length

FramingTypeOK ==
  /\ framing \in {"sse", "ndjson"} /\ wire \in BoundedSeq(Bytes, WireLength)
  /\ fed \in 0..Len(wire) /\ streamEnd \in {"open", "eof", "limit", "broken"}
  /\ decoder.line \in Seq(Bytes) /\ decoder.data \in Seq(Nat)
  /\ decoder.size \in 0..MaxLine /\ decoder.total \in Nat

FramingInit ==
  /\ framing \in {"sse", "ndjson"}
  /\ wire \in BoundedSeq(Bytes, WireLength)
  /\ fed = 0 /\ streamEnd = "open"
  /\ decoder = [line |-> <<>>, data |-> <<>>, size |-> 0, total |-> 0, frames |-> <<>>, error |-> FALSE]

-----------------------------------------------------------------------------
Chomp(line) ==   \* one trailing CR
  IF line # <<>> /\ Last(line) = "r" THEN Front(line) ELSE line

ChompAll(line) ==   \* rstrip("\r")
  SubSeq(line, 1, Max({0} \cup {i \in DOMAIN line : line[i] # "r"}))

Strip(line) ==   \* strip()
  LET content == {i \in DOMAIN line : line[i] # "r"}
  IN  IF content = {} THEN <<>> ELSE SubSeq(line, Min(content), Max(content))

Failed(d) == [d EXCEPT !.error = TRUE]

Emit(d) ==   \* SSEDecoder._emit, then reset_buffer_counter
  [d EXCEPT !.frames = Append(@, d.data), !.data = <<>>, !.size = 0]

\* sse_events on one line, SSEDecoder.feed.
SSELine(d, raw) ==
  LET line == Chomp(raw)
      d2 == [d EXCEPT !.line = <<>>, !.total = @ + Len(line) + 1, !.size = @ + Len(line) + 1]
      field == ChompAll(line)
  IN  IF d2.total > MaxTotal \/ d2.size > MaxLine THEN Failed(d)
      ELSE CASE field = <<>> -> Emit(d2)
             [] field # <<>> /\ field[1] = "x" ->
                  IF FoldLeft(LAMBDA a, b : a + b, Len(field), d.data) > MaxData THEN Failed(d)
                  ELSE [d2 EXCEPT !.data = Append(@, Len(field))]
             [] OTHER -> d2

\* NDJSONDecoder.feed on one line.
JSONItem(line) == IF Len(line) > MaxLine THEN Long ELSE <<Len(line)>>

JSONLine(d, raw) ==
  LET line == ChompAll(raw)
      d2 == [d EXCEPT !.line = <<>>]
  IN  IF line = <<>> THEN d2 ELSE [d2 EXCEPT !.frames = Append(@, JSONItem(line))]

Byte(d, b) ==
  CASE d.error -> d
    [] ~d.error /\ b # "n" -> [d EXCEPT !.line = Append(@, b)]
    [] ~d.error /\ b = "n" /\ framing = "sse" -> SSELine(d, d.line)
    [] OTHER -> JSONLine(d, d.line)

\* Mutant: the cap is checked before the complete lines are drained.
CapFirst(d, chunk) ==
  LET d2 == FoldLeft(Byte, d, chunk)
  IN  IF framing = "sse" /\ Len(d.line) + Len(chunk) > MaxLine THEN Failed(d2) ELSE d2

\* One chunk: its bytes, then the cap on what is left without a line end.
\* NDJSON counts the chunk against the total before it looks at it.
FeedChunk(d, chunk) ==
  IF framing = "sse"
    THEN LET d2 == FoldLeft(Byte, d, chunk)
         IN  IF Len(d2.line) > MaxLine THEN Failed(d2) ELSE d2
    ELSE LET d2 == [d EXCEPT !.total = @ + Len(chunk)]
         IN  IF d2.total > MaxTotal THEN Failed(d2) ELSE FoldLeft(Byte, d2, chunk)

Chunk ==
  /\ streamEnd = "open" /\ fed < Len(wire)
  /\ \E n \in 1..(Len(wire) - fed) :
       /\ fed' = fed + n
       /\ decoder' = FeedChunk(decoder, SubSeq(wire, fed + 1, fed + n))
  /\ streamEnd' = IF decoder'.error THEN "limit" ELSE "open"
  /\ UNCHANGED <<framing, wire>>

\* Mutant: nothing is flushed.
FlushNothing(d) == d

\* A last line without its end, and a last record without its blank line.
Flush(d) ==
  IF framing = "sse"
    THEN LET d2 == IF d.line = <<>> THEN d ELSE SSELine(d, d.line)
         IN  IF d2.error \/ d2.data = <<>> THEN d2 ELSE Emit(d2)
    ELSE LET tail == Strip(d.line)
         IN  IF tail = <<>> THEN [d EXCEPT !.line = <<>>] ELSE JSONLine(d, tail)

EndOfStream ==
  /\ streamEnd = "open" /\ fed = Len(wire)
  /\ decoder' = Flush(decoder)
  /\ streamEnd' = IF decoder'.error THEN "limit" ELSE "eof"
  /\ UNCHANGED <<framing, wire, fed>>

\* The connection breaks: the decoder's tail is discarded.
Breaks ==
  /\ streamEnd = "open"
  /\ streamEnd' = "broken"
  /\ UNCHANGED <<framing, wire, fed, decoder>>

FramingDone == streamEnd # "open" /\ UNCHANGED framingVars

FramingNext == Chunk \/ EndOfStream \/ Breaks \/ FramingDone

FramingSpec == FramingInit /\ [][FramingNext]_framingVars

-----------------------------------------------------------------------------
(* What a body means, whatever the chunks: its lines, each known by where   *)
(* it ends, and of these the records between blank lines or the JSON lines. *)

Before(S, e) == Max({0} \cup {x \in S : x < e})
Rank(S, e) == Cardinality({x \in S : x <= e})

Ends ==   \* a last line may lack its line end
  {i \in DOMAIN wire : wire[i] = "n"} \cup (IF wire # <<>> /\ Last(wire) # "n" THEN {Len(wire) + 1} ELSE {})

LineTo(e) == SubSeq(wire, Before(Ends, e) + 1, e - 1)
Field(e) == ChompAll(LineTo(e))
Blanks == {e \in Ends : Field(e) = <<>>}
DataLines == {e \in Ends : Field(e) # <<>> /\ Field(e)[1] = "x"}

\* Of the record that ends at e: its data lines, the bytes of data in them,
\* and what all its lines weigh, a CRLF no more than a line end.
DataOf(e) == {c \in DataLines : Before(Blanks, e) < c /\ c <= e}
DataBytes(e) == UNION {Before(Ends, c) + 1 .. Before(Ends, c) + Len(Field(c)) : c \in DataOf(e)}
Weight(from, e) == e - from - Cardinality({c \in Ends : from < c /\ c <= e /\ c > 1 /\ wire[c - 1] = "r"})

Item(e) == IF e <= Len(wire) THEN Field(e) ELSE Strip(LineTo(e))

\* The last record may lack its blank line.
Records ==
  IF framing = "sse" THEN Blanks \cup {e \in {Len(wire) + 1} : DataOf(e) # {}}
                     ELSE {e \in Ends : Item(e) # <<>>}

IsFrame(frame, e) ==
  IF framing = "sse"
    THEN /\ Len(frame) = Cardinality(DataOf(e))
         /\ \A c \in DataOf(e) : frame[Rank(DataOf(e), c)] = Len(Field(c))
    ELSE frame = JSONItem(Item(e))

Oversized(e) ==
  Weight(0, e) > MaxTotal \/ Weight(Before(Blanks, e), e) > MaxLine \/ Cardinality(DataBytes(e)) > MaxData

TooLarge == IF framing = "sse" THEN \E e \in Ends : Oversized(e) ELSE Len(wire) > MaxTotal

\* However the socket cuts the body into chunks, inside lines, line ends and
\* records, the engine gets the frames of the body in their order and none
\* made of a part of one; a stream that ends well has given them all; and the
\* limits refuse the same bodies.
ChunkingIrrelevant ==
  /\ Len(decoder.frames) <= Cardinality(Records)
  /\ \A e \in Records : Rank(Records, e) <= Len(decoder.frames) => IsFrame(decoder.frames[Rank(Records, e)], e)
  /\ streamEnd = "eof" => Len(decoder.frames) = Cardinality(Records) /\ ~TooLarge
  /\ streamEnd = "limit" => TooLarge

(* transport/http.py:11, :225: the frame limits bound what is buffered.     *)
\* The line buffer of a stream never holds more than a frame may have.
LineBounded == Len(decoder.line) <= MaxLine
=============================================================================
