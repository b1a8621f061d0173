------------------------------ MODULE Extraction ------------------------------
(***************************************************************************)
(* How tool calls are found in what a model wrote: the parser of the plan  *)
(* reads the text, the fallback strategies of the profile follow while     *)
(* nothing is found, and what the backend reported itself is merged in.    *)
(* A text is a sequence of tokens: prose, JSON objects, tags, markers, line *)
(* ends and code fences; spans of text are spans of its positions.         *)
(***************************************************************************)
EXTENDS Naturals, Sequences, FiniteSets, FiniteSetsExt, SequencesExt

CONSTANTS
  Messages,    \* the texts a model may write
  Declared,    \* names of the tools of the request
  Plans,       \* [mode, parser, strategies, choice], strategies being
               \* sequences of [parser, skip, modes], that requests may have
  Natives      \* sets of [id, tool, arguments] the backend reports itself

Parsers == {"tool_call_envelope", "native_structured", "hermes", "qwen", "mistral", "deepseek",
            "llama", "generic_balanced_json", "whole_message_json"}

\* A text is a sequence, the fallback strategies are tried in their order and,
\* as profile files are checked for it, name registered parsers; a call the
\* backend reports has no place in the text.
ASSUME ExtractionAssumption ==
  /\ \A m \in Messages : m \in Seq(Range(m))
  /\ \A p \in Plans : /\ p.parser \in Parsers \union {"none"}
                      /\ p.strategies \in Seq(Range(p.strategies))
                      /\ \A i \in DOMAIN p.strategies : p.strategies[i].parser \in Parsers
  /\ \A calls \in Natives : IsFiniteSet(calls) /\ \A n \in calls : n.at = {}

VARIABLES
  reading,     \* "planned", "primary", "merging", "done"
  invocation,  \* the plan's [mode, parser, strategies, choice, nonce] of the request
  written,     \* the text
  reported,    \* the calls the backend reports
  next,        \* the strategy that is tried next
  finding,     \* [calls, left, twice] so far
  merged       \* the candidates that go to the tool transaction

extractionVars == <<reading, invocation, written, reported, next, finding, merged>>

ToolChoices == {"auto", "required", "named", "none"}
Named == CHOOSE t \in Declared : TRUE            \* the tool a named choice names
Found(calls, left) == [calls |-> calls, left |-> left, twice |-> {}]
Nothing(m) == Found(<<>>, DOMAIN m)
Unplanned == [mode |-> "disabled", parser |-> "none", strategies |-> <<>>, choice |-> "none", nonce |-> FALSE]

ExtractionTypeOK ==
  /\ reading \in {"planned", "primary", "merging", "done"}
  /\ next \in 1..(Len(invocation.strategies) + 1)
  /\ finding.left \subseteq DOMAIN written

-----------------------------------------------------------------------------
(* The text as the extractors see it. *)

\* Mutant: a fence that is not closed is no fence.
MaskedClosed(m) ==
  LET fences == {j \in DOMAIN m : m[j].is = "fence"}
  IN  {i \in DOMAIN m : LET before == Cardinality({j \in fences : j < i})
                        IN  i \in fences \/ (before % 2 = 1 /\ before < Cardinality(fences))}

\* _mask_fenced_code: closed fences, and one left open up to the end.
Masked(m) ==
  LET fences == {j \in DOMAIN m : m[j].is = "fence"}
  IN  {i \in DOMAIN m : i \in fences \/ Cardinality({j \in fences : j < i}) % 2 = 1}

Unmasked(m, is) == {i \in DOMAIN m \ Masked(m) : m[i].is = is}
Tags(m, is, tags) == {i \in Unmasked(m, is) : m[i].tag \in tags}
Solid(m, from, to) == {k \in (from + 1)..(to - 1) : k \notin Masked(m) /\ m[k].is # "newline"}
After(positions, i) == {j \in positions : j > i}

\* Where the next of the positions is, 0 if there is none.
NextOf(positions, i) == IF After(positions, i) = {} THEN 0 ELSE Min(After(positions, i))

\* Matches of a regular expression: from left to right, each from the first
\* start after the last one to the end ends gives it (0 if there is none).
Spans(m, starts, ends) ==
  FoldLeft(LAMBDA found, i :
             IF i \in starts /\ ends[i] # 0 /\ (found = <<>> \/ i > Last(found).to)
               THEN Append(found, [from |-> i, to |-> ends[i]]) ELSE found,
           <<>>, [i \in DOMAIN m |-> i])

\* Everything before, between and after the spans stays text.
Rest(m, spans) == DOMAIN m \ UNION {s.from..s.to : s \in Range(spans)}

-----------------------------------------------------------------------------
(* What a payload says. *)

NoCall == [tool |-> "", arguments |-> "nothing", nonce |-> FALSE, id |-> "none", at |-> {}]
Payload(m, at) == IF at = {} THEN NoCall ELSE [NoCall EXCEPT !.arguments = "payload", !.at = at]

\* extract_field_spans: a value that nests both kinds of brackets is read past
\* its end, as only one kind is counted down; so is one with a stray quote.
RawValue(object) == IF object.mixed THEN "overrun" ELSE "value"

\* _extract_name_and_args_from_raw: the fields of an object that starts the
\* payload, whether it parses or not.
FieldsOf(m, at) ==
  IF at = {} \/ m[Min(at \union {Len(m)})].is # "object" THEN Payload(m, at)
  ELSE LET o == m[Min(at)]
       IN  [Payload(m, at) EXCEPT
              !.tool = IF o.key = "name" THEN o.tool ELSE "",
              !.arguments = IF o.args = "arguments" /\ o.key \in {"name", "tool"} THEN RawValue(o) ELSE "payload"]

\* _extract_name_and_args_from_tag_attributes
AttributesOf(m, i) == [NoCall EXCEPT !.tool = m[i].call, !.arguments = "value", !.at = {i}]

\* _normalize_name_and_args_from_json: one object, that parses.  A nested
\* function whose arguments are a text is looked up among the outer fields,
\* and loses its name.
Normalized(m, at) ==
  IF Cardinality(at) # 1 THEN Payload(m, at)
  ELSE LET o == m[Min(at)]
       IN  IF o.is # "object" \/ ~o.sound \/ o.key = "data" THEN Payload(m, at)
           ELSE [Payload(m, at) EXCEPT
                   !.tool = IF o.key = "nested text" THEN "" ELSE o.tool,
                   !.arguments = IF o.args = "none" THEN "payload" ELSE "value"]

\* _unpack_json_payload: an array of objects is written as objects in a row.
Unpacked(m, at) == IF \A k \in at : m[k].is = "object" THEN {{k} : k \in at} ELSE {at}

\* A list of calls without some of them.
Dropping(calls, dropped) ==
  FoldLeft(LAMBDA kept, c : IF c \in dropped THEN kept ELSE Append(kept, c), <<>>, calls)

\* What neither names a tool nor has a payload is no call.
Spoken(calls) == Dropping(calls, {c \in Range(calls) : c.tool = "" /\ c.at = {}})
CallsOf(m, payloads) == Spoken([p \in DOMAIN payloads |-> Normalized(m, payloads[p])])

\* The payloads of those spans whose text is JSON.
PayloadsOf(m, spans, json) ==
  FoldLeft(LAMBDA all, s : IF s \in json THEN all \o SetToSeq(Unpacked(m, Solid(m, s.from, s.to))) ELSE all,
           <<>>, spans)

----------------------------------------------------------------------------
(* Tags. *)

\* scan_envelopes, for a text without one well-formed envelope: closing tags
\* pair with the last open one of the family; an object that ends at a closing
\* tag stands for its opening one; an object alone after an opening tag, for its
\* closing one.
SolidObjects(m, from, to) == {k \in Solid(m, from, to) : m[k].is = "object" /\ m[k].sound}

Closing(m, s, k) ==
  LET body == Solid(m, s.cursor, k)
      last == {o \in SolidObjects(m, s.cursor, k) : After(body, o) = {}}
      stray == \E b \in body : m[b].is = "brace"
  IN  IF s.open # <<>>
        THEN [open |-> Front(s.open), cursor |-> k,
              found |-> s.found \union {[from |-> Last(s.open), to |-> k, at |-> Solid(m, Last(s.open), k)]}]
      ELSE IF last = {} \/ stray THEN s
      ELSE [s EXCEPT !.cursor = k, !.found = @ \union {[from |-> Max(last), to |-> k, at |-> last]}]

Scan(m, tags, s, k) ==
  IF k \notin tags THEN s
  ELSE IF m[k].is = "open" THEN [s EXCEPT !.open = Append(@, k)]
  ELSE Closing(m, s, k)

ScanTags(m, tags) ==
  FoldLeft(LAMBDA s, k : Scan(m, tags, s, k), [open |-> <<>>, cursor |-> 0, found |-> {}], [i \in DOMAIN m |-> i])

Recovered(m, family) ==
  LET tags == Tags(m, "open", family) \union Tags(m, "close", family)
      end == ScanTags(m, tags)
      alone(i) == LET to == Min(After(tags, i) \union {Len(m) + 1})
                  IN  IF Cardinality(Solid(m, i, to)) = 1 THEN SolidObjects(m, i, to) ELSE {}
  IN  end.found \union {[from |-> i, to |-> Min(alone(i)), at |-> alone(i)] :
                          i \in {j \in Range(end.open) : alone(j) # {}}}

\* _recover_first_envelope
FirstRecovered(m, tag, aliases) ==
  LET found == Recovered(m, {tag} \union aliases)
  IN  {r \in found : \A s \in found : r.from <= s.from}

\* The text of one dialect of tags: its envelopes, or else the first one that
\* can be recovered.
Tagged(m, tag, aliases, payload, attributes) ==
  LET spans == Spans(m, Tags(m, "open", {tag}),
                     [i \in DOMAIN m |-> NextOf(Tags(m, "close", {tag}), i)])
      said(s) == LET c == payload[Solid(m, s.from, s.to)] IN IF c = NoCall THEN attributes[s.from] ELSE c
      read == [s \in DOMAIN spans |-> said(spans[s])]
      recovered == {r \in FirstRecovered(m, tag, aliases) : r.at # {}}
  IN  IF spans # <<>>
        THEN Found(Spoken(read), Rest(m, spans))
      ELSE IF recovered # {}
        THEN LET r == CHOOSE s \in recovered : TRUE
             IN  Found(<<payload[r.at]>>, Rest(m, <<r>>))
      ELSE Nothing(m)

EnvelopeAliases == {"toolcall"}      \* and two more spellings

EnvelopeExtract(m) ==
  Tagged(m, "tool_call", EnvelopeAliases, [at \in SUBSET DOMAIN m |-> FieldsOf(m, at)],
         [i \in DOMAIN m |-> IF m[i].call = "none" THEN NoCall ELSE AttributesOf(m, i)])

HermesExtract(m) ==
  Tagged(m, "tool_call", EnvelopeAliases, [at \in SUBSET DOMAIN m |-> Normalized(m, at)], [i \in DOMAIN m |-> NoCall])

QwenExtract(m) ==
  Tagged(m, "tool", EnvelopeAliases, [at \in SUBSET DOMAIN m |-> Normalized(m, at)], [i \in DOMAIN m |-> NoCall])

-----------------------------------------------------------------------------
(* Markers. *)

Marks(m, of) == {i \in Unmasked(m, "marker") : m[i].of = of}
LineEnd(m, i) == Min(After(Unmasked(m, "newline"), i) \union {Len(m) + 1})

\* [TOOL_CALLS] up to the end of the line that follows it; text that is no JSON
\* is passed over, left out of the remaining text, and what stood before it is
\* in that text twice.
MistralExtract(m) ==
  LET first(i) == Min({k \in (i + 1)..Len(m) : k \notin Masked(m) /\ m[k].is # "newline"} \union {Len(m) + 1})
      spans == Spans(m, Marks(m, "mistral"), [i \in DOMAIN m |-> LineEnd(m, first(i) - 1)])
      json(s) == LET at == Solid(m, s.from, s.to) IN
                     at # {} /\ (m[Min(at)].is \in {"object", "brace"} \/ Min(at) \in Marks(m, "mistral"))
      before(k) == ((IF k = 1 THEN 0 ELSE spans[k - 1].to) + 1)..(spans[k].from - 1)
      payloads == PayloadsOf(m, spans, {s \in Range(spans) : json(s)})
  IN  IF spans = <<>> THEN Nothing(m)
      ELSE [Found(CallsOf(m, payloads), Rest(m, spans)) EXCEPT !.twice =
              UNION {before(k) : k \in {l \in DOMAIN spans : ~json(spans[l])}}]

\* Between two control characters.
DeepSeekExtract(m) ==
  LET spans == Spans(m, Marks(m, "deepseek"),
                     [i \in DOMAIN m |-> NextOf(Marks(m, "deepseek"), i)])
      payloads == [s \in DOMAIN spans |-> Solid(m, spans[s].from, spans[s].to)]
  IN  IF spans = <<>> THEN Nothing(m)
      ELSE Found(CallsOf(m, payloads), Rest(m, spans))

\* <|python_tag|> up to the end of its line, prose or not.
LlamaExtract(m) ==
  LET spans == Spans(m, Marks(m, "llama"), [i \in DOMAIN m |-> LineEnd(m, i)])
      payloads == PayloadsOf(m, spans, Range(spans))
  IN  IF spans = <<>> THEN Nothing(m)
      ELSE Found(CallsOf(m, payloads), Rest(m, spans))

-----------------------------------------------------------------------------
(* Objects without an envelope. *)

\* BalancedJsonScanner.scan: a brace that is never closed takes all that
\* follows it.
Scanned(m) == {i \in Unmasked(m, "object") : \A b \in Unmasked(m, "brace") : b > i}

GenericExtract(m) ==
  LET named == {i \in Scanned(m) : Normalized(m, {i}).tool \in Declared}
      call(i) == [Normalized(m, {i}) EXCEPT
                    !.arguments = IF m[i].args \in {"arguments", "parameters"} /\ m[i].key \in {"name", "tool"}
                                    THEN RawValue(m[i]) ELSE "payload"]
  IN  IF named = {} THEN Nothing(m)
      ELSE Found(Spoken([i \in DOMAIN m |-> IF i \in named THEN call(i) ELSE NoCall]), DOMAIN m \ named)

\* One object, bare or in one fence, that is the whole message and has the keys
\* of a call only; arguments that do not parse are kept for the repair.
WholeExtract(m) ==
  LET ink == {i \in DOMAIN m : m[i].is # "newline"}
      fences == {i \in ink : m[i].is = "fence"}
      inner == {i \in ink \ fences : m[i].is = "brace" => i # Min(ink)}    \* it would not parse
      whole == /\ Cardinality(inner) = 1 /\ m[Min(ink \union {Len(m)})].is \in {"object", "fence", "brace"}
               /\ fences = {} \/ (Cardinality(fences) = 2 /\ fences = {Min(ink), Max(ink)})
  IN  IF ~whole THEN Nothing(m)
      ELSE LET i == CHOOSE k \in inner : TRUE
               o == m[i]
           IN  IF /\ o.is = "object" /\ o.key = "name" /\ o.args = "arguments" /\ ~o.extra
                  /\ o.tool \in Declared
                 THEN Found(<<[tool |-> o.tool, arguments |-> RawValue(o), nonce |-> o.nonce,
                                 id |-> o.id, at |-> {i}]>>, {})
                 ELSE Nothing(m)

Extract(parser, m) ==
  CASE parser = "tool_call_envelope" -> EnvelopeExtract(m)
    [] parser = "hermes" -> HermesExtract(m)
    [] parser = "qwen" -> QwenExtract(m)
    [] parser = "mistral" -> MistralExtract(m)
    [] parser = "deepseek" -> DeepSeekExtract(m)
    [] parser = "llama" -> LlamaExtract(m)
    [] parser = "generic_balanced_json" -> GenericExtract(m)
    [] parser = "whole_message_json" -> WholeExtract(m)
    [] parser \in {"native_structured", "none"} -> Nothing(m)

-----------------------------------------------------------------------------
(* The registry and the merge. *)

ExtractionInit ==
  /\ reading = "planned" /\ invocation = Unplanned /\ written = <<>> /\ reported = {} /\ next = 1
  /\ finding = Nothing(<<>>) /\ merged = <<>>

\* The answer of a generation of a request with an invocation plan; only a prompted plan
\* whose profile asks for it carries a nonce.
Primary ==
  /\ reading = "planned"
  /\ \E p \in Plans :
       invocation' = [mode |-> p.mode, parser |-> p.parser, strategies |-> p.strategies, choice |-> p.choice,
                nonce |-> p.mode = "prompted" /\ \E i \in DOMAIN p.strategies :
                            p.strategies[i].parser = "whole_message_json" /\ "auto" \in p.strategies[i].modes]
  /\ written' \in Messages /\ reported' \in Natives
  /\ finding' = IF invocation'.mode = "disabled" THEN Nothing(written') ELSE Extract(invocation'.parser, written')
  /\ reading' = IF invocation'.mode = "disabled" THEN "done"
                ELSE IF invocation'.parser \in {"native_structured", "none"} THEN "merging" ELSE "primary"
  /\ UNCHANGED <<next, merged>>

\* Mutant: the nonce is not compared.
AllowedUnverified(strategy, found) ==
  /\ strategy.parser # invocation.parser
  /\ ~(strategy.skip /\ reported # {})
  /\ invocation.choice \in strategy.modes
  /\ found.calls # <<>>
  /\ invocation.choice = "named" => found.calls[1].tool = Named

\* ExtractorRegistry.extract: the conditions of a fallback strategy.
Allowed(strategy, found) ==
  /\ AllowedUnverified(strategy, found)
  /\ (strategy.parser = "whole_message_json" /\ invocation.choice = "auto") =>
       invocation.nonce /\ found.calls[1].nonce

\* One strategy after the other, while nothing is found.
Fallback ==
  /\ reading = "primary"
  /\ IF finding.calls # <<>> \/ next > Len(invocation.strategies)
       THEN reading' = "merging" /\ UNCHANGED <<next, finding>>
       ELSE LET found == Extract(invocation.strategies[next].parser, written)
            IN  /\ finding' = IF Allowed(invocation.strategies[next], found) THEN found ELSE finding
                /\ next' = next + 1 /\ UNCHANGED reading
  /\ UNCHANGED <<invocation, written, reported, merged>>

\* _dedup_tool_candidates: an id decides, and else name and arguments.
Echo(c) ==
  IF c.id # "none" THEN \E n \in reported : n.id = c.id
  ELSE \E n \in reported : n.tool = c.tool /\ n.arguments = c.arguments

\* _extract_tool_candidates: every native call stays.
MergeNative ==
  /\ reading = "merging" /\ reading' = "done"
  /\ merged' = SetToSeq(reported) \o Dropping(finding.calls, {c \in Range(finding.calls) : Echo(c)})
  /\ UNCHANGED <<invocation, written, reported, next, finding>>

ExtractionNext == Primary \/ Fallback \/ MergeNative

-----------------------------------------------------------------------------
\* Nothing in a code fence becomes a call, but a fence that is the whole
\* message of a model whose profile allows it; no two calls are read from one
\* piece of text, and none stays behind as text for the client to see
\* (extraction.py:155, gateway.py:2396).
ReadOnce ==
  LET read == [c \in DOMAIN finding.calls |-> finding.calls[c].at]
      fenced(i) == Cardinality({j \in 1..i : written[j].is = "fence"}) % 2 = 1
  IN  /\ \A c \in DOMAIN read : (\E i \in read[c] : fenced(i)) =>
           finding.left = {} /\ (invocation.parser = "whole_message_json" \/ next > 1)
      /\ \A c \in DOMAIN read : read[c] \intersect finding.left = {}
      /\ \A c, d \in DOMAIN read : c # d => read[c] \intersect read[d] = {}

\* A call that no dialect was taught for comes from a strategy that the tool
\* choice admits, for the tool it names, never beside what the backend
\* reported unless the strategy says so, and under "auto" with the nonce of
\* this request (extraction.py:1728); a disabled route has no call at all.
Trusted ==
  /\ invocation.mode = "disabled" => finding.calls = <<>> /\ merged = <<>>
  /\ invocation.parser = "native_structured" => finding.calls = <<>>
  /\ (next > 1 /\ finding.calls # <<>>) =>
       LET s == invocation.strategies[next - 1]
       IN  /\ invocation.choice \in s.modes /\ (s.skip => reported = {})
           /\ invocation.choice = "named" => finding.calls[1].tool = Named
           /\ (s.parser = "whole_message_json" /\ invocation.choice = "auto") => \E i \in DOMAIN written :
                invocation.nonce /\ written[i].is = "object" /\ written[i].nonce

\* The call of the backend is there, once, whatever the text repeats of it
\* (gateway.py:2462).
Reported ==
  reading = "done" /\ invocation.mode # "disabled" =>
    \A n \in reported : Cardinality({i \in DOMAIN merged : merged[i] = n}) = 1

CandidatesSound == Trusted /\ Reported

(* What the words of the code promise and it does not keep. *)

\* json_scan.py: the exact span of a value.  Arguments that nest a list in an
\* object are read past their end, and no repair mends them.
ExactSpans == \A c \in DOMAIN finding.calls : finding.calls[c].arguments # "overrun"

\* extraction.py:208: even a malformed envelope that clearly intends a tool
\* call produces a candidate.  One whose payload stands in a code fence is
\* removed from the text and gives none; so is prose after [TOOL_CALLS], and
\* the text before it is repeated.
TextStays ==
  reading = "done" => /\ finding.twice = {}
                       /\ DOMAIN written \ finding.left \subseteq
                         UNION {finding.calls[c].at : c \in DOMAIN finding.calls} \union
                         {i \in DOMAIN written : written[i].is \in {"open", "close", "marker", "newline", "fence"}}

\* extraction.py:1098: {"function": {"name": ..., "arguments": ...}}.  A nested
\* function whose arguments are a text loses its name.
NamesKept ==
  \A c \in DOMAIN finding.calls : finding.calls[c].tool = "" =>
    \A i \in finding.calls[c].at : written[i].is = "object" => ~written[i].sound \/ written[i].key = "data"
=============================================================================
