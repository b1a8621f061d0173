------------------------------ MODULE MCServices ------------------------------
(***************************************************************************)
(* The services around a request and the algorithms it passes through.     *)
(* They share no state, so a behaviour is one of them at work: "part" says *)
(* which, and the others keep one of their initial states.                 *)
(***************************************************************************)
EXTENDS EvidenceStore, Qualification, LoopDetection, ControllerSession, Server, Readiness, Repair,
        Extraction, Profiles, Preparation

VARIABLE part

----------------------------------------------------------------------------
(* Two templates of one digest under a tag. *)

MCWorlds == {[digest |-> 1, template |-> 1], [digest |-> 1, template |-> 2]}

----------------------------------------------------------------------------
(* Every spelling of one tool, another tool a pack knows, four schemas of two *)
(* fields, an alias of each kind.                                            *)

Tool(word, space, dash, letters) ==
  [word |-> word, space |-> space, dash |-> dash, letters |-> letters]
MCToolNames ==
  {Tool("read", s, d, l) : s, d \in BOOLEAN, l \in {"lower", "title"}}
    \cup {Tool("cat", FALSE, FALSE, "lower")}
MCSchemaAliases == {<<"file", "path">>}
MCPackAliases == {<<"name", "path">>}
MCPackNames == {<<Tool("cat", FALSE, FALSE, "lower"), Tool("read", FALSE, FALSE, "title")>>}
MCSchemas ==
  {[types |-> [path |-> p, items |-> i], required |-> {"path"}, closed |-> c, discriminator |-> "none"] :
     p \in {"string", "integer"}, i \in {"array", "object"}, c \in BOOLEAN}

----------------------------------------------------------------------------
(* Messages: any two tokens, an object of any kind alone or between two tags, *)
(* a plain object or a fence between two tags and two other things.          *)

Token(is) == [is |-> is]
Open(tag, of) == [is |-> "open", tag |-> tag, call |-> of]
Close(tag) == [is |-> "close", tag |-> tag]
Marker(of) == [is |-> "marker", of |-> of]
ReadCall ==
  [is |-> "object", key |-> "name", args |-> "arguments", tool |-> "read", sound |-> TRUE,
   mixed |-> FALSE, extra |-> FALSE, nonce |-> FALSE, id |-> "none"]
Objects ==
  {ReadCall, [ReadCall EXCEPT !.nonce = TRUE], [ReadCall EXCEPT !.mixed = TRUE],
   [ReadCall EXCEPT !.sound = FALSE, !.mixed = TRUE], [ReadCall EXCEPT !.tool = "list"],
   [ReadCall EXCEPT !.id = "i1"], [ReadCall EXCEPT !.extra = TRUE, !.tool = "other"],
   [ReadCall EXCEPT !.key = "nested text"], [ReadCall EXCEPT !.key = "tool", !.args = "params"],
   [ReadCall EXCEPT !.key = "data", !.args = "none"]}
Signs ==
  {Token(is) : is \in {"prose", "newline", "fence", "brace"}}
    \cup {Open("tool_call", "none"), Open("tool_call", "read"), Open("toolcall", "none"), Open("tool", "none")}
    \cup {Close(tag) : tag \in {"tool_call", "toolcall", "tool"}}
    \cup {Marker(of) : of \in {"mistral", "deepseek", "llama"}}
Frames ==
  {<<Open("tool_call", "none"), Close("tool_call")>>, <<Open("tool_call", "read"), Close("tool_call")>>,
   <<Open("tool", "none"), Close("tool")>>, <<Open("toolcall", "none"), Close("tool_call")>>,
   <<Open("tool_call", "none"), Token("prose")>>, <<Token("newline"), Close("tool")>>,
   <<Marker("mistral"), Token("newline")>>, <<Marker("llama"), Token("newline")>>,
   <<Marker("deepseek"), Marker("deepseek")>>, <<Token("fence"), Token("fence")>>}
Around == {<<>>, <<Token("fence")>>, <<ReadCall>>}
MCMessages ==
  UNION {[1 .. n -> Signs \cup {ReadCall}] : n \in 0 .. 2}
    \cup {<<o>> : o \in Objects}
    \cup {<<f[1], o, f[2]>> : f \in Frames, o \in Objects}
    \cup {a \o <<f[1], o, f[2]>> \o b : a, b \in Around, f \in Frames, o \in {ReadCall, Token("fence")}}

Strategy(parser, skips, modes) == [parser |-> parser, skip |-> skips, modes |-> modes]
BareJson == Strategy("generic_balanced_json", TRUE, {"auto", "required", "named"})
Whole(skips, modes) == Strategy("whole_message_json", skips, modes)
Plan(m, parser, strategies, choice) ==
  [mode |-> m, parser |-> parser, strategies |-> strategies, choice |-> choice]
MCPlans ==
  {Plan("prompted", p, <<>>, "auto") : p \in Parsers}
    \cup {Plan("prompted", "hermes", s, c) : c \in ToolChoices,
            s \in {<<BareJson, Whole(FALSE, {"required", "named", "auto"})>>,
                   <<Whole(TRUE, {"required", "named"}), BareJson>>}}
    \cup {Plan("textual", "qwen", <<Whole(TRUE, {"auto"})>>, "auto"),
          Plan("native", "none", <<BareJson>>, "auto"), Plan("disabled", "none", <<>>, "auto")}
MCNatives == {{}, {[id |-> "i1", tool |-> "read", arguments |-> "value", nonce |-> FALSE, at |-> {}]}}

----------------------------------------------------------------------------
(* Profile files: five that validate, four that do not, up to two in a tier. *)

Pattern(shape, length, names) == [shape |-> shape, length |-> length, names |-> names]
Qwen == Pattern("prefix", 4, {"qwen"})
File(id, patterns, kinds, fallback, modes) ==
  [id |-> id, patterns |-> patterns, backends |-> kinds, mode |-> "prompted", parser |-> "hermes",
   declared |-> 8, safe |-> 4, fallback |-> fallback, modes |-> modes, schemaFormat |-> FALSE,
   streams |-> TRUE, damage |-> "none", unknown |-> FALSE]
Sound ==
  {File("qwen", <<Qwen>>, {"ollama", "compatible"}, "none", {"absent"}),
   File("qwen", <<Pattern("exact", 4, {"qwen"})>>, {"ollama"}, "whole_message_json", {"auto"}),
   File("coder", <<Qwen>>, {"ollama"}, "whole_message_json", {"absent"}),
   File("coder", <<Pattern("inside", 3, {"qwen"}), Pattern("any", 2, {"qwen", "other"})>>, {"*"}, "none", {"absent"}),
   File(FallbackId, <<Pattern("any", 2, {"qwen", "other"})>>, {"ollama", "compatible"}, "none", {"absent"})}
Unsound ==
  LET f == File("qwen", <<Qwen>>, {"ollama"}, "none", {"absent"}) IN
  {[f EXCEPT !.damage = "foreign"], [f EXCEPT !.damage = "unreadable"], [f EXCEPT !.unknown = TRUE],
   [f EXCEPT !.safe = 16]}
UpToOne(S) == {<<>>} \cup {<<x>> : x \in S}
UpToTwo(S) == UpToOne(S) \cup {<<x, y>> : x, y \in S}
Library(p, u, b) == [project |-> p, user |-> u, builtin |-> b]
NoFiles == Library(<<>>, <<>>, <<>>)
MCLibraries ==
  {Library(p, u, b) : p \in UpToOne(Sound \cup Unsound), u \in UpToOne(Sound), b \in UpToTwo(Sound)}
    \cup {Library(<<>>, u, b) : u \in UpToTwo(Sound), b \in UpToOne(Sound \cup Unsound)}
    \cup {Library(<<p>>, u, <<>>) : p \in Sound, u \in UpToTwo(Sound)}
MCRecords ==
  {[id |-> "measured", rate |-> r, native |-> TRUE, textual |-> FALSE] : r \in {0, 95}}

----------------------------------------------------------------------------
(* Requests with up to two of four tools, one of them refused and one of them *)
(* reserved; sizes that fit, or do after one or two passes.                  *)

MCOrder == <<"edit", "grep", "odd", "ours">>
MCCost == [t \in {"edit", "grep", "odd", "ours"} |-> IF t = "edit" THEN 2 ELSE 1]
MCScore == [t \in {"edit", "grep", "odd", "ours"} |-> IF t = "grep" THEN 1 ELSE 0]
Ask(tools, choice, streams, old, older) ==
  [tools |-> tools, choice |-> choice, named |-> "edit", stream |-> streams, continues |-> old > 0,
   parallel |-> FALSE, plain |-> 2, results |-> old, turns |-> older, score |-> MCScore]
MCAsks ==
  {Ask(t, c, s, z[1], z[2]) : t \in {{}, {"edit"}, {"edit", "grep"}}, s \in BOOLEAN,
     c \in {"auto", "required", "named", "none"}, z \in {<<0, 0>>, <<0, 8>>, <<5, 5>>, <<9, 9>>}}
    \cup {Ask({"edit", t}, "auto", FALSE, 0, 0) : t \in {"odd", "ours"}}
    \cup {[Ask({"edit", "grep"}, c, FALSE, 0, 0) EXCEPT !.parallel = TRUE] : c \in {"auto", "named"}}

Route ==
  [mode |-> "auto", direct |-> TRUE, adapted |-> TRUE, controlled |-> FALSE, deny |-> {}, most |-> 0,
   budget |-> 0, limit |-> 0, mostNative |-> 0, codecNative |-> TRUE, compacts |-> FALSE, buffers |-> TRUE,
   rounds |-> 1]
MCPolicies ==
  {[r EXCEPT !.mode = m] : m \in ToolModes \cup {"auto"},
     r \in {Route, [Route EXCEPT !.controlled = TRUE], [Route EXCEPT !.compacts = TRUE],
            [Route EXCEPT !.compacts = TRUE, !.controlled = TRUE], [Route EXCEPT !.direct = FALSE],
            [Route EXCEPT !.deny = {"edit"}], [Route EXCEPT !.most = 1, !.buffers = FALSE, !.rounds = 2],
            [Route EXCEPT !.budget = 1, !.mostNative = 1], [Route EXCEPT !.codecNative = FALSE]}}

ServedAs(native, chatOnly, qualified) ==
  [native |-> native, selects |-> FALSE, continues |-> native, sequential |-> native, parallel |-> FALSE,
   streams |-> native, chatOnly |-> chatOnly, constrained |-> native, forced |-> native,
   observed |-> 12, configured |-> 0, ceiling |-> 0,
   qualified |-> qualified]
MCServings == {ServedAs(FALSE, FALSE, FALSE), ServedAs(TRUE, FALSE, TRUE), ServedAs(FALSE, TRUE, TRUE)}
MCContracts == {[native |-> FALSE, textual |-> TRUE, parser |-> "hermes", ambiguous |-> FALSE, streams |-> TRUE]}

----------------------------------------------------------------------------

servicesVars ==
  <<part, evidenceVars, qualificationVars, loopVars, controllerVars, serverVars, readinessVars,
    repairVars, extractionVars, profileVars, prepVars>>

\* A part that is not at work starts in one state.
Still(name, pinned) == IF part = name THEN TRUE ELSE pinned
Some(S) == CHOOSE x \in S : TRUE

ServicesInit ==
  /\ part \in {"queue", "record", "qualification", "loops", "session", "server", "readiness",
               "repair", "extraction", "profiles", "preparation"}
  /\ Still("record", record = OfRates(0, 0, 0, 0))
  /\ Still("qualification", served = Some(Worlds))
  /\ Still("server", mode = Some(Modes) /\ request = Some(Incoming))
  /\ Still("readiness", backends = [r \in Routes |-> "present"])
  /\ Still("repair", naming = [name |-> Some(ToolNames), tools |-> {Some(ToolNames)}, strict |-> FALSE, to |-> {}])
  /\ Still("profiles", library = NoFiles)
  /\ Still("preparation", /\ serving = Some(Servings)
                          /\ given = [ask |-> Some(Asks), policy |-> Some(Policies), contract |-> Some(Contracts)])
  /\ ProfilesInit /\ EvidenceInit /\ QualificationInit /\ LoopInit /\ ControllerInit /\ ServerInit
  /\ ReadinessInit /\ RepairInit /\ ExtractionInit /\ PreparationInit

ServicesNext ==
  /\ UNCHANGED part
  /\ IF part = "queue" THEN QueueNext ELSE UNCHANGED queueVars
  /\ IF part = "record" THEN RecordNext ELSE UNCHANGED recordVars
  /\ IF part = "qualification" THEN QualificationNext ELSE UNCHANGED qualificationVars
  /\ IF part = "loops" THEN LoopNext ELSE UNCHANGED loopVars
  /\ IF part = "session" THEN ControllerNext ELSE UNCHANGED controllerVars
  /\ IF part = "server" THEN ServerNext ELSE UNCHANGED serverVars
  /\ IF part = "readiness" THEN ReadinessNext ELSE UNCHANGED readinessVars
  /\ IF part = "repair" THEN RepairNext ELSE UNCHANGED repairVars
  /\ IF part = "extraction" THEN ExtractionNext ELSE UNCHANGED extractionVars
  /\ IF part = "profiles" THEN ProfilesNext ELSE UNCHANGED profileVars
  /\ IF part = "preparation" THEN PreparationNext ELSE UNCHANGED prepVars

ServicesSpec == ServicesInit /\ [][ServicesNext]_servicesVars

----------------------------------------------------------------------------

\* The parts' types.
ServicesTypeOK ==
  /\ EvidenceTypeOK /\ QualificationTypeOK /\ LoopTypeOK /\ ControllerTypeOK /\ ServerTypeOK
  /\ ReadinessTypeOK /\ RepairTypeOK /\ ExtractionTypeOK /\ ProfilesTypeOK /\ PrepTypeOK

\* Sessions (session.py, controller/attempt.py): a flagged session stays
\* flagged while it is known, and a controlled attempt alternates its turns.
SessionsHonest == SessionsSound /\ TurnsAlternate

\* The front door (server/app.py, readiness/): a body within its limit, an
\* answer that says what happened, readiness that was really probed.
FrontDoorSound == ServerSound /\ ChecksSound

\* What a model wrote becomes calls (extraction.py, repair/): each span is read
\* once and trusted only as far as the plan says, each repaired call keeps the
\* values the model meant.
ToolOutputSound == RepairSound /\ CandidatesSound /\ ReadOnce

\* What a request is sent with (model/, planning/, projection/, gateway.py): the
\* profile of the highest tier, a wire no replan or rung makes leak.
PlanSound == ProfilesSound /\ PreparationSound
=============================================================================
