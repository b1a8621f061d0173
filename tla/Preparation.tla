---------------------------- MODULE Preparation ----------------------------
(***************************************************************************)
(* From a client's request to the body a model is sent: the tool surface,  *)
(* the context plan, the ladder of attempts, the contract check, the       *)
(* invocation plan, the adaptation of an oversized request, the projection *)
(* with its private capabilities, the replan after qualification, and what *)
(* each rung of the ladder puts on the wire (gateway.py, planning/,        *)
(* tool_surface/, context_budget/, projection/, repair/invocation.py,      *)
(* request_validation.py).                                                 *)
(*                                                                         *)
(* Tokens are small numbers: a request is its plain size, that of its old  *)
(* tool results and that of its old turns.  A tool is its name; what its   *)
(* schema says matters only in what it costs and whether it is valid.      *)
(***************************************************************************)
EXTENDS Naturals, Sequences, FiniteSets, FiniteSetsExt, SequencesExt

CONSTANTS
  ToolOrder,   \* the tool names, in the order of names
  Cost,        \* the tokens of each tool's schema
  Invalid,     \* the tools whose name or schema a destination refuses
  Reserved,    \* the tools named in the reserved private namespace
  Asks,        \* requests: [tools, choice, named, stream, continues, parallel, plain, results,
               \* turns, score]
  Policies,    \* routes: [mode, direct, adapted, controlled, deny, most, budget, limit,
               \*   most native tools, codec's native support, history compaction, buffering,
               \* selection rounds]
  Servings,    \* what is known of the served model
  Contracts,   \* resolved profiles: [native, textual, parser, ambiguous, streams]
  DefaultSafe  \* the safe limit of an unknown capacity

VARIABLES
  given,     \* [ask, policy, contract] of the request
  serving,   \* what is known of the model: qualification may teach more
  stage,
  left,      \* the kinds of content the projected request still holds in full
  stored,    \* the kinds it holds as references
  adapted,   \* whether virtualization changed it in this preparation
  surface,   \* [visible, withheld]
  ladder,    \* the attempts not made yet
  plan,      \* the invocation plan
  enabled,   \* the private capabilities
  offered,   \* the native tools of the model request
  wire,      \* what the last generation was sent, and what a replan exposed to it
  replans    \* selection replans

prepVars == <<given, serving, stage, left, stored, adapted, surface, ladder, plan, enabled,
              offered, wire, replans>>

ask == given.ask
policy == given.policy
contract == given.contract

Private == {"read_result", "recall_history", "search_history", "get_tool_schema"}
ToolModes == {"native", "prompted", "textual", "disabled"}

\* Tools come in an order, a route has a mode and at least one selection round
\* (config.py:689), what is known of a model says what it holds, and the private
\* names are reserved (gateway.py:237).
ASSUME PreparationAssumption ==
  /\ ToolOrder \in Seq(ToSet(ToolOrder)) /\ Private \subseteq Reserved
  /\ \A p \in Policies : p.mode \in ToolModes \cup {"auto"} /\ p.most \in Nat
                       /\ p.rounds \in Nat \ {0}
  /\ \A s \in Servings : {"observed", "configured", "ceiling"} \subseteq DOMAIN s

NoSurface == [visible |-> <<>>, withheld |-> {}]
NoPlan == [mode |-> "none", upstream |-> {}, listed |-> {}, private |-> {}, parser |-> "none",
           ambiguous |-> FALSE, nonce |-> FALSE]
NoWire == [mode |-> "none", tools |-> {}, listed |-> {}, private |-> {}, forced |-> FALSE,
           rung |-> "none", exposed |-> {}]

----------------------------------------------------------------------------
(* The tool surface: what of the declared tools the model is shown. *)

\* The tools of a set in the order of names.
InOrder(S) == FoldLeft(LAMBDA s, t : IF t \in S THEN Append(s, t) ELSE s, <<>>, ToolOrder)

\* rank_tools: by relevance to the current turn, then by name.
Ranked(S, score) ==
  FoldLeft(LAMBDA s, t : InsertAt(s, Cardinality({i \in DOMAIN s : score[s[i]] >= score[t]}) + 1, t),
           <<>>, InOrder(S))

\* The schema budget takes the tools it can hold, in order.
CostOf(s) == FoldLeft(LAMBDA total, t : total + Cost[t], 0, s)
Budgeted(s, budget) ==
  FoldLeft(LAMBDA kept, t : IF CostOf(Append(kept, t)) > budget THEN kept ELSE Append(kept, t), <<>>, s)

\* The cap takes the best, the budget what it holds of them.
Chosen(a, p) ==
  LET candidates == a.tools \ p.deny
      ranked == Ranked(candidates, a.score)
  IN  IF p.most = 0 THEN InOrder(candidates) ELSE SubSeq(ranked, 1, Min({p.most, Len(ranked)}))

Visible(a, p) ==
  CASE a.choice = "none" -> <<>>
    [] a.choice = "named" -> IF a.named \in a.tools THEN <<a.named>> ELSE <<>>
    [] OTHER -> IF p.budget = 0 THEN Chosen(a, p) ELSE Budgeted(Chosen(a, p), p.budget)

\* ToolSurfacePlanner.plan
Surface == [visible |-> Visible(ask, policy), withheld |-> ask.tools \ ToSet(Visible(ask, policy))]

\* replan_with_tool: one declared tool that was withheld.
Exposed(s, t) == [visible |-> Append(s.visible, t), withheld |-> s.withheld \ {t}]

----------------------------------------------------------------------------
(* The context plan. *)

\* effective_context_limit: observed, then the route's, then the configured
\* allocation; the architecture only clamps.
Limit(s) ==
  LET first == IF s.observed > 0 THEN s.observed
               ELSE IF policy.limit > 0 THEN policy.limit ELSE s.configured
  IN IF s.ceiling > 0 /\ first > s.ceiling THEN s.ceiling ELSE first
SafeLimit(s) == IF (Limit(s) * 9) \div 10 = 0 THEN DefaultSafe ELSE (Limit(s) * 9) \div 10

\* What the request holds in full; a reference costs one token.
SizeOf(kinds, refs) ==
  ask.plain + (IF "results" \in kinds THEN ask.results ELSE 0)
            + (IF "turns" \in kinds THEN ask.turns ELSE 0) + Cardinality(refs)
Fits(s, kinds, refs, shown) == SizeOf(kinds, refs) + CostOf(shown) <= SafeLimit(s)

----------------------------------------------------------------------------
(* The ladder. *)

Rung(kind, mode) == [kind |-> kind, mode |-> mode]
Explicit == ask.choice \in {"named", "required"}

\* derive_request_requirements and missing_behavioral_capabilities
Missing(s) ==
  /\ ask.tools # {}
  /\ \/ ask.choice = "auto" /\ ~s.selects
     \/ ask.continues /\ ~(s.continues /\ s.sequential)
     \/ ask.parallel /\ ~s.parallel
     \/ ask.stream /\ ~s.streams

\* direct_attempts, and the attempt an explicit mode or choice forces.
Direct(s) ==
  IF ask.tools # {} /\ (policy.mode = "native" \/ Explicit)
  THEN <<Rung("native_tools", "native")>>
  ELSE IF ask.tools = {} THEN <<Rung("chat_only", "disabled")>>
  ELSE IF policy.codecNative /\ s.native THEN <<Rung("native_tools", "native")>> ELSE <<>>

\* adapted_attempts
Adapted(s) ==
  IF ask.tools = {} \/ s.chatOnly THEN <<>>
  ELSE <<Rung("prompted_tools", "prompted")>>
       \o (IF s.constrained THEN <<Rung("constrained_json", "prompted")>> ELSE <<>>)
       \o (IF ask.choice = "auto" /\ s.forced THEN <<Rung("forced_selection", "prompted")>> ELSE <<>>)

Controlled ==
  IF policy.controlled /\ ~Explicit THEN <<Rung("controller_mediated", policy.mode)>> ELSE <<>>

\* RequestCompatibilityPlanner.plan
Ladder(s, fits) ==
  IF Direct(s) # <<>> /\ (policy.mode = "native" \/ ~Missing(s)) /\ fits /\ policy.direct
  THEN Direct(s) \o Adapted(s) \o Controlled
  ELSE IF Adapted(s) # <<>> /\ fits /\ policy.adapted
  THEN (IF Explicit /\ Direct(s) # <<>> THEN Direct(s) ELSE Adapted(s)) \o Controlled
  ELSE Controlled

\* reorder_attempts_by_hint
Promoted(attempts, i) == <<attempts[i]>> \o RemoveAt(attempts, i)

----------------------------------------------------------------------------
(* What is refused before any generation. *)

\* _config_tool_choice_conflict
ChoiceConflict == policy.mode = "disabled" /\ Explicit

\* validate_tool_contract, of the declaration for a native attempt and of the
\* surface otherwise; the namespace check is of the declaration.
ContractIssues(mode, shown) ==
  LET declared == IF mode = "native" THEN ask.tools ELSE ToSet(shown) IN
  \/ declared \cap Invalid # {}
  \/ mode = "native" /\ policy.mostNative > 0 /\ Cardinality(declared) > policy.mostNative
  \/ ask.choice = "required" /\ declared = {}
  \/ ask.choice = "named" /\ ask.named \notin declared
  \/ policy.mode = "disabled" /\ declared # {}
NameCollision == ask.tools \cap Reserved # {}

----------------------------------------------------------------------------
(* The invocation plan. *)

\* resolve_tool_mode and resolve_effective_tool_mode
Mode(routeMode) ==
  LET resolved == IF routeMode # "auto" THEN routeMode
                  ELSE IF contract.native THEN "native"
                  ELSE IF contract.textual THEN "prompted" ELSE "disabled"
  IN IF resolved = "native" /\ ~policy.codecNative THEN "prompted" ELSE resolved

\* The private tools of a set of capabilities, on the surface and in the text:
\* recall and search come together.
PrivateTools(caps) ==
  caps \cup (IF caps \cap {"recall_history", "search_history"} # {}
             THEN {"recall_history", "search_history"} ELSE {})

\* build_invocation_plan.  The textual listing of a TEXTUAL plan is built and
\* put nowhere.
InvocationPlan(routeMode, shown, caps) ==
  LET mode == Mode(routeMode)
      text == mode = "prompted" /\ shown # <<>>
      off == mode = "disabled"
  IN [mode |-> mode,
      upstream |-> IF mode = "native" THEN ToSet(shown) ELSE {},
      listed |-> IF text THEN ToSet(shown) ELSE {},
      private |-> IF text THEN PrivateTools(caps) ELSE {},
      parser |-> IF off THEN "none"
                 ELSE IF text /\ contract.parser = "none" THEN "tool_call_envelope"
                 ELSE contract.parser,
      ambiguous |-> contract.ambiguous /\ ~off,
      nonce |-> text /\ contract.ambiguous]

\* _resolve_invocation_plan_and_key_async: a refusal, a request to adapt
\* first, or a plan.
PlannedWith(s, kinds, refs, next) ==
  LET shown == Surface.visible
      fits == Fits(s, kinds, refs, shown)
      attempts == Ladder(s, fits)
      refused == \/ ask.stream /\ ~contract.streams
                 \/ ContractIssues(attempts[1].mode, shown)
                 \/ NameCollision
  IN /\ surface' = Surface
     /\ ladder' = attempts
     /\ \/ /\ attempts = <<>>
           /\ plan' = NoPlan
           /\ stage' = IF fits THEN "refused" ELSE next
        \/ /\ attempts # <<>> /\ refused
           /\ plan' = NoPlan
           /\ stage' = "refused"
        \/ /\ attempts # <<>> /\ ~refused
           /\ plan' = InvocationPlan(attempts[1].mode, shown, {})
           /\ stage' = IF fits THEN "projecting" ELSE next

----------------------------------------------------------------------------
(* Preparation. *)

\* _prepare_invocation_async up to the plan: a contradiction of the
\* configuration is refused before anything is asked of the backend.
Prepare ==
  /\ stage = "new"
  /\ \/ ChoiceConflict /\ stage' = "refused" /\ UNCHANGED <<surface, ladder, plan>>
     \/ ~ChoiceConflict /\ PlannedWith(serving, left, stored, "virtualizing")
  /\ UNCHANGED <<given, serving, left, stored, adapted, enabled, offered, wire, replans>>

\* run_context_adaptation: old tool results, then old turns, then a summary.
\* A pass that changes something is followed by a new plan.
Virtualize ==
  /\ stage = "virtualizing"
  /\ \/ /\ ask.results > 0
        /\ left' = left \ {"results"} /\ stored' = stored \cup {"results"} /\ adapted' = TRUE
        /\ PlannedWith(serving, left', stored', "paging")
     \/ /\ ask.results = 0
        /\ stage' = "paging" /\ UNCHANGED <<left, stored, adapted, surface, ladder, plan>>
  /\ UNCHANGED <<given, serving, enabled, offered, wire, replans>>

PageHistory ==
  /\ stage = "paging"
  /\ \/ /\ policy.compacts /\ ask.turns > 0
        /\ left' = left \ {"turns"} /\ stored' = stored \cup {"turns"}
        /\ PlannedWith(serving, left', stored', "summarizing")
     \/ /\ ~(policy.compacts /\ ask.turns > 0)
        /\ stage' = "summarizing" /\ UNCHANGED <<left, stored, surface, ladder, plan>>
  /\ UNCHANGED <<given, serving, adapted, enabled, offered, wire, replans>>

\* The controller's summary of the old turns, when there is one.
Summarize ==
  /\ stage = "summarizing"
  /\ \/ /\ policy.controlled /\ "turns" \in left
        /\ left' = left \ {"turns"}
        /\ PlannedWith(serving, left', stored, "refused")
     \/ stage' = "refused" /\ UNCHANGED <<left, surface, ladder, plan>>
  /\ UNCHANGED <<given, serving, stored, adapted, enabled, offered, wire, replans>>

----------------------------------------------------------------------------
(* Projection. *)

\* Private capabilities: result paging when this preparation virtualized
\* results, the schema tool when something is withheld.  History paging is
\* never asked of the projector, so its capabilities stay off.
Capabilities(virtualized, s) ==
  (IF virtualized \/ s.withheld # {} THEN {"read_result"} ELSE {})
  \cup (IF s.withheld # {} THEN {"get_tool_schema"} ELSE {})

\* The model request's tools: the negotiated surface and the private tools.
Offered(p, caps) == p.upstream \cup PrivateTools(caps)

\* What the projector renders.  It starts from the gateway's projected request
\* and then, when results were virtualized, from the request of that pass:
\* what was paged or summarized after it is back in full.
Rendered ==
  IF adapted THEN [left |-> {"turns"}, stored |-> {"results"}] ELSE [left |-> left, stored |-> stored]

\* ModelProjector.project
Project ==
  /\ stage = "projecting"
  /\ enabled' = Capabilities(adapted, surface)
  /\ offered' = Offered(plan, enabled')
  /\ stage' = "ready"
  /\ UNCHANGED <<given, serving, left, stored, adapted, surface, ladder, plan, wire, replans>>

\* _static_runtime_capabilities: what is known offline, which is nothing.
StaticFacts ==
  [native |-> FALSE, selects |-> FALSE, continues |-> FALSE, sequential |-> FALSE,
   parallel |-> FALSE, streams |-> FALSE, chatOnly |-> FALSE, constrained |-> FALSE,
   forced |-> FALSE, observed |-> 0, configured |-> 0, ceiling |-> 0,
   qualified |-> TRUE]

\* _ensure_bootstrap_qualification of a forced choice, then
\* _replan_after_qualification: a new plan, of the static facts, and a new
\* projection, to which no adaptation is given.  Of an oversized request only
\* a ladder with a rung goes on.
Qualified ==
  /\ stage = "ready" /\ Explicit /\ ask.tools # {} /\ ~serving.qualified
  /\ serving' = [serving EXCEPT !.qualified = TRUE]
  /\ adapted' = FALSE
  /\ PlannedWith(StaticFacts, left, stored, IF ladder' = <<>> THEN "refused" ELSE "projecting")
  /\ UNCHANGED <<given, left, stored, enabled, offered, wire, replans>>

----------------------------------------------------------------------------
(* The generations. *)

\* Mutant: the rung's own mode decides what the codec renders.
PresentedAs(rung, p) == IF rung.mode = "native" THEN offered ELSE {}

\* prepare_model_request_for_attempt and _apply_invocation_plan_to_request:
\* the plan's mode decides.
Presented(rung, p) == IF p.mode = "native" THEN offered ELSE {}

WireOf(rung, p, exposed) ==
  [mode |-> p.mode, tools |-> Presented(rung, p), listed |-> p.listed,
   private |-> (Presented(rung, p) \cap Private) \cup p.private,
   forced |-> Explicit /\ p.mode = "native", rung |-> rung.kind, exposed |-> exposed]

\* _disabled_tool_choice_conflict
DisabledConflict(p) == p.mode = "disabled" /\ Explicit

\* _buffered_stream_policy
Buffered(unlocked) ==
  /\ policy.buffers
  /\ \/ enabled # {}
     \/ /\ ask.tools # {} /\ ask.choice # "none"
        /\ ~(ladder[1].kind = "native_tools" /\ plan.mode = "native" /\ unlocked)

\* One rung: _invocation_for_attempt and the send, or the controller's loop.
\* The first rung may be one a hint moved to the front.
Attempt ==
  /\ stage \in {"ready", "answered"} /\ ladder # <<>>
  /\ ask.stream => \E unlocked \in BOOLEAN : Buffered(unlocked)
  /\ \E i \in IF stage = "ready" THEN DOMAIN ladder ELSE {1} :
       LET rung == Promoted(ladder, i)[1]
           p == InvocationPlan(rung.mode, surface.visible, enabled)
       IN /\ ladder' = Tail(Promoted(ladder, i))
          /\ plan' = p
          /\ IF rung.kind = "controller_mediated" \/ DisabledConflict(p)
             THEN stage' = "ended" /\ UNCHANGED wire
             ELSE stage' = "sent" /\ wire' = WireOf(rung, p, {})
  /\ UNCHANGED <<given, serving, left, stored, adapted, surface, enabled, offered, replans>>

\* A stream that is not buffered is sent with the plan of the preparation.
StreamDirectly ==
  /\ stage = "ready" /\ ask.stream /\ ladder # <<>>
  /\ \E unlocked \in BOOLEAN : ~Buffered(unlocked)
  /\ IF DisabledConflict(plan) THEN stage' = "ended" /\ UNCHANGED wire
     ELSE stage' = "streaming" /\ wire' = WireOf(ladder[1], plan, {})
  /\ UNCHANGED <<given, serving, left, stored, adapted, surface, ladder, plan, enabled, offered,
                 replans>>

\* The model asked for a declared tool it was not shown: one more generation
\* of the same rung, with that tool on its surface, once a rung and within the
\* route's rounds.  The next rung starts from the surface of the preparation.
Withheld ==
  /\ stage = "sent" /\ wire.exposed = {} /\ replans < policy.rounds
  /\ \E t \in surface.withheld :
       LET s == Exposed(surface, t)
           mode == IF wire.rung = "native_tools" THEN "native" ELSE "prompted"
           p == InvocationPlan(mode, s.visible, enabled)
       IN plan' = p /\ wire' = WireOf(Rung(wire.rung, mode), p, {t})
  /\ replans' = replans + 1
  /\ UNCHANGED <<given, serving, stage, left, stored, adapted, surface, ladder, enabled, offered>>

\* The answer: accepted, or an error or not what was asked, which only an
\* automatic choice takes as it is.
Answer ==
  /\ stage = "sent"
  /\ \/ stage' = "ended"
     \/ ask.choice # "auto" /\ ladder # <<>> /\ stage' = "answered"
  /\ UNCHANGED <<given, serving, left, stored, adapted, surface, ladder, plan, enabled, offered,
                 wire, replans>>

PreparationInit ==
  /\ given \in [ask : Asks, policy : Policies, contract : Contracts]
  /\ serving \in Servings
  /\ stage = "new"
  /\ left = {"results", "turns"} /\ stored = {} /\ adapted = FALSE
  /\ surface = NoSurface /\ ladder = <<>> /\ plan = NoPlan
  /\ enabled = {} /\ offered = {} /\ wire = NoWire /\ replans = 0

PreparationNext ==
  \/ Prepare \/ Virtualize \/ PageHistory \/ Summarize \/ Project \/ Qualified
  \/ Attempt \/ StreamDirectly \/ Withheld \/ Answer

----------------------------------------------------------------------------
(* What a generation is sent. *)

PrepTypeOK ==
  /\ stage \in {"new", "virtualizing", "paging", "summarizing", "projecting", "ready", "sent",
                "streaming", "answered", "ended", "refused"}
  /\ stored \cap left = {} /\ replans \in 0 .. policy.rounds
  /\ enabled \subseteq Private /\ plan.mode \in ToolModes \cup {"none"}

Sent == stage \in {"sent", "streaming"}

\* A model that is prompted is never sent a native tool, its own or ours, and
\* no generation lists a tool both ways.
NoNativeLeak ==
  Sent => /\ wire.mode # "native" => wire.tools = {}
          /\ wire.listed # {} => wire.mode = "prompted" /\ wire.tools = {}

\* Everything on the wire is the client's own declaration or a capability of
\* this request, whatever was replanned, reordered or qualified in between.
OfferedAuthorised ==
  Sent => /\ (wire.tools \ Private) \cup wire.listed \subseteq ask.tools
          /\ wire.private \subseteq enabled
          /\ wire.tools \cap Private \subseteq enabled

\* A client that names a tool gets a generation that has it, in the tools of
\* a native one or in the text of a prompted one.
NamedOffered ==
  Sent /\ ask.choice = "named" => ask.named \in wire.tools \cup wire.listed

\* Nothing known not to fit is sent, and nothing was dropped to make it fit:
\* what is not there in full is a reference or, with a controller, a summary.
\* A request that needed two passes is the exception (WorkKept), and so is a
\* generation a replan exposed a tool to: nobody asks whether it still fits.
FitsWhenSent ==
  Sent /\ wire.exposed = {} =>
    /\ Rendered.left = left => Fits(serving, left, stored, surface.visible)
    /\ "results" \in Rendered.left \cup Rendered.stored
    /\ ~policy.controlled => "turns" \in Rendered.left \cup Rendered.stored

PreparationSound == NoNativeLeak /\ OfferedAuthorised /\ NamedOffered /\ FitsWhenSent

----------------------------------------------------------------------------
(* Statements the code does not keep. *)

\* "Expose exactly one previously withheld declared tool on retry": a native
\* rung renders the tools of the projection, which the replan leaves alone.
PlanOnWire == Sent /\ plan.mode = "native" => plan.upstream \subseteq wire.tools

\* "transformation work paid for upstream would be discarded" by rendering from
\* anything but the request the passes produced: the projector takes the one
\* of the first pass, and what is sent no longer fits.
WorkKept == Sent => Rendered = [left |-> left, stored |-> stored]

\* "metadata is already resolved and cached": the replan plans without it, and
\* refuses a request that was ready.
QualificationKeepsFacts == [][Qualified => stage' # "refused"]_prepVars

\* "paged refs are opaque tokens to the model until the index prompt tells it
\* how to page them back through __interop_read_result", which nothing enables.
RefsReadable == Sent /\ stored # {} => "read_result" \in enabled

\* A required choice is sent with a tool of the client's to call.
RequiredOffered ==
  Sent /\ wire.forced => (wire.tools \ Private) \cup wire.listed # {}

\* A tool the operator denies stays off the surface unless it is named.
DenyHolds ==
  Sent /\ ask.choice # "named" =>
    ((wire.tools \ Private) \cup wire.listed) \cap policy.deny = {}

\* A path the route does not allow is not taken.
DirectAllowed == Sent /\ wire.rung = "native_tools" => policy.direct

\* "surface and execution": what is enabled is taught.
PrivateTaught == Sent /\ wire.listed # {} => enabled \subseteq wire.private
=============================================================================
