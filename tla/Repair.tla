------------------------------- MODULE Repair -------------------------------
(***************************************************************************)
(* The repair pipeline for one tool call of a batch: its name is resolved  *)
(* to a declared tool, the text of its arguments is recovered, and the     *)
(* arguments are validated and mended, one proposal of one rule at a time, *)
(* until they fit the schema or no rule helps.                             *)
(* A value is its class; paths are those of the arguments' own fields.     *)
(***************************************************************************)
EXTENDS Naturals, Sequences, FiniteSets, FiniteSetsExt

CONSTANTS
  ToolNames,      \* [space, word, dash, letters] that tools may have
  PackNames,      \* <<name, tool>>: names the client's pack knows tools by
  Schemas,        \* [types, required, closed, discriminator] of the tool called
  SchemaAliases,  \* <<alias, field>> that schemas declare as x-aliases
  PackAliases,    \* <<alias, field>> of the client's compatibility pack
  Emitted,        \* values of the arguments as a model emits them
  MaxIterations

VARIABLES
  progress,    \* how far the call has come, or its outcome
  naming,      \* [name, tools, strict, to]: the name and what it became
  repairs,     \* [shape, coercive, aliases] of the route
  schema,
  call,        \* the arguments as the model meant them: field to value
  arguments,   \* the arguments as mended so far
  mended,      \* repaired_paths
  turns,
  altered      \* ghost: recovering the text changed what it says

repairVars == <<progress, naming, repairs, schema, call, arguments, mended, turns, altered>>

Texts == {"word", "digits", "one", "yes", "decimal", "list text", "object text"}
Values == Texts \union {"integer", "whole", "real", "boolean", "array", "single", "object", "empty", "null"}
Fields == UNION {DOMAIN s.types \union s.required : s \in Schemas}
GivenNames == Fields \union {p[1] : p \in SchemaAliases \union PackAliases}
RepairPolicies == [shape : BOOLEAN, coercive : BOOLEAN, aliases : {"disabled", "schema", "pack"}]
Strictest == [shape |-> FALSE, coercive |-> FALSE, aliases |-> "disabled"]
Nameless == [name |-> CHOOSE n \in ToolNames : TRUE, tools |-> {}, strict |-> TRUE, to |-> {}]
EmittedCalls == UNION {[fields -> Emitted] : fields \in {g \in SUBSET GivenNames : Cardinality(g) <= 2}}   \* (bound)
Uncalled == [f \in {} |-> "null"]

\* Clients declare finitely many tools and fields, "none" is the name of none,
\* and a pack maps a name to one tool (get_tool_name_alias_map).
ASSUME RepairAssumption ==
  /\ IsFiniteSet(ToolNames) /\ IsFiniteSet(GivenNames) /\ "none" \notin GivenNames
  /\ \A p, q \in PackNames : p[1] = q[1] => p[2] = q[2]
  /\ Schemas # {} /\ Emitted \subseteq Values /\ MaxIterations \in Nat
Verdicts == {"unchanged", "repaired", "rejected"}

RepairTypeOK ==
  /\ progress \in {"naming", "read", "recovered", "validating", "mending"} \union Verdicts
  /\ repairs \in RepairPolicies /\ schema \in Schemas /\ turns \in 0..MaxIterations
  /\ DOMAIN call \subseteq GivenNames /\ DOMAIN arguments \subseteq GivenNames /\ mended \subseteq Fields
  /\ altered \in BOOLEAN

RepairInit ==
  /\ progress = "naming" /\ schema = CHOOSE s \in Schemas : TRUE
  /\ repairs = Strictest /\ call = Uncalled /\ arguments = Uncalled
  /\ naming \in [name : ToolNames, tools : {t \in SUBSET ToolNames : Cardinality(t) \in 1..2},
                 strict : BOOLEAN, to : {{}}]
  /\ mended = {} /\ turns = 0 /\ altered = FALSE

-----------------------------------------------------------------------------
(* Step 1: the name. *)

Lower(n) == [n EXCEPT !.letters = "lower"]
Even(n) == [Lower(n) EXCEPT !.dash = FALSE]
Short(n) == [n EXCEPT !.space = FALSE]

Alone(tools) == IF Cardinality(tools) = 1 THEN tools ELSE {}
Else(first, second) == IF first # {} THEN first ELSE second

\* Mutant: any tool that matches will do.
CanonicalAny(name, tools, strict) ==
  LET fit == {t \in tools : ~strict /\ Even(t) = Even(name)}
  IN  IF name \in tools THEN {name} ELSE IF fit = {} THEN {} ELSE {CHOOSE t \in fit : TRUE}

\* canonicalize_tool_name: as it is; whatever its case; whatever its dashes;
\* without its namespace; each only if one tool alone fits; then as the pack
\* of the client knows it.
Canonical(name, tools, strict) ==
  IF name \in tools THEN {name}
  ELSE IF strict THEN {}
  ELSE Else(Alone({t \in tools : Lower(t) = Lower(name)}),
       Else(Alone({t \in tools : Even(t) = Even(name)}),
       Else(IF name.space THEN Alone({t \in tools : Lower(t) = Lower(Short(name))}) ELSE {},
            {t \in tools : <<Lower(name), t>> \in PackNames})))

Name ==
  /\ progress = "naming" /\ naming.to = {}
  /\ LET to == Canonical(naming.name, naming.tools, naming.strict)
     IN  IF to = {} THEN progress' = "rejected" /\ UNCHANGED naming
         ELSE naming' = [naming EXCEPT !.to = to] /\ UNCHANGED progress
  /\ UNCHANGED <<repairs, schema, call, arguments, mended, turns, altered>>

-----------------------------------------------------------------------------
(* Step 2: the text. *)

Damage == {"comma", "control", "truncated", "mismatched", "open string", "comma in string"}
Harmless == {"comma in string"}

Recoverable(damage) == damage \intersect {"mismatched", "open string"} = {}

\* RepairBudget.is_deterministic_exhausted: regenerations have a limit of
\* their own.
WithinBudget(spent) == spent \subseteq {"regenerations"}

\* parse_tool_args: each recovery builds on the text without its trailing
\* commas, which are looked for in strings too.  Text that was recovered, or a
\* budget of the batch (time, bytes, operations) that is spent, decides what
\* comes next; an object, or no arguments, is text without damage.
ReadArguments ==
  /\ progress = "naming" /\ naming.to # {} /\ naming' = Nameless
  /\ \E damage \in SUBSET Damage, syntax \in BOOLEAN,
        spent \in SUBSET {"latency", "bytes", "operations", "regenerations"} :
       LET sound == damage \subseteq Harmless
           read == sound \/ (syntax /\ Recoverable(damage))
       IN  /\ altered' = (read /\ ~sound /\ "comma in string" \in damage)
           /\ progress' = IF ~read \/ ~WithinBudget(spent) THEN "rejected"
                       ELSE IF sound THEN "read" ELSE "recovered"
  /\ UNCHANGED <<repairs, schema, call, arguments, mended, turns>>

\* What the call brings, and the route allows.
Bring ==
  /\ progress \in {"read", "recovered"}
  /\ progress' = IF progress = "read" THEN "validating" ELSE "mending"
  /\ repairs' \in RepairPolicies /\ schema' \in Schemas /\ call' \in EmittedCalls /\ arguments' = call'
  /\ altered' = FALSE
  /\ UNCHANGED <<naming, mended, turns>>

-----------------------------------------------------------------------------
(* Step 3: validation. *)

OfType(value, type) ==
  CASE type = "string" -> value \in Texts
    [] type = "integer" -> value \in {"integer", "whole"}
    [] type = "number" -> value \in {"integer", "whole", "real"}
    [] type = "boolean" -> value = "boolean"
    [] type = "array" -> value \in {"array", "single"}
    [] type = "object" -> value \in {"object", "empty"}

Issues(args) ==
  [keyword : {"required"}, field : schema.required \ DOMAIN args] \union
  [keyword : {"type"}, field : {f \in DOMAIN args \intersect DOMAIN schema.types : ~OfType(args[f], schema.types[f])}] \union
  IF schema.closed /\ ~(DOMAIN args \subseteq DOMAIN schema.types)
    THEN {[keyword |-> "additionalProperties", field |-> "none"]} ELSE {}

Validate ==
  /\ progress = "validating"
  /\ progress' = IF Issues(arguments) = {} THEN "unchanged" ELSE "mending"
  /\ UNCHANGED <<naming, repairs, schema, call, arguments, mended, turns, altered>>

-----------------------------------------------------------------------------
(* Step 4: the rules, in their order.  A rule proposes at most one change:  *)
(* a move from a source, a new value, or "gone".                            *)

NoProposal == [source |-> "none", value |-> "none"]
Set(value) == [source |-> "none", value |-> value]

AliasesOf(field) ==
  {p[1] : p \in {q \in (IF repairs.aliases = "disabled" THEN {} ELSE SchemaAliases) \union
                       (IF repairs.aliases = "pack" THEN PackAliases ELSE {}) : q[2] = field}}

\* Mutant: what the canonical field holds is not looked at.
RenameOver(args, f) ==
  LET present == {a \in AliasesOf(f) \intersect DOMAIN args : args[a] # "null"}
  IN  IF Cardinality(present) # 1 THEN NoProposal
      ELSE LET a == CHOOSE b \in present : TRUE IN [source |-> a, value |-> args[a]]

\* rename_aliased_fields
Rename(args, f) ==
  LET present == {a \in AliasesOf(f) \intersect DOMAIN args : args[a] # "null"}
  IN  IF (f \in DOMAIN args /\ args[f] # "null") \/ Cardinality(present) # 1 THEN NoProposal
      ELSE LET a == CHOOSE b \in present : TRUE
           IN  IF schema.discriminator \in {a, f} THEN NoProposal ELSE [source |-> a, value |-> args[a]]

\* drop_null_optional, drop_empty_placeholder
Drop(args, f) ==
  IF f \notin schema.required /\ \/ args[f] = "null"
                                 \/ args[f] = "empty" /\ schema.types[f] = "array"
    THEN Set("gone") ELSE NoProposal

\* parse_json_stringified_array, parse_json_stringified_object
ParseText(args, f) ==
  CASE args[f] = "list text" /\ schema.types[f] = "array" -> Set("array")
    [] args[f] = "object text" /\ schema.types[f] = "object" -> Set("object")
    [] OTHER -> NoProposal

\* wrap_bare_string_as_array
Wrap(args, f) ==
  IF args[f] \in Texts /\ schema.types[f] = "array" THEN Set("single") ELSE NoProposal

\* coerce_scalar_types: what each class becomes for the type that is wanted.
Coerced ==
  {<<"boolean", "string", "yes">>, <<"integer", "string", "digits">>, <<"whole", "string", "decimal">>,
   <<"real", "string", "decimal">>, <<"digits", "integer", "integer">>, <<"one", "integer", "integer">>,
   <<"digits", "number", "whole">>, <<"one", "number", "whole">>, <<"decimal", "number", "real">>,
   <<"yes", "boolean", "boolean">>, <<"one", "boolean", "boolean">>}

Coerce(args, f) ==
  LET fits == {c \in Coerced : c[1] = args[f] /\ c[2] = schema.types[f]}
  IN  IF fits = {} THEN NoProposal ELSE Set((CHOOSE c \in fits : TRUE)[3])

Proposals(args, issue) ==
  LET shape(p) == IF repairs.shape THEN p ELSE NoProposal
      coercive(p) == IF repairs.coercive THEN p ELSE NoProposal
  IN  CASE issue.keyword = "required" -> <<shape(Rename(args, issue.field))>>
        [] issue.keyword = "type" ->
             <<shape(Rename(args, issue.field)), shape(Drop(args, issue.field)),
               shape(ParseText(args, issue.field)), coercive(Wrap(args, issue.field)),
               coercive(Coerce(args, issue.field))>>
        [] OTHER -> <<>>

\* set_at_path, then delete_at_path of the source of a move
Moved(args, source, f, value) ==
  [g \in (DOMAIN args \ {source}) \union {f} |-> IF g = f THEN value ELSE args[g]]

\* _apply_proposal
Apply(args, f, proposal) ==
  IF proposal.value = "gone" THEN [g \in DOMAIN args \ {f} |-> args[g]]
  ELSE Moved(args, proposal.source, f, proposal.value)

Of(keyword, issues) == {i \in issues : i.keyword = keyword}

\* A proposal is taken if it leaves fewer issues and adds none of a kind that
\* was not there: required ones share one path, type ones have their own.
Improves(args, f, proposal) ==
  LET before == Issues(args)
      after == Issues(Apply(args, f, proposal))
  IN  /\ proposal # NoProposal
      /\ Cardinality(after) < Cardinality(before)
      /\ Of("required", before) = {} => Of("required", after) = {}
      /\ Of("type", after) \subseteq Of("type", before)

\* _sort_issues, which are left after the paths that were mended; those of
\* one rank come in an order the schema decides.
Foremost(issues) ==
  LET open == {i \in issues : i.field \notin mended \/ i.keyword # "type"}
  IN  Else(Of("required", open), Else(Of("type", open), open))

Mend ==
  /\ progress = "mending" /\ turns < MaxIterations /\ Foremost(Issues(arguments)) # {}
  /\ \E issue \in Foremost(Issues(arguments)) :
       LET f == issue.field
           proposals == Proposals(arguments, issue)
           good == {i \in DOMAIN proposals : Improves(arguments, f, proposals[i])}
       IN  /\ good # {}
           /\ arguments' = Apply(arguments, f, proposals[Min(good)])
           /\ mended' = mended \union {f}
           /\ turns' = turns + 1
  /\ UNCHANGED <<progress, naming, repairs, schema, call, altered>>

\* Step 5: nothing is left to do, or the foremost issue has no remedy.
Conclude ==
  /\ progress = "mending"
  /\ \/ Foremost(Issues(arguments)) = {} \/ turns = MaxIterations
     \/ \E issue \in Foremost(Issues(arguments)) :
          \A i \in DOMAIN Proposals(arguments, issue) :
            ~Improves(arguments, issue.field, Proposals(arguments, issue)[i])
  /\ progress' = IF Issues(arguments) = {} THEN "repaired" ELSE "rejected"
  /\ UNCHANGED <<naming, repairs, schema, call, arguments, mended, turns, altered>>

RepairNext == Name \/ ReadArguments \/ Bring \/ Validate \/ Mend \/ Conclude

-----------------------------------------------------------------------------
\* Every value a value may have been read as: the same, its text, or what its
\* text says.
Reads(v, w) ==
  \/ v = w \/ \E c \in Coerced : c[1] = v /\ c[3] = w
  \/ v \in Texts /\ w = "single"
  \/ <<v, w>> \in {<<"list text", "array">>, <<"object text", "object">>}

\* The names that what is called "field" may have had: its own, its aliases,
\* the aliases of those.
NamesOf(field) ==
  {f \in GivenNames : \A names \in SUBSET GivenNames :
     field \in names /\ (\A n \in names : AliasesOf(n) \subseteq names) => f \in names}

\* Whatever rules were applied in whatever order, a call that is accepted
\* still says what the model said: each value it gave, nulls and empty
\* placeholders apart, is there under its own name or one that name is an
\* alias of, directly or in turn, as it was or read from its text, and nothing is there that it did not
\* give; without the coercive tier no scalar was read as another type
\* (pipeline.py:30).
ValuesKept ==
  progress \in {"unchanged", "repaired"} =>
    /\ \A f \in DOMAIN call : call[f] \notin {"null", "empty"} =>
         \E g \in DOMAIN arguments : f \in NamesOf(g) /\ Reads(call[f], arguments[g])
    /\ \A g \in DOMAIN arguments :
         \E f \in DOMAIN call : f \in NamesOf(g) /\ Reads(call[f], arguments[g])
    /\ ~repairs.coercive => \A g \in DOMAIN arguments :
         arguments[g] \in {"array", "object"} \/ \E f \in DOMAIN call : call[f] = arguments[g]
    /\ Issues(arguments) = {}

\* A name becomes that of one declared tool that differs from it in case,
\* dashes and namespace at most, or that the pack knows it by, and never of one among several that fit as
\* well (pipeline.py:336).
NamesOneTool ==
  naming.to # {} =>
    \E t \in naming.tools :
      /\ naming.to = {t}
      /\ \/ t = naming.name
         \/ ~naming.strict /\ \/ Even(Short(t)) = Even(Short(naming.name))
                              \/ <<Lower(naming.name), t>> \in PackNames
      /\ t # naming.name => \/ \A u \in naming.tools \ {t} : Lower(u) # Lower(t)
                            \/ <<Lower(naming.name), t>> \in PackNames

RepairSound == ValuesKept /\ NamesOneTool

(* What the words of the code promise and it does not keep. *)

\* parse.py:180: a recovery that can change file content is too risky.  The
\* trailing commas are stripped from the text of strings as well.
TextKept == ~altered
=============================================================================
