------------------------------ MODULE Profiles ------------------------------
(***************************************************************************)
(* Model profiles: the loader of the three tiers of YAML files, the index  *)
(* and its order, the registry that resolves a profile for a model, the    *)
(* overlay of verified conformance, and the gate the confidence of the     *)
(* resolution puts on repairs (model/profiles_v2.py, model/registry.py).   *)
(*                                                                         *)
(* A file is what its YAML says: an id, the patterns that match model      *)
(* names, its backends, its tool behaviour, and what is wrong with it.     *)
(* A pattern is its shape, its length and the names it matches.            *)
(***************************************************************************)
EXTENDS Integers, Sequences, FiniteSets, FiniteSetsExt, SequencesExt

CONSTANTS
  Libraries,   \* the directories' contents: functions from tier to a sequence of files
  ModelNames,
  BackendKinds,
  Records      \* conformance records: [id, rate (percent), native, textual]

\* A directory's files come in an order, that of their names; a file can be read
\* or not, and has a list of patterns and of backends (profiles_v2.py:511).
ASSUME ProfilesAssumption ==
  /\ \A l \in Libraries :
       /\ DOMAIN l = {"project", "user", "builtin"}
       /\ \A t \in DOMAIN l : l[t] \in Seq(ToSet(l[t]))
       /\ \A f \in UNION {ToSet(l[t]) : t \in DOMAIN l} :
            /\ f.damage \in {"none", "foreign", "unreadable"} /\ IsFiniteSet(f.backends)
            /\ f.patterns \in Seq(ToSet(f.patterns))
            /\ \A p \in ToSet(f.patterns) :
                 p.shape \in {"any", "exact", "prefix", "inside"} /\ p.length \in Nat
  /\ \A r \in Records : r.rate \in Nat

VARIABLES
  library,   \* the directories
  files,     \* the files not read yet: [tier, file], highest tier first
  index,     \* the index, in the order it is searched
  loading,   \* "loading", "loaded" or "failed" (ProfileLoadError)
  resolved   \* the resolved profile of a request, Unresolved before

profileVars == <<library, files, index, loading, resolved>>

FallbackId == "generic-fallback"
RepairTiers == {"syntax", "shape", "coercive", "regeneration"}
Unresolved == [source |-> "none"]

\* load_profiles: the directories in precedence order.
Tiered(l) ==
  LET tier(t) == [i \in DOMAIN l[t] |-> [tier |-> t, file |-> l[t][i]]] IN
  tier("project") \o tier("user") \o tier("builtin")

----------------------------------------------------------------------------
(* What is wrong with a file. *)

\* validate_profile_schema: unknown fields and references, wrong types, an
\* impossible pair of context limits.
SchemaIssues(f) ==
  \/ f.id = ""
  \/ f.unknown                                   \* field, parser, template, backend, schema format
  \/ f.mode \notin {"native", "prompted", "textual", "disabled"}
  \/ ~(0 < f.safe /\ f.safe <= f.declared)
  \/ f.modes # {"absent"} /\ ~(f.modes \subseteq {"auto", "required", "named", "none"})

\* _check_builtin_tier_restrictions: what the file writes, not what it means.
TierIssues(f, tier) ==
  /\ tier = "builtin"
  /\ f.fallback = "whole_message_json" /\ "auto" \in f.modes

\* ModelProfile.from_yaml: an absent list of modes is all of them but "none".
FromYaml(f) ==
  [id |-> f.id, mode |-> f.mode, parser |-> f.parser, declared |-> f.declared, safe |-> f.safe,
   fallback |-> f.fallback,
   modes |-> IF f.modes = {"absent"} THEN {"auto", "required", "named"} ELSE f.modes,
   nativeSchema |-> f.schemaFormat, nativeResponse |-> f.mode = "native",
   streams |-> f.streams]

\* get_fallback_profile
FallbackProfile ==
  [id |-> FallbackId, mode |-> "prompted", parser |-> "tool_call_envelope", declared |-> 4096,
   safe |-> 2048, fallback |-> "none", modes |-> {}, nativeSchema |-> FALSE,
   nativeResponse |-> FALSE, streams |-> TRUE]

----------------------------------------------------------------------------
(* The index. *)

PatternScore(p) ==
  CASE p.shape = "any"    -> 0 - 1000
    [] p.shape = "exact"  -> 500 + p.length
    [] p.shape = "prefix" -> 200 + p.length
    [] p.shape = "inside" -> p.length

\* specificity, and the order of its pairs.
Score(e) == FoldLeft(LAMBDA n, p : n + PatternScore(p), 0, e.patterns)
NotBelow(d, e) ==
  \/ Score(d) > Score(e)
  \/ Score(d) = Score(e) /\ Cardinality(d.backends) >= Cardinality(e.backends)

\* Mutant: the last file of an id replaces the one before it.
PlacedOver(e) ==
  Append(SelectSeq(index, LAMBDA d : d.profile.id # e.profile.id), e)

\* The stable descending sort of an index that was sorted before e came.
Placed(e) ==
  InsertAt(index, Cardinality({i \in DOMAIN index : NotBelow(index[i], e)}) + 1, e)

\* Mutant: an id of another tier is not looked for.
SupersededNever(e) == FALSE

\* add_profile: a higher tier of the same id wins; the same tier is an error.
Registered(id) == {i \in DOMAIN index : index[i].profile.id = id}
Duplicate(e) == \E i \in Registered(e.profile.id) : index[i].tier = e.tier
Superseded(e) == Registered(e.profile.id) # {} /\ ~Duplicate(e)

EntryOf(f, tier) ==
  [profile |-> FromYaml(f), patterns |-> f.patterns, backends |-> f.backends, tier |-> tier]

----------------------------------------------------------------------------
(* load_profiles: one file at a time. *)

Finish == IF Len(files) = 1 THEN "loaded" ELSE "loading"

\* The body of the loop: another document is passed over, an operator's bad
\* file fails the load, a packaged one is logged and passed over.
LoadFile ==
  /\ loading = "loading" /\ files # <<>>
  /\ LET tier == Head(files).tier
         f == Head(files).file
         entry == EntryOf(f, tier)
         bad == f.damage = "unreadable" \/ SchemaIssues(f) \/ TierIssues(f, tier) \/ Duplicate(entry)
     IN /\ \/ /\ f.damage = "foreign"            \* not a mapping, or another schema version
              /\ loading' = Finish /\ UNCHANGED index
           \/ /\ f.damage # "foreign" /\ bad
              /\ loading' = IF tier = "builtin" THEN Finish ELSE "failed"
              /\ UNCHANGED index
           \/ /\ f.damage # "foreign" /\ ~bad
              /\ loading' = Finish
              /\ index' = IF Superseded(entry) THEN index ELSE Placed(entry)
        /\ files' = Tail(files)
  /\ UNCHANGED <<library, resolved>>

----------------------------------------------------------------------------
(* Resolution. *)

\* Mutant: the packaged catch-all is a match like the others.
MatchesAll(e, name, backend) ==
  /\ backend \in e.backends \/ "*" \in e.backends
  /\ \E p \in ToSet(e.patterns) : name \in p.names

\* ProfileIndex.resolve: the first entry that serves the backend and matches.
Matches(e, name, backend) ==
  /\ e.profile.id # FallbackId
  /\ backend \in e.backends \/ "*" \in e.backends
  /\ \E p \in ToSet(e.patterns) : name \in p.names

Matching(name, backend) == {i \in DOMAIN index : Matches(index[i], name, backend)}
BestMatch(name, backend) == index[Min(Matching(name, backend))].profile

\* _from_profile
Effective(p, source, confidence) ==
  [id |-> p.id, source |-> source, confidence |-> confidence,
   native |-> p.nativeSchema /\ p.nativeResponse /\ p.mode = "native",
   textual |-> p.mode \in {"prompted", "textual"} \/ p.parser # "none",
   dialect |-> p.mode, parser |-> p.parser, fallback |-> p.fallback, modes |-> p.modes,
   streams |-> p.streams, safe |-> p.safe]

\* _resolve_base: explicit id, the model's name, the name the backend
\* reports, the conservative fallback.
Base(name, reported, backend, explicit) ==
  CASE Registered(explicit) # {} ->
         Effective(index[Min(Registered(explicit))].profile, "explicit", 90)
    [] Registered(explicit) = {} /\ Matching(name, backend) # {} ->
         Effective(BestMatch(name, backend), "builtin", 80)
    [] Registered(explicit) = {} /\ Matching(name, backend) = {} /\ Matching(reported, backend) # {} ->
         Effective(BestMatch(reported, backend), "backend", 70)
    [] OTHER -> Effective(FallbackProfile, "fallback", 10)

\* _apply_conformance_overlay: confidence and capabilities, nothing else.
Overlaid(b, record) ==
  [b EXCEPT !.id = record.id, !.source = "conformance", !.confidence = record.rate,
            !.native = @ \/ record.native, !.textual = @ \/ record.textual,
            !.dialect = IF record.native THEN "native" ELSE @]

\* ModelProfileRegistry.resolve; a record below its rate changes nothing.
Resolution(name, reported, backend, explicit, record) ==
  LET b == Base(name, reported, backend, explicit) IN
  IF record.rate > 80 THEN Overlaid(b, record) ELSE b

\* _apply_confidence_gate: the repairs a resolution of this confidence allows.
Gated(tiers, confidence) ==
  CASE confidence < 50 -> tiers \ {"coercive", "regeneration"}
    [] confidence >= 50 /\ confidence < 90 -> tiers \ {"regeneration"}
    [] OTHER -> tiers

\* _resolve_profile of a request, then the gate on the route's repairs.
ResolveProfile ==
  /\ loading = "loaded" /\ resolved = Unresolved
  /\ \E name, reported \in ModelNames, backend \in BackendKinds, record \in Records,
        explicit \in {"none", FallbackId} \cup {index[i].profile.id : i \in DOMAIN index} :
       LET r == Resolution(name, reported, backend, explicit, record) IN
       resolved' = [profile |-> r, source |-> r.source, name |-> name, backend |-> backend,
                    explicit |-> explicit, record |-> record,
                    repairs |-> Gated(RepairTiers, r.confidence)]
  /\ UNCHANGED <<library, files, index, loading>>

ProfilesInit ==
  /\ library \in Libraries
  /\ files = Tiered(library)
  /\ index = <<>>
  /\ loading = IF files = <<>> THEN "loaded" ELSE "loading"
  /\ resolved = Unresolved

ProfilesNext == LoadFile \/ ResolveProfile

----------------------------------------------------------------------------
(* What a loaded index and a resolution mean. *)

ProfilesTypeOK ==
  /\ loading \in {"loading", "loaded", "failed"}
  /\ Len(files) + Len(index) <= Len(Tiered(library))
  /\ \A i \in DOMAIN index : index[i].tier \in DOMAIN library

Usable(f, tier) == f.damage = "none" /\ ~SchemaIssues(f) /\ ~TierIssues(f, tier)
Offering(tier, id) ==
  {i \in DOMAIN library[tier] : library[tier][i].id = id /\ Usable(library[tier][i], tier)}

\* The tier that wins an id, and the file of it that is read first.
Rank == [project |-> 1, user |-> 2, builtin |-> 3]
Winner(id) ==
  LET t == CHOOSE u \in DOMAIN library :
             /\ Offering(u, id) # {}
             /\ \A v \in DOMAIN library : Offering(v, id) # {} => Rank[u] <= Rank[v]
  IN EntryOf(library[t][Min(Offering(t, id))], t)

\* Precedence: once loading is over every id that has a usable file has one
\* entry, that of the highest tier, whatever else the directories hold.
HighestTierWins ==
  loading = "loaded" =>
    \A id \in UNION {{f.id : f \in ToSet(library[t])} : t \in DOMAIN library} :
      (\E t \in DOMAIN library : Offering(t, id) # {}) =>
        \E i \in DOMAIN index : Registered(id) = {i} /\ index[i] = Winner(id)

\* An operator's file is never read past: with one that does not validate, or
\* two of an id in one tier that no higher tier has, there is no index to serve
\* from.
BadOverrideStops ==
  loading = "loaded" =>
    \A t \in {"project", "user"} : \A k \in DOMAIN library[t] :
      LET f == library[t][k] IN
      f.damage # "foreign" =>
        /\ Usable(f, t)
        /\ \/ Offering(t, f.id) = {k}
           \/ \E u \in DOMAIN library : Rank[u] < Rank[t] /\ Offering(u, f.id) # {}

\* A model nothing is known of, and no record vouches for, is never taken for
\* a known one: no tier that stands for knowledge, no risky repair.
UnknownNotTrusted ==
  resolved # Unresolved =>
    /\ resolved.source \in {"builtin", "backend"} => resolved.profile.id # FallbackId
    /\ /\ resolved.explicit = "none" /\ resolved.record.rate <= 80
       /\ resolved.profile.id = FallbackId
       => resolved.repairs \cap {"coercive", "regeneration"} = {}

\* A profile found by name is the most specific one that matches it.
MostSpecificPattern ==
  resolved # Unresolved /\ resolved.source = "builtin" =>
    \E i \in Matching(resolved.name, resolved.backend) :
      /\ index[i].profile.id = resolved.profile.id
      /\ \A j \in Matching(resolved.name, resolved.backend) : Score(index[j]) <= Score(index[i])

ProfilesSound ==
  HighestTierWins /\ BadOverrideStops /\ UnknownNotTrusted /\ MostSpecificPattern

----------------------------------------------------------------------------
(* Statements the code does not keep. *)

\* "Builtin-tier (packaged) profiles must never enable the ambiguous
\* whole_message_json fallback dialect under tool_choice=auto": the check
\* reads a missing list of modes as empty, the profile reads it as all.
AmbiguousOptIn ==
  \A i \in DOMAIN index :
    index[i].tier = "builtin" /\ index[i].profile.fallback = "whole_message_json" =>
      "auto" \notin index[i].profile.modes

\* "Reward specific backends (smaller set = more specific)": the larger set
\* sorts first.
SpecificBackendsFirst ==
  resolved # Unresolved /\ resolved.source = "builtin" =>
    \E i \in Matching(resolved.name, resolved.backend) :
      /\ index[i].profile.id = resolved.profile.id
      /\ \A j \in Matching(resolved.name, resolved.backend) :
           Score(index[j]) = Score(index[i]) =>
             Cardinality(index[i].backends) <= Cardinality(index[j].backends)

\* "silently skipping it with only a log line means their intended override
\* may silently never apply": an operator's file of another schema version is
\* passed over.
OverrideHeard ==
  loading = "loaded" =>
    \A t \in {"project", "user"} : \A k \in DOMAIN library[t] : library[t][k].damage # "foreign"

\* "A duplicate id within the SAME tier still raises": with an id a higher tier
\* has, the first of the entries found decides, and neither file is heard of.
DuplicatesStop ==
  loading = "loaded" =>
    \A t \in {"project", "user"} : \A k \in DOMAIN library[t] :
      Cardinality(Offering(t, library[t][k].id)) <= 1
=============================================================================
