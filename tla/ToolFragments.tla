--------------------------- MODULE ToolFragments ---------------------------
(***************************************************************************)
(* PendingToolCallAccumulator (streaming/coordinator.py): the fragments of *)
(* the tool calls of one stream, by key (choice and tool index), and the   *)
(* completed calls waiting for the end of the turn.  A name is given or    *)
(* not, arguments are a number of bytes.                                   *)
(***************************************************************************)
EXTENDS Naturals, Sequences, FiniteSets

CONSTANTS
  Keys,        \* ToolStreamKeys, ordered; numbers here
  MaxCalls,    \* StreamLimits.max_simultaneous_tool_calls
  MaxArgs      \* StreamLimits.max_accumulated_arg_bytes

ASSUME FragmentAssumption == Keys \subseteq Nat /\ MaxCalls \in Nat /\ MaxArgs \in Nat

VARIABLES
  pending,     \* key -> [named, args], the open calls
  completed    \* calls that left it, in order: [key, named, ok]

fragmentVars == <<pending, completed>>

Open == DOMAIN pending

FragmentTypeOK ==
  /\ Open \subseteq Keys /\ Cardinality(Open) <= MaxCalls
  /\ pending \in [Open -> [named : BOOLEAN, args : 0..MaxArgs]]
  /\ completed \in Seq([key : Keys, named : BOOLEAN, ok : BOOLEAN])

FragmentInit == pending = <<>> /\ completed = <<>>

\* start_call raises ToolCallLimitExceeded.
TooManyCalls(k) == k \notin Open /\ Cardinality(Open) >= MaxCalls

Call(k) == IF k \in Open THEN pending[k] ELSE [named |-> FALSE, args |-> 0]

\* feed_arguments raises ToolCallLimitExceeded.
TooLong(k, bytes) == Call(k).args + bytes > MaxArgs

\* start_call, feed_name and feed_arguments for one fragment.
Feed(k, named, bytes) ==
  /\ pending' = [q \in Open \cup {k} |->
                   IF q = k THEN [named |-> Call(k).named \/ named, args |-> Call(k).args + bytes]
                            ELSE pending[q]]
  /\ UNCHANGED completed

\* The calls of ks in key order, as they are moved to the completed list.
Moved(ks, ok) ==
  LET at(i) == CHOOSE k \in ks : Cardinality({q \in ks : q < k}) = i - 1
  IN  [i \in 1..Cardinality(ks) |-> [key |-> at(i), named |-> pending[at(i)].named, ok |-> ok]]

MoveCalls(ks, ok) ==
  /\ completed' = completed \o Moved(ks, ok)
  /\ pending' = [k \in Open \ ks |-> pending[k]]

CompleteCall(k) == MoveCalls({k} \cap Open, TRUE)
CompleteAll == MoveCalls(Open, TRUE)
FailAll == MoveCalls(Open, FALSE)

\* _pending_to_candidates: what is complete and has a name.
Candidates(calls) == SelectSeq(calls, LAMBDA c : c.ok /\ c.named)
=============================================================================
