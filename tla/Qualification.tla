--------------------------- MODULE Qualification ---------------------------
(***************************************************************************)
(* What the gateway knows of the models it serves: the runtime metadata it *)
(* caches for a while, and the evidence of the bootstrap probes, kept for  *)
(* each model digest in memory and in a file.  Requests that need evidence *)
(* run the missing probes under a lock of the digest; qualify_route runs   *)
(* them without it; another process may write the same file; the server    *)
(* may restart; and the backend may serve another model under the same tag *)
(* at any time.                                                            *)
(***************************************************************************)
EXTENDS Naturals, FiniteSets, Sequences

CONSTANTS
  Worlds,      \* [digest, template] the backend may serve under the tag
  Requests,    \* requests with tools and a forced choice, blocking bootstrap
  Continuing,  \* the requests among them whose history has tool results
  Api,         \* a call of qualify_route
  MaxRecords,  \* QualificationStore.max_records
  MaxUpsets    \* repoints, restarts and failures of a behaviour (bound)

ASSUME QualificationAssumption ==
  /\ Worlds \subseteq [digest : Nat, template : Nat]
  /\ Api \notin Requests /\ "nobody" \notin Requests /\ MaxUpsets \in Nat

Digests == {w.digest : w \in Worlds}
Tasks == Requests \union {Api}
Nobody == "nobody"
Nowhere == [digest |-> 0, template |-> 0]
NoRecord == [template |-> 0]

VARIABLES
  served,   \* the world the backend serves now
  cached,   \* RuntimeCapabilityCache's entry of the route, or Nowhere
  memory,   \* QualificationCoordinator._records
  durable,   \* QualificationStore._records
  file,     \* what the JSON file holds
  lock,     \* _locks: who holds each
  tasks,    \* [at, world, record]
  ran,      \* ghost: executions of each probe in each world by requests, since
            \* its evidence was last lost
  upsets    \* ghost: repoints, restarts and failures so far

qualificationVars ==
  <<served, cached, memory, durable, file, lock, tasks, ran, upsets>>

Outcomes == {"unknown", "passed", "failed"}
Probes == {"native", "prompted", "continuation"}
QualRecords == [native : Outcomes, prompted : Outcomes, continuation : Outcomes,
            template : {w.template : w \in Worlds}]
Cache == [Digests -> QualRecords \union {NoRecord}]
AtRest == [at |-> "idle", world |-> Nowhere, record |-> NoRecord]
Empty == [d \in Digests |-> NoRecord]
NoneRan == [w \in Worlds |-> [p \in Probes |-> 0]]
Continues(t) == t = Api \/ t \in Continuing

QualificationTypeOK ==
  /\ served \in Worlds /\ cached \in Worlds \union {Nowhere}
  /\ {memory, durable, file} \subseteq Cache
  /\ lock \in [Digests -> Requests \union {Nobody}]
  /\ \A t \in Tasks : tasks[t].at \in {"idle", "inspected", "waiting", "probing"}
  /\ upsets \in 0..MaxUpsets

QualificationInit ==
  /\ served \in Worlds /\ cached = Nowhere
  /\ memory = Empty /\ durable = Empty /\ file = Empty
  /\ lock = [d \in Digests |-> Nobody] /\ tasks = [t \in Tasks |-> AtRest]
  /\ ran = NoneRan /\ upsets = 0

-----------------------------------------------------------------------------
(* QualRecords. *)

Fresh == [native |-> "unknown", prompted |-> "unknown", continuation |-> "unknown",
          template |-> 0]

Forced(r) == r.native = "passed" \/ r.prompted = "passed"

\* promote_from_outcomes; no_tool is not among the probes that are demanded.
State(r) ==
  CASE Forced(r) /\ r.continuation = "passed" -> "sequential_agent"
    [] Forced(r) /\ r.continuation # "passed" -> "forced_tool"
    [] OTHER -> "degraded"

\* Mutant: the list as it was before the first probe of the pass.
NeededUpFront(r, continues) ==
  (IF r.native = "unknown" THEN {"native"} ELSE {}) \union
  (IF r.prompted = "unknown" /\ r.native # "passed" THEN {"prompted"} ELSE {}) \union
  (IF continues /\ r.continuation = "unknown" THEN {"continuation"} ELSE {})

\* staged_needed_probes: prompted after a native failure; continuation once
\* there is, or will be, forced evidence.
Needed(r, continues) ==
  (IF r.native = "unknown" THEN {"native"} ELSE {}) \union
  (IF r.native = "failed" /\ r.prompted = "unknown" THEN {"prompted"} ELSE {}) \union
  (IF continues /\ r.continuation = "unknown" /\ (Forced(r) \/ r.native = "unknown")
     THEN {"continuation"} ELSE {})

\* The first in battery order; the set is computed again after each probe.
NextProbe(r, continues) ==
  LET needed == Needed(r, continues)
  IN  IF "native" \in needed THEN "native"
      ELSE IF "prompted" \in needed THEN "prompted"
      ELSE "continuation"

MergeProbe(r, probe, passed) ==
  [r EXCEPT ![probe] = IF passed THEN "passed" ELSE "failed"]

\* required_probes_for_request, for a record or none.
Demanded(r, continues) == r = NoRecord \/ Needed(r, continues) # {}

-----------------------------------------------------------------------------
(* The caches. *)

\* record_for_runtime: memory, then the store; stale evidence is dropped.
Known(w) == IF memory[w.digest] # NoRecord THEN memory[w.digest] ELSE durable[w.digest]
Current(w) == IF Known(w).template = w.template THEN Known(w) ELSE NoRecord
Remember(w) == memory' = [memory EXCEPT ![w.digest] = Current(w)]

\* Ghost: what was executed, unless a world's evidence is lost.  It is when the
\* record in memory is replaced or dropped, for a template it does not fit, and
\* the store has none that fits, or not any more.
Lost(w) == Current(w) # NoRecord /\ Current(w)' = NoRecord
Count(executed) ==
  ran' = [w \in Worlds |-> [p \in Probes |->
            IF Lost(w) THEN 0 ELSE ran[w][p] + (IF <<w, p>> \in executed THEN 1 ELSE 0)]]

\* QualificationStore.put: the smallest keys are evicted.
Put(view, d, r) ==
  LET full == {e \in Digests : e = d \/ view[e] # NoRecord}
      kept == {e \in full : Cardinality({f \in full : f > e}) < MaxRecords}
  IN  [e \in Digests |-> IF e \notin kept THEN NoRecord ELSE IF e = d THEN r ELSE view[e]]

\* Coordinator.record: memory, the store, and with it the file, as a whole.
Record(d, r) ==
  /\ memory' = [memory EXCEPT ![d] = r]
  /\ durable' = Put(durable, d, r)
  /\ file' = durable'

\* The inspection a preparation starts with: the cached snapshot if it has
\* not expired.
Inspect(t) ==
  /\ tasks[t].at = "idle"
  /\ LET w == IF cached # Nowhere THEN cached ELSE served
     IN  /\ cached' = w
         /\ tasks' = [tasks EXCEPT ![t] = [at |-> "inspected", world |-> w, record |-> NoRecord]]
  /\ UNCHANGED <<served, memory, durable, file, lock, ran, upsets>>

Expire ==
  /\ cached # Nowhere /\ cached' = Nowhere
  /\ UNCHANGED <<served, memory, durable, file, lock, tasks, ran, upsets>>

-----------------------------------------------------------------------------
(* Probing. *)

Free(d) == lock' = [lock EXCEPT ![d] = Nobody]

\* The record a pass begins with, or what is left of it: run a probe, or stamp
\* and record it.
Pass(t, r) ==
  LET w == tasks[t].world
  IN  IF Needed(r, Continues(t)) # {}
        THEN /\ tasks' = [tasks EXCEPT ![t].at = "probing", ![t].record = r]
             /\ lock' = IF t = Api THEN lock ELSE [lock EXCEPT ![w.digest] = t]
             /\ UNCHANGED <<durable, file>>
        ELSE /\ Record(w.digest, [r EXCEPT !.template = w.template])
             /\ tasks' = [tasks EXCEPT ![t] = AtRest]
             /\ IF t = Api THEN UNCHANGED lock ELSE Free(w.digest)

Starting(t) == IF Current(tasks[t].world) = NoRecord THEN Fresh ELSE Current(tasks[t].world)

\* Mutant: the record is not looked at again under the lock.
EnsureUnchecked(t) ==
  LET w == tasks[t].world
  IN  /\ \/ tasks[t].at = "inspected" \/ (tasks[t].at = "waiting" /\ lock[w.digest] = Nobody)
      /\ IF tasks[t].at = "inspected" /\ ~Demanded(Current(w), Continues(t))
           THEN tasks' = [tasks EXCEPT ![t] = AtRest] /\ Remember(w) /\ UNCHANGED <<durable, file, lock>>
         ELSE IF lock[w.digest] # Nobody
           THEN tasks' = [tasks EXCEPT ![t].at = "waiting"] /\ Remember(w) /\ UNCHANGED <<durable, file, lock>>
         ELSE Remember(w) /\ Pass(t, Fresh)
      /\ Count({}) /\ UNCHANGED <<served, cached, upsets>>

\* ensure_bootstrap: what is missing is looked up, before the lock is taken
\* and again when it is.
Ensure(t) ==
  LET w == tasks[t].world
  IN  /\ \/ tasks[t].at = "inspected" \/ (tasks[t].at = "waiting" /\ lock[w.digest] = Nobody)
      /\ IF ~Demanded(Current(w), Continues(t))
           THEN tasks' = [tasks EXCEPT ![t] = AtRest] /\ Remember(w) /\ UNCHANGED <<durable, file, lock>>
         ELSE IF lock[w.digest] # Nobody
           THEN tasks' = [tasks EXCEPT ![t].at = "waiting"] /\ Remember(w) /\ UNCHANGED <<durable, file, lock>>
         ELSE Remember(w) /\ Pass(t, Starting(t))
      /\ Count({}) /\ UNCHANGED <<served, cached, upsets>>

\* qualify_route, without the lock, with continuation.
QualifyRoute ==
  /\ tasks[Api].at = "inspected"
  /\ IF Needed(Starting(Api), TRUE) # {} THEN Remember(tasks[Api].world) ELSE TRUE
  /\ Pass(Api, Starting(Api))
  /\ Count({}) /\ UNCHANGED <<served, cached, upsets>>

\* execute_bootstrap_probe answers: what is served now complied or did not,
\* or it answered with an error, which counts as not complying.
Generate(t) ==
  /\ tasks[t].at = "probing"
  /\ LET r == tasks[t].record
         probe == NextProbe(r, Continues(t))
     IN  /\ \E passed \in BOOLEAN :
              LET merged == MergeProbe(r, probe, passed)
              IN  /\ Pass(t, merged)
                  /\ Needed(merged, Continues(t)) # {} => UNCHANGED memory
         /\ Count(IF t = Api THEN {} ELSE {<<tasks[t].world, probe>>})
  /\ UNCHANGED <<served, cached, upsets>>

Upset == upsets < MaxUpsets /\ upsets' = upsets + 1

\* The probe raises, or the request is cancelled: what the pass found is lost.
Fail(t) ==
  /\ tasks[t].at = "probing" /\ Upset
  /\ tasks' = [tasks EXCEPT ![t] = AtRest]
  /\ IF t = Api THEN UNCHANGED lock ELSE Free(tasks[t].world.digest)
  /\ ran' = [w \in Worlds |-> [p \in Probes |->
                IF w = tasks[t].world /\ t # Api /\ (Current(w) = NoRecord \/ Current(w)[p] = "unknown")
                  THEN 0 ELSE ran[w][p]]]
  /\ UNCHANGED <<served, cached, memory, durable, file>>

-----------------------------------------------------------------------------
(* Controllers, and the world outside. *)

Levels == [degraded |-> 0, forced_tool |-> 2, sequential_agent |-> 3]

\* state_meets_controller_level, for the default level L3.
AgentQualified(w) == Current(w) # NoRecord /\ Levels[State(Current(w))] >= 3

\* _controller_route_is_qualified: the inspection, and the look at the record.
ChooseController ==
  LET w == IF cached # Nowhere THEN cached ELSE served
  IN  /\ cached' = w /\ Remember(w) /\ UNCHANGED durable /\ Count({})
      /\ UNCHANGED <<served, file, lock, tasks, upsets>>

Repoint ==
  /\ Upset /\ \E w \in Worlds \ {served} : served' = w
  /\ UNCHANGED <<cached, memory, durable, file, lock, tasks, ran>>

Restart ==
  /\ Upset /\ cached' = Nowhere /\ memory' = Empty /\ durable' = file
  /\ lock' = [d \in Digests |-> Nobody] /\ tasks' = [t \in Tasks |-> AtRest]
  /\ ran' = NoneRan
  /\ UNCHANGED <<served, file>>

\* interop qualify, in a process of its own, on the file as it is.
OtherRecords ==
  /\ Upset
  /\ file' = Put(file, served.digest, [Fresh EXCEPT !.native = "passed", !.continuation = "passed",
                                                    !.template = served.template])
  /\ UNCHANGED <<served, cached, memory, durable, lock, tasks, ran>>

QualificationNext ==
  \/ \E t \in Tasks : Inspect(t) \/ Generate(t) \/ Fail(t)
  \/ \E t \in Requests : Ensure(t)
  \/ QualifyRoute \/ Expire \/ ChooseController
  \/ Repoint \/ Restart \/ OtherRecords

-----------------------------------------------------------------------------
Kept == (UNION {{c[d] : d \in Digests} : c \in {memory, durable, file}})
        \union {tasks[t].record : t \in Tasks}

\* Evidence is gathered in stages, whoever gathers it and whatever record he
\* begins with: prompted forcing is tried only after native forcing failed,
\* and continuation only once forcing is proved (state.py:114).  A controller
\* has proved both (coordinator.py:35).
StagedEvidence ==
  /\ \A r \in Kept \ {NoRecord} :
       /\ r.prompted # "unknown" => r.native = "failed"
       /\ r.continuation # "unknown" => Forced(r)
  /\ \A w \in Worlds : AgentQualified(w) => Forced(Current(w)) /\ Current(w).continuation = "passed"

\* Requests that need the same evidence wait for one another: until its
\* evidence is lost, a probe is run once for a model and its template, and the
\* lock is held by the one that probes (coordinator.py:222).  A pass of
\* qualify_route in between never makes a request repeat what another found.
ProbedOnce ==
  /\ \A w \in Worlds, p \in Probes : ran[w][p] <= 1
  /\ \A t \in Requests : {d \in Digests : lock[d] = t} =
       IF tasks[t].at = "probing" THEN {tasks[t].world.digest} ELSE {}

QualificationSound == StagedEvidence /\ ProbedOnce
=============================================================================
