----------------------------- MODULE Readiness -----------------------------
(***************************************************************************)
(* Readiness of the routes: health checks arrive while the backends come   *)
(* and go; a snapshot younger than its time to live answers them, an older *)
(* one makes one of them probe every route, the others waiting behind the  *)
(* lock.                                                                   *)
(***************************************************************************)
EXTENDS Naturals, FiniteSets

CONSTANTS
  Routes, DefaultRoute,   \* DefaultRoute may be none of them
  Checks,                 \* concurrent health checks
  Ttl,                    \* five seconds, in ticks
  MaxAge                  \* ages past the time to live are one (bound)

ASSUME ReadinessAssumption ==
  Ttl \in Nat \ {0} /\ MaxAge \in Nat /\ MaxAge > Ttl /\ "nobody" \notin Checks

VARIABLES
  backends,   \* how each route's backend would answer a probe now
  results,    \* the snapshot: what each route answered, "not probed" before
  age,        \* of the snapshot
  holder,     \* of the lock, or "nobody"
  probing,    \* routes of the pass in flight that have not answered
  fresh,      \* what the routes of that pass have answered
  checks      \* [at, since]: since counts the ticks of the check's life

readinessVars == <<backends, results, age, holder, probing, fresh, checks>>

Answers == {"unreachable", "unauthenticated", "status", "no inventory", "present", "missing"}
NotProbed == [r \in Routes |-> "not probed"]
Resting == [at |-> "idle", since |-> 0]

ReadinessTypeOK ==
  /\ backends \in [Routes -> Answers]
  /\ {results, fresh} \subseteq [Routes -> Answers \union {"not probed"}]
  /\ age \in 0..MaxAge /\ holder \in Checks \union {"nobody"} /\ probing \subseteq Routes
  /\ checks \in [Checks -> [at : {"idle", "waiting", "probing", "answering"}, since : 0..MaxAge]]

ReadinessInit ==
  /\ backends \in [Routes -> Answers] /\ results = NotProbed /\ age = MaxAge
  /\ holder = "nobody" /\ probing = {} /\ fresh = NotProbed /\ checks = [c \in Checks |-> Resting]

Served == results # NotProbed /\ age < Ttl

\* probe_routes: serve the snapshot, or queue for the lock.
CheckBegins(c) ==
  /\ checks[c].at = "idle"
  /\ checks' = [checks EXCEPT ![c].at = IF Served THEN "answering" ELSE "waiting"]
  /\ UNCHANGED <<backends, results, age, holder, probing, fresh>>

\* Mutant: the age is not looked at again under the lock.
LocksBlind(c) ==
  /\ checks[c].at = "waiting" /\ holder = "nobody"
  /\ checks' = [checks EXCEPT ![c].at = "answering"]
  /\ UNCHANGED <<backends, results, age, holder, probing, fresh>>

\* Under the lock the snapshot is looked at again.
Locks(c) ==
  /\ checks[c].at = "waiting" /\ holder = "nobody"
  /\ IF Served
       THEN checks' = [checks EXCEPT ![c].at = "answering"] /\ UNCHANGED <<holder, probing>>
       ELSE /\ checks' = [checks EXCEPT ![c].at = "probing"]
            /\ holder' = c /\ probing' = Routes
  /\ UNCHANGED <<backends, results, age, fresh>>

\* probe_one_route, of the pass in flight: whatever happens becomes a result.
ProbeAnswers(r) ==
  /\ r \in probing /\ probing' = probing \ {r}
  /\ fresh' = [fresh EXCEPT ![r] = backends[r]]
  /\ UNCHANGED <<backends, results, age, holder, checks>>

\* The gather ends: the snapshot is replaced as a whole.
PassEnds(c) ==
  /\ checks[c].at = "probing" /\ probing = {}
  /\ results' = fresh /\ fresh' = NotProbed /\ age' = 0 /\ holder' = "nobody"
  /\ checks' = [checks EXCEPT ![c].at = "answering"]
  /\ UNCHANGED <<backends, probing>>

\* The check is cancelled in the middle of its pass: the snapshot stays.
PassCancelled(c) ==
  /\ checks[c].at = "probing"
  /\ holder' = "nobody" /\ probing' = {} /\ fresh' = NotProbed
  /\ checks' = [checks EXCEPT ![c] = Resting]
  /\ UNCHANGED <<backends, results, age>>

CheckEnds(c) ==
  /\ checks[c].at = "answering" /\ checks' = [checks EXCEPT ![c] = Resting]
  /\ UNCHANGED <<backends, results, age, holder, probing, fresh>>

Changes(r) ==
  /\ \E a \in Answers : backends' = [backends EXCEPT ![r] = a]
  /\ UNCHANGED <<results, age, holder, probing, fresh, checks>>

Older(n) == IF n < MaxAge THEN n + 1 ELSE n

Passes ==   \* time does
  /\ age' = Older(age)
  /\ checks' = [c \in Checks |-> IF checks[c].at = "idle" THEN checks[c]
                                 ELSE [checks[c] EXCEPT !.since = Older(@)]]
  /\ UNCHANGED <<backends, results, holder, probing, fresh>>

ReadinessNext ==
  \/ \E c \in Checks : CheckBegins(c) \/ Locks(c) \/ PassEnds(c) \/ PassCancelled(c) \/ CheckEnds(c)
  \/ \E r \in Routes : ProbeAnswers(r) \/ Changes(r)
  \/ Passes

\* readiness: a route is ready if its model is present or its backend keeps no
\* inventory; the default route, if there is one, speaks for all.
RouteReady(r) == results[r] \in {"no inventory", "present"}
Ready ==
  IF DefaultRoute \in Routes THEN RouteReady(DefaultRoute)
  ELSE Routes # {} /\ \A r \in Routes : RouteReady(r)

-----------------------------------------------------------------------------
\* One pass at a time probes the backends; a check that answers has seen a
\* whole snapshot that was, at some moment of the check, younger than its time
\* to live (readiness/__init__.py:62).
ChecksSound ==
  /\ \A c \in Checks : checks[c].at = "probing" <=> holder = c
  /\ probing # {} => holder # "nobody"
  /\ \A c \in Checks : checks[c].at = "answering" =>
       /\ \A r \in Routes : results[r] # "not probed"
       /\ age - checks[c].since < Ttl \/ age = MaxAge
=============================================================================
