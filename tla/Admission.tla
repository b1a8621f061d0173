----------------------------- MODULE Admission -----------------------------
(***************************************************************************)
(* InferenceAdmissionController (admission.py): one asyncio semaphore per  *)
(* (backend URL, served model) key bounds how many requests generate at    *)
(* once; callers beyond the cap wait in a bounded queue until a permit,    *)
(* the queue timeout or a cancellation reaches them.                       *)
(*                                                                         *)
(* The states of two keys are disjoint and the reentrancy counts are kept  *)
(* per key, so the module follows one key.  Everything runs on one event   *)
(* loop: a step ends where the code suspends.  The controller's own        *)
(* asyncio.Lock never spans a suspension point and adds no step.           *)
(*                                                                         *)
(* A queued acquire runs wait_for(semaphore.acquire()), which CPython 3.11 *)
(* puts into a task of its own.  pc[t] follows the two of them:            *)
(*   "idle"      no acquire under way                                      *)
(*   "pending"   counted in queued; the inner task has not run yet         *)
(*   "waiting"   the inner task's future is in the semaphore's deque       *)
(*   "granted"   release() resolved the future; inner task not resumed     *)
(*   "dropping"  granted, and then timed out or cancelled before resuming  *)
(*   "won"       the inner task returned; the caller has not resumed       *)
(*   "unwinding" the inner task is cancelled; the caller has not resumed   *)
(***************************************************************************)
EXTENDS Integers, FiniteSets, Sequences, SequencesExt

CONSTANTS
  Task,        \* callers: request tasks that generate on this route
  Context,     \* contextvars contexts: each holds one slot-count dict
  ContextOf,   \* the context in which a task runs
  GlobalCap,   \* AdmissionConfig.max_concurrent_generations
  MaxQueued,   \* AdmissionConfig.max_queued_generations
  MaxDepth     \* bound: generation slots one task opens inside each other

ASSUME TaskAssumption == IsFiniteSet(Task)
ASSUME ContextAssumption == ContextOf \in [Task -> Context]
ASSUME CapAssumption == GlobalCap \in Nat \ {0} /\ MaxQueued \in Nat
ASSUME DepthAssumption == MaxDepth \in Nat \ {0}

VARIABLES
  value,     \* semaphore._value
  waiters,   \* semaphore._waiters without the cancelled futures
  capacity,  \* _PerKeyState.capacity, the value the semaphore was built with
  queued,    \* _PerKeyState.queued
  active,    \* _PerKeyState.active
  slots,     \* _task_slots: per context, the dict entry of this key (0: none)
  pc,        \* where the task's acquire stands
  depth,     \* per task: generation_slot bodies it is inside of, acquired ones
  live       \* per task: the levels among them not released yet

vars == <<value, waiters, capacity, queued, active, slots, pc, depth, live>>

PCs == {"idle", "pending", "waiting", "granted", "dropping", "won", "unwinding"}

TypeOK ==
  /\ value \in Nat
  /\ waiters \in Seq(Task)
  /\ capacity \in 1..GlobalCap
  /\ queued \in Nat
  /\ active \in Nat
  /\ slots \in [Context -> Nat]
  /\ pc \in [Task -> PCs]
  /\ depth \in [Task -> 0..MaxDepth]
  /\ live \in [Task -> SUBSET (1..MaxDepth)]

Init ==
  /\ value = GlobalCap
  /\ waiters = <<>>
  /\ capacity = GlobalCap
  /\ queued = 0
  /\ active = 0
  /\ slots = [c \in Context |-> 0]
  /\ pc = [t \in Task |-> "idle"]
  /\ depth = [t \in Task |-> 0]
  /\ live = [t \in Task |-> {}]

-----------------------------------------------------------------------------
(* The semaphore (asyncio.BoundedSemaphore).                               *)

Locked == value = 0 \/ waiters # <<>>

\* _wake_up_next with deque w, task positions p and counter v: the first
\* waiter that is not done takes a permit.
WakeUpNext(w, p, v) ==
  LET wait == {i \in DOMAIN w : p[w[i]] = "waiting"}
  IN  \/ /\ wait = {}
         /\ value' = v /\ pc' = p
      \/ \E i \in wait :
           /\ \A j \in wait : i <= j
           /\ value' = v - 1
           /\ pc' = [p EXCEPT ![w[i]] = "granted"]

\* The deque once task t's future has left it.
LeaveDeque(t) ==
  \E i \in DOMAIN waiters : waiters[i] = t /\ waiters' = RemoveAt(waiters, i)

-----------------------------------------------------------------------------
(* acquire.                                                                *)

Held(t) == slots[ContextOf[t]]

EnterSlot(t) ==
  /\ depth' = [depth EXCEPT ![t] = @ + 1]
  /\ live' = [live EXCEPT ![t] = @ \cup {depth[t] + 1}]
  /\ slots' = [slots EXCEPT ![ContextOf[t]] = @ + 1]

MayAcquire(t) == pc[t] = "idle" /\ depth[t] < MaxDepth

\* The context already holds this key's slot: re-enter without a permit.
AcquireReentrant(t) ==
  /\ MayAcquire(t)
  /\ Held(t) > 0
  /\ EnterSlot(t)
  /\ UNCHANGED <<value, waiters, capacity, queued, active, pc>>

\* A permit is free: take it without suspending.
AcquireFast(t) ==
  /\ MayAcquire(t)
  /\ Held(t) = 0
  /\ ~Locked
  /\ value' = value - 1
  /\ active' = active + 1
  /\ EnterSlot(t)
  /\ UNCHANGED <<waiters, capacity, queued, pc>>

QueueFull == queued >= MaxQueued

\* The queue is at its limit: the caller is told QUEUE_FULL at once.
AcquireRejected(t) ==
  /\ MayAcquire(t)
  /\ Held(t) = 0
  /\ Locked
  /\ QueueFull
  /\ UNCHANGED vars

AcquireQueued(t) ==
  /\ MayAcquire(t)
  /\ Held(t) = 0
  /\ Locked
  /\ ~QueueFull
  /\ queued' = queued + 1
  /\ pc' = [pc EXCEPT ![t] = "pending"]
  /\ UNCHANGED <<value, waiters, capacity, active, slots, depth, live>>

\* The inner task starts: semaphore.acquire() takes a permit or waits.
InnerStart(t) ==
  /\ pc[t] = "pending"
  /\ \/ /\ ~Locked
        /\ value' = value - 1
        /\ pc' = [pc EXCEPT ![t] = "won"]
        /\ UNCHANGED waiters
     \/ /\ Locked
        /\ waiters' = Append(waiters, t)
        /\ pc' = [pc EXCEPT ![t] = "waiting"]
        /\ UNCHANGED value
  /\ UNCHANGED <<capacity, queued, active, slots, depth, live>>

\* Mutant: the resumed waiter does not pass a second free permit on.
InnerResumeQuietly(t) ==
  /\ pc[t] = "granted"
  /\ LeaveDeque(t)
  /\ pc' = [pc EXCEPT ![t] = "won"]
  /\ UNCHANGED <<value, capacity, queued, active, slots, depth, live>>

\* The granted inner task resumes, leaves the deque and passes a further free
\* permit on to the next waiter.
InnerResume(t) ==
  /\ pc[t] = "granted"
  /\ LeaveDeque(t)
  /\ LET won == [pc EXCEPT ![t] = "won"]
     IN  IF value > 0 THEN WakeUpNext(waiters', won, value)
                      ELSE pc' = won /\ UNCHANGED value
  /\ UNCHANGED <<capacity, queued, active, slots, depth, live>>

\* Mutant: the cancelled inner task keeps the permit it was granted.
InnerDropForgetting(t) ==
  /\ pc[t] = "dropping"
  /\ LeaveDeque(t)
  /\ pc' = [pc EXCEPT ![t] = "unwinding"]
  /\ UNCHANGED <<value, capacity, queued, active, slots, depth, live>>

\* The granted inner task resumes into its cancellation: the permit goes back.
InnerDrop(t) ==
  /\ pc[t] = "dropping"
  /\ LeaveDeque(t)
  /\ WakeUpNext(waiters', [pc EXCEPT ![t] = "unwinding"], value + 1)
  /\ UNCHANGED <<capacity, queued, active, slots, depth, live>>

\* The queue timeout fires or the caller is cancelled: wait_for cancels the
\* inner task.  Once the inner task has won, both come too late.
StopWaiting(t) ==
  /\ \/ /\ pc[t] = "pending"
        /\ pc' = [pc EXCEPT ![t] = "unwinding"]
        /\ UNCHANGED waiters
     \/ /\ pc[t] = "waiting"
        /\ LeaveDeque(t)
        /\ pc' = [pc EXCEPT ![t] = "unwinding"]
     \/ /\ pc[t] = "granted"
        /\ pc' = [pc EXCEPT ![t] = "dropping"]
        /\ UNCHANGED waiters
  /\ UNCHANGED <<value, capacity, queued, active, slots, depth, live>>

\* Mutant: the success path forgets that the caller was counted as queued.
AcquireWonStillQueued(t) ==
  /\ pc[t] = "won"
  /\ active' = active + 1
  /\ EnterSlot(t)
  /\ pc' = [pc EXCEPT ![t] = "idle"]
  /\ UNCHANGED <<value, waiters, capacity, queued>>

\* The caller resumes with its permit.
AcquireWon(t) ==
  /\ pc[t] = "won"
  /\ queued' = IF queued > 0 THEN queued - 1 ELSE 0
  /\ active' = active + 1
  /\ EnterSlot(t)
  /\ pc' = [pc EXCEPT ![t] = "idle"]
  /\ UNCHANGED <<value, waiters, capacity>>

\* The caller resumes without one.
AcquireUnwound(t) ==
  /\ pc[t] = "unwinding"
  /\ queued' = IF queued > 0 THEN queued - 1 ELSE 0
  /\ pc' = [pc EXCEPT ![t] = "idle"]
  /\ UNCHANGED <<value, waiters, capacity, active, slots, depth, live>>

-----------------------------------------------------------------------------
(* release.                                                                *)

\* Mutant: every release frees the permit, nested or not.
ReleaseEveryLevel(t) ==
  /\ slots' = [slots EXCEPT ![ContextOf[t]] = IF @ > 0 THEN @ - 1 ELSE 0]
  /\ active' = IF active > 0 THEN active - 1 ELSE 0
  /\ WakeUpNext(waiters, pc, value + 1)

\* release_by_key: a nested level only drops the count; the outermost one
\* frees the permit and wakes the next waiter.
ReleaseByKey(t) ==
  \/ /\ Held(t) > 1
     /\ slots' = [slots EXCEPT ![ContextOf[t]] = @ - 1]
     /\ UNCHANGED <<value, active, pc>>
  \/ /\ Held(t) <= 1
     /\ slots' = [slots EXCEPT ![ContextOf[t]] = 0]
     /\ active' = IF active > 0 THEN active - 1 ELSE 0
     /\ WakeUpNext(waiters, pc, value + 1)

\* _GenerationSlot.release_now at transport EOF, the slot's body still open.
ReleaseNow(t) ==
  /\ pc[t] = "idle"
  /\ depth[t] \in live[t]
  /\ live' = [live EXCEPT ![t] = @ \ {depth[t]}]
  /\ ReleaseByKey(t)
  /\ UNCHANGED <<waiters, capacity, queued, depth>>

\* The body of generation_slot ends, normally or by an exception.
ExitSlot(t) ==
  /\ pc[t] = "idle"
  /\ depth[t] > 0
  /\ live' = [live EXCEPT ![t] = @ \ {depth[t]}]
  /\ depth' = [depth EXCEPT ![t] = @ - 1]
  /\ IF depth[t] \in live[t] THEN ReleaseByKey(t)
                             ELSE UNCHANGED <<value, active, slots, pc>>
  /\ UNCHANGED <<waiters, capacity, queued>>

-----------------------------------------------------------------------------
\* Mutant: the swap looks at the active count alone.
RouteIdleByActiveCount == active = 0

\* No holder, no caller in the queue, every permit in the semaphore.
RouteIdle == active = 0 /\ queued = 0 /\ value = capacity

\* Mutant: a capacity of zero is not turned away.
SetRouteCapacityUnchecked(cap) ==
  /\ cap < capacity
  /\ RouteIdle
  /\ value' = cap
  /\ waiters' = <<>>
  /\ capacity' = cap
  /\ UNCHANGED <<queued, active, slots, pc, depth, live>>

\* set_route_capacity: only ever lowers, and only on an idle route.
SetRouteCapacity(cap) ==
  /\ cap >= 1
  /\ cap < capacity
  /\ RouteIdle
  /\ value' = cap
  /\ waiters' = <<>>
  /\ capacity' = cap
  /\ UNCHANGED <<queued, active, slots, pc, depth, live>>

-----------------------------------------------------------------------------
Next ==
  \/ \E t \in Task :
       \/ AcquireReentrant(t) \/ AcquireFast(t)
       \/ AcquireRejected(t)  \/ AcquireQueued(t)
       \/ InnerStart(t) \/ InnerResume(t) \/ InnerDrop(t)
       \/ StopWaiting(t) \/ AcquireWon(t) \/ AcquireUnwound(t)
       \/ ReleaseNow(t) \/ ExitSlot(t)
  \/ \E cap \in 0..GlobalCap : SetRouteCapacity(cap)

Spec == Init /\ [][Next]_vars

\* The event loop runs every ready task.  A slot's body ends: the transport has
\* its own deadlines, and a request nests a bounded number of generations
\* (AttemptBudget), so it does not re-enter for ever: strong fairness of the
\* outermost exit.  Nothing is assumed of the queue timeout.
Fairness ==
  \A t \in Task :
    /\ WF_vars(InnerStart(t)) /\ WF_vars(InnerResume(t)) /\ WF_vars(InnerDrop(t))
    /\ WF_vars(AcquireWon(t)) /\ WF_vars(AcquireUnwound(t))
    /\ WF_vars(ExitSlot(t)) /\ SF_vars(depth[t] = 1 /\ ExitSlot(t))

FairSpec == Spec /\ Fairness

-----------------------------------------------------------------------------
(* Properties.                                                             *)

InQueue(t) == pc[t] # "idle"
HasPermitUnderWay(t) == pc[t] \in {"granted", "dropping", "won"}
Holding(t) == live[t] # {}

\* Each task runs in a context of its own, as the server's request tasks do.
PrivateContexts == \A s, t \in Task : ContextOf[s] = ContextOf[t] => s = t

\* A permit is in the semaphore, with a task that generates, or on its way to
\* one, and nowhere else: no timeout, cancellation, nested slot, release_now
\* or capacity swap loses or forges one (BoundedSemaphore never over-releases).
Owners == {t \in Task : Holding(t) \/ HasPermitUnderWay(t)}
PermitConservation == value + Cardinality(Owners) = capacity

\* No more tasks generate on the route than its cap allows ("one task's slot
\* count leaked into every other task ... letting B bypass the concurrency cap
\* entirely" is what the contextvar is there to rule out).
CapRespected == Cardinality({t \in Task : Holding(t)}) <= capacity

\* Seen from outside, the semaphore, its queue, the timeouts and the nesting
\* are a pool of at most capacity holders that is tightened only when empty.
Pool == INSTANCE SlotPool WITH holders <- {t \in Task : Holding(t)}, cap <- capacity
ImplementsPool == Pool!Spec

\* queued and active are exact although four paths update them, so max(0, ..)
\* never hides a drift and QUEUE_FULL is answered only at the real limit.
CountersExact ==
  /\ queued = Cardinality({t \in Task : InQueue(t)})
  /\ active = Cardinality({t \in Task : Holding(t)})
  /\ queued <= MaxQueued

\* A free permit beside a waiter is always about to be handed on by a task
\* that was granted one and has not resumed: no wake-up is lost.
NoLostWakeUp ==
  value > 0 /\ (\E i \in DOMAIN waiters : pc[waiters[i]] = "waiting")
    => \E t \in Task : pc[t] \in {"granted", "dropping"}

\* A waiter is not starved: it gets a permit, or it stops waiting.
WaiterServed == \A t \in Task : pc[t] = "waiting" ~> pc[t] # "waiting"
=============================================================================
