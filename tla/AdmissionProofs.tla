-------------------------- MODULE AdmissionProofs --------------------------
(***************************************************************************)
(* For every set of callers and every capacity, queue length and nesting   *)
(* bound: no permit of the route is lost or forged, and admission          *)
(* implements SlotPool.  Assumed: each caller has a context of its own.    *)
(***************************************************************************)
EXTENDS Admission, FiniteSetTheorems, TLAPS

\* The reentrancy count of a task's context is the number of its live levels.
SlotCount == \A t \in Task : Held(t) = Cardinality(live[t])
Levels == \A t \in Task : live[t] \subseteq 1..depth[t]
\* Only a task that holds no slot ever queues, and it has a level to open.
AskerHoldsNothing == \A t \in Task : InQueue(t) => live[t] = {} /\ depth[t] < MaxDepth
Holders == {t \in Task : Holding(t)}
Queuers == {t \in Task : InQueue(t)}
Counts == queued = Cardinality(Queuers) /\ active = Cardinality(Holders) /\ queued <= MaxQueued

IInv ==
  /\ TypeOK
  /\ SlotCount
  /\ Levels
  /\ AskerHoldsNothing
  /\ PermitConservation
  /\ Counts

-----------------------------------------------------------------------------
(* Counting and the deque.                                                 *)

\* Any set of callers is finite, and one caller more or less is one more or
\* less in its cardinality.
LEMMA TaskSets ==
  ASSUME NEW S \in SUBSET Task
  PROVE  /\ IsFiniteSet(S)
         /\ Cardinality(S) \in Nat
         /\ \A t \in S : Cardinality(S \ {t}) = Cardinality(S) - 1
         /\ \A t \in Task \ S : Cardinality(S \cup {t}) = Cardinality(S) + 1
         /\ (Cardinality(S) = 0 <=> S = {})
BY TaskAssumption, FS_Subset, FS_CardinalityType, FS_AddElement, FS_RemoveElement,
   FS_EmptySet

\* The same for the slot levels of one task.
LEMMA LevelSets ==
  ASSUME NEW S \in SUBSET (1..MaxDepth)
  PROVE  /\ IsFiniteSet(S)
         /\ Cardinality(S) \in Nat
         /\ \A n \in S : Cardinality(S \ {n}) = Cardinality(S) - 1
         /\ \A n \in (1..MaxDepth) \ S : Cardinality(S \cup {n}) = Cardinality(S) + 1
         /\ (Cardinality(S) = 0 <=> S = {})
<1>1. IsFiniteSet(1..MaxDepth)
  BY DepthAssumption, FS_Interval
<1> QED
  BY <1>1, FS_Subset, FS_CardinalityType, FS_AddElement, FS_RemoveElement, FS_EmptySet

\* Leaving the deque keeps it a sequence of callers.
LEMMA LeaveDequeType ==
  ASSUME waiters \in Seq(Task), NEW t \in Task, LeaveDeque(t)
  PROVE  waiters' \in Seq(Task)
<1>1. PICK i \in DOMAIN waiters : waiters' = RemoveAt(waiters, i)
  BY DEF LeaveDeque
<1>2. waiters' = SubSeq(waiters, 1, i - 1) \o SubSeq(waiters, i + 1, Len(waiters))
  BY <1>1 DEF RemoveAt
<1>3. i \in 1..Len(waiters)
  OBVIOUS
<1> QED
  BY <1>2, <1>3

\* A wake-up either changes nothing or moves one waiting task to "granted" at
\* the price of one permit.
LEMMA WakeUpEffect ==
  ASSUME NEW w \in Seq(Task), NEW p \in [Task -> PCs], NEW v \in Nat, WakeUpNext(w, p, v)
  PROVE  \/ value' = v /\ pc' = p
         \/ \E u \in Task : /\ p[u] = "waiting"
                            /\ value' = v - 1
                            /\ pc' = [p EXCEPT ![u] = "granted"]
<1>1. \A i \in DOMAIN w : w[i] \in Task
  OBVIOUS
<1> QED
  BY <1>1 DEF WakeUpNext

-----------------------------------------------------------------------------
(* The two ways a slot changes hands.                                      *)

\* Opening a slot: the context's count and the live levels grow together.
LEMMA EnterSlotEffect ==
  ASSUME PrivateContexts, IInv, NEW t \in Task, depth[t] < MaxDepth, EnterSlot(t)
  PROVE  /\ depth' \in [Task -> 0..MaxDepth]
         /\ live' \in [Task -> SUBSET (1..MaxDepth)]
         /\ slots' \in [Context -> Nat]
         /\ SlotCount'
         /\ Levels'
         /\ live'[t] # {}
         /\ \A u \in Task \ {t} : live'[u] = live[u] /\ depth'[u] = depth[u]
<1> USE DEF IInv, TypeOK, EnterSlot
<1>1. depth[t] \in 0..MaxDepth /\ depth[t] + 1 \in 1..MaxDepth
  BY DepthAssumption
<1>2. /\ depth' \in [Task -> 0..MaxDepth]
      /\ live' \in [Task -> SUBSET (1..MaxDepth)]
      /\ slots' \in [Context -> Nat]
  <2>1. depth' \in [Task -> 0..MaxDepth]
    BY <1>1, DepthAssumption
  <2>2. live' \in [Task -> SUBSET (1..MaxDepth)]
    <3> DEFINE deeper == live[t] \cup {depth[t] + 1}
    <3>1. deeper \in SUBSET (1..MaxDepth)
      BY <1>1
    <3>2. live' = [live EXCEPT ![t] = deeper]
      OBVIOUS
    <3> HIDE DEF deeper
    <3> QED
      BY <3>1, <3>2
  <2>3. slots' \in [Context -> Nat]
    <3> DEFINE c == ContextOf[t]
    <3>1. c \in Context
      BY ContextAssumption
    <3>3. slots[c] \in Nat /\ slots[c] + 1 \in Nat
      BY <3>1
    <3>2. slots' = [slots EXCEPT ![c] = slots[c] + 1]
      OBVIOUS
    <3> HIDE DEF c
    <3> QED
      BY <3>1, <3>2, <3>3
  <2> QED
    BY <2>1, <2>2, <2>3
<1>3. /\ live'[t] = live[t] \cup {depth[t] + 1}
      /\ depth'[t] = depth[t] + 1
      /\ \A u \in Task \ {t} : live'[u] = live[u] /\ depth'[u] = depth[u]
  BY <1>2
<1>4. depth[t] + 1 \in (1..MaxDepth) \ live[t]
  BY <1>1 DEF Levels
<1>5. SlotCount'
  <2>1. Cardinality(live'[t]) = Cardinality(live[t]) + 1
    BY <1>3, <1>4, LevelSets
  <2>2. slots'[ContextOf[t]] = Held(t) + 1
    BY ContextAssumption DEF Held
  <2>3. \A u \in Task \ {t} : slots'[ContextOf[u]] = Held(u)
    BY ContextAssumption DEF PrivateContexts, Held
  <2> QED
    BY <1>3, <2>1, <2>2, <2>3 DEF SlotCount, Held
<1>6. Levels'
  BY <1>1, <1>3 DEF Levels
<1> QED
  BY <1>2, <1>3, <1>5, <1>6

\* Releasing the innermost live level: a nested one only drops the count, the
\* last one frees the permit, which stays in the semaphore or goes to a waiter.
LEMMA ReleaseEffect ==
  ASSUME PrivateContexts, IInv, NEW t \in Task, depth[t] \in live[t], pc[t] = "idle",
         live' = [live EXCEPT ![t] = @ \ {depth[t]}], ReleaseByKey(t)
  PROVE  /\ live' \in [Task -> SUBSET (1..MaxDepth)]
         /\ slots' \in [Context -> Nat]
         /\ SlotCount'
         /\ \A u \in Task \ {t} : live'[u] = live[u]
         /\ live'[t] = live[t] \ {depth[t]}
         /\ \/ live'[t] # {} /\ UNCHANGED <<value, active, pc>>
            \/ /\ live'[t] = {} /\ live[t] # {}
               /\ active' = active - 1
               /\ \/ value' = value + 1 /\ pc' = pc
                  \/ \E u \in Task : /\ pc[u] = "waiting"
                                     /\ value' = value
                                     /\ pc' = [pc EXCEPT ![u] = "granted"]
<1> USE DEF IInv, TypeOK
<1>1. /\ live' \in [Task -> SUBSET (1..MaxDepth)]
      /\ live'[t] = live[t] \ {depth[t]}
      /\ \A u \in Task \ {t} : live'[u] = live[u]
  OBVIOUS
<1>2. /\ Cardinality(live'[t]) = Cardinality(live[t]) - 1
      /\ Cardinality(live[t]) \in Nat \ {0}
      /\ Cardinality(live'[t]) = 0 <=> live'[t] = {}
  <2>1. /\ live[t] \in SUBSET (1..MaxDepth) /\ depth[t] \in live[t]
        /\ live'[t] \in SUBSET (1..MaxDepth)
    BY <1>1
  <2>2. /\ Cardinality(live[t] \ {depth[t]}) = Cardinality(live[t]) - 1
        /\ Cardinality(live[t]) \in Nat /\ (Cardinality(live[t]) = 0 <=> live[t] = {})
    BY ONLY <2>1, LevelSets
  <2>3. Cardinality(live'[t]) = 0 <=> live'[t] = {}
    BY ONLY <2>1, LevelSets
  <2> QED
    BY ONLY <1>1, <2>1, <2>2, <2>3
<1>3. Held(t) = Cardinality(live[t]) /\ Held(t) \in Nat \ {0}
  BY <1>2 DEF SlotCount
<1>4. /\ slots' \in [Context -> Nat]
      /\ slots'[ContextOf[t]] = Held(t) - 1
      /\ \A u \in Task \ {t} : slots'[ContextOf[u]] = Held(u)
  <2> DEFINE c == ContextOf[t]
  <2>1. c \in Context /\ slots[c] \in Nat \ {0}
    BY <1>3, ContextAssumption DEF Held
  <2>2. slots' = [slots EXCEPT ![c] = slots[c] - 1]
    BY <1>3, <2>1 DEF ReleaseByKey, Held
  <2>3. \A u \in Task \ {t} : ContextOf[u] \in Context /\ ContextOf[u] # c
    BY ContextAssumption DEF PrivateContexts
  <2> HIDE DEF c
  <2>4. /\ slots' \in [Context -> Nat]
        /\ slots'[c] = slots[c] - 1
        /\ \A d \in Context \ {c} : slots'[d] = slots[d]
    BY <2>1, <2>2
  <2> QED
    BY <2>3, <2>4 DEF Held, c
<1>5. SlotCount'
  BY <1>1, <1>2, <1>3, <1>4 DEF SlotCount, Held
<1>6. CASE Held(t) > 1
  BY <1>1, <1>2, <1>3, <1>4, <1>5, <1>6 DEF ReleaseByKey
<1>7. CASE Held(t) <= 1
  <2>1. live'[t] = {} /\ live[t] # {}
    BY <1>1, <1>2, <1>3, <1>7
  <2>2. active \in Nat \ {0}
    <3>1. Holders \in SUBSET Task /\ t \in Holders
      BY <2>1 DEF Holders, Holding
    <3> QED
      BY <3>1, TaskSets DEF Counts
  <2>3. WakeUpNext(waiters, pc, value + 1) /\ active' = active - 1
    BY <1>3, <1>7, <2>2 DEF ReleaseByKey
  <2>4. \/ value' = value + 1 /\ pc' = pc
        \/ \E u \in Task : /\ pc[u] = "waiting"
                           /\ value' = value
                           /\ pc' = [pc EXCEPT ![u] = "granted"]
    <3>1. value + 1 \in Nat /\ (value + 1) - 1 = value
      OBVIOUS
    <3>2. waiters \in Seq(Task) /\ pc \in [Task -> PCs]
      OBVIOUS
    <3> HIDE DEF IInv, TypeOK
    <3> QED
      BY <2>3, <3>1, <3>2, WakeUpEffect
  <2> QED
    BY <1>1, <1>4, <1>5, <2>1, <2>3, <2>4
<1> QED
  BY <1>3, <1>6, <1>7

-----------------------------------------------------------------------------
(* The counted sets after a step that moves one caller.                    *)

LEMMA CountedSets ==
  ASSUME TypeOK
  PROVE  Owners \in SUBSET Task /\ Holders \in SUBSET Task /\ Queuers \in SUBSET Task
BY DEF Owners, Holders, Queuers

\* Each action preserves the inductive invariant.
LEMMA ReentrantStep ==
  ASSUME PrivateContexts, IInv, NEW t \in Task, AcquireReentrant(t)
  PROVE  IInv'
<1> USE DEF AcquireReentrant, MayAcquire
<1>1. /\ depth' \in [Task -> 0..MaxDepth]
      /\ live' \in [Task -> SUBSET (1..MaxDepth)]
      /\ slots' \in [Context -> Nat]
      /\ SlotCount' /\ Levels'
      /\ live'[t] # {}
      /\ \A u \in Task \ {t} : live'[u] = live[u] /\ depth'[u] = depth[u]
  BY EnterSlotEffect
<1>2. live[t] # {}
  <2>1. Held(t) > 0 /\ Held(t) = Cardinality(live[t])
    BY DEF IInv, SlotCount
  <2>2. Cardinality({}) = 0
    BY FS_EmptySet
  <2> QED
    BY ONLY <2>1, <2>2
<1>3. TypeOK'
  BY <1>1 DEF IInv, TypeOK
<1>4. AskerHoldsNothing'
  BY <1>1 DEF IInv, AskerHoldsNothing, InQueue
<1>5. Owners' = Owners /\ Holders' = Holders /\ Queuers' = Queuers
  BY <1>1, <1>2 DEF Owners, Holders, Queuers, Holding, InQueue, HasPermitUnderWay
<1>6. PermitConservation' /\ Counts'
  BY <1>5 DEF IInv, PermitConservation, Counts
<1> QED
  BY <1>1, <1>3, <1>4, <1>6 DEF IInv

LEMMA FastStep ==
  ASSUME PrivateContexts, IInv, NEW t \in Task, AcquireFast(t)
  PROVE  IInv'
<1> USE DEF AcquireFast, MayAcquire
<1>1. /\ depth' \in [Task -> 0..MaxDepth]
      /\ live' \in [Task -> SUBSET (1..MaxDepth)]
      /\ slots' \in [Context -> Nat]
      /\ SlotCount' /\ Levels'
      /\ live'[t] # {}
      /\ \A u \in Task \ {t} : live'[u] = live[u] /\ depth'[u] = depth[u]
  BY EnterSlotEffect
<1>2. live[t] = {} /\ value \in Nat \ {0}
  BY LevelSets DEF IInv, TypeOK, SlotCount, Locked
<1>3. TypeOK'
  BY <1>1, <1>2 DEF IInv, TypeOK
<1>4. AskerHoldsNothing'
  BY <1>1 DEF IInv, AskerHoldsNothing, InQueue
<1>5. /\ t \in Task \ Owners /\ Owners' = Owners \cup {t}
      /\ t \in Task \ Holders /\ Holders' = Holders \cup {t}
      /\ Queuers' = Queuers
  BY <1>1, <1>2 DEF Owners, Holders, Queuers, Holding, InQueue, HasPermitUnderWay
<1>6. PermitConservation' /\ Counts'
  <2>1. /\ Cardinality(Owners') = Cardinality(Owners) + 1
        /\ Cardinality(Holders') = Cardinality(Holders) + 1
        /\ Cardinality(Owners) \in Nat /\ Cardinality(Holders) \in Nat
    BY <1>5, CountedSets, TaskSets DEF IInv
  <2> QED
    BY <1>2, <1>5, <2>1 DEF IInv, TypeOK, PermitConservation, Counts
<1> QED
  BY <1>1, <1>3, <1>4, <1>6 DEF IInv

LEMMA QueuedStep ==
  ASSUME PrivateContexts, IInv, NEW t \in Task, AcquireQueued(t)
  PROVE  IInv'
<1> USE DEF AcquireQueued, MayAcquire
<1>1. live[t] = {}
  BY LevelSets DEF IInv, TypeOK, SlotCount
<1>2. pc' \in [Task -> PCs] /\ pc'[t] = "pending" /\ \A u \in Task \ {t} : pc'[u] = pc[u]
  BY DEF IInv, TypeOK, PCs
<1>3. TypeOK'
  BY <1>2 DEF IInv, TypeOK
<1>4. AskerHoldsNothing' /\ SlotCount' /\ Levels'
  BY <1>1, <1>2 DEF IInv, AskerHoldsNothing, InQueue, SlotCount, Levels, Held
<1>5. /\ t \in Task \ Queuers /\ Queuers' = Queuers \cup {t}
      /\ Owners' = Owners /\ Holders' = Holders
  BY <1>1, <1>2 DEF Owners, Holders, Queuers, Holding, InQueue, HasPermitUnderWay
<1>6. PermitConservation' /\ Counts'
  <2>1. Cardinality(Queuers') = Cardinality(Queuers) + 1 /\ Cardinality(Queuers) \in Nat
    BY <1>5, CountedSets, TaskSets DEF IInv
  <2>2. queued < MaxQueued
    BY CapAssumption DEF QueueFull, IInv, TypeOK
  <2> QED
    BY <1>5, <2>1, <2>2, CapAssumption DEF IInv, TypeOK, PermitConservation, Counts
<1> QED
  BY <1>3, <1>4, <1>6 DEF IInv

\* Steps of the inner task and of its cancellation leave the slots alone.
LEMMA InnerFrame ==
  ASSUME IInv, NEW t \in Task, InQueue(t),
         UNCHANGED <<capacity, queued, active, slots, depth, live>>,
         waiters' \in Seq(Task), value' \in Nat, pc' \in [Task -> PCs],
         \A u \in Task : pc'[u] # "idle" <=> pc[u] # "idle",
         PermitConservation'
  PROVE  IInv'
<1>1. TypeOK'
  BY DEF IInv, TypeOK
<1>2. AskerHoldsNothing' /\ SlotCount' /\ Levels'
  BY DEF IInv, AskerHoldsNothing, InQueue, SlotCount, Levels, Held
<1>3. Queuers' = Queuers /\ Holders' = Holders
  BY DEF Queuers, Holders, InQueue, Holding
<1>4. Counts'
  BY <1>3 DEF IInv, Counts
<1> QED
  BY <1>1, <1>2, <1>4 DEF IInv

LEMMA InnerStartStep ==
  ASSUME IInv, NEW t \in Task, InnerStart(t)
  PROVE  IInv'
<1> USE DEF InnerStart
<1>1. InQueue(t) /\ live[t] = {}
  BY DEF InQueue, IInv, AskerHoldsNothing
<1>2. CASE ~Locked
  <2>1. value \in Nat \ {0} /\ value' = value - 1 /\ waiters' = waiters
    BY <1>2 DEF IInv, TypeOK, Locked
  <2>2. /\ pc' \in [Task -> PCs] /\ pc'[t] = "won"
        /\ \A u \in Task \ {t} : pc'[u] = pc[u]
    BY <1>2 DEF IInv, TypeOK, PCs
  <2>3. t \in Task \ Owners /\ Owners' = Owners \cup {t}
    BY <1>1, <2>2 DEF Owners, Holding, HasPermitUnderWay
  <2>4. Cardinality(Owners') = Cardinality(Owners) + 1 /\ Cardinality(Owners) \in Nat
    BY <2>3, CountedSets, TaskSets DEF IInv
  <2>5. PermitConservation'
    BY <2>1, <2>4 DEF IInv, TypeOK, PermitConservation
  <2>6. waiters' \in Seq(Task) /\ value' \in Nat
    BY <2>1 DEF IInv, TypeOK
  <2> QED
    BY <1>1, <2>2, <2>5, <2>6, InnerFrame
<1>3. CASE Locked
  <2>1. value' = value /\ waiters' \in Seq(Task)
    <3>1. value' = value /\ waiters' = Append(waiters, t) /\ waiters \in Seq(Task)
      BY <1>3 DEF IInv, TypeOK
    <3> QED
      BY <3>1
  <2>2. /\ pc' \in [Task -> PCs] /\ pc'[t] = "waiting"
        /\ \A u \in Task \ {t} : pc'[u] = pc[u]
    BY <1>3 DEF IInv, TypeOK, PCs
  <2>3. Owners' = Owners
    BY <1>1, <2>2 DEF Owners, Holding, HasPermitUnderWay
  <2>4. PermitConservation' /\ value' \in Nat
    BY <2>1, <2>3 DEF IInv, TypeOK, PermitConservation
  <2> QED
    BY <1>1, <2>1, <2>2, <2>4, InnerFrame
<1> QED
  BY <1>2, <1>3

\* A wake-up with one caller's position already changed to p keeps the books:
\* the permits of p's owners and of the semaphore stay v + their number.
LEMMA WakeUpAccount ==
  ASSUME IInv, NEW p \in [Task -> PCs], NEW v \in Nat,
         waiters' \in Seq(Task), live' = live, WakeUpNext(waiters', p, v),
         v > 0,
         \A u \in Task : p[u] # "idle" <=> pc[u] # "idle",
         LET owners == {u \in Task : live[u] # {} \/ p[u] \in {"granted", "dropping", "won"}}
         IN  v + Cardinality(owners) = capacity
  PROVE  /\ value' \in Nat
         /\ pc' \in [Task -> PCs]
         /\ \A u \in Task : pc'[u] # "idle" <=> pc[u] # "idle"
         /\ value' + Cardinality(Owners') = capacity
<1> DEFINE owners == {u \in Task : live[u] # {} \/ p[u] \in {"granted", "dropping", "won"}}
<1>1. owners \in SUBSET Task /\ v + Cardinality(owners) = capacity
  OBVIOUS
<1>2. CASE value' = v /\ pc' = p
  <2>1. Owners' = owners
    BY <1>2 DEF Owners, Holding, HasPermitUnderWay
  <2> QED
    BY <1>1, <1>2, <2>1
<1>3. ASSUME NEW u \in Task, p[u] = "waiting", value' = v - 1,
             pc' = [p EXCEPT ![u] = "granted"]
      PROVE  /\ value' \in Nat
             /\ pc' \in [Task -> PCs]
             /\ \A x \in Task : pc'[x] # "idle" <=> pc[x] # "idle"
             /\ value' + Cardinality(Owners') = capacity
  <2>1. /\ pc' \in [Task -> PCs] /\ pc'[u] = "granted"
        /\ \A x \in Task \ {u} : pc'[x] = p[x]
    BY <1>3 DEF PCs
  <2>2. live[u] = {}
    BY <1>3 DEF IInv, AskerHoldsNothing, InQueue
  <2>3. u \in Task \ owners /\ Owners' = owners \cup {u}
    BY <1>3, <2>1, <2>2 DEF Owners, Holding, HasPermitUnderWay
  <2>4. Cardinality(Owners') = Cardinality(owners) + 1 /\ Cardinality(owners) \in Nat
    BY <1>1, <2>3, TaskSets
  <2>5. value' \in Nat /\ value' + Cardinality(Owners') = capacity
    <3>1. value' = v - 1 /\ v \in Nat /\ v > 0
      BY <1>3
    <3> HIDE DEF owners
    <3> QED
      BY ONLY <1>1, <2>4, <3>1
  <2>6. \A x \in Task : pc'[x] # "idle" <=> pc[x] # "idle"
    BY <1>3, <2>1
  <2> QED
    BY <2>1, <2>5, <2>6
<1> QED
  BY <1>2, <1>3, WakeUpEffect

LEMMA InnerResumeStep ==
  ASSUME IInv, NEW t \in Task, InnerResume(t)
  PROVE  IInv'
<1> USE DEF InnerResume
<1>1. InQueue(t) /\ live[t] = {} /\ waiters \in Seq(Task)
  BY DEF InQueue, IInv, AskerHoldsNothing, TypeOK
<1>2. waiters' \in Seq(Task)
  BY <1>1, LeaveDequeType
<1> DEFINE won == [pc EXCEPT ![t] = "won"]
<1>3. /\ won \in [Task -> PCs] /\ won[t] = "won"
      /\ \A u \in Task \ {t} : won[u] = pc[u]
  BY DEF IInv, TypeOK, PCs
<1>4. \A u \in Task : won[u] # "idle" <=> pc[u] # "idle"
  BY <1>3
<1>5. {u \in Task : live[u] # {} \/ won[u] \in {"granted", "dropping", "won"}} = Owners
  BY <1>3 DEF Owners, Holding, HasPermitUnderWay
<1>6. value \in Nat /\ value + Cardinality(Owners) = capacity
  BY DEF IInv, TypeOK, PermitConservation
<1>7. /\ value' \in Nat /\ pc' \in [Task -> PCs]
      /\ \A u \in Task : pc'[u] # "idle" <=> pc[u] # "idle"
      /\ value' + Cardinality(Owners') = capacity
  <2>1. CASE value > 0
    <3>1. WakeUpNext(waiters', won, value)
      BY <2>1
    <3> HIDE DEF won
    <3> QED
      BY <1>2, <1>3, <1>4, <1>5, <1>6, <2>1, <3>1, WakeUpAccount
  <2>2. CASE ~(value > 0)
    <3>1. pc' = won /\ value' = value
      BY <2>2
    <3>2. Owners' = Owners
      BY <1>3, <3>1 DEF Owners, Holding, HasPermitUnderWay
    <3> QED
      BY <1>3, <1>4, <1>6, <3>1, <3>2
  <2> QED
    BY <2>1, <2>2
<1>8. PermitConservation'
  BY <1>7 DEF PermitConservation
<1> QED
  BY <1>1, <1>2, <1>7, <1>8, InnerFrame

LEMMA InnerDropStep ==
  ASSUME IInv, NEW t \in Task, InnerDrop(t)
  PROVE  IInv'
<1> USE DEF InnerDrop
<1>1. InQueue(t) /\ live[t] = {} /\ waiters \in Seq(Task)
  BY DEF InQueue, IInv, AskerHoldsNothing, TypeOK
<1>2. waiters' \in Seq(Task)
  BY <1>1, LeaveDequeType
<1> DEFINE gone == [pc EXCEPT ![t] = "unwinding"]
           owners == {u \in Task : live[u] # {} \/ gone[u] \in {"granted", "dropping", "won"}}
<1>3. /\ gone \in [Task -> PCs] /\ gone[t] = "unwinding"
      /\ \A u \in Task \ {t} : gone[u] = pc[u]
  BY DEF IInv, TypeOK, PCs
<1>4. \A u \in Task : gone[u] # "idle" <=> pc[u] # "idle"
  BY <1>3
<1>5. t \in Owners /\ owners = Owners \ {t}
  BY <1>1, <1>3 DEF Owners, Holding, HasPermitUnderWay
<1>6. /\ value + 1 \in Nat /\ value + 1 > 0
      /\ value + 1 + Cardinality(owners) = capacity
  <2>1. Cardinality(owners) = Cardinality(Owners) - 1 /\ Cardinality(Owners) \in Nat
    BY <1>5, CountedSets, TaskSets DEF IInv
  <2> QED
    BY <2>1 DEF IInv, TypeOK, PermitConservation
<1>7. WakeUpNext(waiters', gone, value + 1)
  OBVIOUS
<1> HIDE DEF gone
<1>8. /\ value' \in Nat /\ pc' \in [Task -> PCs]
      /\ \A u \in Task : pc'[u] # "idle" <=> pc[u] # "idle"
      /\ value' + Cardinality(Owners') = capacity
  BY <1>2, <1>3, <1>4, <1>6, <1>7, WakeUpAccount
<1>9. PermitConservation'
  BY <1>8 DEF PermitConservation
<1> QED
  BY <1>1, <1>2, <1>8, <1>9, InnerFrame

LEMMA StopWaitingStep ==
  ASSUME IInv, NEW t \in Task, StopWaiting(t)
  PROVE  IInv'
<1> USE DEF StopWaiting
<1>1. InQueue(t) /\ waiters \in Seq(Task)
  BY DEF InQueue, IInv, TypeOK
<1>2. waiters' \in Seq(Task)
  BY <1>1, LeaveDequeType
<1>3. /\ pc' \in [Task -> PCs]
      /\ \A u \in Task : pc'[u] # "idle" <=> pc[u] # "idle"
      /\ \A u \in Task : HasPermitUnderWay(u)' <=> HasPermitUnderWay(u)
  BY DEF IInv, TypeOK, PCs, HasPermitUnderWay
<1>4. Owners' = Owners
  BY <1>3 DEF Owners, Holding
<1>5. PermitConservation' /\ value' \in Nat
  BY <1>4 DEF IInv, TypeOK, PermitConservation
<1> QED
  BY <1>1, <1>2, <1>3, <1>5, InnerFrame

LEMMA WonStep ==
  ASSUME PrivateContexts, IInv, NEW t \in Task, AcquireWon(t)
  PROVE  IInv'
<1> USE DEF AcquireWon
<1>0. live[t] = {} /\ depth[t] < MaxDepth
  BY DEF IInv, AskerHoldsNothing, InQueue
<1>1. /\ depth' \in [Task -> 0..MaxDepth]
      /\ live' \in [Task -> SUBSET (1..MaxDepth)]
      /\ slots' \in [Context -> Nat]
      /\ SlotCount' /\ Levels'
      /\ live'[t] # {}
      /\ \A u \in Task \ {t} : live'[u] = live[u] /\ depth'[u] = depth[u]
  BY <1>0, EnterSlotEffect
<1>2. pc' \in [Task -> PCs] /\ pc'[t] = "idle" /\ \A u \in Task \ {t} : pc'[u] = pc[u]
  BY DEF IInv, TypeOK, PCs
<1>3. /\ Owners' = Owners
      /\ t \in Task \ Holders /\ Holders' = Holders \cup {t}
      /\ t \in Queuers /\ Queuers' = Queuers \ {t}
  BY <1>0, <1>1, <1>2 DEF Owners, Holders, Queuers, Holding, InQueue, HasPermitUnderWay
<1>4. /\ Cardinality(Holders') = Cardinality(Holders) + 1
      /\ Cardinality(Queuers') = Cardinality(Queuers) - 1
      /\ Cardinality(Holders) \in Nat /\ Cardinality(Queuers) \in Nat \ {0}
  BY <1>3, CountedSets, TaskSets DEF IInv
<1>5. queued > 0 /\ queued' = queued - 1 /\ active' = active + 1
  BY <1>4 DEF IInv, Counts
<1>6. TypeOK'
  BY <1>1, <1>2, <1>5 DEF IInv, TypeOK
<1>7. AskerHoldsNothing'
  BY <1>1, <1>2 DEF IInv, AskerHoldsNothing, InQueue
<1>8. PermitConservation' /\ Counts'
  BY <1>3, <1>4, <1>5, CapAssumption DEF IInv, PermitConservation, Counts
<1> QED
  BY <1>1, <1>6, <1>7, <1>8 DEF IInv

LEMMA UnwoundStep ==
  ASSUME IInv, NEW t \in Task, AcquireUnwound(t)
  PROVE  IInv'
<1> USE DEF AcquireUnwound
<1>1. pc' \in [Task -> PCs] /\ pc'[t] = "idle" /\ \A u \in Task \ {t} : pc'[u] = pc[u]
  BY DEF IInv, TypeOK, PCs
<1>2. /\ Owners' = Owners /\ Holders' = Holders
      /\ t \in Queuers /\ Queuers' = Queuers \ {t}
  BY <1>1 DEF Owners, Holders, Queuers, Holding, InQueue, HasPermitUnderWay
<1>3. Cardinality(Queuers') = Cardinality(Queuers) - 1 /\ Cardinality(Queuers) \in Nat \ {0}
  BY <1>2, CountedSets, TaskSets DEF IInv
<1>4. queued > 0 /\ queued' = queued - 1
  BY <1>3 DEF IInv, Counts
<1>5. TypeOK'
  BY <1>1, <1>4 DEF IInv, TypeOK
<1>6. AskerHoldsNothing' /\ SlotCount' /\ Levels'
  BY <1>1 DEF IInv, AskerHoldsNothing, InQueue, SlotCount, Levels, Held
<1>7. PermitConservation' /\ Counts'
  BY <1>2, <1>3, <1>4, CapAssumption DEF IInv, PermitConservation, Counts
<1> QED
  BY <1>5, <1>6, <1>7 DEF IInv

\* Releasing the innermost live level, the body still open or ending with it.
LEMMA ReleaseStep ==
  ASSUME PrivateContexts, IInv, NEW t \in Task, pc[t] = "idle", depth[t] \in live[t],
         live' = [live EXCEPT ![t] = @ \ {depth[t]}], ReleaseByKey(t),
         depth' = depth \/ depth' = [depth EXCEPT ![t] = @ - 1],
         UNCHANGED <<waiters, capacity, queued>>
  PROVE  IInv'
<1>1. /\ live' \in [Task -> SUBSET (1..MaxDepth)]
      /\ slots' \in [Context -> Nat]
      /\ SlotCount'
      /\ \A u \in Task \ {t} : live'[u] = live[u]
      /\ live'[t] = live[t] \ {depth[t]}
      /\ \/ live'[t] # {} /\ UNCHANGED <<value, active, pc>>
         \/ /\ live'[t] = {} /\ live[t] # {}
            /\ active' = active - 1
            /\ \/ value' = value + 1 /\ pc' = pc
               \/ \E u \in Task : /\ pc[u] = "waiting"
                                  /\ value' = value
                                  /\ pc' = [pc EXCEPT ![u] = "granted"]
  BY ReleaseEffect
<1>2. /\ depth[t] \in 1..MaxDepth
      /\ depth' \in [Task -> 0..MaxDepth]
      /\ \A u \in Task \ {t} : depth'[u] = depth[u]
      /\ depth'[t] = depth[t] \/ depth'[t] = depth[t] - 1
  <2>1. depth[t] \in 1..MaxDepth /\ depth \in [Task -> 0..MaxDepth]
    BY DEF IInv, TypeOK
  <2>2. depth[t] - 1 \in 0..MaxDepth
    BY <2>1, DepthAssumption
  <2> QED
    BY <2>1, <2>2
<1>3. Levels'
  BY <1>1, <1>2 DEF IInv, TypeOK, Levels
<1>4. CASE live'[t] # {} /\ UNCHANGED <<value, active, pc>>
  <2>1. TypeOK'
    BY <1>1, <1>2, <1>4 DEF IInv, TypeOK
  <2>2. AskerHoldsNothing'
    BY <1>1, <1>2, <1>4 DEF IInv, AskerHoldsNothing, InQueue
  <2>3. Owners' = Owners /\ Holders' = Holders /\ Queuers' = Queuers
    BY <1>1, <1>4 DEF Owners, Holders, Queuers, Holding, InQueue, HasPermitUnderWay
  <2>4. PermitConservation' /\ Counts'
    BY <1>4, <2>3 DEF IInv, PermitConservation, Counts
  <2> QED
    BY <1>1, <1>3, <2>1, <2>2, <2>4 DEF IInv
<1>5. CASE /\ live'[t] = {} /\ live[t] # {}
           /\ active' = active - 1
           /\ \/ value' = value + 1 /\ pc' = pc
              \/ \E u \in Task : /\ pc[u] = "waiting"
                                 /\ value' = value
                                 /\ pc' = [pc EXCEPT ![u] = "granted"]
  <2>1. /\ t \in Holders /\ Holders' = Holders \ {t}
        /\ t \in Owners
    BY <1>1, <1>5 DEF Owners, Holders, Holding
  <2>2. /\ Cardinality(Holders') = Cardinality(Holders) - 1
        /\ Cardinality(Holders) \in Nat \ {0}
        /\ Cardinality(Owners \ {t}) = Cardinality(Owners) - 1
        /\ Cardinality(Owners) \in Nat \ {0}
    BY <2>1, CountedSets, TaskSets DEF IInv
  <2>3. active' \in Nat
    BY <1>5, <2>2 DEF IInv, Counts
  <2>4. CASE value' = value + 1 /\ pc' = pc
    <3>1. Owners' = Owners \ {t} /\ Queuers' = Queuers
      BY <1>1, <1>5, <2>1, <2>4 DEF Owners, Queuers, Holding, InQueue, HasPermitUnderWay
    <3>2. TypeOK'
      BY <1>1, <1>2, <2>3, <2>4 DEF IInv, TypeOK
    <3>3. AskerHoldsNothing'
      BY <1>1, <1>2, <2>4 DEF IInv, AskerHoldsNothing, InQueue
    <3>4. PermitConservation' /\ Counts'
      BY <1>5, <2>1, <2>2, <2>4, <3>1 DEF IInv, TypeOK, PermitConservation, Counts
    <3> QED
      BY <1>1, <1>3, <3>2, <3>3, <3>4 DEF IInv
  <2>5. ASSUME NEW u \in Task, pc[u] = "waiting", value' = value,
               pc' = [pc EXCEPT ![u] = "granted"]
        PROVE  IInv'
    <3>1. /\ pc' \in [Task -> PCs] /\ pc'[u] = "granted" /\ u # t
          /\ \A x \in Task \ {u} : pc'[x] = pc[x]
      BY <2>5 DEF IInv, TypeOK, PCs
    <3>2. live[u] = {}
      BY <2>5 DEF IInv, AskerHoldsNothing, InQueue
    <3>3. /\ u \in Task \ (Owners \ {t}) /\ Owners' = (Owners \ {t}) \cup {u}
          /\ Queuers' = Queuers
      BY <1>1, <1>5, <2>5, <3>1, <3>2
         DEF Owners, Queuers, Holding, InQueue, HasPermitUnderWay
    <3>4. Cardinality(Owners') = Cardinality(Owners)
      <4>1. Owners \ {t} \in SUBSET Task
        BY CountedSets DEF IInv
      <4> QED
        BY <2>2, <3>3, <4>1, TaskSets
    <3>5. TypeOK'
      BY <1>1, <1>2, <2>3, <2>5, <3>1 DEF IInv, TypeOK
    <3>6. AskerHoldsNothing'
      BY <1>1, <1>2, <2>5, <3>1 DEF IInv, AskerHoldsNothing, InQueue
    <3>7. PermitConservation' /\ Counts'
      BY <1>5, <2>1, <2>2, <2>5, <3>3, <3>4 DEF IInv, TypeOK, PermitConservation, Counts
    <3> QED
      BY <1>1, <1>3, <3>5, <3>6, <3>7 DEF IInv
  <2> QED
    BY <1>5, <2>4, <2>5
<1> QED
  BY <1>1, <1>4, <1>5

LEMMA ExitStep ==
  ASSUME PrivateContexts, IInv, NEW t \in Task, ExitSlot(t)
  PROVE  IInv'
<1> USE DEF ExitSlot
<1>1. CASE depth[t] \in live[t]
  BY <1>1, ReleaseStep
<1>2. CASE depth[t] \notin live[t]
  <2>1. live' = live /\ UNCHANGED <<value, waiters, capacity, queued, active, slots, pc>>
    BY <1>2 DEF IInv, TypeOK
  <2>2. /\ depth[t] \in 1..MaxDepth /\ depth'[t] = depth[t] - 1
        /\ depth' \in [Task -> 0..MaxDepth]
        /\ \A u \in Task \ {t} : depth'[u] = depth[u]
    <3>1. depth[t] \in 1..MaxDepth /\ depth \in [Task -> 0..MaxDepth]
      BY DepthAssumption DEF IInv, TypeOK
    <3>2. depth[t] - 1 \in 0..MaxDepth
      BY <3>1, DepthAssumption
    <3> QED
      BY <3>1, <3>2
  <2>3. TypeOK'
    BY <2>1, <2>2 DEF IInv, TypeOK
  <2>4. SlotCount' /\ AskerHoldsNothing' /\ PermitConservation' /\ Counts'
    <3>1. SlotCount' /\ AskerHoldsNothing'
      BY <2>1, <2>2 DEF IInv, SlotCount, Held, AskerHoldsNothing, InQueue
    <3>2. Owners' = Owners /\ Holders' = Holders /\ Queuers' = Queuers
      BY <2>1 DEF Owners, Holders, Queuers, Holding, HasPermitUnderWay, InQueue
    <3> QED
      BY <2>1, <3>1, <3>2 DEF IInv, PermitConservation, Counts
  <2>5. Levels'
    BY <1>2, <2>1, <2>2 DEF IInv, TypeOK, Levels
  <2> QED
    BY <2>3, <2>4, <2>5 DEF IInv
<1> QED
  BY <1>1, <1>2

LEMMA SetRouteCapacityStep ==
  ASSUME IInv, NEW cap \in 0..GlobalCap, SetRouteCapacity(cap)
  PROVE  IInv'
<1> USE DEF SetRouteCapacity, RouteIdle
<1>1. Cardinality(Owners) = 0 /\ cap \in 1..GlobalCap
  <2>1. Cardinality(Owners) \in Nat
    BY CountedSets, TaskSets DEF IInv
  <2> QED
    BY <2>1, CapAssumption DEF IInv, TypeOK, PermitConservation
<1>2. TypeOK'
  BY <1>1 DEF IInv, TypeOK
<1>3. Owners' = Owners /\ Holders' = Holders /\ Queuers' = Queuers
  BY DEF Owners, Holders, Queuers, Holding, InQueue, HasPermitUnderWay
<1>4. PermitConservation' /\ Counts'
  <2>1. cap \in Nat /\ cap + 0 = cap /\ value' = cap /\ capacity' = cap
    BY <1>1, CapAssumption
  <2>2. PermitConservation'
    BY <1>1, <1>3, <2>1 DEF PermitConservation
  <2> QED
    BY <1>3, <2>2 DEF IInv, Counts
<1>5. SlotCount' /\ Levels' /\ AskerHoldsNothing'
  BY DEF IInv, SlotCount, Held, Levels, AskerHoldsNothing, InQueue
<1> QED
  BY <1>2, <1>4, <1>5 DEF IInv

-----------------------------------------------------------------------------
(* The invariant and its consequences.                                     *)

LEMMA InitInvariant == Init => IInv
<1> SUFFICES ASSUME Init PROVE IInv
  OBVIOUS
<1> USE DEF Init
<1>1. TypeOK
  BY CapAssumption, DepthAssumption DEF TypeOK, PCs
<1>2. Owners = {} /\ Holders = {} /\ Queuers = {}
  BY DEF Owners, Holders, Queuers, Holding, InQueue, HasPermitUnderWay
<1>3. PermitConservation /\ Counts
  BY <1>2, FS_EmptySet, CapAssumption DEF PermitConservation, Counts
<1>4. SlotCount
  BY FS_EmptySet, ContextAssumption DEF SlotCount, Held
<1>5. Levels /\ AskerHoldsNothing
  BY DEF Levels, AskerHoldsNothing, InQueue
<1> QED
  BY <1>1, <1>3, <1>4, <1>5 DEF IInv

LEMMA StepInvariant ==
  ASSUME PrivateContexts, IInv, [Next]_vars
  PROVE  IInv'
<1>1. CASE UNCHANGED vars
  BY <1>1 DEF vars, IInv, TypeOK, SlotCount, Held, Levels, AskerHoldsNothing, InQueue,
              PermitConservation, Owners, Holding, HasPermitUnderWay, Counts, Holders, Queuers
<1>2. ASSUME NEW t \in Task, AcquireRejected(t) PROVE IInv'
  BY <1>1, <1>2 DEF AcquireRejected
<1>3. ASSUME NEW t \in Task, ReleaseNow(t) PROVE IInv'
  BY <1>3, ReleaseStep DEF ReleaseNow
<1> QED
  BY <1>1, <1>2, <1>3, ReentrantStep, FastStep, QueuedStep, InnerStartStep, InnerResumeStep,
     InnerDropStep, StopWaitingStep, WonStep, UnwoundStep, ExitStep, SetRouteCapacityStep
     DEF Next

LEMMA InvariantHolds == PrivateContexts => (Spec => []IInv)
<1> SUFFICES ASSUME PrivateContexts PROVE Spec => []IInv
  OBVIOUS
<1>1. IInv /\ [Next]_vars => IInv'
  BY StepInvariant
<1> QED
  BY <1>1, InitInvariant, PTL DEF Spec

\* Every variable keeps its type on every route and for every load.
THEOREM AdmissionTypeOK == PrivateContexts => (Spec => []TypeOK)
<1>1. IInv => TypeOK
  BY DEF IInv
<1> QED
  BY <1>1, InvariantHolds, PTL

\* No interleaving of acquires, timeouts, cancellations, nested slots, early
\* releases and capacity swaps loses or forges a permit of the semaphore.
THEOREM PermitsConserved == PrivateContexts => (Spec => []PermitConservation)
<1>1. IInv => PermitConservation
  BY DEF IInv
<1> QED
  BY <1>1, InvariantHolds, PTL

\* The deque holds each waiter once, until it has been resumed or stops waiting.
Lined(t) == pc[t] \in {"waiting", "granted", "dropping"}
Deque ==
  /\ \A i \in DOMAIN waiters : Lined(waiters[i])
  /\ \A i, j \in DOMAIN waiters : waiters[i] = waiters[j] => i = j

\* Two stretches of the deque put together.
LEMMA Joined ==
  ASSUME NEW a \in Seq(Task), NEW b \in Seq(Task)
  PROVE  /\ a \o b \in Seq(Task) /\ Len(a \o b) = Len(a) + Len(b)
         /\ \A j \in 1..(Len(a) + Len(b)) :
              (a \o b)[j] = IF j <= Len(a) THEN a[j] ELSE b[j - Len(a)]
OBVIOUS

\* A task that leaves the deque is in it no longer; the others keep their order.
LEMMA LeaveDequeEffect ==
  ASSUME waiters \in Seq(Task), Deque, NEW t \in Task, LeaveDeque(t)
  PROVE  /\ waiters' \in Seq(Task)
         /\ \A j \in DOMAIN waiters' : waiters'[j] # t /\ Lined(waiters'[j])
         /\ \A j, k \in DOMAIN waiters' : waiters'[j] = waiters'[k] => j = k
<1>1. PICK i \in DOMAIN waiters : waiters[i] = t /\ waiters' = RemoveAt(waiters, i)
  BY DEF LeaveDeque
<1>2. i \in 1..Len(waiters) /\ DOMAIN waiters = 1..Len(waiters) /\ Len(waiters) \in Nat
  OBVIOUS
<1> DEFINE front == SubSeq(waiters, 1, i - 1)
           back == SubSeq(waiters, i + 1, Len(waiters))
<1>3. /\ front \in Seq(Task) /\ Len(front) = i - 1
      /\ \A j \in 1..(i - 1) : front[j] = waiters[j]
  BY <1>2
<1>4. /\ back \in Seq(Task) /\ Len(back) = Len(waiters) - i
      /\ \A j \in 1..(Len(waiters) - i) : back[j] = waiters[i + j]
  BY <1>2
<1>5. waiters' = front \o back
  BY <1>1 DEF RemoveAt
<1> HIDE DEF front, back
<1>6. /\ waiters' \in Seq(Task) /\ DOMAIN waiters' = 1..(Len(waiters) - 1)
      /\ \A j \in 1..(Len(waiters) - 1) :
           waiters'[j] = IF j < i THEN waiters[j] ELSE waiters[j + 1]
  <2>1. waiters' \in Seq(Task) /\ Len(waiters') = Len(waiters) - 1
    <3>1. front \o back \in Seq(Task) /\ Len(front \o back) = Len(front) + Len(back)
      BY <1>3, <1>4, Joined
    <3> QED
      BY <1>2, <1>3, <1>4, <1>5, <3>1
  <2>2. DOMAIN waiters' = 1..(Len(waiters) - 1)
    BY <2>1
  <2>3. \A j \in 1..(Len(waiters) - 1) :
          waiters'[j] = IF j <= Len(front) THEN front[j] ELSE back[j - Len(front)]
    <3>1. \A j \in 1..(Len(front) + Len(back)) :
            (front \o back)[j] = IF j <= Len(front) THEN front[j] ELSE back[j - Len(front)]
      BY <1>3, <1>4, Joined
    <3>2. Len(front) + Len(back) = Len(waiters) - 1
      BY ONLY <1>2, <1>3, <1>4
    <3> QED
      BY <1>5, <3>1, <3>2
  <2>4. ASSUME NEW j \in 1..(Len(waiters) - 1)
        PROVE  waiters'[j] = IF j < i THEN waiters[j] ELSE waiters[j + 1]
    <3>1. CASE j < i
      BY <1>2, <1>3, <2>3, <3>1
    <3>2. CASE ~(j < i)
      <4>1. j - (i - 1) \in 1..(Len(waiters) - i) /\ i + (j - (i - 1)) = j + 1
        BY <1>2, <3>2
      <4>2. waiters'[j] = back[j - (i - 1)]
        BY <1>2, <1>3, <2>3, <3>2
      <4> QED
        BY <1>4, <3>2, <4>1, <4>2
    <3> QED
      BY <3>1, <3>2
  <2> QED
    BY <2>1, <2>2, <2>4
<1> DEFINE old(j) == IF j < i THEN j ELSE j + 1
<1>7. \A j \in DOMAIN waiters' : old(j) \in DOMAIN waiters /\ old(j) # i /\ waiters'[j] = waiters[old(j)]
  BY <1>2, <1>6
<1>8. \A j, k \in DOMAIN waiters' : old(j) = old(k) => j = k
  BY <1>6
<1> HIDE DEF old
<1> QED
  BY <1>1, <1>6, <1>7, <1>8 DEF Deque

\* What a wake-up does to a deque whose waiters stand as p says: they stay in
\* line, and if a permit is left beside one that waits, another is granted.
LEMMA WakeUpHandsOn ==
  ASSUME NEW w \in Seq(Task), NEW p \in [Task -> PCs], NEW v \in Nat, WakeUpNext(w, p, v),
         \A i \in DOMAIN w : p[w[i]] \in {"waiting", "granted", "dropping"}
  PROVE  /\ \A i \in DOMAIN w : Lined(w[i])'
         /\ \/ \A i \in DOMAIN w : pc'[w[i]] # "waiting"
            \/ \E t \in Task : pc'[t] \in {"granted", "dropping"}
<1> DEFINE wait == {i \in DOMAIN w : p[w[i]] = "waiting"}
<1>0. \A i \in DOMAIN w : w[i] \in Task
  OBVIOUS
<1>1. CASE wait = {} /\ pc' = p
  <2>1. \A i \in DOMAIN w : p[w[i]] # "waiting"
    BY <1>1
  <2> QED
    BY <1>1, <2>1 DEF Lined
<1>2. ASSUME NEW i \in DOMAIN w, pc' = [p EXCEPT ![w[i]] = "granted"]
      PROVE  (\A j \in DOMAIN w : Lined(w[j])') /\ \E t \in Task : pc'[t] \in {"granted", "dropping"}
  <2>1. pc'[w[i]] = "granted" /\ \A t \in Task \ {w[i]} : pc'[t] = p[t]
    BY <1>0, <1>2
  <2> QED
    BY <1>0, <2>1 DEF Lined
<1> QED
  BY <1>1, <1>2 DEF WakeUpNext

HandsOn == Deque /\ NoLostWakeUp

\* Steps that leave the deque and the positions of those in it alone.
LEMMA UninvolvedKeepHandsOn ==
  ASSUME IInv, HandsOn, UNCHANGED waiters, value' <= value, value' \in Nat,
         \A u \in Task : Lined(u) \/ Lined(u)' => pc'[u] = pc[u]
  PROVE  HandsOn'
<1>0. waiters \in Seq(Task) /\ value \in Nat
  BY DEF IInv, TypeOK
<1>1. \A i \in DOMAIN waiters : waiters[i] \in Task /\ Lined(waiters[i]) /\ pc'[waiters[i]] = pc[waiters[i]]
  BY <1>0 DEF HandsOn, Deque
<1>2. Deque'
  BY <1>1 DEF HandsOn, Deque, Lined
<1>3. NoLostWakeUp'
  <2> SUFFICES ASSUME value' > 0, NEW i \in DOMAIN waiters, pc'[waiters[i]] = "waiting"
               PROVE  \E t \in Task : pc'[t] \in {"granted", "dropping"}
    BY DEF NoLostWakeUp
  <2>1. PICK t \in Task : pc[t] \in {"granted", "dropping"}
    BY <1>0, <1>1 DEF HandsOn, NoLostWakeUp
  <2> QED
    BY <2>1 DEF Lined
<1> QED
  BY <1>2, <1>3 DEF HandsOn

\* Steps that wake a waiter, the position of one task that leaves the deque, or
\* of none, being changed first.
LEMMA WakeUpKeepsHandsOn ==
  ASSUME NEW p \in [Task -> PCs], NEW v \in Nat, WakeUpNext(waiters', p, v),
         waiters' \in Seq(Task),
         \A j, k \in DOMAIN waiters' : waiters'[j] = waiters'[k] => j = k,
         \A i \in DOMAIN waiters' : p[waiters'[i]] \in {"waiting", "granted", "dropping"}
  PROVE  HandsOn'
<1>1. PICK w : w = waiters'
  OBVIOUS
<1>2. /\ w \in Seq(Task) /\ WakeUpNext(w, p, v)
      /\ \A i \in DOMAIN w : p[w[i]] \in {"waiting", "granted", "dropping"}
  BY <1>1
<1>3. /\ \A i \in DOMAIN w : Lined(w[i])'
      /\ \/ \A i \in DOMAIN w : pc'[w[i]] # "waiting"
         \/ \E t \in Task : pc'[t] \in {"granted", "dropping"}
  BY <1>2, WakeUpHandsOn
<1>4. Deque'
  BY <1>1, <1>3 DEF Deque, Lined
<1> QED
  BY <1>1, <1>3, <1>4 DEF HandsOn, NoLostWakeUp

LEMMA InnerStartHandsOn ==
  ASSUME IInv, HandsOn, NEW t \in Task, InnerStart(t)
  PROVE  HandsOn'
<1>0. pc \in [Task -> PCs] /\ waiters \in Seq(Task) /\ value \in Nat /\ pc[t] = "pending"
  BY DEF InnerStart, IInv, TypeOK
<1>1. CASE ~Locked
  <2>1. value' = value - 1 /\ value > 0 /\ waiters' = waiters /\ pc' = [pc EXCEPT ![t] = "won"]
    BY <1>0, <1>1 DEF InnerStart, Locked
  <2>2. \A u \in Task : Lined(u) \/ Lined(u)' => pc'[u] = pc[u]
    BY <1>0, <2>1 DEF Lined
  <2> QED
    BY <1>0, <2>1, <2>2, UninvolvedKeepHandsOn
<1>2. CASE Locked
  <2>1. value' = value /\ waiters' = Append(waiters, t) /\ pc' = [pc EXCEPT ![t] = "waiting"]
    BY <1>2 DEF InnerStart
  <2>2. /\ DOMAIN waiters' = 1..(Len(waiters) + 1) /\ waiters'[Len(waiters) + 1] = t
        /\ \A i \in 1..Len(waiters) : waiters'[i] = waiters[i]
    BY <1>0, <2>1
  <2>3. pc'[t] = "waiting" /\ \A u \in Task \ {t} : pc'[u] = pc[u]
    BY <1>0, <2>1
  <2>4. \A i \in 1..Len(waiters) : waiters[i] \in Task \ {t} /\ Lined(waiters[i])
    BY <1>0 DEF HandsOn, Deque, Lined
  <2>5. Deque'
    BY <1>0, <2>2, <2>3, <2>4 DEF HandsOn, Deque, Lined
  <2>6. NoLostWakeUp'
    <3> SUFFICES ASSUME value > 0 PROVE \E u \in Task : pc'[u] \in {"granted", "dropping"}
      BY <2>1 DEF NoLostWakeUp
    <3>1. Len(waiters) > 0
      BY <1>0, <1>2 DEF Locked
    <3>2. Lined(waiters[1]) /\ waiters[1] \in Task \ {t} /\ 1 \in DOMAIN waiters
      BY <1>0, <2>4, <3>1
    <3>3. PICK u \in Task : pc[u] \in {"granted", "dropping"}
      BY <3>2 DEF HandsOn, NoLostWakeUp, Lined
    <3> QED
      BY <1>0, <2>3, <3>3
  <2> QED
    BY <2>5, <2>6 DEF HandsOn
<1> QED
  BY <1>1, <1>2

LEMMA InnerResumeHandsOn ==
  ASSUME IInv, HandsOn, NEW t \in Task, InnerResume(t)
  PROVE  HandsOn'
<1>0. pc \in [Task -> PCs] /\ waiters \in Seq(Task) /\ value \in Nat
  BY DEF IInv, TypeOK
<1>1. PICK won \in [Task -> PCs] : won = [pc EXCEPT ![t] = "won"]
  BY <1>0 DEF PCs
<1>2. /\ waiters' \in Seq(Task)
      /\ \A j \in DOMAIN waiters' : waiters'[j] # t /\ Lined(waiters'[j])
      /\ \A j, k \in DOMAIN waiters' : waiters'[j] = waiters'[k] => j = k
  BY <1>0, LeaveDequeEffect DEF InnerResume, HandsOn
<1>3. \A j \in DOMAIN waiters' : won[waiters'[j]] \in {"waiting", "granted", "dropping"}
  BY <1>0, <1>1, <1>2 DEF Lined
<1>4. CASE value > 0
  <2>1. WakeUpNext(waiters', won, value)
    BY <1>1, <1>4 DEF InnerResume
  <2> QED
    BY <1>0, <1>2, <1>3, <2>1, WakeUpKeepsHandsOn
<1>5. CASE ~(value > 0)
  <2>1. pc' = won /\ value' = value
    BY <1>1, <1>5 DEF InnerResume
  <2> QED
    BY <1>2, <1>3, <1>5, <2>1 DEF HandsOn, Deque, NoLostWakeUp, Lined
<1> QED
  BY <1>4, <1>5

LEMMA InnerDropHandsOn ==
  ASSUME IInv, HandsOn, NEW t \in Task, InnerDrop(t)
  PROVE  HandsOn'
<1>0. pc \in [Task -> PCs] /\ waiters \in Seq(Task) /\ value + 1 \in Nat
  BY DEF IInv, TypeOK
<1>1. PICK gone \in [Task -> PCs] : gone = [pc EXCEPT ![t] = "unwinding"]
  BY <1>0 DEF PCs
<1>2. /\ waiters' \in Seq(Task)
      /\ \A j \in DOMAIN waiters' : waiters'[j] # t /\ Lined(waiters'[j])
      /\ \A j, k \in DOMAIN waiters' : waiters'[j] = waiters'[k] => j = k
  BY <1>0, LeaveDequeEffect DEF InnerDrop, HandsOn
<1>3. \A j \in DOMAIN waiters' : gone[waiters'[j]] \in {"waiting", "granted", "dropping"}
  BY <1>0, <1>1, <1>2 DEF Lined
<1>4. WakeUpNext(waiters', gone, value + 1)
  BY <1>1 DEF InnerDrop
<1> QED
  BY <1>0, <1>2, <1>3, <1>4, WakeUpKeepsHandsOn

LEMMA StopWaitingHandsOn ==
  ASSUME IInv, HandsOn, NEW t \in Task, StopWaiting(t)
  PROVE  HandsOn'
<1>0. pc \in [Task -> PCs] /\ waiters \in Seq(Task) /\ value \in Nat /\ value' = value
  BY DEF StopWaiting, IInv, TypeOK
<1>1. CASE pc[t] = "pending"
  <2>1. pc' = [pc EXCEPT ![t] = "unwinding"] /\ waiters' = waiters
    BY <1>1 DEF StopWaiting
  <2>2. \A u \in Task : Lined(u) \/ Lined(u)' => pc'[u] = pc[u]
    BY <1>0, <1>1, <2>1 DEF Lined
  <2> QED
    BY <1>0, <2>1, <2>2, UninvolvedKeepHandsOn
<1>2. CASE pc[t] = "waiting"
  <2>1. pc' = [pc EXCEPT ![t] = "unwinding"] /\ LeaveDeque(t)
    BY <1>2 DEF StopWaiting
  <2>2. /\ waiters' \in Seq(Task)
        /\ \A j \in DOMAIN waiters' : waiters'[j] # t /\ Lined(waiters'[j])
        /\ \A j, k \in DOMAIN waiters' : waiters'[j] = waiters'[k] => j = k
    BY <1>0, <2>1, LeaveDequeEffect DEF HandsOn
  <2>3. Deque' /\ \A j \in DOMAIN waiters' : pc'[waiters'[j]] = pc[waiters'[j]]
    BY <1>0, <2>1, <2>2 DEF Deque, Lined
  <2>4. \E i \in DOMAIN waiters : pc[waiters[i]] = "waiting"
    BY <1>2, <2>1 DEF LeaveDeque
  <2>5. NoLostWakeUp'
    <3> SUFFICES ASSUME value > 0 PROVE \E u \in Task : pc'[u] \in {"granted", "dropping"}
      BY <1>0 DEF NoLostWakeUp
    <3>1. PICK u \in Task : pc[u] \in {"granted", "dropping"}
      BY <2>4 DEF HandsOn, NoLostWakeUp
    <3> QED
      BY <1>0, <1>2, <2>1, <3>1
  <2> QED
    BY <2>3, <2>5 DEF HandsOn
<1>3. CASE pc[t] = "granted"
  <2>1. pc' = [pc EXCEPT ![t] = "dropping"] /\ waiters' = waiters
    BY <1>3 DEF StopWaiting
  <2>2. pc'[t] = "dropping" /\ \A u \in Task \ {t} : pc'[u] = pc[u]
    BY <1>0, <2>1
  <2>3. \A i \in DOMAIN waiters : waiters[i] \in Task
    BY <1>0
  <2> QED
    BY <2>1, <2>2, <2>3 DEF HandsOn, Deque, NoLostWakeUp, Lined
<1> QED
  BY <1>1, <1>2, <1>3 DEF StopWaiting

\* A release either leaves the semaphore alone or wakes the next in line.
LEMMA ReleaseHandsOn ==
  ASSUME IInv, HandsOn, UNCHANGED waiters,
         UNCHANGED <<value, pc>> \/ \E t \in Task : ReleaseByKey(t)
  PROVE  HandsOn'
<1>0. pc \in [Task -> PCs] /\ waiters \in Seq(Task) /\ value \in Nat /\ value + 1 \in Nat
  BY DEF IInv, TypeOK
<1>1. CASE UNCHANGED <<value, pc>>
  BY <1>0, <1>1, UninvolvedKeepHandsOn
<1>2. CASE WakeUpNext(waiters, pc, value + 1)
  <2>1. PICK p \in [Task -> PCs] : p = pc
    BY <1>0
  <2>2. PICK v \in Nat : v = value + 1
    BY <1>0
  <2>3. WakeUpNext(waiters', p, v)
    BY <1>2, <2>1, <2>2
  <2>4. /\ \A j, k \in DOMAIN waiters' : waiters'[j] = waiters'[k] => j = k
        /\ \A i \in DOMAIN waiters' : p[waiters'[i]] \in {"waiting", "granted", "dropping"}
    BY <2>1 DEF HandsOn, Deque, Lined
  <2> QED
    BY <1>0, <2>3, <2>4, WakeUpKeepsHandsOn
<1> QED
  BY <1>1, <1>2 DEF ReleaseByKey

LEMMA StepHandsOn ==
  ASSUME IInv, HandsOn, [Next]_vars
  PROVE  HandsOn'
<1>0. pc \in [Task -> PCs] /\ value \in Nat
  BY DEF IInv, TypeOK
<1>1. CASE UNCHANGED vars
  BY <1>0, <1>1, UninvolvedKeepHandsOn DEF vars
<1>2. ASSUME NEW t \in Task, AcquireReentrant(t) \/ AcquireRejected(t) PROVE HandsOn'
  BY <1>0, <1>2, UninvolvedKeepHandsOn DEF AcquireReentrant, AcquireRejected, vars
<1>3. ASSUME NEW t \in Task, AcquireFast(t) PROVE HandsOn'
  <2>1. value' = value - 1 /\ value' \in Nat /\ UNCHANGED <<waiters, pc>>
    BY <1>0, <1>3 DEF AcquireFast, Locked
  <2> QED
    BY <1>0, <2>1, UninvolvedKeepHandsOn
<1>4. ASSUME NEW t \in Task, AcquireQueued(t) PROVE HandsOn'
  <2>1. UNCHANGED <<waiters, value>> /\ pc[t] = "idle" /\ pc' = [pc EXCEPT ![t] = "pending"]
    BY <1>4 DEF AcquireQueued, MayAcquire
  <2>2. \A u \in Task : Lined(u) \/ Lined(u)' => pc'[u] = pc[u]
    BY <1>0, <2>1 DEF Lined
  <2> QED
    BY <1>0, <2>1, <2>2, UninvolvedKeepHandsOn
<1>5. ASSUME NEW t \in Task, AcquireWon(t) \/ AcquireUnwound(t) PROVE HandsOn'
  <2>1. /\ UNCHANGED <<waiters, value>> /\ pc[t] \in {"won", "unwinding"}
        /\ pc' = [pc EXCEPT ![t] = "idle"]
    BY <1>5 DEF AcquireWon, AcquireUnwound
  <2>2. \A u \in Task : Lined(u) \/ Lined(u)' => pc'[u] = pc[u]
    BY <1>0, <2>1 DEF Lined
  <2> QED
    BY <1>0, <2>1, <2>2, UninvolvedKeepHandsOn
<1>6. ASSUME NEW t \in Task, ReleaseNow(t) \/ ExitSlot(t) PROVE HandsOn'
  <2>1. UNCHANGED waiters /\ (UNCHANGED <<value, pc>> \/ ReleaseByKey(t))
    BY <1>6 DEF ReleaseNow, ExitSlot
  <2> QED
    BY <2>1, ReleaseHandsOn
<1>7. ASSUME NEW cap \in 0..GlobalCap, SetRouteCapacity(cap) PROVE HandsOn'
  BY <1>7 DEF SetRouteCapacity, HandsOn, Deque, NoLostWakeUp
<1> QED
  BY <1>1, <1>2, <1>3, <1>4, <1>5, <1>6, <1>7, InnerStartHandsOn, InnerResumeHandsOn,
     InnerDropHandsOn, StopWaitingHandsOn DEF Next

\* No wake-up is lost: whatever timeouts and cancellations fall between a
\* grant and the resumption of the granted task, a free permit beside a waiter
\* is about to be handed on (asyncio.Semaphore as admission.py uses it).
THEOREM NoWakeUpIsLost == PrivateContexts => (Spec => []NoLostWakeUp)
<1> SUFFICES ASSUME PrivateContexts PROVE Spec => []NoLostWakeUp
  OBVIOUS
<1>1. Init => HandsOn
  BY DEF Init, HandsOn, Deque, NoLostWakeUp
<1>2. IInv /\ HandsOn /\ [Next]_vars => HandsOn'
  BY StepHandsOn
<1>3. HandsOn => NoLostWakeUp
  BY DEF HandsOn
<1> QED
  BY <1>1, <1>2, <1>3, InvariantHolds, PTL DEF Spec

\* The queued and active counters never drift from the callers they count, and
\* the queue never exceeds max_queued_generations.
THEOREM CountersAreExact == PrivateContexts => (Spec => []CountersExact)
<1>1. IInv => CountersExact
  BY DEF IInv, Counts, CountersExact, Queuers, Holders
<1> QED
  BY <1>1, InvariantHolds, PTL

\* Those that generate own a permit each, so they are no more than the cap.
LEMMA HoldersWithinOwners ==
  ASSUME IInv
  PROVE  /\ Cardinality(Holders) <= capacity
         /\ \A t \in Owners \ Holders : Cardinality(Holders) < capacity
         /\ value > 0 => Cardinality(Holders) < capacity
<1>1. IsFiniteSet(Owners) /\ Cardinality(Owners) \in Nat /\ Cardinality(Holders) \in Nat
  BY CountedSets, TaskSets DEF IInv
<1>2. Holders \subseteq Owners
  BY DEF Holders, Owners
<1>3. Cardinality(Holders) <= Cardinality(Owners)
  BY <1>1, <1>2, FS_Subset
<1>4. value \in Nat /\ capacity \in Nat /\ value + Cardinality(Owners) = capacity
  BY CapAssumption DEF IInv, TypeOK, PermitConservation
<1>5. ASSUME NEW t \in Owners \ Holders PROVE Cardinality(Holders) < Cardinality(Owners)
  <2>1. IsFiniteSet(Owners \ {t}) /\ Cardinality(Owners \ {t}) = Cardinality(Owners) - 1
    BY <1>1, <1>5, FS_RemoveElement
  <2>2. Cardinality(Holders) <= Cardinality(Owners \ {t})
    BY <1>2, <1>5, <2>1, FS_Subset
  <2> QED
    BY <1>1, <2>1, <2>2
<1> QED
  BY <1>1, <1>3, <1>4, <1>5

\* Private contexts make the concurrency cap a cap for every schedule.
THEOREM CapIsRespected == PrivateContexts => (Spec => []CapRespected)
<1>1. IInv => CapRespected
  BY HoldersWithinOwners DEF CapRespected, Holders
<1> QED
  BY <1>1, InvariantHolds, PTL

-----------------------------------------------------------------------------
(* Refinement.                                                             *)

PoolVars == <<Holders, capacity>>

\* A step that leaves live and capacity alone is invisible in the pool.
LEMMA Invisible ==
  ASSUME UNCHANGED <<live, capacity>>
  PROVE  UNCHANGED PoolVars
BY DEF PoolVars, Holders, Holding

\* A caller that holds nothing and opens a slot enters the pool.
LEMMA Entering ==
  ASSUME IInv, NEW t \in Task, live[t] = {}, Cardinality(Holders) < capacity,
         EnterSlot(t), capacity' = capacity
  PROVE  Pool!Enter(t)
<1>1. /\ live'[t] = live[t] \cup {depth[t] + 1}
      /\ \A u \in Task \ {t} : live'[u] = live[u]
  BY DEF EnterSlot, IInv, TypeOK
<1>2. t \notin Holders /\ Holders' = Holders \cup {t}
  BY <1>1 DEF Holders, Holding
<1>3. /\ t \notin {u \in Task : Holding(u)}
      /\ Cardinality({u \in Task : Holding(u)}) < capacity
      /\ {u \in Task : Holding(u)}' = {u \in Task : Holding(u)} \cup {t}
  BY <1>2 DEF Holders
<1> QED
  BY <1>3 DEF Pool!Enter, Pool!Cardinality, Cardinality

\* Releasing a level leaves the pool, or leaves it alone.
LEMMA Leaving ==
  ASSUME IInv, NEW t \in Task, live' = [live EXCEPT ![t] = @ \ {depth[t]}],
         capacity' = capacity
  PROVE  Pool!Leave(t) \/ UNCHANGED PoolVars
<1>1. live'[t] = live[t] \ {depth[t]} /\ \A u \in Task \ {t} : live'[u] = live[u]
  BY DEF IInv, TypeOK
<1>2. CASE live[t] # {} /\ live'[t] = {}
  <2>1. t \in Holders /\ Holders' = Holders \ {t}
    BY <1>1, <1>2 DEF Holders, Holding
  <2> QED
    BY <2>1 DEF Pool!Leave, Holders
<1>3. CASE ~(live[t] # {} /\ live'[t] = {})
  <2>1. Holders' = Holders
    BY <1>1, <1>3 DEF Holders, Holding
  <2> QED
    BY <2>1 DEF PoolVars
<1> QED
  BY <1>2, <1>3

LEMMA StepSimulates ==
  ASSUME PrivateContexts, IInv, [Next]_vars
  PROVE  Pool!Next \/ UNCHANGED PoolVars
<1>1. CASE UNCHANGED vars
  BY <1>1, Invisible DEF vars
<1>2. ASSUME NEW t \in Task,
             \/ AcquireRejected(t) \/ AcquireQueued(t) \/ InnerStart(t) \/ InnerResume(t)
             \/ InnerDrop(t) \/ StopWaiting(t) \/ AcquireUnwound(t)
      PROVE  UNCHANGED PoolVars
  BY <1>2, Invisible DEF AcquireRejected, AcquireQueued, InnerStart, InnerResume, InnerDrop,
                         StopWaiting, AcquireUnwound, vars
<1>3. ASSUME NEW t \in Task, AcquireReentrant(t) PROVE UNCHANGED PoolVars
  <2>1. live[t] # {}
    <3>1. live[t] \in SUBSET (1..MaxDepth) /\ Cardinality(live[t]) > 0
      BY <1>3 DEF AcquireReentrant, IInv, TypeOK, SlotCount
    <3> QED
      BY <3>1, LevelSets
  <2>2. live'[t] # {} /\ \A u \in Task \ {t} : live'[u] = live[u]
    BY <1>3 DEF AcquireReentrant, EnterSlot, IInv, TypeOK
  <2>3. Holders' = Holders
    BY <2>1, <2>2 DEF Holders, Holding
  <2> QED
    BY <1>3, <2>3 DEF PoolVars, AcquireReentrant
<1>4. ASSUME NEW t \in Task, AcquireFast(t) PROVE Pool!Enter(t)
  <2>1. live[t] = {}
    BY <1>4, LevelSets DEF AcquireFast, IInv, TypeOK, SlotCount
  <2>2. value > 0
    BY <1>4 DEF AcquireFast, Locked, IInv, TypeOK
  <2> QED
    BY <1>4, <2>1, <2>2, Entering, HoldersWithinOwners DEF AcquireFast
<1>5. ASSUME NEW t \in Task, AcquireWon(t) PROVE Pool!Enter(t)
  <2>1. live[t] = {} /\ t \in Owners \ Holders
    BY <1>5 DEF AcquireWon, IInv, AskerHoldsNothing, InQueue, Owners, Holders, Holding,
                HasPermitUnderWay
  <2> QED
    BY <1>5, <2>1, Entering, HoldersWithinOwners DEF AcquireWon
<1>6. ASSUME NEW t \in Task, ReleaseNow(t) \/ ExitSlot(t)
      PROVE  Pool!Leave(t) \/ UNCHANGED PoolVars
  BY <1>6, Leaving DEF ReleaseNow, ExitSlot
<1>7. ASSUME NEW cap \in 0..GlobalCap, SetRouteCapacity(cap)
      PROVE  cap \in 1..GlobalCap /\ Pool!Tighten(cap)
  <2>1. cap \in 1..GlobalCap
    BY <1>7, CapAssumption DEF SetRouteCapacity
  <2>2. Holders = {}
    BY <1>7, CountedSets, TaskSets DEF SetRouteCapacity, RouteIdle, IInv, Counts
  <2>3. Holders' = Holders
    BY <1>7 DEF SetRouteCapacity, Holders, Holding
  <2> QED
    BY <1>7, <2>1, <2>2, <2>3 DEF Pool!Tighten, SetRouteCapacity, Holders
<1> QED
  BY <1>1, <1>2, <1>3, <1>4, <1>5, <1>6, <1>7 DEF Next, Pool!Next

\* Admission implements the pool its operator was promised: every step of the
\* controller enters it, leaves it, tightens it while empty, or is invisible.
THEOREM AdmissionImplementsPool == PrivateContexts => (Spec => ImplementsPool)
<1> SUFFICES ASSUME PrivateContexts PROVE Spec => ImplementsPool
  OBVIOUS
<1>1. Init => Pool!Init
  BY DEF Init, Pool!Init, Holding
<1>2. IInv /\ [Next]_vars => [Pool!Next]_PoolVars
  BY StepSimulates
<1>3. Spec => []IInv
  BY InvariantHolds
<1> QED
  BY <1>1, <1>2, <1>3, PTL DEF Spec, ImplementsPool, Pool!Spec, PoolVars, Holders
=============================================================================
