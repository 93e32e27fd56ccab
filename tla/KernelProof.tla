---------------------------- MODULE KernelProof ----------------------------
(***************************************************************************)
(* Proofs about Kernel for every number of priorities, devices, mutexes    *)
(* and every period and word size: IInv is an inductive invariant of       *)
(* OrderlySpec, and the safety properties of the orderly run follow.       *)
(***************************************************************************)
EXTENDS Kernel, WordArith, FiniteSetTheorems, WellFoundedInduction, TLAPS

-----------------------------------------------------------------------------
(* The run queue.                                                          *)

\* A set of priorities that is not empty has a least element.
LEMMA LeastPrio ==
    ASSUME NEW S \in SUBSET Prio, S # {}
    PROVE  \E p \in S : \A q \in S : p <= q
<1>1. S \subseteq Nat
  BY IdlePrioAssumption DEF Prio
<1>2. PICK p \in S : \A q \in S : ~(<<q, p>> \in OpToRel(<, Nat))
  BY <1>1, WFMin, NatLessThanWellFounded DEF Prio
<1>3. ASSUME NEW q \in S PROVE p <= q
  <2>1. p \in Nat /\ q \in Nat
    BY <1>1
  <2>2. ~(q < p)
    BY <1>2, <2>1 DEF OpToRel
  <2> QED
    BY <2>1, <2>2
<1> QED
  BY <1>3

\* With something ready, highest_prio is the least ready priority.
LEMMA HighestIsLeast ==
    ASSUME NEW rl, Ready(rl) # {}
    PROVE  /\ highest_prio(rl) \in Ready(rl)
           /\ highest_prio(rl) \in Prio
           /\ rl[highest_prio(rl)] # NULL
           /\ \A q \in Ready(rl) : highest_prio(rl) <= q
<1>1. Ready(rl) \in SUBSET Prio
  BY DEF Ready
<1>2. \E p \in Ready(rl) : \A q \in Ready(rl) : p <= q
  BY <1>1, LeastPrio
<1>3. highest_prio(rl) \in Ready(rl) /\ \A q \in Ready(rl) : highest_prio(rl) <= q
  BY <1>2 DEF highest_prio
<1> QED
  BY <1>3 DEF Ready

-----------------------------------------------------------------------------
(* Lists linked through sleep_queue.                                       *)

\* The walk stays inside any set that holds its start and is closed.
LEMMA ReachLeast ==
    ASSUME NEW link, NEW h, NEW S \in SUBSET Tcb,
           h \in Tcb => h \in S,
           \A u \in S : link[u] # NULL => link[u] \in S
    PROVE  Reach(link, h) \subseteq S
  BY DEF Reach

\* It visits its start, and after each block the one it links to.
LEMMA ReachClosed ==
    ASSUME NEW link \in [Tcb -> Tcb \cup {NULL}], NEW h
    PROVE  /\ Reach(link, h) \in SUBSET Tcb
           /\ h \in Tcb => h \in Reach(link, h)
           /\ \A u \in Reach(link, h) : link[u] # NULL => link[u] \in Reach(link, h)
<1>1. ASSUME NEW u \in Reach(link, h), link[u] # NULL
      PROVE  link[u] \in Reach(link, h)
  <2>1. u \in Tcb /\ link[u] \in Tcb
    BY <1>1 DEF Reach
  <2>2. ASSUME NEW S \in SUBSET Tcb, h \in Tcb => h \in S,
               \A v \in S : link[v] # NULL => link[v] \in S
        PROVE  link[u] \in S
    <3>1. u \in S
      BY <2>2 DEF Reach
    <3> QED
      BY <3>1, <2>2, <1>1
  <2> QED
    BY <2>1, <2>2 DEF Reach
<1> QED
  BY <1>1 DEF Reach

\* An empty list has nothing on it.
LEMMA ReachEmpty ==
    ASSUME NEW link, NEW h, h \notin Tcb
    PROVE  Reach(link, h) = {}
<1> SUFFICES ASSUME NEW t \in Reach(link, h) PROVE FALSE
  OBVIOUS
<1>1. {} \in SUBSET Tcb /\ \A u \in {} : link[u] # NULL => link[u] \in {}
  OBVIOUS
<1>2. t \in {}
  BY <1>1 DEF Reach
<1> QED
  BY <1>2

\* Links of blocks that are not on the list do not matter.
LEMMA ReachFrame ==
    ASSUME NEW link \in [Tcb -> Tcb \cup {NULL}], NEW link2 \in [Tcb -> Tcb \cup {NULL}],
           NEW h, \A u \in Reach(link, h) : link2[u] = link[u]
    PROVE  Reach(link2, h) = Reach(link, h)
<1>1. Reach(link2, h) \subseteq Reach(link, h)
  BY ReachClosed, ReachLeast
<1>2. Reach(link, h) \subseteq Reach(link2, h)
  <2> DEFINE S == Reach(link, h) \cap Reach(link2, h)
  <2>1. S \in SUBSET Tcb
    BY ReachClosed
  <2>2. h \in Tcb => h \in S
    BY ReachClosed
  <2>3. \A u \in S : link[u] # NULL => link[u] \in S
    BY ReachClosed
  <2> HIDE DEF S
  <2>4. Reach(link, h) \subseteq S
    BY <2>1, <2>2, <2>3, ReachLeast
  <2> QED
    BY <2>4 DEF S
<1> QED
  BY <1>1, <1>2

\* Linking a block that is not on the list in front of it adds just that block.
LEMMA ReachPush ==
    ASSUME NEW link \in [Tcb -> Tcb \cup {NULL}], NEW h \in Tcb \cup {NULL},
           NEW c \in Tcb, c \notin Reach(link, h),
           NEW link2 \in [Tcb -> Tcb \cup {NULL}],
           link2[c] = h, \A u \in Tcb \ {c} : link2[u] = link[u]
    PROVE  Reach(link2, c) = Reach(link, h) \cup {c}
<1>1. link2 \in [Tcb -> Tcb \cup {NULL}] /\ link2[c] = h
  OBVIOUS
<1>3. \A u \in Tcb \ {c} : link2[u] = link[u]
  OBVIOUS
<1>2. Reach(link2, h) = Reach(link, h)
  <2>1. \A u \in Reach(link, h) : link2[u] = link[u]
    BY <1>3, ReachClosed
  <2> QED
    BY <1>1, <2>1, ReachFrame
<1>4. Reach(link2, c) \subseteq Reach(link, h) \cup {c}
  <2> DEFINE S == Reach(link, h) \cup {c}
  <2>1. S \in SUBSET Tcb /\ c \in S
    BY ReachClosed
  <2>2. \A u \in S : link2[u] # NULL => link2[u] \in S
    BY <1>1, <1>3, ReachClosed
  <2> HIDE DEF S
  <2>3. Reach(link2, c) \subseteq S
    BY <2>1, <2>2, ReachLeast
  <2> QED
    BY <2>3 DEF S
<1>5. Reach(link2, h) \subseteq Reach(link2, c)
  <2> DEFINE S == Reach(link2, c)
  <2>1. /\ S \in SUBSET Tcb /\ c \in S
        /\ \A u \in S : link2[u] # NULL => link2[u] \in S
    BY <1>1, ReachClosed
  <2>2. h \in Tcb => h \in S
    BY <1>1, <2>1, NullAssumption DEF Tcb, Prio
  <2> HIDE DEF S
  <2>3. Reach(link2, h) \subseteq S
    BY <2>1, <2>2, ReachLeast
  <2> QED
    BY <2>3 DEF S
<1>6. c \in Reach(link2, c)
  BY <1>1, ReachClosed
<1> QED
  BY <1>2, <1>4, <1>5, <1>6
-----------------------------------------------------------------------------
(* What the invariant says about the state a step starts from.             *)

LEMMA LiveRange ==
    ASSUME TypeOK
    PROVE  /\ Live \in SUBSET Tcb
           /\ TOP_PRIO \notin Live /\ IDLE_PRIO \notin Live
           /\ TOP_PRIO # IDLE_PRIO /\ TOP_PRIO \in Tcb /\ IDLE_PRIO \in Tcb
           /\ NULL \notin Tcb
  BY IdlePrioAssumption, NullAssumption
     DEF TypeOK, SchedTypeOK, Live, Tcb, Prio, TOP_PRIO

\* The set of mutexes a task holds is finite.
LEMMA HeldFinite ==
    ASSUME NEW t
    PROVE  Held(t) \in SUBSET MutexId /\ IsFiniteSet(Held(t))
<1>1. IsFiniteSet(MutexId)
  BY FS_Interval, NumMutexAssumption DEF MutexId
<1>2. Held(t) \in SUBSET MutexId
  BY DEF Held
<1> QED
  BY <1>1, <1>2, FS_Subset

\* A task that makes a system call is in the current set, ready in its slot.
LEMMA CallerIsLive ==
    ASSUME IInv, InTask
    PROVE  /\ cur_tcb \in Live /\ cur_tcb \in Tcb /\ cur_tcb # TOP_PRIO
           /\ cur_tcb # NULL /\ cur_tcb # IDLE_PRIO
           /\ run_list[cur_tcb] = cur_tcb
<1>1. cur_tcb # NULL /\ cur_tcb # IDLE_PRIO /\ cur_tcb \in Prio
  BY DEF IInv, TypeOK, SchedTypeOK, InTask, InUser, Tcb
<1>2. run_list[cur_tcb] # NULL
  BY <1>1 DEF IInv, ReadyInv
<1>3. run_list[cur_tcb] = cur_tcb /\ cur_tcb \in Live
  BY <1>1, <1>2 DEF IInv, ReadyInv
<1> QED
  BY <1>1, <1>3, LiveRange DEF IInv, Tcb

\* A task that is not ready holds nothing and has its native priority.
LEMMA AsleepHoldsNothing ==
    ASSUME IInv, NEW t \in Asleep
    PROVE  /\ cur_tcb # NULL
           /\ t # cur_tcb
           /\ Held(t) = {}
           /\ holds_lock[t] = 0
           /\ cur_prio[t] = t
<1>1. t \in Live /\ run_list[t] = NULL
  BY DEF Asleep
<1>2. cur_tcb # NULL
  <2>1. SUFFICES ASSUME cur_tcb = NULL PROVE FALSE
    OBVIOUS
  <2>2. num_tasks = 0
    BY <2>1 DEF IInv, BootInv
  <2> QED
    BY <1>1, <2>2 DEF Live
<1>3. t # cur_tcb
  BY <1>1, <1>2 DEF IInv, ReadyInv
<1>4. Held(t) = {}
  <2>1. SUFFICES ASSUME NEW m \in Held(t) PROVE FALSE
    OBVIOUS
  <2>2. m \in MutexId /\ pHolding_Tcb[m] = t
    BY DEF Held
  <2>3. t # NULL
    BY <1>1, LiveRange DEF IInv
  <2> QED
    BY <1>3, <2>2, <2>3 DEF IInv, LockInv
<1>5. holds_lock[t] = 0
  BY <1>1, <1>4, FS_EmptySet DEF IInv, LockInv, HoldsLockCounts
<1>6. cur_prio[t] = t
  BY <1>1, <1>2, <1>5 DEF IInv, PrioInv, PrioHolding, native_prio
<1> QED
  BY <1>2, <1>3, <1>4, <1>5, <1>6

\* A task that holds nothing by its count leaves no mutex locked if it runs.
LEMMA NothingLocked ==
    ASSUME IInv, cur_tcb \in Live, holds_lock[cur_tcb] = 0
    PROVE  \A m \in MutexId : ~bLock[m] /\ pHolding_Tcb[m] = NULL
<1>1. Cardinality(Held(cur_tcb)) = 0
  BY DEF IInv, LockInv, HoldsLockCounts
<1>2. Held(cur_tcb) = {}
  BY <1>1, HeldFinite, FS_EmptySet
<1> QED
  BY <1>2 DEF IInv, LockInv, Held

-----------------------------------------------------------------------------
(* The initial states.                                                     *)

LEMMA NoSleepers ==
    ASSUME \A d \in Device : dev_queue[d] = NULL
    PROVE  \A d \in Device : Sleepers(d) = {}
<1>1. NULL \notin Tcb
  BY NullAssumption DEF Tcb, Prio
<1> QED
  BY <1>1, ReachEmpty DEF Sleepers, OnList

LEMMA InitIInv == Init => IInv
<1> SUFFICES ASSUME Init PROVE IInv
  OBVIOUS
<1> USE DEF Init, SchedInit, dev_init, mutex_init
<1>1. Live = {}
  BY DEF Live
<1>2. TypeOK
  <2>1. SchedTypeOK
    <3>1. 0 \in Prio /\ 0 \in Int /\ 0 \in 0..(IDLE_PRIO - 1)
      BY IdlePrioAssumption DEF Prio
    <3> QED
      BY <3>1 DEF SchedTypeOK, Tcb
  <2>2. 0 \in Millis
    BY WordAssumption DEF Millis
  <2>3. DeviceTypeOK
    BY <2>2, FreqAssumption DEF DeviceTypeOK
  <2>4. MutexTypeOK
    BY NumMutexAssumption DEF MutexTypeOK
  <2> QED
    BY <2>1, <2>3, <2>4 DEF TypeOK
<1>3. BootInv /\ ReadyInv /\ PrioInv
  BY DEF BootInv, ReadyInv, PrioInv
<1>4. LockInv
  BY <1>1 DEF LockInv, HoldsLockCounts
<1>5. SleepInv
  <2>1. \A d \in Device : Sleepers(d) = {}
    BY NoSleepers
  <2> QED
    BY <1>1, <2>1 DEF SleepInv, Asleep
<1> QED
  BY <1>2, <1>3, <1>4, <1>5 DEF IInv
-----------------------------------------------------------------------------
(* One lemma per action: it preserves the invariant.                       *)

\* A new task set on a quiescent system.
LEMMA TaskCreateIInv ==
    ASSUME IInv, Quiescent, NEW n \in 0..(IDLE_PRIO - 1), task_create(n)
    PROVE  IInv'
<1> DEFINE new == (1..n) \cup {IDLE_PRIO}
<1>1. /\ new \in SUBSET Tcb /\ IDLE_PRIO \in new /\ TOP_PRIO \notin new
      /\ NULL \notin Tcb /\ Live' = 1..n /\ IDLE_PRIO \notin 1..n
  BY IdlePrioAssumption, NullAssumption
     DEF Tcb, Prio, TOP_PRIO, Live, task_create, allocate_tasks, NewSet
<1>2. \A p \in Prio : run_list'[p] = IF p \in new THEN p ELSE NULL
  BY DEF task_create, allocate_tasks, NewSet
<1>3. cur_tcb' = highest_prio(run_list') /\ num_tasks' = n /\ fault' = fault
  BY DEF task_create, allocate_tasks, NewSet
<1>4. \A t \in new : cur_prio'[t] = t /\ holds_lock'[t] = 0
  BY <1>1 DEF task_create, allocate_tasks, NewSet
<1>5. UNCHANGED <<dev_vars, mutex_vars>>
  BY DEF task_create
<1>6. TypeOK
  BY DEF IInv
<1>7. cur_prio' \in [Tcb -> Prio] /\ holds_lock' \in [Tcb -> Int]
      /\ sleep_queue' \in [Tcb -> Tcb \cup {NULL}] /\ run_list' \in [Prio -> Tcb \cup {NULL}]
  BY <1>1, <1>6 DEF task_create, allocate_tasks, NewSet, TypeOK, SchedTypeOK, Tcb
<1> HIDE DEF new
<1>8. Ready(run_list') # {}
  BY <1>1, <1>2 DEF Ready, Tcb
<1>9. cur_tcb' \in new
  BY <1>1, <1>2, <1>3, <1>8, HighestIsLeast
<1>10. TypeOK'
  <2>1. SchedTypeOK'
    BY <1>1, <1>3, <1>6, <1>7, <1>9 DEF TypeOK, SchedTypeOK
  <2>2. DeviceTypeOK' /\ MutexTypeOK'
    BY <1>5, <1>6 DEF TypeOK, DeviceTypeOK, MutexTypeOK, dev_vars, mutex_vars
  <2> QED
    BY <2>1, <2>2 DEF TypeOK
<1>11. ~fault'
  BY <1>3 DEF IInv
<1>12. BootInv'
  BY <1>1, <1>9 DEF BootInv
<1>13. ReadyInv'
  BY <1>1, <1>2, <1>9 DEF ReadyInv, Tcb, new
<1>14. PrioInv'
  <2>1. ASSUME NEW t \in Live' \cup {IDLE_PRIO}
        PROVE  holds_lock'[t] = 0 /\ cur_prio'[t] = PrioHolding(t, holds_lock'[t])
    <3>1. t \in new
      BY <1>1 DEF new
    <3> QED
      BY <1>4, <3>1 DEF PrioHolding, native_prio
  <2> QED
    BY <2>1 DEF PrioInv
<1>15. LockInv'
  <2>1. \A m \in MutexId : ~bLock'[m] /\ pHolding_Tcb'[m] = NULL /\ pSleep_queue'[m] = NULL
    BY <1>5 DEF IInv, LockInv, Quiescent, mutex_vars
  <2>2. ASSUME NEW t \in Live' PROVE holds_lock'[t] = Cardinality(Held(t)')
    <3>1. t \in new /\ t # NULL
      BY <1>1 DEF new
    <3>2. Held(t)' = {}
      BY <2>1, <3>1 DEF Held
    <3> QED
      BY <1>4, <3>1, <3>2, FS_EmptySet
  <2> QED
    BY <2>1, <2>2 DEF LockInv, HoldsLockCounts
<1>16. SleepInv'
  <2>1. \A d \in Device : dev_queue'[d] = NULL
    BY <1>5 DEF Quiescent, dev_vars
  <2>2. \A d \in Device : Sleepers(d)' = {}
    BY <1>1, <2>1, ReachEmpty DEF Sleepers, OnList
  <2>3. Asleep' = {}
    BY <1>1, <1>2 DEF Asleep, new, Tcb
  <2> QED
    BY <2>2, <2>3 DEF SleepInv
<1> QED
  BY <1>10, <1>11, <1>12, <1>13, <1>14, <1>15, <1>16 DEF IInv

\* A new mutex.
LEMMA CreateMutexIInv ==
    ASSUME IInv, CreateMutex
    PROVE  IInv'
<1> USE DEF CreateMutex, mutex_create, lock_vars, dev_vars, sched_vars
<1>1. TypeOK'
  <2>1. SchedTypeOK' /\ DeviceTypeOK'
    BY DEF IInv, TypeOK, SchedTypeOK, DeviceTypeOK
  <2>2. MutexTypeOK'
    BY NumMutexAssumption DEF IInv, TypeOK, MutexTypeOK
  <2> QED
    BY <2>1, <2>2 DEF TypeOK
<1>2. Live' = Live /\ (\A t : Held(t)' = Held(t)) /\ Asleep' = Asleep
      /\ (\A d \in Device : Sleepers(d)' = Sleepers(d))
  BY DEF Live, Held, Asleep, Sleepers, OnList
<1>3. BootInv' /\ ReadyInv' /\ PrioInv' /\ ~fault'
  BY <1>2 DEF IInv, BootInv, ReadyInv, PrioInv
<1>4. LockInv'
  BY <1>2 DEF IInv, LockInv, HoldsLockCounts
<1>5. SleepInv'
  BY <1>2 DEF IInv, SleepInv
<1> QED
  BY <1>1, <1>3, <1>4, <1>5 DEF IInv
\* What a call to event_wait does to the lists: the caller joins device d.
LEMMA EventWaitLists ==
    ASSUME IInv, NEW d \in Device, event_wait(d)
    PROVE  /\ Sleepers(d)' = Sleepers(d) \cup {cur_tcb}
           /\ \A e \in Device \ {d} : Sleepers(e)' = Sleepers(e)
           /\ \A e \in Device : cur_tcb \notin Sleepers(e)
           /\ sleep_queue' \in [Tcb -> Tcb \cup {NULL}]
           /\ dev_queue' \in [Device -> Tcb \cup {NULL}]
<1>1. /\ sleep_queue \in [Tcb -> Tcb \cup {NULL}]
      /\ dev_queue \in [Device -> Tcb \cup {NULL}]
  BY DEF IInv, TypeOK, SchedTypeOK, DeviceTypeOK
<1>2. cur_tcb \in Tcb /\ run_list[cur_tcb] # NULL
  BY CallerIsLive DEF event_wait
<1>3. \A e \in Device : cur_tcb \notin Sleepers(e)
  BY <1>2 DEF IInv, SleepInv, Asleep
<1>4. /\ sleep_queue' = [sleep_queue EXCEPT ![cur_tcb] = dev_queue[d]]
      /\ dev_queue' = [dev_queue EXCEPT ![d] = cur_tcb]
  BY DEF event_wait, dev_wait
<1>5. /\ sleep_queue' \in [Tcb -> Tcb \cup {NULL}]
      /\ dev_queue' \in [Device -> Tcb \cup {NULL}]
  BY <1>1, <1>2, <1>4
<1>6. Sleepers(d)' = Sleepers(d) \cup {cur_tcb}
  <2>1. dev_queue[d] \in Tcb \cup {NULL} /\ dev_queue'[d] = cur_tcb
    BY <1>1, <1>4
  <2>2. cur_tcb \notin Reach(sleep_queue, dev_queue[d])
    BY <1>3 DEF Sleepers, OnList
  <2>3. Reach(sleep_queue', cur_tcb) = Reach(sleep_queue, dev_queue[d]) \cup {cur_tcb}
    <3>1. /\ sleep_queue'[cur_tcb] = dev_queue[d]
          /\ \A u \in Tcb \ {cur_tcb} : sleep_queue'[u] = sleep_queue[u]
      BY <1>1, <1>2, <1>4
    <3> QED
      BY <1>1, <1>2, <1>5, <2>1, <2>2, <3>1, ReachPush
  <2> QED
    BY <2>1, <2>3 DEF Sleepers, OnList
<1>7. ASSUME NEW e \in Device \ {d} PROVE Sleepers(e)' = Sleepers(e)
  <2>1. dev_queue'[e] = dev_queue[e]
    BY <1>1, <1>4
  <2>2. \A u \in Reach(sleep_queue, dev_queue[e]) : sleep_queue'[u] = sleep_queue[u]
    BY <1>1, <1>3, <1>4, ReachClosed DEF Sleepers, OnList
  <2>3. Reach(sleep_queue', dev_queue[e]) = Reach(sleep_queue, dev_queue[e])
    BY <1>1, <1>5, <2>2, ReachFrame
  <2> QED
    BY <2>1, <2>3 DEF Sleepers, OnList
<1> QED
  BY <1>3, <1>5, <1>6, <1>7

\* Waiting for a device: only a task that holds no mutex gets here.
LEMMA EventWaitIInv ==
    ASSUME IInv, NEW d \in Device, event_wait(d)
    PROVE  IInv'
<1> DEFINE c == cur_tcb
<1>1. /\ c \in Live /\ c \in Tcb /\ c # TOP_PRIO /\ c # NULL /\ c # IDLE_PRIO
      /\ run_list[c] = c
  BY CallerIsLive DEF event_wait
<1>2. holds_lock[c] = 0
  BY DEF event_wait
<1>3. cur_prio[c] = c
  BY <1>1, <1>2 DEF IInv, PrioInv, PrioHolding, native_prio
<1>4. /\ TypeOK /\ Live \in SUBSET Tcb /\ NULL \notin Tcb /\ IDLE_PRIO \in Tcb
      /\ TOP_PRIO \in Tcb /\ TOP_PRIO \notin Live /\ IDLE_PRIO # TOP_PRIO
  BY LiveRange DEF IInv
<1>5. /\ run_list' = [run_list EXCEPT ![c] = NULL]
      /\ cur_tcb' = highest_prio(run_list')
      /\ fault' = (run_list[c] # c \/ NoContext(cur_tcb'))
      /\ UNCHANGED <<cur_prio, holds_lock, num_tasks, timer, next_match, mutex_vars>>
  BY <1>3 DEF event_wait, dev_wait, dispatch_sleep
<1> HIDE DEF c
<1>6. run_list \in [Prio -> Tcb \cup {NULL}]
  BY <1>4 DEF TypeOK, SchedTypeOK
<1>7. /\ run_list' \in [Prio -> Tcb \cup {NULL}]
      /\ run_list'[c] = NULL
      /\ \A p \in Prio \ {c} : run_list'[p] = run_list[p]
  BY <1>1, <1>5, <1>6 DEF Tcb
<1>8. run_list'[IDLE_PRIO] = run_list[IDLE_PRIO] /\ run_list[IDLE_PRIO] # NULL
  BY <1>1, <1>4, <1>7 DEF IInv, ReadyInv, Tcb, c
<1>9. cur_tcb' \in Prio /\ run_list'[cur_tcb'] # NULL
  <2>1. Ready(run_list') # {}
    BY <1>4, <1>8 DEF Ready, Tcb
  <2> QED
    BY <1>5, <2>1, HighestIsLeast
<1>10. \A p \in Prio : run_list'[p] # NULL => run_list'[p] = p /\ (p \in Live \/ p = IDLE_PRIO)
  BY <1>7 DEF IInv, ReadyInv
<1>11. cur_tcb' # TOP_PRIO /\ cur_tcb' # NULL
  BY <1>4, <1>9, <1>10 DEF Tcb
<1>12. fault' = FALSE
  BY <1>1, <1>5, <1>11 DEF NoContext
<1>13. TypeOK'
  <2>1. SchedTypeOK'
    BY <1>4, <1>5, <1>7, <1>9, <1>12, EventWaitLists DEF TypeOK, SchedTypeOK, Tcb
  <2>2. DeviceTypeOK' /\ MutexTypeOK'
    BY <1>4, <1>5, EventWaitLists DEF TypeOK, DeviceTypeOK, MutexTypeOK, mutex_vars
  <2> QED
    BY <2>1, <2>2 DEF TypeOK
<1>14. Live' = Live
  BY <1>5 DEF Live
<1>15. BootInv' /\ ReadyInv'
  BY <1>8, <1>9, <1>10, <1>11, <1>14 DEF BootInv, ReadyInv
<1>16. PrioInv'
  BY <1>1, <1>5, <1>14 DEF IInv, PrioInv, c
<1>17. LockInv'
  <2>1. \A m \in MutexId : ~bLock[m] /\ pHolding_Tcb[m] = NULL
    BY <1>1, <1>2, NothingLocked DEF c
  <2>2. \A t : Held(t)' = Held(t)
    BY <1>5 DEF Held, mutex_vars
  <2> QED
    BY <1>5, <1>14, <2>1, <2>2 DEF IInv, LockInv, HoldsLockCounts, mutex_vars
<1>18. SleepInv'
  <2>1. Asleep' = Asleep \cup {c}
    BY <1>1, <1>4, <1>7, <1>14 DEF Asleep, Tcb
  <2> QED
    BY <2>1, EventWaitLists DEF IInv, SleepInv, c
<1> QED
  BY <1>12, <1>13, <1>15, <1>16, <1>17, <1>18 DEF IInv
\* A lock succeeds only on a free mutex: a locked one is the caller's own.
LEMMA LockIsFree ==
    ASSUME IInv, NEW m \in MutexId, LockMutex(m)
    PROVE  ~bLock[m] /\ pHolding_Tcb[m] = NULL /\ lock_free(m)
<1>1. pHolding_Tcb[m] # cur_tcb
  BY DEF LockMutex, mutex_lock, mutex_lock_result
<1>2. ~bLock[m]
  BY <1>1 DEF IInv, LockInv
<1> QED
  BY <1>2 DEF LockMutex, mutex_lock, IInv, LockInv

LEMMA LockMutexIInv ==
    ASSUME IInv, NEW m \in MutexId, LockMutex(m)
    PROVE  IInv'
<1> DEFINE c == cur_tcb
<1>1. c \in Live /\ c \in Tcb /\ c # NULL /\ c # IDLE_PRIO
  BY CallerIsLive DEF LockMutex
<1>2. ~bLock[m] /\ pHolding_Tcb[m] = NULL /\ lock_free(m)
  BY LockIsFree
<1>3. /\ TypeOK /\ Live \in SUBSET Tcb /\ TOP_PRIO \in Tcb /\ IDLE_PRIO \in Tcb
      /\ IDLE_PRIO \notin Live
  BY LiveRange DEF IInv
<1>4. /\ holds_lock' = [holds_lock EXCEPT ![c] = @ + 1]
      /\ cur_prio' = [cur_prio EXCEPT ![c] = TOP_PRIO]
      /\ bLock' = [bLock EXCEPT ![m] = TRUE]
      /\ pHolding_Tcb' = [pHolding_Tcb EXCEPT ![m] = c]
      /\ UNCHANGED <<run_list, cur_tcb, sleep_queue, num_tasks, fault, mutexExist,
                     pSleep_queue, dev_vars>>
  BY <1>2 DEF lock_free, NestedHold, CeilingPrio, LockMutex
<1> HIDE DEF c
<1>5. holds_lock[c] \in Nat
  BY <1>1 DEF IInv, PrioInv, c
<1>6. /\ holds_lock' \in [Tcb -> Int] /\ holds_lock'[c] = holds_lock[c] + 1
      /\ cur_prio' \in [Tcb -> Prio] /\ cur_prio'[c] = TOP_PRIO
      /\ \A t \in Tcb \ {c} : holds_lock'[t] = holds_lock[t] /\ cur_prio'[t] = cur_prio[t]
  BY <1>1, <1>3, <1>4 DEF TypeOK, SchedTypeOK, Tcb
<1>7. /\ bLock' \in [MutexId -> BOOLEAN] /\ bLock'[m] = TRUE
      /\ pHolding_Tcb' \in [MutexId -> Tcb \cup {NULL}] /\ pHolding_Tcb'[m] = c
      /\ \A k \in MutexId \ {m} : bLock'[k] = bLock[k] /\ pHolding_Tcb'[k] = pHolding_Tcb[k]
  BY <1>1, <1>3, <1>4 DEF TypeOK, MutexTypeOK
<1>8. TypeOK'
  <2>1. SchedTypeOK'
    BY <1>3, <1>4, <1>6 DEF TypeOK, SchedTypeOK
  <2>2. DeviceTypeOK' /\ MutexTypeOK'
    BY <1>3, <1>4, <1>7 DEF TypeOK, DeviceTypeOK, MutexTypeOK, dev_vars
  <2> QED
    BY <2>1, <2>2 DEF TypeOK
<1>9. Live' = Live /\ Asleep' = Asleep /\ (\A d \in Device : Sleepers(d)' = Sleepers(d))
  BY <1>4 DEF Live, Asleep, Sleepers, OnList, dev_vars
<1>10. BootInv' /\ ReadyInv' /\ SleepInv' /\ ~fault'
  BY <1>1, <1>4, <1>9 DEF IInv, BootInv, ReadyInv, SleepInv, c
<1>11. PrioInv'
  <2>1. ASSUME NEW t \in Live \cup {IDLE_PRIO}
        PROVE  holds_lock'[t] \in Nat /\ cur_prio'[t] = PrioHolding(t, holds_lock'[t])
    <3>1. CASE t = c
      BY <1>5, <1>6, <3>1 DEF PrioHolding
    <3>2. CASE t # c
      <4>1. holds_lock'[t] = holds_lock[t] /\ cur_prio'[t] = cur_prio[t]
        BY <1>3, <1>6, <3>2
      <4> QED
        BY <1>1, <4>1 DEF IInv, PrioInv, c
    <3> QED
      BY <3>1, <3>2
  <2>2. holds_lock'[IDLE_PRIO] = 0
    BY <1>1, <1>3, <1>6 DEF IInv, PrioInv, c
  <2> QED
    BY <1>9, <2>1, <2>2 DEF PrioInv
<1>12. LockInv'
  <2>1. ASSUME NEW k \in MutexId
        PROVE  /\ bLock'[k] <=> pHolding_Tcb'[k] # NULL
               /\ bLock'[k] => pHolding_Tcb'[k] = cur_tcb' /\ cur_tcb' \in Live'
               /\ pSleep_queue'[k] = NULL
    BY <1>1, <1>4, <1>7, <1>9 DEF IInv, LockInv, c
  <2>2. ASSUME NEW t \in Live PROVE holds_lock'[t] = Cardinality(Held(t)')
    <3>1. CASE t = c
      <4>0. c' = c
        BY <1>4 DEF c
      <4>1. Held(c)' = Held(c) \cup {m} /\ m \notin Held(c)
        BY <1>1, <1>2, <1>7, <4>0 DEF Held
      <4>2. Cardinality(Held(c)') = Cardinality(Held(c)) + 1
        BY <4>1, HeldFinite, FS_AddElement
      <4>3. Held(t)' = Held(c)'
        BY <3>1, <4>0 DEF Held
      <4> QED
        BY <1>1, <1>6, <3>1, <4>2, <4>3 DEF IInv, LockInv, HoldsLockCounts
    <3>2. CASE t # c
      <4>1. t # NULL /\ t \in Tcb
        BY <1>3, LiveRange DEF IInv
      <4>2. Held(t)' = Held(t)
        BY <1>2, <1>7, <3>2, <4>1 DEF Held
      <4> QED
        BY <1>6, <3>2, <4>1, <4>2 DEF IInv, LockInv, HoldsLockCounts
    <3> QED
      BY <3>1, <3>2
  <2> QED
    BY <1>9, <2>1, <2>2 DEF LockInv, HoldsLockCounts
<1> QED
  BY <1>8, <1>10, <1>11, <1>12 DEF IInv

\* An unlock frees the mutex: there is no waiter to hand it to.
LEMMA UnlockMutexIInv ==
    ASSUME IInv, NEW m \in MutexId, UnlockMutex(m)
    PROVE  IInv'
<1> DEFINE c == cur_tcb
<1>1. c \in Live /\ c \in Tcb /\ c # NULL /\ c # IDLE_PRIO
  BY CallerIsLive DEF UnlockMutex
<1>2. pHolding_Tcb[m] = c /\ pSleep_queue[m] = NULL
  BY DEF UnlockMutex, mutex_unlock, StaysLocked, mutex_unlock_result, IInv, LockInv
<1>3. /\ TypeOK /\ Live \in SUBSET Tcb /\ TOP_PRIO \in Tcb /\ IDLE_PRIO \in Tcb
      /\ IDLE_PRIO \notin Live /\ NULL \notin Tcb
  BY LiveRange DEF IInv
<1>4. /\ holds_lock' = [holds_lock EXCEPT ![c] = @ - 1]
      /\ cur_prio' = [cur_prio EXCEPT ![c] = PrioHolding(c, holds_lock'[c])]
      /\ bLock' = [bLock EXCEPT ![m] = FALSE]
      /\ pHolding_Tcb' = [pHolding_Tcb EXCEPT ![m] = NULL]
      /\ UNCHANGED <<run_list, cur_tcb, sleep_queue, num_tasks, fault, mutexExist,
                     pSleep_queue, dev_vars>>
  BY <1>2 DEF UnlockMutex, mutex_unlock, StaysLocked
<1> HIDE DEF c
<1>5. /\ holds_lock[c] = Cardinality(Held(c))
      /\ m \in Held(c) /\ IsFiniteSet(Held(c))
  BY <1>1, <1>2, HeldFinite DEF IInv, LockInv, HoldsLockCounts, Held
<1>6. /\ Cardinality(Held(c) \ {m}) = holds_lock[c] - 1
      /\ Cardinality(Held(c) \ {m}) \in Nat
  BY <1>5, FS_RemoveElement, FS_CardinalityType, FS_Subset
<1>7. /\ holds_lock' \in [Tcb -> Int] /\ holds_lock'[c] = Cardinality(Held(c) \ {m})
      /\ \A t \in Tcb \ {c} : holds_lock'[t] = holds_lock[t]
  BY <1>1, <1>3, <1>4, <1>6 DEF TypeOK, SchedTypeOK
<1>8. PrioHolding(c, holds_lock'[c]) \in Prio
  BY <1>1, <1>3 DEF PrioHolding, native_prio, Tcb
<1>9. /\ cur_prio' \in [Tcb -> Prio] /\ cur_prio'[c] = PrioHolding(c, holds_lock'[c])
      /\ \A t \in Tcb \ {c} : cur_prio'[t] = cur_prio[t]
  BY <1>1, <1>3, <1>4, <1>8 DEF TypeOK, SchedTypeOK
<1>10. /\ bLock' \in [MutexId -> BOOLEAN] /\ bLock'[m] = FALSE
       /\ pHolding_Tcb' \in [MutexId -> Tcb \cup {NULL}] /\ pHolding_Tcb'[m] = NULL
       /\ \A k \in MutexId \ {m} : bLock'[k] = bLock[k] /\ pHolding_Tcb'[k] = pHolding_Tcb[k]
  BY <1>1, <1>3, <1>4 DEF TypeOK, MutexTypeOK
<1>11. TypeOK'
  <2>1. SchedTypeOK'
    BY <1>3, <1>4, <1>7, <1>9 DEF TypeOK, SchedTypeOK
  <2>2. DeviceTypeOK' /\ MutexTypeOK'
    BY <1>3, <1>4, <1>10 DEF TypeOK, DeviceTypeOK, MutexTypeOK, dev_vars
  <2> QED
    BY <2>1, <2>2 DEF TypeOK
<1>12. Live' = Live /\ Asleep' = Asleep /\ (\A d \in Device : Sleepers(d)' = Sleepers(d))
  BY <1>4 DEF Live, Asleep, Sleepers, OnList, dev_vars
<1>13. BootInv' /\ ReadyInv' /\ SleepInv' /\ ~fault'
  BY <1>1, <1>4, <1>12 DEF IInv, BootInv, ReadyInv, SleepInv, c
<1>14. PrioInv'
  <2>1. ASSUME NEW t \in Live \cup {IDLE_PRIO}
        PROVE  holds_lock'[t] \in Nat /\ cur_prio'[t] = PrioHolding(t, holds_lock'[t])
    <3>1. CASE t = c
      BY <1>6, <1>7, <1>9, <3>1
    <3>2. CASE t # c
      <4>1. holds_lock'[t] = holds_lock[t] /\ cur_prio'[t] = cur_prio[t]
        BY <1>3, <1>7, <1>9, <3>2
      <4> QED
        BY <1>1, <4>1 DEF IInv, PrioInv, c
    <3> QED
      BY <3>1, <3>2
  <2>2. holds_lock'[IDLE_PRIO] = 0
    BY <1>1, <1>3, <1>7 DEF IInv, PrioInv, c
  <2> QED
    BY <1>12, <2>1, <2>2 DEF PrioInv
<1>15. LockInv'
  <2>1. ASSUME NEW k \in MutexId
        PROVE  /\ bLock'[k] <=> pHolding_Tcb'[k] # NULL
               /\ bLock'[k] => pHolding_Tcb'[k] = cur_tcb' /\ cur_tcb' \in Live'
               /\ pSleep_queue'[k] = NULL
    BY <1>1, <1>4, <1>10, <1>12 DEF IInv, LockInv, c
  <2>2. ASSUME NEW t \in Live PROVE holds_lock'[t] = Cardinality(Held(t)')
    <3>1. CASE t = c
      <4>1. Held(t)' = Held(c) \ {m}
        BY <1>1, <1>10, <3>1 DEF Held
      <4> QED
        BY <1>7, <3>1, <4>1
    <3>2. CASE t # c
      <4>1. t # NULL /\ t \in Tcb
        BY <1>3
      <4>2. Held(t)' = Held(t)
        BY <1>2, <1>10, <3>2, <4>1 DEF Held
      <4> QED
        BY <1>7, <3>2, <4>1, <4>2 DEF IInv, LockInv, HoldsLockCounts
    <3> QED
      BY <3>1, <3>2
  <2> QED
    BY <1>12, <2>1, <2>2 DEF LockInv, HoldsLockCounts
<1> QED
  BY <1>11, <1>13, <1>14, <1>15 DEF IInv
\* What a tick does to the lists and the slots: the due devices' sleepers, all
\* of them and nobody else, move from the lists to their own slots.
IrqDue   == {d \in Device : Due(d, get_millis')}
IrqWoken == Woken(IrqDue)

LEMMA IrqLists ==
    ASSUME IInv, Irq
    PROVE  /\ IrqWoken \in SUBSET Asleep
           /\ \A d \in IrqDue : Sleepers(d)' = {}
           /\ \A d \in Device \ IrqDue : Sleepers(d)' = Sleepers(d) /\ Sleepers(d) \cap IrqWoken = {}
           /\ \A p \in Prio : run_list'[p] = IF p \in IrqWoken THEN p ELSE run_list[p]
           /\ run_list' \in [Prio -> Tcb \cup {NULL}]
           /\ sleep_queue' \in [Tcb -> Tcb \cup {NULL}]
           /\ dev_queue' \in [Device -> Tcb \cup {NULL}]
<1>1. /\ sleep_queue \in [Tcb -> Tcb \cup {NULL}]
      /\ dev_queue \in [Device -> Tcb \cup {NULL}]
      /\ run_list \in [Prio -> Tcb \cup {NULL}]
      /\ Live \in SUBSET Tcb /\ NULL \notin Tcb
  BY LiveRange DEF IInv, TypeOK, SchedTypeOK, DeviceTypeOK
<1>2. /\ dev_queue' = [d \in Device |-> IF d \in IrqDue THEN NULL ELSE dev_queue[d]]
      /\ sleep_queue' = [t \in Tcb |-> IF t \in IrqWoken THEN NULL ELSE sleep_queue[t]]
      /\ run_list' \in Requeued(IrqWoken)
  BY DEF Irq, irq_handler, dev_update, IrqDue, IrqWoken
<1>3. IrqWoken = UNION {Sleepers(d) : d \in IrqDue} /\ IrqDue \in SUBSET Device
  BY DEF IrqWoken, Woken, IrqDue
<1> HIDE DEF IrqDue, IrqWoken
<1>4. IrqWoken \in SUBSET Asleep
  BY <1>3 DEF IInv, SleepInv
<1>5. sleep_queue' \in [Tcb -> Tcb \cup {NULL}] /\ dev_queue' \in [Device -> Tcb \cup {NULL}]
  BY <1>1, <1>2
<1>6. \A d \in IrqDue : Sleepers(d)' = {}
  <2>1. \A d \in IrqDue : dev_queue'[d] = NULL
    BY <1>2, <1>3
  <2> QED
    BY <1>1, <2>1, ReachEmpty DEF Sleepers, OnList
<1>7. ASSUME NEW d \in Device \ IrqDue
      PROVE  Sleepers(d)' = Sleepers(d) /\ Sleepers(d) \cap IrqWoken = {}
  <2>1. Sleepers(d) \cap IrqWoken = {}
    BY <1>3 DEF IInv, SleepInv
  <2>2. dev_queue'[d] = dev_queue[d]
    BY <1>2
  <2>3. \A u \in Reach(sleep_queue, dev_queue[d]) : sleep_queue'[u] = sleep_queue[u]
    BY <1>1, <1>2, <2>1, ReachClosed DEF Sleepers, OnList
  <2>4. Reach(sleep_queue', dev_queue[d]) = Reach(sleep_queue, dev_queue[d])
    BY <1>1, <1>5, <2>3, ReachFrame
  <2> QED
    BY <2>1, <2>2, <2>4 DEF Sleepers, OnList
<1>8. \A t \in IrqWoken : cur_prio[t] = t /\ t \in Tcb
  BY <1>1, <1>4, AsleepHoldsNothing DEF Asleep
<1>9. {cur_prio[t] : t \in IrqWoken} = IrqWoken
  BY <1>8
<1>10. PICK last \in [IrqWoken -> IrqWoken] :
          /\ \A p \in IrqWoken : cur_prio[last[p]] = p
          /\ run_list' = [p \in Prio |-> IF p \in IrqWoken THEN last[p] ELSE run_list[p]]
  <2> DEFINE prios == {cur_prio[t] : t \in IrqWoken}
  <2>1. PICK last \in [prios -> IrqWoken] :
            /\ \A p \in prios : cur_prio[last[p]] = p
            /\ run_list' = [p \in Prio |-> IF p \in prios THEN last[p] ELSE run_list[p]]
    BY <1>2 DEF Requeued
  <2>2. prios = IrqWoken
    BY <1>9
  <2> HIDE DEF prios
  <2> QED
    BY <2>1, <2>2
<1>11. \A p \in IrqWoken : last[p] = p
  BY <1>8, <1>10
<1>12. \A p \in Prio : run_list'[p] = IF p \in IrqWoken THEN p ELSE run_list[p]
  BY <1>10, <1>11
<1>13. run_list' \in [Prio -> Tcb \cup {NULL}]
  BY <1>1, <1>8, <1>10, <1>11 DEF Tcb
<1> QED
  BY <1>4, <1>5, <1>6, <1>7, <1>12, <1>13

\* Who runs after a tick: the same task, or the highest ready one if a task was
\* woken and the running task, which then holds no mutex, is below it.
LEMMA IrqDispatch ==
    ASSUME IInv, Irq
    PROVE  \/ cur_tcb' = cur_tcb /\ fault' = fault
           \/ /\ cur_tcb # NULL
              /\ cur_prio[cur_tcb] # TOP_PRIO
              /\ cur_tcb' = highest_prio(run_list')
              /\ cur_tcb' \in Prio /\ run_list'[cur_tcb'] # NULL
              /\ cur_tcb' # TOP_PRIO /\ fault' = FALSE
<1>1. IF IrqWoken = {} THEN UNCHANGED <<cur_tcb, fault>> ELSE dispatch_save(run_list')
  BY DEF Irq, irq_handler, dev_update, IrqDue, IrqWoken
<1>2. CASE IrqWoken = {} \/ KeepsRunning(run_list')
  BY <1>1, <1>2 DEF dispatch_save
<1>3. CASE IrqWoken # {} /\ ~KeepsRunning(run_list')
  <2>1. cur_tcb' = highest_prio(run_list') /\ fault' = NoContext(cur_tcb')
    BY <1>1, <1>3 DEF dispatch_save
  <2>2. PICK t \in IrqWoken : t \in Asleep /\ t \in Tcb /\ cur_tcb # NULL
    BY <1>3, IrqLists, AsleepHoldsNothing, LiveRange DEF Asleep, IInv
  <2>3. Ready(run_list') # {}
    BY <2>2, IrqLists, LiveRange DEF Ready, Tcb, IInv
  <2>4. highest_prio(run_list') \in Prio /\ run_list'[highest_prio(run_list')] # NULL
    BY <2>3, HighestIsLeast
  <2>5. cur_prio[cur_tcb] # TOP_PRIO
    <3>1. cur_prio[cur_tcb] \in Prio /\ ~(cur_prio[cur_tcb] <= highest_prio(run_list'))
      BY <1>3, <2>2 DEF KeepsRunning, IInv, TypeOK, SchedTypeOK
    <3> QED
      BY <2>4, <3>1 DEF TOP_PRIO, Prio
  <2>6. run_list'[TOP_PRIO] = NULL
    <3>1. TOP_PRIO \notin Asleep /\ TOP_PRIO \in Prio /\ run_list[TOP_PRIO] = NULL
      BY LiveRange DEF IInv, Asleep, ReadyInv, Tcb
    <3> QED
      BY <3>1, IrqLists
  <2> QED
    BY <2>1, <2>2, <2>4, <2>5, <2>6 DEF NoContext
<1> QED
  BY <1>2, <1>3

LEMMA IrqIInv ==
    ASSUME IInv, Irq
    PROVE  IInv'
<1>1. TypeOK /\ Live \in SUBSET Tcb /\ NULL \notin Tcb /\ IDLE_PRIO \in Tcb
  BY LiveRange DEF IInv
<1>2. /\ UNCHANGED <<cur_prio, holds_lock, num_tasks, mutex_vars>>
      /\ timer' = (timer + 1) % WORD
      /\ next_match' = [d \in Device |->
             IF d \in IrqDue THEN (get_millis' + dev_freq[d]) % WORD ELSE next_match[d]]
  BY DEF Irq, irq_handler, timer_handler, dev_update, IrqDue
<1>3. Live' = Live
  BY <1>2 DEF Live
<1>4. fault' = FALSE
  BY IrqDispatch DEF IInv, TypeOK, SchedTypeOK
<1>5. cur_tcb' \in Tcb \cup {NULL}
  BY <1>1, IrqDispatch DEF TypeOK, SchedTypeOK, Tcb
<1>6. TypeOK'
  <2>1. SchedTypeOK'
    BY <1>1, <1>2, <1>4, <1>5, IrqLists DEF TypeOK, SchedTypeOK
  <2>2. timer' \in Millis
    BY <1>1, <1>2, WordAssumption DEF TypeOK, DeviceTypeOK, Millis
  <2>3. get_millis' \in Nat
    <3>1. timer' \in Nat
      BY <2>2, WordAssumption DEF Millis
    <3>2. timer' * OS_TIMER_RESOLUTION \in Nat
      <4>1. \A a, b \in Nat : a * b \in Nat
        OBVIOUS
      <4> QED
        BY <3>1, <4>1, TickAssumption
    <3> QED
      BY <3>2, WordAssumption DEF get_millis
  <2>4. \A d \in Device : (get_millis' + dev_freq[d]) % WORD \in Millis
    BY <2>3, WordAssumption, FreqAssumption DEF Millis
  <2>5. next_match' \in [Device -> Millis]
    BY <1>1, <1>2, <2>4 DEF TypeOK, DeviceTypeOK
  <2>6. DeviceTypeOK'
    BY <2>2, <2>5, IrqLists DEF DeviceTypeOK
  <2>7. MutexTypeOK'
    BY <1>1, <1>2 DEF TypeOK, MutexTypeOK, mutex_vars
  <2> QED
    BY <2>1, <2>6, <2>7 DEF TypeOK
<1>7. ReadyInv'
  <2>1. \A p \in Prio : run_list'[p] # NULL =>
            run_list'[p] = p /\ (p \in Live \/ p = IDLE_PRIO)
    BY IrqLists DEF IInv, ReadyInv, Asleep
  <2>2. \A p \in Prio : run_list[p] # NULL => run_list'[p] # NULL
    BY <1>1, IrqLists DEF Tcb
  <2>3. cur_tcb' # NULL => run_list'[cur_tcb'] # NULL /\ run_list'[IDLE_PRIO] # NULL
    BY <1>1, <2>2, IrqDispatch DEF IInv, ReadyInv, TypeOK, SchedTypeOK, Tcb
  <2> QED
    BY <1>3, <2>1, <2>3 DEF ReadyInv
<1>8. BootInv'
  <2>1. SUFFICES ASSUME cur_tcb' = NULL PROVE BootInv'
    BY DEF BootInv
  <2>2. cur_tcb = NULL
    BY <1>1, <2>1, IrqDispatch DEF Tcb
  <2>3. Live = {} /\ Asleep = {}
    BY <2>2 DEF IInv, BootInv, Live, Asleep
  <2>4. IrqWoken = {}
    BY <2>3, IrqLists
  <2>5. \A d \in Device : dev_queue'[d] = NULL
    BY <2>2 DEF Irq, irq_handler, dev_update, IInv, BootInv
  <2> QED
    BY <1>2, <2>2, <2>4, <2>5, IrqLists DEF IInv, BootInv, mutex_vars
<1>9. PrioInv'
  BY <1>1, <1>2, <1>3, IrqDispatch DEF IInv, PrioInv, Tcb
<1>10. LockInv'
  <2>1. \A t : Held(t)' = Held(t)
    BY <1>2 DEF Held, mutex_vars
  <2>2. ASSUME cur_tcb' # cur_tcb, NEW m \in MutexId PROVE ~bLock[m]
    <3>1. cur_tcb # NULL /\ cur_prio[cur_tcb] # TOP_PRIO
      BY <2>2, IrqDispatch
    <3>2. ASSUME bLock[m] PROVE FALSE
      <4>1. pHolding_Tcb[m] = cur_tcb /\ cur_tcb \in Live
        BY <3>2 DEF IInv, LockInv
      <4>2. holds_lock[cur_tcb] = 0
        BY <3>1, <4>1 DEF IInv, PrioInv, PrioHolding
      <4> QED
        BY <3>2, <4>1, <4>2, NothingLocked
    <3> QED
      BY <3>2
  <2> QED
    BY <1>2, <1>3, <2>1, <2>2 DEF IInv, LockInv, HoldsLockCounts, mutex_vars
<1>11. SleepInv'
  <2>1. Asleep' = Asleep \ IrqWoken
    BY <1>1, <1>3, IrqLists DEF Asleep, Tcb
  <2>2. \A t \in IrqWoken : \E d \in IrqDue : t \in Sleepers(d)
    BY DEF IrqWoken, Woken
  <2>3. IrqDue \in SUBSET Device
    BY DEF IrqDue
  <2>4. \A d \in IrqDue : Sleepers(d) \subseteq IrqWoken
    BY DEF IrqWoken, Woken
  <2>5. \A t \in Asleep' : \E d \in Device : t \in Sleepers(d)'
    BY <2>1, <2>3, <2>4, IrqLists DEF IInv, SleepInv
  <2>6. \A d \in Device : Sleepers(d)' \subseteq Asleep'
    BY <2>1, IrqLists DEF IInv, SleepInv
  <2>7. \A d, e \in Device : d # e => Sleepers(d)' \cap Sleepers(e)' = {}
    <3>1. \A d \in Device : Sleepers(d)' \subseteq Sleepers(d)
      BY IrqLists
    <3> QED
      BY <3>1 DEF IInv, SleepInv
  <2> QED
    BY <2>5, <2>6, <2>7 DEF SleepInv
<1> QED
  BY <1>4, <1>6, <1>7, <1>8, <1>9, <1>10, <1>11 DEF IInv
-----------------------------------------------------------------------------
(* The theorems.                                                           *)

\* Every step the programs of the repository can take keeps the invariant.
LEMMA StepIInv == IInv /\ [OrderlyNext]_vars => IInv'
<1> SUFFICES ASSUME IInv, [OrderlyNext]_vars PROVE IInv'
  OBVIOUS
<1>1. CASE \E n \in 0..(IDLE_PRIO - 1) : Quiescent /\ task_create(n)
  BY <1>1, TaskCreateIInv
<1>2. CASE \E d \in Device : event_wait(d)
  BY <1>2, EventWaitIInv
<1>3. CASE CreateMutex
  BY <1>3, CreateMutexIInv
<1>4. CASE \E m \in MutexId : LockMutex(m) \/ UnlockMutex(m)
  BY <1>4, LockMutexIInv, UnlockMutexIInv
<1>5. CASE Irq
  BY <1>5, IrqIInv
<1>6. CASE UNCHANGED vars
  <2>1. UNCHANGED <<sched_vars, dev_vars, mutex_vars>>
    BY <1>6 DEF vars
  <2> USE <2>1 DEF sched_vars, dev_vars, mutex_vars
  <2>2. TypeOK'
    BY DEF IInv, TypeOK, SchedTypeOK, DeviceTypeOK, MutexTypeOK
  <2>3. Live' = Live /\ (\A t : Held(t)' = Held(t)) /\ Asleep' = Asleep
        /\ (\A d \in Device : Sleepers(d)' = Sleepers(d))
    BY DEF Live, Held, Asleep, Sleepers, OnList
  <2>4. BootInv' /\ ReadyInv' /\ PrioInv' /\ ~fault'
    BY <2>3 DEF IInv, BootInv, ReadyInv, PrioInv
  <2>5. LockInv' /\ SleepInv'
    BY <2>3 DEF IInv, LockInv, HoldsLockCounts, SleepInv
  <2> QED
    BY <2>2, <2>4, <2>5 DEF IInv
<1> QED
  BY <1>1, <1>2, <1>3, <1>4, <1>5, <1>6 DEF OrderlyNext

\* IInv holds in every reachable state of the orderly kernel.
THEOREM Invariance == OrderlySpec => []IInv
  BY InitIInv, StepIInv, PTL DEF OrderlySpec

\* Every variable keeps its type (struct tcb, devices[], gtMutex[]).
THEOREM TypeCorrect == OrderlySpec => []TypeOK
<1>1. IInv => TypeOK
  BY DEF IInv
<1> QED
  BY <1>1, Invariance, PTL

\* The highest locker protocol of mutex.c: whoever holds a mutex is running, at
\* top priority, whatever the timer wakes during the critical section.
THEOREM CeilingProtocol == OrderlySpec => []LockHolderRuns
<1>1. IInv => LockHolderRuns
  <2> SUFFICES ASSUME IInv, NEW m \in MutexId, bLock[m]
               PROVE  /\ cur_tcb # NULL /\ pHolding_Tcb[m] = cur_tcb
                      /\ cur_prio[cur_tcb] = TOP_PRIO
    BY DEF LockHolderRuns
  <2>1. pHolding_Tcb[m] = cur_tcb /\ cur_tcb \in Live
    BY DEF IInv, LockInv
  <2>2. cur_tcb # NULL
    BY <2>1, LiveRange DEF IInv
  <2>3. holds_lock[cur_tcb] # 0
    BY <2>1, <2>2, NothingLocked
  <2> QED
    BY <2>1, <2>2, <2>3 DEF IInv, PrioInv, PrioHolding
<1> QED
  BY <1>1, Invariance, PTL

\* holds_lock is the number of mutexes held, and no call ever blocks on one or
\* follows a wild pointer (mutex.c, ctx_switch.c).
THEOREM LocksCounted == OrderlySpec => [](HoldsLockCounts /\ NeverBlocksOnMutex)
<1>1. IInv => HoldsLockCounts /\ NeverBlocksOnMutex
  BY DEF IInv, LockInv, NeverBlocksOnMutex
<1> QED
  BY <1>1, Invariance, PTL

\* No task of the set is ever lost or in two places (device.c).
THEOREM TasksKept == OrderlySpec => []EachTaskInOnePlace
<1>1. IInv => EachTaskInOnePlace
  <2> SUFFICES ASSUME IInv, NEW t \in Live
               PROVE  \/ run_list[t] = t /\ \A d \in Device : t \notin Sleepers(d)
                      \/ /\ run_list[t] = NULL
                         /\ Cardinality({d \in Device : t \in Sleepers(d)}) = 1
    BY DEF EachTaskInOnePlace
  <2>1. CASE run_list[t] # NULL
    <3>1. run_list[t] = t
      BY <2>1, LiveRange DEF IInv, ReadyInv, Tcb
    <3> QED
      BY <2>1, <3>1 DEF IInv, SleepInv, Asleep
  <2>2. CASE run_list[t] = NULL
    <3>1. PICK d \in Device : t \in Sleepers(d)
      BY <2>2 DEF IInv, SleepInv, Asleep
    <3>2. {e \in Device : t \in Sleepers(e)} = {d}
      BY <3>1 DEF IInv, SleepInv
    <3> QED
      BY <2>2, <3>2, FS_Singleton
  <2> QED
    BY <2>1, <2>2
<1> QED
  BY <1>1, Invariance, PTL

\* A tick wakes all the sleepers of the due devices and no other task.
THEOREM SignalsWake == OrderlySpec => SignalWakesItsSleepers
<1> DEFINE Wakes ==
      timer' # timer =>
          \A d \in Device :
              IF next_match[d] <= get_millis'
                THEN Sleepers(d)' = {} /\ \A t \in Sleepers(d) : run_list'[t] = t
                ELSE Sleepers(d)' = Sleepers(d)
<1>1. IInv /\ [OrderlyNext]_vars => [Wakes]_vars
  <2> SUFFICES ASSUME IInv, OrderlyNext, timer' # timer, NEW d \in Device
               PROVE  IF next_match[d] <= get_millis'
                        THEN Sleepers(d)' = {} /\ \A t \in Sleepers(d) : run_list'[t] = t
                        ELSE Sleepers(d)' = Sleepers(d)
    OBVIOUS
  <2>1. Irq
    BY DEF OrderlyNext, task_create, event_wait, dev_wait, CreateMutex, LockMutex,
           UnlockMutex, dev_vars
  <2>2. d \in IrqDue <=> next_match[d] <= get_millis'
    BY DEF IrqDue, Due
  <2>3. d \in IrqDue => Sleepers(d) \subseteq IrqWoken
    BY DEF IrqWoken, Woken
  <2>4. Sleepers(d) \in SUBSET Prio
    BY LiveRange DEF IInv, SleepInv, Asleep, Tcb
  <2> QED
    BY <2>1, <2>2, <2>3, <2>4, IrqLists
<1> QED
  BY <1>1, Invariance, PTL DEF OrderlySpec, SignalWakesItsSleepers
\* Right after the dispatcher has picked the highest ready task nobody higher
\* is kept waiting: that task's priority is its slot's, or the top one.
LEMMA FreshDispatch ==
    ASSUME IInv', cur_tcb' = highest_prio(run_list'), cur_tcb' # NULL
    PROVE  ~Inverted'
<1>1. cur_tcb' \in Prio /\ run_list'[cur_tcb'] # NULL
  BY DEF IInv, TypeOK, SchedTypeOK, ReadyInv, Tcb
<1>2. cur_tcb' \in Live' \cup {IDLE_PRIO}
  BY <1>1 DEF IInv, ReadyInv
<1>3. cur_prio'[cur_tcb'] = TOP_PRIO \/ cur_prio'[cur_tcb'] = cur_tcb'
  BY <1>2 DEF IInv, PrioInv, PrioHolding, native_prio
<1>4. cur_prio'[cur_tcb'] <= cur_tcb'
  BY <1>1, <1>3, IdlePrioAssumption DEF TOP_PRIO, Prio
<1> QED
  BY <1>4 DEF Inverted, KeepsRunning

\* A priority inversion begins only with a mutex_unlock, which does not
\* dispatch, and lasts only while the same task runs and nothing is woken.
THEOREM InversionsStartAtUnlock == OrderlySpec => InversionOnlyFromUnlock
<1> DEFINE Allowed ==
      Inverted' =>
          /\ cur_tcb' = cur_tcb
          /\ \/ Inverted /\ Ready(run_list') = Ready(run_list)
             \/ \E m \in Held(cur_tcb) : pHolding_Tcb'[m] = NULL
<1>1. IInv /\ [OrderlyNext]_vars => [Allowed]_vars
  <2> SUFFICES ASSUME IInv, OrderlyNext, Inverted' PROVE Allowed
    OBVIOUS
  <2>1. IInv'
    BY StepIInv
  <2>2. cur_tcb' # NULL
    BY DEF Inverted
  <2>3. cur_tcb' # highest_prio(run_list')
    BY <2>1, <2>2, FreshDispatch
  <2>4. CASE \E n \in 0..(IDLE_PRIO - 1) : Quiescent /\ task_create(n)
    BY <2>3, <2>4 DEF task_create, allocate_tasks, NewSet
  <2>5. CASE \E d \in Device : event_wait(d)
    BY <2>3, <2>5 DEF event_wait, dev_wait, dispatch_sleep
  <2>6. CASE CreateMutex
    BY <2>6 DEF CreateMutex, mutex_create, sched_vars, Inverted, KeepsRunning
  <2>7. ASSUME NEW m \in MutexId, LockMutex(m) PROVE FALSE
    <3>1. /\ cur_tcb' = cur_tcb /\ run_list' = run_list
          /\ cur_prio' = [cur_prio EXCEPT ![cur_tcb] = TOP_PRIO]
      BY <2>7, LockIsFree DEF lock_free, NestedHold, CeilingPrio
    <3>2. cur_prio'[cur_tcb'] = TOP_PRIO
      BY <2>7, <3>1, CallerIsLive DEF LockMutex, IInv, TypeOK, SchedTypeOK
    <3>3. Ready(run_list') # {}
      BY <2>1, <2>2, LiveRange DEF IInv, ReadyInv, Ready, TypeOK, SchedTypeOK, Tcb
    <3>4. highest_prio(run_list') \in Prio
      BY <3>3, HighestIsLeast
    <3> QED
      BY <3>2, <3>4 DEF Inverted, KeepsRunning, TOP_PRIO, Prio
  <2>8. ASSUME NEW m \in MutexId, UnlockMutex(m) PROVE Allowed
    <3>1. pHolding_Tcb[m] = cur_tcb /\ pSleep_queue[m] = NULL
      BY <2>8 DEF UnlockMutex, mutex_unlock, StaysLocked, mutex_unlock_result, IInv, LockInv
    <3>2. cur_tcb' = cur_tcb /\ pHolding_Tcb' = [pHolding_Tcb EXCEPT ![m] = NULL]
      BY <2>8, <3>1 DEF UnlockMutex, mutex_unlock, StaysLocked
    <3>3. m \in Held(cur_tcb) /\ pHolding_Tcb'[m] = NULL
      BY <3>1, <3>2 DEF Held, IInv, TypeOK, MutexTypeOK
    <3> QED
      BY <3>2, <3>3
  <2>9. CASE Irq
    <3>1. UNCHANGED cur_prio
      BY <2>9 DEF Irq, irq_handler, dev_update
    <3>2. IF IrqWoken = {} THEN UNCHANGED <<cur_tcb, fault>> ELSE dispatch_save(run_list')
      BY <2>9 DEF Irq, irq_handler, dev_update, IrqDue, IrqWoken
    <3>3. CASE IrqWoken = {}
      <4>1. run_list' = run_list
        BY <2>9, <3>3, IrqLists DEF IInv, TypeOK, SchedTypeOK
      <4> QED
        BY <3>1, <3>2, <3>3, <4>1 DEF Inverted, KeepsRunning
    <3>4. CASE IrqWoken # {}
      <4>1. KeepsRunning(run_list') /\ cur_tcb' = cur_tcb
        BY <2>3, <3>2, <3>4 DEF dispatch_save
      <4> QED
        BY <3>1, <4>1 DEF Inverted, KeepsRunning
    <3> QED
      BY <3>3, <3>4
  <2> QED
    BY <2>4, <2>5, <2>6, <2>7, <2>8, <2>9 DEF OrderlyNext
<1> QED
  BY <1>1, Invariance, PTL DEF OrderlySpec, InversionOnlyFromUnlock

-----------------------------------------------------------------------------
(* The kernel implements Ceiling: every orderly step maps to a step of the *)
(* abstract scheduler or leaves its variables alone.                       *)

absVars == <<cur_tcb, Ready(run_list), [d \in Device |-> Sleepers(d)], pHolding_Tcb, mutexExist>>

\* What the dispatcher picks is the abstract scheduler's best ready task.
LEMMA PicksTop ==
    ASSUME NEW rl, Ready(rl) # {}
    PROVE  Promise!IsTop(highest_prio(rl), Ready(rl))
  BY HighestIsLeast DEF Promise!IsTop

\* The running task is one of the set or the idle task, and it is ready.
LEMMA RunnerIsReady ==
    ASSUME IInv, cur_tcb # NULL
    PROVE  cur_tcb \in Live \cup {IDLE_PRIO} /\ cur_tcb \in Ready(run_list)
  BY DEF IInv, TypeOK, SchedTypeOK, ReadyInv, Ready, Tcb

\* Running at top priority is being in a critical section.
LEMMA TopPrioIsSection ==
    ASSUME IInv
    PROVE  /\ Promise!InSection <=> cur_tcb # NULL /\ Held(cur_tcb) # {}
           /\ cur_tcb # NULL => (Promise!InSection <=> cur_prio[cur_tcb] = TOP_PRIO)
<1>1. Promise!InSection <=> cur_tcb # NULL /\ Held(cur_tcb) # {}
  BY DEF Promise!InSection, Promise!MutexId, MutexId, Held
<1>2. ASSUME cur_tcb # NULL
      PROVE  Held(cur_tcb) # {} <=> cur_prio[cur_tcb] = TOP_PRIO
  <2>1. CASE cur_tcb \in Live
    <3>1. holds_lock[cur_tcb] = 0 <=> Held(cur_tcb) = {}
      BY <2>1, HeldFinite, FS_EmptySet DEF IInv, LockInv, HoldsLockCounts
    <3>2. cur_prio[cur_tcb] = PrioHolding(cur_tcb, holds_lock[cur_tcb])
      BY <1>2, <2>1 DEF IInv, PrioInv
    <3>3. cur_tcb # TOP_PRIO
      BY <2>1, LiveRange DEF IInv
    <3> QED
      BY <3>1, <3>2, <3>3 DEF PrioHolding, native_prio
  <2>2. CASE cur_tcb = IDLE_PRIO
    <3>1. cur_prio[cur_tcb] = IDLE_PRIO
      BY <1>2, <2>2 DEF IInv, PrioInv, PrioHolding, native_prio
    <3>2. Held(cur_tcb) = {}
      BY <1>2, <2>2, LiveRange DEF IInv, LockInv, Held
    <3> QED
      BY <3>1, <3>2, IdlePrioAssumption DEF TOP_PRIO
  <2> QED
    BY <1>2, <2>1, <2>2, RunnerIsReady
<1> QED
  BY <1>1, <1>2

-----------------------------------------------------------------------------
LEMMA InitRefines == Init => Promise!Init
<1> SUFFICES ASSUME Init PROVE Promise!Init
  OBVIOUS
<1>1. \A d \in Device : Sleepers(d) = {}
  BY NoSleepers DEF Init, dev_init
<1>2. Ready(run_list) = {}
  BY DEF Init, SchedInit, Ready
<1> QED
  BY <1>1, <1>2 DEF Promise!Init, Promise!MutexId, Init, SchedInit, mutex_init, MutexId

LEMMA TaskCreateRefines ==
    ASSUME IInv, IInv', Quiescent, NEW n \in 0..(IDLE_PRIO - 1), task_create(n)
    PROVE  Promise!NewTaskSet(n)
<1>1. \A d \in Device : Sleepers(d) = {}
  BY NoSleepers DEF Quiescent
<1>2. \A d \in Device : Sleepers(d)' = {}
  <2>1. dev_queue' = dev_queue
    BY DEF task_create, dev_vars
  <2> QED
    BY <2>1, ReachEmpty, NullAssumption DEF Quiescent, Sleepers, OnList, Tcb, Prio
<1>3. \A m \in MutexId : pHolding_Tcb[m] = NULL
  BY DEF Quiescent, IInv, LockInv
<1>4. Ready(run_list') = (1..n) \cup {IDLE_PRIO}
  <2>1. \A p \in Prio : run_list'[p] = IF p \in NewSet(n) THEN p ELSE NULL
    BY DEF task_create, allocate_tasks
  <2>2. NewSet(n) \in SUBSET Prio /\ NULL \notin Prio
    BY IdlePrioAssumption, NullAssumption DEF NewSet, Prio
  <2>3. NewSet(n) = (1..n) \cup {IDLE_PRIO}
    BY DEF NewSet
  <2> QED
    BY <2>1, <2>2, <2>3 DEF Ready
<1>5. Promise!IsTop(cur_tcb', Ready(run_list'))
  <2>1. cur_tcb' = highest_prio(run_list')
    BY DEF task_create, allocate_tasks
  <2> QED
    BY <1>4, <2>1, PicksTop
<1>6. cur_tcb # IDLE_PRIO /\ UNCHANGED <<pHolding_Tcb, mutexExist>>
  BY DEF task_create, InUser, mutex_vars
<1>7. Ready(run_list)' = Ready(run_list')
  BY DEF Ready
<1> QED
  BY <1>1, <1>2, <1>3, <1>4, <1>5, <1>6, <1>7 DEF Promise!NewTaskSet, Promise!MutexId, MutexId

LEMMA EventWaitRefines ==
    ASSUME IInv, IInv', NEW d \in Device, event_wait(d)
    PROVE  Promise!Wait(d)
<1>1. cur_tcb \in Live /\ cur_tcb \in Tcb /\ cur_tcb # NULL /\ cur_tcb # IDLE_PRIO
  BY CallerIsLive DEF event_wait
<1>2. ~Promise!InSection
  <2>1. Held(cur_tcb) = {}
    BY <1>1, NothingLocked DEF event_wait, Held, IInv, TypeOK, MutexTypeOK, LiveRange
  <2> QED
    BY <2>1, TopPrioIsSection
<1>3. cur_prio[cur_tcb] = cur_tcb
  BY <1>1 DEF event_wait, IInv, PrioInv, PrioHolding, native_prio
<1>4. /\ run_list' = [run_list EXCEPT ![cur_tcb] = NULL]
      /\ cur_tcb' = highest_prio(run_list')
      /\ UNCHANGED <<pHolding_Tcb, mutexExist>>
  BY <1>3 DEF event_wait, dev_wait, dispatch_sleep, mutex_vars
<1>5. Ready(run_list') = Ready(run_list) \ {cur_tcb}
  BY <1>1, <1>4 DEF Ready, IInv, TypeOK, SchedTypeOK, Tcb
<1>6. Promise!IsTop(cur_tcb', Ready(run_list'))
  <2>1. IDLE_PRIO \in Ready(run_list')
    BY <1>1, <1>5, LiveRange DEF IInv, ReadyInv, Ready, Tcb
  <2> QED
    BY <1>4, <2>1, PicksTop
<1>7. [e \in Device |-> Sleepers(e)]' =
        [[e \in Device |-> Sleepers(e)] EXCEPT ![d] = @ \cup {cur_tcb}]
  BY EventWaitLists
<1>8. Ready(run_list)' = Ready(run_list')
  BY DEF Ready
<1> QED
  BY <1>1, <1>2, <1>4, <1>5, <1>6, <1>7, <1>8 DEF Promise!Wait, Promise!IsTask

LEMMA CreateRefines ==
    ASSUME IInv, CreateMutex
    PROVE  Promise!Create
<1>1. UNCHANGED <<run_list, cur_tcb, sleep_queue, dev_queue, pHolding_Tcb>>
  BY DEF CreateMutex, mutex_create, sched_vars, dev_vars, lock_vars
<1>2. Ready(run_list)' = Ready(run_list)
      /\ [d \in Device |-> Sleepers(d)]' = [d \in Device |-> Sleepers(d)]
  BY <1>1 DEF Ready, Sleepers, OnList, Reach
<1> QED
  BY <1>1, <1>2 DEF Promise!Create, CreateMutex, mutex_create, InUser

LEMMA LockRefines ==
    ASSUME IInv, NEW m \in MutexId, LockMutex(m)
    PROVE  Promise!Lock(m)
<1>1. pHolding_Tcb[m] = NULL /\ lock_free(m)
  BY LockIsFree
<1>2. UNCHANGED <<run_list, cur_tcb, sleep_queue, dev_queue, mutexExist>>
  BY <1>1 DEF LockMutex, lock_free, dev_vars
<1>3. Ready(run_list)' = Ready(run_list)
      /\ [d \in Device |-> Sleepers(d)]' = [d \in Device |-> Sleepers(d)]
  BY <1>2 DEF Ready, Sleepers, OnList, Reach
<1>4. 0 < m /\ m < mutexExist /\ cur_tcb # NULL /\ cur_tcb # IDLE_PRIO
  BY DEF LockMutex, mutex_lock, mutex_lock_result, ValidMutex, bAvailable, InTask, InUser
<1>5. pHolding_Tcb' = [pHolding_Tcb EXCEPT ![m] = cur_tcb]
  BY <1>1 DEF lock_free
<1> QED
  BY <1>1, <1>2, <1>3, <1>4, <1>5 DEF Promise!Lock, Promise!IsTask

LEMMA UnlockRefines ==
    ASSUME IInv, NEW m \in MutexId, UnlockMutex(m)
    PROVE  Promise!Unlock(m)
<1>1. pHolding_Tcb[m] = cur_tcb /\ pSleep_queue[m] = NULL
  BY DEF UnlockMutex, mutex_unlock, mutex_unlock_result, IInv, LockInv
<1>2. /\ UNCHANGED <<run_list, cur_tcb, sleep_queue, dev_queue, mutexExist>>
      /\ pHolding_Tcb' = [pHolding_Tcb EXCEPT ![m] = NULL]
  BY <1>1 DEF UnlockMutex, mutex_unlock, dev_vars
<1>3. Ready(run_list)' = Ready(run_list)
      /\ [d \in Device |-> Sleepers(d)]' = [d \in Device |-> Sleepers(d)]
  BY <1>2 DEF Ready, Sleepers, OnList, Reach
<1> QED
  BY <1>1, <1>2, <1>3 DEF Promise!Unlock, Promise!IsTask, UnlockMutex, InTask, InUser

LEMMA IrqRefines ==
    ASSUME IInv, IInv', Irq
    PROVE  Promise!Signal(IrqDue)
<1>1. IrqWoken = UNION {[d \in Device |-> Sleepers(d)][e] : e \in IrqDue}
  BY DEF IrqWoken, Woken, IrqDue
<1>2. Ready(run_list)' = Ready(run_list) \cup IrqWoken
  BY IrqLists, LiveRange DEF Ready, IInv, Asleep, Tcb
<1>3. [d \in Device |-> Sleepers(d)]' =
        [d \in Device |-> IF d \in IrqDue THEN {} ELSE [e \in Device |-> Sleepers(e)][d]]
  BY IrqLists
<1>4. UNCHANGED <<pHolding_Tcb, mutexExist, cur_prio>>
  BY DEF Irq, irq_handler, dev_update, mutex_vars
<1>5. IF IrqWoken = {} \/ Promise!InSection
        THEN UNCHANGED cur_tcb
        ELSE Promise!IsTop(cur_tcb', Ready(run_list)')
  <2>1. IF IrqWoken = {} THEN UNCHANGED <<cur_tcb, fault>> ELSE dispatch_save(run_list')
    BY DEF Irq, irq_handler, dev_update, IrqDue, IrqWoken
  <2>2. CASE IrqWoken = {}
    BY <2>1, <2>2
  <2>3. CASE IrqWoken # {} /\ Promise!InSection
    BY <2>3, IrqDispatch, TopPrioIsSection
  <2>4. CASE IrqWoken # {} /\ ~Promise!InSection
    <3>1. cur_tcb # NULL
      BY <2>4, IrqLists, AsleepHoldsNothing
    <3>2. cur_tcb \in Ready(run_list)' /\ cur_tcb \in Live \cup {IDLE_PRIO}
      BY <1>2, <3>1, RunnerIsReady
    <3>3. Ready(run_list)' = Ready(run_list') /\ Ready(run_list') # {}
      BY <3>2 DEF Ready
    <3>4. cur_prio[cur_tcb] = cur_tcb
      BY <2>4, <3>1, <3>2, TopPrioIsSection DEF IInv, PrioInv, PrioHolding, native_prio
    <3>5. CASE KeepsRunning(run_list')
      <4>1. cur_tcb <= highest_prio(run_list') /\ cur_tcb' = cur_tcb
        BY <2>1, <2>4, <3>4, <3>5 DEF KeepsRunning, dispatch_save
      <4>2. \A q \in Ready(run_list') : highest_prio(run_list') <= q
        BY <3>3, HighestIsLeast
      <4>3. highest_prio(run_list') \in Nat /\ cur_tcb \in Nat /\ Ready(run_list') \subseteq Nat
        BY <3>2, <3>3, HighestIsLeast, IdlePrioAssumption DEF Prio, Ready
      <4>4. \A q \in Ready(run_list') : cur_tcb <= q
        BY <4>1, <4>2, <4>3
      <4> QED
        BY <3>2, <3>3, <4>1, <4>4 DEF Promise!IsTop
    <3>6. CASE ~KeepsRunning(run_list')
      BY <2>1, <2>4, <3>3, <3>6, PicksTop DEF dispatch_save
    <3> QED
      BY <3>5, <3>6
  <2> QED
    BY <2>2, <2>3, <2>4
<1> QED
  BY <1>1, <1>2, <1>3, <1>4, <1>5 DEF Promise!Signal
LEMMA StepRefines ==
    ASSUME IInv, IInv', [OrderlyNext]_vars
    PROVE  [Promise!Next]_absVars
<1>1. CASE \E n \in 0..(IDLE_PRIO - 1) : Quiescent /\ task_create(n)
  BY <1>1, TaskCreateRefines DEF Promise!Next
<1>2. CASE \E d \in Device : event_wait(d)
  BY <1>2, EventWaitRefines DEF Promise!Next
<1>3. CASE CreateMutex
  BY <1>3, CreateRefines DEF Promise!Next
<1>4. CASE \E m \in MutexId : LockMutex(m) \/ UnlockMutex(m)
  BY <1>4, LockRefines, UnlockRefines DEF Promise!Next, Promise!MutexId, MutexId
<1>5. CASE Irq
  <2>1. IrqDue \in SUBSET Device
    BY DEF IrqDue
  <2> QED
    BY <1>5, <2>1, IrqRefines DEF Promise!Next
<1>6. CASE UNCHANGED vars
  BY <1>6 DEF vars, sched_vars, dev_vars, mutex_vars, absVars, Ready, Sleepers, OnList, Reach
<1> QED
  BY <1>1, <1>2, <1>3, <1>4, <1>5, <1>6 DEF OrderlyNext

\* The kernel, used in an orderly way, is a highest-locker-protocol scheduler:
\* its run queue, lists, saved priorities and lock counts never show.
THEOREM PromiseKept == OrderlySpec => KeepsPromise
<1>1. Init => Promise!Init
  BY InitRefines
<1>2. IInv /\ IInv' /\ [OrderlyNext]_vars => [Promise!Next]_absVars
  BY StepRefines
<1> QED
  BY <1>1, <1>2, Invariance, PTL DEF OrderlySpec, KeepsPromise, Promise!Spec, absVars

-----------------------------------------------------------------------------
(* Any sequence of system calls: task_create over sleeping tasks and held  *)
(* mutexes included.                                                       *)

\* A block runs at its own priority or, holding a mutex, at the top.
OwnPrio == \A t \in Tcb : cur_prio[t] \in {TOP_PRIO, t}

\* Slots as SlotsAreTheirTasks wants them, whether or not the kernel went wild.
SlotInv ==
    /\ \A p \in Prio \ {TOP_PRIO} : run_list[p] \in {p, NULL}
    /\ cur_tcb # NULL => run_list[IDLE_PRIO] = IDLE_PRIO

\* Only a task waits for a device.
MainDoesNotWait == cur_tcb = NULL => \A d \in Device : dev_queue[d] = NULL

AnyUseInv == TypeOK /\ OwnPrio /\ SlotInv /\ MainDoesNotWait /\ LockedIffHeld

LEMMA Ranges ==
    /\ Tcb = Prio /\ IDLE_PRIO \in Prio /\ TOP_PRIO \in Prio /\ IDLE_PRIO # TOP_PRIO
    /\ Prio \subseteq Nat /\ NULL \notin Prio
  BY IdlePrioAssumption, NullAssumption DEF Tcb, Prio, TOP_PRIO

\* Whatever is ready, the dispatcher picks a priority.
LEMMA HighestIsPrio == \A rl : highest_prio(rl) \in Prio
<1> TAKE rl
<1>1. CASE Ready(rl) = {}
  BY <1>1, Ranges DEF highest_prio
<1>2. CASE Ready(rl) # {}
  BY <1>2, HighestIsLeast
<1> QED
  BY <1>1, <1>2

LEMMA InitAnyUse == Init => AnyUseInv
<1> SUFFICES ASSUME Init PROVE AnyUseInv
  OBVIOUS
<1>1. TypeOK
  BY InitIInv DEF IInv
<1>2. OwnPrio /\ SlotInv /\ MainDoesNotWait
  BY Ranges DEF OwnPrio, SlotInv, MainDoesNotWait, Init, SchedInit, dev_init, TOP_PRIO
<1>3. LockedIffHeld
  BY DEF LockedIffHeld, Init, mutex_init
<1> QED
  BY <1>1, <1>2, <1>3 DEF AnyUseInv

-----------------------------------------------------------------------------
(* One lemma per action.                                                   *)

\* A new task set fills its own slots; mutexes and device lists stay as they are.
LEMMA TaskCreateAnyUse ==
    ASSUME AnyUseInv, NEW n \in 0..(IDLE_PRIO - 1), task_create(n)
    PROVE  AnyUseInv'
<1> USE Ranges DEF AnyUseInv
<1> DEFINE new == (1..n) \cup {IDLE_PRIO}
<1>1. new \in SUBSET Prio /\ IDLE_PRIO \in new
  BY IdlePrioAssumption DEF Prio
<1>2. /\ run_list' = [p \in Prio |-> IF p \in new THEN p ELSE NULL]
      /\ cur_prio' = [t \in Tcb |-> IF t \in new THEN t ELSE cur_prio[t]]
      /\ holds_lock' = [t \in Tcb |-> IF t \in new THEN 0 ELSE holds_lock[t]]
      /\ sleep_queue' = [t \in Tcb |-> IF t \in new THEN NULL ELSE sleep_queue[t]]
      /\ num_tasks' = n /\ fault' = fault
      /\ UNCHANGED <<dev_vars, mutex_vars>>
  BY DEF task_create, allocate_tasks, NewSet
<1>3. cur_tcb' \in Prio
  BY HighestIsPrio DEF task_create, allocate_tasks
<1> HIDE DEF new
<1>4. SchedTypeOK'
  BY <1>1, <1>2, <1>3 DEF TypeOK, SchedTypeOK
<1>5. DeviceTypeOK' /\ MutexTypeOK' /\ LockedIffHeld'
  BY <1>2 DEF TypeOK, DeviceTypeOK, MutexTypeOK, LockedIffHeld, dev_vars, mutex_vars
<1>6. OwnPrio' /\ SlotInv' /\ MainDoesNotWait'
  BY <1>1, <1>2, <1>3 DEF OwnPrio, SlotInv, MainDoesNotWait
<1> QED
  BY <1>4, <1>5, <1>6 DEF TypeOK

\* dispatch_sleep empties one slot, which is not that of the idle task.
LEMMA SleepKeepsSlots ==
    ASSUME AnyUseInv, InTask, dispatch_sleep
    PROVE  /\ run_list' \in [Prio -> Tcb \cup {NULL}]
           /\ cur_tcb' \in Prio /\ fault' \in BOOLEAN
           /\ SlotInv'
<1> USE Ranges DEF AnyUseInv
<1>1. cur_tcb \in Tcb /\ cur_tcb # IDLE_PRIO
  BY DEF InTask, InUser, TypeOK, SchedTypeOK
<1>2. cur_prio[cur_tcb] # IDLE_PRIO
  BY <1>1 DEF OwnPrio
<1>3. run_list' = [run_list EXCEPT ![cur_prio[cur_tcb]] = NULL]
  BY DEF dispatch_sleep
<1>4. cur_tcb' \in Prio /\ fault' \in BOOLEAN
  BY HighestIsPrio DEF dispatch_sleep, NoContext
<1>5. run_list \in [Prio -> Tcb \cup {NULL}]
  BY DEF TypeOK, SchedTypeOK
<1> QED
  BY <1>1, <1>2, <1>3, <1>4, <1>5 DEF SlotInv

LEMMA EventWaitAnyUse ==
    ASSUME AnyUseInv, NEW d \in Device, event_wait(d)
    PROVE  AnyUseInv'
<1> USE Ranges DEF AnyUseInv
<1>1. InTask /\ dispatch_sleep
  BY DEF event_wait, dev_wait
<1>2. /\ run_list' \in [Prio -> Tcb \cup {NULL}]
      /\ cur_tcb' \in Prio /\ fault' \in BOOLEAN /\ SlotInv'
  BY <1>1, SleepKeepsSlots
<1>3. /\ sleep_queue' = [sleep_queue EXCEPT ![cur_tcb] = dev_queue[d]]
      /\ dev_queue' = [dev_queue EXCEPT ![d] = cur_tcb]
      /\ UNCHANGED <<cur_prio, holds_lock, num_tasks, timer, next_match, mutex_vars>>
  BY DEF event_wait, dev_wait
<1>4. cur_tcb \in Tcb
  BY <1>1 DEF InTask, TypeOK, SchedTypeOK
<1>5. SchedTypeOK' /\ DeviceTypeOK'
  BY <1>2, <1>3, <1>4 DEF TypeOK, SchedTypeOK, DeviceTypeOK
<1>6. MutexTypeOK' /\ LockedIffHeld' /\ OwnPrio' /\ MainDoesNotWait'
  BY <1>2, <1>3 DEF TypeOK, MutexTypeOK, LockedIffHeld, OwnPrio, MainDoesNotWait, mutex_vars
<1> QED
  BY <1>2, <1>5, <1>6 DEF TypeOK

LEMMA CreateMutexAnyUse ==
    ASSUME AnyUseInv, CreateMutex
    PROVE  AnyUseInv'
<1> USE DEF AnyUseInv, CreateMutex, mutex_create, lock_vars, dev_vars, sched_vars
<1>1. SchedTypeOK' /\ DeviceTypeOK'
  BY DEF TypeOK, SchedTypeOK, DeviceTypeOK
<1>2. MutexTypeOK'
  BY NumMutexAssumption DEF TypeOK, MutexTypeOK
<1>3. OwnPrio' /\ SlotInv' /\ MainDoesNotWait' /\ LockedIffHeld'
  BY DEF OwnPrio, SlotInv, MainDoesNotWait, LockedIffHeld
<1> QED
  BY <1>1, <1>2, <1>3 DEF TypeOK

\* Free or held, walked to its tail or not: a held mutex stays held by its holder.
LEMMA LockMutexAnyUse ==
    ASSUME AnyUseInv, NEW m \in MutexId, LockMutex(m)
    PROVE  AnyUseInv'
<1> USE Ranges DEF AnyUseInv
<1>1. InTask /\ mutex_lock(m) /\ UNCHANGED dev_vars
  BY DEF LockMutex
<1>2. cur_tcb \in Tcb /\ cur_tcb # NULL
  BY <1>1 DEF InTask, TypeOK, SchedTypeOK
<1>3. DeviceTypeOK'
  BY <1>1 DEF TypeOK, DeviceTypeOK, dev_vars
<1>4. CASE ~bLock[m]
  <2>1. lock_free(m)
    BY <1>1, <1>4 DEF mutex_lock
  <2>2. SchedTypeOK' /\ OwnPrio'
    BY <1>2, <2>1 DEF lock_free, TypeOK, SchedTypeOK, OwnPrio, NestedHold, CeilingPrio
  <2>3. MutexTypeOK' /\ LockedIffHeld'
    BY <1>2, <2>1 DEF lock_free, TypeOK, MutexTypeOK, LockedIffHeld
  <2>4. SlotInv' /\ MainDoesNotWait'
    BY <1>1, <2>1 DEF lock_free, SlotInv, MainDoesNotWait, dev_vars
  <2> QED
    BY <1>3, <2>2, <2>3, <2>4 DEF TypeOK
<1>5. CASE bLock[m]
  <2> DEFINE tails == {t \in OnList(pSleep_queue[m]) : sleep_queue[t] = NULL}
  <2>1. lock_wait(m)
    BY <1>1, <1>5 DEF mutex_lock
  <2>2. CASE pSleep_queue[m] # NULL /\ tails = {}
    <3>1. fault' = TRUE /\ UNCHANGED <<run_list, cur_tcb, cur_prio, holds_lock, sleep_queue,
                                       num_tasks, mutex_vars>>
      BY <2>1, <2>2 DEF lock_wait, Fault
    <3>2. SchedTypeOK' /\ MutexTypeOK' /\ OwnPrio'
      BY <3>1 DEF TypeOK, SchedTypeOK, MutexTypeOK, OwnPrio, mutex_vars
    <3>3. SlotInv' /\ MainDoesNotWait' /\ LockedIffHeld'
      BY <1>1, <3>1 DEF SlotInv, MainDoesNotWait, LockedIffHeld, mutex_vars, dev_vars
    <3> QED
      BY <1>3, <3>2, <3>3 DEF TypeOK
  <2>3. CASE ~(pSleep_queue[m] # NULL /\ tails = {})
    <3>1. /\ dispatch_sleep
          /\ UNCHANGED <<cur_prio, holds_lock, num_tasks, mutexExist, pHolding_Tcb, bLock>>
          /\ \/ /\ pSleep_queue' = [pSleep_queue EXCEPT ![m] = cur_tcb]
                /\ sleep_queue' = sleep_queue
             \/ /\ pSleep_queue' = pSleep_queue
                /\ \E tail \in tails : sleep_queue' = [sleep_queue EXCEPT ![tail] = cur_tcb]
      BY <2>1, <2>3 DEF lock_wait
    <3>2. /\ run_list' \in [Prio -> Tcb \cup {NULL}]
          /\ cur_tcb' \in Prio /\ fault' \in BOOLEAN /\ SlotInv'
      BY <1>1, <3>1, SleepKeepsSlots
    <3>3. sleep_queue' \in [Tcb -> Tcb \cup {NULL}]
      BY <1>2, <3>1 DEF TypeOK, SchedTypeOK
    <3>4. SchedTypeOK' /\ OwnPrio'
      BY <3>1, <3>2, <3>3 DEF TypeOK, SchedTypeOK, OwnPrio
    <3>5. MutexTypeOK' /\ LockedIffHeld'
      BY <1>2, <1>5, <3>1 DEF TypeOK, MutexTypeOK, LockedIffHeld
    <3>6. MainDoesNotWait'
      BY <1>1, <3>2 DEF MainDoesNotWait
    <3> QED
      BY <1>3, <3>2, <3>4, <3>5, <3>6 DEF TypeOK
  <2> QED
    BY <2>2, <2>3
<1> QED
  BY <1>4, <1>5

\* The heir, a task by the type of the list, takes the slot of its own priority.
LEMMA UnlockMutexAnyUse ==
    ASSUME AnyUseInv, NEW m \in MutexId, UnlockMutex(m)
    PROVE  AnyUseInv'
<1> USE Ranges DEF AnyUseInv
<1> DEFINE heir == pSleep_queue[m]
<1>1. InTask /\ mutex_unlock(m) /\ UNCHANGED dev_vars
  BY DEF UnlockMutex
<1>2. cur_tcb \in Tcb /\ cur_tcb # NULL /\ heir \in Tcb \cup {NULL}
  BY <1>1 DEF InTask, TypeOK, SchedTypeOK, MutexTypeOK
<1>3. /\ pHolding_Tcb' = [pHolding_Tcb EXCEPT ![m] = heir]
      /\ bLock' = [bLock EXCEPT ![m] = (heir # NULL)]
      /\ holds_lock' = [holds_lock EXCEPT ![cur_tcb] = @ - 1]
      /\ cur_prio' = [cur_prio EXCEPT ![cur_tcb] = PrioHolding(cur_tcb, holds_lock'[cur_tcb])]
      /\ UNCHANGED <<cur_tcb, num_tasks, fault, mutexExist>>
  BY <1>1 DEF mutex_unlock, StaysLocked
<1>4. \/ heir = NULL /\ UNCHANGED <<pSleep_queue, sleep_queue, run_list>>
      \/ /\ heir \in Tcb
         /\ pSleep_queue' = [pSleep_queue EXCEPT ![m] = sleep_queue[heir]]
         /\ sleep_queue' = [sleep_queue EXCEPT ![heir] = NULL]
         /\ run_list' = [run_list EXCEPT ![cur_prio[heir]] = heir]
  BY <1>1, <1>2 DEF mutex_unlock
<1>5. PrioHolding(cur_tcb, holds_lock'[cur_tcb]) \in {TOP_PRIO, cur_tcb}
  BY DEF PrioHolding, native_prio
<1> HIDE DEF heir
<1>6. OwnPrio'
  BY <1>2, <1>3, <1>5 DEF TypeOK, SchedTypeOK, OwnPrio
<1>7. SchedTypeOK'
  BY <1>2, <1>3, <1>4, <1>5 DEF TypeOK, SchedTypeOK
<1>8. DeviceTypeOK' /\ MainDoesNotWait'
  BY <1>1, <1>3 DEF TypeOK, DeviceTypeOK, MainDoesNotWait, dev_vars
<1>9. MutexTypeOK'
  BY <1>2, <1>3, <1>4 DEF TypeOK, SchedTypeOK, MutexTypeOK
<1>10. LockedIffHeld'
  <2>1. pHolding_Tcb'[m] = heir /\ bLock'[m] = (heir # NULL)
    BY <1>3 DEF TypeOK, MutexTypeOK
  <2>2. pSleep_queue'[m] # NULL => heir # NULL
    BY <1>4 DEF heir
  <2>3. \A k \in MutexId \ {m} : /\ pHolding_Tcb'[k] = pHolding_Tcb[k] /\ bLock'[k] = bLock[k]
                                /\ pSleep_queue'[k] = pSleep_queue[k]
    BY <1>3, <1>4 DEF TypeOK, MutexTypeOK
  <2> QED
    BY <2>1, <2>2, <2>3 DEF LockedIffHeld
<1>11. SlotInv'
  <2>1. CASE UNCHANGED run_list
    BY <1>3, <2>1 DEF SlotInv
  <2>2. CASE heir \in Tcb /\ run_list' = [run_list EXCEPT ![cur_prio[heir]] = heir]
    <3>1. cur_prio[heir] \in {TOP_PRIO, heir}
      BY <2>2 DEF OwnPrio
    <3> QED
      BY <1>3, <2>2, <3>1 DEF SlotInv, TypeOK, SchedTypeOK
  <2> QED
    BY <1>4, <2>1, <2>2
<1> QED
  BY <1>6, <1>7, <1>8, <1>9, <1>10, <1>11 DEF TypeOK

\* What a tick wakes goes to slots of its own or to the top one.
LEMMA IrqAnyUse ==
    ASSUME AnyUseInv, Irq
    PROVE  AnyUseInv'
<1> USE Ranges DEF AnyUseInv
<1> DEFINE now == (timer' * OS_TIMER_RESOLUTION) % WORD
           due == {d \in Device : Due(d, now)}
           woken == Woken(due)
           prios == {cur_prio[t] : t \in woken}
<1>1. /\ timer' = (timer + 1) % WORD
      /\ next_match' = [d \in Device |->
             IF d \in due THEN (now + dev_freq[d]) % WORD ELSE next_match[d]]
      /\ dev_queue' = [d \in Device |-> IF d \in due THEN NULL ELSE dev_queue[d]]
      /\ sleep_queue' = [t \in Tcb |-> IF t \in woken THEN NULL ELSE sleep_queue[t]]
      /\ run_list' \in Requeued(woken)
      /\ IF woken = {} THEN UNCHANGED <<cur_tcb, fault>> ELSE dispatch_save(run_list')
      /\ UNCHANGED <<cur_prio, holds_lock, num_tasks, mutex_vars>>
  BY DEF Irq, irq_handler, timer_handler, dev_update, get_millis
<1>2. woken \in SUBSET Tcb /\ due \in SUBSET Device
  BY DEF Woken, Sleepers, OnList, Reach
<1>3. DeviceTypeOK'
  <2>1. timer' \in Millis
    BY <1>1, WordAssumption DEF TypeOK, DeviceTypeOK, Millis
  <2>2. now \in Millis
    <3> DEFINE passed == timer' * OS_TIMER_RESOLUTION
    <3>1. timer' \in Nat
      BY <2>1, WordAssumption DEF Millis
    <3>2. passed \in Nat
      <4>1. \A a, b \in Nat : a * b \in Nat
        OBVIOUS
      <4> QED
        BY <3>1, <4>1, TickAssumption
    <3> HIDE DEF passed
    <3>3. passed % WORD \in Millis
      BY <3>2, WordAssumption DEF Millis
    <3> QED
      BY <3>3 DEF passed
  <2> HIDE DEF now
  <2>3. \A d \in Device : (now + dev_freq[d]) % WORD \in Millis
    BY <2>2, WordAssumption, FreqAssumption DEF Millis
  <2> HIDE DEF due
  <2> QED
    BY <1>1, <2>1, <2>3 DEF TypeOK, DeviceTypeOK
<1>4. MutexTypeOK' /\ LockedIffHeld' /\ OwnPrio'
  BY <1>1 DEF TypeOK, MutexTypeOK, LockedIffHeld, OwnPrio, mutex_vars
<1> HIDE DEF now, due, woken
<1>5. PICK last \in [prios -> woken] :
          /\ \A p \in prios : cur_prio[last[p]] = p
          /\ run_list' = [p \in Prio |-> IF p \in prios THEN last[p] ELSE run_list[p]]
  BY <1>1 DEF Requeued
<1>6. \A p \in prios : last[p] \in Tcb /\ cur_prio[last[p]] \in {TOP_PRIO, last[p]}
  BY <1>2, <1>5 DEF OwnPrio
<1>7. \A p \in prios : last[p] \in Tcb /\ (p # TOP_PRIO => last[p] = p)
  BY <1>5, <1>6
<1> HIDE DEF prios
<1>8. run_list' \in [Prio -> Tcb \cup {NULL}]
  BY <1>5, <1>7 DEF TypeOK, SchedTypeOK
<1>9. \A p \in Prio \ {TOP_PRIO} : run_list'[p] \in {p, NULL} /\ (run_list[p] = p => run_list'[p] = p)
  BY <1>5, <1>7 DEF SlotInv
<1>10. cur_tcb' \in Tcb \cup {NULL} /\ fault' \in BOOLEAN
  <2>1. cur_tcb \in Tcb \cup {NULL} /\ fault \in BOOLEAN
    BY DEF TypeOK, SchedTypeOK
  <2>2. highest_prio(run_list') \in Tcb
    BY HighestIsPrio
  <2>3. CASE cur_tcb' = cur_tcb /\ fault' = fault
    BY <2>1, <2>3
  <2>4. CASE cur_tcb' = highest_prio(run_list') /\ fault' = (cur_tcb' = TOP_PRIO)
    BY <2>2, <2>4
  <2> QED
    BY <1>1, <2>3, <2>4 DEF dispatch_save, NoContext
<1>11. SchedTypeOK'
  BY <1>1, <1>8, <1>10 DEF TypeOK, SchedTypeOK
<1>12. cur_tcb = NULL => woken = {} /\ cur_tcb' = NULL /\ \A d \in Device : dev_queue'[d] = NULL
  <2> SUFFICES ASSUME cur_tcb = NULL
               PROVE  woken = {} /\ cur_tcb' = NULL /\ \A d \in Device : dev_queue'[d] = NULL
    OBVIOUS
  <2>1. \A d \in Device : dev_queue[d] = NULL
    BY DEF MainDoesNotWait
  <2>2. \A d \in due : Sleepers(d) = {}
    BY <1>2, <2>1, ReachEmpty DEF Sleepers, OnList
  <2>3. woken = {}
    BY <2>2 DEF woken, Woken
  <2> QED
    BY <1>1, <2>1, <2>3
<1>13. cur_tcb # NULL => cur_tcb' # NULL
  BY <1>1, HighestIsPrio DEF dispatch_save
<1>14. SlotInv' /\ MainDoesNotWait'
  BY <1>9, <1>12, <1>13 DEF SlotInv, MainDoesNotWait
<1> QED
  BY <1>3, <1>4, <1>11, <1>14 DEF TypeOK

\* A call through the null control block only sets fault.
LEMMA CallFromMainAnyUse ==
    ASSUME AnyUseInv, CallFromMain
    PROVE  AnyUseInv'
<1> USE DEF AnyUseInv, CallFromMain, Fault, dev_vars, mutex_vars
<1>1. SchedTypeOK' /\ DeviceTypeOK' /\ MutexTypeOK'
  BY DEF TypeOK, SchedTypeOK, DeviceTypeOK, MutexTypeOK
<1>2. OwnPrio' /\ SlotInv' /\ MainDoesNotWait' /\ LockedIffHeld'
  BY DEF OwnPrio, SlotInv, MainDoesNotWait, LockedIffHeld
<1> QED
  BY <1>1, <1>2 DEF TypeOK

LEMMA StepAnyUse == AnyUseInv /\ [Next]_vars => AnyUseInv'
<1> SUFFICES ASSUME AnyUseInv, [Next]_vars PROVE AnyUseInv'
  OBVIOUS
<1>1. ASSUME NEW n \in 0..(IDLE_PRIO - 1), task_create(n) PROVE AnyUseInv'
  BY <1>1, TaskCreateAnyUse
<1>2. CASE CallFromMain
  BY <1>2, CallFromMainAnyUse
<1>3. CASE OrderlyNext
  BY <1>1, <1>3, EventWaitAnyUse, CreateMutexAnyUse, LockMutexAnyUse, UnlockMutexAnyUse,
     IrqAnyUse DEF OrderlyNext
<1>4. CASE UNCHANGED vars
  <2> USE <1>4 DEF vars, sched_vars, dev_vars, mutex_vars, AnyUseInv
  <2>1. SchedTypeOK' /\ DeviceTypeOK' /\ MutexTypeOK'
    BY DEF TypeOK, SchedTypeOK, DeviceTypeOK, MutexTypeOK
  <2>2. OwnPrio' /\ SlotInv' /\ MainDoesNotWait' /\ LockedIffHeld'
    BY DEF OwnPrio, SlotInv, MainDoesNotWait, LockedIffHeld
  <2> QED
    BY <2>1, <2>2 DEF TypeOK
<1> QED
  BY <1>1, <1>2, <1>3, <1>4 DEF Next

LEMMA AnyUseInvariance == Spec => []AnyUseInv
  BY InitAnyUse, StepAnyUse, PTL DEF Spec

-----------------------------------------------------------------------------
\* Whatever the programs call and in whatever order, a slot of the run queue holds
\* its own task or nothing, so that switching to system_tcb[prio] is switching to
\* what was enqueued (ctx_switch.c:50-54, 84-88), and the idle task is always there to
\* switch to (ctx_switch.c:62).
THEOREM SlotsKept == Spec => []SlotsAreTheirTasks
<1>1. AnyUseInv => SlotsAreTheirTasks
  BY DEF AnyUseInv, SlotInv, SlotsAreTheirTasks
<1> QED
  BY <1>1, AnyUseInvariance, PTL

\* A mutex is locked exactly while some block holds it, even over a task_create that
\* forgot the count of its holder (mutex.c:61-67, 100-116; sched.c:45-63).
THEOREM LocksKept == Spec => []LockedIffHeld
<1>1. AnyUseInv => LockedIffHeld
  BY DEF AnyUseInv
<1> QED
  BY <1>1, AnyUseInvariance, PTL

-----------------------------------------------------------------------------
(* The periods of the devices.  Only the timer interrupt moves the clock   *)
(* and the next matches, so any use of the calls will do.                  *)

\* Since its last signal a device has let whole ticks pass, fewer than its period.
ClockInv ==
    /\ timer \in Millis
    /\ next_match \in [Device -> Millis]
    /\ \A d \in Device :
           /\ SinceSignal(d) < dev_freq[d]
           /\ \E k \in Nat : SinceSignal(d) = k * OS_TIMER_RESOLUTION

\* Every period is a whole number of ticks, at least one.
PeriodsAreTicks ==
    /\ OS_TIMER_RESOLUTION > 0
    /\ \A d \in Device : \E n \in Nat \ {0} : dev_freq[d] = n * OS_TIMER_RESOLUTION

LEMMA ClockRanges ==
    ASSUME timer \in Nat
    PROVE  get_millis \in 0..(WORD - 1)
<1> DEFINE x == timer * OS_TIMER_RESOLUTION
<1>1. x \in Int
  BY TickAssumption
<1> HIDE DEF x
<1>2. x % WORD \in 0..(WORD - 1)
  BY <1>1, WordAssumption, Division
<1> QED BY <1>2 DEF get_millis, x

LEMMA InitClock == Init /\ PeriodsAreTicks => ClockInv
<1> SUFFICES ASSUME Init, PeriodsAreTicks PROVE ClockInv
  OBVIOUS
<1>1. timer = 0 /\ next_match = dev_freq
  BY DEF Init, dev_init
<1>2. get_millis = 0
  <2>1. 0 * OS_TIMER_RESOLUTION = 0 /\ 0 \in 0..(WORD - 1)
    BY TickAssumption, WordAssumption
  <2> QED BY <1>1, <2>1, WordAssumption, ModSmall DEF get_millis
<1>3. ASSUME NEW d \in Device
      PROVE  SinceSignal(d) = 0 /\ dev_freq[d] > 0
  <2>1. dev_freq[d] \in Int
    BY FreqAssumption DEF Millis
  <2>2. 0 - dev_freq[d] + dev_freq[d] = 0 /\ 0 \in 0..(WORD - 1)
    BY <2>1, WordAssumption
  <2>3. SinceSignal(d) = 0
    BY <1>1, <1>2, <2>2, WordAssumption, ModSmall DEF SinceSignal
  <2>4. PICK n \in Nat \ {0} : dev_freq[d] = n * OS_TIMER_RESOLUTION
    BY DEF PeriodsAreTicks
  <2>5. n * OS_TIMER_RESOLUTION > 0
    BY TickAssumption DEF PeriodsAreTicks
  <2> QED BY <2>3, <2>4, <2>5
<1>4. 0 = 0 * OS_TIMER_RESOLUTION
  BY TickAssumption
<1>5. 0 \in Millis
  BY WordAssumption DEF Millis
<1> QED BY <1>1, <1>3, <1>4, <1>5, FreqAssumption DEF ClockInv

\* One tick for one device: due exactly when the tick ends its period or the next
\* match has wrapped below the clock.
LEMMA TickOfDevice ==
    ASSUME ClockInv, PeriodsAreTicks, irq_handler, NEW d \in Device
    PROVE  /\ SinceSignal(d)' < dev_freq[d]
           /\ \E k \in Nat : SinceSignal(d)' = k * OS_TIMER_RESOLUTION
<1> DEFINE R   == OS_TIMER_RESOLUTION
           f   == dev_freq[d]
           now == get_millis
           nxt == next_match[d]
           s   == SinceSignal(d)
<1>1. /\ R \in Nat \ {0} /\ WORD \in Nat \ {0}
      /\ f \in 0..(WORD - 1) /\ nxt \in 0..(WORD - 1) /\ now \in 0..(WORD - 1)
  BY TickAssumption, WordAssumption, FreqAssumption, ClockRanges DEF ClockInv, PeriodsAreTicks, Millis
<1>2. now' = (now + R) % WORD /\ now' \in 0..(WORD - 1)
  <2>1. timer \in 0..(WORD - 1) /\ timer' = (timer + 1) % WORD
    BY DEF ClockInv, Millis, irq_handler, timer_handler
  <2>2. now' = (now + R) % WORD
    BY <1>1, <2>1, NextTick DEF get_millis
  <2>3. (now + R) \in Int
    BY <1>1
  <2> QED BY <1>1, <2>2, <2>3, Division
<1>3. nxt' = IF nxt <= now' THEN (now' + f) % WORD ELSE nxt
  BY DEF irq_handler, dev_update, Due
<1>4. s = (now - nxt + f) % WORD /\ s' = (now' - nxt' + f) % WORD
  BY DEF SinceSignal
<1>5. PICK k \in Nat, n \in Nat \ {0} : s = k * R /\ f = n * R /\ s < f
  BY DEF ClockInv, PeriodsAreTicks
<1>6. s + R = (k + 1) * R /\ s + R <= f /\ s \in Nat
  <2>1. (k + 1) * R <= n * R
    BY <1>1, <1>5, NextMultiple
  <2> QED BY <1>1, <1>5, <2>1
<1>7. (now' - nxt + f) % WORD = s + R
  <2> DEFINE x == now + R
             y == f - nxt
             z == now - nxt + f
  <2>1. x \in Int /\ y \in Int /\ z \in Int /\ R \in Int /\ z + R = x + y
    BY <1>1
  <2>2. now' = x % WORD /\ s = z % WORD
    BY <1>2, <1>4
  <2>3. now' - nxt + f = now' + y
    BY <1>1, <1>2
  <2> HIDE DEF x, y, z, s, now
  <2>4. ((x % WORD) + y) % WORD = (x + y) % WORD
    BY <1>1, <2>1, ModAdd
  <2>5. ((z % WORD) + R) % WORD = (z + R) % WORD
    BY <1>1, <2>1, ModAdd
  <2>6. (s + R) % WORD = s + R
    <3>1. s + R \in 0..(WORD - 1)
      BY <1>1, <1>6
    <3> QED BY <1>1, <3>1, ModSmall
  <2> QED BY <2>1, <2>2, <2>3, <2>4, <2>5, <2>6
<1> HIDE DEF s, now, nxt, f, R
<1>8. CASE nxt <= now'
  <2>1. s' = 0
    <3> DEFINE x == now' + f
               y == now' + f
    <3>1. x \in Int /\ y \in Int /\ y - x = 0 /\ 0 \in 0..(WORD - 1)
      BY <1>1, <1>2
    <3>2. now' - nxt' + f = y - (x % WORD)
      <4>1. nxt' = x % WORD
        BY <1>3, <1>8
      <4>2. x % WORD \in 0..(WORD - 1)
        BY <1>1, <3>1, Division
      <4> HIDE DEF x
      <4> QED BY <1>1, <1>2, <4>1, <4>2
    <3> HIDE DEF x, y
    <3>3. (y - (x % WORD)) % WORD = (y - x) % WORD
      BY <1>1, <3>1, ModSub
    <3> QED BY <1>1, <1>4, <3>1, <3>2, <3>3, ModSmall
  <2>2. 0 < f /\ 0 = 0 * R
    BY <1>1, <1>6
  <2> QED BY <2>1, <2>2 DEF s, f, R
<1>9. CASE ~(nxt <= now')
  <2>1. s' = s + R
    BY <1>3, <1>4, <1>7, <1>9
  <2>2. s + R # f
    <3> SUFFICES ASSUME s + R = f PROVE FALSE
      OBVIOUS
    <3>2. (now' - nxt + f) % WORD = f
      BY <1>7
    <3>3. PICK q \in Int : now' - nxt + f = WORD * q + f
      <4> DEFINE x == now' - nxt + f
      <4>1. x \in Int /\ x % WORD = f
        BY <1>1, <1>2, <3>2
      <4> HIDE DEF x
      <4>2. x = WORD * (x \div WORD) + f /\ x \div WORD \in Int
        BY <1>1, <4>1, Division
      <4> QED BY <4>2 DEF x
    <3>4. now' - nxt = WORD * q
      <4>1. WORD * q \in Int
        BY <1>1
      <4> QED BY <1>1, <1>2, <3>3, <4>1
    <3>5. now' - nxt = 0
      BY <1>1, <1>2, <3>4, MultipleWithinWord
    <3> QED BY <1>1, <1>2, <1>9, <3>5
  <2>3. s' < f /\ s' = (k + 1) * R
    BY <1>1, <1>6, <2>1, <2>2
  <2> QED BY <2>3 DEF s, f, R
<1> QED BY <1>8, <1>9

LEMMA StepClock == ClockInv /\ PeriodsAreTicks /\ [Next]_vars => ClockInv'
<1> SUFFICES ASSUME ClockInv, PeriodsAreTicks, [Next]_vars PROVE ClockInv'
  OBVIOUS
<1>1. CASE Irq
  <2>1. timer' \in Millis
    <3>1. timer + 1 \in Int
      BY DEF ClockInv, Millis
    <3> QED BY <1>1, <3>1, WordAssumption, Division
        DEF Irq, irq_handler, timer_handler, Millis
  <2>2. next_match' \in [Device -> Millis]
    <3>1. timer' \in Nat
      BY <2>1 DEF Millis
    <3>2. get_millis' \in 0..(WORD - 1)
      <4>1. timer' * OS_TIMER_RESOLUTION \in Int
        BY <3>1, TickAssumption
      <4> QED BY <4>1, WordAssumption, Division DEF get_millis
    <3>3. \A d \in Device : (get_millis' + dev_freq[d]) % WORD \in Millis
      <4> TAKE d \in Device
      <4>1. get_millis' + dev_freq[d] \in Int
        BY <3>2, FreqAssumption DEF Millis
      <4> QED BY <4>1, WordAssumption, Division DEF Millis
    <3> QED BY <1>1, <3>3 DEF Irq, irq_handler, dev_update, ClockInv
  <2> QED BY <1>1, <2>1, <2>2, TickOfDevice DEF ClockInv, Irq
<1>2. CASE UNCHANGED <<timer, next_match>>
  BY <1>2 DEF ClockInv, SinceSignal, get_millis
<1>3. CASE ~Irq
  <2>1. UNCHANGED <<timer, next_match>>
    BY <1>3 DEF Next, OrderlyNext, vars, dev_vars, task_create, CallFromMain, event_wait, dev_wait,
                CreateMutex, LockMutex, UnlockMutex
  <2> QED BY <1>2, <2>1
<1> QED BY <1>1, <1>3

\* Whatever the programs call, no device is signalled later than the tick its period
\* ends on, around the wrap of the clock too, if the periods are whole numbers of
\* ticks as those of device.c:28 are (device.c:89-96).
THEOREM SignalsInTime ==
    ASSUME PeriodsAreTicks
    PROVE  Spec => []NoSignalIsLate
<1>1. Init => ClockInv
  BY InitClock
<1>2. ClockInv /\ [Next]_vars => ClockInv'
  BY StepClock
<1>3. ClockInv => NoSignalIsLate
  BY DEF ClockInv, NoSignalIsLate
<1> QED BY <1>1, <1>2, <1>3, PTL DEF Spec
=============================================================================
