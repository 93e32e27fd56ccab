------------------------------- MODULE Kernel -------------------------------
(***************************************************************************)
(* The lab4 part2 kernel: the scheduler, the devices and the mutexes under *)
(* the system calls of arm/swi.c and the timer interrupt of arm/int.c.     *)
(*                                                                         *)
(* A system call enters with interrupts masked and, of those modelled      *)
(* here, none unmasks them, so each is one step; the timer interrupt falls *)
(* between any two of them.  The running task may make any call at any     *)
(* point.  A call that fails its checks returns an error and changes       *)
(* nothing, so it is no step.                                              *)
(***************************************************************************)
EXTENDS Device, Mutex

CONSTANT MinHolds   \* bound: no unlock takes holds_lock below it

ASSUME MinHoldsAssumption == MinHolds \in Int

vars == <<sched_vars, dev_vars, mutex_vars>>

TypeOK == SchedTypeOK /\ DeviceTypeOK /\ MutexTypeOK

\* kmain: dev_init, mutex_init and init_timer, then main in user mode.
Init == SchedInit /\ dev_init /\ mutex_init

-----------------------------------------------------------------------------
\* The idle task makes no system call; main, which has no control block, may.
InUser == ~fault /\ cur_tcb # IDLE_PRIO
InTask == InUser /\ cur_tcb # NULL

\* assign_schedule accepted a set of n tasks (it rejects at most: no step).
task_create(n) ==
    /\ InUser
    /\ n < IDLE_PRIO
    /\ allocate_tasks(n)
    /\ UNCHANGED <<dev_vars, mutex_vars>>

event_wait(d) ==
    /\ InTask
    /\ holds_lock[cur_tcb] = 0
    /\ dev_wait(d)
    /\ UNCHANGED mutex_vars

CreateMutex == InUser /\ mutex_create /\ UNCHANGED dev_vars

LockMutex(m) == InTask /\ mutex_lock(m) /\ UNCHANGED dev_vars

UnlockMutex(m) ==
    /\ InTask
    /\ holds_lock[cur_tcb] > MinHolds
    /\ mutex_unlock(m)
    /\ UNCHANGED dev_vars

\* main has no control block: the calls that touch its fields go through NULL.
\* (mutex_lock does not get that far: a free mutex "is held by" NULL, EDEADLOCK.)
CallFromMain ==
    /\ InUser
    /\ cur_tcb = NULL
    /\ \/ NUM_DEVICES > 0
       \/ \E m \in MutexId : mutex_unlock_result(m) = "OK"
    /\ Fault
    /\ UNCHANGED <<run_list, cur_tcb, cur_prio, holds_lock, sleep_queue, num_tasks,
                   dev_vars, mutex_vars>>

\* The timer interrupt, in main, in a task or in the idle task.
Irq == ~fault /\ irq_handler /\ UNCHANGED mutex_vars

-----------------------------------------------------------------------------
\* Nobody sleeps and nothing is locked.  The programs under tasks/ call
\* task_create from main or from the only task of a set that never waits.
Quiescent ==
    /\ \A d \in Device : dev_queue[d] = NULL
    /\ \A m \in MutexId : ~bLock[m]

\* What the programs of the repository do.
OrderlyNext ==
    \/ \E n \in 0..(IDLE_PRIO - 1) : Quiescent /\ task_create(n)
    \/ \E d \in Device : event_wait(d)
    \/ CreateMutex
    \/ \E m \in MutexId : LockMutex(m) \/ UnlockMutex(m)
    \/ Irq

\* What the system call interface allows.
Next ==
    \/ \E n \in 0..(IDLE_PRIO - 1) : task_create(n)
    \/ CallFromMain
    \/ OrderlyNext

OrderlySpec == Init /\ [][OrderlyNext]_vars
Spec        == Init /\ [][Next]_vars

\* The timer keeps interrupting: irq_wrapper re-enables it, every system call
\* ends, and user mode runs with interrupts unmasked.
TimerRuns == WF_vars(Irq)

\* A task does not stay in a critical section for ever.
LocksReleased == \A m \in MutexId : WF_vars(UnlockMutex(m))

\* A task does not compute for ever: it ends its job by waiting for its device.
JobsEnd == SF_vars(\E d \in Device : event_wait(d))

TimedSpec    == OrderlySpec /\ TimerRuns
ReleaseSpec  == TimedSpec /\ LocksReleased
PeriodicSpec == ReleaseSpec /\ JobsEnd

-----------------------------------------------------------------------------
Live    == 1..num_tasks
Held(t) == {m \in MutexId : pHolding_Tcb[m] = t}

\* A locked mutex is held by the running task, at top priority: the highest
\* locker protocol keeps a critical section from being switched out, whatever
\* the timer wakes meanwhile (mutex.c:64, ctx_switch.c:50).
LockHolderRuns ==
    \A m \in MutexId :
        bLock[m] => cur_tcb # NULL /\ pHolding_Tcb[m] = cur_tcb /\ cur_prio[cur_tcb] = TOP_PRIO

\* holds_lock counts the mutexes the task holds, over nested locks released in
\* any order, so event_wait refuses exactly the holders (proc.c:41).
HoldsLockCounts ==
    \A t \in Live : holds_lock[t] = Cardinality(Held(t))

\* No call ever blocks on a mutex or sends the kernel through a wild pointer.
NeverBlocksOnMutex == ~fault /\ \A m \in MutexId : pSleep_queue[m] = NULL

\* Every task of the current set is in its slot of the run queue or on the list
\* of exactly one device, never in both places and never lost: an overwritten
\* link or a walk that stops early would lose one (device.c:69-71, 99-111).
EachTaskInOnePlace ==
    \A t \in Live :
        \/ run_list[t] = t /\ \A d \in Device : t \notin Sleepers(d)
        \/ run_list[t] = NULL /\ Cardinality({d \in Device : t \in Sleepers(d)}) = 1

\* A lower-priority task runs while a higher one is ready only from a
\* mutex_unlock on (it does not dispatch), and only until the next tick that
\* wakes a task or the next switch (mutex.c:118-121, device.c:115).
InversionOnlyFromUnlock ==
    [][Inverted' =>
          /\ cur_tcb' = cur_tcb
          /\ \/ Inverted /\ Ready(run_list') = Ready(run_list)
             \/ \E m \in Held(cur_tcb) : pHolding_Tcb'[m] = NULL]_vars

\* A tick empties the lists of the due devices and makes all their sleepers
\* ready; a sleeper of any other device stays asleep (device.c:89-113).
SignalWakesItsSleepers ==
    [][timer' # timer =>
          \A d \in Device :
              IF next_match[d] <= get_millis'
                THEN Sleepers(d)' = {} /\ \A t \in Sleepers(d) : run_list'[t] = t
                ELSE Sleepers(d)' = Sleepers(d)]_vars

\* A waiting task is always signalled in the end, also across the wrap of the
\* millisecond count (device.c:92-96).
EverySleeperWakes ==
    \A t \in Task : (\E d \in Device : t \in Sleepers(d)) ~> (run_list[t] = t)

\* A ready task of the highest priority gets to run (or its set is replaced by
\* an empty one).  It does if every job ends and every lock is released, though
\* unlock does not dispatch it at once; not if a task that has released its
\* locks goes on computing, against tasks/mutex_chaser/mutex_chaser.c:11 "Make
\* sure rate monotonic scheduling is preserved".
TopTaskRuns == (run_list[1] = 1) ~> (cur_tcb = 1 \/ num_tasks = 0)

-----------------------------------------------------------------------------
(* The periods of the devices on a clock that wraps.                       *)

\* Milliseconds since the device was last signalled, or since boot.
SinceSignal(d) == (get_millis - next_match[d] + dev_freq[d]) % WORD

\* No device is signalled later than the tick its period ends on, though the
\* comparison is of wrapped numbers: a next match that wraps before the clock does
\* is due at once, so around the wrap signals can only come early (device.c:92-96).
\* Needs periods that are multiples of the tick, as the four of device.c are.
NoSignalIsLate == \A d \in Device : SinceSignal(d) < dev_freq[d]

-----------------------------------------------------------------------------
(* Any use of the calls, task_create with sleepers and locks included.     *)

\* There is always an idle task to switch to (ctx_switch.c:62), and the slot of
\* a priority never holds another task, so switching to system_tcb[prio] rather
\* than to what the slot points to picks the task that was enqueued.
SlotsAreTheirTasks ==
    ~fault =>
        /\ \A p \in Prio \ {TOP_PRIO} : run_list[p] \in {p, NULL}
        /\ cur_tcb # NULL => run_list[IDLE_PRIO] = IDLE_PRIO

\* A mutex has a holder exactly while it is locked, and waiters only then.
LockedIffHeld ==
    \A m \in MutexId :
        /\ bLock[m] <=> pHolding_Tcb[m] # NULL
        /\ pSleep_queue[m] # NULL => bLock[m]

-----------------------------------------------------------------------------
(* The inductive invariant of OrderlySpec, in named parts.                 *)

\* Before the first task_create nothing is ready, asleep or locked.
BootInv ==
    cur_tcb = NULL =>
        /\ num_tasks = 0
        /\ \A p \in Prio : run_list[p] = NULL
        /\ \A d \in Device : dev_queue[d] = NULL
        /\ \A m \in MutexId : ~bLock[m]

\* Only tasks of the current set and the idle task are ready, each in its own
\* slot, and the running task and the idle task always are.
ReadyInv ==
    /\ \A p \in Prio : run_list[p] # NULL =>
           run_list[p] = p /\ (p \in Live \/ p = IDLE_PRIO)
    /\ cur_tcb # NULL => run_list[cur_tcb] # NULL /\ run_list[IDLE_PRIO] # NULL

\* A task runs at top priority exactly while it holds a mutex; idle never does.
PrioInv ==
    cur_tcb # NULL =>
        /\ \A t \in Live \cup {IDLE_PRIO} :
               /\ holds_lock[t] \in Nat
               /\ cur_prio[t] = PrioHolding(t, holds_lock[t])
        /\ holds_lock[IDLE_PRIO] = 0

\* Every locked mutex is held by the running task, nobody waits for one, and
\* holds_lock counts what is held.
LockInv ==
    /\ \A m \in MutexId :
           /\ bLock[m] <=> pHolding_Tcb[m] # NULL
           /\ bLock[m] => pHolding_Tcb[m] = cur_tcb /\ cur_tcb \in Live
           /\ pSleep_queue[m] = NULL
    /\ HoldsLockCounts

\* The lists of the devices split the tasks of the set that are not ready.
Asleep == {t \in Live : run_list[t] = NULL}
SleepInv ==
    /\ \A t \in Asleep : \E d \in Device : t \in Sleepers(d)
    /\ \A d \in Device : Sleepers(d) \subseteq Asleep
    /\ \A d, e \in Device : d # e => Sleepers(d) \cap Sleepers(e) = {}

IInv == TypeOK /\ ~fault /\ BootInv /\ ReadyInv /\ PrioInv /\ LockInv /\ SleepInv
-----------------------------------------------------------------------------
Promise == INSTANCE Ceiling
    WITH IDLE <- IDLE_PRIO, NONE <- NULL, NumMutex <- OS_NUM_MUTEX,
         running <- cur_tcb,
         ready   <- Ready(run_list),
         waiting <- [d \in Device |-> Sleepers(d)],
         holder  <- pHolding_Tcb,
         created <- mutexExist

\* The control blocks, links, slots, saved priorities and lock counts of the
\* kernel keep what Ceiling promises: used in an orderly way, every call and
\* every tick is a step of the abstract scheduler, or none (mutex.c, device.c,
\* ctx_switch.c).
KeepsPromise == Promise!Spec
=============================================================================
