------------------------------- MODULE Mutex -------------------------------
(***************************************************************************)
(* The mutexes of the lab4 part2 kernel, lock/mutex.c: a holder runs at    *)
(* TOP_PRIO (the highest locker protocol), waiters queue in FIFO order on  *)
(* the sleep_queue links, and unlock hands the mutex to the first waiter.  *)
(***************************************************************************)
EXTENDS Sched

CONSTANTS OS_NUM_MUTEX   \* config.h: 32

ASSUME NumMutexAssumption == OS_NUM_MUTEX \in Nat

MutexId == 0..(OS_NUM_MUTEX - 1)

VARIABLES
    mutexExist,      \* number of mutexes created
    pHolding_Tcb,    \* gtMutex[m].pHolding_Tcb
    bLock,           \* gtMutex[m].bLock
    pSleep_queue     \* gtMutex[m].pSleep_queue: first waiter
lock_vars  == <<pHolding_Tcb, bLock, pSleep_queue>>
mutex_vars == <<mutexExist, pHolding_Tcb, bLock, pSleep_queue>>

MutexTypeOK ==
    /\ mutexExist \in 0..OS_NUM_MUTEX
    /\ pHolding_Tcb \in [MutexId -> Tcb \cup {NULL}]
    /\ bLock \in [MutexId -> BOOLEAN]
    /\ pSleep_queue \in [MutexId -> Tcb \cup {NULL}]

mutex_init ==
    /\ mutexExist = 0
    /\ pHolding_Tcb = [m \in MutexId |-> NULL]
    /\ bLock = [m \in MutexId |-> FALSE]
    /\ pSleep_queue = [m \in MutexId |-> NULL]

\* Mutexes become available in index order and stay so.
bAvailable(m) == m < mutexExist

-----------------------------------------------------------------------------
\* Fails with ENOMEM, changing nothing, once every mutex exists.
mutex_create ==
    /\ mutexExist < OS_NUM_MUTEX
    /\ mutexExist' = mutexExist + 1
    /\ UNCHANGED <<lock_vars, sched_vars>>

\* Mutated form of ValidMutex: the first mutex is one as well.
ValidMutex_zero(m) == 0 <= m /\ m < OS_NUM_MUTEX /\ bAvailable(m)

\* The identifier is checked first; the code accepts 1..OS_NUM_MUTEX-1 only.
ValidMutex(m) == 0 < m /\ m < OS_NUM_MUTEX /\ bAvailable(m)

mutex_lock_result(m) ==
    IF ~ValidMutex(m) THEN "EINVAL"
    ELSE IF pHolding_Tcb[m] = cur_tcb THEN "EDEADLOCK" ELSE "OK"

mutex_unlock_result(m) ==
    IF ~ValidMutex(m) THEN "EINVAL"
    ELSE IF pHolding_Tcb[m] # cur_tcb THEN "EPERM" ELSE "OK"

\* Mutated form of CeilingPrio: taking a mutex does not raise the priority.
CeilingPrio_native(t) == native_prio(t)

\* The priority a task runs at from the moment it takes a mutex.
CeilingPrio(t) == TOP_PRIO

\* Mutated form of NestedHold: a flag, as task.h words it, in place of a count.
NestedHold_flag(n) == 1

\* holds_lock counts nested locks.
NestedHold(n) == n + 1

\* The mutex is free: take it.

lock_free(m) ==
    /\ holds_lock' = [holds_lock EXCEPT ![cur_tcb] = NestedHold(@)]
    /\ cur_prio' = [cur_prio EXCEPT ![cur_tcb] = CeilingPrio(cur_tcb)]
    /\ bLock' = [bLock EXCEPT ![m] = TRUE]
    /\ pHolding_Tcb' = [pHolding_Tcb EXCEPT ![m] = cur_tcb]
    /\ UNCHANGED <<run_list, cur_tcb, sleep_queue, num_tasks, fault, mutexExist, pSleep_queue>>

\* The mutex is held: join the tail of its list and give up the processor.  A
\* list that runs into a cycle has no tail, and the walk never ends.
lock_wait(m) ==
    LET tails == {t \in OnList(pSleep_queue[m]) : sleep_queue[t] = NULL}
    IN  IF pSleep_queue[m] # NULL /\ tails = {}
          THEN Fault /\ UNCHANGED <<run_list, cur_tcb, cur_prio, holds_lock, sleep_queue,
                                    num_tasks, mutex_vars>>
          ELSE /\ IF pSleep_queue[m] = NULL
                    THEN /\ pSleep_queue' = [pSleep_queue EXCEPT ![m] = cur_tcb]
                         /\ UNCHANGED sleep_queue
                    ELSE /\ \E tail \in tails :
                              sleep_queue' = [sleep_queue EXCEPT ![tail] = cur_tcb]
                         /\ UNCHANGED pSleep_queue
               /\ dispatch_sleep
               /\ UNCHANGED <<cur_prio, holds_lock, num_tasks, mutexExist, pHolding_Tcb, bLock>>

mutex_lock(m) ==
    /\ mutex_lock_result(m) = "OK"
    /\ IF bLock[m] THEN lock_wait(m) ELSE lock_free(m)

\* The caller's priority once it holds n mutexes.
PrioHolding(t, n) == IF n # 0 THEN TOP_PRIO ELSE native_prio(t)

\* Mutated form of StaysLocked: a mutex that is handed over looks free.
StaysLocked_never(heir) == FALSE

\* A mutex that is handed to a waiter stays locked.
StaysLocked(heir) == heir # NULL

\* Free the mutex, or hand it to its first waiter, whose slot is filled at the
\* waiter's own priority.  The caller keeps running: there is no dispatch.
mutex_unlock(m) ==
    LET heir == pSleep_queue[m]
    IN  /\ mutex_unlock_result(m) = "OK"
        /\ pHolding_Tcb' = [pHolding_Tcb EXCEPT ![m] = heir]
        /\ bLock' = [bLock EXCEPT ![m] = StaysLocked(heir)]
        /\ IF heir = NULL
             THEN UNCHANGED <<pSleep_queue, sleep_queue, run_list>>
             ELSE /\ pSleep_queue' = [pSleep_queue EXCEPT ![m] = sleep_queue[heir]]
                  /\ sleep_queue' = [sleep_queue EXCEPT ![heir] = NULL]
                  /\ run_list' = [run_list EXCEPT ![cur_prio[heir]] = heir]
        /\ holds_lock' = [holds_lock EXCEPT ![cur_tcb] = @ - 1]
        /\ cur_prio' = [cur_prio EXCEPT ![cur_tcb] =
                           PrioHolding(cur_tcb, holds_lock'[cur_tcb])]
        /\ UNCHANGED <<cur_tcb, num_tasks, fault, mutexExist>>
=============================================================================
