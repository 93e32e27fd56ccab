----------------------------- MODULE MutexFcfs -----------------------------
(***************************************************************************)
(* The mutexes of the lab4 part1 kernel, lock/mutex.c: a task that finds a *)
(* mutex held joins the tail of its list and really sleeps; unlock hands   *)
(* the mutex to the first of them.  Priorities are never changed.          *)
(***************************************************************************)
EXTENDS Device   \* the scheduler and the devices of Part1Device

CONSTANTS OS_NUM_MUTEX   \* config.h: 32

ASSUME NumMutexAssumption == OS_NUM_MUTEX \in Nat

MutexId == 0..(OS_NUM_MUTEX - 1)

VARIABLES mutexExist, pHolding_Tcb, bLock, pSleep_queue
lock_vars  == <<pHolding_Tcb, bLock, pSleep_queue>>
mutex_vars == <<mutexExist, pHolding_Tcb, bLock, pSleep_queue>>

MutexTypeOK ==
    /\ mutexExist \in 0..OS_NUM_MUTEX
    /\ pHolding_Tcb \in [MutexId -> Tcb \cup {NULL}]
    /\ bLock \in [MutexId -> BOOLEAN]
    /\ pSleep_queue \in [MutexId -> Tcb \cup {NULL}]

mutex_init ==
    /\ mutexExist = 0
    /\ pHolding_Tcb = [m \in MutexId |-> NULL]
    /\ bLock = [m \in MutexId |-> FALSE]
    /\ pSleep_queue = [m \in MutexId |-> NULL]

\* Fails, changing nothing, once every mutex exists.
mutex_create ==
    /\ mutexExist < OS_NUM_MUTEX
    /\ mutexExist' = mutexExist + 1
    /\ UNCHANGED <<lock_vars, sched_vars>>

\* The available mutexes, less the one whose identifier is 0.
ValidMutex(m) == 0 < m /\ m < mutexExist

mutex_lock_result(m) ==
    IF ~ValidMutex(m) THEN "EINVAL"
    ELSE IF pHolding_Tcb[m] = cur_tcb THEN "EDEADLOCK" ELSE "OK"

mutex_unlock_result(m) ==
    IF ~ValidMutex(m) THEN "EINVAL"
    ELSE IF pHolding_Tcb[m] # cur_tcb THEN "EPERM" ELSE "OK"

-----------------------------------------------------------------------------
\* holds_lock gets the mutex's identifier; nothing in this kernel reads it.
lock_free(m) ==
    /\ holds_lock' = [holds_lock EXCEPT ![cur_tcb] = m]
    /\ bLock' = [bLock EXCEPT ![m] = TRUE]
    /\ pHolding_Tcb' = [pHolding_Tcb EXCEPT ![m] = cur_tcb]
    /\ UNCHANGED <<run_list, cur_tcb, sleep_queue, fault, pSleep_queue>>

\* The tasks that wait for mutex m.
Waiters(m) == OnList(pSleep_queue[m])

\* Mutated form of joins: the newcomer becomes the head of the list.
joins_front(m) ==
    /\ pSleep_queue' = [pSleep_queue EXCEPT ![m] = cur_tcb]
    /\ sleep_queue' = [sleep_queue EXCEPT ![cur_tcb] = pSleep_queue[m]]

\* The running task is linked behind the last waiter.
joins(m) ==
    IF pSleep_queue[m] = NULL
      THEN /\ pSleep_queue' = [pSleep_queue EXCEPT ![m] = cur_tcb]
           /\ UNCHANGED sleep_queue
      ELSE /\ \E tail \in Waiters(m) :
                 /\ sleep_queue[tail] = NULL
                 /\ sleep_queue' = [sleep_queue EXCEPT ![tail] = cur_tcb]
           /\ UNCHANGED pSleep_queue

lock_wait(m) ==
    /\ joins(m)
    /\ dispatch_sleep
    /\ UNCHANGED <<holds_lock, pHolding_Tcb, bLock>>

\* A call that fails changes nothing.
mutex_lock(m) ==
    /\ mutex_lock_result(m) = "OK"
    /\ IF bLock[m] THEN lock_wait(m) ELSE lock_free(m)
    /\ UNCHANGED <<cur_prio, num_tasks, mutexExist>>

\* Mutated form of Unlinked: the heir keeps its link to the next waiter.
Unlinked_kept(heir) == sleep_queue

Unlinked(heir) == [sleep_queue EXCEPT ![heir] = NULL]

\* Mutated form of Requeue: the heir is not made ready.
Requeue_forgotten(heir) == run_list

Requeue(heir) == [run_list EXCEPT ![cur_prio[heir]] = heir]

\* A call that fails changes nothing.  The caller goes on even if its heir has a
\* higher priority: there is no dispatch.
mutex_unlock(m) ==
    LET heir == pSleep_queue[m]
    IN  /\ mutex_unlock_result(m) = "OK"
        /\ pHolding_Tcb' = [pHolding_Tcb EXCEPT ![m] = heir]
        /\ IF heir = NULL
             THEN /\ bLock' = [bLock EXCEPT ![m] = FALSE]
                  /\ UNCHANGED <<pSleep_queue, sleep_queue, run_list>>
             ELSE /\ bLock' = [bLock EXCEPT ![m] = TRUE]
                  /\ pSleep_queue' = [pSleep_queue EXCEPT ![m] = sleep_queue[heir]]
                  /\ sleep_queue' = Unlinked(heir)
                  /\ run_list' = Requeue(heir)
        /\ UNCHANGED <<cur_tcb, cur_prio, holds_lock, num_tasks, fault, mutexExist>>
=============================================================================
