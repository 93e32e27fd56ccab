----------------------------- MODULE KernelFcfs -----------------------------
(***************************************************************************)
(* The lab4 part1 kernel: the dispatcher and the devices of Sched and      *)
(* Device, whose sources are the same in both parts, with first-come       *)
(* first-served mutexes.  A task may wait for a device or for one mutex    *)
(* while it holds others.                                                  *)
(***************************************************************************)
EXTENDS MutexFcfs, Sequences, FiniteSets

vars == <<sched_vars, dev_vars, mutex_vars>>

TypeOK == SchedTypeOK /\ DeviceTypeOK /\ MutexTypeOK

Init == SchedInit /\ dev_init /\ mutex_init

-----------------------------------------------------------------------------
InUser == ~fault /\ cur_tcb # IDLE_PRIO
InTask == InUser /\ cur_tcb # NULL

\* As the programs under tasks/ do: from main, or when nobody waits and nothing
\* is locked.  A set with a task whose C exceeds its T is refused: no step.
Quiescent ==
    /\ \A d \in Device : dev_queue[d] = NULL
    /\ \A m \in MutexId : ~bLock[m]
task_create(n) ==
    /\ InUser /\ Quiescent
    /\ allocate_tasks(n)
    /\ UNCHANGED <<dev_vars, mutex_vars>>

\* There is no check for held mutexes.
event_wait(d) == InTask /\ dev_wait(d) /\ UNCHANGED mutex_vars

CreateMutex    == InUser /\ mutex_create /\ UNCHANGED dev_vars
LockMutex(m)   == InTask /\ mutex_lock(m) /\ UNCHANGED dev_vars
UnlockMutex(m) == InTask /\ mutex_unlock(m) /\ UNCHANGED dev_vars
Irq            == ~fault /\ irq_handler /\ UNCHANGED mutex_vars

Next ==
    \/ \E n \in 0..(IDLE_PRIO - 1) : task_create(n)
    \/ \E d \in Device : event_wait(d)
    \/ CreateMutex
    \/ \E m \in MutexId : LockMutex(m) \/ UnlockMutex(m)
    \/ Irq

Spec == Init /\ [][Next]_vars

\* The timer keeps interrupting, and a task that gets to run again and again
\* releases what it holds.
FairSpec ==
    /\ Spec
    /\ WF_vars(Irq)
    /\ \A t \in Task, m \in MutexId : SF_vars(cur_tcb = t /\ UnlockMutex(m))

-----------------------------------------------------------------------------
Live == 1..num_tasks

\* Every task of the set is ready, or on the list of exactly one device or one
\* mutex: the one link of the control block serves both kinds of list
\* (device.c:70, mutex.c:71-78, 110-115).
EachTaskInOnePlace ==
    /\ ~fault
    /\ \A t \in Live :
         LET devs == {d \in Device : t \in Sleepers(d)}
             muts == {m \in MutexId : t \in Waiters(m)}
         IN  IF run_list[t] = t THEN devs = {} /\ muts = {}
                                ELSE Cardinality(devs) + Cardinality(muts) = 1

\* The list that starts at h, in order.
InOrder(link, h) ==
    LET on == Reach(link, h)
    IN  CHOOSE s \in [1..Cardinality(on) -> on] :
            \A k \in DOMAIN s : s[k] = IF k = 1 THEN h ELSE link[s[k - 1]]

\* Who asked for each mutex: its holder, then those who wait.
Queues ==
    [m \in MutexId |-> IF bLock[m]
                        THEN <<pHolding_Tcb[m]>> \o InOrder(sleep_queue, pSleep_queue[m])
                        ELSE <<>>]

Promise == INSTANCE Fcfs WITH NONE <- NULL, IDLE <- IDLE_PRIO, running <- cur_tcb,
                              queue <- Queues

\* The mutexes are first come, first served, and a waiter does not run before
\* its turn: tasks/mutex_chaser/mutex_chaser.c:10 "Ensure mutex is releasing task
\* in FCFS order" (mutex.c:71-81, 108-115).
ServesInOrder == Promise!Spec

\* t is one of a set of tasks each of which waits for a mutex that one of them holds.
CircularWait(t) ==
    LET waitsFor == [u \in Task |-> {pHolding_Tcb[m] : m \in {n \in MutexId : u \in Waiters(n)}}]
    IN  \E S \in SUBSET Task : t \in S /\ \A u \in S : waitsFor[u] \cap S # {}

Waiting(t) == \E m \in MutexId : t \in Waiters(m)

\* If the processor is not overloaded (it idles again and again), a task that
\* waits for a mutex leaves its list and runs, unless the tasks before it come to
\* wait for each other: the only lock refused is that of a mutex the caller holds
\* itself (mutex.c:59), so two tasks may take two mutexes in opposite order.
EveryWaiterServed ==
    []<>(cur_tcb = IDLE_PRIO) =>
        \A t \in Task :
            Waiting(t) ~> (~Waiting(t) /\ cur_tcb = t) \/ CircularWait(t) \/ num_tasks < t
=============================================================================
