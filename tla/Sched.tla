------------------------------- MODULE Sched -------------------------------
(***************************************************************************)
(* The dispatcher and the task control blocks of the lab4 part2 kernel:    *)
(* sched/ctx_switch.c, sched/sched.c and the fields of struct tcb          *)
(* (include/task.h).  Every operation runs with interrupts masked, so each *)
(* is one atomic piece of the system call or interrupt that calls it.      *)
(*                                                                         *)
(* A control block is named by its index in system_tcb.  The run queue is  *)
(* its slots alone: SchedProof shows that the bitmap search of             *)
(* run_queue.c returns the lowest occupied slot, which is highest_prio     *)
(* here.                                                                   *)
(***************************************************************************)
EXTENDS Integers, FiniteSets

CONSTANTS IDLE_PRIO,   \* the lowest priority; config.h: 63
          NULL

ASSUME IdlePrioAssumption == IDLE_PRIO \in Nat \ {0}
ASSUME NullAssumption     == NULL \notin 0..IDLE_PRIO

TOP_PRIO == 0
Prio     == 0..IDLE_PRIO
Tcb      == Prio              \* indices of system_tcb
Task     == 1..(IDLE_PRIO - 1)  \* priorities 0 and IDLE_PRIO are reserved

VARIABLES
    run_list,      \* [Prio -> Tcb or NULL], the slots of the run queue
    cur_tcb,       \* the running task; NULL until the first task_create
    cur_prio,      \* tcb field
    holds_lock,    \* tcb field
    sleep_queue,   \* tcb field: the link of the list the task is asleep on
    num_tasks,     \* argument of the last task_create (read by properties only)
    fault          \* the kernel followed a wild pointer or never returns
sched_vars == <<run_list, cur_tcb, cur_prio, holds_lock, sleep_queue, num_tasks, fault>>

SchedTypeOK ==
    /\ run_list \in [Prio -> Tcb \cup {NULL}]
    /\ cur_tcb \in Tcb \cup {NULL}
    /\ cur_prio \in [Tcb -> Prio]
    /\ holds_lock \in [Tcb -> Int]
    /\ sleep_queue \in [Tcb -> Tcb \cup {NULL}]
    /\ num_tasks \in 0..(IDLE_PRIO - 1)
    /\ fault \in BOOLEAN

\* Before the first task_create the control blocks are zero-filled and main
\* runs with no control block at all.
SchedInit ==
    /\ run_list = [p \in Prio |-> NULL]
    /\ cur_tcb = NULL
    /\ cur_prio = [t \in Tcb |-> 0]
    /\ holds_lock = [t \in Tcb |-> 0]
    /\ sleep_queue = [t \in Tcb |-> NULL]
    /\ num_tasks = 0
    /\ fault = FALSE

-----------------------------------------------------------------------------
Ready(rl) == {p \in Prio : rl[p] # NULL}

\* The wrong end of the run queue, for a mutated form: the lowest task that is ready.
highest_prio_last(rl) ==
    LET tasks == Ready(rl) \ {IDLE_PRIO}
    IN  IF tasks = {} THEN IDLE_PRIO ELSE CHOOSE p \in tasks : \A q \in tasks : q <= p

highest_prio(rl) ==
    IF Ready(rl) = {} THEN IDLE_PRIO
    ELSE CHOOSE p \in Ready(rl) : \A q \in Ready(rl) : p <= q

\* The native priority is the index for every block allocate_tasks fills in.
native_prio(t) == t

\* system_tcb[TOP_PRIO] never holds a context: priority 0 is reserved.
NoContext(p) == p = TOP_PRIO

\* The dispatcher keeps the running task unless a strictly higher one is ready.
KeepsRunning(rl) == cur_prio[cur_tcb] <= highest_prio(rl)

\* Mutated form of dispatch_save: the tick readies its tasks and never dispatches.
dispatch_save_never(rl) == UNCHANGED <<cur_tcb, fault>>

\* Mutated form of dispatch_save: it switches to the last of the tasks that are ready.
dispatch_save_last(rl) ==
    IF KeepsRunning(rl)
      THEN UNCHANGED <<cur_tcb, fault>>
      ELSE /\ cur_tcb' = highest_prio_last(rl)
           /\ fault' = NoContext(cur_tcb')

\* It switches to system_tcb[top_prio], not to what the slot points to.
dispatch_save(rl) ==
    IF KeepsRunning(rl)
      THEN UNCHANGED <<cur_tcb, fault>>
      ELSE /\ cur_tcb' = highest_prio(rl)
           /\ fault' = NoContext(cur_tcb')

\* The running task leaves the slot of its current priority, and its context
\* is saved through the pointer found in that slot: if that is not the task
\* itself the save goes wild.
dispatch_sleep ==
    LET slot == cur_prio[cur_tcb]
    IN  /\ run_list' = [run_list EXCEPT ![slot] = NULL]
        /\ cur_tcb' = highest_prio(run_list')
        /\ fault' = (run_list[slot] # cur_tcb \/ NoContext(cur_tcb'))

\* Mutated form of NewSet: the idle task is left out of the run queue.
NewSet_noidle(n) == 1..n

\* The tasks of a new set: the n highest task priorities and the idle task.
NewSet(n) == (1..n) \cup {IDLE_PRIO}

\* allocate_tasks, sched_init, dispatch_init and dispatch_nosave: install a new
\* set and switch to its first task.  Nothing outside the run
\* queue and the blocks of the new set is touched.
allocate_tasks(n) ==
    LET new == NewSet(n)
    IN  /\ run_list' = [p \in Prio |-> IF p \in new THEN p ELSE NULL]
        /\ cur_prio' = [t \in Tcb |-> IF t \in new THEN t ELSE cur_prio[t]]
        /\ holds_lock' = [t \in Tcb |-> IF t \in new THEN 0 ELSE holds_lock[t]]
        /\ sleep_queue' = [t \in Tcb |-> IF t \in new THEN NULL ELSE sleep_queue[t]]
        /\ num_tasks' = n
        /\ cur_tcb' = highest_prio(run_list')
        /\ UNCHANGED fault

\* A read or write through a wild or null pointer, or a loop that never ends
\* with interrupts masked: the system is gone.
Fault == fault' = TRUE

-----------------------------------------------------------------------------
\* The control blocks a walk along link visits from h: the least set that holds
\* h and is closed under link.
Reach(link, h) ==
    {t \in Tcb : \A S \in SUBSET Tcb :
        (h \in Tcb => h \in S) /\ (\A u \in S : link[u] # NULL => link[u] \in S)
            => t \in S}

\* The tasks on the list that starts at h.
OnList(h) == Reach(sleep_queue, h)

\* A ready task of a higher priority than the running one is being kept waiting.
Inverted == cur_tcb # NULL /\ ~KeepsRunning(run_list)
=============================================================================
