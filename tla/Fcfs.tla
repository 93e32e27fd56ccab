-------------------------------- MODULE Fcfs --------------------------------
(***************************************************************************)
(* What the mutexes of the lab4 part1 kernel promise: first come, first    *)
(* served, and a task that waits for a mutex does not run until it is      *)
(* given it.                                                               *)
(***************************************************************************)
EXTENDS Naturals, Sequences

CONSTANTS NONE, IDLE, MutexId

VARIABLES
    running,   \* the task on the processor, NONE before the first task set
    queue      \* [MutexId -> the tasks that asked for it, its holder first]

Blocked(t, q) == \E m \in MutexId : \E k \in 2..Len(q[m]) : q[m][k] = t
Asked(t, m)   == \E k \in 1..Len(queue[m]) : queue[m][k] = t
IsTask(t)     == t \notin {NONE, IDLE}

Init ==
    /\ running = NONE
    /\ queue = [m \in MutexId |-> <<>>]

\* The running task queues up; unless the mutex was free it stops running.
Lock(m) ==
    /\ IsTask(running) /\ ~Asked(running, m)
    /\ queue' = [queue EXCEPT ![m] = Append(@, running)]
    /\ IF queue[m] = <<>> THEN UNCHANGED running ELSE ~Blocked(running', queue')

\* The holder leaves; the next in the queue holds the mutex and may run again.
Unlock(m) ==
    /\ IsTask(running) /\ queue[m] # <<>> /\ Head(queue[m]) = running
    /\ queue' = [queue EXCEPT ![m] = Tail(@)]
    /\ UNCHANGED running

\* The scheduler switches to any task that is not waiting for a mutex.
Switch ==
    /\ ~Blocked(running', queue)
    /\ UNCHANGED queue

Next == Switch \/ \E m \in MutexId : Lock(m) \/ Unlock(m)

Spec == Init /\ [][Next]_<<running, queue>>
=============================================================================
