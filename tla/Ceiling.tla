------------------------------ MODULE Ceiling ------------------------------
(***************************************************************************)
(* What the lab4 part2 kernel promises its tasks, without control blocks,  *)
(* links, slots, saved priorities or counters: fixed-priority scheduling   *)
(* of tasks that wait for periodic devices, with mutexes whose holder is   *)
(* never switched out (the highest locker protocol).                       *)
(***************************************************************************)
EXTENDS Naturals

CONSTANTS IDLE, NONE, Device, NumMutex

VARIABLES
    running,   \* the task on the processor; NONE before the first task set
    ready,     \* the tasks that may run, the running one and idle included
    waiting,   \* [Device -> the set of tasks that wait for its signal]
    holder,    \* [mutex -> the task in its critical section, or NONE]
    created    \* mutexes 0..created-1 exist; 0 cannot be locked

MutexId == 0..(NumMutex - 1)

Init ==
    /\ running = NONE
    /\ ready = {}
    /\ waiting = [d \in Device |-> {}]
    /\ holder = [m \in MutexId |-> NONE]
    /\ created = 0

-----------------------------------------------------------------------------
IsTask(t)   == t \notin {NONE, IDLE}
InSection   == \E m \in MutexId : holder[m] = running /\ running # NONE
IsTop(t, S) == t \in S /\ \A u \in S : t <= u

\* A new set of n tasks replaces one that neither waits nor holds anything.
NewTaskSet(n) ==
    /\ running # IDLE
    /\ \A d \in Device : waiting[d] = {}
    /\ \A m \in MutexId : holder[m] = NONE
    /\ ready' = (1..n) \cup {IDLE}
    /\ IsTop(running', ready')
    /\ UNCHANGED <<waiting, holder, created>>

\* Only outside every critical section; the best ready task takes over.
Wait(d) ==
    /\ IsTask(running) /\ ~InSection
    /\ waiting' = [waiting EXCEPT ![d] = @ \cup {running}]
    /\ ready' = ready \ {running}
    /\ IsTop(running', ready')
    /\ UNCHANGED <<holder, created>>

Create ==
    /\ running # IDLE /\ created < NumMutex
    /\ created' = created + 1
    /\ UNCHANGED <<running, ready, waiting, holder>>

\* Never waits: whoever is running finds every mutex free but its own.
Lock(m) ==
    /\ IsTask(running) /\ 0 < m /\ m < created
    /\ holder[m] = NONE
    /\ holder' = [holder EXCEPT ![m] = running]
    /\ UNCHANGED <<running, ready, waiting, created>>

\* The processor is not given up, even if a better task was woken meanwhile.
Unlock(m) ==
    /\ IsTask(running) /\ holder[m] = running
    /\ holder' = [holder EXCEPT ![m] = NONE]
    /\ UNCHANGED <<running, ready, waiting, created>>

\* The devices of S signal at once: all their waiters become ready, and if
\* there is one, the best ready task runs, unless a critical section does.
Signal(S) ==
    LET woken == UNION {waiting[d] : d \in S}
    IN  /\ ready' = ready \cup woken
        /\ waiting' = [d \in Device |-> IF d \in S THEN {} ELSE waiting[d]]
        /\ IF woken = {} \/ InSection THEN UNCHANGED running
                                      ELSE IsTop(running', ready')
        /\ UNCHANGED <<holder, created>>

Next ==
    \/ \E n \in 0..(IDLE - 1) : NewTaskSet(n)
    \/ \E d \in Device : Wait(d)
    \/ Create
    \/ \E m \in MutexId : Lock(m) \/ Unlock(m)
    \/ \E S \in SUBSET Device : Signal(S)

Spec == Init /\ [][Next]_<<running, ready, waiting, holder, created>>
=============================================================================
