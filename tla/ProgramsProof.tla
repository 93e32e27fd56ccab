---------------------------- MODULE ProgramsProof ----------------------------
(***************************************************************************)
(* Theorems about the task programs, on the kernels of both parts: the     *)
(* lines of mutex_chaser nest and the sleeps of cyclone add up.            *)
(***************************************************************************)
EXTENDS Programs, WordArith, WellFoundedInduction, TLAPS

-----------------------------------------------------------------------------
(* The run queue.                                                          *)

\* Any set of priorities has a highest one, the least number.
LEMMA LeastPrio ==
    ASSUME NEW S \in SUBSET Prio, S # {}
    PROVE  \E p \in S : \A q \in S : p <= q
<1>1. S \subseteq Nat
  BY IdlePrioAssumption DEF Prio
<1>2. PICK k \in S : \A j \in S : ~(<<j, k>> \in OpToRel(<, Nat))
  BY <1>1, WFMin, NatLessThanWellFounded
<1>3. ASSUME NEW j \in S PROVE k <= j
  <2>1. j \in Nat /\ k \in Nat
    BY <1>1
  <2>2. ~(j < k)
    BY <1>2, <2>1 DEF OpToRel
  <2> QED BY <2>1, <2>2
<1> QED BY <1>3

\* The dispatcher picks a priority no lower than that of any ready task.
LEMMA HighestIsLeast ==
    ASSUME NEW rl, NEW p \in Prio, rl[p] # NULL
    PROVE  /\ highest_prio(rl) \in Prio /\ highest_prio(rl) <= p
           /\ rl[highest_prio(rl)] # NULL
<1>1. p \in Ready(rl) /\ Ready(rl) \in SUBSET Prio
  BY DEF Ready
<1>2. \E q \in Ready(rl) : \A r \in Ready(rl) : q <= r
  BY <1>1, LeastPrio
<1>3. /\ highest_prio(rl) \in Ready(rl)
      /\ \A r \in Ready(rl) : highest_prio(rl) <= r
  BY <1>1, <1>2 DEF highest_prio
<1> QED BY <1>1, <1>3 DEF Ready

LEMMA HighestInPrio == ASSUME NEW rl PROVE highest_prio(rl) \in Tcb
<1>1. CASE Ready(rl) = {}
  BY <1>1, IdlePrioAssumption DEF highest_prio, Tcb, Prio
<1>2. CASE Ready(rl) # {}
  <2>1. PICK p \in Prio : rl[p] # NULL
    BY <1>2 DEF Ready
  <2> QED BY <2>1, HighestIsLeast DEF Tcb
<1> QED BY <1>1, <1>2

\* Both kernels dispatch alike.
LEMMA SameDispatch ==
    \A rl : Part1!highest_prio(rl) = highest_prio(rl) /\ Part2!highest_prio(rl) = highest_prio(rl)
BY DEF Part1!highest_prio, Part1!Ready, Part1!Prio, Part2!highest_prio, Part2!Ready, Part2!Prio,
       highest_prio, Ready, Prio

-----------------------------------------------------------------------------
(* What every system call and every tick of either kernel leaves true.     *)

\* The run queue has a slot for each priority, and each control block runs at its
\* own priority or at the top one; once there are tasks, the one that runs is ready,
\* and so is the idle task.
PlacesInv ==
    /\ run_list = [p \in Prio |-> run_list[p]]
    /\ cur_prio = [t \in Tcb |-> cur_prio[t]]
    /\ \A t \in Tcb : cur_prio[t] \in {TOP_PRIO, t}
    /\ cur_tcb \in Tcb \cup {NULL}
    /\ cur_tcb # NULL => run_list[cur_tcb] # NULL /\ run_list[IDLE_PRIO] # NULL

\* Task p is ready, and no task of a lower priority runs.
NotBelow(p) == cur_tcb # NULL /\ cur_tcb <= p /\ run_list[p] # NULL

\* The step does not take the processor below a ready task, but for the running one.
KeepsAbove == \A p \in Task \ {cur_tcb} : NotBelow(p) => NotBelow(p)'

LEMMA TasksAreTcbs ==
    /\ Task \subseteq Tcb /\ Task \subseteq Nat /\ Tcb \subseteq Nat /\ Tcb = Prio
    /\ TOP_PRIO \in Tcb /\ TOP_PRIO \notin Task /\ NULL \notin Tcb
    /\ 1..4 \subseteq Task /\ IDLE_PRIO \in Tcb
BY IdlePrioAssumption, NullAssumption, TasksFitAssumption DEF Task, Tcb, Prio, TOP_PRIO

\* The running task leaves its slot, and the highest task that is ready takes over.
LEMMA GiveUp ==
    ASSUME PlacesInv, cur_tcb \notin {NULL, IDLE_PRIO}, cur_prio' = cur_prio,
           run_list' = [run_list EXCEPT ![cur_prio[cur_tcb]] = NULL],
           cur_tcb' = highest_prio(run_list')
    PROVE  PlacesInv' /\ KeepsAbove
<1>1. cur_tcb \in Tcb /\ cur_prio[cur_tcb] \in {TOP_PRIO, cur_tcb}
  BY DEF PlacesInv
<1>2. run_list' = [p \in Prio |-> run_list'[p]]
  BY DEF PlacesInv
<1>3. cur_tcb' \in Tcb
  BY HighestInPrio
<1>4. PlacesInv'
  <2>1. IDLE_PRIO \in Prio /\ IDLE_PRIO # TOP_PRIO
    BY TasksAreTcbs, IdlePrioAssumption DEF TOP_PRIO
  <2>2. run_list'[IDLE_PRIO] # NULL
    BY <1>1, <2>1 DEF PlacesInv
  <2>3. run_list'[cur_tcb'] # NULL
    BY <2>1, <2>2, HighestIsLeast
  <2> QED BY <1>2, <1>3, <2>2, <2>3 DEF PlacesInv
<1>5. ASSUME NEW p \in Task, p # cur_tcb, NotBelow(p) PROVE NotBelow(p)'
  <2>1. p \in Prio /\ p # TOP_PRIO
    BY TasksAreTcbs
  <2>2. run_list'[p] = run_list[p]
    BY <1>1, <1>5, <2>1 DEF PlacesInv
  <2>3. run_list'[p] # NULL
    BY <1>5, <2>2 DEF NotBelow
  <2>4. cur_tcb' <= p
    BY <2>1, <2>3, HighestIsLeast
  <2> QED BY <1>3, <2>3, <2>4, TasksAreTcbs DEF NotBelow
<1> QED BY <1>4, <1>5 DEF KeepsAbove

\* A lock or an unlock that does not give up the processor.
LEMMA StayOn ==
    ASSUME PlacesInv, cur_tcb' = cur_tcb,
           \/ cur_prio' = cur_prio
           \/ \E v \in {TOP_PRIO, cur_tcb} : cur_prio' = [cur_prio EXCEPT ![cur_tcb] = v],
           \/ run_list' = run_list
           \/ \E p, t : t # NULL /\ run_list' = [run_list EXCEPT ![p] = t]
    PROVE  PlacesInv' /\ \A p \in Task : NotBelow(p) => NotBelow(p)'
<1>1. /\ cur_prio' = [t \in Tcb |-> cur_prio'[t]]
      /\ \A t \in Tcb : cur_prio'[t] \in {TOP_PRIO, t}
  BY DEF PlacesInv
<1>2. run_list' = [p \in Prio |-> run_list'[p]]
  BY DEF PlacesInv
<1>3. \A p \in Prio : run_list[p] # NULL => run_list'[p] # NULL
  BY DEF PlacesInv
<1> QED BY <1>1, <1>2, <1>3, TasksAreTcbs DEF PlacesInv, NotBelow

\* A tick makes some tasks ready and perhaps dispatches.
LEMMA TickOn ==
    ASSUME PlacesInv, cur_tcb # NULL, cur_prio' = cur_prio,
           run_list' = [p \in Prio |-> run_list'[p]],
           \A p \in Prio : run_list[p] # NULL => run_list'[p] # NULL,
           cur_tcb' = cur_tcb \/ cur_tcb' = highest_prio(run_list')
    PROVE  PlacesInv' /\ \A p \in Task : NotBelow(p) => NotBelow(p)'
<1>1. cur_tcb' \in Tcb
  BY HighestInPrio DEF PlacesInv
<1>2. PlacesInv'
  <2>1. IDLE_PRIO \in Prio
    BY TasksAreTcbs
  <2>2. run_list'[IDLE_PRIO] # NULL /\ run_list'[cur_tcb] # NULL
    BY <2>1, TasksAreTcbs DEF PlacesInv
  <2>3. run_list'[cur_tcb'] # NULL
    BY <2>1, <2>2, HighestIsLeast
  <2> QED BY <1>1, <2>2, <2>3 DEF PlacesInv
<1>3. ASSUME NEW p \in Task, NotBelow(p) PROVE NotBelow(p)'
  <2>1. p \in Prio /\ run_list'[p] # NULL
    BY <1>3, TasksAreTcbs DEF NotBelow
  <2>2. highest_prio(run_list') <= p
    BY <2>1, HighestIsLeast
  <2> QED BY <1>1, <1>3, <2>1, <2>2, TasksAreTcbs DEF NotBelow
<1> QED BY <1>2, <1>3

-----------------------------------------------------------------------------
(* The system calls, of the kernel that runs.                              *)

LEMMA WaitKeeps ==
    ASSUME PlacesInv, NEW d, event_wait(d)
    PROVE  PlacesInv' /\ KeepsAbove
<1>1. CASE part = 1
  <2>1. Part1!event_wait(d)
    BY <1>1 DEF event_wait
  <2>2. /\ cur_tcb \notin {NULL, IDLE_PRIO} /\ cur_prio' = cur_prio
        /\ run_list' = [run_list EXCEPT ![cur_prio[cur_tcb]] = NULL]
        /\ cur_tcb' = Part1!highest_prio(run_list')
    BY <2>1 DEF Part1!event_wait, Part1!InTask, Part1!InUser, Part1!dev_wait, Part1!dispatch_sleep
  <2> QED BY <2>2, GiveUp, SameDispatch
<1>2. CASE part # 1
  <2>1. Part2!event_wait(d)
    BY <1>2 DEF event_wait
  <2>2. /\ cur_tcb \notin {NULL, IDLE_PRIO} /\ cur_prio' = cur_prio
        /\ run_list' = [run_list EXCEPT ![cur_prio[cur_tcb]] = NULL]
        /\ cur_tcb' = Part2!highest_prio(run_list')
    BY <2>1 DEF Part2!event_wait, Part2!InTask, Part2!InUser, Part2!dev_wait, Part2!dispatch_sleep
  <2> QED BY <2>2, GiveUp, SameDispatch
<1> QED BY <1>1, <1>2

LEMMA LockKeeps ==
    ASSUME PlacesInv, NEW m, LockMutex(m)
    PROVE  PlacesInv' /\ KeepsAbove
<1>1. CASE part = 1
  <2>1. /\ Part1!InTask /\ UNCHANGED cur_prio
        /\ Part1!lock_wait(m) \/ Part1!lock_free(m)
    BY <1>1 DEF LockMutex, Part1!LockMutex, Part1!mutex_lock
  <2>2. CASE Part1!lock_wait(m)
    <3>1. /\ cur_tcb \notin {NULL, IDLE_PRIO} /\ cur_prio' = cur_prio
          /\ run_list' = [run_list EXCEPT ![cur_prio[cur_tcb]] = NULL]
          /\ cur_tcb' = Part1!highest_prio(run_list')
      BY <2>1, <2>2 DEF Part1!lock_wait, Part1!InTask, Part1!InUser, Part1!dispatch_sleep
    <3> QED BY <3>1, GiveUp, SameDispatch
  <2>3. CASE Part1!lock_free(m)
    BY <2>1, <2>3, StayOn DEF Part1!lock_free, KeepsAbove
  <2> QED BY <2>1, <2>2, <2>3
<1>2. CASE part # 1
  <2>1. Part2!InTask /\ (Part2!lock_wait(m) \/ Part2!lock_free(m))
    BY <1>2 DEF LockMutex, Part2!LockMutex, Part2!mutex_lock
  <2>2. CASE Part2!lock_wait(m)
    <3>1. \/ UNCHANGED <<run_list, cur_tcb, cur_prio>>
          \/ /\ cur_tcb \notin {NULL, IDLE_PRIO} /\ cur_prio' = cur_prio
             /\ run_list' = [run_list EXCEPT ![cur_prio[cur_tcb]] = NULL]
             /\ cur_tcb' = Part2!highest_prio(run_list')
      BY <2>1, <2>2 DEF Part2!lock_wait, Part2!InTask, Part2!InUser, Part2!dispatch_sleep
    <3>2. CASE UNCHANGED <<run_list, cur_tcb, cur_prio>>
      BY <3>2, StayOn DEF KeepsAbove
    <3> QED BY <3>1, <3>2, GiveUp, SameDispatch
  <2>3. CASE Part2!lock_free(m)
    <3>1. /\ cur_prio' = [cur_prio EXCEPT ![cur_tcb] = TOP_PRIO]
          /\ cur_tcb' = cur_tcb /\ run_list' = run_list
      BY <2>3 DEF Part2!lock_free, Part2!CeilingPrio, Part2!TOP_PRIO, TOP_PRIO
    <3> QED BY <3>1, StayOn DEF KeepsAbove
  <2> QED BY <2>1, <2>2, <2>3
<1> QED BY <1>1, <1>2

LEMMA UnlockKeeps ==
    ASSUME PlacesInv, NEW m, UnlockMutex(m)
    PROVE  PlacesInv' /\ KeepsAbove
<1>1. CASE part = 1
  <2>1. /\ cur_tcb' = cur_tcb /\ cur_prio' = cur_prio
        /\ \/ run_list' = run_list
           \/ \E p, t : t # NULL /\ run_list' = [run_list EXCEPT ![p] = t]
    BY <1>1 DEF UnlockMutex, Part1!UnlockMutex, Part1!mutex_unlock, Part1!Requeue
  <2> QED BY <2>1, StayOn DEF KeepsAbove
<1>2. CASE part # 1
  <2>1. /\ cur_tcb' = cur_tcb
        /\ \/ run_list' = run_list
           \/ \E p, t : t # NULL /\ run_list' = [run_list EXCEPT ![p] = t]
    <3>1. Part2!mutex_unlock(m)
      BY <1>2 DEF UnlockMutex, Part2!UnlockMutex
    <3> DEFINE heir == pSleep_queue[m]
    <3>2. /\ cur_tcb' = cur_tcb
          /\ IF heir = NULL THEN run_list' = run_list
             ELSE run_list' = [run_list EXCEPT ![cur_prio[heir]] = heir]
      BY <3>1, Zenon DEF Part2!mutex_unlock
    <3> HIDE DEF heir
    <3> QED BY <3>2
  <2>2. \E v \in {TOP_PRIO, cur_tcb} : cur_prio' = [cur_prio EXCEPT ![cur_tcb] = v]
    <3>1. cur_prio' = [cur_prio EXCEPT ![cur_tcb] =
                          Part2!PrioHolding(cur_tcb, holds_lock'[cur_tcb])]
      <4>1. Part2!mutex_unlock(m)
        BY <1>2 DEF UnlockMutex, Part2!UnlockMutex
      <4> QED BY <4>1, Zenon DEF Part2!mutex_unlock
    <3>2. Part2!PrioHolding(cur_tcb, holds_lock'[cur_tcb]) \in {TOP_PRIO, cur_tcb}
      BY DEF Part2!PrioHolding, Part2!TOP_PRIO, Part2!native_prio, TOP_PRIO
    <3> QED BY <3>1, <3>2
  <2> QED BY <2>1, <2>2, StayOn DEF KeepsAbove
<1> QED BY <1>1, <1>2

LEMMA CreateMutexKeeps ==
    ASSUME PlacesInv, CreateMutex
    PROVE  PlacesInv' /\ KeepsAbove
<1>1. UNCHANGED <<run_list, cur_tcb, cur_prio>>
  BY DEF CreateMutex, Part1!CreateMutex, Part1!mutex_create, Part1!sched_vars,
         Part2!CreateMutex, Part2!mutex_create, Part2!sched_vars
<1> QED BY <1>1, StayOn DEF KeepsAbove

\* A new set: nothing is kept of the old one but the priorities of blocks it leaves alone.
LEMMA NewSetKeeps ==
    ASSUME PlacesInv, NEW k, task_create(k)
    PROVE  PlacesInv'
<1> DEFINE new == (1..k) \cup {IDLE_PRIO}
<1>0. IDLE_PRIO \in new
  OBVIOUS
<1>1. /\ run_list' = [p \in Prio |-> IF p \in new THEN p ELSE NULL]
      /\ cur_prio' = [t \in Tcb |-> IF t \in new THEN t ELSE cur_prio[t]]
      /\ cur_tcb' = highest_prio(run_list')
  <2>1. CASE part = 1
    <3>1. Part1!allocate_tasks(k)
      BY <2>1 DEF task_create, Part1!task_create
    <3> QED BY <3>1, SameDispatch
         DEF Part1!allocate_tasks, Part1!NewSet, Part1!Prio, Part1!Tcb, Prio, Tcb
  <2>2. CASE part # 1
    <3>1. Part2!allocate_tasks(k)
      BY <2>2 DEF task_create, Part2!task_create
    <3> QED BY <3>1, SameDispatch
         DEF Part2!allocate_tasks, Part2!NewSet, Part2!Prio, Part2!Tcb, Prio, Tcb
  <2> QED BY <2>1, <2>2
<1> HIDE DEF new
<1>2. cur_tcb' \in Tcb
  BY <1>1, HighestInPrio
<1>3. IDLE_PRIO \in Prio /\ run_list'[IDLE_PRIO] # NULL
  BY <1>0, <1>1, TasksAreTcbs
<1>4. run_list'[cur_tcb'] # NULL
  BY <1>1, <1>3, HighestIsLeast
<1> QED BY <1>1, <1>2, <1>3, <1>4 DEF PlacesInv

\* A tick.
LEMMA IrqKeeps ==
    ASSUME PlacesInv, cur_tcb # NULL, Irq
    PROVE  PlacesInv' /\ \A p \in Task : NotBelow(p) => NotBelow(p)'
<1>1. CASE part = 1
  <2>1. /\ cur_prio' = cur_prio
        /\ \E due \in SUBSET Device : run_list' \in Part1!Requeued(Part1!Woken(due))
        /\ cur_tcb' = cur_tcb \/ cur_tcb' = Part1!highest_prio(run_list')
    BY <1>1 DEF Irq, Part1!Irq, Part1!irq_handler, Part1!dev_update, Part1!dispatch_save,
                Part1!Device, Device
  <2>2. PICK due : run_list' \in Part1!Requeued(Part1!Woken(due))
    BY <2>1
  <2>3. Part1!Woken(due) \subseteq Tcb
    BY DEF Part1!Woken, Part1!Sleepers, Part1!OnList, Part1!Reach, Part1!Tcb, Part1!Prio, Tcb, Prio
  <2> DEFINE prios == {cur_prio[t] : t \in Part1!Woken(due)}
  <2>4. PICK last \in [prios -> Part1!Woken(due)] :
          run_list' = [p \in Prio |-> IF p \in prios THEN last[p] ELSE run_list[p]]
    BY <2>2 DEF Part1!Requeued, Part1!Prio, Prio
  <2>5. /\ run_list' = [p \in Prio |-> run_list'[p]]
        /\ \A p \in Prio : run_list[p] # NULL => run_list'[p] # NULL
    <3>1. \A p \in prios : last[p] # NULL
      BY <2>3, <2>4, TasksAreTcbs
    <3> HIDE DEF prios
    <3> QED BY <2>4, <3>1
  <2> QED BY <2>1, <2>5, TickOn, SameDispatch
<1>2. CASE part # 1
  <2>1. /\ cur_prio' = cur_prio
        /\ \E due \in SUBSET Device : run_list' \in Part2!Requeued(Part2!Woken(due))
        /\ cur_tcb' = cur_tcb \/ cur_tcb' = Part2!highest_prio(run_list')
    BY <1>2 DEF Irq, Part2!Irq, Part2!irq_handler, Part2!dev_update, Part2!dispatch_save,
                Part2!Device, Device
  <2>2. PICK due : run_list' \in Part2!Requeued(Part2!Woken(due))
    BY <2>1
  <2>3. Part2!Woken(due) \subseteq Tcb
    BY DEF Part2!Woken, Part2!Sleepers, Part2!OnList, Part2!Reach, Part2!Tcb, Part2!Prio, Tcb, Prio
  <2> DEFINE prios == {cur_prio[t] : t \in Part2!Woken(due)}
  <2>4. PICK last \in [prios -> Part2!Woken(due)] :
          run_list' = [p \in Prio |-> IF p \in prios THEN last[p] ELSE run_list[p]]
    BY <2>2 DEF Part2!Requeued, Part2!Prio, Prio
  <2>5. /\ run_list' = [p \in Prio |-> run_list'[p]]
        /\ \A p \in Prio : run_list[p] # NULL => run_list'[p] # NULL
    <3>1. \A p \in prios : last[p] # NULL
      BY <2>3, <2>4, TasksAreTcbs
    <3> HIDE DEF prios
    <3> QED BY <2>4, <3>1
  <2> QED BY <2>1, <2>5, TickOn, SameDispatch
<1> QED BY <1>1, <1>2

-----------------------------------------------------------------------------
(* LinesNest.                                                              *)

\* A line stays open only while the task that writes it is ready and nothing of a
\* lower priority runs: so only a task above all of them can open the next one, and
\* the only task that runs and has a line open is the one that opened it last.
LinesInv ==
    /\ PlacesInv
    /\ at = [t \in {MAIN} \cup Task |-> at[t]]
    /\ open \in Seq(1..4)
    /\ open # <<>> => prog = "mutex_chaser"
    /\ LinesNest
    /\ \A i \in 1..Len(open) : NotBelow(open[i])

\* A step of a program that neither opens nor closes a line: one system call at most.
Calls ==
    \/ UNCHANGED vars
    \/ CreateMutex
    \/ \E d : event_wait(d)
    \/ \E m : LockMutex(m) \/ UnlockMutex(m)
Quiet ==
    /\ open' = open /\ prog' = prog
    /\ at' = at \/ \E t, l : at' = [at EXCEPT ![t] = l]
    /\ Calls \/ \E k : task_create(k)

LEMMA CallsKeep == ASSUME PlacesInv, Calls PROVE PlacesInv' /\ KeepsAbove
<1>1. CASE UNCHANGED vars
  BY <1>1, StayOn DEF vars, sched_vars, KeepsAbove
<1> QED BY <1>1, CreateMutexKeeps, WaitKeeps, LockKeeps, UnlockKeeps DEF Calls

LEMMA TriesCall == \A m : TriesLock(m) \/ TriesUnlock(m) => Calls
BY DEF TriesLock, TriesUnlock, Calls

LEMMA WaitsCall ==
    ASSUME NEW t, NEW d, NEW l, Waits(t, d, l)
    PROVE  Calls /\ \E k : at' = [at EXCEPT ![t] = k]
BY DEF Waits, Calls, Goes

LEMMA OthersQuiet ==
    ASSUME simple_mutex \/ dagger \/ cyclone \/ sys_err
    PROVE  Quiet /\ prog # "mutex_chaser"
<1>1. CASE simple_mutex
  <2>1. CASE StartsTasks("simple_mutex", 3)
    BY <2>1 DEF StartsTasks, Runs, local_vars, Quiet
  <2>2. CASE simple_fun1
    BY <2>2, TriesCall, WaitsCall DEF simple_fun1, Runs, Goes, Computes, putchar, Quiet, Calls
  <2>3. CASE simple_fun2
    BY <2>3, TriesCall, WaitsCall DEF simple_fun2, Runs, Goes, Computes, putchar, Quiet, Calls
  <2>4. CASE simple_fun3
    BY <2>4, TriesCall, WaitsCall DEF simple_fun3, Runs, Goes, Computes, putchar, Quiet, Calls
  <2> QED BY <1>1, <2>1, <2>2, <2>3, <2>4 DEF simple_mutex
<1>2. CASE dagger
  <2>1. CASE StartsTasks("dagger", 2)
    BY <2>1 DEF StartsTasks, Runs, local_vars, Quiet
  <2>2. ASSUME NEW t, NEW c, NEW d, dagger_fun(t, c, d) PROVE Quiet /\ prog = "dagger"
    BY <2>2, WaitsCall DEF dagger_fun, Runs, Goes, Computes, putchar, Quiet, Calls
  <2> QED BY <1>2, <2>1, <2>2 DEF dagger
<1>3. CASE cyclone
  <2>1. CASE StartsTasks("cyclone", 1)
    BY <2>1 DEF StartsTasks, Runs, local_vars, Quiet
  <2>2. CASE cyclone_fun1
    BY <2>2 DEF cyclone_fun1, Runs, Goes, Computes, putchar, Quiet, Calls
  <2> QED BY <1>3, <2>1, <2>2 DEF cyclone
<1>4. CASE sys_err
  <2>1. ASSUME NEW t, NEW from, NEW to, NEW r, NEW expected, MustFail(t, from, to, r, expected)
        PROVE  Quiet /\ prog = "sys_err"
    BY <2>1 DEF MustFail, Runs, Goes, Quiet, Calls
  <2>2. CASE sys_err_main
    BY <2>1, <2>2 DEF sys_err_main, Runs, local_vars, Quiet
  <2>3. CASE sys_err_fun1
    BY <2>1, <2>3, TriesCall DEF sys_err_fun1, Runs, Goes, local_vars, Quiet, Calls
  <2> QED BY <1>4, <2>2, <2>3 DEF sys_err
<1> QED BY <1>1, <1>2, <1>3, <1>4

LEMMA OthersKeep ==
    ASSUME LinesInv, simple_mutex \/ dagger \/ cyclone \/ sys_err
    PROVE  LinesInv'
<1>1. Quiet /\ open = <<>>
  BY OthersQuiet DEF LinesInv
<1>2. PlacesInv'
  BY <1>1, CallsKeep, NewSetKeeps DEF Quiet, LinesInv
<1>3. open' = <<>> /\ Len(open') = 0
  BY <1>1 DEF Quiet
<1>4. at' = [t \in {MAIN} \cup Task |-> at'[t]]
  BY <1>1 DEF Quiet, LinesInv
<1> QED BY <1>2, <1>3, <1>4 DEF LinesInv, LinesNest

\* The writers of the open lines are tasks, and none of them is main.
LEMMA WritersAreTasks ==
    ASSUME LinesInv, NEW i \in 1..Len(open)
    PROVE  /\ open[i] \in 1..4 /\ open[i] \in Task /\ open[i] \in Nat
           /\ cur_tcb # NULL /\ cur_tcb \in Nat /\ cur_tcb <= open[i]
<1>1. open[i] \in 1..4
  BY DEF LinesInv
<1>2. NotBelow(open[i])
  BY DEF LinesInv
<1> QED BY <1>1, <1>2, TasksAreTcbs DEF NotBelow, LinesInv, PlacesInv

\* A step of a task of mutex_chaser outside the line it writes.
LEMMA QuietKeeps ==
    ASSUME LinesInv, NEW t \in 1..4, NEW l, cur_tcb = t, at[t] # "line",
           open' = open, prog' = prog, at' = [at EXCEPT ![t] = l], Calls
    PROVE  LinesInv'
<1>1. PlacesInv' /\ KeepsAbove
  BY CallsKeep DEF LinesInv
<1>2. ASSUME NEW i \in 1..Len(open)
      PROVE  at'[open[i]] = "line" /\ NotBelow(open[i])'
  <2>1. open[i] \in Task /\ at[open[i]] = "line" /\ NotBelow(open[i])
    BY WritersAreTasks DEF LinesInv, LinesNest
  <2>2. open[i] # t
    BY <2>1
  <2>3. NotBelow(open[i])'
    BY <1>1, <2>1, <2>2 DEF KeepsAbove, NotBelow
  <2> QED BY <2>1, <2>2, <2>3 DEF LinesInv
<1> QED BY <1>1, <1>2 DEF LinesInv, LinesNest

\* A line is begun by the task that runs, which is above the writers of all open lines.
LEMMA OpenKeeps ==
    ASSUME LinesInv, NEW t \in 1..4, cur_tcb = t, prog = "mutex_chaser", at[t] = "start",
           open' = Append(open, t), at' = [at EXCEPT ![t] = "line"],
           UNCHANGED vars, prog' = prog
    PROVE  LinesInv'
<1>1. PlacesInv' /\ cur_tcb' = cur_tcb /\ run_list' = run_list
  BY DEF LinesInv, PlacesInv, vars, sched_vars
<1>2. open' \in Seq(1..4) /\ Len(open') = Len(open) + 1 /\ Len(open) \in Nat
  BY DEF LinesInv
<1>3. \A i \in 1..Len(open) : open'[i] = open[i]
  BY DEF LinesInv
<1>4. open'[Len(open) + 1] = t
  BY DEF LinesInv
<1>5. NotBelow(t)
  BY TasksAreTcbs DEF NotBelow, LinesInv, PlacesInv
<1>6. ASSUME NEW i \in 1..Len(open)
      PROVE  t < open[i] /\ at'[open[i]] = "line" /\ NotBelow(open[i])
  <2>1. open[i] \in Nat /\ t <= open[i] /\ open[i] \in Task
    BY WritersAreTasks
  <2>2. at[open[i]] = "line" /\ NotBelow(open[i])
    BY DEF LinesInv, LinesNest
  <2>3. open[i] # t
    BY <2>2
  <2> QED BY <2>1, <2>2, <2>3 DEF LinesInv
<1>7. at'[t] = "line" /\ at' = [u \in {MAIN} \cup Task |-> at'[u]]
  BY TasksAreTcbs DEF LinesInv
<1>8. ASSUME NEW i \in 1..Len(open')
      PROVE  /\ at'[open'[i]] = "line"
             /\ cur_tcb' # NULL /\ cur_tcb' <= open'[i] /\ run_list'[open'[i]] # NULL
  BY <1>1, <1>2, <1>3, <1>4, <1>5, <1>6, <1>7 DEF NotBelow
<1>9. ASSUME NEW i \in 1..Len(open'), NEW j \in 1..Len(open'), i < j
      PROVE  open'[j] < open'[i]
  <2>1. CASE j = Len(open) + 1
    BY <1>2, <1>3, <1>4, <1>6, <1>9, <2>1
  <2>2. CASE j # Len(open) + 1
    <3>1. i \in 1..Len(open) /\ j \in 1..Len(open)
      BY <1>2, <1>9, <2>2
    <3> QED BY <1>3, <1>9, <3>1 DEF LinesInv, LinesNest
  <2> QED BY <2>1, <2>2
<1> QED BY <1>1, <1>2, <1>7, <1>8, <1>9 DEF LinesInv, LinesNest, NotBelow

\* The task that ends a line runs, so it is the one that began the youngest of them.
LEMMA CloseKeeps ==
    ASSUME LinesInv, NEW t \in 1..4, cur_tcb = t, prog = "mutex_chaser",
           NEW k \in 1..Len(open), open[k] = t, open' = RemoveAt(open, k),
           at' = [at EXCEPT ![t] = "lock"], UNCHANGED vars, prog' = prog
    PROVE  LinesInv'
<1>1. PlacesInv' /\ cur_tcb' = cur_tcb /\ run_list' = run_list
  BY DEF LinesInv, PlacesInv, vars, sched_vars
<1>2. Len(open) \in Nat /\ Len(open) > 0 /\ open \in Seq(1..4)
  BY DEF LinesInv
<1>3. k = Len(open)
  <2>1. t <= open[Len(open)] /\ open[Len(open)] \in Nat
    BY <1>2, WritersAreTasks
  <2>2. k < Len(open) => open[Len(open)] < open[k]
    BY <1>2 DEF LinesInv, LinesNest
  <2> QED BY <1>2, <2>1, <2>2
<1>4. /\ open' \in Seq(1..4) /\ Len(open') = Len(open) - 1
      /\ \A i \in 1..Len(open') : open'[i] = open[i]
  BY <1>2, <1>3 DEF RemoveAt
<1>5. ASSUME NEW i \in 1..Len(open')
      PROVE  /\ at'[open'[i]] = "line"
             /\ cur_tcb' # NULL /\ cur_tcb' <= open'[i] /\ run_list'[open'[i]] # NULL
  <2>1. i \in 1..Len(open) /\ i < Len(open) /\ open'[i] = open[i]
    BY <1>2, <1>4
  <2>2. at[open[i]] = "line" /\ NotBelow(open[i]) /\ open[i] \in Task
    BY <2>1, WritersAreTasks DEF LinesInv, LinesNest
  <2>3. open[k] < open[i]
    BY <1>2, <1>3, <2>1 DEF LinesInv, LinesNest
  <2>4. open[i] # t
    BY <2>1, <2>3, WritersAreTasks
  <2> QED BY <1>1, <2>1, <2>2, <2>4 DEF LinesInv, NotBelow
<1>6. ASSUME NEW i \in 1..Len(open'), NEW j \in 1..Len(open'), i < j
      PROVE  open'[j] < open'[i]
  BY <1>2, <1>4, <1>6 DEF LinesInv, LinesNest
<1>7. at' = [u \in {MAIN} \cup Task |-> at'[u]]
  BY DEF LinesInv
<1> QED BY <1>1, <1>4, <1>5, <1>6, <1>7 DEF LinesInv, LinesNest, NotBelow

LEMMA ChaserKeeps == ASSUME LinesInv, mutex_chaser PROVE LinesInv'
<1>1. CASE chaser_main
  <2>1. cur_tcb = NULL /\ UNCHANGED local_vars /\ (CreateMutex \/ task_create(4))
    BY <1>1 DEF chaser_main, StartsTasks, Runs
  <2>2. open = <<>>
    <3>1. Len(open) \notin 1..Len(open)
      BY <2>1, WritersAreTasks
    <3> QED BY <3>1 DEF LinesInv
  <2>3. PlacesInv'
    BY <2>1, CreateMutexKeeps, NewSetKeeps DEF LinesInv
  <2>4. open' = <<>> /\ Len(open') = 0 /\ at' = at
    BY <2>1, <2>2 DEF local_vars
  <2> QED BY <2>3, <2>4 DEF LinesInv, LinesNest
<1>2. ASSUME NEW t \in 1..4,
             \/ chaser_line(t) \/ chaser_lock(t) \/ chaser_change(t)
             \/ chaser_unlock(t) \/ chaser_wait(t)
      PROVE  LinesInv'
  <2>1. t # MAIN
    BY DEF MAIN
  <2>2. CASE chaser_line(t)
    <3>1. \/ /\ Runs("mutex_chaser", t, "start") /\ open' = Append(open, t)
             /\ Computes(t, "line")
          \/ /\ Runs("mutex_chaser", t, "line") /\ Computes(t, "lock")
             /\ \E i \in 1..Len(open) : open[i] = t /\ open' = RemoveAt(open, i)
      BY <2>2 DEF chaser_line
    <3> QED BY <2>1, <3>1, OpenKeeps, CloseKeeps DEF Runs, Computes, Goes
  <2>3. CASE chaser_lock(t)
    <3>1. /\ cur_tcb = t /\ at[t] = "lock" /\ prog' = prog /\ open' = open
          /\ \E l : at' = [at EXCEPT ![t] = l]
          /\ Calls
      BY <2>1, <2>3 DEF chaser_lock, Runs, Goes, Calls
    <3> QED BY <3>1, QuietKeeps
  <2>4. CASE chaser_change(t)
    <3>1. /\ cur_tcb = t /\ at[t] \in {"load", "store"} /\ prog' = prog /\ open' = open
          /\ \E l : at' = [at EXCEPT ![t] = l]
          /\ Calls
      BY <2>1, <2>4 DEF chaser_change, Runs, Computes, Goes, Calls
    <3> QED BY <3>1, QuietKeeps
  <2>5. CASE chaser_unlock(t)
    <3>1. /\ cur_tcb = t /\ at[t] = "unlock" /\ prog' = prog /\ open' = open
          /\ \E l : at' = [at EXCEPT ![t] = l]
          /\ Calls
      BY <2>1, <2>5 DEF chaser_unlock, Runs, Goes, Calls
    <3> QED BY <3>1, QuietKeeps
  <2>6. CASE chaser_wait(t)
    <3>1. /\ cur_tcb = t /\ at[t] \in {"start", "wait"} /\ prog' = prog /\ open' = open
          /\ \E l : at' = [at EXCEPT ![t] = l]
          /\ Calls
      BY <2>1, <2>6, WaitsCall DEF chaser_wait, Runs, Computes, Goes, Calls
    <3> QED BY <3>1, QuietKeeps
  <2> QED BY <1>2, <2>2, <2>3, <2>4, <2>5, <2>6
<1> QED BY <1>1, <1>2 DEF mutex_chaser

LEMMA TickKeeps == ASSUME LinesInv, Tick PROVE LinesInv'
<1>1. cur_tcb # NULL /\ Irq /\ UNCHANGED local_vars
  BY DEF Tick, InTime
<1>2. PlacesInv' /\ \A p \in Task : NotBelow(p) => NotBelow(p)'
  BY <1>1, IrqKeeps DEF LinesInv
<1>3. open' = open /\ at' = at /\ prog' = prog
  BY <1>1 DEF local_vars
<1>4. ASSUME NEW i \in 1..Len(open)
      PROVE  cur_tcb' # NULL /\ cur_tcb' <= open[i] /\ run_list'[open[i]] # NULL
  BY <1>2, WritersAreTasks DEF LinesInv, NotBelow
<1> QED BY <1>2, <1>3, <1>4 DEF LinesInv, LinesNest, NotBelow

LEMMA StartsWithoutLines == ASSUME ProgramsInit PROVE LinesInv
<1>1. /\ run_list = [p \in Prio |-> NULL] /\ cur_prio = [t \in Tcb |-> 0] /\ cur_tcb = NULL
  BY DEF ProgramsInit, Part1!Init, Part1!SchedInit, Part1!Prio, Part1!Tcb,
         Part2!Init, Part2!SchedInit, Part2!Prio, Part2!Tcb, Prio, Tcb
<1>2. PlacesInv
  BY <1>1 DEF PlacesInv, TOP_PRIO
<1>3. open = <<>> /\ Len(open) = 0 /\ at = [t \in {MAIN} \cup Task |-> "start"]
  BY DEF ProgramsInit
<1> QED BY <1>2, <1>3 DEF LinesInv, LinesNest

\* However the ticks of either kernel fall, the lines of mutex_chaser's tasks nest: a
\* line is broken up by whole lines of tasks of a higher priority only.
THEOREM LinesOfTasksNest == ProgramsSpec => []LinesNest
<1>1. ASSUME LinesInv, [ProgramsNext]_all_vars PROVE LinesInv'
  <2>1. CASE ProgramsNext
    BY <1>1, <2>1, ChaserKeeps, OthersKeep, TickKeeps DEF ProgramsNext
  <2>2. CASE UNCHANGED all_vars
    BY <1>1, <2>2 DEF all_vars, vars, sched_vars, local_vars, LinesInv, LinesNest, PlacesInv,
                      NotBelow
  <2> QED BY <1>1, <2>1, <2>2
<1>2. LinesInv => LinesNest
  BY DEF LinesInv
<1> QED BY <1>1, <1>2, StartsWithoutLines, PTL DEF ProgramsSpec

-----------------------------------------------------------------------------
(* SleepsAddUp.                                                            *)

\* The milliseconds since boot, and twice the sum of the first k sleeps.
Passed   == timer * OS_TIMER_RESOLUTION
Asked(k) == k * (k + 1) * OS_TIMER_RESOLUTION

\* Between two lines the task carries the promise of the next one: its wake-up time,
\* then the clock itself, is past the sum of the sleeps it has begun.
SleepsInv ==
    prog = "cyclone" =>
        /\ timer \in 0..MaxTicks
        /\ at = [t \in {MAIN} \cup Task |-> at[t]]
        /\ n = [t \in Task |-> n[t]] /\ n[1] \in Nat
        /\ out \in Seq(Nat)
        /\ shared.ct \in Nat
        /\ at[1] \in {"start", "create"} => shared.ct = Len(out)
        /\ at[1] \in {"asleep", "print"} => shared.ct = Len(out) + 1
        /\ at[1] = "asleep" => 2 * n[1] >= Asked(shared.ct)
        /\ at[1] = "print" => 2 * Passed >= Asked(shared.ct)
        /\ 2 * Passed >= Asked(Len(out))
        /\ SleepsAddUp

LEMMA OneMoreSleep ==
    ASSUME NEW k \in Nat
    PROVE  /\ Asked(k) \in Nat /\ Asked(k + 1) \in Nat
           /\ Asked(k + 1) = Asked(k) + 2 * ((k + 1) * OS_TIMER_RESOLUTION)
<1> DEFINE R == OS_TIMER_RESOLUTION
<1>1. R \in Nat
  BY TickAssumption
<1> HIDE DEF R
<1>2. k * (k + 1) * R \in Nat /\ (k + 1) * (k + 1 + 1) * R \in Nat
  BY <1>1
<1>3. (k + 1) * (k + 1 + 1) * R = k * (k + 1) * R + 2 * ((k + 1) * R)
  BY <1>1
<1> QED BY <1>2, <1>3 DEF Asked, R

LEMMA Products ==
    ASSUME NEW a \in Nat, NEW b \in Nat
    PROVE  a * b \in Nat /\ (b = 0 => a * b = 0)
OBVIOUS

\* The clock does not wrap while a test runs.
LEMMA ClockIsExact ==
    ASSUME timer \in 0..MaxTicks
    PROVE  Passed \in Nat /\ get_millis = Passed
<1> DEFINE R == OS_TIMER_RESOLUTION
<1>1. R \in Nat /\ MaxTicks \in Nat /\ ITE \in Nat /\ WORD \in Nat \ {0}
      /\ (MaxTicks + ITE) * R < WORD
  BY TickAssumption, NoWrapAssumption, WordAssumption
<1> HIDE DEF R
<1>2. timer * R \in Nat /\ timer * R <= (MaxTicks + ITE) * R
  BY <1>1
<1>3. timer * R \in 0..(WORD - 1)
  BY <1>1, <1>2
<1>4. (timer * R) % WORD = timer * R
  BY <1>1, <1>3, ModSmall
<1> QED BY <1>2, <1>4 DEF get_millis, Passed, R

\* Nor does a wake-up time.
LEMMA WakeUpIsExact ==
    ASSUME timer \in 0..MaxTicks, NEW k \in 1..ITE
    PROVE  /\ WakeUp(k * OS_TIMER_RESOLUTION) = Passed + k * OS_TIMER_RESOLUTION
           /\ k * OS_TIMER_RESOLUTION \in Nat
<1> DEFINE R == OS_TIMER_RESOLUTION
<1>1. R \in Nat /\ MaxTicks \in Nat /\ ITE \in Nat /\ WORD \in Nat \ {0}
      /\ (MaxTicks + ITE) * R < WORD
  BY TickAssumption, NoWrapAssumption, WordAssumption
<1>2. get_millis = timer * R
  BY ClockIsExact DEF Passed
<1> HIDE DEF R
<1>3. timer * R + k * R \in Nat /\ k * R \in Nat /\ timer * R + k * R <= (MaxTicks + ITE) * R
  BY <1>1
<1>4. timer * R + k * R \in 0..(WORD - 1)
  BY <1>1, <1>3
<1>5. (timer * R + k * R) % WORD = timer * R + k * R
  BY <1>1, <1>4, ModSmall
<1> QED BY <1>2, <1>3, <1>5 DEF WakeUp, Passed, R

\* A system call takes no time that the count would show.
LEMMA CreateKeepsTime == ASSUME NEW k, task_create(k) PROVE timer' = timer
BY DEF task_create, Part1!task_create, Part1!dev_vars, Part2!task_create, Part2!dev_vars

LEMMA IrqAdvances == Irq => timer' = (timer + 1) % WORD
BY DEF Irq, Part1!Irq, Part1!irq_handler, Part1!timer_handler,
       Part2!Irq, Part2!irq_handler, Part2!timer_handler

LEMMA TickSleeps == ASSUME SleepsInv, Tick, prog = "cyclone" PROVE SleepsInv'
<1> DEFINE R == OS_TIMER_RESOLUTION
<1>1. R \in Nat /\ MaxTicks \in Nat /\ ITE \in Nat /\ WORD \in Nat \ {0}
      /\ (MaxTicks + ITE) * R < WORD /\ timer \in 0..MaxTicks /\ timer < MaxTicks
  BY TickAssumption, NoWrapAssumption, WordAssumption DEF Tick, SleepsInv
<1>2. timer' = (timer + 1) % WORD /\ UNCHANGED local_vars
  BY IrqAdvances DEF Tick
<1> HIDE DEF R
<1>3. timer' \in 0..MaxTicks /\ timer' * R >= timer * R
  <2>1. CASE R = 0
    <3>1. timer' \in 0..(timer + 1)
      BY <1>1, <1>2
    <3>2. timer' * R = 0 /\ timer * R = 0
      <4>1. timer' \in Nat /\ timer \in Nat
        BY <1>1, <3>1
      <4> QED BY <2>1, <4>1, Products
    <3>3. timer' \in 0..MaxTicks
      BY <1>1, <3>1
    <3> QED BY <3>2, <3>3
  <2>2. CASE R # 0
    <3>1. MaxTicks + ITE <= (MaxTicks + ITE) * R
      BY <1>1, <2>2
    <3>2. timer + 1 \in 0..(WORD - 1)
      BY <1>1, <3>1
    <3>3. timer' = timer + 1
      BY <1>1, <1>2, <3>2, ModSmall
    <3> QED BY <1>1, <3>3
  <2> QED BY <2>1, <2>2
<1>4. Passed' >= Passed /\ Passed \in Nat /\ Passed' \in Nat
  <2>1. timer' \in Nat /\ timer \in Nat /\ R \in Nat
    BY <1>1, <1>3
  <2>2. timer' * R \in Nat /\ timer * R \in Nat
    BY <2>1, Products
  <2> QED BY <1>3, <2>2 DEF Passed, R
<1>5. Len(out) \in Nat /\ shared.ct \in Nat
  BY DEF SleepsInv
<1>6. Asked(Len(out)) \in Nat /\ Asked(shared.ct) \in Nat
  BY <1>5, OneMoreSleep
<1>7. /\ prog' = prog /\ at' = at /\ n' = n /\ out' = out /\ shared' = shared
      /\ Asked(Len(out))' = Asked(Len(out)) /\ Asked(shared.ct)' = Asked(shared.ct)
  BY <1>2 DEF local_vars, Asked
<1> QED BY <1>3, <1>4, <1>6, <1>7 DEF SleepsInv, SleepsAddUp

\* Task 1 begins its next sleep, or has come to the last one.
LEMMA BeginSleep ==
    ASSUME SleepsInv, prog = "cyclone", prog' = prog, UNCHANGED <<vars, out>>,
           at[1] = "start", shared' = [ct |-> shared.ct + 1],
           IF shared'.ct > ITE THEN Goes(1, "spin") /\ UNCHANGED n
           ELSE /\ n' = [n EXCEPT ![1] = WakeUp(shared'.ct * OS_TIMER_RESOLUTION)]
                /\ Goes(1, "asleep")
    PROVE  SleepsInv'
<1> DEFINE c == shared.ct
           sleep == (c + 1) * OS_TIMER_RESOLUTION
<1>1. /\ c \in Nat /\ c = Len(out) /\ shared'.ct = c + 1 /\ ITE \in Nat
      /\ timer \in 0..MaxTicks /\ 1 \in Task
  BY TasksAreTcbs, NoWrapAssumption DEF SleepsInv
<1>2. /\ timer' = timer /\ Passed' = Passed /\ out' = out /\ Len(out)' = Len(out)
      /\ Asked(Len(out))' = Asked(Len(out)) /\ Asked(shared.ct)' = Asked(c + 1)
  BY <1>1 DEF vars, dev_vars, Passed, Asked
<1>3. 2 * Passed >= Asked(Len(out)) /\ SleepsAddUp'
  BY <1>2 DEF SleepsInv, SleepsAddUp
<1>4. CASE c + 1 > ITE
  <2>1. at' = [at EXCEPT ![1] = "spin"] /\ n' = n
    BY <1>1, <1>4 DEF Goes
  <2>2. at'[1] = "spin" /\ at' = [t \in {MAIN} \cup Task |-> at'[t]]
    BY <1>1, <2>1 DEF SleepsInv
  <2>3. n' = [t \in Task |-> n'[t]] /\ n'[1] \in Nat
    BY <2>1 DEF SleepsInv
  <2> HIDE DEF c, sleep
  <2> QED BY <1>1, <1>2, <1>3, <2>2, <2>3 DEF SleepsInv
<1>5. CASE ~(c + 1 > ITE)
  <2>1. at' = [at EXCEPT ![1] = "asleep"] /\ n' = [n EXCEPT ![1] = WakeUp(sleep)]
    BY <1>1, <1>5 DEF Goes
  <2>2. at'[1] = "asleep" /\ at' = [t \in {MAIN} \cup Task |-> at'[t]]
    BY <1>1, <2>1 DEF SleepsInv
  <2>3. c + 1 \in 1..ITE
    BY <1>1, <1>5
  <2>4. WakeUp(sleep) = Passed + sleep /\ sleep \in Nat /\ Passed \in Nat
    <3> HIDE DEF c
    <3> QED BY <1>1, <2>3, WakeUpIsExact, ClockIsExact DEF sleep
  <2>5. n' = [t \in Task |-> n'[t]] /\ n'[1] = Passed + sleep
    BY <1>1, <2>1, <2>4 DEF SleepsInv
  <2>6. Asked(c + 1) = Asked(c) + 2 * sleep /\ Asked(c) \in Nat
    BY <1>1, OneMoreSleep
  <2> HIDE DEF c, sleep
  <2>7. 2 * n'[1] >= Asked(c + 1) /\ n'[1] \in Nat
    BY <1>1, <1>3, <2>4, <2>5, <2>6
  <2> QED BY <1>1, <1>2, <1>3, <2>2, <2>5, <2>7 DEF SleepsInv
<1> QED BY <1>4, <1>5

LEMMA WakesUp ==
    ASSUME SleepsInv, prog = "cyclone", prog' = prog, UNCHANGED <<vars, n, shared, out>>,
           at[1] = "asleep", get_millis >= n[1], Goes(1, "print")
    PROVE  SleepsInv'
<1>1. /\ timer' = timer /\ Passed' = Passed /\ out' = out /\ n' = n /\ shared' = shared
      /\ Asked(Len(out))' = Asked(Len(out)) /\ Asked(shared.ct)' = Asked(shared.ct)
  BY DEF vars, dev_vars, Passed, Asked
<1>2. 2 * Passed >= Asked(shared.ct)
  <2>1. Passed \in Nat /\ Passed >= n[1] /\ n[1] \in Nat
    BY ClockIsExact DEF SleepsInv
  <2>2. Asked(shared.ct) \in Nat /\ 2 * n[1] >= Asked(shared.ct)
    BY OneMoreSleep DEF SleepsInv
  <2> QED BY <2>1, <2>2
<1>3. at'[1] = "print" /\ at' = [t \in {MAIN} \cup Task |-> at'[t]]
  <2>1. 1 \in Task
    BY TasksAreTcbs
  <2>2. at' = [at EXCEPT ![1] = "print"] /\ at = [t \in {MAIN} \cup Task |-> at[t]]
    BY DEF SleepsInv, Goes
  <2> QED BY <2>1, <2>2
<1> QED BY <1>1, <1>2, <1>3 DEF SleepsInv, SleepsAddUp

LEMMA PrintsTime ==
    ASSUME SleepsInv, prog = "cyclone", prog' = prog, UNCHANGED <<vars, n, shared>>,
           at[1] = "print", out' = Append(out, get_millis), Goes(1, "create")
    PROVE  SleepsInv'
<1>1. /\ timer' = timer /\ Passed' = Passed /\ n' = n /\ shared' = shared
  BY DEF vars, dev_vars, Passed
<1>2. get_millis = Passed /\ Passed \in Nat
  BY ClockIsExact DEF SleepsInv
<1>3. /\ out' \in Seq(Nat) /\ Len(out) \in Nat /\ Len(out') = Len(out) + 1
      /\ out'[Len(out) + 1] = Passed /\ \A k \in 1..Len(out) : out'[k] = out[k]
  BY <1>2 DEF SleepsInv
<1>4. shared.ct = Len(out) + 1 /\ 2 * Passed >= Asked(shared.ct)
  BY DEF SleepsInv
<1>5. ASSUME NEW k \in 1..Len(out') PROVE 2 * out'[k] >= Asked(k)
  <2>1. CASE k = Len(out) + 1
    BY <1>3, <1>4, <2>1
  <2>2. CASE k # Len(out) + 1
    <3>1. k \in 1..Len(out)
      BY <1>3, <2>2
    <3> QED BY <1>3, <3>1 DEF SleepsInv, SleepsAddUp, Asked
  <2> QED BY <2>1, <2>2
<1>6. at'[1] = "create" /\ at' = [t \in {MAIN} \cup Task |-> at'[t]]
  <2>1. 1 \in Task
    BY TasksAreTcbs
  <2>2. at' = [at EXCEPT ![1] = "create"] /\ at = [t \in {MAIN} \cup Task |-> at[t]]
    BY DEF SleepsInv, Goes
  <2> QED BY <2>1, <2>2
<1>7. SleepsAddUp'
  BY <1>5 DEF SleepsAddUp, Asked
<1>8. shared'.ct = Len(out') /\ 2 * Passed' >= Asked(Len(out'))
  BY <1>1, <1>3, <1>4
<1>9. Asked(Len(out))' = Asked(Len(out'))
  BY DEF Asked
<1> QED BY <1>1, <1>3, <1>6, <1>7, <1>8, <1>9 DEF SleepsInv

\* The task, or main at first, creates the set anew.
LEMMA StartsAgain ==
    ASSUME SleepsInv, prog = "cyclone", prog' = prog, task_create(1), UNCHANGED <<n, shared, out>>,
           at' = at \/ (at[1] = "create" /\ Goes(1, "start"))
    PROVE  SleepsInv'
<1>1. /\ timer' = timer /\ Passed' = Passed /\ n' = n /\ shared' = shared /\ out' = out
      /\ Asked(Len(out))' = Asked(Len(out)) /\ Asked(shared.ct)' = Asked(shared.ct)
  BY CreateKeepsTime DEF Passed, Asked
<1>2. \/ at' = at
      \/ at[1] = "create" /\ at'[1] = "start" /\ at' = [t \in {MAIN} \cup Task |-> at'[t]]
  BY TasksAreTcbs DEF SleepsInv, Goes
<1> QED BY <1>1, <1>2 DEF SleepsInv, SleepsAddUp

LEMMA CycloneKeeps == ASSUME SleepsInv, cyclone PROVE SleepsInv'
<1>1. CASE StartsTasks("cyclone", 1)
  BY <1>1, StartsAgain DEF StartsTasks, Runs, local_vars
<1>2. CASE cyclone_fun1
  <2>1. \/ /\ at[1] = "start" /\ shared' = [ct |-> shared.ct + 1]
           /\ IF shared'.ct > ITE THEN Goes(1, "spin") /\ UNCHANGED n
              ELSE /\ n' = [n EXCEPT ![1] = WakeUp(shared'.ct * OS_TIMER_RESOLUTION)]
                   /\ Goes(1, "asleep")
           /\ UNCHANGED <<vars, out>>
        \/ /\ at[1] = "asleep" /\ get_millis >= n[1] /\ Goes(1, "print")
           /\ UNCHANGED <<vars, n, shared, out>>
        \/ /\ at[1] = "print" /\ out' = Append(out, get_millis) /\ Goes(1, "create")
           /\ UNCHANGED <<vars, n, shared>>
        \/ /\ at[1] = "create" /\ task_create(1) /\ Goes(1, "start")
           /\ UNCHANGED <<n, shared, out>>
    BY <1>2 DEF cyclone_fun1, Runs, Computes, putchar
  <2>2. prog = "cyclone" /\ prog' = prog
    BY <1>2 DEF cyclone_fun1, Runs, Computes
  <2> QED BY <2>1, <2>2, BeginSleep, WakesUp, PrintsTime, StartsAgain
<1> QED BY <1>1, <1>2 DEF cyclone

\* The other programs are not cyclone.
LEMMA OthersAreOthers ==
    mutex_chaser \/ simple_mutex \/ dagger \/ sys_err => prog # "cyclone" /\ prog' = prog
<1>1. mutex_chaser => prog = "mutex_chaser" /\ prog' = prog
  BY DEF mutex_chaser, chaser_main, chaser_line, chaser_lock, chaser_change, chaser_unlock,
         chaser_wait, StartsTasks, Runs, Computes, local_vars
<1>2. simple_mutex => prog = "simple_mutex" /\ prog' = prog
  BY DEF simple_mutex, simple_fun1, simple_fun2, simple_fun3, StartsTasks, Runs, Computes,
         local_vars
<1>3. dagger => prog = "dagger" /\ prog' = prog
  BY DEF dagger, dagger_fun, StartsTasks, Runs, Computes, local_vars
<1>4. sys_err => prog = "sys_err" /\ prog' = prog
  BY DEF sys_err, sys_err_main, sys_err_fun1, MustFail, Runs, local_vars
<1> QED BY <1>1, <1>2, <1>3, <1>4

LEMMA NothingSleptYet == ASSUME ProgramsInit PROVE SleepsInv
<1>1. /\ timer = 0 /\ at = [t \in {MAIN} \cup Task |-> "start"] /\ n = [t \in Task |-> 1]
      /\ out = <<>> /\ Len(out) = 0 /\ 1 \in Task /\ MaxTicks \in Nat /\ TickAssumption
  BY TasksAreTcbs, NoWrapAssumption, TickAssumption
     DEF ProgramsInit, Part1!Init, Part1!dev_init, Part2!Init, Part2!dev_init
<1>2. prog = "cyclone" => shared.ct = 0
  BY DEF ProgramsInit, GlobalsOf
<1>3. Passed = 0 /\ Asked(0) = 0
  <2>1. OS_TIMER_RESOLUTION \in Nat
    BY TickAssumption
  <2> QED BY <1>1, <2>1 DEF Passed, Asked
<1> QED BY <1>1, <1>2, <1>3 DEF SleepsInv, SleepsAddUp

\* However the ticks fall and however late the task polls, on either kernel: cyclone's
\* k-th line shows no less than the sum of the first k sleeps, for every tick and every
\* number of sleeps that ends before the count wraps.
THEOREM SleepsOfCycloneAddUp == ProgramsSpec => []SleepsAddUp
<1>1. ASSUME SleepsInv, [ProgramsNext]_all_vars PROVE SleepsInv'
  <2>1. CASE cyclone
    BY <1>1, <2>1, CycloneKeeps
  <2>2. CASE mutex_chaser \/ simple_mutex \/ dagger \/ sys_err
    BY <2>2, OthersAreOthers DEF SleepsInv
  <2>3. CASE Tick
    <3>1. prog' = prog
      BY <2>3 DEF Tick, local_vars
    <3> QED BY <1>1, <2>3, <3>1, TickSleeps DEF SleepsInv
  <2>4. CASE UNCHANGED all_vars
    BY <1>1, <2>4 DEF all_vars, vars, dev_vars, local_vars, SleepsInv, SleepsAddUp, Passed, Asked
  <2> QED BY <1>1, <2>1, <2>2, <2>3, <2>4 DEF ProgramsNext
<1>2. SleepsInv => SleepsAddUp
  BY DEF SleepsInv, SleepsAddUp
<1> QED BY <1>1, <1>2, NothingSleptYet, PTL DEF ProgramsSpec
=============================================================================
