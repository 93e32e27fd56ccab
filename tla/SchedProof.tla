----------------------------- MODULE SchedProof -----------------------------
(***************************************************************************)
(* Proofs about the two algorithms of sched/ that MCSched runs.  The       *)
(* bitmap of run_queue.c answers correctly for every number of groups,     *)
(* every set of control blocks and every sequence of adds and removes.     *)
(* assign_schedule sorts: for every list of tasks, of any length, what the *)
(* utilisation test and allocate_tasks see is the caller's list in order   *)
(* of period.                                                              *)
(***************************************************************************)
EXTENDS UbTest, RunQueueParams, TLAPS

VARIABLES run_list, run_bits, group_run_bits

Queue == INSTANCE RunQueue

-----------------------------------------------------------------------------
(* The run queue.                                                          *)

\* A priority is its group and its bit within the group.
LEMMA PrioSplit ==
    ASSUME NEW p \in Queue!Prio
    PROVE  /\ Queue!groupNum(p) \in Queue!Group
           /\ Queue!groupNum(p) \in 0..7
           /\ Queue!bitNum(p) \in 0..7
           /\ p = 8 * Queue!groupNum(p) + Queue!bitNum(p)
<1>1. PICK k \in 1..8 : OS_MAX_TASKS = 8 * k
  BY MaxTasksAssumption
<1>2. OS_MAX_TASKS \div 8 = k
  BY <1>1
<1>3. p \in Nat /\ p <= 8 * k - 1
  BY <1>1 DEF Queue!Prio
<1>4. p = 8 * (p \div 8) + (p % 8) /\ p % 8 \in 0..7 /\ p \div 8 \in 0..(k - 1)
  BY <1>3, SMT
<1> QED
  BY <1>2, <1>4 DEF Queue!Group, Queue!groupNum, Queue!bitNum

\* A group and a bit make a priority, whose group and bit they are.
LEMMA PrioJoin ==
    ASSUME NEW g \in Queue!Group, NEW b \in 0..7
    PROVE  /\ 8 * g + b \in Queue!Prio
           /\ Queue!groupNum(8 * g + b) = g
           /\ Queue!bitNum(8 * g + b) = b
<1>1. PICK k \in 1..8 : OS_MAX_TASKS = 8 * k
  BY MaxTasksAssumption
<1>2. g \in 0..(k - 1)
  BY <1>1 DEF Queue!Group
<1>3. 8 * g + b \in 0..(8 * k - 1)
  BY <1>2
<1>4. (8 * g + b) \div 8 = g /\ (8 * g + b) % 8 = b
  BY <1>2, SMT
<1> QED
  BY <1>1, <1>3, <1>4 DEF Queue!Prio, Queue!groupNum, Queue!bitNum

\* prio_unmap returns the least element of a byte that is not zero.
LEMMA UnmapIsLowest ==
    ASSUME NEW byte \in SUBSET (0..7), byte # {}
    PROVE  Queue!prio_unmap(byte) \in byte /\ \A c \in byte : Queue!prio_unmap(byte) <= c
<1>1. \E b \in byte : \A c \in byte : b <= c
  <2> SUFFICES ASSUME \A b \in byte : \E c \in byte : ~(b <= c) PROVE FALSE
    OBVIOUS
  <2>1. \A b \in byte : \E c \in byte : c \in 0..7 /\ b \in 0..7 /\ c < b
    OBVIOUS
  <2>2. 0 \notin byte /\ 1 \notin byte
    BY <2>1
  <2>3. 2 \notin byte /\ 3 \notin byte
    BY <2>1, <2>2
  <2>4. 4 \notin byte /\ 5 \notin byte
    BY <2>1, <2>2, <2>3
  <2>5. 6 \notin byte /\ 7 \notin byte
    BY <2>1, <2>2, <2>3, <2>4
  <2>6. PICK b \in byte : b \in 0..7
    OBVIOUS
  <2> QED
    BY <2>2, <2>3, <2>4, <2>5, <2>6
<1> QED
  BY <1>1 DEF Queue!prio_unmap

\* The two lookups of highest_prio find the least occupied slot.
THEOREM BitmapImpliesHighest == Queue!TypeOK /\ Queue!BitmapMatchesSlots => Queue!HighestIsMin
<1> SUFFICES ASSUME Queue!TypeOK, Queue!BitmapMatchesSlots PROVE Queue!HighestIsMin
  OBVIOUS
<1> DEFINE ready == {p \in Queue!Prio : run_list[p] # NULL}
<1>1. CASE ready = {}
  <2>1. group_run_bits = {}
    <3> SUFFICES ASSUME NEW g \in group_run_bits PROVE FALSE
      OBVIOUS
    <3>1. g \in Queue!Group /\ run_bits[g] # {} /\ run_bits[g] \in SUBSET (0..7)
      BY DEF Queue!TypeOK, Queue!BitmapMatchesSlots
    <3>2. PICK b \in 0..7 : b \in run_bits[g]
      BY <3>1
    <3>3. 8 * g + b \in ready
      BY <3>1, <3>2, PrioJoin DEF Queue!BitmapMatchesSlots
    <3> QED
      BY <3>3, <1>1
  <2> QED
    BY <2>1, <1>1 DEF Queue!HighestIsMin, Queue!highest_prio
<1>2. CASE ready # {}
  <2> DEFINE g == Queue!prio_unmap(group_run_bits)
             b == Queue!prio_unmap(run_bits[g])
  <2>1. \A p \in ready : /\ Queue!groupNum(p) \in group_run_bits
                         /\ Queue!bitNum(p) \in run_bits[Queue!groupNum(p)]
    BY PrioSplit DEF Queue!BitmapMatchesSlots, Queue!TypeOK
  <2>2. group_run_bits # {} /\ group_run_bits \in SUBSET (0..7)
    BY <1>2, <2>1 DEF Queue!TypeOK
  <2>3. g \in group_run_bits /\ \A c \in group_run_bits : g <= c
    BY <2>2, UnmapIsLowest
  <2>4. g \in Queue!Group /\ g \in 0..7 /\ run_bits[g] # {} /\ run_bits[g] \in SUBSET (0..7)
    BY <2>2, <2>3 DEF Queue!BitmapMatchesSlots, Queue!TypeOK
  <2>5. b \in run_bits[g] /\ b \in 0..7 /\ \A c \in run_bits[g] : b <= c
    BY <2>4, UnmapIsLowest
  <2>6. Queue!highest_prio = 8 * g + b
    BY <2>2 DEF Queue!highest_prio
  <2> HIDE DEF g, b
  <2>7. 8 * g + b \in ready
    BY <2>4, <2>5, PrioJoin DEF Queue!BitmapMatchesSlots
  <2>8. ASSUME NEW p \in ready PROVE 8 * g + b <= p
    <3>1. /\ p = 8 * Queue!groupNum(p) + Queue!bitNum(p)
          /\ Queue!groupNum(p) \in 0..7 /\ Queue!bitNum(p) \in 0..7
      BY PrioSplit
    <3>2. g <= Queue!groupNum(p)
      BY <2>1, <2>3
    <3>3. Queue!groupNum(p) = g => b <= Queue!bitNum(p)
      BY <2>1, <2>5
    <3> QED
      BY <3>1, <3>2, <3>3, <2>4, <2>5
  <2> QED
    BY <1>2, <2>6, <2>7, <2>8 DEF Queue!HighestIsMin
<1> QED
  BY <1>1, <1>2

\* An add keeps the types and the agreement of bitmap and slots.
LEMMA AddPreserves ==
    ASSUME Queue!TypeOK, Queue!BitmapMatchesSlots, NEW prio \in Queue!Prio, NEW tcb \in TCB,
           Queue!runqueue_add(tcb, prio)
    PROVE  Queue!TypeOK' /\ Queue!BitmapMatchesSlots'
<1>1. /\ Queue!groupNum(prio) \in Queue!Group
      /\ Queue!groupNum(prio) \in 0..7 /\ Queue!bitNum(prio) \in 0..7
  BY PrioSplit
<1>2. Queue!TypeOK'
  BY <1>1 DEF Queue!TypeOK, Queue!runqueue_add
<1>3. ASSUME NEW p \in Queue!Prio
      PROVE  run_list'[p] # NULL <=> Queue!bitNum(p) \in run_bits'[Queue!groupNum(p)]
  <2>1. Queue!groupNum(p) \in Queue!Group /\ p = 8 * Queue!groupNum(p) + Queue!bitNum(p)
    BY PrioSplit
  <2>2. prio = 8 * Queue!groupNum(prio) + Queue!bitNum(prio)
    BY PrioSplit
  <2>3. CASE p = prio
    BY <1>1, <2>1, <2>3, NullAssumption DEF Queue!TypeOK, Queue!runqueue_add
  <2>4. CASE p # prio
    <3>1. ~(Queue!groupNum(p) = Queue!groupNum(prio) /\ Queue!bitNum(p) = Queue!bitNum(prio))
      BY <2>1, <2>2, <2>4
    <3> QED
      BY <3>1, <1>1, <2>1, <2>4 DEF Queue!TypeOK, Queue!BitmapMatchesSlots, Queue!runqueue_add
  <2> QED
    BY <2>3, <2>4
<1>4. ASSUME NEW g \in 0..7
      PROVE  g \in group_run_bits' <=> (g \in Queue!Group /\ run_bits'[g] # {})
  BY <1>1 DEF Queue!TypeOK, Queue!BitmapMatchesSlots, Queue!runqueue_add
<1> QED
  BY <1>2, <1>3, <1>4 DEF Queue!BitmapMatchesSlots

\* So does a remove, which clears the group flag with the last bit of its byte.
LEMMA RemovePreserves ==
    ASSUME Queue!TypeOK, Queue!BitmapMatchesSlots, NEW prio \in Queue!Prio,
           Queue!runqueue_remove(prio)
    PROVE  Queue!TypeOK' /\ Queue!BitmapMatchesSlots'
<1>1. /\ Queue!groupNum(prio) \in Queue!Group
      /\ Queue!groupNum(prio) \in 0..7 /\ Queue!bitNum(prio) \in 0..7
  BY PrioSplit
<1>2. Queue!TypeOK'
  BY <1>1 DEF Queue!TypeOK, Queue!runqueue_remove
<1>3. ASSUME NEW p \in Queue!Prio
      PROVE  run_list'[p] # NULL <=> Queue!bitNum(p) \in run_bits'[Queue!groupNum(p)]
  <2>1. Queue!groupNum(p) \in Queue!Group /\ p = 8 * Queue!groupNum(p) + Queue!bitNum(p)
    BY PrioSplit
  <2>2. prio = 8 * Queue!groupNum(prio) + Queue!bitNum(prio)
    BY PrioSplit
  <2>3. CASE p = prio
    BY <1>1, <2>1, <2>3 DEF Queue!TypeOK, Queue!runqueue_remove
  <2>4. CASE p # prio
    <3>1. ~(Queue!groupNum(p) = Queue!groupNum(prio) /\ Queue!bitNum(p) = Queue!bitNum(prio))
      BY <2>1, <2>2, <2>4
    <3> QED
      BY <3>1, <1>1, <2>1, <2>4 DEF Queue!TypeOK, Queue!BitmapMatchesSlots, Queue!runqueue_remove
  <2> QED
    BY <2>3, <2>4
<1>4. ASSUME NEW g \in 0..7
      PROVE  g \in group_run_bits' <=> (g \in Queue!Group /\ run_bits'[g] # {})
  BY <1>1 DEF Queue!TypeOK, Queue!BitmapMatchesSlots, Queue!runqueue_remove
<1> QED
  BY <1>2, <1>3, <1>4 DEF Queue!BitmapMatchesSlots

\* Types and agreement hold after any sequence of runqueue_add and
\* runqueue_remove calls (run_queue.c).
THEOREM BitmapCorrect == Queue!Spec => [](Queue!TypeOK /\ Queue!BitmapMatchesSlots)
<1>1. Queue!Init => Queue!TypeOK /\ Queue!BitmapMatchesSlots
  BY PrioSplit DEF Queue!Init, Queue!TypeOK, Queue!BitmapMatchesSlots
<1>2. Queue!TypeOK /\ Queue!BitmapMatchesSlots /\ [Queue!Next]_Queue!vars
        => Queue!TypeOK' /\ Queue!BitmapMatchesSlots'
  <2> SUFFICES ASSUME Queue!TypeOK, Queue!BitmapMatchesSlots, [Queue!Next]_Queue!vars
               PROVE  Queue!TypeOK' /\ Queue!BitmapMatchesSlots'
    OBVIOUS
  <2>1. CASE Queue!Next
    <3>1. PICK prio \in UsedPrio : \/ \E tcb \in TCB : Queue!runqueue_add(tcb, prio)
                                   \/ Queue!runqueue_remove(prio)
      BY <2>1 DEF Queue!Next
    <3>2. prio \in Queue!Prio
      BY UsedPrioAssumption DEF Queue!Prio
    <3> QED
      BY <3>1, <3>2, AddPreserves, RemovePreserves
  <2>2. CASE UNCHANGED Queue!vars
    BY <2>2 DEF Queue!vars, Queue!TypeOK, Queue!BitmapMatchesSlots
  <2> QED
    BY <2>1, <2>2
<1> QED
  BY <1>1, <1>2, PTL DEF Queue!Spec

\* highest_prio is right in every reachable state of the run queue: the
\* scheduler never dispatches past a ready task of a lower number.
THEOREM HighestCorrect == Queue!Spec => []Queue!HighestIsMin
  BY BitmapCorrect, BitmapImpliesHighest, PTL

-----------------------------------------------------------------------------
(* The schedulability test.                                                *)

\* Rows above i are in place, and tasks[i] is least among those compared so far.
RowsDone ==
    /\ \A a, b \in Index : a < i /\ a < b => tasks[a].T <= tasks[b].T
    /\ \A b \in Index : i < b /\ b < j => tasks[i].T <= tasks[b].T

SortInv ==
    /\ TypeOK
    /\ Reordered
    /\ IF pc = "sort" THEN i < j /\ (i < num_tasks \/ num_tasks = 0) /\ RowsDone
                      ELSE \A a, b \in Index : a < b => tasks[a].T <= tasks[b].T

LEMMA TaskFields ==
    ASSUME NEW t \in TaskRec
    PROVE  t.C \in Nat /\ t.T \in Nat /\ t.B \in Nat
  BY TaskAssumption

LEMMA PlusType ==
    ASSUME NEW x \in Double, NEW y \in Double
    PROVE  Plus(x, y) \in Double
<1>1. x[1] \in Nat /\ x[2] \in Nat /\ y[1] \in Nat /\ y[2] \in Nat
  BY DEF Double
<1>2. x[1] * y[2] + y[1] * x[2] \in Nat /\ x[2] * y[2] \in Nat
  BY <1>1
<1> QED
  BY <1>2 DEF Plus, Double

LEMMA QuotientType ==
    ASSUME NEW a \in Nat, NEW b \in Nat
    PROVE  Quotient(a, b) \in Double
  BY DEF Quotient, Double

LEMMA InitSorted == Init => SortInv
<1> SUFFICES ASSUME Init PROVE SortInv
  OBVIOUS
<1>1. num_tasks \in Nat
  BY AvailAssumption DEF Init, TooMany
<1>2. TypeOK
  BY <1>1, AvailAssumption DEF Init, TooMany, TypeOK, Index, Double
<1>3. Reordered
  <2> DEFINE id == [a \in Index |-> a]
  <2>1. id \in [Index -> Index] /\ \A a, b \in Index : id[a] = id[b] => a = b
    OBVIOUS
  <2>2. tasks = [a \in Index |-> given[id[a]]]
    BY DEF Init, Index
  <2> QED
    BY <2>1, <2>2 DEF Reordered
<1> QED
  BY <1>1, <1>2, <1>3 DEF SortInv, RowsDone, Init, Index

\* An exchange permutes the list.
LEMMA ExchangeReorders ==
    ASSUME TypeOK, Reordered, NEW a \in Index, NEW b \in Index,
           tasks' = Exchange(a, b), UNCHANGED <<given, num_tasks>>
    PROVE  Reordered'
<1>1. PICK p \in [Index -> Index] :
          /\ \A c, d \in Index : p[c] = p[d] => c = d
          /\ tasks = [c \in Index |-> given[p[c]]]
  BY DEF Reordered
<1> DEFINE q == [p EXCEPT ![a] = p[b], ![b] = p[a]]
<1>2. q \in [Index -> Index] /\ \A c, d \in Index : q[c] = q[d] => c = d
  BY <1>1
<1>3. Exchange(a, b) = [c \in Index |-> given[q[c]]]
  BY <1>1 DEF Exchange
<1>4. Index' = Index /\ given' = given
  BY DEF Index
<1>5. tasks' = [c \in Index' |-> given'[q[c]]]
  BY <1>3, <1>4
<1> HIDE DEF q
<1>6. q \in [Index' -> Index'] /\ \A c, d \in Index' : q[c] = q[d] => c = d
  BY <1>2, <1>4
<1> QED
  BY <1>5, <1>6 DEF Reordered

LEMMA CompareExchangeSorts ==
    ASSUME SortInv, CompareExchange
    PROVE  SortInv'
<1>1. /\ num_tasks \in Nat /\ i \in Nat /\ j \in Nat /\ i < j /\ j < num_tasks
      /\ i \in Index /\ j \in Index /\ Index' = Index
  BY AvailAssumption DEF SortInv, TypeOK, CompareExchange, Index
<1>2. \A a \in Index : tasks[a] \in TaskRec /\ tasks[a].T \in Nat
  BY TaskFields DEF SortInv, TypeOK
<1>3. tasks' \in [Index -> TaskRec]
  BY <1>1, <1>2 DEF CompareExchange, Exchange, SortInv, TypeOK
<1>4. TypeOK'
  BY <1>1, <1>3 DEF CompareExchange, SortInv, TypeOK
<1>5. Reordered'
  <2>1. TypeOK /\ Reordered /\ UNCHANGED <<given, num_tasks>>
    BY DEF SortInv, CompareExchange
  <2>2. CASE tasks[i].T > tasks[j].T
    <3>1. tasks' = Exchange(i, j)
      BY <2>2 DEF CompareExchange
    <3> QED BY <1>1, <2>1, <3>1, ExchangeReorders
  <2>3. CASE ~(tasks[i].T > tasks[j].T)
    <3>1. tasks' = tasks /\ given' = given /\ Index' = Index
      BY <1>1, <2>1, <2>3 DEF CompareExchange
    <3> QED BY <2>1, <3>1 DEF Reordered
  <2> QED BY <2>2, <2>3
<1>6. /\ tasks'[i].T <= tasks[i].T /\ tasks'[i].T <= tasks'[j].T
      /\ \A a \in Index \ {i, j} : tasks'[a] = tasks[a]
      /\ \E a \in {i, j} : tasks'[j] = tasks[a]
      /\ \E a \in {i, j} : tasks'[i] = tasks[a]
  BY <1>1, <1>2 DEF CompareExchange, Exchange, SortInv, TypeOK
<1>7. RowsDone'
  <2>1. RowsDone
    BY DEF SortInv, CompareExchange
  <2>2. ASSUME NEW a \in Index, NEW b \in Index, a < i, a < b
        PROVE  tasks'[a].T <= tasks'[b].T
    <3>1. tasks'[a] = tasks[a]
      BY <1>1, <1>6, <2>2 DEF Index
    <3>2. PICK c \in Index : tasks'[b] = tasks[c] /\ a < c
      BY <1>1, <1>6, <2>2 DEF Index
    <3> QED
      BY <2>1, <2>2, <3>1, <3>2 DEF RowsDone
  <2>3. ASSUME NEW b \in Index, i < b, b < j + 1
        PROVE  tasks'[i].T <= tasks'[b].T
    <3>1. CASE b = j
      BY <1>6, <3>1
    <3>2. CASE b # j
      <4>1. tasks'[b] = tasks[b] /\ b < j
        BY <1>1, <1>6, <2>3, <3>2 DEF Index
      <4>2. tasks[i].T <= tasks[b].T
        BY <2>1, <2>3, <4>1 DEF RowsDone
      <4>3. tasks'[i] \in TaskRec /\ tasks'[i].T \in Nat
        BY <1>1, <1>2, <1>6
      <4> QED
        BY <1>1, <1>2, <1>6, <4>1, <4>2, <4>3
    <3> QED
      BY <3>1, <3>2
  <2>4. i' = i /\ j' = j + 1
    BY DEF CompareExchange
  <2> QED
    BY <1>1, <2>2, <2>3, <2>4 DEF RowsDone
<1> QED
  BY <1>1, <1>4, <1>5, <1>7 DEF CompareExchange, SortInv

LEMMA NextRowSorts ==
    ASSUME SortInv, NextRow
    PROVE  SortInv'
<1>1. /\ num_tasks \in Nat /\ i \in Nat /\ j \in Nat /\ i < num_tasks /\ j >= num_tasks
      /\ Index' = Index /\ UNCHANGED <<given, num_tasks, tasks>>
  BY AvailAssumption DEF SortInv, TypeOK, NextRow, Index
<1>2. TypeOK'
  BY <1>1 DEF NextRow, SortInv, TypeOK
<1>3. Reordered'
  BY <1>1 DEF SortInv, Reordered
<1>4. \A a, b \in Index : a < i + 1 /\ a < b => tasks[a].T <= tasks[b].T
  BY <1>1 DEF SortInv, RowsDone, NextRow, Index
<1>5. CASE i + 1 < num_tasks
  <2>1. RowsDone'
    BY <1>1, <1>4, <1>5 DEF RowsDone, NextRow, Index
  <2> QED
    BY <1>1, <1>2, <1>3, <1>5, <2>1 DEF SortInv, NextRow
<1>6. CASE ~(i + 1 < num_tasks)
  <2>1. \A a, b \in Index : a < b => tasks[a].T <= tasks[b].T
    BY <1>1, <1>4, <1>6 DEF Index
  <2> QED
    BY <1>1, <1>2, <1>3, <1>6, <2>1 DEF SortInv, NextRow
<1> QED
  BY <1>5, <1>6

LEMMA TestKeepsOrder ==
    ASSUME SortInv, TestTask \/ Accept
    PROVE  SortInv'
<1>1. Index' = Index /\ UNCHANGED <<given, num_tasks, tasks, j>> /\ num_tasks \in Nat
  BY AvailAssumption DEF TestTask, Accept, Index, SortInv, TypeOK
<1>2. TypeOK'
  <2>1. CASE TestTask
    <3>1. i \in Index /\ tasks[i] \in TaskRec
      BY <1>1, <2>1 DEF TestTask, Index, SortInv, TypeOK
    <3>2. sum' \in Double
      BY <2>1, <3>1, TaskFields, PlusType, QuotientType DEF TestTask, SortInv, TypeOK
    <3>3. i' \in 0..num_tasks /\ pc' \in {"test", "rejected"}
      BY <1>1, <2>1 DEF TestTask, SortInv, TypeOK
    <3> QED
      BY <1>1, <3>2, <3>3 DEF SortInv, TypeOK
  <2>2. CASE Accept
    BY <1>1, <2>2 DEF Accept, SortInv, TypeOK
  <2> QED
    BY <2>1, <2>2
<1>3. Reordered'
  BY <1>1 DEF SortInv, Reordered
<1>4. \A a, b \in Index : a < b => tasks[a].T <= tasks[b].T
  BY <1>1 DEF SortInv, TestTask, Accept, Index
<1> QED
  BY <1>1, <1>2, <1>3, <1>4 DEF SortInv, TestTask, Accept

LEMMA StepSorts == SortInv /\ [Next]_vars => SortInv'
<1> SUFFICES ASSUME SortInv, [Next]_vars PROVE SortInv'
  OBVIOUS
<1>1. CASE UNCHANGED vars
  <2>1. Index' = Index
    BY <1>1 DEF vars, Index
  <2> QED
    BY <1>1, <2>1 DEF vars, SortInv, TypeOK, Reordered, RowsDone
<1> QED
  BY <1>1, CompareExchangeSorts, NextRowSorts, TestKeepsOrder DEF Next

\* assign_schedule hands on a reordering of the caller's list, by period.
THEOREM SortCorrect == Spec => []SortedByPeriod
<1>1. SortInv => SortedByPeriod
  BY DEF SortInv, SortedByPeriod
<1> QED
  BY <1>1, InitSorted, StepSorts, PTL DEF Spec

\* The counters stay within the list.
THEOREM TypeCorrect == Spec => []TypeOK
<1>1. SortInv => TypeOK
  BY DEF SortInv
<1> QED
  BY <1>1, InitSorted, StepSorts, PTL DEF Spec
=============================================================================
