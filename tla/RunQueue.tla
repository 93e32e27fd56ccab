------------------------------ MODULE RunQueue ------------------------------
(***************************************************************************)
(* The run queue of the lab4 kernel, sched/run_queue.c: one slot per       *)
(* priority and a two-level bitmap over the slots.  A byte of the bitmap   *)
(* is the set of its high bits; RunQueueBytes models the bytes themselves. *)
(***************************************************************************)
EXTENDS RunQueueParams

VARIABLES run_list,        \* [Prio -> TCB or NULL]
          run_bits,        \* [Group -> the high bits of that byte]
          group_run_bits   \* the high bits of the group byte
vars == <<run_list, run_bits, group_run_bits>>

groupNum(prio) == prio \div 8

bitNum(prio) == prio % 8

\* prio_unmap_table: the lowest high bit of a byte, 0 for an empty byte.
prio_unmap(byte) ==
    IF byte = {} THEN 0 ELSE CHOOSE b \in byte : \A c \in byte : b <= c

TypeOK ==
    /\ run_list \in [Prio -> TCB \cup {NULL}]
    /\ run_bits \in [Group -> SUBSET (0..7)]
    /\ group_run_bits \in SUBSET (0..7)

Init ==
    /\ run_list = [p \in Prio |-> NULL]
    /\ run_bits = [g \in Group |-> {}]
    /\ group_run_bits = {}

-----------------------------------------------------------------------------
\* The code does not check that the slot is free: it overwrites it.
runqueue_add(tcb, prio) ==
    /\ run_bits' = [run_bits EXCEPT ![groupNum(prio)] = @ \cup {bitNum(prio)}]
    /\ group_run_bits' = group_run_bits \cup {groupNum(prio)}
    /\ run_list' = [run_list EXCEPT ![prio] = tcb]

runqueue_remove(prio) ==
    /\ run_bits' = [run_bits EXCEPT ![groupNum(prio)] = @ \ {bitNum(prio)}]
    /\ group_run_bits' = IF run_bits'[groupNum(prio)] = {}
                           THEN group_run_bits \ {groupNum(prio)}
                           ELSE group_run_bits
    /\ run_list' = [run_list EXCEPT ![prio] = NULL]

highest_prio ==
    IF group_run_bits = {} THEN IDLE_PRIO
    ELSE LET group == prio_unmap(group_run_bits)
         IN  8 * group + prio_unmap(run_bits[group])

Next ==
    \E prio \in UsedPrio :
        \/ \E tcb \in TCB : runqueue_add(tcb, prio)
        \/ runqueue_remove(prio)

Spec == Init /\ [][Next]_vars

-----------------------------------------------------------------------------
\* The bitmap and the slots agree: a bit is high exactly when its slot is
\* occupied, and a group flag exactly when its byte is not zero.  A remove that
\* forgot the group flag, or cleared it too early, breaks it only after several
\* adds and removes in one group.
BitmapMatchesSlots ==
    /\ \A p \in Prio : run_list[p] # NULL <=> bitNum(p) \in run_bits[groupNum(p)]
    /\ \A g \in 0..7 : g \in group_run_bits <=> (g \in Group /\ run_bits[g] # {})

\* highest_prio returns the lowest occupied priority number, and IDLE_PRIO when
\* no slot is occupied: what ctx_switch.c relies on ("The priority searcher has
\* been tuned to return IDLE_PRIO for a completely empty run_queue case").
HighestIsMin ==
    LET ready == {p \in Prio : run_list[p] # NULL}
    IN  IF ready = {} THEN highest_prio = IDLE_PRIO
        ELSE highest_prio \in ready /\ \A p \in ready : highest_prio <= p
=============================================================================
