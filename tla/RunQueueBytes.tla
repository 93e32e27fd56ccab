--------------------------- MODULE RunQueueBytes ---------------------------
(***************************************************************************)
(* sched/run_queue.c with its bitmap as the code keeps it: bytes, updated  *)
(* by or-ing and masking, and searched through the literal 256-entry       *)
(* table.  Checked to implement RunQueue, whose bytes are sets of bits.    *)
(***************************************************************************)
EXTENDS RunQueueParams, Sequences, Bitwise

VARIABLES run_list, run_bits, group_run_bits
vars == <<run_list, run_bits, group_run_bits>>

prio_unmap_table == <<
    0, 0, 1, 0, 2, 0, 1, 0, 3, 0, 1, 0, 2, 0, 1, 0,
    4, 0, 1, 0, 2, 0, 1, 0, 3, 0, 1, 0, 2, 0, 1, 0,
    5, 0, 1, 0, 2, 0, 1, 0, 3, 0, 1, 0, 2, 0, 1, 0,
    4, 0, 1, 0, 2, 0, 1, 0, 3, 0, 1, 0, 2, 0, 1, 0,
    6, 0, 1, 0, 2, 0, 1, 0, 3, 0, 1, 0, 2, 0, 1, 0,
    4, 0, 1, 0, 2, 0, 1, 0, 3, 0, 1, 0, 2, 0, 1, 0,
    5, 0, 1, 0, 2, 0, 1, 0, 3, 0, 1, 0, 2, 0, 1, 0,
    4, 0, 1, 0, 2, 0, 1, 0, 3, 0, 1, 0, 2, 0, 1, 0,
    7, 0, 1, 0, 2, 0, 1, 0, 3, 0, 1, 0, 2, 0, 1, 0,
    4, 0, 1, 0, 2, 0, 1, 0, 3, 0, 1, 0, 2, 0, 1, 0,
    5, 0, 1, 0, 2, 0, 1, 0, 3, 0, 1, 0, 2, 0, 1, 0,
    4, 0, 1, 0, 2, 0, 1, 0, 3, 0, 1, 0, 2, 0, 1, 0,
    6, 0, 1, 0, 2, 0, 1, 0, 3, 0, 1, 0, 2, 0, 1, 0,
    4, 0, 1, 0, 2, 0, 1, 0, 3, 0, 1, 0, 2, 0, 1, 0,
    5, 0, 1, 0, 2, 0, 1, 0, 3, 0, 1, 0, 2, 0, 1, 0,
    4, 0, 1, 0, 2, 0, 1, 0, 3, 0, 1, 0, 2, 0, 1, 0 >>

groupNum(prio) == prio \div 8       \* prio >> 3
bitNum(prio)   == prio & 7
mask(bit)      == 2 ^ bit           \* 1 << bit

\* Mutated form of clear: the bit number is inverted, not the bit.
clear_unshifted(byte, bit) == byte & (255 - bit)

clear(byte, bit) == byte & (255 - mask(bit))   \* byte & ~(1 << bit), as uint8_t

Init ==
    /\ run_list = [p \in Prio |-> NULL]
    /\ run_bits = [g \in Group |-> 0]
    /\ group_run_bits = 0

runqueue_add(tcb, prio) ==
    /\ run_bits' = [run_bits EXCEPT ![groupNum(prio)] = @ | mask(bitNum(prio))]
    /\ group_run_bits' = group_run_bits | mask(groupNum(prio))
    /\ run_list' = [run_list EXCEPT ![prio] = tcb]

runqueue_remove(prio) ==
    /\ run_bits' = [run_bits EXCEPT ![groupNum(prio)] = clear(@, bitNum(prio))]
    /\ group_run_bits' = IF run_bits'[groupNum(prio)] = 0
                           THEN clear(group_run_bits, groupNum(prio))
                           ELSE group_run_bits
    /\ run_list' = [run_list EXCEPT ![prio] = NULL]

\* Mutated form of highest_prio: the second lookup reads the group byte again.
highest_prio_groupbyte ==
    IF group_run_bits = 0 THEN IDLE_PRIO
    ELSE LET group == prio_unmap_table[group_run_bits + 1]
         IN  8 * group + prio_unmap_table[group_run_bits + 1]

highest_prio ==
    IF group_run_bits = 0 THEN IDLE_PRIO
    ELSE LET group == prio_unmap_table[group_run_bits + 1]
         IN  8 * group + prio_unmap_table[run_bits[group] + 1]

Next ==
    \E prio \in UsedPrio :
        \/ \E tcb \in TCB : runqueue_add(tcb, prio)
        \/ runqueue_remove(prio)

Spec == Init /\ [][Next]_vars

-----------------------------------------------------------------------------
HighBits(byte) == {b \in 0..7 : (byte \div mask(b)) % 2 = 1}

Sets == INSTANCE RunQueue
          WITH run_bits <- [g \in Group |-> HighBits(run_bits[g])],
               group_run_bits <- HighBits(group_run_bits)

\* The byte arithmetic of runqueue_add and runqueue_remove is the set
\* arithmetic of RunQueue, step for step (run_queue.c).
ImplementsSets == Sets!Spec

\* The two table lookups of highest_prio (run_queue.c:114-115) give what the
\* search over the sets gives, so the literal table is right where it is used.
TableFindsLowest == highest_prio = Sets!highest_prio

=============================================================================
