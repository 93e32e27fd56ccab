------------------------------- MODULE MCSched -------------------------------
(***************************************************************************)
(* The two algorithms of sched/ that keep no company with the rest of the  *)
(* kernel, side by side: a behaviour either works on the run queue or      *)
(* tests one list of tasks.                                                *)
(***************************************************************************)
EXTENDS UbTest, RunQueueParams

VARIABLES part, run_list, run_bits, group_run_bits

Bytes == INSTANCE RunQueueBytes

SchedInit ==
    \/ part = "run_queue" /\ Bytes!Init
       /\ given = <<>> /\ num_tasks = 0 /\ tasks = given /\ i = 0 /\ j = 1
       /\ sum = <<0, 1>> /\ pc = "sort"
    \/ part = "ub_test" /\ Init /\ Bytes!Init
SchedNext ==
    \/ part = "run_queue" /\ Bytes!Next /\ UNCHANGED <<part, vars>>
    \/ part = "ub_test" /\ Next /\ UNCHANGED <<part, run_list, run_bits, group_run_bits>>
SchedSpec == SchedInit /\ [][SchedNext]_<<part, vars, run_list, run_bits, group_run_bits>>

\* run_queue.c:114-115
TableFindsLowest == Bytes!TableFindsLowest
\* run_queue.c:66-104
ImplementsSets == Bytes!ImplementsSets

-----------------------------------------------------------------------------
\* Every value of byte 0, so every entry of the table, and five of the eight
\* groups, the first and the last among them.
MCUsedPrio == (0..7) \cup {8, 31, 42, 63}

\* Periods that do and do not divide each other, loads on both sides of the
\* bound for one, two and three tasks, with and without blocking.
MCTaskRec ==
    [C : 1..2, T : 2..5, B : 0..1]
    \* Periods of zero: infinite loads, with a quotient B / T that is not a number and
    \* with one that is infinite; sums that are not a number, with both.
    \cup [C : {0, 2}, T : {0}, B : 0..1]
=============================================================================
