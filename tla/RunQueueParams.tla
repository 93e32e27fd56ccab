--------------------------- MODULE RunQueueParams ---------------------------
(***************************************************************************)
(* The sizes of the run queue of the lab4 kernel, shared by its two        *)
(* models.                                                                 *)
(***************************************************************************)
EXTENDS Naturals

CONSTANTS OS_MAX_TASKS,  \* number of priorities; config.h: 64
          TCB,           \* the task control blocks that may be enqueued
          NULL,          \* the empty slot
          UsedPrio       \* the priorities the callers use (bounds TLC's runs)

\* config.h:32 "OS_MAX_TASKS must be atleast 8 and must be atmost 64", and
\* run_bits has OS_MAX_TASKS / 8 whole bytes.
ASSUME MaxTasksAssumption == \E k \in 1..8 : OS_MAX_TASKS = 8 * k
ASSUME NullAssumption == NULL \notin TCB
ASSUME UsedPrioAssumption == UsedPrio \subseteq 0..(OS_MAX_TASKS - 1)

Prio      == 0..(OS_MAX_TASKS - 1)
Group     == 0..((OS_MAX_TASKS \div 8) - 1)
IDLE_PRIO == OS_MAX_TASKS - 1
=============================================================================
