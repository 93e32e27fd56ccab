------------------------------- MODULE Device -------------------------------
(***************************************************************************)
(* The periodic devices and the clock that signals them: device.c,         *)
(* arm/timer.c and irq_handler of arm/int.c, of the lab4 part2 kernel.     *)
(***************************************************************************)
EXTENDS Sched

CONSTANTS NUM_DEVICES,           \* device.h: 4
          dev_freq,              \* period of each device, in milliseconds
          OS_TIMER_RESOLUTION,   \* milliseconds per tick; config.h: 10
          WORD                   \* size_t counts modulo WORD; 2^32 in the code

Device == 0..(NUM_DEVICES - 1)
Millis == 0..(WORD - 1)

ASSUME WordAssumption    == WORD \in Nat \ {0}
ASSUME TickAssumption    == OS_TIMER_RESOLUTION \in Nat
ASSUME DevicesAssumption == NUM_DEVICES \in Nat
ASSUME FreqAssumption    == dev_freq \in [Device -> Millis]

VARIABLES
    timer,        \* ticks since boot, modulo WORD
    dev_queue,    \* devices[d].sleep_queue: head of the device's list
    next_match    \* devices[d].next_match: when the device is signalled next
dev_vars == <<timer, dev_queue, next_match>>

DeviceTypeOK ==
    /\ timer \in Millis
    /\ dev_queue \in [Device -> Tcb \cup {NULL}]
    /\ next_match \in [Device -> Millis]

dev_init ==
    /\ timer = 0
    /\ dev_queue = [d \in Device |-> NULL]
    /\ next_match = dev_freq

get_millis == (timer * OS_TIMER_RESOLUTION) % WORD

-----------------------------------------------------------------------------
Sleepers(d) == OnList(dev_queue[d])

\* Mutated form of dev_wait: the old head is not linked behind the new one.
dev_wait_unlinked(d) ==
    /\ dev_queue' = [dev_queue EXCEPT ![d] = cur_tcb]
    /\ dispatch_sleep
    /\ UNCHANGED <<sleep_queue, cur_prio, holds_lock, num_tasks, timer, next_match>>

\* The running task becomes the head of the device's list and gives up the
\* processor.
dev_wait(d) ==
    /\ sleep_queue' = [sleep_queue EXCEPT ![cur_tcb] = dev_queue[d]]
    /\ dev_queue' = [dev_queue EXCEPT ![d] = cur_tcb]
    /\ dispatch_sleep
    /\ UNCHANGED <<cur_prio, holds_lock, num_tasks, timer, next_match>>

timer_handler == timer' = (timer + 1) % WORD

\* Mutated form of Due: off by one.
Due_strict(d, millis) == next_match[d] < millis

Due(d, millis) == next_match[d] <= millis

\* Mutated form of Woken: the walk stops after the head of the list.
Woken_headonly(due) == {dev_queue[d] : d \in due} \ {NULL}

\* What a due device wakes: everything on its list.
Woken(due) == UNION {Sleepers(d) : d \in due}

\* The slots dev_update fills.  Two tasks woken at one priority would share a
\* slot and the last one walked would keep it; which one that is stays open.
Requeued(woken) ==
    LET prios == {cur_prio[t] : t \in woken}
    IN  {[p \in Prio |-> IF p \in prios THEN last[p] ELSE run_list[p]] :
            last \in {f \in [prios -> woken] : \A p \in prios : cur_prio[f[p]] = p}}

\* Wakes every sleeper of every due device, and dispatches if any was woken.
dev_update(millis) ==
    LET due   == {d \in Device : Due(d, millis)}
        woken == Woken(due)
    IN  /\ next_match' = [d \in Device |->
               IF d \in due THEN (millis + dev_freq[d]) % WORD ELSE next_match[d]]
        /\ dev_queue' = [d \in Device |-> IF d \in due THEN NULL ELSE dev_queue[d]]
        /\ sleep_queue' = [t \in Tcb |-> IF t \in woken THEN NULL ELSE sleep_queue[t]]
        /\ run_list' \in Requeued(woken)
        /\ IF woken = {} THEN UNCHANGED <<cur_tcb, fault>>
                         ELSE dispatch_save(run_list')
        /\ UNCHANGED <<cur_prio, holds_lock, num_tasks>>

irq_handler ==
    /\ timer_handler
    /\ dev_update(get_millis')
=============================================================================
