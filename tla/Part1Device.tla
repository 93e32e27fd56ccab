----------------------------- MODULE Part1Device -----------------------------
(***************************************************************************)
(* The scheduler and the devices of the lab4 part1 kernel.                 *)
(* sched/ctx_switch.c, sched/sched.c and sched/run_queue.c, which part2    *)
(* keeps as they are: Sched.  device.c, arm/timer.c and irq_handler of     *)
(* arm/int.c: Device.  The timer interrupt restarts the oscillator count   *)
(* here instead of moving the match register on; a tick is a tick in both. *)
(***************************************************************************)
EXTENDS Integers

CONSTANTS IDLE_PRIO, NULL, NUM_DEVICES, dev_freq, OS_TIMER_RESOLUTION, WORD

VARIABLES run_list, cur_tcb, cur_prio, holds_lock, sleep_queue, num_tasks, fault
sched_vars == <<run_list, cur_tcb, cur_prio, holds_lock, sleep_queue, num_tasks, fault>>

VARIABLES timer, dev_queue, next_match
dev_vars == <<timer, dev_queue, next_match>>

LOCAL Part2 == INSTANCE Device

Prio == Part2!Prio
Tcb == Part2!Tcb
Task == Part2!Task
SchedTypeOK == Part2!SchedTypeOK
SchedInit == Part2!SchedInit

Ready(rl) == Part2!Ready(rl)
highest_prio(rl) == Part2!highest_prio(rl)
native_prio(t) == Part2!native_prio(t)
NoContext(p) == Part2!NoContext(p)
KeepsRunning(rl) == Part2!KeepsRunning(rl)
dispatch_save(rl) == Part2!dispatch_save(rl)
dispatch_sleep == Part2!dispatch_sleep
NewSet(n) == Part2!NewSet(n)
allocate_tasks(n) == Part2!allocate_tasks(n)
Reach(link, h) == Part2!Reach(link, h)
OnList(h) == Part2!OnList(h)

Device == Part2!Device
DeviceTypeOK == Part2!DeviceTypeOK
dev_init == Part2!dev_init
get_millis == Part2!get_millis
Sleepers(d) == Part2!Sleepers(d)

dev_wait(d) == Part2!dev_wait(d)
timer_handler == Part2!timer_handler
Due(d, millis) == Part2!Due(d, millis)
Woken(due) == Part2!Woken(due)
Requeued(woken) == Part2!Requeued(woken)
dev_update(millis) == Part2!dev_update(millis)
irq_handler == Part2!irq_handler
==============================================================================
