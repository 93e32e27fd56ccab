---------------------------- MODULE Part1Programs ----------------------------
(***************************************************************************)
(* The test programs of lab4 part1, tasks/ there: the same text as in      *)
(* part2 (Programs, on the part1 kernel) but for the blocking times B that *)
(* part2 added to the descriptors, the order in which dagger lists its two *)
(* tasks, and the ESCHED test of sys_err.                                  *)
(***************************************************************************)
EXTENDS Integers

CONSTANTS IDLE_PRIO, NULL, NUM_DEVICES, dev_freq, OS_TIMER_RESOLUTION, WORD,
          OS_NUM_MUTEX, MinHolds, MUTEX_NUM, ITE, ADDRESSES,
          USR_START_ADDR, USR_END_ADDR, MaxTicks

VARIABLES run_list, cur_tcb, cur_prio, holds_lock, sleep_queue, num_tasks, fault,
          timer, dev_queue, next_match,
          mutexExist, pHolding_Tcb, bLock, pSleep_queue,
          prog, at, n, shared, out, open

LOCAL Test == INSTANCE Programs WITH part <- 1

\* mutex_chaser
init_val == Test!init_val
fun1 == Test!fun1
fun2 == Test!fun2
fun3 == Test!fun3
fun4 == Test!fun4
chaser == Test!chaser
result_val == Test!result_val
chaser_main == Test!chaser_main
chaser_line(t) == Test!chaser_line(t)
chaser_lock(t) == Test!chaser_lock(t)
chaser_change(t) == Test!chaser_change(t)
chaser_unlock(t) == Test!chaser_unlock(t)
chaser_wait(t) == Test!chaser_wait(t)
Waits(t, d, l) == Test!Waits(t, d, l)
mutex_chaser == Test!mutex_chaser

\* simple_mutex
simple_fun1 == Test!simple_fun1
simple_fun2 == Test!simple_fun2
simple_fun3 == Test!simple_fun3
simple_mutex == Test!simple_mutex

\* dagger
dagger_fun(t, c, d) == Test!dagger_fun(t, c, d)
dagger == Test!dagger

\* cyclone
WakeUp(millis) == Test!WakeUp(millis)
cyclone_fun1 == Test!cyclone_fun1
cyclone == Test!cyclone

\* sys_err, and what the calls it tries return.
task_create_result(k, tasks, accepted) == Test!task_create_result(k, tasks, accepted)
check_return(r, expected) == Test!check_return(r, expected)
sys_err_main == Test!sys_err_main
sys_err_fun1 == Test!sys_err_fun1
sys_err == Test!sys_err

Next == mutex_chaser \/ simple_mutex \/ dagger \/ cyclone \/ sys_err \/ Test!Tick
==============================================================================
