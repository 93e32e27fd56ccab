------------------------------ MODULE Programs ------------------------------
(***************************************************************************)
(* The test programs under tasks/ on the two kernels of lab4, Kernel for   *)
(* part2 and KernelFcfs for part1: mutex_chaser, simple_mutex, dagger,     *)
(* cyclone and sys_err.  A step of a task is what it does up to its next   *)
(* system call, the load or the store of a shared variable, or one half of *)
(* a line it writes; the timer interrupt falls between any two of them.    *)
(***************************************************************************)
EXTENDS Device, MemCheck, Sequences, SequencesExt

CONSTANTS OS_NUM_MUTEX, MinHolds,   \* of the kernels
          MUTEX_NUM,   \* mutex_chaser.c: 32; it creates every mutex there is
          ITE,         \* cyclone.c: 30
          USR_START_ADDR, USR_END_ADDR,   \* config.h: where programs live
          MaxTicks     \* bound: ticks in all

ASSUME MutexNumAssumption == MUTEX_NUM = OS_NUM_MUTEX
\* The largest of the programs creates four tasks.
ASSUME TasksFitAssumption == IDLE_PRIO > 4
\* A test is over, its last sleep included, long before the millisecond count wraps.
ASSUME NoWrapAssumption ==
    MaxTicks \in Nat /\ ITE \in Nat /\ (MaxTicks + ITE) * OS_TIMER_RESOLUTION < WORD

Test == {"mutex_chaser", "simple_mutex", "dagger", "cyclone", "sys_err"}
MAIN == 0   \* main runs before there are tasks, and has a place of its own in at

VARIABLES
    mutexExist, pHolding_Tcb, bLock, pSleep_queue,   \* of the kernels
    part,     \* which of the two kernels runs
    prog,     \* the program that was loaded
    at,       \* where main and each task are in it
    n,        \* a local counter of each task: cur_mutex, the wake-up time
    shared,   \* the variables the tasks share
    out,      \* what was put out, as far as a property reads it
    open      \* the tasks that are in the middle of writing a line, oldest first
mutex_vars == <<mutexExist, pHolding_Tcb, bLock, pSleep_queue>>
vars       == <<sched_vars, dev_vars, mutex_vars>>
local_vars == <<part, prog, at, n, shared, out, open>>
all_vars   == <<vars, local_vars>>

Part1 == INSTANCE KernelFcfs
Part2 == INSTANCE Kernel
MutexId == Part2!MutexId

\* A system call goes to the kernel that runs.
task_create(k) == IF part = 1 THEN Part1!task_create(k) ELSE Part2!task_create(k)
event_wait(d)  == IF part = 1 THEN Part1!event_wait(d) ELSE Part2!event_wait(d)
CreateMutex    == IF part = 1 THEN Part1!CreateMutex ELSE Part2!CreateMutex
LockMutex(m)   == IF part = 1 THEN Part1!LockMutex(m) ELSE Part2!LockMutex(m)
UnlockMutex(m) == IF part = 1 THEN Part1!UnlockMutex(m) ELSE Part2!UnlockMutex(m)
Irq            == IF part = 1 THEN Part1!Irq ELSE Part2!Irq
mutex_lock_result(m) ==
    IF part = 1 THEN Part1!mutex_lock_result(m) ELSE Part2!mutex_lock_result(m)
mutex_unlock_result(m) ==
    IF part = 1 THEN Part1!mutex_unlock_result(m) ELSE Part2!mutex_unlock_result(m)

init_val == 2
GlobalsOf(p) ==
    CASE p = "mutex_chaser" -> [val |-> [m \in MutexId |-> init_val],
                                reg |-> [t \in Task |-> 0]]
      [] p = "simple_mutex" -> [mid |-> -1, even_t1 |-> TRUE, even_t2 |-> TRUE,
                                even_t3 |-> TRUE, once |-> FALSE]
      [] p = "cyclone"      -> [ct |-> 0]
      [] p = "sys_err"      -> [fails |-> 0]
      [] OTHER              -> <<>>

ProgramsInit ==
    /\ part \in {1, 2}
    /\ IF part = 1 THEN Part1!Init ELSE Part2!Init
    /\ prog \in Test
    /\ at = [t \in {MAIN} \cup Task |-> "start"]
    /\ n = [t \in Task |-> 1]
    /\ shared = GlobalsOf(prog)
    /\ out = <<>> /\ open = <<>>

-----------------------------------------------------------------------------
Runs(p, t, l) ==
    /\ prog = p /\ ~fault
    /\ IF t = MAIN THEN cur_tcb = NULL ELSE cur_tcb = t
    /\ at[t] = l
Goes(t, l) == at' = [at EXCEPT ![t] = l]

\* What the task does between its system calls.
Computes(t, l) == Goes(t, l) /\ UNCHANGED <<vars, part, prog, n>>

\* putchar, whose character comes out at once.
putchar(c) == out' = Append(out, c) /\ UNCHANGED open

\* mutex_lock and mutex_unlock, for a task that does not look at the result.
TriesLock(m) ==
    IF mutex_lock_result(m) = "OK" THEN LockMutex(m) ELSE UNCHANGED vars
TriesUnlock(m) ==
    IF mutex_unlock_result(m) = "OK" THEN UnlockMutex(m) ELSE UNCHANGED vars

\* A wait that fails panics: the task prints and spins.  On the part1 kernel none does.
Waits(t, d, l) ==
    IF part = 1 \/ holds_lock[t] = 0 THEN event_wait(d) /\ Goes(t, l)
                         ELSE UNCHANGED vars /\ Goes(t, "panic")

\* main creates the tasks of the program, which all start at the beginning.
StartsTasks(p, k) ==
    /\ Runs(p, MAIN, "start")
    /\ task_create(k)
    /\ UNCHANGED local_vars

-----------------------------------------------------------------------------
(* mutex_chaser: the tasks in the order of their periods, each with its    *)
(* device and what it does to a mutex's number.                            *)

fun1 == [dev |-> 3, mul |-> 1,  add |-> 3]
fun2 == [dev |-> 0, mul |-> 11, add |-> 0]
fun3 == [dev |-> 1, mul |-> 1,  add |-> -7]
fun4 == [dev |-> 2, mul |-> 13, add |-> 0]
chaser == <<fun1, fun2, fun3, fun4>>
result_val == ((init_val + 3) * 11 - 7) * 13

chaser_main ==
    \/ /\ Runs("mutex_chaser", MAIN, "start")
       /\ mutexExist < MUTEX_NUM
       /\ CreateMutex
       /\ UNCHANGED local_vars
    \/ mutexExist = MUTEX_NUM /\ StartsTasks("mutex_chaser", 4)

\* putchar and printf: a line that interrupts may split.
chaser_line(t) ==
    \/ /\ Runs("mutex_chaser", t, "start") /\ n[t] < MUTEX_NUM
       /\ open' = Append(open, t)
       /\ Computes(t, "line") /\ UNCHANGED <<shared, out>>
    \/ /\ Runs("mutex_chaser", t, "line")
       /\ \E i \in 1..Len(open) : open[i] = t /\ open' = RemoveAt(open, i)
       /\ Computes(t, "lock") /\ UNCHANGED <<shared, out>>

chaser_lock(t) ==
    /\ Runs("mutex_chaser", t, "lock")
    /\ IF mutex_lock_result(n[t]) = "OK"
         THEN LockMutex(n[t]) /\ Goes(t, "load")
         ELSE UNCHANGED vars /\ Goes(t, "panic")
    /\ UNCHANGED <<part, prog, n, shared, out, open>>

chaser_change(t) ==
    \/ /\ Runs("mutex_chaser", t, "load")
       /\ shared' = [shared EXCEPT !.reg[t] = shared.val[n[t]]]
       /\ Computes(t, "store") /\ UNCHANGED <<out, open>>
    \/ /\ Runs("mutex_chaser", t, "store")
       /\ shared' = [shared EXCEPT !.val[n[t]] =
                        shared.reg[t] * chaser[t].mul + chaser[t].add]
       /\ Computes(t, "unlock") /\ UNCHANGED <<out, open>>

chaser_unlock(t) ==
    /\ Runs("mutex_chaser", t, "unlock")
    /\ IF mutex_unlock_result(n[t]) = "OK"
         THEN UnlockMutex(n[t]) /\ Goes(t, "wait") /\ n' = [n EXCEPT ![t] = @ + 1]
         ELSE UNCHANGED <<vars, n>> /\ Goes(t, "panic")
    /\ UNCHANGED <<part, prog, shared, out, open>>

\* After its last mutex a task only waits; fun4 first prints what came out.
chaser_wait(t) ==
    \/ /\ Runs("mutex_chaser", t, "start") /\ n[t] = MUTEX_NUM
       /\ out' = IF t = 4 /\ out = <<>> THEN <<shared.val>> ELSE out
       /\ Computes(t, "wait") /\ UNCHANGED <<shared, open>>
    \/ /\ Runs("mutex_chaser", t, "wait")
       /\ Waits(t, chaser[t].dev, "start")
       /\ UNCHANGED <<part, prog, n, shared, out, open>>

mutex_chaser ==
    chaser_main \/ \E t \in 1..4 :
        chaser_line(t) \/ chaser_lock(t) \/ chaser_change(t) \/ chaser_unlock(t) \/ chaser_wait(t)

-----------------------------------------------------------------------------
(* simple_mutex: three tasks and the one mutex the first of them creates.  *)

simple_fun1 ==
    \/ /\ Runs("simple_mutex", 1, "start") /\ CreateMutex
       /\ shared' = [shared EXCEPT !.mid = mutexExist]
       /\ Goes(1, "loop") /\ UNCHANGED <<part, prog, n, out, open>>
    \/ /\ Runs("simple_mutex", 1, "loop") /\ shared.even_t1
       /\ putchar("s")
       /\ IF shared.once THEN Computes(1, "last") /\ UNCHANGED shared
          ELSE /\ shared' = [shared EXCEPT !.once = TRUE, !.even_t1 = FALSE]
               /\ Computes(1, "wait")
    \/ /\ Runs("simple_mutex", 1, "last") /\ putchar("!")
       /\ Computes(1, "spin") /\ UNCHANGED shared
    \/ /\ Runs("simple_mutex", 1, "loop") /\ ~shared.even_t1
       /\ TriesLock(shared.mid) /\ Goes(1, "locked")
       /\ UNCHANGED <<part, prog, n, shared, out, open>>
    \/ /\ Runs("simple_mutex", 1, "locked") /\ putchar("e")
       /\ shared' = [shared EXCEPT !.even_t1 = TRUE]
       /\ Computes(1, "unlock")
    \/ /\ Runs("simple_mutex", 1, "unlock") /\ TriesUnlock(shared.mid)
       /\ Goes(1, "wait") /\ UNCHANGED <<part, prog, n, shared, out, open>>
    \/ /\ Runs("simple_mutex", 1, "wait") /\ Waits(1, 0, "loop")
       /\ UNCHANGED <<part, prog, n, shared, out, open>>

\* It locks the mutex for its second character only, and never unlocks it.
simple_fun2 ==
    \/ /\ Runs("simple_mutex", 2, "start")
       /\ IF shared.even_t2 THEN UNCHANGED vars ELSE TriesLock(shared.mid)
       /\ Goes(2, "put") /\ UNCHANGED <<part, prog, n, shared, out, open>>
    \/ /\ Runs("simple_mutex", 2, "put")
       /\ putchar(IF shared.even_t2 THEN "u" ELSE "S")
       /\ shared' = [shared EXCEPT !.even_t2 = FALSE]
       /\ Computes(2, "wait")
    \/ /\ Runs("simple_mutex", 2, "wait") /\ Waits(2, 1, "start")
       /\ UNCHANGED <<part, prog, n, shared, out, open>>

simple_fun3 ==
    \/ /\ Runs("simple_mutex", 3, "start") /\ putchar("c")
       /\ Computes(3, "mutex") /\ UNCHANGED shared
    \/ /\ Runs("simple_mutex", 3, "mutex")
       /\ IF shared.even_t3 THEN TriesLock(shared.mid) ELSE TriesUnlock(shared.mid)
       /\ shared' = [shared EXCEPT !.even_t3 = FALSE]
       /\ Goes(3, "wait") /\ UNCHANGED <<part, prog, n, out, open>>
    \/ /\ Runs("simple_mutex", 3, "wait") /\ Waits(3, 2, "start")
       /\ UNCHANGED <<part, prog, n, shared, out, open>>

simple_mutex ==
    StartsTasks("simple_mutex", 3) \/ simple_fun1 \/ simple_fun2 \/ simple_fun3

-----------------------------------------------------------------------------
(* dagger: two tasks that put a character out in every period.             *)

dagger_fun(t, c, d) ==
    \/ /\ Runs("dagger", t, "start") /\ putchar(c)
       /\ Computes(t, "wait") /\ UNCHANGED shared
    \/ /\ Runs("dagger", t, "wait") /\ Waits(t, d, "start")
       /\ UNCHANGED <<part, prog, n, shared, out, open>>

dagger ==
    StartsTasks("dagger", 2) \/ dagger_fun(1, "@", 0) \/ dagger_fun(2, "<", 1)

-----------------------------------------------------------------------------
(* cyclone: a task that sleeps, prints the time and replaces itself.       *)

\* Mutated form of WakeUp: the current time is not added.
WakeUp_relative(millis) == millis

WakeUp(millis) == (get_millis + millis) % WORD

\* sleep_syscall, as in SleepCall; out are the times printed.
cyclone_fun1 ==
    \/ /\ Runs("cyclone", 1, "start")
       /\ shared' = [ct |-> shared.ct + 1]
       /\ IF shared'.ct > ITE THEN Goes(1, "spin") /\ UNCHANGED n
          ELSE /\ n' = [n EXCEPT ![1] = WakeUp(shared'.ct * OS_TIMER_RESOLUTION)]
               /\ Goes(1, "asleep")
       /\ UNCHANGED <<vars, part, prog, out, open>>
    \/ /\ Runs("cyclone", 1, "asleep") /\ get_millis >= n[1]
       /\ Computes(1, "print") /\ UNCHANGED <<shared, out, open>>
    \/ /\ Runs("cyclone", 1, "print") /\ putchar(get_millis)
       /\ Computes(1, "create") /\ UNCHANGED shared
    \/ /\ Runs("cyclone", 1, "create") /\ task_create(1)
       /\ Goes(1, "start") /\ UNCHANGED <<part, prog, n, shared, out, open>>

cyclone == StartsTasks("cyclone", 1) \/ cyclone_fun1

-----------------------------------------------------------------------------
(* sys_err: every error the system calls return, one after the other.      *)

\* What task_create returns for k tasks at an address, if it returns; accepted is
\* what assign_schedule says of them (UbTest).
task_create_result(k, tasks, accepted) ==
    IF k >= IDLE_PRIO THEN "EINVAL"
    ELSE IF ~valid_addr(tasks, k, USR_START_ADDR, USR_END_ADDR) THEN "EFAULT"
    ELSE IF ~accepted THEN "ESCHED" ELSE "OK"

event_wait_result(d) ==
    IF d >= NUM_DEVICES THEN "EINVAL"
    ELSE IF holds_lock[cur_tcb] # 0 THEN "EHOLDSLOCK" ELSE "OK"

check_return(r, expected) ==
    shared' = IF r = expected THEN shared ELSE [fails |-> shared.fails + 1]

\* A call that must fail, and so changes nothing in the kernel.
MustFail(t, from, to, r, expected) ==
    /\ Runs("sys_err", t, from) /\ Goes(t, to)
    /\ check_return(r, expected)
    /\ UNCHANGED <<vars, part, prog, n, out, open>>

sys_err_main ==
    LET tasks == USR_START_ADDR + 1 IN
    \/ MustFail(MAIN, "start", "second", task_create_result(IDLE_PRIO + 2, tasks, TRUE), "EINVAL")
    \/ MustFail(MAIN, "second", IF part = 1 THEN "create" ELSE "third", task_create_result(3, ADDRESSES - 1, TRUE), "EFAULT")
    \/ MustFail(MAIN, "third", "create", task_create_result(2, tasks, FALSE), "ESCHED")
    \/ /\ Runs("sys_err", MAIN, "create")
       /\ task_create(1) /\ UNCHANGED local_vars

\* The mutexes 23 and 4 of the test are any two that exist.
sys_err_fun1 ==
    LET m == OS_NUM_MUTEX - 1 IN
    \/ /\ Runs("sys_err", 1, "start") /\ mutexExist < OS_NUM_MUTEX
       /\ CreateMutex /\ UNCHANGED local_vars
    \/ MustFail(1, "start", "unlock", IF mutexExist = OS_NUM_MUTEX THEN "ENOMEM" ELSE "OK", "ENOMEM")
       /\ mutexExist = OS_NUM_MUTEX
    \/ MustFail(1, "unlock", "unlock2", mutex_unlock_result(OS_NUM_MUTEX + 1), "EINVAL")
    \/ MustFail(1, "unlock2", "lock", mutex_unlock_result(m - 1), "EPERM")
    \/ MustFail(1, "lock", "lock2", mutex_lock_result(OS_NUM_MUTEX + 1), "EINVAL")
    \/ /\ Runs("sys_err", 1, "lock2") /\ Goes(1, "lock3")
       /\ check_return(mutex_lock_result(m), "OK") /\ TriesLock(m)
       /\ UNCHANGED <<part, prog, n, out, open>>
    \/ MustFail(1, "lock3", "unlock3", mutex_lock_result(m), "EDEADLOCK")
    \/ /\ Runs("sys_err", 1, "unlock3") /\ Goes(1, "wait")
       /\ check_return(mutex_unlock_result(m), "OK") /\ TriesUnlock(m)
       /\ UNCHANGED <<part, prog, n, out, open>>
    \/ MustFail(1, "wait", "spin", event_wait_result(NUM_DEVICES + 1), "EINVAL")

sys_err == sys_err_main \/ sys_err_fun1

-----------------------------------------------------------------------------
\* The device each task of the program waits for.
DeviceOf(t) ==
    CASE prog = "mutex_chaser" -> chaser[t].dev
      [] prog = "simple_mutex" -> <<0, 1, 2>>[t]
      [] prog = "dagger"       -> <<0, 1>>[t]

\* The tasks do what they said to assign_schedule: a job ends before the next
\* signal of its device, those of simple_mutex (C is 1 ms) within the tick; and main
\* has created them before the first tick.
InTime ==
    LET next   == ((timer + 1) * OS_TIMER_RESOLUTION) % WORD
        MustBeDone(t) == prog = "simple_mutex" \/ next_match[DeviceOf(t)] <= next
    IN  /\ cur_tcb # NULL
        /\ prog \notin {"cyclone", "sys_err"} =>
              \A t \in Part2!Live :
                  at[t] # "spin" /\ MustBeDone(t) => t \in Sleepers(DeviceOf(t))

Tick == timer < MaxTicks /\ InTime /\ Irq /\ UNCHANGED local_vars

ProgramsNext ==
    mutex_chaser \/ simple_mutex \/ dagger \/ cyclone \/ sys_err \/ Tick

ProgramsSpec == ProgramsInit /\ [][ProgramsNext]_all_vars

-----------------------------------------------------------------------------
\* Every mutex but the first has seen the four tasks in the order of their
\* priorities when fun4 prints the numbers, and the first was never touched:
\* "Final mutex0 value 2", "Final mutex1 value 624" in lab4-part2-group-25.txt.
ChaserEndsRight ==
    prog = "mutex_chaser" /\ out # <<>> =>
        /\ out[1][0] = init_val
        /\ \A m \in 1..(MUTEX_NUM - 1) : out[1][m] = result_val

\* What the logs kept of the other tests: simple_mutex prints "suces!", because the
\* mutex it creates is number 0 and no lock of it succeeds, and not the "succeSs!"
\* of simple_mutex.c:3; the characters of dagger's tasks come two to one, in rate order; no
\* call of sys_err returns another error than it tests for, and no test panics.
PrintsAsLogged ==
    /\ \A t \in Task : at[t] # "panic"
    /\ prog = "simple_mutex" => IsPrefix(out, <<"s", "u", "c", "e", "s", "!">>)
    /\ prog = "dagger" =>
          LET slow == Cardinality({i \in 1..Len(out) : out[i] = "<"})
              fast == Len(out) - slow
          IN  2 * slow - 1 <= fast /\ fast <= 2 * slow + 2
    /\ prog = "sys_err" => shared.fails = 0

\* However late the processor comes back to it, cyclone's k-th line shows at least
\* the sum of the first k sleeps ("Time now is 10", 30, 60, ...: cyclone.c:36-37,
\* time.c:27-29), and task_create loses none of them.
SleepsAddUp ==
    prog = "cyclone" =>
        \A k \in 1..Len(out) : 2 * out[k] >= k * (k + 1) * OS_TIMER_RESOLUTION

\* write runs with interrupts enabled (swi.c:50), so lines do get split, but only by
\* whole lines of tasks of a higher priority: they nest.
LinesNest ==
    /\ \A i, j \in 1..Len(open) : i < j => open[j] < open[i]
    /\ \A i \in 1..Len(open) : at[open[i]] = "line"
=============================================================================
