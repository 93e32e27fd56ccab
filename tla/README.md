# Verification of the 18-342 kernels

The repository holds the kernels, the C library and the test programs of four labs
for an ARM board (XScale, U-Boot). `src/labs/lab4/part2` is the last and largest: a
real-time kernel with fixed-priority scheduling, periodic devices, mutexes with a
priority ceiling and an admission test. This directory models that kernel, the one
before it (`lab4/part1`), the kernels that run a single program (`lab2`, `lab3`), the
C library and most of the programs; it model-checks the models with TLC and proves
the main results with TLAPS for every number of tasks, devices and mutexes.

`K/` below stands for `src/labs/lab4/part2/kernel/`, `T/` for `src/labs/lab4/part2/tasks/`.

## 1. The system

| component | state | operations | interacts with |
|---|---|---|---|
| run queue, `K/sched/run_queue.c` | `run_list[64]`, `run_bits[8]`, `group_run_bits` | `runqueue_init/add/remove`, `highest_prio` | called by the dispatcher, `sched.c`, `device.c`, `mutex.c` |
| dispatcher and task sets, `K/sched/ctx_switch.c`, `sched.c` | `cur_tcb`, `system_tcb[64]` (priorities, `holds_lock`, the one `sleep_queue` link, context) | `dispatch_save/nosave/sleep/init`, `allocate_tasks`, `sched_init` | run queue; called by every blocking call and by the tick |
| devices and clock, `K/device.c`, `K/arm/timer.c`, `K/arm/int.c` | `devices[4]` (list head, `next_match`), `timer` | `dev_wait`, `dev_update`, `timer_handler`, `get_millis`, `irq_handler` | lists go through the control blocks; wakes tasks and dispatches |
| mutexes, `K/lock/mutex.c` | `gtMutex[32]`, `mutexExist` | `mutex_create/lock/unlock` | change priorities and run queue slots; waiters use the same link as the devices |
| system calls, `K/arm/swi.c`, `K/syscall/proc.c` | none of their own | `task_create`, `event_wait`, the mutex calls | checks first (`K/memcheck.c`), then the components above |
| admission test, `K/sched/ub_test.c` | the caller's task array | `assign_schedule`: sort by period, utilisation bound | its order is the priority order of `allocate_tasks` |
| sleep and time, `K/syscall/time.c` | a local wake-up time | `sleep_syscall`, `time_syscall` | polls the clock with interrupts enabled |
| exception entry and context switch, `K/arm/swi_asm.S`, `int_asm.S`, `K/sched/ctx_switch_asm.S` | registers, kernel stacks, saved contexts | `swi_wrapper`, `irq_wrapper`, `ctx_switch_full/half`, `launch_task` | under everything above |
| console I/O, `K/syscall/io.c`, `K/memcheck.c` | the caller's buffer, the terminal | `read_syscall`, `write_syscall`, `valid_addr` | run with interrupts enabled, so ticks fall into them |
| lab4 part1 kernel | as above; `mutex.c` and `proc.c` differ | mutexes that block and queue FIFO, no ceiling, no admission | |
| lab3 kernel, `src/labs/lab3/kernel` | the two old handlers, the timer, one program | handlers taken over and given back, `read`, `write`, `time`, `sleep`, `exit` | U-Boot's vectors; the oscillator |
| lab2 kernel, `src/labs/lab2/part2/kernel` | the old SWI handler, a stack to exit to | the same without a timer | |
| C library, `T/libc` | printf's line buffer, the state of `rand` | string functions, `strtol`, `printf`, `sprintf`, `hexdump`, `sscanf`, `rand`, ctype | ends in the system calls |
| test programs, `T/*`, lab3 and lab2 programs | their globals | `mutex_chaser`, `simple_mutex`, `dagger`, `cyclone`, `sys_err`; `typo`, `hardestGame`; `rot13` | run on all of the above |
| start-up code, boot patching of vectors, debugging helpers | | | not modelled |

Where it is hard:

- **Interleaving.** System calls run with interrupts masked, except `read`, `write`
  and `sleep`; the tick falls anywhere else. What a tick wakes in the middle of a
  critical section must not break the ceiling protocol; a line can be split.
- **Shared links.** A control block has one link for all device lists and all
  mutex lists, and `run_list` is cleared and filled by index, whoever is there.
- **No dispatch in `mutex_unlock`**: the caller drops its priority and goes on.
- **Task sets are replaced while the system runs**, and not everything is reset.
- **Wrapping clocks** and comparisons that do not know of the wrap; in lab3 a clock that
  stands still while interrupts are masked.
- **Banked registers**: an interrupt in a system call overwrites what that call
  still needs; a context saved in one kind of exception is loaded in the other.
- **Taking over a machine**: two handlers, of which the second may be refused.
- **Text without ends**: buffers that `read` does not terminate, counts that run
  below zero, fields whose width is shared by sign, prefix, zeros and precision.

Correctness, per component: the search returns the lowest occupied slot (run queue); no task
is lost or in two places, no stack or register is mixed up (dispatcher, context);
every sleeper is woken when its device is due, not later (devices); a holder runs
undisturbed, the counts match what is held, nobody blocks (part2 mutexes); first
come, first served (part1 mutexes); the list is sorted and what is admitted meets
its deadlines (admission); a sleep lasts as long as asked and ends (sleep); the line
read is the line typed and the line shown (console); the machine is left as it was
found, and the clock lags only by time that was masked (lab3); library functions do what their
descriptions say on every memory, and printed numbers read back (C library); the programs print what the
group's logs show (programs). `PROJECT.json` lists the hazards one by one at their lines.

## 2. The modules

| module | models | notes |
|---|---|---|
| `RunQueueParams`, `RunQueue` | `run_queue.c`, bytes as sets of bits | proofs in `SchedProof` |
| `RunQueueBytes` | the same with bytes, masks, the literal 256-entry table | checked to implement `RunQueue` |
| `Sched` | `ctx_switch.c`, `sched.c`, the fields of `struct tcb` | the run queue is its slots here |
| `Device` | `device.c`, `timer.c`, `irq_handler` | clock modulo `WORD` |
| `Mutex` | `mutex.c` of part2 | every branch, the waiting list and the hand-over too |
| `Kernel` | `Device` + `Mutex` under the system calls and the tick | the core; all its properties |
| `Ceiling` | abstract: what the part2 kernel promises | no links, slots, counters or saved priorities |
| `Fcfs`, `MutexFcfs`, `KernelFcfs` | abstract FIFO mutexes; `mutex.c` of part1; the part1 kernel | over `Device`, see `Part1Device` |
| `UbTest` | `assign_schedule` | one step per loop iteration |
| `SleepCall` | `sleep_syscall` against the clock | proof in `ContextProof` |
| `Context` | the two exception wrappers and the context switches | registers as tagged values |
| `Console` | the line editor of `read`, the text of `write`, and a terminal | the same loop in lab2, lab3 and lab4 |
| `MemCheck` | `valid_addr` modulo the width of an address | proof in `LibProof` |
| `OneProgram` | the lab3 kernel from boot to return, with any program | the clock, what `time` returns and the wake-up time of `sleep` are modulo `WORD` |
| `Lab3Programs` | `typo` and `hardestGame` on `OneProgram` | |
| `Lab2` | the lab2 kernel with `rot13` | memory that nobody wrote is a choice of `Garbage` |
| `Programs` | the lab4 test programs on `Kernel` and on `KernelFcfs` | the two kernels as instances; proofs in `ProgramsProof` |
| `CType`, `LibString`, `LibNumber`, `LibFormat`, `LibStdio`, `LibRand` | the C library | proofs in `LibProof`, but for the number conversions |
| `Part1Copies`, `Part1Device`, `Part1Programs`, `Part1Libc`, `Lab3Libc` | files that a lab copied | see below |
| `MC*` | constants for TLC, parts put side by side | |
| `KernelProof`, `KernelFcfsProof`, `SchedProof`, `ContextProof`, `OneProgramProof`, `ProgramsProof`, `LibProof`, `WordArith` | the theorems, section 4 | `WordArith`: numbers modulo a word |

The labs were built by copying: most files of part1 and of the lab3 library are those of part2
but for comments. A `Part1*` or `Lab3Libc` module says, definition by definition, which file
is the copy of which, and its header names the differences. What is checked of
the original is thereby checked of the copy; where a difference matters (mutexes, calls,
programs) there is a module of its own.

State and actions correspond by name: a variable is the C variable or field of
that name, an action the function. Things to know when reading:

- A control block is named by its index in `system_tcb`, which is also its native
  priority. `dev_queue[d]` and `pSleep_queue[m]` are list heads, `sleep_queue[t]` the
  link of block `t`. `OnList(h)` is the least set that holds `h` and is closed under
  the link: a definition that terminates on any list, cyclic ones too, and can be
  proved about.
- `fault` is set where the code follows a wild or null pointer or loops for ever
  with interrupts masked; no step follows. `dispatch_sleep` saves the context through
  the pointer found in the slot of the current priority, so it faults if that is
  not the running task. `CallFromMain` is the calls `main` can make that go through the
  null `cur_tcb`.
- A call that fails its checks changes nothing and is no step, except in `Programs`, where the
  programs look at the error.
- Which of two tasks woken at one priority keeps the slot depends on list order; the
  model leaves it open (`Requeued`). It cannot happen in orderly use.
- `OS_AVAIL_TASKS` (63) equals `IDLE_PRIO`, so a set has at most `IDLE_PRIO - 1` tasks.
- In `Programs` a step of a task is what it does up to its next system call, the load or the store of a
  shared variable, or half of a line; the tick falls between any two. `InTime`
  says when a tick may come: the programs' own work is short against their periods.
- The string functions work on one memory of `MEM` characters; a pointer is an
  address in it. `memmove` goes step by step, the others are functions of the memory, as nothing
  runs in between. A call keeps to what the C standard asks of it (`Can_*`).
- `num_tasks`, `given`, `asked`, `since`, `ticks`, `typed`, `known` and the like are marked "for properties"
  and read by nothing else.
- Definitions introduced as "Mutated form of X" are deliberate mistakes; no
  specification uses them. Each property is known to fail when one of them replaces
  X (`PROJECT.json`, "mutants").

**Orderly use.** `Kernel!Spec` allows every call at any moment. `OrderlySpec` restricts
one of them: `task_create` comes when nobody waits for a device and no mutex is
locked. Every program under `tasks/` satisfies this (they create sets from `main`, or, as
`cyclone.c`, from the only task of a set that never waits). Without it the kernel
does lose its bearings, because `allocate_tasks` resets neither the device lists nor
the mutexes (`K/sched/sched.c:45-63`): old sleepers stay on lists whose links are
then overwritten, and a mutex can be held by a block whose `holds_lock` is 0. The run
`any_use` and the theorems `SlotsKept` and `LocksKept` say what still holds in that case, up to the point of `fault`.

## 3. The runs

| run | specification | bounds | shows |
|---|---|---|---|
| `sched` | `MCSched!SchedSpec` | run queue: 64 priorities, 12 used (all 8 of one byte, 4 in other groups). Admission: up to 3 tasks, C 1-2, T 2-5, B 0-1, and descriptors with T = 0, C 0 or 2, B 0-1 | byte arithmetic = set arithmetic, the table finds the lowest bit; sorted, admitted sets meet deadlines |
| `orderly` | `Kernel!OrderlySpec` | 4 tasks, 2 devices (2 and 3 ticks), 2 lockable mutexes, clock modulo 7 | safety and action properties, the inductive invariant, refinement of `Ceiling` |
| `any_use` | `Kernel!Spec` | 3 tasks, 1 device, 1 lockable mutex, `MinHolds` = -1 | slots, and lock/holder agreement, under any sequence of calls |
| `periodic` | `Kernel!PeriodicSpec` | 3 tasks, ticks of 2 ms, periods 4 and 6 ms, clock modulo 13 | no signal is late; every sleeper wakes; the top task runs |
| `starved` | `Kernel!ReleaseSpec` | 2 tasks | violated: see findings |
| `sleep` | `SleepCall!FairSpec` | ticks of 6 ms, clock modulo 16, five durations | early only across the wrap; ends |
| `fcfs` | `KernelFcfs!Spec` | 3 tasks, 1 device, 2 lockable mutexes | no task lost; refinement of `Fcfs` |
| `fcfs_served` | `KernelFcfs!FairSpec` | 2 tasks, 1 device, 2 lockable mutexes, taken in either order | a waiter is served, circular waits excepted |
| `context` | `Context!Spec` | 2 tasks and idle, symmetric | registers and stacks survive everything |
| `libc` | `MCLibc!LibcSpec` | every memory of 5 characters out of 3; 8-bit numbers; printf buffer of 8; some 1250 formats; dumps up to 18 bytes | searches, comparisons, copies, `memmove`; nothing printed is lost, widths pad, numbers read back |
| `one_program` | `MCOneProgram!AllSpec` | lab3: 4 keys out of 7, 4 buffers, 2 of them readable, 3 ticks of 12100 ms (2 counts of the oscillator each), words of 15 bits, durations up to the largest word; lab2: 5 keys, a buffer of 3 | line and screen, clock and sleep, handlers given back, the answers of `typo`, `hardestGame`, `rot13` |
| `programs` | `MCPrograms!BothSpec` | both lab4 kernels, 4 devices of 2, 4, 10 and 1 ticks (100 to 50 ms), 3 mutexes, 22 ticks, `ITE` 3 | what the programs compute and print |

Why the bounds are enough. Identity 0 of the mutexes cannot be locked, so `OS_NUM_MUTEX`
is one more than the mutexes in play. Four tasks give a running one, two asleep on one list
and one on another; two devices with coprime periods meet and drift and so are due alone and
together; two lockable mutexes give nested locks released in either order; the clock
wraps several times, once with a range the tick does not divide, as 10 ms
and 2^32. In `fcfs` a task holds one mutex and waits for the other or for the device while
two others wait behind it. In `context` a stack holds a system call and an
interrupt on top of it while two other tasks do the same; register values alternate
between two, so a stale copy is seen. `sched` covers sums on both sides of the
bound for one to three tasks, with periods that do and do not divide each other. In `libc` two strings fit the memory
side by side, overlap at every distance and may lack a NUL; 8-bit numbers have a least
one without a positive counterpart; texts are shorter than, as long as and longer than printf's
buffer. In `one_program` four keys fill every buffer, erase past its start and type again; with long ticks and short words the
clock starts again from zero at the third tick, so that sums of `sleep` wrap, sleeps end across the wrap, and `typo` prints seconds of two digits and
meets differences that an `int` takes for negative. In `programs`
22 ticks are two periods of the slowest device, so each program comes to its end. Bounds
inside guards are `MinHolds` (no unlock takes `holds_lock` below it; it only matters
for `any_use`), `MaxTyped`, `Rot13Typed`, `MaxNow` and `MaxTicks`.

`sched`, `any_use`, `one_program` and `programs` switch deadlock checking off: `assign_schedule`
ends, nothing follows a fault or the return to U-Boot, and the last two stop at a bound of time.

Reading of the less obvious properties:

- `LockHolderRuns`, `HoldsLockCounts`: because a holder runs at priority 0 and may not wait for
  a device, nobody ever finds a mutex held by another task, so the
  waiting branch of `mutex_lock` and the hand-over of `mutex_unlock` are dead code in
  orderly use. (The hand-over does not raise the heir's priority or
  count; that this never matters is what these properties say.)
- `InversionOnlyFromUnlock`: priority inversion begins only with an unlock.
- `NoSignalIsLate` is one-sided: around the wrap of the clock a device whose next
  match has wrapped is due at every tick (`K/device.c:92`), so signals do come early there.
- `EarlyOnlyAcrossWrap`, `SleepEnds` state exactly where `sleep` is right. Across the wrap it
  returns at once, and a wake-up time above the last count the clock shows is never reached
  (with ticks of 10 ms the clock shows even counts only).
- `AcceptedMeetsDeadlines` compares the utilisation bound with the exact response-time
  criterion: some time within the period by which the task, its blocking and every
  job of a higher priority released by then are done. It excepts two kinds of list and no others (findings): a descriptor with
  C = T = 0 among the tasks, and no descriptor with a period or a blocking time at all. Every other list with a period of zero is refused.
- `EveryWaiterServed` excepts tasks that wait for each other in a circle, which the
  part1 code allows, and supposes that the processor idles again and again: with a
  saturated processor a low task need never run under any fixed-priority scheduler.
- `CopiesLeaveTheText`, `WidthOnlyPads`, `MachineIsLeftAsFound` and `AnswersInRot13` each state the
  one case in which the code falls short of its description (findings), and hold with it.
- `ClockLosesOnlyMaskedTime`: the interrupt handler of lab3 starts the oscillator again from zero when it
  gets to run. The property compares modulo `WORD` ticks, after which the count starts again from zero. `SleepIsAtMostATickShort` is
  what a program may therefore count on: a sleep lasts what was asked less one tick, also when the clock wraps meanwhile, except
  when the sum at `src/labs/lab3/kernel/sleep.c:17` passes the width of a `size_t` (`wait_time < asked`); then it may return at once.
  That a sleep ends is not claimed of lab3: a wake-up time above the last value the clock shows is never reached.
- `TellsWhatHappened`: the difference of two readings is right across the wrap of the clock, and `typo` prints it as a decimal
  number of any length, while it is below 2^31 ms; from there on the `int` is negative and no text is claimed. The game's score fits its row
  for negative positions too.
- `MachineIsLeftAsFound` speaks of handlers, vectors, the timer's registers and the mask. The level of the timer's line, `INT_ICLR`, is not given back:
  `initTimer` clears its bit and `freeTimer` leaves it (`src/labs/lab3/kernel/Timer_Driver.c:33`, `45-51`), though its comment says "Restore the timer interrupt registers".
- `Readable` is the whole check of `read`, with its wrapping sums and its second branch for the flash memory. The buffers `read` is given lie in
  RAM, as those of programs do (`InRamAssumption`), so memory is always written.
- `LinesNest`: `write` can be preempted, so lines split; since the one that splits it runs
  to the end of its own line first, they are properly nested.
- `ChaserEndsRight`, `PrintsAsLogged`: the final values and texts in
  `src/labs/lab4/part2/lab4-part2-group-25.txt`, "suces!" and the untouched first mutex included.

### Fairness

- `TimerRuns`, weak fairness of the tick: `irq_wrapper` returns with interrupts as they were,
  every system call modelled ends, and user mode runs unmasked.
- `LocksReleased`: a critical section of the programs ends. `JobsEnd` (strong): a
  task that runs again and again waits for its device again and again: the shape of every periodic task
  under `tasks/`. Both are assumptions about the programs; only `TopTaskRuns` needs them, and `starved`
  shows it fails without `JobsEnd`. `EverySleeperWakes` needs only `TimerRuns`.
- `SleepCall`: ticks go on, and the poll loop runs many times per tick whenever its
  task runs (strong fairness of `Return`), so a task that is preempted for long does not
  for ever miss the ticks at which the loop would let it go.
- `KernelFcfs`: ticks go on, and a holder that runs again and again unlocks.
- The other runs check safety only and state no fairness.

### Findings

One run is expected to fail, `starved`. The other findings were met while modelling; the property named
states what the code does in that case, and its run shows it.

- `starved` (`K/lock/mutex.c:118`). `mutex_unlock` restores the native priority but does not dispatch.
  A task woken in the critical section waits until a tick that wakes some task, or
  until the caller waits. `T/mutex_chaser/mutex_chaser.c:11` asks for "rate monotonic scheduling is
  preserved".
- `PrintsAsLogged` (`K/lock/mutex.c:53`). Identifiers are given out from 0 and accepted from 1, so the first mutex
  of the system cannot be locked. `simple_mutex.c` uses it and prints "suces!" for "succeSs!"; the recorded
  log of mutex_chaser shows a final value of mutex 0 that no task has changed.
- `AcceptedMeetsDeadlines` (`K/sched/ub_test.c:69`). A descriptor with C = T = 0 makes the sum NaN, after which no
  comparison is true and every overload is admitted. And with descriptors of T = B = 0 only (`{C=2, T=0, B=0}`) the sum is infinite but the
  quotient B / T is NaN, so that the infinite load is admitted too.
- `CopiesLeaveTheText` (`T/libc/string/strncpy.c:51`). If the source has no NUL within `count`, the count wraps below
  zero and NULs are written to the end of memory.
- `WidthOnlyPads` (`T/libc/stdio/doprnt.c:469`). `%-m.ns` with a string longer than `n` pads one blank short.
- `MachineIsLeftAsFound` (`src/labs/lab3/kernel/main.c:66`). If the IRQ vector is refused, the SWI handler stays taken.
- `ScreenShowsLine` (`src/labs/lab2/part2/kernel/read.c:43`). `"\\b \\b"` spells the escape out instead of erasing.
- `AnswersInRot13` (`src/labs/lab2/part1/rot13/rot13.c:36`). The test for the end of input reads a buffer `read` did not touch.
- `ClockLosesOnlyMaskedTime` (`src/labs/lab3/kernel/main.c:174`). The "elapsed time since kernel boots" loses masked time.

## 4. The proofs

All are for arbitrary constants, under the `ASSUME`s of the modules: sizes, counts, characters and
durations are natural numbers, `NULL` is no control block, device periods fit the clock, the idle
task is a task and `main` is none, programs of lab3 read into RAM and sleep for durations of a word, the four tasks of a program fit above the idle task, and a test of the
clock ends before it wraps. TLC evaluates every one of them in some run.

**Run queue** (`SchedProof`). Inductive invariant: types and `BitmapMatchesSlots`. The
arithmetic (a priority is 8 * group + bit, and back) is two lemmas; `UnmapIsLowest` gives that a non-empty
byte has a lowest bit; `BitmapImpliesHighest` puts the two lookups together. `BitmapCorrect`,
`HighestCorrect`. It is why `Sched` may use the slots alone.

**Admission** (`SchedProof`). `SortCorrect`: the exchange sort yields a reordering of the caller's list in
order of period, for lists of every length. The invariant says that rows before `i` are final and row `i` is least among those compared
so far; `ExchangeReorders` composes the permutation with the transposition. `TypeCorrect`.

**Kernel, orderly use** (`KernelProof`). The properties are not inductive by themselves: that the holder of a mutex
keeps running across a tick needs that it runs at priority 0, which needs that
`holds_lock` counts exactly what is held, which needs that only the running task holds
anything, which needs that nobody waits while holding. `IInv` (in `Kernel`, checked by `orderly`) is this circle in
named parts: `BootInv` (before the first task set), `ReadyInv` (a slot holds its own task, of the set; the
running and the idle task are ready), `PrioInv` (priority 0 exactly while holding), `LockInv` (holder = running
task, nobody queued, counts right), `SleepInv` (the device lists partition the tasks that are
not ready). The lists are the delicate part: lemmas `ReachFrame` (a change of a link
off the list leaves it alone) and `ReachPush` (a new head adds itself) carry
`dev_wait`; disjointness of the lists carries the walk of `dev_update`. One lemma
per action, then `Invariance`, and from it `TypeCorrect`, `CeilingProtocol`, `LocksCounted`,
`TasksKept`, `SignalsWake`, `InversionsStartAtUnlock`.

**Kernel, refinement** (`KernelProof`). `PromiseKept`: `OrderlySpec` implements `Ceiling` under the mapping of `Kernel`
(ready = occupied slots, waiting = tasks on the lists, holder = `pHolding_Tcb`). One lemma per action: each is the
abstract action of that name, the tick is `Signal` of the due devices or a stutter. The bridge is
`TopPrioIsSection`: running at priority 0 is being in a critical section.

**Kernel, any use** (`KernelProof`). Nothing is assumed of the callers, so nothing about the lists
can be kept. What survives: `AnyUseInv` joins the types, `OwnPrio` (a priority is the native one or 0), the
slots' owners, `MainDoesNotWait` and `LockedIffHeld`. `SlotsKept` and `LocksKept` follow:
even a `task_create` over sleeping tasks and held mutexes leaves no slot with a
stranger in it and no mutex locked by nobody.

**Devices** (`KernelProof!SignalsInTime`). No signal is late, for periods that are whole numbers of ticks. The
invariant: while a device's clock has not wrapped ahead, its next match is on the grid of ticks and within
one period of the clock; `WordArith` has the facts about remainders that a wrap needs.

**Sleep** (`ContextProof!SleepLasts`). An early return means the wake-up time had wrapped, for every tick and word.
The invariant ties the two local variables of the call to the ticks that passed since it began.

**Part1 kernel** (`KernelFcfsProof`). Here order matters, so `FcfsInv` says of every device and mutex list that it is
a sequence: there is one without repetitions whose neighbours are the links and whose end is null. Every
task is ready or on the list of exactly one device or mutex; the holder is the task the mutex
names and heads no list. `ListAppend` is the walk to the tail in `mutex_lock`, `ListTail` the
removal of the head in `mutex_unlock`, `ListFrame` says what a change elsewhere leaves.
`FcfsInvariance`, `EachTaskPlaced`, and the refinement `FirstComeFirstServed`: the linked lists implement the
queues of `Fcfs`, one lemma per action as above.

**Context** (`ContextProof`). The invariant says of every kernel stack what it is made of: nothing, or a system call,
or an interrupt, or an interrupt on a call, and of every task that is not running that its saved context
and the frames on its stack would bring its registers back. A frame is described
by what loading it restores, so the proof has one lemma per wrapper or switch. `ProgramsUndisturbed`, `CallsUndisturbed`.

**The kernels of one program** (`OneProgramProof`). One invariant, `OneProgramInv`, in parts:

- `TakenInv`, `Lab2Inv`: at each place of the way in and out, which handlers are taken and which
  instructions are saved. `MachineReturned`.
- `LineInv`, `ClockInv`: an interrupt is pending only when it came due, and `Lost`, the counts of the
  oscillator that are in no tick, grows only while interrupts are masked. `ticks` counts the interrupts without the
  width of `timer`, which is `ticks` modulo `WORD`. `ClockBehind`; with
  `SleepingInv` (since the call at most one tick is missing), `SleepsNearlyAsAsked`: what the clock shows has come round a number of
  times since the call (`ClockGoesOn`), and is `wait_time` or more only when enough ticks were served, unless the sum had wrapped.
- `ReadingInv`: the buffer holds the keys that stay. `Kept` counts from every key to the end of the line;
  `Placed` makes that inductive: each character of the buffer has its place among the keys, and of
  what was typed behind it exactly as much is left as stands behind it. `TypedOne`, `ErasedOne` and
  `TypedNothing` are the three things a key can do. The screen is `InStep` until a key ends the line. `LineTyped`, `ScreenInStep`.
- `ProgramInv`: where the lab3 programs are, that the buffer is NUL behind the line, and
  `Stopwatch`: since `time()` was called nothing was masked, so `Lost` is as it was and two readings are off
  by a fraction of a tick each (`TwoReadings`), which the wrap of the clock and of the `int` takes off again (`TimesApart`). `ToldAsItHappened`; the score by cases of the position (`ScoreFits`), the
  printed seconds because digits read back (`DecimalReads`). `Decimal` is a recursive function: `SomeDigits` has its values up to
  each number, `SameDigits` that they are unique, and induction is by a least counterexample (`LeastNumber`).
- `Rot13Inv`: what was ever written and is not part of the line is a NUL or the newline of an answer, so the
  loop of rot13 stops at the end of the line (`LineStops`). `AnswersTurned`.

**The lab4 programs** (`ProgramsProof`), on either kernel.

- `LinesOfTasksNest`. `PlacesInv` holds of any use of both kernels: each block runs at its own priority or at the
  top one, and the task that runs is ready, as is the idle task. From it every call and every tick `KeepsAbove`:
  a task that is ready and not running stays ready, and nothing below it gets the processor. So `LinesInv`, that the
  writer of each open line is ready and nothing of a lower priority runs: only a task above all of them can open the
  next line, and the one that closes a line is the one that opened the youngest.
- `SleepsOfCycloneAddUp`. `SleepsInv` carries the sum from line to line: between two lines it is in the
  wake-up time first, in the clock then. `NoWrapAssumption` keeps the count below its wrap (after 49 days with 32
  bits); across the wrap the property need not hold, as with `sleep` itself.

**C library** (`LibProof`).

- `MoveCorrect`: `memmove` leaves in the destination what the source held when it
  was called, for every size of memory and every overlap. The invariant says which part is
  already moved and that what is still to be read is as it was; that needs the direction chosen by
  `dest < src`.
- `ReadersRight`, `CopiesRight`: the searches and comparisons find what their descriptions say, and the copies leave
  the text and touch nothing behind it, for every memory and every call. The functions recur over
  addresses, and induction over them is out of reach; but each has a solution that can be written down (the first NUL,
  the first place where two texts differ, the length of a prefix), and a function with another value somewhere has
  a least place where it has one, which the equation of the function excludes (`FirstStop`, `CountExists`,
  `CountOnce`). `StringsTypeCorrect` keeps characters in the memory and `memmove`'s
  index within its count.
- `NothingLost`: `printf` puts out every character it was given, once and in order, through a line
  buffer of any size: what is out and what is in the buffer together are what was given so far (`PrintInv`). The
  assumptions are that each format has a text, because its arguments are those it asks for, and that a dump is of bytes
  (`PrintsAssumption`, `DumpsAssumption`).
- `RandIsOneToOne`: a step of `rand` is
  one-to-one for every word size, so its sequence comes back to where `srand` began: an addition modulo the
  word is, and the rotation has an inverse.

**Memory check** (`LibProof!AcceptsWhatFits`). `valid_addr` accepts exactly the buffers whose
every byte lies in the range, although the end of the buffer is computed modulo the width of an address.

Only model-checked:

- liveness (`EverySleeperWakes`, `TopTaskRuns`, `SleepEnds`, `EveryWaiterServed`), which is out of the
  prover's reach;
- `ImplementsSets` and `TableFindsLowest`: bitwise operators and a table of 256 literals;
- `AcceptedMeetsDeadlines`: `Demand` recurs over the tasks of a list, and the claim is the bound of Liu and Layland;
- `WidthOnlyPads`, `PrintedNumbersReadBack`: they compare texts character by character, and to the
  provers a string literal has no characters;
- `ChaserEndsRight`, `PrintsAsLogged`: what they say is about one run of a program to its end, with the device periods
  of the code's table and tasks that keep their deadlines.

## 5. What is left out

- `T/stress`: it needs 32 devices, which `replace_c.pl` and `replace_h.pl` write into the kernel
  before it is built.
- Start-up code (`start.S`, `crt0.S`: one jump after the other at boot), boot patching of
  the vector in lab4 (`install_handler.c`, as lab3's, which is modelled; it halts when it cannot), debugging
  helpers, system call stubs, `raise`, the va_list wrapper of `sscanf`.
- Programs that only print (`hello`, `splat`, `echo`, the loop of `rot13` over its arguments).
- The result in `r0`: whether it survives depends on the compiler's registers.
- Hardware registers of the lab4 timer beyond one interrupt per tick, FIQ
  (never used), stack bytes. In `Context` a handler's C code keeps to the AAPCS.
- `invalid_syscall` halts the machine on purpose.
- In lab2 an exit before a program ran goes to a stack pointer nobody set (`kernel.c:80`); the model
  calls that place "gone" and goes no further.
- In the part1 model task sets are created in orderly use only.
- Doubles of `ub_test.c` are exact fractions with infinity and NaN. The bounds have six
  decimals and the rounding of a few dozen operations is some 10^-14.

## 6. Plan

The order of work, the core first: run queue; `Sched`, `Device`, `Mutex`, `Kernel` with
its inductive invariant; `Ceiling` and the refinement; admission, `sleep`, the part1 kernel,
`Context`; the console, the one-program kernels, the C library, the programs; the proofs of what
holds under any use, of `memmove`, `rand` and `valid_addr`; of the signals and `sleep`, of `Context`, of the part1
kernel and its refinement, of the one-program kernels with their programs; of the string functions and `printf`, and of
the lab4 programs. All of this is done. What section 4 lists as only model-checked is not expected to be
proved with these provers.
