---------------------------- MODULE Part1Copies ----------------------------
(***************************************************************************)
(* What the lab4 part1 kernel has in copies of the files of part2: the     *)
(* system calls that stay in their caller, read and write (syscall/io.c:   *)
(* Console), sleep and time (syscall/time.c: SleepCall, polling with the   *)
(* interrupts that swi_handler has enabled); the check of their buffers    *)
(* (memcheck.c: MemCheck); sched/run_queue.c (RunQueueBytes); and          *)
(* arm/swi_asm.S, arm/int_asm.S and sched/ctx_switch_asm.S (Context), where *)
(* only the place differs that lets interrupts in during a sleep:          *)
(* swi_handler here and sleep_syscall there.                               *)
(***************************************************************************)
EXTENDS Integers, RunQueueParams

CONSTANTS OS_TIMER_RESOLUTION, WORD, Request, ADDRESSES
CONSTANTS Task, IDLE, MAIN

VARIABLES timer, pc, wait_time, asked, since
vars == <<timer, pc, wait_time, asked, since>>

VARIABLES run_list, run_bits, group_run_bits

VARIABLES cur, at, regs, sp, stack, context, set, turn

LOCAL Io   == INSTANCE Console
LOCAL Time == INSTANCE SleepCall
LOCAL Mem  == INSTANCE MemCheck
LOCAL Queue == INSTANCE RunQueueBytes
LOCAL Entry == INSTANCE Context

\* read and write
EOT_CHAR == Io!EOT_CHAR
DEL_CHAR == Io!DEL_CHAR
Erases(c) == Io!Erases(c)
EndsLine(c) == Io!EndsLine(c)
Regular(c) == Io!Regular(c)
ERASE(screen) == Io!ERASE(screen)
NewLine(buf) == Io!NewLine(buf)
Stored(line, c) == Io!Stored(line, c)
Erased(line) == Io!Erased(line)
Keyed(line, c) == Io!Keyed(line, c)
MoreToRead(line, count) == Io!MoreToRead(line, count)
Written(text, count) == Io!Written(text, count)

\* sleep and time
get_millis == Time!get_millis
Deadline(millis) == Time!Deadline(millis)
sleep_syscall(millis) == Time!sleep_syscall(millis)
Expired == Time!Expired
Return == Time!Return
timer_handler == Time!timer_handler

valid_addr(start, count, base, bound) == Mem!valid_addr(start, count, base, bound)

\* the run queue, byte by byte
prio_unmap_table == Queue!prio_unmap_table
groupNum(prio) == Queue!groupNum(prio)
bitNum(prio) == Queue!bitNum(prio)
mask(bit) == Queue!mask(bit)
clear(byte, bit) == Queue!clear(byte, bit)
Init == Queue!Init
runqueue_add(tcb, prio) == Queue!runqueue_add(tcb, prio)
runqueue_remove(prio) == Queue!runqueue_remove(prio)
highest_prio == Queue!highest_prio
Next == Queue!Next

\* the entry into the kernel and the context switches
Regs == Entry!Regs
Computed(level, v) == Entry!Computed(level, v)
KstackHigh(t) == Entry!KstackHigh(t)
Frame == Entry!Frame

Push(frame) == Entry!Push(frame)
Pop == Entry!Pop
Compute == Entry!Compute
swi_wrapper == Entry!swi_wrapper
spsr_saved == Entry!spsr_saved
swi_return == Entry!swi_return
enable_interrupts == Entry!enable_interrupts
disable_interrupts == Entry!disable_interrupts
Unmasked == Entry!Unmasked
irq_wrapper == Entry!irq_wrapper
irq_return == Entry!irq_return

saved_context(ret) == Entry!saved_context(ret)
ctx_switch_half(u, saved) == Entry!ctx_switch_half(u, saved)
ctx_switch_full(u, ret) == Entry!ctx_switch_full(u, ret)
dispatch_sleep(u) == Entry!dispatch_sleep(u)
dispatch_save(u) == Entry!dispatch_save(u)
task_create(new, u) == Entry!task_create(new, u)
=============================================================================
