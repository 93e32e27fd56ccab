------------------------------ MODULE Context ------------------------------
(***************************************************************************)
(* Exception entry, exception return and context switch of the lab4 part2  *)
(* kernel: arm/swi_asm.S, arm/int_asm.S, sched/ctx_switch_asm.S and the    *)
(* contexts that sched.c prepares.  Which task runs next is the business   *)
(* of Sched; here any other task of the set may be chosen.                 *)
(*                                                                         *)
(* A register holds a tag: whose value it is, whether it is one of the     *)
(* user program or of the C code of a system call, and which of two        *)
(* successive values.  Registers that every instruction here treats alike  *)
(* are one component.                                                      *)
(***************************************************************************)
EXTENDS Naturals, Sequences

CONSTANTS Task,   \* the tasks, the idle task included
          IDLE,   \* the idle task, which makes no system call
          MAIN    \* the program that creates the first task set

ASSUME IdleAssumption == IDLE \in Task
ASSUME MainAssumption == MAIN \notin Task

Owner == Task \cup {MAIN}
Value == Owner \X {"user", "call", "launch", "junk", "uboot"} \X {0, 1}

Junk        == <<MAIN, "junk", 0>>     \* whatever C code leaves behind
global_data == <<MAIN, "uboot", 0>>    \* U-Boot's dispatch table

VARIABLES
    cur,       \* the task whose turn it is; MAIN before the first task set
    at,        \* "user"; "call": C code of a system call, interrupts enabled;
               \* "swi", "irq": C code of a handler, interrupts masked
    regs,      \* the registers of the processor
    sp,        \* sp_svc: whose kernel stack, and how many frames are on it
    stack,     \* [Owner -> the frames of its kernel stack]
    context,   \* tcb field: what the dispatcher saved
    set,       \* the current task set
    turn       \* which of its two values a task computed last, as a user and
               \* inside a system call
vars == <<cur, at, regs, sp, stack, context, set, turn>>

\* scratch: r0-r3 and ip; callee: r4-r7 and r9-r11; usr: sp and lr of user mode;
\* lr, spsr: those of supervisor mode.
Regs  == [scratch : Value, r8 : Value, callee : Value, usr : Value, pc : Value,
          lr : Value, spsr : {"user", "call"}]
Sp    == [of : Owner, frames : 0..2]
Saved == [callee : Value, r8 : Value, sp : Sp, lr : {"swi", "irq", "launch_task"}]

\* What the registers of task t must hold at a level.
Own(t, level) == <<t, level, turn[<<t, level>>]>>

\* At most one system call and one interrupt are ever on a kernel stack, so
\* OS_KSTACK_SIZE bounds it (task.h:62).
TypeOK ==
    /\ cur \in Owner
    /\ at \in {"user", "call", "swi", "irq"}
    /\ regs \in Regs
    /\ sp \in Sp
    /\ \A t \in Owner :
           Len(stack[t]) <= 2 /\ \A k \in 1..Len(stack[t]) : stack[t][k] \in Regs
    /\ context \in [Task -> Saved]
    /\ set \subseteq Task
    /\ turn \in [Owner \X {"user", "call"} -> {0, 1}]

-----------------------------------------------------------------------------
\* The registers after code at a level has computed v into all it may use.
Computed(level, v) ==
    IF level = "user"
      THEN [regs EXCEPT !.scratch = v, !.r8 = v, !.callee = v, !.usr = v, !.pc = v]
      ELSE [regs EXCEPT !.scratch = v, !.callee = v, !.pc = v, !.lr = v]

KstackHigh(t) == [of |-> t, frames |-> 0]

\* main in user mode; the control blocks are zero.
Init ==
    LET mine == <<MAIN, "user", 0>>
    IN  /\ cur = MAIN /\ at = "user"
        /\ turn = [x \in Owner \X {"user", "call"} |-> 0]
        /\ regs = [scratch |-> mine, r8 |-> mine, callee |-> mine, usr |-> mine,
                   pc |-> mine, lr |-> Junk, spsr |-> "user"]
        /\ sp = KstackHigh(MAIN)
        /\ stack = [t \in Owner |-> <<>>]
        /\ context = [t \in Task |->
              [callee |-> Junk, r8 |-> Junk, sp |-> KstackHigh(MAIN), lr |-> "launch_task"]]
        /\ set = {}

\* The frame on top of the kernel stack.
Frame == stack[sp.of][sp.frames]
Push(frame) ==
    /\ stack' = [stack EXCEPT ![sp.of] = Append(SubSeq(@, 1, sp.frames), frame)]
    /\ sp' = [sp EXCEPT !.frames = @ + 1]
Pop ==
    /\ stack' = [stack EXCEPT ![sp.of] = SubSeq(@, 1, sp.frames - 1)]
    /\ sp' = [sp EXCEPT !.frames = @ - 1]

-----------------------------------------------------------------------------
\* The program, or the C code of an interruptible system call, computes.  The
\* idle task only loops.
Compute ==
    /\ at \in {"user", "call"} /\ cur # IDLE
    /\ turn' = [turn EXCEPT ![<<cur, at>>] = 1 - @]
    /\ regs' = Computed(at, <<cur, at, turn'[<<cur, at>>]>>)
    /\ UNCHANGED <<cur, at, sp, stack, context, set>>

\* SWI: swi_wrapper saves r0-r12, the return address, spsr and the user sp and lr,
\* and calls swi_handler.
swi_wrapper ==
    /\ at = "user" /\ cur # IDLE
    /\ Push([regs EXCEPT !.spsr = "user", !.lr = Junk])
    /\ regs' = [Computed("call", Own(cur, "call")) EXCEPT
                    !.scratch = Junk, !.pc = Junk, !.lr = Junk,
                    !.spsr = "user", !.r8 = global_data]
    /\ at' = "swi"
    /\ UNCHANGED <<cur, context, set, turn>>

\* Mutated form of spsr_saved: the copy pushed at entry is not moved back.
spsr_live == regs.spsr

spsr_saved == Frame.spsr

\* ... and on the way back restores all of it and jumps to where spsr says.
swi_return ==
    /\ at = "swi"
    /\ regs' = [regs EXCEPT !.scratch = Frame.scratch, !.r8 = Frame.r8,
                            !.callee = Frame.callee, !.usr = Frame.usr,
                            !.pc = Frame.pc, !.spsr = spsr_saved]
    /\ at' = regs'.spsr
    /\ Pop
    /\ UNCHANGED <<cur, context, set, turn>>

\* read, write and sleep work with interrupts enabled.  (A call may do so here
\* before or after it blocks; those of the code do one or the other.)
enable_interrupts ==
    /\ at = "swi" /\ at' = "call"
    /\ regs' = Computed("call", Own(cur, "call"))
    /\ UNCHANGED <<cur, sp, stack, context, set, turn>>

disable_interrupts ==
    /\ at = "call" /\ at' = "swi"
    /\ regs' = [regs EXCEPT !.scratch = Junk, !.pc = Junk, !.lr = Junk]
    /\ UNCHANGED <<cur, sp, stack, context, set, turn>>

Unmasked == at \in {"user", "call"}

\* IRQ: irq_wrapper moves to the kernel stack of whoever was interrupted, saves
\* what C code may use there and overwrites spsr_svc.
irq_wrapper ==
    LET from == IF at = "user" THEN "user" ELSE "call"
    IN  /\ Unmasked
        /\ Push([regs EXCEPT !.callee = Junk, !.spsr = from])
        /\ regs' = [regs EXCEPT !.scratch = Junk, !.pc = Junk, !.lr = Junk,
                                !.spsr = from, !.r8 = global_data]
        /\ at' = "irq"
        /\ UNCHANGED <<cur, context, set, turn>>

irq_return ==
    /\ at = "irq"
    /\ regs' = [Frame EXCEPT !.callee = regs.callee]
    /\ at' = regs'.spsr
    /\ Pop
    /\ UNCHANGED <<cur, context, set, turn>>

-----------------------------------------------------------------------------
\* Mutated form of saved_context: r4-r11 are not stored.
saved_context_short(ret) ==
    [context[cur] EXCEPT !.sp = sp, !.lr = ret]

saved_context(ret) == [callee |-> regs.callee, r8 |-> regs.r8, sp |-> sp, lr |-> ret]

\* ctx_switch_half: load the context of u and go where its lr says: back into the
\* handler that switched u out, or to launch_task, which enters user mode with
\* r4-r6 as entry point, argument and stack.  What else a program finds in its
\* registers when it starts counts as its own.
ctx_switch_half(u, saved) ==
    /\ cur' = u
    /\ sp' = saved.sp
    /\ IF saved.lr = "launch_task"
         THEN /\ at' = "user"
              /\ regs' = Computed("user", <<saved.callee[1], "user", turn[<<u, "user">>]>>)
         ELSE /\ at' = saved.lr
              /\ regs' = [regs EXCEPT !.callee = saved.callee, !.r8 = saved.r8]

ctx_switch_full(u, ret) ==
    /\ context' = [context EXCEPT ![cur] = saved_context(ret)]
    /\ ctx_switch_half(u, context[u])

\* A system call that blocks, and a tick that preempts.
dispatch_sleep(u) ==
    /\ at = "swi" /\ cur # MAIN /\ u \in set \ {cur}
    /\ ctx_switch_full(u, "swi")
    /\ UNCHANGED <<stack, set, turn>>

dispatch_save(u) ==
    /\ at = "irq" /\ cur # MAIN /\ u \in set \ {cur}
    /\ ctx_switch_full(u, "irq")
    /\ UNCHANGED <<stack, set, turn>>

\* task_create: allocate_tasks prepares the context of every task of the new
\* set, on the kernel stack of the caller; the caller is never resumed unless it
\* starts afresh.  r8 is not set.
task_create(new, u) ==
    /\ at = "swi" /\ new \subseteq Task /\ IDLE \in new /\ u \in new
    /\ context' = [t \in Task |->
           IF t \in new THEN [callee |-> <<t, "launch", 0>>, r8 |-> context[t].r8,
                              sp |-> KstackHigh(t), lr |-> "launch_task"]
                        ELSE context[t]]
    /\ set' = new
    /\ ctx_switch_half(u, context'[u])
    /\ UNCHANGED <<stack, turn>>

Next ==
    \/ Compute
    \/ swi_wrapper \/ swi_return
    \/ enable_interrupts \/ disable_interrupts
    \/ irq_wrapper \/ irq_return
    \/ \E u \in Task : dispatch_sleep(u) \/ dispatch_save(u)
    \/ \E new \in SUBSET Task : \E u \in new : task_create(new, u)

Spec == Init /\ [][Next]_vars

-----------------------------------------------------------------------------
\* A program that goes on after a system call, an interrupt or a preemption
\* finds in its registers what it last computed there, and its kernel stack is
\* empty again (swi_asm.S:35-44, int_asm.S:66-70, ctx_switch_asm.S:45-54).
ProgramUndisturbed ==
    at = "user" =>
        /\ {regs.scratch, regs.r8, regs.callee, regs.usr, regs.pc} = {Own(cur, "user")}
        /\ sp = KstackHigh(cur)

\* So does a system call that was interrupted, and perhaps preempted, in the
\* middle, though that interrupt overwrote spsr_svc and lr_svc; handlers find
\* their r4-r11 after a switch, and U-Boot's table in r8; and no kernel stack ever
\* holds more than a call and its interrupt (int_asm.S:32-49, 56-58).
CallUndisturbed ==
    /\ at = "call" =>
         /\ {regs.scratch, regs.callee, regs.pc, regs.lr} = {Own(cur, "call")}
         /\ sp = [of |-> cur, frames |-> 1]
    /\ at = "swi" => regs.callee = Own(cur, "call")
    /\ at # "user" => regs.r8 = global_data
    /\ \A t \in Owner : Len(stack[t]) <= 2
=============================================================================
