----------------------------- MODULE OneProgram -----------------------------
(***************************************************************************)
(* The lab3 kernel: it takes the SWI and IRQ handlers over from U-Boot,    *)
(* starts the timer, runs one program in user mode and serves its system   *)
(* calls, and puts everything back when the program exits.                 *)
(*                                                                         *)
(* Time is counted by the oscillator of the timer.  An interrupt is taken  *)
(* as soon as it is pending and unmasked; system calls run masked, but for *)
(* the loops of read and sleep.                                            *)
(***************************************************************************)
EXTENDS Console

CONSTANTS
    MATCH,              \* oscillator counts per tick: OSTMR_FREQ / 1000 * TIMER_RESOLUTION
    TIMER_RESOLUTION,   \* milliseconds per tick: 10
    WORD,               \* a size_t counts modulo this: 2^32
    SDRAM_LOW, U_Boot,  \* where RAM starts, and from where on it is U-Boot's
    FlashROM_LOW, FlashROM_HIGH,  \* the first and the last address of the flash memory
    Buffers,            \* the <<buf, count>> programs read into
    Keys, Texts, Sleeps, \* what is typed, written and slept
    MaxTyped, MaxNow    \* bounds: keys per line, oscillator counts in all

ASSUME MatchAssumption      == MATCH \in Nat \ {0}
ASSUME ResolutionAssumption == TIMER_RESOLUTION \in Nat \ {0}
ASSUME WordAssumption       == WORD \in Nat \ {0}
ASSUME SleepsAssumption     == Sleeps \subseteq 0..(WORD - 1)
ASSUME BuffersAssumption    == Buffers \subseteq Nat \X Nat
ASSUME KeysAssumption       == Keys \subseteq Nat

Exceptions == {"swi", "irq"}

VARIABLES
    vector,      \* the instruction at each exception vector: "ldr" or "other"
    handler,     \* whose first two instructions each old handler has
    old_ins,     \* what Install_Handler saved of each
    pc,          \* where the kernel or the program is
    unmasked,    \* are interrupts enabled?
    timer,       \* Timer_Driver.c: ticks since initTimer, a size_t
    oscr, osmr, oier, ossr, icmr, iclr,  \* the registers of the timer and its line
    buf, count, line, typed,       \* read: the buffer, and what was typed (for properties)
    wait_time, asked, started,     \* sleep: when it may end; the request and when it came
    now, held,   \* counts since initTimer, and those of them masked (for properties)
    ticks        \* interrupts served since then, without the width of timer (for properties)
install_vars == <<vector, handler, old_ins>>
timer_vars   == <<timer, oscr, osmr, oier, ossr, icmr, iclr>>
read_vars    == <<buf, count, line, typed>>
sleep_vars   == <<wait_time, asked, started>>
time_vars    == <<now, held, ticks>>
vars == <<install_vars, pc, unmasked, timer_vars, read_vars, sleep_vars, time_vars>>

EmptyLine == NewLine(<<>>)

\* U-Boot starts kmain with interrupts masked, the timer's line routed to IRQ or to
\* FIQ.
Init ==
    /\ vector \in [Exceptions -> {"ldr", "other"}]
    /\ handler = [e \in Exceptions |-> "u-boot"]
    /\ old_ins = [e \in Exceptions |-> "none"]
    /\ pc = "kmain" /\ unmasked = FALSE
    /\ timer = 0 /\ oscr = 0 /\ osmr = 0
    /\ oier = FALSE /\ ossr = FALSE /\ icmr = FALSE /\ iclr \in BOOLEAN
    /\ buf = 0 /\ count = 0 /\ line = EmptyLine /\ typed = <<>>
    /\ wait_time = 0 /\ asked = 0 /\ started = 0
    /\ now = 0 /\ held = 0 /\ ticks = 0

-----------------------------------------------------------------------------
(* kmain: in, and out again.                                               *)

\* Mutated form of Installed: the IRQ handler's instructions are not saved.
Installed_unsaved(e) ==
    /\ handler' = [handler EXCEPT ![e] = "kernel"]
    /\ old_ins' = [old_ins EXCEPT !["swi"] = handler["swi"]]

\* Saves the first two instructions of the old handler and overwrites them.
Installed(e) ==
    /\ old_ins' = [old_ins EXCEPT ![e] = handler[e]]
    /\ handler' = [handler EXCEPT ![e] = "kernel"]

\* A vector that is not a load of pc ends kmain at once.
Install_Handler(e, from, to) ==
    /\ pc = from
    /\ IF vector[e] = "ldr"
         THEN Installed(e) /\ pc' = to
         ELSE pc' = "returned" /\ UNCHANGED <<handler, old_ins>>
    /\ UNCHANGED <<vector, unmasked, timer_vars, read_vars, sleep_vars, time_vars>>

initTimer ==
    /\ pc = "irq installed" /\ pc' = "timer started"
    /\ ossr' = FALSE /\ oier' = TRUE /\ icmr' = TRUE /\ iclr' = FALSE
    /\ timer' = 0 /\ osmr' = MATCH /\ oscr' = 0
    /\ UNCHANGED <<install_vars, unmasked, read_vars, sleep_vars, time_vars>>

\* To user mode, interrupts unmasked.
Call_UserApp ==
    /\ pc = "timer started" /\ pc' = "user" /\ unmasked' = TRUE
    /\ UNCHANGED <<install_vars, timer_vars, read_vars, sleep_vars, time_vars>>

\* exit, by the program, by crt0 when main returns, or by an invalid system call:
\* the exception masks interrupts, and the kernel goes on behind Call_UserApp.
exit ==
    /\ pc = "user" /\ pc' = "exited" /\ unmasked' = FALSE
    /\ UNCHANGED <<install_vars, timer_vars, read_vars, sleep_vars, time_vars>>

\* INT_ICLR is left as initTimer made it.
freeTimer ==
    /\ pc = "exited" /\ pc' = "timer freed"
    /\ ossr' = FALSE /\ oier' = FALSE /\ icmr' = FALSE /\ osmr' = 0
    /\ UNCHANGED <<install_vars, unmasked, timer, oscr, iclr, read_vars, sleep_vars,
                   time_vars>>

RestoreHandlers ==
    /\ pc = "timer freed" /\ pc' = "returned"
    /\ handler' = old_ins
    /\ UNCHANGED <<vector, old_ins, unmasked, timer_vars, read_vars, sleep_vars, time_vars>>

-----------------------------------------------------------------------------
(* The timer.                                                              *)

InProgram == pc \in {"user", "reading", "writing", "sleeping"}
Started   == InProgram \/ pc \in {"timer started", "exited"}

Pending == ossr /\ icmr /\ ~iclr

\* One count of the oscillator, from initTimer to freeTimer: a match sets the status bit.  A pending interrupt
\* that is not masked comes first.
Count ==
    /\ Started /\ now < MaxNow
    /\ ~(Pending /\ unmasked)
    /\ now' = now + 1 /\ oscr' = oscr + 1
    /\ ossr' = (ossr \/ (oier /\ oscr' = osmr))
    /\ held' = IF unmasked THEN held ELSE held + 1
    /\ UNCHANGED <<install_vars, pc, unmasked, timer, osmr, oier, icmr, iclr, read_vars,
                   sleep_vars, ticks>>

\* Mutated form of C_IRQ_Handler: the count goes on from where it is.
C_IRQ_Handler_runs_on ==
    /\ timer' = (timer + 1) % WORD /\ ossr' = FALSE
    /\ UNCHANGED <<oscr, osmr, oier, icmr, iclr>>

\* The count starts again from here, however long the interrupt was pending.
C_IRQ_Handler ==
    /\ timer' = (timer + 1) % WORD /\ ossr' = FALSE /\ oscr' = 0
    /\ UNCHANGED <<osmr, oier, icmr, iclr>>

Irq ==
    /\ Pending /\ unmasked
    /\ C_IRQ_Handler
    /\ ticks' = ticks + 1
    /\ UNCHANGED <<install_vars, pc, unmasked, read_vars, sleep_vars, now, held>>

getTimer == (timer * TIMER_RESOLUTION) % WORD

-----------------------------------------------------------------------------
(* The system calls.                                                       *)

\* A buffer in RAM whose end is below U-Boot, or one in the flash memory; an end
\* that wraps passes for a low one.
Readable(b, n) ==
    \/ SDRAM_LOW <= b /\ (b + n) % WORD < U_Boot
    \/ b < SDRAM_LOW /\ FlashROM_LOW <= b /\ (b + n) % WORD <= FlashROM_HIGH

\* Programs read into their stack and their data.
InRam(b, n) == SDRAM_LOW <= b /\ b + n < U_Boot
ASSUME InRamAssumption == \A b \in Buffers : Readable(b[1], b[2]) => InRam(b[1], b[2])

\* The n bytes from b on hold old.  From here on the timer runs on.
read(b, n, old) ==
    /\ pc = "user" /\ Readable(b, n)
    /\ pc' = "reading" /\ unmasked' = TRUE
    /\ buf' = b /\ count' = n /\ typed' = <<>>
    /\ line' = NewLine(old)
    /\ UNCHANGED <<install_vars, timer_vars, sleep_vars, time_vars>>

getc(c) ==
    /\ pc = "reading" /\ MoreToRead(line, count)
    /\ Len(typed) < MaxTyped
    /\ line' = Keyed(line, c)
    /\ typed' = Append(typed, c)
    /\ UNCHANGED <<install_vars, pc, unmasked, timer_vars, buf, count, sleep_vars, time_vars>>

\* The SWI handler restores the program's status: unmasked again.
ReadReturn ==
    /\ pc = "reading" /\ ~MoreToRead(line, count)
    /\ pc' = "user" /\ unmasked' = TRUE
    /\ line' = EmptyLine /\ typed' = <<>> /\ buf' = 0 /\ count' = 0
    /\ UNCHANGED <<install_vars, timer_vars, sleep_vars, time_vars>>

\* write sends its text with interrupts masked all along; line.length of it are out.
write(text) ==
    /\ pc = "user" /\ pc' = "writing" /\ unmasked' = FALSE
    /\ line' = [EmptyLine EXCEPT !.buf = Written(text, Len(text))]
    /\ UNCHANGED <<install_vars, timer_vars, buf, count, typed, sleep_vars, time_vars>>

putc ==
    /\ pc = "writing" /\ line.length < Len(line.buf)
    /\ line' = [line EXCEPT !.length = @ + 1]
    /\ UNCHANGED <<install_vars, pc, unmasked, timer_vars, buf, count, typed, sleep_vars,
                   time_vars>>

WriteReturn ==
    /\ pc = "writing" /\ line.length = Len(line.buf)
    /\ pc' = "user" /\ unmasked' = TRUE
    /\ line' = EmptyLine
    /\ UNCHANGED <<install_vars, timer_vars, buf, count, typed, sleep_vars, time_vars>>

sleep(sleep_time) ==
    /\ pc = "user" /\ pc' = "sleeping" /\ unmasked' = TRUE
    /\ wait_time' = (getTimer + sleep_time) % WORD
    /\ asked' = sleep_time /\ started' = now
    /\ UNCHANGED <<install_vars, timer_vars, read_vars, time_vars>>

\* Mutated form of Slept: the last tick is not waited for.
Slept_short == getTimer + TIMER_RESOLUTION >= wait_time

Slept == getTimer >= wait_time

SleepReturn ==
    /\ pc = "sleeping" /\ Slept
    /\ pc' = "user" /\ unmasked' = TRUE
    /\ wait_time' = 0 /\ asked' = 0 /\ started' = 0
    /\ UNCHANGED <<install_vars, timer_vars, read_vars, time_vars>>

-----------------------------------------------------------------------------
Next ==
    \/ Install_Handler("swi", "kmain", "swi installed")
    \/ Install_Handler("irq", "swi installed", "irq installed")
    \/ initTimer \/ Call_UserApp \/ exit \/ freeTimer \/ RestoreHandlers
    \/ Count \/ Irq
    \/ \E b \in Buffers : read(b[1], b[2], [i \in 0..(b[2] - 1) |-> 0])
    \/ (\E c \in Keys : getc(c)) \/ ReadReturn
    \/ (\E text \in Texts : write(text)) \/ putc \/ WriteReturn
    \/ (\E t \in Sleeps : sleep(t)) \/ SleepReturn

Spec == Init /\ [][Next]_vars

-----------------------------------------------------------------------------
Reading == pc = "reading"
Filled  == [i \in 1..line.length |-> line.buf[i - 1]]

\* What read returns is what was typed and not erased again, whatever keys came
\* in between and however often the erasing reached the start (read.c:39-64).
LineIsWhatWasTyped == Reading => Filled = Kept(typed)

\* While the line is open, the terminal shows what is in the buffer and nothing
\* else: echo and erasure stay in step (read.c:46-48, 60-61).  The escapes of
\* lab2/part2/kernel/read.c:43 do not.
ScreenShowsLine ==
    Reading /\ ~line.ended => Shows(line.screen, Filled)

\* The clock is never ahead of the oscillator, and what it is behind by more than
\* one tick it lost while interrupts were masked, in write for instance: main.c:174
\* starts the count again when the interrupt is served.  (Taken modulo WORD ticks,
\* after which the clock starts again from zero.)
ClockLosesOnlyMaskedTime ==
    InProgram => (now - timer * MATCH) % (WORD * MATCH) <= MATCH + held

\* No sleep is shorter than asked by more than the tick it began in, whenever it
\* begins and however often the clock starts again from zero meanwhile, but for one
\* kind: where the sum of the clock and the request passes the width of a size_t, and
\* the time to wait for is below the request, the sleep may end at once
\* (sleep.c:17-19).
SleepIsAtMostATickShort ==
    [][pc = "sleeping" /\ pc' = "user" =>
          \/ wait_time < asked
          \/ (now - started) * TIMER_RESOLUTION >= (asked - TIMER_RESOLUTION) * MATCH]_vars

\* U-Boot gets its handlers and its timer back, with nothing pending on the line and
\* interrupts masked, unless kmain gave up after it had taken the SWI handler over
\* (main.c:66: the early return restores nothing).  It does not get back the level of
\* the line, which initTimer clears and freeTimer leaves (Timer_Driver.c:33, 45-51).
LeavesMachineAsFound ==
    pc = "returned" =>
        /\ ~oier /\ ~icmr /\ ~unmasked
        /\ handler["irq"] = "u-boot"
        /\ handler["swi"] = "u-boot" \/ vector["irq"] = "other"
=============================================================================
