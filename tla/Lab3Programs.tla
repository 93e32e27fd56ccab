---------------------------- MODULE Lab3Programs ----------------------------
(***************************************************************************)
(* The two programs of lab3 that read a line and time it: typo, which      *)
(* echoes the line and says how long it took, and hardestGame, which stops *)
(* a car when the line ends.  Each runs on the lab3 kernel, OneProgram;    *)
(* between two system calls ticks come as they do for any program.  The    *)
(* countdown and the frames the game shows before it starts the clock are  *)
(* one text here.                                                          *)
(***************************************************************************)
EXTENDS OneProgram

CONSTANTS
    BLOCK_SIZE,    \* size of the program's buffer: 255
    LineKeys,      \* what is typed to the programs
    DriveTimes     \* differences of time() the result of the game is checked for

ASSUME BlockAssumption      == BLOCK_SIZE \in Nat \ {0} /\ InRam(SDRAM_LOW, BLOCK_SIZE)
ASSUME LineKeysAssumption   == LineKeys \subseteq Nat
ASSUME DriveTimesAssumption == DriveTimes \subseteq Int

VARIABLES
    prog, at,      \* "typo" or "game"; the next statement of its loop
    block,         \* its buffer
    t,             \* its clock, an int: what time returned, then the difference
    entered, took  \* what was typed; oscillator counts between the two calls of time
                   \* (for properties)
program_vars == <<prog, at, block, t, entered, took>>

Index == 0..(BLOCK_SIZE - 1)

\* The int that an unsigned number of the same width becomes, and C's division,
\* which cuts towards zero.
AsInt(x)   == IF x < WORD \div 2 THEN x ELSE x - WORD
CDiv(a, m) == IF a >= 0 THEN a \div m ELSE -((-a) \div m)

-----------------------------------------------------------------------------
(* hardestGame: the row of the parking lot, by cells; the car is four of   *)
(* them, the walls of the slot are cells 32 and 39.                        *)

DOT  == 46
WALL == 124
CAR  == <<91, 35, 35, 68>>   \* "[##D"

position(dt) == CDiv(dt, 100)

\* Where the car stops short of driving through the wall; it cannot stop before the
\* start of the row.
CarAt(pos) == IF 20 + pos > 0 THEN 20 + pos ELSE 0
InRow(pos) ==
    [i \in 0..39 |->
        IF i \in CarAt(pos)..(CarAt(pos) + 3) THEN CAR[i + 1 - CarAt(pos)]
        ELSE IF i \in {32, 39} THEN WALL ELSE DOT]

Through == [i \in 0..39 |->
    IF i \in 36..39 THEN <<91, 35, 64, 124>>[i - 35] ELSE IF i = 32 THEN WALL ELSE DOT]

Row(pos) == IF pos > 15 THEN Through ELSE InRow(pos)

\* The score it prints; up to position 4 there is none.
score(pos) ==
    IF pos > 15 THEN 0
    ELSE IF pos = 14 THEN 10
    ELSE IF pos \in {13, 15} THEN 9
    ELSE IF pos > 4 THEN pos - 5
    ELSE 0

-----------------------------------------------------------------------------
ProgramsInit ==
    /\ Init
    /\ prog \in {"typo", "game"} /\ at = "prompt"
    /\ block = [i \in Index |-> 0]
    /\ t = 0 /\ entered = <<>> /\ took = 0

\* Mutated form of Cleared: the buffer keeps the line before.
Cleared_not == block

Cleared == [i \in Index |-> 0]

\* typo: "> "; the game: everything up to the last frame.  Both programs clear
\* the buffer each time round.
prompt ==
    /\ at = "prompt" /\ at' = "time"
    /\ write(<<62, 32>>)
    /\ block' = Cleared
    /\ t' = 0 /\ entered' = <<>> /\ took' = 0
    /\ UNCHANGED prog

\* time(), with interrupts masked for as long as it takes.
start_time ==
    /\ at = "time" /\ pc = "user" /\ at' = "read"
    /\ t' = AsInt(getTimer) /\ took' = now
    /\ UNCHANGED <<vars, prog, block, entered>>

\* The buffer lies on the stack: any place in RAM will do.
read_line ==
    /\ at = "read" /\ at' = "reading"
    /\ read(SDRAM_LOW, BLOCK_SIZE, block)
    /\ UNCHANGED <<prog, block, t, entered, took>>

line_read ==
    /\ at = "reading" /\ at' = "elapsed"
    /\ ReadReturn
    /\ block' = line.buf /\ entered' = typed
    /\ UNCHANGED <<prog, t, took>>

\* The difference of two words, or of two ints, taken by an instruction that wraps.
elapsed == AsInt((getTimer - t) % WORD)

end_time ==
    /\ at = "elapsed" /\ pc = "user"
    /\ at' = IF prog = "typo" THEN "echo" ELSE "result"
    /\ t' = elapsed /\ took' = now - took
    /\ UNCHANGED <<vars, prog, block, entered>>

\* write stops at the first NUL of the buffer.
echo ==
    /\ at = "echo" /\ at' = "print"
    /\ write([k \in 1..BLOCK_SIZE |-> block[k - 1]])
    /\ UNCHANGED <<prog, block, t, entered, took>>

\* The digits %d prints, with a sign before those of a negative number.
Decimal[n \in Nat] == IF n < 10 THEN <<48 + n>>
                      ELSE Append(Decimal[n \div 10], 48 + (n % 10))
Signed(n) == IF n >= 0 THEN Decimal[n] ELSE <<45>> \o Decimal[-n]

\* "\n%d.%ds\n"
SecondsText(ms) ==
    <<10>> \o Signed(CDiv(ms, 1000)) \o <<46>>
           \o Signed(CDiv(ms, 100) - CDiv(ms, 1000) * 10) \o <<115, 10>>

print ==
    /\ at = "print" /\ at' = "prompt"
    /\ write(SecondsText(t))
    /\ UNCHANGED <<prog, block, t, entered, took>>

result ==
    /\ at = "result" /\ at' = "prompt"
    /\ LET row == Row(position(t))
       IN  write([k \in 1..40 |-> row[k - 1]] \o <<10>> \o Decimal[score(position(t))])
    /\ UNCHANGED <<prog, block, t, entered, took>>

\* What goes on under the program: the kernel brings it up, characters come and go,
\* time passes.
Kernel ==
    /\ \/ Install_Handler("swi", "kmain", "swi installed")
       \/ Install_Handler("irq", "swi installed", "irq installed")
       \/ initTimer \/ Call_UserApp
       \/ Count \/ Irq
       \/ (\E c \in LineKeys : getc(c)) \/ putc \/ WriteReturn
    /\ UNCHANGED program_vars

ProgramsNext ==
    \/ Kernel
    \/ prompt \/ start_time \/ read_line \/ line_read \/ end_time
    \/ echo \/ print \/ result

ProgramsSpec == ProgramsInit /\ [][ProgramsNext]_<<vars, program_vars>>

-----------------------------------------------------------------------------
\* The clock's difference is that of two times at most a tick more or less apart than
\* the two calls were, by the oscillator (C_IRQ_Handler restarts it, but nothing is
\* masked for long between them), read as an int: below 2^31 milliseconds, some 24
\* days, the difference of the times itself.
TimeIsRight ==
    \E d \in 0..((took \div MATCH) + 1) :
        /\ t = AsInt((d * TIMER_RESOLUTION) % WORD)
        /\ took - MATCH <= d * MATCH /\ d * MATCH <= took + MATCH

\* What a row of digits reads as.
ReadsAs(s) ==
    LET value[k \in 0..Len(s)] == IF k = 0 THEN 0 ELSE 10 * value[k - 1] + (s[k] - 48)
    IN  value[Len(s)]

\* The text tells the time in seconds, cut to tenths: digits, a point and one digit.
Tells(text, ms) ==
    LET point   == Len(text) - 3
        seconds == SubSeq(text, 2, point - 1)
        told    == ReadsAs(seconds) * 1000 + (text[point + 1] - 48) * 100
    IN  /\ text[1] = 10 /\ text[point] = 46 /\ text[point + 2] = 115 /\ text[point + 3] = 10
        /\ seconds # <<>> /\ \A k \in 1..Len(seconds) : seconds[k] \in 48..57
        /\ text[point + 1] \in 48..57
        /\ told <= ms /\ ms < told + 100

\* The car stands between the walls when the score is 9 or 10, in the middle of the
\* slot when it is 10, and every place nearer to the slot scores at least as much.
ScoreFitsRow(pos) ==
    LET row  == Row(pos)
        car  == {i \in 0..39 : row[i] \in {35, 64, 68, 91}}
        free == row[32] = WALL /\ row[39] = WALL /\ Cardinality(car) = 4
    IN  /\ score(pos) >= 9 <=> free /\ \A i \in car : 32 < i
        /\ score(pos) = 10 <=> car = 34..37
        /\ \A q \in 0..(pos - 1) : pos <= 14 => score(q) <= score(pos)

\* typo echoes the line as it was typed, nothing of an earlier one with it, and the
\* seconds it prints are the time the line took, cut to tenths, however many there are,
\* as long as the difference is one an int holds; the game scores the row it shows, and
\* shows it for the time that passed (typo.c:22-37, hardestGame.c:65-108).
TellsWhatHappened ==
    /\ at = "print" /\ pc = "writing" => line.buf = Kept(entered)
    /\ at \in {"echo", "print", "result"} => TimeIsRight
    /\ at = "prompt" /\ pc = "writing" /\ prog = "typo" /\ t >= 0 => Tells(line.buf, t)
    /\ at = "result" /\ pc = "user" => \A dt \in DriveTimes \cup {t} : ScoreFitsRow(position(dt))
=============================================================================
