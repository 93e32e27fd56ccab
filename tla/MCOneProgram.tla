---------------------------- MODULE MCOneProgram ----------------------------
(***************************************************************************)
(* The kernels that run one program, side by side: a behaviour is lab3's   *)
(* with any program, lab3's with one of its two timed programs, or lab2's  *)
(* with rot13.                                                             *)
(***************************************************************************)
EXTENDS Lab3Programs

CONSTANTS Garbage, Rot13Keys, Rot13Typed   \* for Lab2: memory, keys and their bound

ASSUME GarbageAssumption   == Garbage \subseteq Nat
ASSUME Rot13KeysAssumption == Rot13Keys \subseteq Nat

VARIABLES part, oldSwi_ins, kStackPtr, where, vector2, handler2, line2, typed2,
          buffer, beyond, stop, answer, known
lab2_vars == <<vector2, handler2, oldSwi_ins, kStackPtr, where, line2, typed2, buffer,
               beyond, stop, answer, known>>

Lab2 == INSTANCE Lab2 WITH
    vector <- vector2, handler <- handler2, pc <- where, line <- line2, typed <- typed2,
    Keys <- Rot13Keys, MaxTyped <- Rot13Typed

\* One part runs; the others wait in one of their initial states.
Lab2Waits ==
    /\ vector2 = "ldr" /\ handler2 = "u-boot" /\ oldSwi_ins = "none" /\ kStackPtr = "unset"
    /\ where = "main" /\ line2 = EmptyLine /\ typed2 = <<>>
    /\ buffer = [k \in 0..(BLOCK_SIZE - 1) |-> 0] /\ beyond = 0 /\ stop = 0
    /\ answer = <<>> /\ known = {}
NoProgram == prog = "none" /\ at = "none" /\ block = <<>> /\ t = 0 /\ entered = <<>> /\ took = 0
Lab3Waits == Init /\ ~iclr /\ NoProgram /\ vector = [e \in Exceptions |-> "ldr"]

AllInit ==
    \/ part = "any program" /\ Init /\ NoProgram /\ Lab2Waits
    \/ part = "lab3" /\ ProgramsInit /\ Lab2Waits
    \/ part = "lab2" /\ Lab2!Init /\ Lab3Waits
AllNext ==
    \/ part = "any program" /\ Next /\ UNCHANGED <<part, program_vars, lab2_vars>>
    \/ part = "lab3" /\ ProgramsNext /\ UNCHANGED <<part, lab2_vars>>
    \/ part = "lab2" /\ Lab2!Next /\ UNCHANGED <<part, vars, program_vars>>
AllSpec == AllInit /\ [][AllNext]_<<part, vars, program_vars, lab2_vars>>

-----------------------------------------------------------------------------
\* lab2/part1/rot13/rot13.c:33-51
AnswersInRot13 == Lab2!AnswersInRot13

\* U-Boot gets back from both kernels what they took (lab3 main.c:53-83, lab2
\* part2/kernel/kernel.c:36-51).
MachineIsLeftAsFound == LeavesMachineAsFound /\ Lab2!LeavesMachineAsFound

-----------------------------------------------------------------------------
\* Two letters, both kinds of erasing and of ending, and a key to ignore.  RAM is
\* 4..11 below U-Boot's memory, the flash memory 0..2: two buffers in RAM, one that
\* reaches U-Boot's memory and one that starts in the flash memory and leaves it.
MCKeys    == {97, 98, 8, 127, 13, EOT_CHAR, 7}
MCBuffers == {<<4, 2>>, <<8, 3>>, <<11, 1>>, <<1, 2>>}
MCTexts   == {<<97, 98>>, <<97, 0, 98>>}

\* Ticks of 12.1 seconds and a word of 2^15: after one tick the seconds have two
\* digits, after two the time is negative as an int, at the third the clock starts
\* again.  The sleeps end at a tick, between two, and past the width of the word.
MCSleeps  == {6050, 12100, 24200, 32767}

MCLineKeys == {97, 8, 13, EOT_CHAR}

\* Every position up to well behind the wall, and some before the start.
MCDriveTimes == {50 * k : k \in 0..40} \cup {-99, -100, -1950, -2000, -2500}

\* A letter of each half of the alphabet, one key to erase and both ways to end;
\* memory nobody wrote holds a letter or NUL.
MCRot13Keys == {97, 122, 8, 13, EOT_CHAR}
MCGarbage   == {0, 120}
=============================================================================
