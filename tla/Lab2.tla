-------------------------------- MODULE Lab2 --------------------------------
(***************************************************************************)
(* The lab2 kernel and the program it was written to run, rot13.  The      *)
(* kernel takes the SWI handler over from U-Boot and serves read and write *)
(* with interrupts masked all along, so program and kernel are one thread. *)
(* rot13 reads into a buffer on its stack that it never initialises; what  *)
(* such memory holds is a choice of Garbage.                               *)
(***************************************************************************)
EXTENDS Console

CONSTANTS
    BLOCK_SIZE,  \* size of rot13's buffer: 255
    Garbage,     \* characters that memory may hold before it is written
    Keys,        \* what is typed
    MaxTyped     \* bound: keys per line

VARIABLES
    vector,      \* the instruction at the SWI vector: "ldr" or "other"
    handler,     \* whose first two instructions the old handler has
    oldSwi_ins,  \* what Install_SWI_Handler saved of it
    kStackPtr,   \* where exit goes: "unset" until Call_UserApp
    pc,          \* where the kernel or the program is
    line, typed, \* read: the line, and what was typed (for properties)
    buffer,      \* rot13: its buffer, by index
    beyond,      \* the byte of its stack behind the buffer
    stop,        \* rot13: its count, where the loop over the buffer stopped
    answer,      \* what the last write put out
    known        \* the indices of buffer that were ever written (for properties)
kernel_vars == <<vector, handler, oldSwi_ins, kStackPtr>>
rot13_vars  == <<line, typed, buffer, beyond, stop, answer, known>>
vars == <<kernel_vars, pc, rot13_vars>>

Index == 0..(BLOCK_SIZE - 1)

Init ==
    /\ vector \in {"ldr", "other"}
    /\ handler = "u-boot" /\ oldSwi_ins = "none" /\ kStackPtr = "unset"
    /\ pc = "main"
    /\ line = NewLine(<<>>) /\ typed = <<>>
    /\ buffer \in [Index -> Garbage] /\ beyond \in Garbage
    /\ stop = 0 /\ answer = <<>> /\ known = {}

-----------------------------------------------------------------------------
(* The kernel.                                                             *)

\* exit unwinds to kStackPtr.  Before Call_UserApp that is a word nobody wrote:
\* start.S does not even clear the bss.
ExitTo == IF kStackPtr = "unset" THEN "gone" ELSE "exited"

Install_SWI_Handler ==
    /\ pc = "main"
    /\ IF vector = "ldr"
         THEN oldSwi_ins' = handler /\ handler' = "kernel" /\ pc' = "installed"
         ELSE pc' = ExitTo /\ UNCHANGED <<handler, oldSwi_ins>>
    /\ UNCHANGED <<vector, kStackPtr, rot13_vars>>

Call_UserApp ==
    /\ pc = "installed" /\ pc' = "user"
    /\ kStackPtr' = "main"
    /\ UNCHANGED <<vector, handler, oldSwi_ins, rot13_vars>>

RestoreHandler ==
    /\ pc = "exited" /\ pc' = "returned"
    /\ handler' = oldSwi_ins
    /\ UNCHANGED <<vector, oldSwi_ins, kStackPtr, rot13_vars>>

\* read.c sends the escapes as they are spelt.
Erase(ln) == [Erased(ln) EXCEPT !.screen = ERASE_spelt(ln.screen)]

Key(ln, c) == IF Erases(c) /\ ln.length # 0 THEN Erase(ln) ELSE Keyed(ln, c)

read ==
    /\ pc = "user" /\ pc' = "reading"
    /\ line' = NewLine(buffer) /\ typed' = <<>> /\ answer' = <<>>
    /\ UNCHANGED <<kernel_vars, buffer, beyond, stop, known>>

getc(c) ==
    /\ pc = "reading" /\ MoreToRead(line, BLOCK_SIZE) /\ Len(typed) < MaxTyped
    /\ line' = Key(line, c)
    /\ typed' = Append(typed, c)
    /\ known' = known \cup (0..(line'.length - 1))
    /\ UNCHANGED <<kernel_vars, pc, buffer, beyond, stop, answer>>

read_return ==
    /\ pc = "reading" /\ ~MoreToRead(line, BLOCK_SIZE)
    /\ pc' = "read"
    /\ buffer' = line.buf
    /\ UNCHANGED <<kernel_vars, line, typed, beyond, stop, answer, known>>

-----------------------------------------------------------------------------
(* rot13.                                                                  *)

caesar(c) ==
    IF c \in (65..77) \cup (97..109) THEN c + 13
    ELSE IF c \in (78..90) \cup (110..122) THEN c - 13
    ELSE c

Stops(c) == c \in {10, 13, 0}

\* Where the loop over the buffer stops, and what it leaves when it stops at n.
StopsAt == LET at == {k \in Index : Stops(buffer[k])}
           IN  IF at = {} THEN BLOCK_SIZE ELSE CHOOSE k \in at : \A j \in at : k <= j
Rotated(n) == [k \in Index |-> IF k < n THEN caesar(buffer[k])
                               ELSE IF k = n THEN 10 ELSE buffer[k]]

exit ==
    /\ pc = "read" /\ Stops(buffer[0])
    /\ pc' = ExitTo
    /\ UNCHANGED <<kernel_vars, rot13_vars>>

\* write is asked for one byte more than the loop counted: for one behind the
\* buffer when the buffer is full.
rot13 ==
    /\ pc = "read" /\ ~Stops(buffer[0])
    /\ pc' = "answered"
    /\ stop' = StopsAt
    /\ buffer' = Rotated(stop')
    /\ answer' = Written([k \in 1..(stop' + 1) |->
                            IF k <= BLOCK_SIZE THEN buffer'[k - 1] ELSE beyond], stop' + 1)
    /\ UNCHANGED <<kernel_vars, line, typed, beyond, known>>

\* Mutated form of Flushed: the buffer is used again as it is.
Flushed_not == buffer

\* The newline that ended the answer stays.
Flushed == [k \in Index |-> IF k < stop THEN 0 ELSE buffer[k]]

flush ==
    /\ pc = "answered" /\ pc' = "user"
    /\ buffer' = Flushed
    /\ known' = known \cup ((0..stop) \cap Index)
    /\ line' = NewLine(<<>>) /\ typed' = <<>> /\ answer' = <<>> /\ stop' = 0
    /\ UNCHANGED <<kernel_vars, beyond>>

Next ==
    \/ Install_SWI_Handler \/ Call_UserApp \/ RestoreHandler
    \/ read \/ (\E c \in Keys : getc(c)) \/ read_return
    \/ exit \/ rot13 \/ flush

Spec == Init /\ [][Next]_vars

-----------------------------------------------------------------------------
\* The letter 13 places on, round the alphabet.
Turned(c) == IF c \in 65..90 THEN 65 + ((c - 52) % 26)
             ELSE IF c \in 97..122 THEN 97 + ((c - 84) % 26) ELSE c

\* rot13 answers a line with what was typed, turned, and a newline, whatever lines
\* came before (rot13.c:33-51): the letters always, and nothing else when the line
\* was ended by a newline, or was ended by EOT and reaches no further than an earlier
\* one did.  Otherwise what the stack held follows, and behind a line that fills the
\* buffer one more byte.  It ends on an empty line only.
AnswersInRot13 ==
    LET keys    == Kept(typed)
        newline == keys # <<>> /\ EndsLine(keys[Len(keys)])
        text    == IF newline THEN SubSeq(keys, 1, Len(keys) - 1) ELSE keys
        turned  == [k \in 1..Len(text) |-> Turned(text[k])]
    IN  /\ pc = "answered" =>
              /\ SubSeq(answer, 1, Len(text)) = turned
              /\ newline \/ Len(text) \in known \ {BLOCK_SIZE} => answer = turned \o <<10>>
        /\ pc = "exited" => text = <<>>

\* U-Boot gets its handler back, unless the vector was not recognised: then exit
\* jumps through a stack pointer that was never set (kernel.c:80, exit.S:15-17).
LeavesMachineAsFound ==
    /\ pc = "returned" => handler = "u-boot"
    /\ pc = "gone" => vector = "other"
=============================================================================
