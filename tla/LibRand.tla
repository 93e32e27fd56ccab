------------------------------- MODULE LibRand -------------------------------
(***************************************************************************)
(* stdlib/rand.c: two words of state, seed[0] and seed[1] in the code.     *)
(***************************************************************************)
EXTENDS Integers

CONSTANTS
    RWORD,          \* number of values of an unsigned (2^32)
    RAND_STEP,      \* 0xa859c317
    LEFT, RIGHT     \* the rotation: << 13 multiplies, >> 19 divides by these
ASSUME RandAssumption ==
    /\ RWORD \in Nat \ {0}
    /\ RAND_STEP \in Nat
    /\ LEFT \in Nat \ {0} /\ RIGHT \in Nat \ {0} /\ LEFT * RIGHT = RWORD

Word  == 0..(RWORD - 1)
Seeds == Word \X Word

Rotated(x) == ((x * LEFT) % RWORD) + (x \div RIGHT)

srand(new_seed) == <<new_seed, new_seed>>

\* The state after a call; the result is seed[0] without its top bit.
rand(seed) ==
    LET s0 == (seed[1] + RAND_STEP + Rotated(seed[2])) % RWORD
    IN  <<s0, (seed[2] + s0) % RWORD>>
rand_result(seed) == rand(seed)[1] % (RWORD \div 2)
=============================================================================
