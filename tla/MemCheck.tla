------------------------------ MODULE MemCheck ------------------------------
(***************************************************************************)
(* memcheck.c (lab4): does a buffer lie in a range of addresses?  The end  *)
(* of the buffer is computed in the width of an address.                   *)
(***************************************************************************)
EXTENDS Integers

CONSTANT ADDRESSES   \* how many there are: 2^32 in the code
ASSUME AddressesAssumption == ADDRESSES \in Nat \ {0}

Address == 0..(ADDRESSES - 1)

valid_addr(start, n, base, bound) ==
    LET mem_end == (start + n) % ADDRESSES
    IN  /\ start >= base /\ start < bound
        /\ mem_end >= start /\ mem_end <= bound

\* The bytes of a buffer, at addresses that do not wrap.
Bytes(start, n) == start..(start + n - 1)
=============================================================================
