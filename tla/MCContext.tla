----------------------------- MODULE MCContext -----------------------------
EXTENDS Context, TLC

\* The tasks other than the idle task are alike.
Symmetry == Permutations(Task \ {IDLE})
=============================================================================
