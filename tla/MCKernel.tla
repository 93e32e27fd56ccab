------------------------------ MODULE MCKernel ------------------------------
EXTENDS Kernel

\* Device 0 every two ticks, device 1 every three: they coincide and drift.
MCFreq == [d \in Device |-> d + 2]

\* The same with ticks of two milliseconds.
MCSlowFreq == [d \in Device |-> 2 * (d + 2)]

\* A task that was handed a mutex may release it once: holds_lock reaches -1.
MCMinHolds == -1
=============================================================================
