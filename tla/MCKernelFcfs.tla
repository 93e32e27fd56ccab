---------------------------- MODULE MCKernelFcfs ----------------------------
EXTENDS KernelFcfs

\* One device every two ticks, the next every three.
MCFreq == [d \in Device |-> d + 2]
=============================================================================
