----------------------------- MODULE MCPrograms -----------------------------
(***************************************************************************)
(* The test programs of both parts of lab4, each on its own kernel.        *)
(***************************************************************************)
EXTENDS Programs

LOCAL Copy == INSTANCE Part1Programs

BothNext ==
    \/ part = 2 /\ ProgramsNext
    \/ part = 1 /\ Copy!Next /\ UNCHANGED part
BothSpec == ProgramsInit /\ [][BothNext]_all_vars

\* The four devices of device.c, in ticks of 50 ms: 100, 200, 500 and 50 ms.
MCFreq == <<4, 10, 1>> @@ (0 :> 2)
=============================================================================
