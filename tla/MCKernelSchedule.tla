-------------------------- MODULE MCKernelSchedule --------------------------
(* KernelSchedule on small windows: from nothing to a few iterations, with *)
(* starts and steps that are not 0 and 1, and minimum workload sizes that  *)
(* do and do not depend on the thread count.                               *)
EXTENDS KernelLoop

MCDimensions == {[start |-> 1, end |-> 1, step |-> 1],
                 [start |-> 1, end |-> 7, step |-> 2], [start |-> 0, end |-> 4, step |-> 1]}

MCThresholds == {0, 3}

MCKernelMws == {[t \in 1..MaxWorkloads |-> 1], [t \in 1..MaxWorkloads |-> 2],
                [t \in 1..MaxWorkloads |-> t]}

MCUpper == <<[start |-> 0, end |-> 2, step |-> 1], [start |-> 0, end |-> 2, step |-> 1]>>

MCBroadcasts == {{}, {1}, {2, 3}}
=============================================================================
