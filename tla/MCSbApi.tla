-------------------------------- MODULE MCSbApi --------------------------------
(***************************************************************************)
(* Small instances of SbApi.                                               *)
(***************************************************************************)
EXTENDS SbApi

OneThread == {1}
TwoThreads == {1, 2}

(* Time sharing, and a real-time thread.                                   *)
TwoAttributes == {[policy |-> SCHED_OTHER, prio |-> 0], [policy |-> SCHED_FIFO, prio |-> 10]}
=============================================================================
