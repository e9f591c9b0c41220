-------------------------------- MODULE MCCalls --------------------------------
(***************************************************************************)
(* Small instances of SmokeBombLkm under the scheduling the kernel gives   *)
(* its handlers.                                                           *)
(***************************************************************************)
EXTENDS MCSmokeBombLkm

(* The kernel keeps scheduling a task that is inside a handler and serves  *)
(* its page faults, and the reclaimer does not take a page away for ever   *)
(* between the fault and the retry of the load.                            *)
CallsSpec ==
    /\ Spec
    /\ \A t \in Tasks :
          /\ WF_vars(Handler(t))
          /\ WF_vars(FaultIn(t))
          /\ SF_vars(LoadHit(t) \/ LoadMiss(t))

-----------------------------------------------------------------------------
InHandler(t) == ~At(t, "idle")

(* Every call of a handler comes back to the program: the preload loop,    *)
(* which reads the end of the region again at every turn, terminates even  *)
(* when another thread changes the region under it or its pages go         *)
(* (addr.c:150-160).                                                       *)
CallsReturn == \A t \in Tasks : InHandler(t) ~> ~InHandler(t)
=============================================================================
