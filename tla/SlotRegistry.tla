----------------------------- MODULE SlotRegistry -----------------------------
(***************************************************************************)
(* What the kernel module promises about sensitive regions: a slot is      *)
(* either free or holds one whole range, it is taken only while free, and  *)
(* it changes owner only through being free again.                         *)
(***************************************************************************)
CONSTANTS Slots, Ranges, Free

VARIABLE held

Init == held = [s \in Slots |-> Free]

Register(s, range) == /\ held[s] = Free
                      /\ held' = [held EXCEPT ![s] = range]

Release(s) == /\ held[s] # Free
              /\ held' = [held EXCEPT ![s] = Free]

Next == \E s \in Slots : (\E range \in Ranges : Register(s, range)) \/ Release(s)

Spec == Init /\ [][Next]_held
=============================================================================
