-------------------------------- MODULE HandApi --------------------------------
(***************************************************************************)
(* The library for calls placed by hand (smoke-bomb/lib/sb_api.c), used as *)
(* sb_test.c uses it: init hands the scheduling attributes of the thread   *)
(* to two ints of its caller, exit takes them back, the caller gives up    *)
(* when init returns an error.  Every command opens and closes the proc    *)
(* file.  Nothing is shared by the threads but the kernel module, whose    *)
(* abstract specification is SlotRegistry.                                 *)
(***************************************************************************)
EXTENDS Integers, Sequences

CONSTANTS Threads, SB_MAX_PID, Variables, Attributes,
          Garbage       \* what the caller's two uninitialised ints may hold

VARIABLES held,         \* slot -> variable registered in the kernel
          sched,        \* thread -> scheduling attributes the kernel uses
          chosen,       \* thread -> attributes it had outside sections
          sections,     \* thread -> its open section, or none
          saved,        \* thread -> sched_policy and sched_prio of the caller
          failed,       \* threads one of whose library or system calls failed
          pc, loc       \* thread -> place in the library, local variables

vars == <<held, sched, chosen, sections, saved, failed, pc, loc>>

SCHED_OTHER == 0
SCHED_FIFO == 1
Fifo == [policy |-> SCHED_FIFO, prio |-> 99]
Valid(a) == /\ a.policy \in {SCHED_OTHER, SCHED_FIFO}
            /\ (a.policy = SCHED_FIFO) <=> (a.prio \in 1 .. 99)
            /\ a.policy = SCHED_OTHER => a.prio = 0

NoVariable == "none"
NoSection == [var |-> NoVariable, manual |-> FALSE, accepted |-> FALSE]
NoLocals == [cmd |-> "none", section |-> NoSection, tmp |-> Fifo]

Slot(t) == t % SB_MAX_PID
Kernel == INSTANCE SlotRegistry
              WITH Slots <- {Slot(t) : t \in Threads}, Ranges <- Variables, Free <- NoVariable

At(t, label) == pc[t] = label
Goto(t, label) == pc' = [pc EXCEPT ![t] = label]
Back(t) == /\ Goto(t, "user")
           /\ loc' = [loc EXCEPT ![t] = NoLocals]

Init == /\ Kernel!Init
        /\ sched \in [Threads -> Attributes]
        /\ chosen = sched
        /\ sections = [t \in Threads |-> <<>>]
        /\ saved \in [Threads -> Garbage]
        /\ failed = {}
        /\ pc = [t \in Threads |-> "user"]
        /\ loc = [t \in Threads |-> NoLocals]

-----------------------------------------------------------------------------
(* The program.                                                            *)

(* A new call of the test function: its ints are not initialised.          *)
CallInit(t, var) ==
    /\ At(t, "user") /\ sections[t] = <<>>
    /\ \E garbage \in Garbage : saved' = [saved EXCEPT ![t] = garbage]
    /\ loc' = [loc EXCEPT ![t] = [@ EXCEPT !.cmd = "INIT", !.section.var = var]]
    /\ Goto(t, "set_fifo")
    /\ UNCHANGED <<held, sched, chosen, sections, failed>>

CallExit(t) ==
    /\ At(t, "user") /\ sections[t] # <<>>
    /\ loc' = [loc EXCEPT ![t] = [@ EXCEPT !.cmd = "EXIT", !.section = sections[t][1]]]
    /\ sections' = [sections EXCEPT ![t] = <<>>]
    /\ Goto(t, "command")
    /\ UNCHANGED <<held, sched, chosen, saved, failed>>

(* A thread that sets its own attributes starts afresh.                    *)
ChooseSched(t, a) ==
    /\ At(t, "user") /\ sections[t] = <<>>
    /\ a # sched[t] \/ t \in failed
    /\ sched' = [sched EXCEPT ![t] = a]
    /\ chosen' = [chosen EXCEPT ![t] = a]
    /\ failed' = failed \ {t}
    /\ UNCHANGED <<held, sections, saved, pc, loc>>

-----------------------------------------------------------------------------
(* smoke_bomb_init, smoke_bomb_exit.  The ints belong to the thread, so    *)
(* reading the attributes, setting new ones and saving the old is a step.  *)

SetFifo(t) ==
    /\ At(t, "set_fifo")
    /\ sched' = [sched EXCEPT ![t] = Fifo]
    /\ saved' = [saved EXCEPT ![t] = sched[t]]
    /\ Goto(t, "command")
    /\ UNCHANGED <<held, chosen, sections, failed, loc>>

(* The result is ignored and the ints are left as they are.                *)
SetFifoDenied(t) ==
    /\ At(t, "set_fifo")
    /\ failed' = failed \cup {t}
    /\ Goto(t, "command")
    /\ UNCHANGED <<held, sched, chosen, sections, saved, loc>>

CmdInit(t) ==
    /\ At(t, "command") /\ loc[t].cmd = "INIT"
    /\ Kernel!Register(Slot(t), loc[t].section.var)
    /\ sections' = [sections EXCEPT ![t] = <<[loc[t].section EXCEPT !.accepted = TRUE]>>]
    /\ Back(t)
    /\ UNCHANGED <<sched, chosen, saved, failed>>

(* Mutant: init keeps the result of the command to itself.                 *)
CmdFailsUnnoticed(t) ==
    /\ At(t, "command")
    /\ sections' = [sections EXCEPT ![t] =
           IF loc[t].cmd = "INIT" THEN <<[loc[t].section EXCEPT !.accepted = TRUE]>> ELSE @]
    /\ Back(t)
    /\ UNCHANGED <<held, sched, chosen, saved, failed>>

(* open() or the command fails: init and exit return before anything else. *)
CmdFails(t) ==
    /\ At(t, "command")
    /\ failed' = failed \cup {t}
    /\ Back(t)
    /\ UNCHANGED <<held, sched, chosen, sections, saved>>

CmdExit(t) ==
    /\ At(t, "command") /\ loc[t].cmd = "EXIT"
    /\ \/ Kernel!Release(Slot(t))
       \/ held[Slot(t)] = NoVariable /\ UNCHANGED held
    /\ Goto(t, "restore")
    /\ UNCHANGED <<sched, chosen, sections, saved, failed, loc>>

(* Mutant: a priority of 0 is taken for nothing saved.                     *)
RestoreOnlyRealTime(t) ==
    /\ At(t, "restore")
    /\ sched' = IF saved[t].policy > 0 /\ saved[t].prio > 0 /\ Valid(saved[t])
                THEN [sched EXCEPT ![t] = saved[t]] ELSE sched
    /\ Back(t)
    /\ UNCHANGED <<held, chosen, sections, saved, failed>>

Restore(t) ==
    /\ At(t, "restore")
    /\ sched' = IF saved[t].policy >= 0 /\ saved[t].prio >= 0 /\ Valid(saved[t])
                THEN [sched EXCEPT ![t] = saved[t]] ELSE sched
    /\ Back(t)
    /\ UNCHANGED <<held, chosen, sections, saved, failed>>

Next == \E t \in Threads :
    \/ \E var \in Variables : CallInit(t, var)
    \/ CallExit(t)
    \/ \E a \in Attributes : ChooseSched(t, a)
    \/ SetFifo(t) \/ SetFifoDenied(t)
    \/ CmdInit(t) \/ CmdFails(t) \/ CmdExit(t) \/ Restore(t)

Spec == Init /\ [][Next]_vars

-----------------------------------------------------------------------------
(* Properties.                                                             *)

(* A section whose INIT command returned 0 stays registered until the      *)
(* program calls its exit (sb_api.c:137-157, sb_test.c:252-285).           *)
SectionProtected ==
    \A t \in Threads : \A i \in DOMAIN sections[t] :
        sections[t][i].accepted => held[Slot(t)] = sections[t][i].var

(* A thread none of whose calls failed has, outside sections, the          *)
(* attributes it chose, whatever other threads do meanwhile: "backup       *)
(* original attributes to parameters" (sb_api.c:102, 137-157).             *)
SchedRestored ==
    \A t \in Threads \ failed :
        At(t, "user") /\ sections[t] = <<>> => sched[t] = chosen[t]
=============================================================================
