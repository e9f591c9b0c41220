--------------------------------- MODULE SbApi ---------------------------------
(***************************************************************************)
(* The library an instrumented program calls (llvm-based/src/sb_api.c):    *)
(* init and exit around a section, called by the pass at both ends of a    *)
(* function or by hand, and what they do to the scheduling of the thread.  *)
(* The file descriptor, the saved attributes and the manual flag are       *)
(* globals of the process, with no lock.  The kernel module is its         *)
(* abstract specification, SlotRegistry.                                   *)
(***************************************************************************)
EXTENDS Integers, Sequences

CONSTANTS Threads,      \* threads of the process
          SB_MAX_PID,   \* rows of the kernel's tables
          Variables,    \* the annotated variables
          Attributes,   \* scheduling attributes the program may choose
          MaxSections,  \* bound: instrumented functions a thread has entered
          ManualAllowed,\* does the program also use the manual calls?
          FileMayFail   \* may open() and write() of the proc file fail?

VARIABLES held,         \* slot -> variable registered in the kernel
          sched,        \* thread -> scheduling attributes the kernel uses
          gsched_policy, gsched_prio, is_manually_initialized, smoke_bomb_fd,
          chosen,       \* thread -> attributes it had outside sections
          sections,     \* thread -> open sections, outermost first
          pc, loc       \* thread -> place in the library, local variables

globals == <<gsched_policy, gsched_prio, is_manually_initialized, smoke_bomb_fd>>
vars == <<held, sched, globals, chosen, sections, pc, loc>>

SCHED_OTHER == 0
SCHED_FIFO == 1
Fifo == [policy |-> SCHED_FIFO, prio |-> 99]
Valid(a) == (a.policy = SCHED_FIFO) <=> (a.prio > 0)

ASSUME ApiAssumption ==
    /\ Threads \subseteq Nat
    /\ SB_MAX_PID \in Nat \ {0}
    /\ MaxSections \in Nat
    /\ Attributes \subseteq [policy : {SCHED_OTHER, SCHED_FIFO}, prio : 0 .. 98]
    /\ \A a \in Attributes : Valid(a)
    /\ ManualAllowed \in BOOLEAN /\ FileMayFail \in BOOLEAN

NoVariable == "none"
NoSection == [var |-> NoVariable, manual |-> FALSE, accepted |-> FALSE]
NoLocals == [cmd |-> "none", section |-> NoSection, tmp |-> Fifo]

Slot(t) == t % SB_MAX_PID
Kernel == INSTANCE SlotRegistry
              WITH Slots <- {Slot(t) : t \in Threads}, Ranges <- Variables, Free <- NoVariable

At(t, label) == pc[t] = label
Goto(t, label) == pc' = [pc EXCEPT ![t] = label]
Back(t) == /\ Goto(t, "user")
           /\ loc' = [loc EXCEPT ![t] = NoLocals]

Manual(t) == loc[t].section.manual
InManual(t) == \E i \in DOMAIN sections[t] : sections[t][i].manual
Innermost(t) == sections[t][Len(sections[t])]

Init == /\ Kernel!Init
        /\ sched \in [Threads -> Attributes]
        /\ gsched_policy = -1 /\ gsched_prio = -1
        /\ is_manually_initialized = 0
        /\ smoke_bomb_fd = -1
        /\ chosen = sched
        /\ sections = [t \in Threads |-> <<>>]
        /\ pc = [t \in Threads |-> "user"]
        /\ loc = [t \in Threads |-> NoLocals]

-----------------------------------------------------------------------------
(* The program.                                                            *)

(* An instrumented function is entered: init before its first instruction. *)
CallInit(t, var) ==
    /\ At(t, "user")
    /\ Len(sections[t]) < MaxSections + (IF InManual(t) THEN 1 ELSE 0)
    /\ loc' = [loc EXCEPT ![t] = [@ EXCEPT !.cmd = "INIT", !.section.var = var]]
    /\ Goto(t, "init_check")
    /\ UNCHANGED <<held, sched, globals, chosen, sections>>

(* ... and left: exit before its last instruction.                         *)
CallExit(t) ==
    /\ At(t, "user")
    /\ sections[t] # <<>> /\ ~Innermost(t).manual
    /\ loc' = [loc EXCEPT ![t] = [@ EXCEPT !.cmd = "EXIT", !.section = Innermost(t)]]
    /\ sections' = [sections EXCEPT ![t] = SubSeq(@, 1, Len(@) - 1)]
    /\ Goto(t, "exit_check")
    /\ UNCHANGED <<held, sched, globals, chosen>>

(* The manual calls enclose whole instrumented functions.                  *)
CallManuallyInit(t, var) ==
    /\ At(t, "user")
    /\ ManualAllowed /\ sections[t] = <<>>
    /\ loc' = [loc EXCEPT ![t] = [@ EXCEPT !.cmd = "INIT", !.section.var = var,
                                           !.section.manual = TRUE]]
    /\ Goto(t, "set_fifo")
    /\ UNCHANGED <<held, sched, globals, chosen, sections>>

CallManuallyExit(t) ==
    /\ At(t, "user")
    /\ sections[t] # <<>> /\ Innermost(t).manual
    /\ loc' = [loc EXCEPT ![t] = [@ EXCEPT !.cmd = "EXIT", !.section = Innermost(t)]]
    /\ sections' = [sections EXCEPT ![t] = SubSeq(@, 1, Len(@) - 1)]
    /\ Goto(t, "open")
    /\ UNCHANGED <<held, sched, globals, chosen>>

(* Between sections the program may set its own attributes.                *)
ChooseSched(t, a) ==
    /\ At(t, "user") /\ sections[t] = <<>>
    /\ a # sched[t]
    /\ sched' = [sched EXCEPT ![t] = a]
    /\ chosen' = [chosen EXCEPT ![t] = a]
    /\ UNCHANGED <<held, globals, sections, pc, loc>>

-----------------------------------------------------------------------------
(* smoke_bomb_init, smoke_bomb_manually_init.                              *)

Enter(t, section) == sections' = [sections EXCEPT ![t] = Append(@, section)]

InitSkipped(t) ==
    /\ At(t, "init_check")
    /\ is_manually_initialized = 1
    /\ Enter(t, loc[t].section)
    /\ Back(t)
    /\ UNCHANGED <<held, sched, globals, chosen>>

InitChecked(t) ==
    /\ At(t, "init_check")
    /\ is_manually_initialized # 1
    /\ Goto(t, "set_fifo")
    /\ UNCHANGED <<held, sched, globals, chosen, sections, loc>>

(* Mutant: the attributes are read after they were set.                    *)
SetFifoThenRead(t) ==
    /\ At(t, "set_fifo")
    /\ sched' = [sched EXCEPT ![t] = Fifo]
    /\ loc' = [loc EXCEPT ![t].tmp = sched'[t]]
    /\ Goto(t, "save_policy")
    /\ UNCHANGED <<held, globals, chosen, sections>>

(* _smoke_bomb_set_sched_fifo: the attributes are the thread's own, what   *)
(* it had goes to the globals only when the kernel accepts the new ones.   *)
SetFifo(t) ==
    /\ At(t, "set_fifo")
    /\ sched' = [sched EXCEPT ![t] = Fifo]
    /\ loc' = [loc EXCEPT ![t].tmp = sched[t]]
    /\ Goto(t, "save_policy")
    /\ UNCHANGED <<held, globals, chosen, sections>>

SetFifoDenied(t) ==
    /\ At(t, "set_fifo")
    /\ Goto(t, "open")
    /\ UNCHANGED <<held, sched, globals, chosen, sections, loc>>

SavePolicy(t) ==
    /\ At(t, "save_policy")
    /\ gsched_policy' = loc[t].tmp.policy
    /\ Goto(t, "save_prio")
    /\ UNCHANGED <<held, sched, gsched_prio, is_manually_initialized, smoke_bomb_fd,
                   chosen, sections, loc>>

SavePrio(t) ==
    /\ At(t, "save_prio")
    /\ gsched_prio' = loc[t].tmp.prio
    /\ Goto(t, "open")
    /\ UNCHANGED <<held, sched, gsched_policy, is_manually_initialized, smoke_bomb_fd,
                   chosen, sections, loc>>

-----------------------------------------------------------------------------
(* _smoke_bomb_cmd: open the proc file once, write the command.  The       *)
(* descriptor is tested, stored, tested again and used by the write.       *)

AlreadyOpen(t) ==
    /\ At(t, "open")
    /\ smoke_bomb_fd >= 0
    /\ Goto(t, "write")
    /\ UNCHANGED <<held, sched, globals, chosen, sections, loc>>

NotOpen(t) ==
    /\ At(t, "open")
    /\ smoke_bomb_fd < 0
    /\ Goto(t, "opening")
    /\ UNCHANGED <<held, sched, globals, chosen, sections, loc>>

StoreFd(t, fd) ==
    /\ At(t, "opening")
    /\ smoke_bomb_fd' = fd
    /\ Goto(t, "opened")
    /\ UNCHANGED <<held, sched, gsched_policy, gsched_prio, is_manually_initialized,
                   chosen, sections, loc>>

(* Two threads may both get here; the second descriptor replaces the first *)
(* one, and both name the same file.                                       *)
Open(t) == StoreFd(t, 3)

(* The result of a failed open() is stored too, even over the descriptor   *)
(* that another thread has got in the meantime.                            *)
OpenFails(t) == FileMayFail /\ StoreFd(t, -1)

OpenChecked(t) ==
    /\ At(t, "opened")
    /\ smoke_bomb_fd >= 0
    /\ Goto(t, "write")
    /\ UNCHANGED <<held, sched, globals, chosen, sections, loc>>

(* Init ignores the result of the command, exit returns on it.             *)
AfterCmd(t, r) ==
    IF loc[t].cmd = "INIT"
    THEN /\ loc' = [loc EXCEPT ![t].section.accepted = (r = 0)]
         /\ Goto(t, "init_return")
    ELSE /\ Goto(t, IF r # 0 THEN "exit_return" ELSE "restore")
         /\ UNCHANGED loc

(* Mutant: the failure of open() does not reach the caller.                *)
OpenRefusedUnnoticed(t) ==
    /\ At(t, "opened")
    /\ smoke_bomb_fd < 0
    /\ AfterCmd(t, 0)
    /\ UNCHANGED <<held, sched, globals, chosen, sections>>

OpenRefused(t) ==
    /\ At(t, "opened")
    /\ smoke_bomb_fd < 0
    /\ AfterCmd(t, -1)
    /\ UNCHANGED <<held, sched, globals, chosen, sections>>

(* The descriptor is read once more, and may be another thread's -1 by     *)
(* now; on an open one write() fails when the module has been removed.     *)
WriteFails(t) ==
    /\ At(t, "write")
    /\ smoke_bomb_fd < 0 \/ FileMayFail
    /\ AfterCmd(t, -1)
    /\ UNCHANGED <<held, sched, globals, chosen, sections>>

CmdInit(t) ==
    /\ At(t, "write") /\ loc[t].cmd = "INIT"
    /\ smoke_bomb_fd >= 0
    /\ Kernel!Register(Slot(t), loc[t].section.var)
    /\ AfterCmd(t, 0)
    /\ UNCHANGED <<sched, globals, chosen, sections>>

(* A registered slot, or a page of the variable that is not mapped:        *)
(* _smoke_bomb_ensure_page_map touches the first word only.                *)
CmdInitFails(t) ==
    /\ At(t, "write") /\ loc[t].cmd = "INIT"
    /\ smoke_bomb_fd >= 0
    /\ AfterCmd(t, -1)
    /\ UNCHANGED <<held, sched, globals, chosen, sections>>

(* EXIT frees the slot of the thread, whatever it holds, and returns 0.    *)
CmdExit(t) ==
    /\ At(t, "write") /\ loc[t].cmd = "EXIT"
    /\ smoke_bomb_fd >= 0
    /\ \/ Kernel!Release(Slot(t))
       \/ held[Slot(t)] = NoVariable /\ UNCHANGED held
    /\ AfterCmd(t, 0)
    /\ UNCHANGED <<sched, globals, chosen, sections>>

(* manually_init sets the flag whether or not the command succeeded.       *)
InitReturn(t) ==
    /\ At(t, "init_return")
    /\ is_manually_initialized' = IF Manual(t) THEN 1 ELSE is_manually_initialized
    /\ Enter(t, loc[t].section)
    /\ Back(t)
    /\ UNCHANGED <<held, sched, gsched_policy, gsched_prio, smoke_bomb_fd, chosen>>

-----------------------------------------------------------------------------
(* smoke_bomb_exit, smoke_bomb_manually_exit.                              *)

(* Mutant: exit does not ask for the manual flag.                          *)
ExitNotSkipped(t) ==
    /\ At(t, "exit_check")
    /\ is_manually_initialized = 1
    /\ Goto(t, "open")
    /\ UNCHANGED <<held, sched, globals, chosen, sections, loc>>

ExitSkipped(t) ==
    /\ At(t, "exit_check")
    /\ is_manually_initialized = 1
    /\ Back(t)
    /\ UNCHANGED <<held, sched, globals, chosen, sections>>

ExitChecked(t) ==
    /\ At(t, "exit_check")
    /\ is_manually_initialized # 1
    /\ Goto(t, "open")
    /\ UNCHANGED <<held, sched, globals, chosen, sections, loc>>

NothingSaved(t) ==
    /\ At(t, "restore")
    /\ gsched_policy < 0 \/ gsched_prio < 0
    /\ Goto(t, "exit_return")
    /\ UNCHANGED <<held, sched, globals, chosen, sections, loc>>

(* A pair of halves that do not belong together is refused by the kernel.  *)
Restore(t) ==
    LET saved == [policy |-> gsched_policy, prio |-> gsched_prio]
    IN /\ At(t, "restore")
       /\ gsched_policy >= 0 /\ gsched_prio >= 0
       /\ sched' = IF Valid(saved) THEN [sched EXCEPT ![t] = saved] ELSE sched
       /\ Goto(t, "clear_policy")
       /\ UNCHANGED <<held, globals, chosen, sections, loc>>

ClearPolicy(t) ==
    /\ At(t, "clear_policy")
    /\ gsched_policy' = -1
    /\ Goto(t, "clear_prio")
    /\ UNCHANGED <<held, sched, gsched_prio, is_manually_initialized, smoke_bomb_fd,
                   chosen, sections, loc>>

ClearPrio(t) ==
    /\ At(t, "clear_prio")
    /\ gsched_prio' = -1
    /\ Goto(t, "exit_return")
    /\ UNCHANGED <<held, sched, gsched_policy, is_manually_initialized, smoke_bomb_fd,
                   chosen, sections, loc>>

ExitReturn(t) ==
    /\ At(t, "exit_return")
    /\ is_manually_initialized' = IF Manual(t) THEN 0 ELSE is_manually_initialized
    /\ Back(t)
    /\ UNCHANGED <<held, sched, gsched_policy, gsched_prio, smoke_bomb_fd, chosen, sections>>

Program(t) ==
    \/ \E var \in Variables : CallInit(t, var) \/ CallManuallyInit(t, var)
    \/ CallExit(t) \/ CallManuallyExit(t)
    \/ \E a \in Attributes : ChooseSched(t, a)

Library(t) ==
    \/ InitSkipped(t) \/ InitChecked(t) \/ SetFifo(t) \/ SetFifoDenied(t)
    \/ SavePolicy(t) \/ SavePrio(t)
    \/ AlreadyOpen(t) \/ NotOpen(t) \/ Open(t) \/ OpenFails(t)
    \/ OpenChecked(t) \/ OpenRefused(t)
    \/ WriteFails(t) \/ CmdInit(t) \/ CmdInitFails(t) \/ CmdExit(t) \/ InitReturn(t)
    \/ ExitSkipped(t) \/ ExitChecked(t)
    \/ NothingSaved(t) \/ Restore(t) \/ ClearPolicy(t) \/ ClearPrio(t) \/ ExitReturn(t)

Next == \E t \in Threads : Program(t) \/ Library(t)

Spec == Init /\ [][Next]_vars

-----------------------------------------------------------------------------
(* Properties.                                                             *)

(* A section whose INIT command returned 0 stays registered until the      *)
(* program calls its exit (sb_api.c:139-195, hello.c:28-40).               *)
SectionProtected ==
    \A t \in Threads : \A i \in DOMAIN sections[t] :
        sections[t][i].accepted => held[Slot(t)] = sections[t][i].var

(* Outside sections a thread has the scheduling attributes it chose: what  *)
(* init saved is what exit restores, and an exit without a saved pair      *)
(* restores nothing (sb_api.c:102-167, 185-194).                           *)
SchedRestored ==
    \A t \in Threads : At(t, "user") /\ sections[t] = <<>> => sched[t] = chosen[t]
=============================================================================
