------------------------------ MODULE SbApiProofs ------------------------------
(***************************************************************************)
(* The library of instrumented programs keeps a section registered and     *)
(* gives a thread its attributes back where instrumented functions do not  *)
(* call each other.                                                        *)
(***************************************************************************)
EXTENDS SbApi, SequenceTheorems, TLAPS

Rows == {Slot(t) : t \in Threads}
Scheds == [policy : {SCHED_OTHER, SCHED_FIFO}, prio : 0 .. 99]
Section == [var : Variables \cup {NoVariable}, manual : BOOLEAN, accepted : BOOLEAN]
Locals == [cmd : {"none", "INIT", "EXIT"}, section : Section, tmp : Scheds]
Opening == {"init_check", "set_fifo", "save_policy", "save_prio", "init_return"}
Closing == {"exit_check", "restore", "clear_policy", "clear_prio", "exit_return"}
Commanding == {"open", "opening", "opened", "write"}

SbType ==
    /\ held \in [Rows -> Variables \cup {NoVariable}]
    /\ sched \in [Threads -> Scheds]
    /\ gsched_policy \in {-1, SCHED_OTHER, SCHED_FIFO}
    /\ gsched_prio \in -1 .. 99
    /\ is_manually_initialized \in {0, 1}
    /\ smoke_bomb_fd \in {-1, 3}
    /\ chosen \in [Threads -> Attributes]
    /\ sections \in [Threads -> Seq(Section)]
    /\ pc \in [Threads -> {"user"} \cup Commanding \cup Opening \cup Closing]
    /\ loc \in [Threads -> Locals]

(* The command of a call, and what the section of an INIT says so far.     *)
CallOK(t) ==
    /\ At(t, "user") => loc[t] = NoLocals
    /\ pc[t] \in Opening => loc[t].cmd = "INIT"
    /\ pc[t] \in Closing => loc[t].cmd = "EXIT"
    /\ pc[t] \in Commanding => loc[t].cmd \in {"INIT", "EXIT"}
    /\ loc[t].cmd = "INIT" => /\ loc[t].section.var \in Variables
                              /\ At(t, "init_return") \/ ~loc[t].section.accepted
    /\ pc[t] \in {"init_check", "exit_check"} => ~Manual(t)

SbInv == SbType /\ \A t \in Threads : CallOK(t)

-----------------------------------------------------------------------------
(* Sequences of sections.                                                  *)

LEMMA SeqDomain ==
    ASSUME NEW S, NEW s \in Seq(S)
    PROVE  /\ Len(s) \in Nat
           /\ DOMAIN s = 1 .. Len(s)
           /\ s = <<>> <=> Len(s) = 0
           /\ s # <<>> => s[Len(s)] \in S
OBVIOUS

(* The enclosing sections, when the innermost one is left.                 *)
LEMMA FrontOf ==
    ASSUME NEW S, NEW s \in Seq(S), s # <<>>, NEW f, f = SubSeq(s, 1, Len(s) - 1)
    PROVE  /\ f \in Seq(S)
           /\ Len(f) = Len(s) - 1
           /\ \A i \in 1 .. Len(f) : f[i] = s[i]
<1>1. Len(s) \in Nat \ {0} /\ \A i \in 1 .. Len(s) - 1 : s[i] \in S
  OBVIOUS
<1>2. /\ f \in Seq(S)
      /\ Len(f) = IF 1 <= Len(s) - 1 THEN Len(s) - 1 - 1 + 1 ELSE 0
      /\ \A i \in 1 .. Len(s) - 1 - 1 + 1 : f[i] = s[1 + i - 1]
  BY <1>1, SubSeqProperties
<1>3. Len(f) = Len(s) - 1
  <2>1. PICK n \in Nat \ {0} : n = Len(s)
    BY <1>1
  <2>2. CASE n = 1
    BY <1>2, <2>1, <2>2
  <2>3. CASE n > 1
    <3>1. 1 <= n - 1 /\ n - 1 - 1 + 1 = n - 1
      BY <2>1, <2>3
    <3>2. Len(f) = n - 1 - 1 + 1
      BY <1>2, <2>1, <3>1, Zenon
    <3> QED
      BY <2>1, <3>1, <3>2, Zenon
  <2> QED
    BY <2>1, <2>2, <2>3
<1>4. ASSUME NEW i \in 1 .. Len(f) PROVE f[i] = s[i]
  <2>1. i \in 1 .. Len(s) - 1 - 1 + 1 /\ 1 + i - 1 = i
    BY <1>1, <1>3
  <2> QED
    BY <1>2, <2>1
<1> QED
  BY <1>2, <1>3, <1>4

LEMMA AppendOf ==
    ASSUME NEW S, NEW s \in Seq(S), NEW x \in S, NEW n, n = Len(s), NEW e, e = Append(s, x)
    PROVE  /\ e \in Seq(S) /\ Len(e) = n + 1 /\ e[n + 1] = x
           /\ \A i \in 1 .. n : e[i] = s[i]
OBVIOUS

LEMMA SbInit == Init => SbInv
BY ApiAssumption
   DEF Init, SbInv, SbType, CallOK, Kernel!Init, Rows, Scheds, Section, Locals, Opening, Closing, Commanding,
       NoLocals, NoSection, Fifo, At, Manual, SCHED_OTHER, SCHED_FIFO

-----------------------------------------------------------------------------
(* What a step does to a thread's local variables and its sections.        *)

LEMMA InitEffect ==
    ASSUME SbInv, NEW t \in Threads, NEW var \in Variables,
           CallInit(t, var) \/ CallManuallyInit(t, var)
    PROVE  \E c \in Locals :
              /\ loc' = [loc EXCEPT ![t] = c]
              /\ c.cmd = "INIT" /\ c.section.var = var /\ ~c.section.accepted
              /\ c.section.manual <=> CallManuallyInit(t, var)
<1> USE DEF SbInv, SbType, CallOK, At, Goto, NoLocals, NoSection, Locals, Section
<1>1. loc[t] = NoLocals
  BY DEF CallInit, CallManuallyInit
<1>2. CASE CallInit(t, var)
  <2>1. PICK c : c = [NoLocals EXCEPT !.cmd = "INIT", !.section.var = var]
    OBVIOUS
  <2>2. loc' = [loc EXCEPT ![t] = c]
    BY <1>1, <1>2, <2>1 DEF CallInit
  <2>3. c \in Locals /\ c.cmd = "INIT" /\ c.section.var = var /\ ~c.section.accepted
        /\ ~c.section.manual
    BY <1>1, <2>1
  <2>4. ~CallManuallyInit(t, var)
    BY <1>2 DEF CallInit, CallManuallyInit
  <2> QED
    BY <2>2, <2>3, <2>4
<1>3. CASE CallManuallyInit(t, var)
  <2>1. PICK c : c = [NoLocals EXCEPT !.cmd = "INIT", !.section.var = var,
                                      !.section.manual = TRUE]
    OBVIOUS
  <2>2. loc' = [loc EXCEPT ![t] = c]
    BY <1>1, <1>3, <2>1 DEF CallManuallyInit
  <2>3. c \in Locals /\ c.cmd = "INIT" /\ c.section.var = var /\ ~c.section.accepted
        /\ c.section.manual
    BY <1>1, <2>1
  <2> QED
    BY <1>3, <2>2, <2>3
<1> QED
  BY <1>2, <1>3

LEMMA ExitEffect ==
    ASSUME SbInv, NEW t \in Threads, CallExit(t) \/ CallManuallyExit(t)
    PROVE  /\ sections[t] # <<>> /\ Innermost(t) \in Section
           /\ Innermost(t).manual <=> CallManuallyExit(t)
           /\ \E f \in Seq(Section) :
                 /\ sections' = [sections EXCEPT ![t] = f]
                 /\ Len(f) = Len(sections[t]) - 1
                 /\ \A i \in 1 .. Len(f) : f[i] = sections[t][i]
           /\ \E c \in Locals :
                 /\ loc' = [loc EXCEPT ![t] = c]
                 /\ c.cmd = "EXIT" /\ c.section = Innermost(t)
<1> USE DEF SbInv, SbType
<1>1. sections[t] # <<>> /\ Innermost(t) \in Section
  BY SeqDomain DEF CallExit, CallManuallyExit, Innermost
<1>2. Innermost(t).manual <=> CallManuallyExit(t)
  BY DEF CallExit, CallManuallyExit
<1>3. PICK f : f = SubSeq(sections[t], 1, Len(sections[t]) - 1)
  OBVIOUS
<1>4. sections' = [sections EXCEPT ![t] = f]
  BY <1>3 DEF CallExit, CallManuallyExit
<1>5. /\ f \in Seq(Section) /\ Len(f) = Len(sections[t]) - 1
      /\ \A i \in 1 .. Len(f) : f[i] = sections[t][i]
  <2>1. sections[t] \in Seq(Section)
    OBVIOUS
  <2> HIDE DEF SbInv, SbType
  <2> QED
    BY <1>1, <1>3, <2>1, FrontOf
<1>6. PICK c : c = [loc[t] EXCEPT !.cmd = "EXIT", !.section = Innermost(t)]
  OBVIOUS
<1>7. loc' = [loc EXCEPT ![t] = c]
  BY <1>6 DEF CallExit, CallManuallyExit
<1>8. c \in Locals /\ c.cmd = "EXIT" /\ c.section = Innermost(t)
  BY <1>1, <1>6 DEF Locals
<1> QED
  BY <1>1, <1>2, <1>4, <1>5, <1>7, <1>8

(* A step of _smoke_bomb_cmd before its write, and one that ends it.       *)
Preparing(t) == AlreadyOpen(t) \/ NotOpen(t) \/ Open(t) \/ OpenFails(t) \/ OpenChecked(t)
Answered(t) == \/ OpenRefused(t) \/ WriteFails(t)
               \/ CmdInit(t) \/ CmdInitFails(t) \/ CmdExit(t)

LEMMA PreparingEffect ==
    ASSUME SbInv, NEW t \in Threads, Preparing(t)
    PROVE  /\ pc[t] \in Commanding
           /\ \E label \in Commanding : pc' = [pc EXCEPT ![t] = label]
           /\ smoke_bomb_fd' \in {-1, 3}
           /\ UNCHANGED <<held, sched, gsched_policy, gsched_prio, is_manually_initialized,
                          chosen, sections, loc>>
BY DEF SbInv, SbType, Preparing, Commanding, At, Goto, globals, AlreadyOpen, NotOpen, Open,
       OpenFails, OpenChecked, StoreFd

LEMMA AnsweredEffect ==
    ASSUME NEW t \in Threads, Answered(t)
    PROVE  /\ pc[t] \in Commanding
           /\ \E r : AfterCmd(t, r) /\ (r = 0 <=> CmdInit(t) \/ CmdExit(t))
           /\ UNCHANGED <<sched, globals, chosen, sections>>
<1>1. CASE CmdInit(t) \/ CmdExit(t)
  BY <1>1 DEF CmdInit, CmdExit, Commanding, At
<1>2. CASE ~(CmdInit(t) \/ CmdExit(t))
  BY <1>2 DEF Answered, OpenRefused, WriteFails, CmdInitFails, Commanding, At
<1> QED
  BY <1>1, <1>2

(* The result of a command goes to the section of an INIT; an EXIT returns *)
(* on a command that did not reach the module.                             *)
LEMMA AfterEffect ==
    ASSUME SbInv, NEW t \in Threads, pc[t] \in Commanding, NEW r, AfterCmd(t, r)
    PROVE  /\ loc[t].cmd = "INIT" =>
                 /\ pc' = [pc EXCEPT ![t] = "init_return"]
                 /\ \E c \in Locals : /\ loc' = [loc EXCEPT ![t] = c]
                                      /\ c.cmd = "INIT" /\ c.tmp = loc[t].tmp
                                      /\ c.section.var = loc[t].section.var
                                      /\ c.section.manual = loc[t].section.manual
                                      /\ c.section.accepted <=> (r = 0)
           /\ loc[t].cmd = "EXIT" =>
                 /\ pc' = [pc EXCEPT ![t] = IF r = 0 THEN "restore" ELSE "exit_return"]
                 /\ loc' = loc
<1> USE DEF SbInv, SbType, Goto
<1>1. CASE loc[t].cmd = "INIT"
  <2>1. PICK b \in BOOLEAN : b <=> (r = 0)
    OBVIOUS
  <2>2. PICK s : s = [loc[t].section EXCEPT !.accepted = (r = 0)]
    OBVIOUS
  <2>3. /\ s \in Section /\ s.var = loc[t].section.var /\ s.manual = loc[t].section.manual
        /\ s.accepted <=> (r = 0)
    BY <2>2 DEF Locals, Section
  <2>4. PICK c : c = [loc[t] EXCEPT !.section = s]
    OBVIOUS
  <2>5. c \in Locals /\ c.cmd = "INIT" /\ c.tmp = loc[t].tmp /\ c.section = s
    BY <1>1, <2>3, <2>4 DEF Locals
  <2>6. loc' = [loc EXCEPT ![t] = c] /\ pc' = [pc EXCEPT ![t] = "init_return"]
    BY <1>1, <2>2, <2>4 DEF AfterCmd
  <2> QED
    BY <1>1, <2>3, <2>5, <2>6
<1>2. CASE loc[t].cmd = "EXIT"
  BY <1>2 DEF AfterCmd
<1> QED
  BY <1>1, <1>2

LEMMA ReturnEffect ==
    ASSUME SbInv, NEW t \in Threads, InitSkipped(t) \/ InitReturn(t)
    PROVE  /\ sections' = [sections EXCEPT ![t] = Append(sections[t], loc[t].section)]
           /\ loc[t].section \in Section
           /\ pc' = [pc EXCEPT ![t] = "user"]
           /\ loc' = [loc EXCEPT ![t] = NoLocals]
BY DEF InitSkipped, InitReturn, Enter, Back, Goto, SbInv, SbType, Locals

-----------------------------------------------------------------------------
(* Each step of a thread preserves types and commands.                     *)

(* A thread's step leaves the other threads' calls alone.                  *)
LEMMA OtherCalls ==
    ASSUME SbInv, NEW t \in Threads,
           \A u \in Threads \ {t} : pc'[u] = pc[u] /\ loc'[u] = loc[u]
    PROVE  \A u \in Threads \ {t} : CallOK(u)'
BY DEF SbInv, CallOK, At, Manual

LEMMA ProgramStep ==
    ASSUME SbInv, NEW t \in Threads, Program(t)
    PROVE  SbInv'
<1> USE DEF SbInv, SbType, Goto
<1> SUFFICES SbType' /\ CallOK(t)' /\ \A u \in Threads \ {t} : pc'[u] = pc[u] /\ loc'[u] = loc[u]
  BY OtherCalls
<1>1. ASSUME NEW var \in Variables, CallInit(t, var) \/ CallManuallyInit(t, var)
      PROVE  SbType' /\ CallOK(t)' /\ \A u \in Threads \ {t} : pc'[u] = pc[u] /\ loc'[u] = loc[u]
  <2>1. PICK c \in Locals : /\ loc' = [loc EXCEPT ![t] = c]
                            /\ c.cmd = "INIT" /\ c.section.var = var /\ ~c.section.accepted
                            /\ c.section.manual <=> CallManuallyInit(t, var)
    BY <1>1, InitEffect
  <2>2. CASE CallInit(t, var)
    <3>1. ~c.section.manual
      BY <2>1, <2>2 DEF CallInit, CallManuallyInit
    <3> QED
      BY <2>1, <2>2, <3>1 DEF CallInit, CallOK, At, Manual, Opening, Closing, Commanding, globals
  <2>3. CASE CallManuallyInit(t, var)
    BY <2>1, <2>3 DEF CallManuallyInit, CallOK, At, Manual, Opening, Closing, Commanding, globals
  <2> QED
    BY <1>1, <2>2, <2>3
<1>2. ASSUME CallExit(t) \/ CallManuallyExit(t)
      PROVE  SbType' /\ CallOK(t)' /\ \A u \in Threads \ {t} : pc'[u] = pc[u] /\ loc'[u] = loc[u]
  <2>1. PICK f \in Seq(Section) : sections' = [sections EXCEPT ![t] = f]
    BY <1>2, ExitEffect
  <2>2. PICK c \in Locals : /\ loc' = [loc EXCEPT ![t] = c]
                            /\ c.cmd = "EXIT" /\ c.section = Innermost(t)
    BY <1>2, ExitEffect
  <2>3. CASE CallExit(t)
    <3>1. ~c.section.manual
      BY <2>2, <2>3 DEF CallExit
    <3> QED
      BY <2>1, <2>2, <2>3, <3>1 DEF CallExit, CallOK, At, Manual, Opening, Closing, Commanding, globals
  <2>4. CASE CallManuallyExit(t)
    BY <2>1, <2>2, <2>4 DEF CallManuallyExit, CallOK, At, Manual, Opening, Closing, Commanding, globals
  <2> QED
    BY <1>2, <2>3, <2>4
<1>3. ASSUME NEW a \in Attributes, ChooseSched(t, a)
      PROVE  SbType' /\ CallOK(t)' /\ \A u \in Threads \ {t} : pc'[u] = pc[u] /\ loc'[u] = loc[u]
  <2>1. a \in Scheds
    BY ApiAssumption DEF Scheds
  <2> QED
    BY <1>3, <2>1 DEF ChooseSched, CallOK, At, Manual, globals
<1> QED
  BY <1>1, <1>2, <1>3 DEF Program

(* Storing the saved attributes into a call's locals changes nothing else. *)
LEMMA TmpStored ==
    ASSUME NEW l \in Locals, NEW a \in Scheds
    PROVE  LET c == [l EXCEPT !.tmp = a] IN
           c \in Locals /\ c.cmd = l.cmd /\ c.section = l.section
BY DEF Locals

(* The steps that set and restore attributes.                              *)
LEMMA SchedStep ==
    ASSUME SbInv, NEW t \in Threads,
           \/ InitChecked(t) \/ SetFifo(t) \/ SetFifoDenied(t) \/ SavePolicy(t) \/ SavePrio(t)
           \/ NothingSaved(t) \/ Restore(t) \/ ClearPolicy(t) \/ ClearPrio(t)
    PROVE  SbInv'
<1> USE DEF SbInv, SbType, Goto, CallOK, At, Manual, Opening, Closing, Commanding, globals
<1>1. CASE InitChecked(t)
  BY <1>1 DEF InitChecked
<1>2. CASE SetFifo(t)
  <2>1. PICK c : c = [loc[t] EXCEPT !.tmp = sched[t]]
    OBVIOUS
  <2>2. c \in Locals /\ c.cmd = loc[t].cmd /\ c.section = loc[t].section
    <3>1. loc[t] \in Locals /\ sched[t] \in Scheds
      OBVIOUS
    <3> QED
      BY <2>1, <3>1, TmpStored, Zenon
  <2>3. loc' = [loc EXCEPT ![t] = c]
    BY <1>2, <2>1 DEF SetFifo
  <2>4. Fifo \in Scheds
    BY DEF Fifo, Scheds
  <2>5. SbType'
    <3>1. sched' \in [Threads -> Scheds]
      BY <1>2, <2>4 DEF SetFifo
    <3>2. loc' \in [Threads -> Locals]
      BY <2>2, <2>3
    <3>3. pc' \in [Threads -> {"user"} \cup Commanding \cup Opening \cup Closing]
      BY <1>2 DEF SetFifo
    <3> QED
      BY <1>2, <3>1, <3>2, <3>3 DEF SetFifo
  <2>6. \A u \in Threads : CallOK(u)'
    BY <1>2, <2>2, <2>3 DEF SetFifo
  <2> QED
    BY <2>5, <2>6
<1>3. CASE SetFifoDenied(t)
  BY <1>3 DEF SetFifoDenied
<1>4. CASE SavePolicy(t)
  <2>1. loc[t].tmp.policy \in {SCHED_OTHER, SCHED_FIFO}
    BY DEF Locals, Scheds
  <2> QED
    BY <1>4, <2>1 DEF SavePolicy
<1>5. CASE SavePrio(t)
  <2>1. loc[t].tmp.prio \in -1 .. 99
    BY DEF Locals, Scheds
  <2> QED
    BY <1>5, <2>1 DEF SavePrio
<1>6. CASE NothingSaved(t)
  BY <1>6 DEF NothingSaved
<1>7. CASE Restore(t)
  <2>1. PICK saved : saved = [policy |-> gsched_policy, prio |-> gsched_prio]
    OBVIOUS
  <2>2. saved \in Scheds
    BY <1>7, <2>1 DEF Restore, Scheds, SCHED_OTHER, SCHED_FIFO
  <2>3. sched' = IF Valid(saved) THEN [sched EXCEPT ![t] = saved] ELSE sched
    BY <1>7, <2>1 DEF Restore
  <2>4. sched' \in [Threads -> Scheds]
    BY <2>2, <2>3
  <2> QED
    BY <1>7, <2>4 DEF Restore
<1>8. CASE ClearPolicy(t)
  BY <1>8 DEF ClearPolicy
<1>9. CASE ClearPrio(t)
  BY <1>9 DEF ClearPrio
<1> QED
  BY <1>1, <1>2, <1>3, <1>4, <1>5, <1>6, <1>7, <1>8, <1>9

(* What a command leaves in a thread's place and local variables.          *)
LEMMA AfterOK ==
    ASSUME SbInv, NEW t \in Threads, pc[t] \in Commanding, NEW r, AfterCmd(t, r)
    PROVE  /\ pc' \in [Threads -> {"user"} \cup Commanding \cup Opening \cup Closing]
           /\ loc' \in [Threads -> Locals]
           /\ \A u \in Threads : CallOK(u)'
<1> USE DEF SbInv, SbType, CallOK, At, Manual, Opening, Closing, Commanding
<1>1. CASE loc[t].cmd = "INIT"
  <2>1. PICK c \in Locals : /\ loc' = [loc EXCEPT ![t] = c]
                            /\ c.cmd = "INIT" /\ c.section.var = loc[t].section.var
    BY <1>1, AfterEffect
  <2>2. pc' = [pc EXCEPT ![t] = "init_return"]
    BY <1>1, AfterEffect
  <2> QED
    BY <1>1, <2>1, <2>2
<1>2. CASE loc[t].cmd = "EXIT"
  <2>1. /\ pc' = [pc EXCEPT ![t] = IF r = 0 THEN "restore" ELSE "exit_return"]
        /\ loc' = loc
    BY <1>2, AfterEffect
  <2> QED
    BY <1>2, <2>1
<1> QED
  BY <1>1, <1>2

LEMMA CommandStep ==
    ASSUME SbInv, NEW t \in Threads, Preparing(t) \/ Answered(t)
    PROVE  SbInv'
<1>1. CASE Preparing(t)
  <2>1. PICK label \in Commanding : pc' = [pc EXCEPT ![t] = label]
    BY <1>1, PreparingEffect
  <2>2. /\ pc[t] \in Commanding /\ smoke_bomb_fd' \in {-1, 3}
        /\ UNCHANGED <<held, sched, gsched_policy, gsched_prio, is_manually_initialized,
                       chosen, sections, loc>>
    BY <1>1, PreparingEffect
  <2>3. SbType'
    BY <2>1, <2>2 DEF SbInv, SbType
  <2>4. CallOK(t)'
    BY <2>1, <2>2 DEF SbInv, SbType, CallOK, At, Manual, Opening, Closing, Commanding
  <2>5. \A u \in Threads \ {t} : pc'[u] = pc[u] /\ loc'[u] = loc[u]
    BY <2>1, <2>2 DEF SbInv, SbType
  <2> QED
    BY <2>3, <2>4, <2>5, OtherCalls DEF SbInv
<1>2. CASE Answered(t)
  <2>1. PICK r : AfterCmd(t, r)
    BY <1>2, AnsweredEffect
  <2>2. Slot(t) \in Rows
    BY DEF Rows
  <2>3. held' \in [Rows -> Variables \cup {NoVariable}]
    BY <1>2, <2>2
       DEF SbInv, SbType, CallOK, Answered, OpenRefused, WriteFails, CmdInit, CmdInitFails, CmdExit,
           Kernel!Register, Kernel!Release
  <2> QED
    BY <1>2, <2>1, <2>3, AfterOK, AnsweredEffect DEF SbInv, SbType, globals
<1> QED
  BY <1>1, <1>2

LEMMA ReturnStep ==
    ASSUME SbInv, NEW t \in Threads,
           InitSkipped(t) \/ InitReturn(t) \/ ExitSkipped(t) \/ ExitChecked(t) \/ ExitReturn(t)
    PROVE  SbInv'
<1> USE DEF SbInv, SbType, CallOK, At, Manual, Opening, Closing, Commanding, Goto, globals
<1>0. NoLocals \in Locals /\ NoLocals.cmd = "none" /\ ~NoLocals.section.manual
  BY DEF NoLocals, NoSection, Locals, Section, Fifo, Scheds
<1>1. CASE InitSkipped(t) \/ InitReturn(t)
  <2>1. PICK e \in Seq(Section) : e = Append(sections[t], loc[t].section)
    <3>1. sections[t] \in Seq(Section) /\ loc[t].section \in Section
      BY <1>1, ReturnEffect
    <3>2. PICK e : e = Append(sections[t], loc[t].section)
      OBVIOUS
    <3> HIDE DEF SbInv, SbType
    <3>3. e \in Seq(Section)
      BY <3>1, <3>2, AppendOf
    <3> QED
      BY <3>2, <3>3
  <2>2. /\ sections' = [sections EXCEPT ![t] = e]
        /\ pc' = [pc EXCEPT ![t] = "user"] /\ loc' = [loc EXCEPT ![t] = NoLocals]
    BY <1>1, <2>1, ReturnEffect
  <2>3. /\ UNCHANGED <<held, sched, gsched_policy, gsched_prio, smoke_bomb_fd, chosen>>
        /\ is_manually_initialized' \in {0, 1}
    BY <1>1 DEF InitSkipped, InitReturn
  <2> QED
    BY <1>0, <2>2, <2>3
<1>2. CASE ExitSkipped(t)
  BY <1>0, <1>2 DEF ExitSkipped, Back
<1>3. CASE ExitChecked(t)
  BY <1>3 DEF ExitChecked
<1>4. CASE ExitReturn(t)
  BY <1>0, <1>4 DEF ExitReturn, Back
<1> QED
  BY <1>1, <1>2, <1>3, <1>4

LEMMA SbStep == SbInv /\ [Next]_vars => SbInv'
<1>1. ASSUME SbInv, UNCHANGED vars PROVE SbInv'
  BY <1>1 DEF vars, globals, SbInv, SbType, CallOK, At, Manual
<1> QED
  BY <1>1, ProgramStep, SchedStep, CommandStep, ReturnStep
     DEF Next, Library, Preparing, Answered

-----------------------------------------------------------------------------
(* Programs whose instrumented functions do not call each other.           *)

NoNesting == MaxSections <= 1

(* Two threads never run the manual calls and another section at a time:   *)
(* the manual flag is the process's, not the thread's.                     *)
FlagIsOwn == ~ManualAllowed \/ \A t \in Threads, u \in Threads : t = u

(* No two threads of the program have the same row of the kernel's tables. *)
SlotsDistinct == \A t \in Threads, u \in Threads : Slot(t) = Slot(u) => t = u

Depth(t) == Len(sections[t])
HasManual(t) == Depth(t) > 0 /\ sections[t][1].manual
LeavingManual(t) == Manual(t) /\ pc[t] \in Commanding \cup (Closing \ {"exit_check"})
                    /\ loc[t].cmd = "EXIT"

(* A section is open alone, or within a manual one and not in the kernel,  *)
(* and the commands run while none is.                                     *)
NestOK(t) ==
    /\ Depth(t) <= 2
    /\ Depth(t) = 2 => /\ sections[t][1].manual
                       /\ ~sections[t][2].manual /\ ~sections[t][2].accepted
    /\ pc[t] \notin {"user", "init_check", "exit_check"} => Depth(t) = 0
    /\ pc[t] \in {"init_check", "exit_check"} => Depth(t) = 0 \/ (Depth(t) = 1 /\ HasManual(t))

(* The flag is raised within a manual section, and lowered by the end of   *)
(* the manual exit.                                                        *)
FlagOK(t) ==
    /\ HasManual(t) => is_manually_initialized = 1
    /\ is_manually_initialized = 1 => HasManual(t) \/ LeavingManual(t)
    /\ HasManual(t) \/ Manual(t) \/ is_manually_initialized = 1 => ManualAllowed

NestInv == \A t \in Threads : NestOK(t) /\ FlagOK(t)

(* The guards of the calls ask for a manual section at any depth.          *)
LEMMA ManualIsOuter ==
    ASSUME SbInv, NestInv, NEW t \in Threads
    PROVE  /\ Depth(t) \in Nat /\ DOMAIN sections[t] = 1 .. Depth(t)
           /\ sections[t] = <<>> <=> Depth(t) = 0
           /\ InManual(t) <=> HasManual(t)
           /\ Depth(t) > 0 /\ Innermost(t).manual => Depth(t) = 1
           /\ Depth(t) > 0 /\ ~Innermost(t).manual => Depth(t) = 2 \/ ~HasManual(t)
<1>1. /\ Depth(t) \in Nat /\ DOMAIN sections[t] = 1 .. Depth(t)
      /\ sections[t] = <<>> <=> Depth(t) = 0
  <2>1. sections[t] \in Seq(Section)
    BY DEF SbInv, SbType
  <2> QED
    BY <2>1, SeqDomain DEF Depth
<1>2. Depth(t) = 0 \/ Depth(t) = 1 \/ Depth(t) = 2
  BY <1>1 DEF NestInv, NestOK
<1> QED
  BY <1>1, <1>2 DEF NestInv, NestOK, InManual, HasManual, Innermost, Depth

LEMMA NestOthers ==
    ASSUME FlagIsOwn, NestInv, NEW t \in Threads,
           \A u \in Threads \ {t} :
               sections'[u] = sections[u] /\ pc'[u] = pc[u] /\ loc'[u] = loc[u],
           is_manually_initialized' = is_manually_initialized \/ ManualAllowed
    PROVE  \A u \in Threads \ {t} : NestOK(u)' /\ FlagOK(u)'
<1> SUFFICES ASSUME NEW u \in Threads \ {t} PROVE NestOK(u)' /\ FlagOK(u)'
  OBVIOUS
<1>1. is_manually_initialized' = is_manually_initialized
  BY DEF FlagIsOwn
<1>2. sections'[u] = sections[u] /\ pc'[u] = pc[u] /\ loc'[u] = loc[u]
  OBVIOUS
<1> QED
  BY <1>1, <1>2 DEF NestInv, NestOK, FlagOK, Depth, HasManual, LeavingManual, Manual

LEMMA NestProgram ==
    ASSUME NoNesting, FlagIsOwn, SbInv, NestInv, NEW t \in Threads, Program(t)
    PROVE  NestInv'
<1> USE DEF SbInv, SbType, Goto, At, globals
<1>0. NestOK(t) /\ FlagOK(t) /\ CallOK(t)
  BY DEF NestInv
<1>1. ASSUME NEW var \in Variables, CallInit(t, var) \/ CallManuallyInit(t, var) PROVE NestInv'
  <2>1. PICK c \in Locals : /\ loc' = [loc EXCEPT ![t] = c]
                            /\ c.cmd = "INIT" /\ c.section.var = var /\ ~c.section.accepted
                            /\ c.section.manual <=> CallManuallyInit(t, var)
    BY <1>1, InitEffect
  <2>2. sections' = sections /\ is_manually_initialized' = is_manually_initialized
    BY <1>1 DEF CallInit, CallManuallyInit
  <2>3. CASE CallInit(t, var)
    <3>1. ~c.section.manual
      BY <2>1, <2>3 DEF CallInit, CallManuallyInit
    <3>2. Depth(t) = 0 \/ (Depth(t) = 1 /\ HasManual(t))
      <4>1. Depth(t) < MaxSections + (IF HasManual(t) THEN 1 ELSE 0)
        BY <2>3, ManualIsOuter DEF CallInit, Depth
      <4>2. MaxSections \in 0 .. 1
        BY ApiAssumption DEF NoNesting
      <4>3. Depth(t) \in Nat
        BY ManualIsOuter
      <4> QED
        BY <4>1, <4>2, <4>3 DEF HasManual
    <3>3. pc' = [pc EXCEPT ![t] = "init_check"]
      BY <2>3 DEF CallInit
    <3>4. NestOK(t)' /\ FlagOK(t)'
      BY <1>0, <2>1, <2>2, <2>3, <3>1, <3>2, <3>3
         DEF NestOK, FlagOK, Depth, HasManual, LeavingManual, Manual, CallInit, CallOK, NoLocals
    <3> QED
      BY <2>1, <2>2, <3>3, <3>4, NestOthers DEF NestInv
  <2>4. CASE CallManuallyInit(t, var)
    <3>1. c.section.manual /\ ManualAllowed
      BY <2>1, <2>4 DEF CallManuallyInit
    <3>2. Depth(t) = 0
      BY <2>4, ManualIsOuter DEF CallManuallyInit
    <3>3. pc' = [pc EXCEPT ![t] = "set_fifo"]
      BY <2>4 DEF CallManuallyInit
    <3>4. NestOK(t)' /\ FlagOK(t)'
      BY <1>0, <2>1, <2>2, <2>4, <3>1, <3>2, <3>3
         DEF NestOK, FlagOK, Depth, HasManual, LeavingManual, Manual, CallManuallyInit, CallOK,
             NoLocals
    <3> QED
      BY <2>1, <2>2, <3>3, <3>4, NestOthers DEF NestInv
  <2> QED
    BY <1>1, <2>3, <2>4
<1>2. ASSUME CallExit(t) \/ CallManuallyExit(t) PROVE NestInv'
  <2>1. sections[t] # <<>> /\ (Innermost(t).manual <=> CallManuallyExit(t))
    BY <1>2, ExitEffect
  <2>2. PICK f \in Seq(Section) : /\ sections' = [sections EXCEPT ![t] = f]
                                  /\ Len(f) = Len(sections[t]) - 1
                                  /\ \A i \in 1 .. Len(f) : f[i] = sections[t][i]
    BY <1>2, ExitEffect
  <2>3. PICK c \in Locals : /\ loc' = [loc EXCEPT ![t] = c]
                            /\ c.cmd = "EXIT" /\ c.section = Innermost(t)
    BY <1>2, ExitEffect
  <2>4. is_manually_initialized' = is_manually_initialized
    BY <1>2 DEF CallExit, CallManuallyExit
  <2>5. Depth(t)' = Depth(t) - 1 /\ Depth(t) \in 1 .. 2
    <3>1. Depth(t) \in Nat /\ Depth(t) # 0 /\ Depth(t) <= 2
      BY <1>0, <2>1, ManualIsOuter DEF NestOK
    <3>2. sections'[t] = f
      BY <2>2
    <3> QED
      BY <2>2, <3>1, <3>2 DEF Depth
  <2>6. Depth(t) = 2 => (HasManual(t)' <=> HasManual(t))
    <3>1. sections'[t] = f /\ Len(f) = Depth(t)'
      BY <2>2 DEF Depth
    <3>2. ASSUME Depth(t) = 2 PROVE f[1] = sections[t][1]
      <4>1. 1 \in 1 .. Len(f)
        BY <2>5, <3>1, <3>2
      <4> QED
        BY <2>2, <4>1, Zenon
    <3> QED
      BY <2>5, <3>1, <3>2 DEF HasManual
  <2>7. CASE CallExit(t)
    <3>1. ~c.section.manual /\ (Depth(t) = 2 \/ ~HasManual(t))
      BY <2>3, <2>5, <2>7, ManualIsOuter DEF CallExit
    <3>2. pc' = [pc EXCEPT ![t] = "exit_check"]
      BY <2>7 DEF CallExit
    <3>3. pc[t] = "user" /\ ~Manual(t)
      BY <1>0, <2>7 DEF CallExit, CallOK, Manual, NoLocals, NoSection
    <3>4. HasManual(t) <=> HasManual(t)'
      BY <2>5, <2>6, <3>1 DEF HasManual
    <3>5. Depth(t) = 2 => HasManual(t)
      BY <1>0 DEF NestOK, HasManual
    <3>6. ~Manual(t)' /\ ~LeavingManual(t)' /\ ~LeavingManual(t)
      BY <2>3, <3>1, <3>3 DEF Manual, LeavingManual
    <3>7. NestOK(t)'
      BY <2>5, <3>2, <3>4, <3>5 DEF NestOK
    <3>8. FlagOK(t)'
      BY <1>0, <2>4, <3>4, <3>6 DEF FlagOK
    <3> QED
      BY <2>2, <2>3, <2>4, <3>2, <3>7, <3>8, NestOthers DEF NestInv
  <2>8. CASE CallManuallyExit(t)
    <3>1. c.section.manual /\ Depth(t) = 1
      BY <2>3, <2>5, <2>8, ManualIsOuter DEF CallManuallyExit
    <3>2. pc' = [pc EXCEPT ![t] = "open"]
      BY <2>8 DEF CallManuallyExit
    <3>3. ~HasManual(t)' /\ LeavingManual(t)'
      BY <2>3, <2>5, <3>1, <3>2 DEF HasManual, LeavingManual, Manual, Commanding
    <3>4. HasManual(t)
      BY <2>3, <3>1 DEF HasManual, Innermost, Depth
    <3>5. NestOK(t)'
      BY <2>5, <3>1, <3>2 DEF NestOK
    <3>6. FlagOK(t)'
      BY <1>0, <2>4, <3>3, <3>4 DEF FlagOK
    <3> QED
      BY <2>2, <2>3, <2>4, <3>2, <3>5, <3>6, NestOthers DEF NestInv
  <2> QED
    BY <1>2, <2>7, <2>8
<1>3. ASSUME NEW a \in Attributes, ChooseSched(t, a) PROVE NestInv'
  BY <1>3 DEF ChooseSched, NestInv, NestOK, FlagOK, Depth, HasManual, LeavingManual, Manual
<1> QED
  BY <1>1, <1>2, <1>3 DEF Program

(* The steps of a call that neither open a section nor lower the flag.     *)
LEMMA NestCall ==
    ASSUME FlagIsOwn, SbInv, NestInv, NEW t \in Threads,
           \/ InitChecked(t) \/ SetFifo(t) \/ SetFifoDenied(t) \/ SavePolicy(t) \/ SavePrio(t)
           \/ Preparing(t) \/ Answered(t) \/ ExitSkipped(t) \/ ExitChecked(t)
           \/ NothingSaved(t) \/ Restore(t) \/ ClearPolicy(t) \/ ClearPrio(t)
    PROVE  NestInv'
<1> USE DEF SbInv, SbType, Goto, At, globals
<1>0. NestOK(t) /\ FlagOK(t) /\ CallOK(t)
  BY DEF NestInv
<1>1. sections' = sections /\ is_manually_initialized' = is_manually_initialized
  BY PreparingEffect, AnsweredEffect
     DEF InitChecked, SetFifo, SetFifoDenied, SavePolicy, SavePrio, ExitSkipped, ExitChecked,
         NothingSaved, Restore, ClearPolicy, ClearPrio
<1>2. \A u \in Threads \ {t} : pc'[u] = pc[u] /\ loc'[u] = loc[u]
  <2>1. CASE Answered(t)
    BY <2>1, AnsweredEffect DEF AfterCmd
  <2>2. CASE Preparing(t)
    BY <2>2, PreparingEffect
  <2> QED
    BY <2>1, <2>2
       DEF InitChecked, SetFifo, SetFifoDenied, SavePolicy, SavePrio, ExitSkipped, ExitChecked, NothingSaved, Restore, ClearPolicy, ClearPrio, Back
<1>3. SUFFICES NestOK(t)' /\ FlagOK(t)'
  BY <1>1, <1>2, NestOthers DEF NestInv
<1>4. Depth(t)' = Depth(t) /\ (HasManual(t)' <=> HasManual(t))
  BY <1>1 DEF Depth, HasManual
<1> USE DEF NestOK, FlagOK, CallOK, LeavingManual, Manual, Opening, Closing, Commanding
<1>5. CASE InitChecked(t) \/ ExitChecked(t)
  BY <1>0, <1>1, <1>4, <1>5 DEF InitChecked, ExitChecked
<1>6. CASE SetFifo(t)
  <2>1. PICK c : c = [loc[t] EXCEPT !.tmp = sched[t]]
    OBVIOUS
  <2>2. c \in Locals /\ c.cmd = loc[t].cmd /\ c.section = loc[t].section
    <3>1. loc[t] \in Locals /\ sched[t] \in Scheds
      OBVIOUS
    <3> QED
      BY <2>1, <3>1, TmpStored, Zenon
  <2>3. loc' = [loc EXCEPT ![t] = c] /\ pc' = [pc EXCEPT ![t] = "save_policy"]
    BY <1>6, <2>1 DEF SetFifo
  <2> QED
    BY <1>0, <1>1, <1>4, <1>6, <2>2, <2>3 DEF SetFifo
<1>7. CASE SetFifoDenied(t) \/ SavePolicy(t) \/ SavePrio(t)
  BY <1>0, <1>1, <1>4, <1>7 DEF SetFifoDenied, SavePolicy, SavePrio
<1>11. CASE Preparing(t)
  <2>1. PICK label \in Commanding : pc' = [pc EXCEPT ![t] = label]
    BY <1>11, PreparingEffect
  <2>2. pc[t] \in Commanding /\ loc' = loc
    BY <1>11, PreparingEffect
  <2> QED
    BY <1>0, <1>1, <1>4, <2>1, <2>2
<1>8. CASE Answered(t)
  <2>1. PICK r : pc[t] \in Commanding /\ AfterCmd(t, r)
    BY <1>8, AnsweredEffect
  <2>2. CASE loc[t].cmd = "INIT"
    <3>1. PICK c \in Locals : /\ loc' = [loc EXCEPT ![t] = c] /\ c.cmd = "INIT"
                              /\ c.section.manual = loc[t].section.manual
      BY <2>1, <2>2, AfterEffect
    <3>2. pc' = [pc EXCEPT ![t] = "init_return"]
      BY <2>1, <2>2, AfterEffect
    <3> QED
      BY <1>0, <1>1, <1>4, <2>1, <2>2, <3>1, <3>2
  <2>3. CASE loc[t].cmd = "EXIT"
    <3>1. /\ pc' = [pc EXCEPT ![t] = IF r = 0 THEN "restore" ELSE "exit_return"]
          /\ loc' = loc
      BY <2>1, <2>3, AfterEffect
    <3> QED
      BY <1>0, <1>1, <1>4, <2>1, <2>3, <3>1
  <2> QED
    BY <1>0, <2>1, <2>2, <2>3
<1>9. CASE ExitSkipped(t)
  BY <1>0, <1>1, <1>4, <1>9 DEF ExitSkipped, Back, NoLocals, NoSection
<1>10. CASE NothingSaved(t) \/ Restore(t) \/ ClearPolicy(t) \/ ClearPrio(t)
  BY <1>0, <1>1, <1>4, <1>10 DEF NothingSaved, Restore, ClearPolicy, ClearPrio
<1> QED
  BY <1>5, <1>6, <1>7, <1>8, <1>9, <1>10, <1>11

LEMMA NestReturn ==
    ASSUME FlagIsOwn, SbInv, NestInv, NEW t \in Threads,
           InitSkipped(t) \/ InitReturn(t) \/ ExitReturn(t)
    PROVE  NestInv'
<1> USE DEF SbInv, SbType, Goto, At, globals
<1>0. NestOK(t) /\ FlagOK(t) /\ CallOK(t)
  BY DEF NestInv
<1>1. ASSUME InitSkipped(t) \/ InitReturn(t) PROVE NestInv'
  <2>1. PICK e \in Seq(Section) : /\ e = Append(sections[t], loc[t].section)
                                  /\ Len(e) = Depth(t) + 1
                                  /\ e[Depth(t) + 1] = loc[t].section
                                  /\ \A i \in 1 .. Depth(t) : e[i] = sections[t][i]
    <3>1. sections[t] \in Seq(Section) /\ loc[t].section \in Section
      BY <1>1, ReturnEffect
    <3> HIDE DEF SbInv, SbType
    <3>2. PICK n : n = Depth(t)
      OBVIOUS
    <3>3. PICK e : e = Append(sections[t], loc[t].section)
      OBVIOUS
    <3>4. /\ e \in Seq(Section) /\ Len(e) = n + 1 /\ e[n + 1] = loc[t].section
          /\ \A i \in 1 .. n : e[i] = sections[t][i]
      <4>1. n = Len(sections[t])
        BY <3>2 DEF Depth
      <4> QED
        BY <3>1, <3>3, <4>1, AppendOf
    <3> QED
      BY <3>2, <3>3, <3>4
  <2>2. /\ sections' = [sections EXCEPT ![t] = e]
        /\ pc' = [pc EXCEPT ![t] = "user"] /\ loc' = [loc EXCEPT ![t] = NoLocals]
    BY <1>1, <2>1, ReturnEffect
  <2>3. Depth(t) \in Nat /\ Depth(t)' = Depth(t) + 1
    BY <2>1, <2>2, ManualIsOuter DEF Depth
  <2>4. ~Manual(t)' /\ ~LeavingManual(t)'
    BY <2>2 DEF Manual, LeavingManual, NoLocals, NoSection
  <2>5. CASE InitSkipped(t)
    <3>1. is_manually_initialized = 1 /\ UNCHANGED is_manually_initialized /\ pc[t] = "init_check"
      BY <2>5 DEF InitSkipped
    <3>2. Depth(t) = 1 /\ HasManual(t) /\ ~loc[t].section.manual /\ ~loc[t].section.accepted
      <4>1. ~loc[t].section.manual /\ ~loc[t].section.accepted
        BY <1>0, <3>1 DEF CallOK, Manual, Opening
      <4>2. HasManual(t)
        BY <1>0, <3>1, <4>1 DEF FlagOK, LeavingManual, Manual
      <4>3. Depth(t) = 1
        BY <1>0, <3>1, <4>2 DEF NestOK, HasManual
      <4> QED
        BY <4>1, <4>2, <4>3
    <3>3. sections'[t][1] = sections[t][1] /\ sections'[t][2] = loc[t].section
      BY <2>1, <2>2, <3>2
    <3>4. HasManual(t)'
      BY <2>3, <3>2, <3>3 DEF HasManual
    <3>5. NestOK(t)' /\ FlagOK(t)'
      BY <1>0, <2>2, <2>3, <2>4, <3>1, <3>2, <3>3, <3>4 DEF NestOK, FlagOK, HasManual
    <3> QED
      BY <2>2, <3>1, <3>5, NestOthers DEF NestInv
  <2>6. CASE InitReturn(t)
    <3>1. /\ is_manually_initialized' = IF Manual(t) THEN 1 ELSE is_manually_initialized
          /\ pc[t] = "init_return"
      BY <2>6 DEF InitReturn
    <3>2. Depth(t) = 0 /\ loc[t].cmd = "INIT"
      BY <1>0, <3>1 DEF NestOK, CallOK, Opening
    <3>3. HasManual(t)' <=> Manual(t)
      BY <2>1, <2>2, <2>3, <3>2 DEF HasManual, Manual
    <3>4. ~HasManual(t) /\ ~LeavingManual(t)
      BY <3>1, <3>2 DEF HasManual, LeavingManual, Closing
    <3>5. NestOK(t)' /\ FlagOK(t)'
      BY <1>0, <2>2, <2>3, <2>4, <3>1, <3>2, <3>3, <3>4 DEF NestOK, FlagOK
    <3>6. is_manually_initialized' = is_manually_initialized \/ ManualAllowed
      BY <1>0, <3>1 DEF FlagOK
    <3> QED
      BY <2>2, <3>5, <3>6, NestOthers DEF NestInv
  <2> QED
    BY <1>1, <2>5, <2>6
<1>2. ASSUME ExitReturn(t) PROVE NestInv'
  <2>1. /\ is_manually_initialized' = IF Manual(t) THEN 0 ELSE is_manually_initialized
        /\ pc[t] = "exit_return" /\ sections' = sections
        /\ pc' = [pc EXCEPT ![t] = "user"] /\ loc' = [loc EXCEPT ![t] = NoLocals]
    BY <1>2 DEF ExitReturn, Back
  <2>2. Depth(t) = 0 /\ Depth(t)' = 0
    BY <1>0, <2>1 DEF NestOK, Depth
  <2>3. ~HasManual(t) /\ ~HasManual(t)' /\ ~Manual(t)'
    BY <2>1, <2>2 DEF HasManual, Manual, NoLocals, NoSection
  <2>4. NestOK(t)'
    BY <2>1, <2>2 DEF NestOK
  <2>5. FlagOK(t)'
    BY <1>0, <2>1, <2>3 DEF FlagOK, LeavingManual
  <2>6. is_manually_initialized' = is_manually_initialized \/ ManualAllowed
    BY <1>0, <2>1 DEF FlagOK
  <2> QED
    BY <2>1, <2>4, <2>5, <2>6, NestOthers DEF NestInv
<1> QED
  BY <1>1, <1>2

LEMMA NestInit == Init => NestInv
<1> SUFFICES ASSUME Init, NEW t \in Threads PROVE NestOK(t) /\ FlagOK(t)
  BY DEF NestInv
<1>1. Depth(t) = 0 /\ is_manually_initialized = 0 /\ pc[t] = "user" /\ ~Manual(t)
  BY DEF Init, Depth, Manual, NoLocals, NoSection
<1>2. ~HasManual(t)
  BY <1>1 DEF HasManual
<1> QED
  BY <1>1, <1>2 DEF NestOK, FlagOK

LEMMA NestStep ==
    NoNesting /\ FlagIsOwn /\ SbInv /\ NestInv /\ [Next]_vars => NestInv'
<1>1. ASSUME NestInv, UNCHANGED vars PROVE NestInv'
  BY <1>1
     DEF vars, globals, NestInv, NestOK, FlagOK, Depth, HasManual, LeavingManual, Manual
<1> QED
  BY <1>1, NestProgram, NestCall, NestReturn DEF Next, Library, Preparing, Answered

(* A command that succeeded has left its variable in the thread's row.     *)
AcceptedOK(t) ==
    At(t, "init_return") /\ loc[t].section.accepted => held[Slot(t)] = loc[t].section.var

AcceptedInv == SectionProtected /\ \A t \in Threads : AcceptedOK(t)

LEMMA AcceptedInit == Init => AcceptedInv
BY DEF Init, AcceptedInv, SectionProtected, AcceptedOK, At

(* A row is written by the thread whose row it is, while that thread has   *)
(* no section open.                                                        *)
LEMMA AcceptedStep ==
    ASSUME SlotsDistinct, SbInv, NestInv, AcceptedInv, [Next]_vars
    PROVE  AcceptedInv'
<1> USE DEF SbInv, SbType, AcceptedInv, AcceptedOK, At, Goto
<1>1. CASE UNCHANGED vars
  BY <1>1 DEF vars, globals, SectionProtected
<1>2. ASSUME NEW t \in Threads, NEW var \in Variables, CallInit(t, var) \/ CallManuallyInit(t, var)
      PROVE  AcceptedInv'
  <2>1. PICK c \in Locals : loc' = [loc EXCEPT ![t] = c]
    BY <1>2, InitEffect
  <2> QED
    BY <1>2, <2>1 DEF CallInit, CallManuallyInit, SectionProtected
<1>3. ASSUME NEW t \in Threads, CallExit(t) \/ CallManuallyExit(t) PROVE AcceptedInv'
  <2>1. PICK f \in Seq(Section) : /\ sections' = [sections EXCEPT ![t] = f]
                                  /\ Len(f) = Len(sections[t]) - 1
                                  /\ \A i \in 1 .. Len(f) : f[i] = sections[t][i]
    BY <1>3, ExitEffect
  <2>2. PICK c \in Locals : loc' = [loc EXCEPT ![t] = c]
    BY <1>3, ExitEffect
  <2>3. held' = held /\ \A u \in Threads : pc'[u] # pc[u] => pc'[u] # "init_return"
    BY <1>3 DEF CallExit, CallManuallyExit
  <2>4. DOMAIN f = 1 .. Len(f) /\ 1 .. Len(f) \subseteq DOMAIN sections[t]
    BY <2>1, ManualIsOuter, SeqDomain DEF Depth
  <2>5. SectionProtected'
    <3> SUFFICES ASSUME NEW u \in Threads, NEW i \in DOMAIN sections'[u], sections'[u][i].accepted
                 PROVE  held[Slot(u)] = sections'[u][i].var
      BY <2>3 DEF SectionProtected
    <3>1. CASE u = t
      <4>1. sections'[t] = f /\ i \in 1 .. Len(f)
        BY <2>1, <2>4, <3>1
      <4>2. i \in DOMAIN sections[t] /\ sections[t][i] = sections'[t][i]
        BY <2>1, <2>4, <4>1
      <4> QED
        BY <3>1, <4>2 DEF SectionProtected
    <3>2. CASE u # t
      BY <2>1, <3>2 DEF SectionProtected
    <3> QED
      BY <3>1, <3>2
  <2> QED
    BY <1>3, <2>2, <2>3, <2>5 DEF CallExit, CallManuallyExit
<1>4. ASSUME NEW t \in Threads, InitSkipped(t) \/ InitReturn(t) PROVE AcceptedInv'
  <2>1. PICK e : e = Append(sections[t], loc[t].section)
    OBVIOUS
  <2>2. /\ sections' = [sections EXCEPT ![t] = e] /\ held' = held
        /\ pc' = [pc EXCEPT ![t] = "user"] /\ loc' = [loc EXCEPT ![t] = NoLocals]
    BY <1>4, <2>1, ReturnEffect DEF InitSkipped, InitReturn
  <2>3. PICK n : n = Len(sections[t])
    OBVIOUS
  <2>4. n \in Nat /\ DOMAIN sections[t] = 1 .. n
    BY <2>3, SeqDomain
  <2>5. /\ e \in Seq(Section) /\ Len(e) = n + 1 /\ e[n + 1] = loc[t].section
        /\ \A i \in 1 .. n : e[i] = sections[t][i]
    <3>1. sections[t] \in Seq(Section) /\ loc[t].section \in Section
      BY <1>4, ReturnEffect
    <3> HIDE DEF SbInv, SbType
    <3> QED
      BY <2>1, <2>3, <3>1, AppendOf
  <2>6. DOMAIN e = 1 .. (n + 1)
    BY <2>5, SeqDomain
  <2>7. loc[t].section.accepted => held[Slot(t)] = loc[t].section.var
    BY <1>4 DEF InitSkipped, InitReturn, CallOK, Opening
  <2>8. ASSUME NEW i \in DOMAIN e, e[i].accepted PROVE held[Slot(t)] = e[i].var
    <3>1. i \in 1 .. n \/ i = n + 1
      BY <2>4, <2>6
    <3>2. CASE i \in 1 .. n
      <4>1. i \in DOMAIN sections[t] /\ e[i] = sections[t][i]
        BY <2>4, <2>5, <3>2
      <4> QED
        BY <2>8, <4>1 DEF SectionProtected
    <3>3. CASE i = n + 1
      BY <2>5, <2>7, <2>8, <3>3
    <3> QED
      BY <3>1, <3>2, <3>3
  <2>9. SectionProtected'
    BY <2>2, <2>8 DEF SectionProtected
  <2> QED
    BY <2>2, <2>9
<1>5. ASSUME NEW t \in Threads, Answered(t) PROVE AcceptedInv'
  <2>1. PICK r : pc[t] \in Commanding /\ AfterCmd(t, r) /\ (r = 0 <=> CmdInit(t) \/ CmdExit(t))
    BY <1>5, AnsweredEffect
  <2>2. sections[t] = <<>> /\ sections' = sections
    <3>1. pc[t] \notin {"user", "init_check", "exit_check"}
      BY <2>1 DEF Commanding
    <3> QED
      BY <1>5, <3>1, AnsweredEffect, ManualIsOuter DEF NestInv, NestOK
  <2>3. \A u \in Threads \ {t} : pc'[u] = pc[u] /\ loc'[u] = loc[u]
    BY <2>1 DEF AfterCmd
  <2>4. \A u \in Threads \ {t} : held'[Slot(u)] = held[Slot(u)]
    BY <1>5
       DEF Answered, OpenRefused, WriteFails, CmdInit, CmdInitFails, CmdExit, SlotsDistinct,
           Kernel!Register, Kernel!Release, Rows
  <2>5. SectionProtected'
    BY <2>2, <2>4 DEF SectionProtected
  <2>6. AcceptedOK(t)'
    <3>1. CASE loc[t].cmd = "INIT"
      <4>1. PICK c \in Locals : /\ loc' = [loc EXCEPT ![t] = c]
                                /\ c.section.var = loc[t].section.var
                                /\ c.section.accepted <=> (r = 0)
        BY <2>1, <3>1, AfterEffect
      <4>2. Slot(t) \in Rows
        BY DEF Rows
      <4>3. CmdInit(t) => held'[Slot(t)] = loc[t].section.var
        BY <4>2 DEF CmdInit, Kernel!Register
      <4>4. ~CmdExit(t)
        BY <3>1 DEF CmdExit
      <4> QED
        BY <2>1, <4>1, <4>3, <4>4
    <3>2. CASE loc[t].cmd = "EXIT"
      BY <2>1, <3>2, AfterEffect
    <3> QED
      BY <2>1, <3>1, <3>2 DEF CallOK
  <2> QED
    BY <2>3, <2>4, <2>5, <2>6
<1>6. ASSUME NEW t \in Threads,
             \/ InitChecked(t) \/ SetFifo(t) \/ SetFifoDenied(t) \/ SavePolicy(t) \/ SavePrio(t)
             \/ Preparing(t) \/ ExitSkipped(t) \/ ExitChecked(t) \/ NothingSaved(t)
             \/ Restore(t) \/ ClearPolicy(t) \/ ClearPrio(t) \/ ExitReturn(t)
             \/ \E a \in Attributes : ChooseSched(t, a)
      PROVE  AcceptedInv'
  <2>1. sections' = sections /\ held' = held
    BY <1>6, PreparingEffect
       DEF InitChecked, SetFifo, SetFifoDenied, SavePolicy, SavePrio, ExitSkipped,
           ExitChecked, NothingSaved, Restore, ClearPolicy, ClearPrio, ExitReturn, ChooseSched
  <2>2. \A u \in Threads : pc'[u] # "init_return" \/ (pc'[u] = pc[u] /\ loc'[u] = loc[u])
    BY <1>6, PreparingEffect
       DEF InitChecked, SetFifo, SetFifoDenied, SavePolicy, SavePrio, ExitSkipped,
           ExitChecked, NothingSaved, Restore, ClearPolicy, ClearPrio, ExitReturn, ChooseSched, Back, Commanding
  <2> QED
    BY <2>1, <2>2 DEF SectionProtected
<1> QED
  BY <1>1, <1>2, <1>3, <1>4, <1>5, <1>6 DEF Next, Program, Library, Preparing, Answered

(* One thread whose open() and write() do not fail.                        *)
Alone == ~FileMayFail /\ \A t \in Threads, u \in Threads : t = u

NothingKept == gsched_policy = -1 /\ gsched_prio = -1
Kept(t) == gsched_policy = chosen[t].policy /\ gsched_prio = chosen[t].prio

(* Where the attributes a thread chose are at each place of its calls: in  *)
(* the kernel, in the local copy, in the globals.                          *)
SchedOK(t) ==
    LET within == Kept(t) \/ (NothingKept /\ sched[t] = chosen[t])
        outside == NothingKept /\ sched[t] = chosen[t]
    IN /\ pc[t] \in {"user", "init_check", "exit_check"} =>
              IF Depth(t) = 0 /\ ~At(t, "exit_check") THEN outside ELSE within
       /\ At(t, "set_fifo") => outside
       /\ At(t, "save_policy") => NothingKept /\ loc[t].tmp = chosen[t]
       /\ At(t, "save_prio") => /\ gsched_policy = chosen[t].policy /\ gsched_prio = -1
                                /\ loc[t].tmp = chosen[t]
       /\ pc[t] \in Commanding \cup {"init_return", "restore"} => within
       /\ pc[t] \in {"opened", "write"} => smoke_bomb_fd >= 0
       /\ At(t, "clear_policy") => sched[t] = chosen[t]
       /\ At(t, "clear_prio") => sched[t] = chosen[t] /\ gsched_policy = -1
       /\ At(t, "exit_return") => outside

SchedInv == \A t \in Threads : SchedOK(t)

LEMMA SchedInit == Init => SchedInv
<1> SUFFICES ASSUME Init, NEW t \in Threads PROVE SchedOK(t)
  BY DEF SchedInv
<1>1. Depth(t) = 0
  BY DEF Init, Depth
<1> QED
  BY <1>1 DEF Init, SchedOK, At, NothingKept

LEMMA SchedOKStep ==
    ASSUME Alone, SbInv, NestInv, SchedInv, [Next]_vars
    PROVE  SchedInv'
<1> USE DEF SbInv, SbType, At, Goto, globals
<1>1. CASE UNCHANGED vars
  BY <1>1 DEF vars, SchedInv, SchedOK, NothingKept, Kept, Depth
<1>2. ASSUME NEW t \in Threads, Program(t) \/ Library(t) PROVE SchedOK(t)'
  <2>0. /\ SchedOK(t) /\ NestOK(t) /\ FlagOK(t) /\ CallOK(t)
        /\ Depth(t) \in Nat /\ (sections[t] = <<>> <=> Depth(t) = 0)
    BY ManualIsOuter DEF NestInv, SchedInv
  <2>00. chosen[t] \in Scheds /\ Valid(chosen[t])
    BY ApiAssumption DEF Scheds
  <2> USE DEF SchedOK, NothingKept, Kept, Commanding
  <2>1. ASSUME NEW var \in Variables, CallInit(t, var) \/ CallManuallyInit(t, var)
        PROVE  SchedOK(t)'
    <3>1. Depth(t)' = Depth(t)
      BY <2>1 DEF CallInit, CallManuallyInit, Depth
    <3>2. pc[t] = "user" /\ (pc'[t] = "init_check" \/ (pc'[t] = "set_fifo" /\ Depth(t) = 0))
      BY <2>0, <2>1 DEF CallInit, CallManuallyInit
    <3>3. UNCHANGED <<sched, gsched_policy, gsched_prio, chosen>>
      BY <2>1 DEF CallInit, CallManuallyInit
    <3> QED
      BY <2>0, <3>1, <3>2, <3>3
  <2>2. ASSUME CallExit(t) \/ CallManuallyExit(t) PROVE SchedOK(t)'
    <3>1. pc[t] = "user" /\ pc'[t] \in {"exit_check", "open"} /\ Depth(t) # 0
      BY <2>0, <2>2 DEF CallExit, CallManuallyExit
    <3>2. UNCHANGED <<sched, gsched_policy, gsched_prio, chosen>>
      BY <2>2 DEF CallExit, CallManuallyExit
    <3> QED
      BY <2>0, <3>1, <3>2
  <2>3. ASSUME NEW a \in Attributes, ChooseSched(t, a) PROVE SchedOK(t)'
    <3>1. Depth(t)' = Depth(t) /\ Depth(t) = 0
      BY <2>0, <2>3 DEF ChooseSched, Depth
    <3> QED
      BY <2>0, <2>3, <3>1 DEF ChooseSched
  <2>4. CASE InitSkipped(t) \/ InitReturn(t)
    <3>1. PICK e : /\ e = Append(sections[t], loc[t].section)
                   /\ sections' = [sections EXCEPT ![t] = e]
      BY <2>4, ReturnEffect
    <3>2. sections[t] \in Seq(Section) /\ loc[t].section \in Section
      BY <2>4, ReturnEffect
    <3>3. Len(e) = Depth(t) + 1
      <4> HIDE DEF SbInv, SbType
      <4> QED
        BY <3>1, <3>2, AppendOf DEF Depth
    <3>4. Depth(t)' # 0
      BY <2>0, <3>1, <3>3 DEF Depth
    <3>5. /\ pc[t] \in {"init_check", "init_return"} /\ pc'[t] = "user"
          /\ UNCHANGED <<sched, gsched_policy, gsched_prio, chosen>>
      BY <2>4, ReturnEffect DEF InitSkipped, InitReturn
    <3> QED
      BY <2>0, <3>4, <3>5
  <2>5. CASE InitChecked(t) \/ ExitChecked(t)
    <3>1. Depth(t) = 0 /\ pc[t] \in {"init_check", "exit_check"}
      BY <2>0, <2>5 DEF InitChecked, ExitChecked, NestOK, FlagOK
    <3>2. UNCHANGED <<sched, gsched_policy, gsched_prio, chosen>>
      BY <2>5 DEF InitChecked, ExitChecked
    <3> QED
      BY <2>0, <2>5, <3>1, <3>2 DEF InitChecked, ExitChecked
  <2>6. CASE ExitSkipped(t)
    <3>1. Depth(t) # 0 /\ Depth(t)' = Depth(t)
      BY <2>0, <2>6 DEF ExitSkipped, NestOK, FlagOK, LeavingManual, CallOK, HasManual, Depth
    <3>2. /\ pc[t] = "exit_check" /\ pc'[t] = "user"
          /\ UNCHANGED <<sched, gsched_policy, gsched_prio, chosen>>
      BY <2>6 DEF ExitSkipped, Back
    <3> QED
      BY <2>0, <3>1, <3>2
  <2>7. CASE SetFifo(t)
    <3>1. PICK c : c = [loc[t] EXCEPT !.tmp = sched[t]]
      OBVIOUS
    <3>2. c.tmp = sched[t]
      BY <3>1 DEF Locals
    <3>3. loc' = [loc EXCEPT ![t] = c]
      BY <2>7, <3>1 DEF SetFifo
    <3> QED
      BY <2>0, <2>7, <3>2, <3>3 DEF SetFifo
  <2>8. CASE SetFifoDenied(t) \/ SavePolicy(t) \/ SavePrio(t)
    BY <2>0, <2>8 DEF SetFifoDenied, SavePolicy, SavePrio
  <2>9. CASE Preparing(t)
    <3>1. pc'[t] \in {"opened", "write"} => smoke_bomb_fd' >= 0
      BY <2>9
         DEF Preparing, AlreadyOpen, NotOpen, Open, OpenFails, OpenChecked, StoreFd, Alone
    <3>2. pc[t] \in Commanding /\ pc'[t] \in Commanding /\ Depth(t)' = Depth(t)
      BY <2>9, PreparingEffect DEF Depth
    <3>3. UNCHANGED <<sched, gsched_policy, gsched_prio, chosen>>
      BY <2>9, PreparingEffect
    <3> QED
      BY <2>0, <3>1, <3>2, <3>3 DEF Commanding
  <2>10. CASE Answered(t)
    <3>1. PICK r : /\ pc[t] \in Commanding /\ AfterCmd(t, r)
                   /\ r = 0 <=> CmdInit(t) \/ CmdExit(t)
      BY <2>10, AnsweredEffect
    <3>2. loc[t].cmd = "EXIT" => r = 0
      BY <2>0, <2>10, <3>1
         DEF Answered, OpenRefused, WriteFails, CmdInit, CmdInitFails, Alone
    <3>4. pc'[t] \in {"init_return", "restore"}
      BY <2>0, <3>1, <3>2, AfterEffect DEF CallOK
    <3>3. UNCHANGED <<sched, gsched_policy, gsched_prio, chosen>>
      BY <2>10, AnsweredEffect DEF globals
    <3> QED
      BY <2>0, <3>1, <3>3, <3>4 DEF Commanding
  <2>11. CASE NothingSaved(t)
    <3>1. ~Kept(t)
      <4>1. chosen[t].policy \in {0, 1} /\ chosen[t].prio \in 0 .. 99
        BY <2>00 DEF Scheds, SCHED_OTHER, SCHED_FIFO
      <4>2. PICK p \in {0, 1}, q \in 0 .. 99 : p = chosen[t].policy /\ q = chosen[t].prio
        BY <4>1
      <4>3. gsched_policy < 0 \/ gsched_prio < 0
        BY <2>11 DEF NothingSaved
      <4>4. p >= 0 /\ q >= 0 /\ ~(p < 0) /\ ~(q < 0)
        OBVIOUS
      <4> QED
        BY <4>2, <4>3, <4>4
    <3> QED
      BY <2>0, <2>11, <3>1 DEF NothingSaved
  <2>12. CASE Restore(t)
    <3>1. PICK saved : saved = [policy |-> gsched_policy, prio |-> gsched_prio]
      OBVIOUS
    <3>2. Kept(t) /\ pc[t] = "restore"
      BY <2>0, <2>12 DEF Restore
    <3>3. saved = chosen[t]
      BY <2>00, <3>1, <3>2 DEF Scheds
    <3>4. sched' = [sched EXCEPT ![t] = saved] /\ chosen' = chosen /\ pc'[t] = "clear_policy"
      BY <2>00, <2>12, <3>1, <3>3 DEF Restore
    <3> QED
      BY <3>3, <3>4
  <2>13. CASE ClearPolicy(t) \/ ClearPrio(t)
    BY <2>0, <2>13 DEF ClearPolicy, ClearPrio
  <2>14. CASE ExitReturn(t)
    <3>1. /\ pc[t] = "exit_return" /\ pc'[t] = "user"
          /\ UNCHANGED <<sched, gsched_policy, gsched_prio, chosen>>
      BY <2>14 DEF ExitReturn, Back
    <3> QED
      BY <2>0, <3>1
  <2> QED
    BY <1>2, <2>1, <2>2, <2>3, <2>4, <2>5, <2>6, <2>7, <2>8, <2>9, <2>10, <2>11, <2>12, <2>13, <2>14
       DEF Program, Library, Preparing, Answered
<1> QED
  BY <1>1, <1>2 DEF Next, SchedInv, Alone

-----------------------------------------------------------------------------
(* Theorems.                                                               *)

(* A section whose INIT returned 0 stays registered until the program      *)
(* calls its exit, if instrumented functions do not call each other and    *)
(* either the manual calls are not used or the program has one thread:     *)
(* however the threads' tests, stores and uses of the one file descriptor  *)
(* interleave, and whether or not open() and write() fail.                 *)
THEOREM SectionProtectedHolds ==
    ASSUME NoNesting, FlagIsOwn, SlotsDistinct
    PROVE  Spec => []SectionProtected
<1> DEFINE Inv == SbInv /\ NestInv /\ AcceptedInv
<1>1. Init => Inv
  BY SbInit, NestInit, AcceptedInit
<1>2. Inv /\ [Next]_vars => Inv'
  BY SbStep, NestStep, AcceptedStep
<1>3. Inv => SectionProtected
  BY DEF AcceptedInv
<1> HIDE DEF Inv
<1> QED
  BY <1>1, <1>2, <1>3, PTL DEF Spec

(* Outside sections the one thread of a program has the attributes it      *)
(* chose, if instrumented functions do not call each other and open() and  *)
(* write() of the proc file do not fail: whether or not it may set         *)
(* SCHED_FIFO, whether or not INIT is accepted, with the manual calls or   *)
(* without.                                                                *)
THEOREM SchedRestoredHolds ==
    ASSUME NoNesting, Alone
    PROVE  Spec => []SchedRestored
<1> DEFINE Inv == SbInv /\ NestInv /\ SchedInv
<1>0. FlagIsOwn
  BY DEF Alone, FlagIsOwn
<1>1. Init => Inv
  BY SbInit, NestInit, SchedInit
<1>2. Inv /\ [Next]_vars => Inv'
  BY <1>0, SbStep, NestStep, SchedOKStep
<1>3. Inv => SchedRestored
  BY ManualIsOuter DEF SchedInv, SchedOK, SchedRestored, At
<1> HIDE DEF Inv
<1> QED
  BY <1>1, <1>2, <1>3, PTL DEF Spec
=============================================================================
