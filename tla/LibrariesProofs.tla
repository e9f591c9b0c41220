---------------------------- MODULE LibrariesProofs ----------------------------
(***************************************************************************)
(* Both user libraries keep a section registered and give a thread its     *)
(* attributes back: the library for calls placed by hand for any set of    *)
(* threads, and the three programs that MCLibraries runs, from what        *)
(* SbApiProofs shows of an instrumented one.                               *)
(***************************************************************************)
EXTENDS MCLibraries, SbApiProofs

-----------------------------------------------------------------------------
(* The library for calls placed by hand.                                   *)

(* A program chooses attributes that the kernel accepts.                   *)
AttributesValid == \A a \in Attributes : Hand!Valid(a)

HandRows == {Hand!Slot(t) : t \in Threads}
HandScheds == Attributes \cup Garbage \cup {Hand!Fifo}
HandSection == [var : Variables \cup {Hand!NoVariable}, manual : BOOLEAN,
                accepted : BOOLEAN]
HandLocals == [cmd : {"none", "INIT", "EXIT"}, section : HandSection, tmp : {Hand!Fifo}]

HandType ==
    /\ held \in [HandRows -> Variables \cup {Hand!NoVariable}]
    /\ sched \in [Threads -> HandScheds]
    /\ chosen \in [Threads -> Attributes]
    /\ sections \in [Threads -> {<<>>} \cup {<<s>> : s \in HandSection}]
    /\ saved \in [Threads -> HandScheds]
    /\ failed \subseteq Threads
    /\ pc \in [Threads -> {"user", "set_fifo", "command", "restore"}]
    /\ loc \in [Threads -> HandLocals]

(* Inside the library a thread has no open section, and INIT names one of  *)
(* the program's variables.                                                *)
HandCallOK(t) ==
    /\ pc[t] # "user" => sections[t] = <<>>
    /\ Hand!At(t, "set_fifo") => loc[t].cmd = "INIT"
    /\ Hand!At(t, "command") => loc[t].cmd \in {"INIT", "EXIT"}
    /\ loc[t].cmd = "INIT" => loc[t].section.var \in Variables

(* The attributes of a thread are in the kernel before INIT takes them and *)
(* after EXIT gave them back, and in the caller's two ints in between.     *)
SavedOK(t) ==
    /\ Hand!At(t, "set_fifo") => sched[t] = chosen[t]
    /\ pc[t] \in {"command", "restore"} => saved[t] = chosen[t]
    /\ Hand!At(t, "user") /\ sections[t] # <<>> => saved[t] = chosen[t]

HandInv ==
    /\ HandType
    /\ \A t \in Threads : HandCallOK(t)

SavedInv ==
    /\ Hand!SchedRestored
    /\ \A t \in Threads \ failed : SavedOK(t)

LEMMA HandInit == Hand!Init => HandInv /\ SavedInv /\ Hand!SectionProtected
BY DEF Hand!Init, HandInv, HandType, HandCallOK, SavedInv, SavedOK, Hand!SchedRestored,
       Hand!SectionProtected,
       Hand!Kernel!Init, HandRows, HandScheds, HandSection, HandLocals, Hand!NoLocals,
       Hand!NoSection, Hand!At

(* Each step of a thread preserves the invariant.                          *)
LEMMA HandStep ==
    ASSUME HandInv, [Hand!Next]_(Hand!vars)
    PROVE  HandInv'
<1> USE DEF HandInv, HandType, HandCallOK, Hand!At, Hand!Goto
<1>1. CASE UNCHANGED Hand!vars
  BY <1>1 DEF Hand!vars
<1>2. ASSUME NEW t \in Threads, NEW var \in Variables, Hand!CallInit(t, var) PROVE HandInv'
  <2>1. PICK c : c = [loc[t] EXCEPT !.cmd = "INIT", !.section.var = var]
    OBVIOUS
  <2>2. c \in HandLocals /\ c.cmd = "INIT" /\ c.section.var \in Variables
    BY <2>1 DEF HandLocals, HandSection
  <2>3. loc' = [loc EXCEPT ![t] = c]
    BY <1>2, <2>1 DEF Hand!CallInit
  <2>4. PICK garbage \in Garbage : saved' = [saved EXCEPT ![t] = garbage]
    BY <1>2 DEF Hand!CallInit
  <2> QED
    BY <1>2, <2>2, <2>3, <2>4 DEF Hand!CallInit, HandScheds
<1>3. ASSUME NEW t \in Threads, Hand!CallExit(t) PROVE HandInv'
  <2>1. PICK s \in HandSection : sections[t] = <<s>>
    BY <1>3 DEF Hand!CallExit
  <2>2. PICK c : c = [loc[t] EXCEPT !.cmd = "EXIT", !.section = s]
    OBVIOUS
  <2>3. c \in HandLocals /\ c.cmd = "EXIT"
    BY <2>2 DEF HandLocals
  <2>4. loc' = [loc EXCEPT ![t] = c]
    BY <1>3, <2>1, <2>2 DEF Hand!CallExit
  <2> QED
    BY <1>3, <2>3, <2>4 DEF Hand!CallExit
<1>4. ASSUME NEW t \in Threads, NEW a \in Attributes, Hand!ChooseSched(t, a) PROVE HandInv'
  BY <1>4 DEF Hand!ChooseSched, HandScheds
<1>5. ASSUME NEW t \in Threads, Hand!SetFifo(t) PROVE HandInv'
  BY <1>5 DEF Hand!SetFifo, HandScheds
<1>6. ASSUME NEW t \in Threads, Hand!SetFifoDenied(t) PROVE HandInv'
  BY <1>6 DEF Hand!SetFifoDenied
<1>7. ASSUME NEW t \in Threads, Hand!CmdInit(t) PROVE HandInv'
  <2>1. PICK s : s = [loc[t].section EXCEPT !.accepted = TRUE]
    OBVIOUS
  <2>2. s \in HandSection
    BY <2>1 DEF HandLocals, HandSection
  <2>3. sections' = [sections EXCEPT ![t] = <<s>>]
    BY <1>7, <2>1 DEF Hand!CmdInit
  <2>4. Hand!Slot(t) \in HandRows
    BY DEF HandRows
  <2>5. held' \in [HandRows -> Variables \cup {Hand!NoVariable}]
    BY <1>7, <2>4 DEF Hand!CmdInit, Hand!Kernel!Register
  <2> QED
    BY <1>7, <2>2, <2>3, <2>5 DEF Hand!CmdInit, Hand!Back, Hand!NoLocals, Hand!NoSection,
                                  HandLocals, HandSection
<1>8. ASSUME NEW t \in Threads, Hand!CmdFails(t) PROVE HandInv'
  BY <1>8 DEF Hand!CmdFails, Hand!Back, Hand!NoLocals, Hand!NoSection, HandLocals,
              HandSection
<1>9. ASSUME NEW t \in Threads, Hand!CmdExit(t) PROVE HandInv'
  <2>1. Hand!Slot(t) \in HandRows
    BY DEF HandRows
  <2>2. held' \in [HandRows -> Variables \cup {Hand!NoVariable}]
    BY <1>9, <2>1 DEF Hand!CmdExit, Hand!Kernel!Release
  <2> QED
    BY <1>9, <2>2 DEF Hand!CmdExit
<1>10. ASSUME NEW t \in Threads, Hand!Restore(t) PROVE HandInv'
  <2>1. sched' \in [Threads -> HandScheds]
    BY <1>10 DEF Hand!Restore
  <2> QED
    BY <1>10, <2>1 DEF Hand!Restore, Hand!Back, Hand!NoLocals, Hand!NoSection,
                       HandLocals, HandSection
<1> QED
  BY <1>1, <1>2, <1>3, <1>4, <1>5, <1>6, <1>7, <1>8, <1>9, <1>10 DEF Hand!Next

LEMMA HandValidNat ==
    ASSUME NEW a, Hand!Valid(a)
    PROVE  a.policy >= 0 /\ a.prio >= 0
<1>1. CASE a.policy = Hand!SCHED_FIFO
  <2>1. a.prio \in 1 .. 99
    BY <1>1 DEF Hand!Valid
  <2> QED
    BY <1>1, <2>1 DEF Hand!SCHED_FIFO
<1>2. CASE a.policy = Hand!SCHED_OTHER
  <2>1. a.prio = 0
    BY <1>2 DEF Hand!Valid
  <2> QED
    BY <1>2, <2>1 DEF Hand!SCHED_OTHER
<1> QED
  BY <1>1, <1>2 DEF Hand!Valid

(* The attributes of a thread none of whose calls failed are never lost.   *)
LEMMA SavedStep ==
    ASSUME AttributesValid, HandInv, SavedInv, [Hand!Next]_(Hand!vars)
    PROVE  SavedInv'
<1> USE DEF HandInv, HandType, HandCallOK, SavedInv, SavedOK, Hand!SchedRestored,
            Hand!At, Hand!Goto
<1>1. CASE UNCHANGED Hand!vars
  BY <1>1 DEF Hand!vars
<1>2. ASSUME NEW t \in Threads, NEW var \in Variables, Hand!CallInit(t, var) PROVE SavedInv'
  BY <1>2 DEF Hand!CallInit
<1>3. ASSUME NEW t \in Threads, Hand!CallExit(t) PROVE SavedInv'
  BY <1>3 DEF Hand!CallExit
<1>4. ASSUME NEW t \in Threads, NEW a \in Attributes, Hand!ChooseSched(t, a) PROVE SavedInv'
  BY <1>4 DEF Hand!ChooseSched
<1>5. ASSUME NEW t \in Threads, Hand!SetFifo(t) PROVE SavedInv'
  BY <1>5 DEF Hand!SetFifo
<1>6. ASSUME NEW t \in Threads, Hand!SetFifoDenied(t) PROVE SavedInv'
  BY <1>6 DEF Hand!SetFifoDenied
<1>7. ASSUME NEW t \in Threads, Hand!CmdInit(t) PROVE SavedInv'
  BY <1>7 DEF Hand!CmdInit, Hand!Back
<1>8. ASSUME NEW t \in Threads, Hand!CmdFails(t) PROVE SavedInv'
  BY <1>8 DEF Hand!CmdFails, Hand!Back
<1>9. ASSUME NEW t \in Threads, Hand!CmdExit(t) PROVE SavedInv'
  BY <1>9 DEF Hand!CmdExit
<1>10. ASSUME NEW t \in Threads, Hand!Restore(t) PROVE SavedInv'
  <2>1. t \notin failed => sched'[t] = chosen[t]
    BY <1>10, HandValidNat DEF Hand!Restore, AttributesValid
  <2>2. \A u \in Threads : u = t \/ sched'[u] = sched[u]
    BY <1>10 DEF Hand!Restore
  <2> QED
    BY <1>10, <2>1, <2>2 DEF Hand!Restore, Hand!Back
<1> QED
  BY <1>1, <1>2, <1>3, <1>4, <1>5, <1>6, <1>7, <1>8, <1>9, <1>10 DEF Hand!Next

(* A row is written by the thread whose row it is, which has no section    *)
(* then, or has one from this step on.                                     *)
LEMMA HandProtectedStep ==
    ASSUME SlotsDistinct, HandInv, Hand!SectionProtected, [Hand!Next]_(Hand!vars)
    PROVE  Hand!SectionProtected'
<1> USE DEF HandInv, HandType, Hand!SectionProtected
<1>1. CASE UNCHANGED <<held, sections>>
  BY <1>1
<1>2. ASSUME NEW t \in Threads, Hand!CallExit(t) PROVE Hand!SectionProtected'
  BY <1>2 DEF Hand!CallExit
<1>3. ASSUME NEW t \in Threads, Hand!CmdInit(t) PROVE Hand!SectionProtected'
  <2>1. PICK s : s = [loc[t].section EXCEPT !.accepted = TRUE]
    OBVIOUS
  <2>2. loc[t].section \in HandSection
    BY DEF HandLocals
  <2>3. s.var = loc[t].section.var
    BY <2>1, <2>2 DEF HandSection
  <2>4. Hand!Slot(t) \in HandRows
    BY DEF HandRows
  <2>5. /\ sections' = [sections EXCEPT ![t] = <<s>>]
        /\ held' = [held EXCEPT ![Hand!Slot(t)] = s.var]
    BY <1>3, <2>1, <2>3 DEF Hand!CmdInit, Hand!Kernel!Register
  <2>6. ASSUME NEW u \in Threads, NEW i \in DOMAIN sections'[u], sections'[u][i].accepted
        PROVE  held'[Hand!Slot(u)] = sections'[u][i].var
    <3>1. CASE u = t
      BY <2>4, <2>5, <3>1
    <3>2. CASE u # t
      <4>1. Hand!Slot(u) # Hand!Slot(t)
        BY <3>2 DEF SlotsDistinct, Slot, Hand!Slot
      <4>2. held'[Hand!Slot(u)] = held[Hand!Slot(u)] /\ sections'[u] = sections[u]
        BY <2>5, <3>2, <4>1 DEF HandRows
      <4> QED
        BY <2>6, <4>2
    <3> QED
      BY <3>1, <3>2
  <2> QED
    BY <2>6
<1>4. ASSUME NEW t \in Threads, Hand!CmdExit(t) PROVE Hand!SectionProtected'
  <2>1. sections[t] = <<>> /\ sections' = sections
    BY <1>4 DEF Hand!CmdExit, HandCallOK, Hand!At
  <2>2. \A u \in Threads : u = t \/ held'[Hand!Slot(u)] = held[Hand!Slot(u)]
    BY <1>4 DEF Hand!CmdExit, Hand!Kernel!Release, SlotsDistinct, Slot, Hand!Slot, HandRows
  <2> QED
    BY <2>1, <2>2
<1> QED
  BY <1>1, <1>2, <1>3, <1>4
     DEF Hand!Next, Hand!vars, Hand!CallInit, Hand!ChooseSched, Hand!SetFifo,
         Hand!SetFifoDenied, Hand!CmdFails, Hand!Restore

-----------------------------------------------------------------------------
(* The program with one thread and manual sections: what SbApiProofs shows *)
(* of its library, of which F is a second copy that has the lemmas.        *)

F == INSTANCE SbApiProofs WITH Threads <- OneThread, Variables <- FlatVariables,
                               ManualAllowed <- TRUE, FileMayFail <- FALSE

LEMMA FlatInitSame == Flat!Init <=> F!Init
BY DEF Flat!Init, F!Init, Flat!Kernel!Init, F!Kernel!Init, Flat!Slot, F!Slot,
       Flat!NoVariable, F!NoVariable, Flat!NoSection, F!NoSection, Flat!NoLocals,
       F!NoLocals, Flat!Fifo, F!Fifo, Flat!SCHED_FIFO, F!SCHED_FIFO

LEMMA FlatNextSame == [Flat!Next]_vars <=> [F!Next]_vars
BY DEF Flat!Program, F!Program, Flat!Library, F!Library, Flat!CallInit, F!CallInit,
       Flat!CallExit, F!CallExit, Flat!CallManuallyInit, F!CallManuallyInit,
       Flat!CallManuallyExit, F!CallManuallyExit, Flat!ChooseSched, F!ChooseSched,
       Flat!Enter, F!Enter, Flat!InitSkipped, F!InitSkipped, Flat!InitChecked,
       F!InitChecked, Flat!SetFifo, F!SetFifo, Flat!SetFifoDenied, F!SetFifoDenied,
       Flat!SavePolicy, F!SavePolicy, Flat!SavePrio, F!SavePrio, Flat!AlreadyOpen,
       F!AlreadyOpen, Flat!NotOpen, F!NotOpen, Flat!StoreFd, F!StoreFd, Flat!Open, F!Open,
       Flat!OpenFails, F!OpenFails, Flat!OpenChecked, F!OpenChecked, Flat!AfterCmd,
       F!AfterCmd, Flat!OpenRefused, F!OpenRefused, Flat!WriteFails, F!WriteFails,
       Flat!CmdInit, F!CmdInit, Flat!CmdInitFails, F!CmdInitFails,
       Flat!CmdExit, F!CmdExit, Flat!InitReturn, F!InitReturn, Flat!ExitSkipped,
       F!ExitSkipped, Flat!ExitChecked, F!ExitChecked, Flat!NothingSaved,
       F!NothingSaved, Flat!Restore, F!Restore, Flat!ClearPolicy, F!ClearPolicy,
       Flat!ClearPrio, F!ClearPrio, Flat!ExitReturn, F!ExitReturn, Flat!At, F!At,
       Flat!Goto, F!Goto, Flat!Back, F!Back, Flat!Manual, F!Manual, Flat!InManual,
       F!InManual, Flat!Innermost, F!Innermost, Flat!Valid, F!Valid, Flat!Fifo, F!Fifo,
       Flat!SCHED_OTHER, F!SCHED_OTHER, Flat!SCHED_FIFO, F!SCHED_FIFO, Flat!NoVariable,
       F!NoVariable, Flat!NoSection, F!NoSection, Flat!NoLocals, F!NoLocals, Flat!Slot,
       F!Slot, Flat!globals, F!globals, Flat!Kernel!Register, F!Kernel!Register,
       Flat!Kernel!Release, F!Kernel!Release, Flat!Next, F!Next

LEMMA FlatPropertiesSame ==
    /\ Flat!SectionProtected <=> F!SectionProtected
    /\ Flat!SchedRestored <=> F!SchedRestored
BY DEF Flat!SectionProtected, F!SectionProtected, Flat!SchedRestored, F!SchedRestored,
       Flat!Slot, F!Slot, Flat!At, F!At

(* The assumptions of the library's constants, for the one thread.         *)
LEMMA FlatAssumption ==
    /\ OneThread \subseteq Nat
    /\ SB_MAX_PID \in Nat \ {0}
    /\ MaxSections \in Nat
    /\ Attributes \subseteq [policy : {F!SCHED_OTHER, F!SCHED_FIFO}, prio : 0 .. 98]
    /\ \A a \in Attributes : F!Valid(a)
    /\ TRUE \in BOOLEAN /\ FALSE \in BOOLEAN
BY ApiAssumption
   DEF OneThread, SCHED_OTHER, SCHED_FIFO, F!SCHED_OTHER, F!SCHED_FIFO, Valid, F!Valid

LEMMA FlatAlone == F!Alone /\ F!FlagIsOwn /\ F!SlotsDistinct
BY DEF F!Alone, F!FlagIsOwn, F!SlotsDistinct, OneThread

-----------------------------------------------------------------------------
(* The three programs.                                                     *)

ThreadsInv == program = "threads" => SbInv /\ NestInv /\ AcceptedInv
FlatInv == program = "flat" => /\ F!SbInv /\ F!NestInv
                               /\ F!AcceptedInv /\ F!SchedInv
ByHandInv == program = "hand" => HandInv /\ SavedInv /\ Hand!SectionProtected

LEMMA LibrariesInit == LibraryInit => ThreadsInv /\ FlatInv /\ ByHandInv
<1> SUFFICES ASSUME LibraryInit
             PROVE  ThreadsInv /\ FlatInv /\ ByHandInv
  OBVIOUS
<1>1. CASE program = "threads" /\ Init
  <2>1. SbInv /\ NestInv /\ AcceptedInv
    BY <1>1, SbInit, NestInit, AcceptedInit
  <2> QED
    BY <1>1, <2>1 DEF ThreadsInv, FlatInv, ByHandInv
<1>2. CASE program = "flat" /\ Flat!Init
  <2>1. F!Init
    BY <1>2, FlatInitSame
  <2>2. F!SbInv /\ F!NestInv /\ F!AcceptedInv /\ F!SchedInv
    BY <2>1, FlatAssumption, F!SbInit, F!NestInit, F!AcceptedInit, F!SchedInit
  <2> QED
    BY <1>2, <2>2 DEF ThreadsInv, FlatInv, ByHandInv
<1>3. CASE program = "hand" /\ Hand!Init
  <2>1. HandInv /\ SavedInv /\ Hand!SectionProtected
    BY <1>3, HandInit
  <2> QED
    BY <1>3, <2>1 DEF ThreadsInv, FlatInv, ByHandInv
<1> QED
  BY <1>1, <1>2, <1>3 DEF LibraryInit

LEMMA AttributesAreValid == AttributesValid
BY ApiAssumption DEF AttributesValid, Valid, Hand!Valid, SCHED_OTHER, SCHED_FIFO,
                     Hand!SCHED_OTHER, Hand!SCHED_FIFO

(* A step of the library the program uses; none changes the program.       *)
LEMMA LibraryStep ==
    ASSUME [LibraryNext]_<<vars, program, saved, failed>>
    PROVE  /\ program' = program
           /\ program = "threads" => [Next]_vars
           /\ program = "flat" => [Flat!Next]_vars
           /\ program = "hand" => [Hand!Next]_(Hand!vars)
BY DEF LibraryNext, Hand!vars, vars

LEMMA ThreadsStep ==
    ASSUME NoNesting, FlagIsOwn, SlotsDistinct, ThreadsInv,
           [LibraryNext]_<<vars, program, saved, failed>>
    PROVE  ThreadsInv'
<1> SUFFICES ASSUME program' = "threads"
             PROVE  (SbInv /\ NestInv /\ AcceptedInv)'
  BY DEF ThreadsInv
<1>1. SbInv /\ NestInv /\ AcceptedInv /\ [Next]_vars
  BY LibraryStep DEF ThreadsInv
<1> QED
  BY <1>1, SbStep, NestStep, AcceptedStep

LEMMA FlatStep ==
    ASSUME NoNesting, FlatInv, [LibraryNext]_<<vars, program, saved, failed>>
    PROVE  FlatInv'
<1> SUFFICES ASSUME program' = "flat"
             PROVE  (F!SbInv /\ F!NestInv /\ F!AcceptedInv /\ F!SchedInv)'
  BY DEF FlatInv
<1>1. F!SbInv /\ F!NestInv /\ F!AcceptedInv /\ F!SchedInv /\ [Flat!Next]_vars
  BY LibraryStep DEF FlatInv
<1>2. [F!Next]_(F!vars)
  BY <1>1, FlatNextSame DEF vars, F!vars, globals, F!globals
<1>3. F!NoNesting
  BY DEF NoNesting, F!NoNesting
<1> QED
  BY <1>1, <1>2, <1>3, FlatAssumption, FlatAlone,
     F!SbStep, F!NestStep, F!AcceptedStep, F!SchedOKStep

LEMMA ByHandStep ==
    ASSUME SlotsDistinct, ByHandInv, [LibraryNext]_<<vars, program, saved, failed>>
    PROVE  ByHandInv'
<1> SUFFICES ASSUME program' = "hand"
             PROVE  (HandInv /\ SavedInv /\ Hand!SectionProtected)'
  BY DEF ByHandInv
<1>1. HandInv /\ SavedInv /\ Hand!SectionProtected /\ [Hand!Next]_(Hand!vars)
  BY LibraryStep DEF ByHandInv
<1> QED
  BY <1>1, AttributesAreValid, HandStep, SavedStep, HandProtectedStep

-----------------------------------------------------------------------------
(* Theorems.                                                               *)

(* By hand alone: outside sections a thread none of whose calls failed has *)
(* the attributes it chose.  They are saved in the ints of its caller,     *)
(* which no other thread writes.                                           *)
THEOREM HandSchedRestoredHolds ==
    ASSUME AttributesValid
    PROVE  Hand!Spec => []Hand!SchedRestored
<1>1. Hand!Init => HandInv /\ SavedInv
  BY HandInit
<1>2. HandInv /\ SavedInv /\ [Hand!Next]_(Hand!vars) => (HandInv /\ SavedInv)'
  BY HandStep, SavedStep
<1>3. SavedInv => Hand!SchedRestored
  BY DEF SavedInv
<1> QED
  BY <1>1, <1>2, <1>3, PTL DEF Hand!Spec

(* By hand alone: a section whose INIT returned 0 stays registered until   *)
(* the program calls its exit, however many sections a thread opens.       *)
THEOREM HandSectionProtectedHolds ==
    ASSUME SlotsDistinct
    PROVE  Hand!Spec => []Hand!SectionProtected
<1>1. Hand!Init => HandInv /\ Hand!SectionProtected
  BY HandInit
<1>2. HandInv /\ Hand!SectionProtected /\ [Hand!Next]_(Hand!vars)
         => (HandInv /\ Hand!SectionProtected)'
  BY HandStep, HandProtectedStep
<1> QED
  BY <1>1, <1>2, PTL DEF Hand!Spec

(* A section whose INIT returned 0 stays registered until the program      *)
(* calls its exit, with either library: if instrumented functions do not   *)
(* call each other, the threads of the program have different rows and, in *)
(* the program with more than one thread, manual calls are not used.       *)
THEOREM SectionsProtectedHolds ==
    ASSUME NoNesting, FlagIsOwn, SlotsDistinct
    PROVE  LibrarySpec => []SectionsProtected
<1> DEFINE Inv == ThreadsInv /\ FlatInv /\ ByHandInv
<1>1. LibraryInit => Inv
  BY LibrariesInit
<1>2. Inv /\ [LibraryNext]_<<vars, program, saved, failed>> => Inv'
  BY ThreadsStep, FlatStep, ByHandStep
<1>3. Inv => SectionsProtected
  <2>1. F!AcceptedInv => Flat!SectionProtected
    BY FlatPropertiesSame DEF F!AcceptedInv
  <2> QED
    BY <2>1 DEF ThreadsInv, FlatInv, ByHandInv, SectionsProtected, AcceptedInv
<1> HIDE DEF Inv
<1> QED
  BY <1>1, <1>2, <1>3, PTL DEF LibrarySpec

(* Outside sections a thread has the attributes it chose: the one thread   *)
(* of an instrumented program, manual calls included, if instrumented      *)
(* functions do not call each other; and every thread of a program with    *)
(* calls placed by hand none of whose calls failed, whatever the other     *)
(* threads do, because its attributes are in its caller's ints.            *)
THEOREM AttributesRestoredHolds ==
    ASSUME NoNesting
    PROVE  LibrarySpec => []AttributesRestored
<1> DEFINE HandSaved == program = "hand" => HandInv /\ SavedInv
<1> DEFINE Inv == FlatInv /\ HandSaved
<1>1. LibraryInit => Inv
  BY LibrariesInit DEF ByHandInv
<1>2. Inv /\ [LibraryNext]_<<vars, program, saved, failed>> => Inv'
  <2> SUFFICES ASSUME Inv, [LibraryNext]_<<vars, program, saved, failed>>
               PROVE  Inv'
    OBVIOUS
  <2>1. FlatInv'
    BY FlatStep
  <2>2. CASE program = "hand"
    <3>1. HandInv /\ SavedInv /\ [Hand!Next]_(Hand!vars)
      BY <2>2, LibraryStep
    <3>2. (HandInv /\ SavedInv)'
      BY <3>1, AttributesAreValid, HandStep, SavedStep
    <3> QED
      BY <2>1, <3>2
  <2>3. CASE program # "hand"
    BY <2>1, <2>3, LibraryStep
  <2> QED
    BY <2>2, <2>3
<1>3. Inv => AttributesRestored
  <2>1. F!SbInv /\ F!NestInv /\ F!SchedInv => F!SchedRestored
    BY FlatAssumption, F!ManualIsOuter DEF F!SchedInv, F!SchedOK, F!SchedRestored, F!At
  <2>2. F!SchedRestored => Flat!SchedRestored
    BY FlatPropertiesSame
  <2> QED
    BY <2>1, <2>2 DEF FlatInv, SavedInv, AttributesRestored
<1> HIDE DEF Inv
<1> QED
  BY <1>1, <1>2, <1>3, PTL DEF LibrarySpec
=============================================================================
