------------------------------ MODULE MCLibraries ------------------------------
(***************************************************************************)
(* Small instances of the two user libraries, one of them chosen for good  *)
(* in the initial state: two threads of an instrumented program whose      *)
(* open() may fail (the instance of the configuration), one thread that    *)
(* also uses the manual calls, and two threads of a program with calls     *)
(* placed by hand.                                                         *)
(***************************************************************************)
EXTENDS MCSbApi

CONSTANTS FlatVariables,
          Garbage       \* what a caller's uninitialised ints may hold

VARIABLES program, saved, failed

Flat == INSTANCE SbApi WITH Threads <- OneThread, Variables <- FlatVariables,
                            ManualAllowed <- TRUE, FileMayFail <- FALSE
Hand == INSTANCE HandApi

(* A policy without priority, a policy that does not exist, nothing.       *)
ThreePairs == {[policy |-> SCHED_OTHER, prio |-> 0], [policy |-> 7, prio |-> 7],
               [policy |-> -1, prio |-> -1]}

LibraryInit ==
    \/ /\ program = "threads" /\ Init
       /\ saved = <<>> /\ failed = {}
    \/ /\ program = "flat" /\ Flat!Init
       /\ saved = <<>> /\ failed = {}
    \/ /\ program = "hand" /\ Hand!Init
       /\ gsched_policy = -1 /\ gsched_prio = -1
       /\ is_manually_initialized = 0 /\ smoke_bomb_fd = -1

LibraryNext ==
    /\ \/ program = "threads" /\ Next /\ UNCHANGED <<saved, failed>>
       \/ program = "flat" /\ Flat!Next /\ UNCHANGED <<saved, failed>>
       \/ program = "hand" /\ Hand!Next /\ UNCHANGED globals
    /\ UNCHANGED program

LibrarySpec == LibraryInit /\ [][LibraryNext]_<<vars, program, saved, failed>>

(* A section whose INIT command returned 0 stays registered until the      *)
(* program calls its exit, with either library (llvm-based/src/sb_api.c:   *)
(* 139-195, smoke-bomb/lib/sb_api.c:137-157).                              *)
SectionsProtected ==
    /\ program = "threads" => SectionProtected
    /\ program = "flat" => Flat!SectionProtected
    /\ program = "hand" => Hand!SectionProtected

(* Outside sections a thread has the attributes it chose: in a program     *)
(* with one thread, and in any program whose callers keep the attributes   *)
(* (llvm-based/src/sb_api.c:102-167, smoke-bomb/lib/sb_api.c:102-157).     *)
AttributesRestored ==
    /\ program = "flat" => Flat!SchedRestored
    /\ program = "hand" => Hand!SchedRestored
=============================================================================
