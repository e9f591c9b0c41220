---------------------------- MODULE MCSmokeBombLkm ----------------------------
(***************************************************************************)
(* Small instances of SmokeBombLkm.  Lines of 2 bytes; page 0 is the       *)
(* unmapped one, so addresses start at PAGE_SIZE.                          *)
(***************************************************************************)
EXTENDS SmokeBombLkm

(* Two threads with a row each.                                            *)
TwoRows == {1, 2}

(* One page of 4 bytes: lines 4 and 6.                                     *)
OnePage == {1}
OnePageRequests == {[dsva |-> 4, deva |-> 8], [dsva |-> 5, deva |-> 7]}
OnePageAccesses == {5, 7}

TwoPages == {1, 2}

(* Pages of 2 bytes, a line each: sections of lines 2 and 4 and of line 2.  *)
LinePageRequests == {[dsva |-> 3, deva |-> 6], [dsva |-> 2, deva |-> 4]}
LinePageAccesses == {4}

(* Two threads whose ids differ by SB_MAX_PID = 1.                         *)
Colliding == {1, 2}
OneAccess == {5}
OneRequest == {[dsva |-> 4, deva |-> 8]}
OneLineRequest == {[dsva |-> 4, deva |-> 6]}

(* All threads belong to one process: a page is the same memory for all    *)
(* that have it mapped.                                                    *)
OneMemory ==
    \A t, u \in Tasks, p \in Pages :
        frame[t][p] = frame[u][p] \/ NoFrame \in {frame[t][p], frame[u][p]}
ProcessSpec == Init /\ [][Next /\ OneMemory']_vars
=============================================================================
