------------------------------- MODULE PrimeProbe -------------------------------
(***************************************************************************)
(* The commands by which sb_test measures the L1 cache (lkm/sb_lkm.c):     *)
(* PRIME fills a set with lines of the module, PROBE counts with the PMU   *)
(* how many of them have gone.  They run on the core of the program whose  *)
(* accesses they measure, which may load at any moment.  GET_SET_IDX,      *)
(* PRINT_CPUID and INIT_PMU change neither the cache nor the event that    *)
(* counter 0 counts.                                                       *)
(***************************************************************************)
EXTENDS L1Cache

CONSTANTS ProgramLines,    \* lines of the program, all mapped
          PrimeBase        \* where the buffers of the module begin: a
                           \* multiple of their size

VARIABLES l1, event,       \* the cache, the event of counter 0
          pc, set_idx, i, sum, \* the command in progress, its locals
          entered          \* when another line last entered the set in
                           \* use: never, while PRIME or PROBE ran, since

vars == <<l1, event, pc, set_idx, i, sum, entered>>

PrimeProbeArr(way) == PrimeBase + way * l1_sets * CACHE_LINE_SIZE
PrimeLine(set, way) == PrimeProbeArr(way) + set * CACHE_LINE_SIZE

(* The -1 of an address that is not mapped (sb_lkm.c:206-210), which PRIME *)
(* and PROBE would take for a set, is left out: ProgramLines are mapped.   *)
get_set_idx(pa) == L1SetIdx(pa)

Init == /\ l1 = [p \in Sets \X Ways |-> Foreign]
        /\ event = "unknown"
        /\ pc = "user" /\ set_idx = 0 /\ i = 0 /\ sum = 0
        /\ entered = "since"

Prime(pa) ==
    /\ pc = "user"
    /\ pc' = "prime" /\ set_idx' = get_set_idx(pa) /\ i' = 0
    /\ entered' = "never"
    /\ UNCHANGED <<l1, event, sum>>

(* Mutant: nothing makes room for the line.                                *)
PrimeWayNoFlush ==
    /\ pc = "prime" /\ i < l1_ways
    /\ l1' \in Bring(l1, PrimeLine(set_idx, i))
    /\ i' = i + 1
    /\ UNCHANGED <<event, pc, set_idx, sum, entered>>

(* The store brings the line in, the flush takes it out again, way i is    *)
(* emptied, the load brings the line back.                                 *)
PrimeWay ==
    LET line == PrimeLine(set_idx, i)
    IN /\ pc = "prime" /\ i < l1_ways
       /\ \E stored \in Bring(l1, line) :
             l1' \in Bring(flush_l1_dcache(flush_dcache(stored, line), set_idx, i), line)
       /\ i' = i + 1
       /\ UNCHANGED <<event, pc, set_idx, sum, entered>>

PrimeReturn ==
    /\ pc = "prime" /\ i = l1_ways
    /\ pc' = "user"
    /\ UNCHANGED <<l1, event, set_idx, i, sum, entered>>

(* Mutant: the counter keeps the event it had.                             *)
ProbeAnyEvent(pa) ==
    /\ pc = "user"
    /\ set_idx' = get_set_idx(pa)
    /\ pc' = "probe" /\ i' = 0 /\ sum' = 0
    /\ entered' = IF set_idx' = set_idx THEN entered ELSE "priming"
    /\ UNCHANGED <<l1, event>>

Probe(pa) ==
    /\ pc = "user"
    /\ event' = "L1D refill"
    /\ set_idx' = get_set_idx(pa)
    /\ pc' = "probe" /\ i' = 0 /\ sum' = 0
    /\ entered' = IF set_idx' = set_idx THEN entered ELSE "priming"
    /\ UNCHANGED l1

(* Between the two reads of the counter something else may count as well.  *)
ProbeWay ==
    LET line == PrimeLine(set_idx, i)
        counted == IF event = "L1D refill" /\ ~Resident(l1, line) THEN {1} ELSE {0, 1}
    IN /\ pc = "probe" /\ i < l1_ways
       /\ \E n \in counted : sum' = sum + n
       /\ l1' \in Bring(l1, line)
       /\ i' = i + 1
       /\ UNCHANGED <<event, pc, set_idx, entered>>

(* sum is the command's result; what came in while it counted is not       *)
(* reported.                                                               *)
ProbeReturn ==
    /\ pc = "probe" /\ i = l1_ways
    /\ pc' = "user" /\ entered' = "priming"
    /\ UNCHANGED <<l1, event, set_idx, i, sum>>

-----------------------------------------------------------------------------
(* What else runs on the core.                                             *)

Entering(set) ==
    entered' = IF set # set_idx \/ pc = "probe" THEN entered
               ELSE IF pc = "prime" THEN "priming" ELSE "since"

ProgramLoad(pa) ==
    /\ l1' \in Bring(l1, pa)
    /\ IF l1' = l1 THEN UNCHANGED entered ELSE Entering(L1SetIdx(pa))
    /\ UNCHANGED <<event, pc, set_idx, i, sum>>

OtherLoad(set) ==
    /\ l1' \in Allocate(l1, set, Foreign)
    /\ Entering(set)
    /\ UNCHANGED <<event, pc, set_idx, i, sum>>

Next == \/ \E pa \in ProgramLines : Prime(pa) \/ Probe(pa) \/ ProgramLoad(pa)
        \/ PrimeWay \/ PrimeReturn \/ ProbeWay \/ ProbeReturn
        \/ \E set \in Sets : OtherLoad(set)

Spec == Init /\ [][Next]_vars

-----------------------------------------------------------------------------
(* Properties.                                                             *)

(* After a PRIME that nothing disturbed, whatever ways the replacement     *)
(* policy chose, the set holds lines of the module only: flushing way      *)
(* after way has left none out (sb_lkm.c:223-230).                         *)
PrimeClears ==
    pc = "user" /\ entered = "never" =>
        \A w \in Ways :
            l1[set_idx, w] \in {Invalid} \cup {PrimeLine(set_idx, n) : n \in Ways}

(* A PROBE that counts no miss: nothing has entered the set since the      *)
(* PRIME, or the PROBE, before it returned (sb_lkm.c:223-255).             *)
ProbeNotices ==
    pc = "probe" /\ i = l1_ways /\ sum = 0 => entered # "since"
=============================================================================
