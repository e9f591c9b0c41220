-------------------------------- MODULE MCCaches --------------------------------
(***************************************************************************)
(* The models of the L1 cache in one run, one of them chosen for good in   *)
(* the initial state: a section and its traps, PRIME and PROBE beside a    *)
(* program with other lines, or the module loaded and removed.             *)
(***************************************************************************)
EXTENDS MCSectionCache

CONSTANTS ProgramLines, PrimeBase,   \* of PrimeProbe
          CommandThreads,            \* of Lifecycle: threads that write commands,
          BufferWays                 \* how many ways info reads

ASSUME CachesAssumption == BufferWays \in Nat \ {0}

VARIABLES use,
          cmd, set_idx, i, sum, entered,                     \* of PrimeProbe
          loader, proc, hook, resolved, ways, buffers, rows, \* of Lifecycle
          command, turn, early, opened

measuring == <<cmd, set_idx, i, sum, entered>>
loading == <<loader, proc, hook, resolved, ways, buffers, rows, command, turn, early, opened>>

LoadedWays == 0 .. (BufferWays - 1)

PP == INSTANCE PrimeProbe WITH pc <- cmd
LC == INSTANCE Lifecycle
         WITH Threads <- CommandThreads, Ways <- LoadedWays, l1_ways <- ways, prime_probe_arr <- buffers,
              sdata_region <- rows, cmd <- command, i <- turn, granted <- opened

CachesInit ==
    /\ Init /\ spoiled = [t \in Tasks |-> Sets]
    /\ use \in {"section", "probe", "module"}
    /\ PP!Init /\ LC!Init

CachesNext ==
    /\ \/ use = "section" /\ CacheNext /\ UNCHANGED <<measuring, loading>>
       \/ use = "probe" /\ PP!Next /\ UNCHANGED <<vars, spoiled, loading>>
       \/ use = "module" /\ LC!Next /\ UNCHANGED <<allVars, measuring>>
    /\ UNCHANGED use

CachesSpec == CachesInit /\ [][CachesNext]_<<allVars, use, measuring, loading>>

(* After a PRIME that nothing disturbed the set holds lines of the module  *)
(* only (sb_lkm.c:223-230).                                                *)
PrimeClears == PP!PrimeClears

(* A PROBE that counts no miss: nothing has entered the set since the      *)
(* PRIME, or the PROBE, before it returned (sb_lkm.c:223-255).             *)
ProbeNotices == PP!ProbeNotices

(* Commands that begin in the loaded module find its handler and its       *)
(* buffers until they return, sections stay registered (sb_lkm.c:379-403). *)
CommandsServed == LC!CommandsServed
=============================================================================
