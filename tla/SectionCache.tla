----------------------------- MODULE SectionCache -----------------------------
(***************************************************************************)
(* SmokeBombLkm on a core whose L1 cache has contents: every action of the *)
(* handlers does to the cache what its instructions do, while the program  *)
(* and the kernel load other memory.                                       *)
(***************************************************************************)
EXTENDS SmokeBombLkm, L1Cache

VARIABLES l1,       \* the cache
          event,    \* what counter 0 of the PMU counts
          spoiled   \* task -> sets that something has entered since the
                    \* module last brought the section's line into them

cacheVars == <<l1, event, spoiled>>
allVars == <<vars, cacheVars>>

CacheInit ==
    /\ Init
    /\ l1 = [p \in Sets \X Ways |-> Foreign]
    /\ event = "unknown"
    /\ spoiled = [t \in Tasks |-> Sets]

Set(t, va) == L1SetIdx(Pa(t, va))

(* DC CIVAC and PRFM of an address that may have no translation.           *)
FlushVa(t, va) == IF Mapped(t, va) THEN flush_dcache(l1, Pa(t, va)) ELSE l1
PreloadInto(cache, t, va) == IF Mapped(t, va) THEN Bring(cache, Pa(t, va)) ELSE {cache}

FlushAll(t, vas) ==
    [p \in Sets \X Ways |->
        IF \E va \in vas : Mapped(t, va) /\ l1[p] = Pa(t, va) THEN Invalid ELSE l1[p]]

(* The four lines of sb_preload and of the dispatchers: make room in L1,   *)
(* flush L2, prefetch va, flush L2 again.                                  *)
PutLine(t, va, set1, set2) ==
    LET room == flush_l2_dcache(flush_l1_dcache(l1, set1, l1_ways - 1), set2, l2_ways - 1)
    IN \E filled \in PreloadInto(room, t, va) :
          l1' = flush_l2_dcache(filled, set2, l2_ways - 1)

(* The module has put a line of t's section into its set, any other line   *)
(* into the set.                                                           *)
Restored(t, set) ==
    spoiled' = [u \in Tasks |-> IF u = t THEN spoiled[u] \ {set} ELSE spoiled[u] \cup {set}]
Spoil(set) == spoiled' = [u \in Tasks |-> spoiled[u] \cup {set}]

-----------------------------------------------------------------------------
(* The commands.                                                           *)

InitLineCached(t) == /\ InitLine(t) \/ InitLineFails(t)
                     /\ l1' = FlushVa(t, loc[t].va)
                     /\ UNCHANGED <<event, spoiled>>

ExitFlushCached(t, q) == /\ ExitFlush(t, q)
                         /\ l1' = FlushAll(t, Lines(LineOf(q.dsva), LineOf(q.deva)))
                         /\ UNCHANGED <<event, spoiled>>

(* The trap.                                                               *)

(* Mutant: the set stays that of the first line.                           *)
PreloadLineFirstSet(t) ==
    /\ PreloadLine(t)
    /\ PutLine(t, loc[t].va, Set(t, Region(t).sva), loc[t].set2)
    /\ Restored(t, Set(t, loc[t].va))
    /\ UNCHANGED event

PreloadLineCached(t) ==
    /\ PreloadLine(t)
    /\ PutLine(t, loc[t].va, loc[t].set1, loc[t].set2)
    /\ Restored(t, Set(t, loc[t].va))
    /\ UNCHANGED event

PreloadDoneCached(t) == /\ PreloadDone(t)
                        /\ event' = "L1D refill"
                        /\ UNCHANGED <<l1, spoiled>>

(* The counter tells a miss if it counts refills; what else it counted,    *)
(* or a refill for another access in between, looks like a miss.           *)
LoadHitCached(t) ==
    /\ LoadHit(t)
    /\ event = "L1D refill" => Resident(l1, Pa(t, loc[t].x))
    /\ l1' \in Bring(l1, Pa(t, loc[t].x))
    /\ IF l1' = l1 THEN UNCHANGED spoiled ELSE Spoil(Set(t, loc[t].x))
    /\ UNCHANGED event

LoadMissCached(t) ==
    /\ LoadMiss(t)
    /\ l1' \in Bring(l1, Pa(t, loc[t].x))
    /\ IF l1' = l1 THEN UNCHANGED spoiled ELSE Spoil(Set(t, loc[t].x))
    /\ UNCHANGED event

RefillCached(t) ==
    /\ Refill(t)
    /\ PutLine(t, loc[t].va_z, loc[t].set1, loc[t].set2)
    /\ IF loc[t].va_z \in RegionLines(t) THEN Restored(t, Set(t, loc[t].va_z))
                                         ELSE Spoil(loc[t].set1)
    /\ UNCHANGED event

(* Steps that touch nothing but the tables.                                *)
TablesOnly(t) ==
    /\ \/ InitRefuse(t) \/ \E q \in Requests : InitAccept(t, q)
       \/ InitStoreSva(t) \/ InitStoreEva(t) \/ InitStoreFlag(t)
       \/ ExitStoreSva(t) \/ ExitStoreEva(t) \/ ExitStoreFlag(t)
       \/ \E x \in Accesses : Trap(t, x)
       \/ PreloadSkip(t) \/ PreloadNeeded(t) \/ PreloadSets(t) \/ PreloadFirst(t) \/ PreloadEnd(t)
       \/ LookupZ(t) \/ LookupUnrelated(t) \/ LookupRelated(t)
       \/ Memory(t)
    /\ UNCHANGED cacheVars

(* Any other load on this core, of the program or of the kernel.           *)
OtherLoad(set) ==
    /\ l1' \in Allocate(l1, set, Foreign)
    /\ Spoil(set)
    /\ UNCHANGED <<vars, event>>

CacheNext ==
    \/ \E t \in Tasks :
          \/ InitLineCached(t) \/ \E q \in Requests : ExitFlushCached(t, q)
          \/ PreloadLineCached(t) \/ PreloadDoneCached(t)
          \/ LoadHitCached(t) \/ LoadMissCached(t) \/ RefillCached(t)
          \/ TablesOnly(t)
    \/ \E set \in Sets : OtherLoad(set)

CacheSpec == CacheInit /\ [][CacheNext]_allVars

-----------------------------------------------------------------------------
(* Properties.                                                             *)

(* The set numbers of the preload, incremented from line to line, are      *)
(* those of the lines: they lie behind each other in physical memory and   *)
(* no two of them in one set.                                              *)
OneLineASet(t) ==
    /\ Cardinality(RegionLines(t)) <= l1_sets
    /\ \A va \in RegionLines(t) :
          Mapped(t, va) => Pa(t, va) - va = Pa(t, Region(t).sva) - Region(t).sva

(* What the module has put into L1 is there until something else enters    *)
(* its set: neither the flushes of the lines after it nor those of the     *)
(* level 2 cache take it out.  A refill puts it back and the claim holds   *)
(* again, after a miss whose L2 set the section has; a miss in another L2  *)
(* set of the same L1 set, and a counted hit that was none, leave the set  *)
(* spoiled.  A line that INIT or EXIT of another task flushes is no longer *)
(* prefetched (addr.c:146-163, arm64/insn.c:150-172).                      *)
SectionResident ==
    \A t \in Tasks : Open(t) /\ OneLineASet(t) =>
        \A va \in RegionLines(t) \cap prefetched[t] :
            Set(t, va) \notin spoiled[t] => Resident(l1, Pa(t, va))
=============================================================================
