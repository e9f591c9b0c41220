-------------------------------- MODULE L1Cache --------------------------------
(***************************************************************************)
(* What the level 1 data cache of one core holds, the words by which the   *)
(* kernel module names a set and a way of a cache (arm64/cache.h,          *)
(* arm/cache.h), and what the processor makes of them.                     *)
(***************************************************************************)
EXTENDS CacheGeometry, FiniteSets
W == INSTANCE InsnWord      \* words as the sets of their one bits

CONSTANTS l1_ways, l2_ways,    \* from CCSIDR
          Architecture         \* "arm64" or "arm"

(* The way field has as many bits as it takes to number the ways.          *)
ASSUME L1CacheAssumption ==
    /\ l1_ways \in {2, 4, 8} /\ l2_ways \in {2, 4, 8, 16}
    /\ Architecture \in {"arm64", "arm"}

Sets == 0 .. (l1_sets - 1)
Ways == 0 .. (l1_ways - 1)
Invalid == -1
Foreign == -2     \* a line of memory that no property speaks of

-----------------------------------------------------------------------------
(* Contents: <<set, way>> -> address of the line, Invalid or Foreign.        *)

Resident(cache, pa) == \E w \in Ways : cache[L1SetIdx(pa), w] = LineOf(pa)

Put(cache, set, way, line) ==
    [p \in Sets \X Ways |-> IF p = <<set, way>> THEN line ELSE cache[p]]

(* A line that comes in takes an invalid way if there is one, otherwise    *)
(* the replacement policy evicts any way.                                  *)
Allocate(cache, set, line) ==
    LET free == {w \in Ways : cache[set, w] = Invalid}
    IN {Put(cache, set, w, line) : w \in IF free = {} THEN Ways ELSE free}

Bring(cache, pa) ==
    IF Resident(cache, pa) THEN {cache} ELSE Allocate(cache, L1SetIdx(pa), LineOf(pa))

(* flush_dcache: clean and invalidate by address.                          *)
flush_dcache(cache, pa) ==
    [p \in Sets \X Ways |-> IF cache[p] = LineOf(pa) THEN Invalid ELSE cache[p]]

-----------------------------------------------------------------------------
(* Clean and invalidate by set and way.                                    *)

BitsOf(n) == {b \in 0 .. 17 : ((n \div 2 ^ b) % 2) = 1}

flush_l1_word(set, way) == W!Or(W!Shl(BitsOf(set), 6), W!Shl(BitsOf(way), 30))

flush_l2_word64(set, way) ==
    W!Or(W!Shl(BitsOf(1), 1), W!Or(W!Shl(BitsOf(set), 6), W!Shl(BitsOf(way), 28)))

flush_l2_word32(set, way) ==
    W!Or(BitsOf(1), W!Or(W!Shl(BitsOf(set), 6), W!Shl(BitsOf(way), 28)))

(* DC CISW, DCCISW: the level is in bits 3:1, the way in the uppermost     *)
(* bits, the set above the offset in the line; other bits are ignored.     *)
Log2(n) == CHOOSE b \in 0 .. 17 : 2 ^ b = n

CleanInvalidate(cache, word) ==
    LET set == W!Value(W!Field(word, 5 + Log2(l1_sets), 6))
        way == W!Value(W!Field(word, 31, 32 - Log2(l1_ways)))
    IN IF W!Field(word, 3, 1) = {} THEN Put(cache, set, way, Invalid) ELSE cache

flush_l1_dcache(cache, set, way) == CleanInvalidate(cache, flush_l1_word(set, way))

(* What the flush of the level 2 cache does to the level 1 cache.          *)
flush_l2_dcache(cache, set, way) ==
    CleanInvalidate(cache, IF Architecture = "arm64" THEN flush_l2_word64(set, way)
                                                     ELSE flush_l2_word32(set, way))
=============================================================================
