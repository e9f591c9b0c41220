---------------------------- MODULE CacheGeometry ----------------------------
(***************************************************************************)
(* How the kernel module turns a physical address into the number of the  *)
(* L1 and of the L2 cache set that holds it (arm64/cache.h).  The set      *)
(* numbers index the tables sdata_l1_arr and sdata_l2_arr.                 *)
(***************************************************************************)
EXTENDS Integers

CONSTANTS CACHE_LINE_SIZE,   \* bytes of a cache line (64 in header.h)
          l1_sets, l2_sets,  \* sets of the two caches, read from CCSIDR
          SDATA_LINES        \* length of a row of sdata_l*_arr (2048)

(* 1 << idx_bits for the values 1 .. 17 that the loop in                   *)
(* _get_set_idx_from_addr tries.                                           *)
Powers == {2, 4, 8, 16, 32, 64, 128, 256, 512, 1024, 2048, 4096, 8192,
           16384, 32768, 65536, 131072}

(* The number of set indices the shifts can produce: the loop leaves       *)
(* idx_bits at 18 when `sets' is none of the powers it tries.              *)
IndexRange(sets) == IF sets \in Powers THEN sets ELSE 262144

(* _get_set_idx_from_addr: drop the offset in the line, keep idx_bits.     *)
SetIdx(addr, sets) == (addr \div CACHE_LINE_SIZE) % IndexRange(sets)

L1SetIdx(addr) == SetIdx(addr, l1_sets)
L2SetIdx(addr) == SetIdx(addr, l2_sets)

(* addr & CACHE_LINE_MASK.                                                 *)
LineOf(addr) == (addr \div CACHE_LINE_SIZE) * CACHE_LINE_SIZE

(* The lines of the half-open range the loops over `va' visit; `sva' is    *)
(* already a multiple of the line size.                                    *)
Lines(sva, eva) == {va \in sva .. (eva - 1) : (va % CACHE_LINE_SIZE) = 0}

ASSUME GeometryAssumption ==
    /\ CACHE_LINE_SIZE \in Nat \ {0}
    /\ l1_sets \in Powers /\ l2_sets \in Powers
    /\ l1_sets <= l2_sets
    /\ SDATA_LINES \in Nat /\ l2_sets <= SDATA_LINES
=============================================================================
