------------------------------ MODULE MCPatchUser ------------------------------
(* A small instance of PatchUser: two pages of two words, overlapping      *)
(* ranges, two threads.                                                    *)
EXTENDS PatchUser, TLC

TwoPatchers == {"a", "b"}
InOrder == 0 :> 0 @@ 1 :> 1
OverlappingRanges == {[sva |-> 0, eva |-> 1], [sva |-> 1, eva |-> 2]}
=============================================================================
