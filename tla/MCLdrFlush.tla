------------------------------ MODULE MCLdrFlush ------------------------------
(***************************************************************************)
(* Small instances of LdrFlush64 and LdrFlush32: registers of 8 (W: 4)     *)
(* bits, three or four registers, two loads in a row.                      *)
(***************************************************************************)
EXTENDS LdrFlush, TLC

SmallMemory == [a \in 0 .. 255 |-> (7 * (a \div 4) + a + 3) % 16]

(* Registers by the field that names them: 0, 1, 16 and 31 (sp).           *)
TwoRegFiles64 == {({} :> 200 @@ {0} :> 29 @@ {4} :> 130 @@ 0 .. 4 :> 64),
                  ({} :> 3 @@ {0} :> 255 @@ {4} :> 16 @@ 0 .. 4 :> 252)}
TwoRegFiles32 == {({} :> 200 @@ {0} :> 29 @@ 1 .. 3 :> 64),
                  ({} :> 3 @@ {0} :> 255 @@ 1 .. 3 :> 252)}

-----------------------------------------------------------------------------
(* Words of the two architectures.                                         *)

LdrReg64(rm, option, S, rn, rt) ==
    UNION {{11, 21, 22, 27, 28, 29, 31},
           Shl(rm, 16), Shl(option, 13), Shl(S, 12), Shl(rn, 5), rt}
LdrImm64(imm, rn, rt) ==
    UNION {{22, 24, 27, 28, 29, 31}, Shl(imm, 10), Shl(rn, 5), rt}
LdrReg32(rn, rt, imm5, type, rm) ==
    UNION {{20, 23, 24, 25, 26, 29, 30, 31},
           Shl(rn, 16), Shl(rt, 12), Shl(imm5, 7), Shl(type, 5), rm}
LdrImm32(rn, rt, imm12) ==
    UNION {{20, 23, 24, 26, 29, 30, 31}, Shl(rn, 16), Shl(rt, 12), imm12}

(* ldr wt, [xn, wm, uxtw #2] and ldr wt, [xn, #imm], the last offset too   *)
(* large to be rewritten; ldr rt, [rn, rm, lsl #imm5] and ldr rt, [rn],    *)
(* ldr rt, [rn, #4], which is not rewritten.                               *)
Lookups64 ==
    {LdrReg64(rm, {1}, {0}, rn, rt) :
        rm \in {{}, {0}, {4}}, rn \in {{}, 0 .. 4}, rt \in {{}, {0}}}
    \cup {LdrImm64(imm, rn, rt) :
        imm \in {{}, {0, 2}, {9}, {10}}, rn \in {{0}, 0 .. 4}, rt \in {{}, {0}}}
Lookups32 ==
    {LdrReg32(rn, rt, imm5, {}, rm) :
        rn \in {{}, 1 .. 3}, rt \in {{}, {0}}, imm5 \in {{}, {1}, {0, 2}}, rm \in {{}, {0}}}
    \cup {LdrImm32(rn, rt, imm12) : rn \in {{}, {0}}, rt \in {{}, {0}}, imm12 \in {{}, {2}}}

(* The hypothesis of the theorem about them.                               *)
ASSUME LookupsAsDispatched ==
    /\ \A word \in Lookups64 : AsDispatched64(word)
    /\ \A word \in Lookups32 : AsDispatched32(word)
=============================================================================
