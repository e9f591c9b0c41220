---------------------------- MODULE MCLdrAddressing ----------------------------
(***************************************************************************)
(* An ARMv8 and an ARMv7 machine side by side, each in its own copy of the *)
(* variables, running loads whose checkers accept an addressing mode the   *)
(* dispatchers do not compute.                                             *)
(***************************************************************************)
EXTENDS MCLdrFlush

VARIABLES insn32, regs32, pc32, last32

vars32 == <<insn32, regs32, pc32, last32>>

V7 == INSTANCE LdrFlush32
         WITH XBits <- RBits, Program <- Program32, RegFiles <- RegFiles32,
              insn <- insn32, regs <- regs32, pc <- pc32, last <- last32

(* An unscaled, a 64-bit or a sign-extended index; an offset of 1024.      *)
Unscaled64 ==
    {LdrReg64({0}, option, S, {}, {}) : option \in {{1}, {0, 1}, {1, 2}}, S \in {{}, {0}}}
        \ {LdrReg64({0}, {1}, {0}, {}, {})}
Offset1024 == {LdrImm32({}, {0}, {10})}

BothSpec == /\ arch = "both" /\ L64!Init /\ V7!Init
            /\ [][L64!Next /\ V7!Next /\ UNCHANGED arch]_<<vars, vars32>>

(* At any moment one of the two machines performs the load that was        *)
(* rewritten: "perform original LDR instruction" (arm64/insn.c:144,        *)
(* arm/insn.c:145).                                                        *)
OneEmulatesNative == [][L64!Native \/ V7!Native]_<<vars, vars32>>
=============================================================================
