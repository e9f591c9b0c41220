-------------------------------- MODULE LdrFlush --------------------------------
(***************************************************************************)
(* A program whose loads have been rewritten, on a machine of either       *)
(* architecture, which is chosen for good in the initial state.            *)
(***************************************************************************)
EXTENDS InsnWord

CONSTANTS XBits, WBits,           \* widths of the ARMv8 registers
          RBits,                  \* width of an ARMv7 register
          Memory,
          Program64, Program32,   \* what the program of either machine may hold
          RegFiles64, RegFiles32, \* registers by the field that names them
          LastPc                  \* bound on pc

VARIABLES arch, insn, regs, pc, last

vars == <<arch, insn, regs, pc, last>>

L64 == INSTANCE LdrFlush64 WITH Program <- Program64, RegFiles <- RegFiles64
L32 == INSTANCE LdrFlush32 WITH Program <- Program32, RegFiles <- RegFiles32, XBits <- RBits
R == INSTANCE Rewriter

ASSUME LdrFlushAssumption == Program64 \subseteq Word /\ Program32 \subseteq Word

Next64 == arch = "arm64" /\ L64!Next /\ UNCHANGED arch
Next32 == arch = "arm" /\ L32!Next /\ UNCHANGED arch

Spec == /\ \/ arch = "arm64" /\ L64!Init
           \/ arch = "arm" /\ L32!Init
        /\ [][Next64 \/ Next32]_vars

-----------------------------------------------------------------------------
(* Properties.                                                             *)

(* A program whose rewritten loads trap sees the registers and the loads   *)
(* of the program as written: "perform original LDR instruction"           *)
(* (arm64/insn.c:144, arm/insn.c:145).                                     *)
EmulatesNative ==
    [][IF arch = "arm64" THEN L64!Native ELSE L32!Native]_<<insn, regs, pc, last>>

(* What the kernel decodes from a rewritten word are the registers of the  *)
(* load it stands for and its immediate (ARMv8) or shift amount (ARMv7).   *)
(* An ARMv7 immediate comes back only when it is 0. The extension of an    *)
(* ARMv8 index and the type of an ARMv7 shift are not decoded at all.      *)
RewrittenDecodes ==
    IF arch = "arm64" THEN L64!RewrittenDecodes ELSE L32!RewrittenDecodes

(* The rewriter writes the word the kernel's own converter would, or       *)
(* leaves the load alone (rewriter.py:82-121, arm64/insn.c:86-233).        *)
RewriterAgrees ==
    arch = "arm64" => R!Preche(insn) \in {Zero, L64!convert_insn_to_sb_insn(insn)}

(* The addressing the dispatchers perform: an unsigned 32-bit index times  *)
(* four, a left shift, an immediate that ARMv7 converts only when it is 0; *)
(* neither wzr nor pc as an operand.                                       *)
AsDispatched64(word) ==
    /\ Field(word, 4, 0) # L64!R31
    /\ L64!IsLdrReg(word) => /\ Field(word, 15, 13) = {1} /\ Field(word, 12, 12) = {0}
                             /\ Field(word, 20, 16) # L64!R31
AsDispatched32(word) ==
    /\ Field(word, 19, 16) # L32!R15 /\ Field(word, 15, 12) # L32!R15
    /\ L32!is_insn_ldr_reg(word) => /\ Field(word, 3, 0) # L32!R15
                                    /\ Field(word, 6, 4) = {}
    /\ L32!is_insn_ldr_imm(word) => Field(word, 11, 0) = {}
=============================================================================
