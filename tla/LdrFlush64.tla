------------------------------ MODULE LdrFlush64 ------------------------------
(***************************************************************************)
(* LDRFLUSH on ARMv8 (arm64/insn.c): which loads are rewritten, how, and   *)
(* what the undef-instruction hook does to the registers of the program    *)
(* when the rewritten word traps.  The cache half of the dispatchers is in *)
(* SmokeBombLkm.                                                           *)
(***************************************************************************)
EXTENDS Armv8Load

-----------------------------------------------------------------------------
(* Decoding of a smoke-bomb instruction.                                   *)

sb_get_sb_op(code) == Shr(Shl(code, 6), 30)
sb_get_rm(code) == Shr(Shl(code, 11), 27)
sb_get_rn(code) == Shr(Shl(code, 22), 27)
sb_get_rt(code) == Shr(Shl(code, 27), 27)

(* Mutant: the immediate taken with the width of a register field.         *)
sb_get_imm_narrow(code) == Shr(Shl(code, 17), 27)
sb_get_imm(code) == Shr(Shl(code, 11), 21)

SB_INSN_DUMMY_1 == {0}
SB_INSN_DUMMY_2 == {0, 1, 2}
SB_INSN_OP_LDR32_REG == {}
SB_INSN_OP_LDR32_IMM == {0}

SbInsn(sb_op, operands) ==
    Or(Or(Or(Shl(SB_INSN_DUMMY_1, 26), Shl(SB_INSN_DUMMY_2, 21)), Shl(sb_op, 24)),
       operands)

(* The words smoke_bomb_ex_hook asks for: mask fce00000, value 04e00000.   *)
HookMatches(word) == And(word, 26 .. 31 \cup 21 .. 23) = {21, 22, 23, 26}

-----------------------------------------------------------------------------
(* ldr Wt, [Xn, Rm, <extend> <amount>]                                     *)

(* mask FFE00C00, value B8600800 *)
is_insn_ldr32_reg(code) ==
    And(code, 21 .. 31 \cup {10, 11}) = {11, 21, 22, 27, 28, 29, 31}

convert_ldr32_reg(code, sb_op) ==
    LET rm == Shr(Shl(code, 11), 27)
        rn == Shr(Shl(code, 22), 27)
        rt == Shr(Shl(code, 27), 27)
        option == Shr(Shl(code, 16), 29)
        S == Shr(Shl(code, 19), 31)
    IN SbInsn(sb_op, UNION {Shl(rm, 16), Shl(rn, 5), rt, Shl(option, 13), Shl(S, 12)})

(* Mutant: the index keeps the upper half of its register.                 *)
ptr_ldr32_reg_wide(sb_code) ==
    Addr(regs[sb_get_rn(sb_code)] + 4 * regs[sb_get_rm(sb_code)])

(* ptr += idx: a pointer to 4-byte words and an unsigned int index.        *)
ptr_ldr32_reg(sb_code) ==
    LET idx == regs[sb_get_rm(sb_code)] % (2 ^ WBits)
    IN Addr(regs[sb_get_rn(sb_code)] + 4 * idx)

-----------------------------------------------------------------------------
(* ldr Wt, [Xn, #imm]                                                      *)

(* mask FFF00000, value B9400000 *)
is_insn_ldr32_imm(code) == And(code, 20 .. 31) = {22, 24, 27, 28, 29, 31}

convert_ldr32_imm(code, sb_op) ==
    LET rn == Shr(Shl(code, 22), 27)
        rt == Shr(Shl(code, 27), 27)
        imm == Shr(Shl(code, 11), 21)
    IN SbInsn(sb_op, UNION {Shl(imm, 10), Shl(rn, 5), rt})

ptr_ldr32_imm(sb_code) ==
    Addr(regs[sb_get_rn(sb_code)] + 4 * Value(sb_get_imm(sb_code)))

-----------------------------------------------------------------------------
(* The word put in place of an instruction; Zero when none is.             *)
convert_insn_to_sb_insn(code) ==
    CASE is_insn_ldr32_reg(code) -> convert_ldr32_reg(code, SB_INSN_OP_LDR32_REG)
      [] ~is_insn_ldr32_reg(code) /\ is_insn_ldr32_imm(code)
            -> convert_ldr32_imm(code, SB_INSN_OP_LDR32_IMM)
      [] OTHER -> Zero

Patched(code) == convert_insn_to_sb_insn(code) # Zero

(* regs->regs[rt] = *ptr: perform original LDR instruction.                *)
Dispatch(sb_code, ptr) == /\ regs' = [regs EXCEPT ![sb_get_rt(sb_code)] = Memory[ptr]]
                          /\ last' = ptr

dispatch_ldr32_reg(sb_code) == Dispatch(sb_code, ptr_ldr32_reg(sb_code))
dispatch_ldr32_imm(sb_code) == Dispatch(sb_code, ptr_ldr32_imm(sb_code))

(* The rewritten word traps: handlers[sb_op], then pc moves on.            *)
smoke_bomb_ex_handler ==
    LET instr == convert_insn_to_sb_insn(insn)
    IN /\ Patched(insn) /\ HookMatches(instr)
       /\ \/ /\ sb_get_sb_op(instr) = SB_INSN_OP_LDR32_REG
             /\ dispatch_ldr32_reg(instr)
          \/ /\ sb_get_sb_op(instr) = SB_INSN_OP_LDR32_IMM
             /\ dispatch_ldr32_imm(instr)
       /\ Advance

(* An instruction the rewriter leaves alone runs as before.                *)
Unpatched == ~Patched(insn) /\ Native

Next == smoke_bomb_ex_handler \/ Unpatched

Spec == Init /\ [][Next]_vars

-----------------------------------------------------------------------------
(* Properties.                                                             *)

(* A word the converter produces is one the hook asks for, names the       *)
(* dispatcher of the form it came from, and decodes to the registers and   *)
(* the immediate of the load; the index's extension and S have no decoder. *)
(* The load itself is not a word the hook asks for (insn.c:46-73, 84-233,  *)
(* 511-542; patch.c:261-267).                                              *)
RewrittenDecodes ==
    LET sb_code == convert_insn_to_sb_insn(insn)
    IN Patched(insn) =>
         /\ HookMatches(sb_code) /\ ~HookMatches(insn)
         /\ sb_get_rn(sb_code) = Field(insn, 9, 5)
         /\ sb_get_rt(sb_code) = Field(insn, 4, 0)
         /\ is_insn_ldr32_reg(insn) => /\ sb_get_sb_op(sb_code) = SB_INSN_OP_LDR32_REG
                                       /\ sb_get_rm(sb_code) = Field(insn, 20, 16)
         /\ is_insn_ldr32_imm(insn) => /\ sb_get_sb_op(sb_code) = SB_INSN_OP_LDR32_IMM
                                       /\ sb_get_imm(sb_code) = Field(insn, 21, 10)
=============================================================================
