------------------------------ MODULE LdrFlush32 ------------------------------
(***************************************************************************)
(* LDRFLUSH on ARMv7 (arm/insn.c): which loads are rewritten, how, and     *)
(* what the undef-instruction hook does to the registers of the program.   *)
(* In struct pt_regs slot 15 of uregs is pc, the address of the trapped    *)
(* word.                                                                   *)
(***************************************************************************)
EXTENDS Armv7Load

sb_get_sb_op(code) == Shr(Shl(code, 8), 30)
sb_get_rm(code) == Shr(Shl(code, 28), 28)
sb_get_rn(code) == Shr(Shl(code, 12), 28)
sb_get_rt(code) == Shr(Shl(code, 16), 28)
sb_get_imm5(code) == Shr(Shl(code, 20), 27)

SB_INSN_DUMMY_1 == {0, 1, 2}
SB_INSN_DUMMY_2 == {1}
SB_INSN_DUMMY_3 == {0}
SB_INSN_OP_LDR_REG == {0}
SB_INSN_OP_LDR_IMM == {1}

sb_get_imm12(code) == Shr(Shl(code, 20), 27) \ Shl(SB_INSN_DUMMY_3, 4)

SbInsn(sb_op, operands) ==
    UNION {Shl(SB_INSN_DUMMY_1, 24), Shl(SB_INSN_DUMMY_2, 20), Shl(SB_INSN_DUMMY_3, 4),
           Shl(sb_op, 22), operands}

(* The words smoke_bomb_ex_hook asks for: mask ff300010, value 07200010.   *)
HookMatches(word) == And(word, 24 .. 31 \cup {4, 20, 21}) = {4, 21, 24, 25, 26}

-----------------------------------------------------------------------------
(* ldr Rt, [Rn, Rm, <shift>]: mask FFF00000, value E7900000                *)
is_insn_ldr_reg(code) == And(code, 20 .. 31) = {20, 23, 24, 25, 26, 29, 30, 31}

convert_ldr_reg(code, sb_op) ==
    LET rn == Shr(Shl(code, 12), 28)
        rt == Shr(Shl(code, 16), 28)
        rm == Shr(Shl(code, 28), 28)
        imm5 == Shr(Shl(code, 20), 27)
    IN SbInsn(sb_op, UNION {Shl(rn, 16), Shl(rt, 12), Shl(imm5, 7), rm})

uregs(r) == IF r = R15 THEN pc ELSE regs[r]

ptr_ldr_reg(sb_code) ==
    LET size == 2 ^ Value(sb_get_imm5(sb_code))
    IN Addr(uregs(sb_get_rn(sb_code)) + uregs(sb_get_rm(sb_code)) * size)

-----------------------------------------------------------------------------
(* ldr Rt, [Rn, #imm12]: mask FFF00000, value E5900000, an offset that is  *)
(* a multiple of 1024 and has bit 4 clear.                                 *)
is_insn_ldr_imm(code) ==
    LET imm12 == Shr(Shl(code, 20), 20)
    IN /\ And(code, 20 .. 31) = {20, 23, 24, 26, 29, 30, 31}
       /\ imm12 \cap 0 .. 9 = {}
       /\ And(imm12, Shl(SB_INSN_DUMMY_3, 4)) # Shl(SB_INSN_DUMMY_3, 4)

convert_ldr_imm(code, sb_op) ==
    LET rn == Shr(Shl(code, 12), 28)
        rt == Shr(Shl(code, 16), 28)
        imm12 == Shr(Shl(code, 20), 20)
    IN SbInsn(sb_op, UNION {Shl(rn, 16), Shl(rt, 12), imm12})

ptr_ldr_imm(sb_code) ==
    Addr(uregs(sb_get_rn(sb_code)) + Value(sb_get_imm12(sb_code)))

-----------------------------------------------------------------------------
convert_insn_to_sb_insn(code) ==
    IF is_insn_ldr_reg(code) THEN convert_ldr_reg(code, SB_INSN_OP_LDR_REG)
    ELSE IF is_insn_ldr_imm(code) THEN convert_ldr_imm(code, SB_INSN_OP_LDR_IMM)
    ELSE Zero

Patched(code) == convert_insn_to_sb_insn(code) # Zero

(* regs->uregs[rt] = *ptr, then ARM_pc (slot 15) += 4.                     *)
Dispatch(sb_code, ptr) ==
    LET rt == sb_get_rt(sb_code)
    IN /\ last' = ptr
       /\ IF rt = R15 THEN regs' = regs /\ pc' = Memory[ptr] + 4
                      ELSE regs' = [regs EXCEPT ![rt] = Memory[ptr]] /\ pc' = pc + 4

dispatch_ldr_reg(sb_code) == Dispatch(sb_code, ptr_ldr_reg(sb_code))
dispatch_ldr_imm(sb_code) == Dispatch(sb_code, ptr_ldr_imm(sb_code))

smoke_bomb_ex_handler ==
    LET instr == convert_insn_to_sb_insn(insn)
    IN /\ Patched(insn) /\ HookMatches(instr)
       /\ \/ sb_get_sb_op(instr) = SB_INSN_OP_LDR_REG /\ dispatch_ldr_reg(instr)
          \/ sb_get_sb_op(instr) = SB_INSN_OP_LDR_IMM /\ dispatch_ldr_imm(instr)
       /\ Continue

(* An instruction that is not rewritten runs as before.                    *)
Unpatched == ~Patched(insn) /\ Native

Next == smoke_bomb_ex_handler \/ Unpatched

Spec == Init /\ [][Next]_vars

-----------------------------------------------------------------------------
(* A word the converter produces is one the hook asks for, names the       *)
(* dispatcher of the form it came from, and decodes to the registers and   *)
(* the shift amount of the load; its immediate decodes to the load's just  *)
(* when that is 0 (1024 is decoded as 8). The type of the shift has no     *)
(* bits in the word. The load itself is not a word the hook asks for       *)
(* (arm/insn.c:50-77, 90-226, 419-450; arm/patch.c:233-239).               *)
RewrittenDecodes ==
    LET sb_code == convert_insn_to_sb_insn(insn)
    IN Patched(insn) =>
         /\ HookMatches(sb_code) /\ ~HookMatches(insn)
         /\ sb_get_rn(sb_code) = Field(insn, 19, 16)
         /\ sb_get_rt(sb_code) = Field(insn, 15, 12)
         /\ is_insn_ldr_reg(insn) => /\ sb_get_sb_op(sb_code) = SB_INSN_OP_LDR_REG
                                     /\ sb_get_rm(sb_code) = Field(insn, 3, 0)
                                     /\ sb_get_imm5(sb_code) = Field(insn, 11, 7)
         /\ is_insn_ldr_imm(insn) =>
              /\ sb_get_sb_op(sb_code) = SB_INSN_OP_LDR_IMM
              /\ sb_get_imm12(sb_code) = Field(insn, 11, 0) <=> Field(insn, 11, 0) = {}
=============================================================================
