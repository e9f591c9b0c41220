------------------------------- MODULE Rewriter -------------------------------
(***************************************************************************)
(* The static rewriter (llvm-based/script/rewriter.py): its own copy of    *)
(* the ARMv8 converters, which must produce words the kernel decodes.      *)
(***************************************************************************)
EXTENDS InsnWord

sb_insn_dummy1 == {0}
sb_insn_dummy2 == {0, 1, 2}
sb_insn_op_ldr32_reg == {}
sb_insn_op_ldr32_imm == {0}

Prefix(op) == UNION {Shl(sb_insn_dummy1, 26), Shl(sb_insn_dummy2, 21), Shl(op, 24)}

(* The register form is rewritten only when the top bit of Rm is zero:     *)
(* mask FFF00C00.                                                          *)
is_ldr32_reg(insn) ==
    And(insn, 20 .. 31 \cup {10, 11}) = {11, 21, 22, 27, 28, 29, 31}

(* Mutant: offsets of any size.                                            *)
is_ldr32_any_imm(insn) == And(insn, 22 .. 31) = {22, 24, 27, 28, 29, 31}
is_ldr32_imm(insn) == And(insn, 20 .. 31) = {22, 24, 27, 28, 29, 31}

convert_ldr32_reg(insn) ==
    LET rm == Shr(And(insn, 16 .. 20), 16)
        rn == Shr(And(insn, 5 .. 9), 5)
        rt == And(insn, 0 .. 4)
        option == Shr(And(insn, 13 .. 15), 13)
        S == Shr(And(insn, {12}), 12)
    IN UNION {Prefix(sb_insn_op_ldr32_reg),
              Shl(rm, 16), Shl(rn, 5), rt, Shl(option, 13), Shl(S, 12)}

convert_ldr32_imm(insn) ==
    LET rn == Shr(And(insn, 5 .. 9), 5)
        rt == And(insn, 0 .. 4)
        imm == Shr(And(insn, 10 .. 20), 10)
    IN UNION {Prefix(sb_insn_op_ldr32_imm), Shl(imm, 10), Shl(rn, 5), rt}

(* preche of patch(): the word written to the file, Zero to leave it.      *)
Preche(insn) ==
    IF is_ldr32_reg(insn) THEN convert_ldr32_reg(insn)
    ELSE IF is_ldr32_imm(insn) THEN convert_ldr32_imm(insn) ELSE Zero
=============================================================================
