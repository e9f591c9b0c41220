------------------------------ MODULE Armv7Load ------------------------------
(***************************************************************************)
(* The two loads the module rewrites as the ARMv7 architecture defines    *)
(* them.  Register 15 is the program counter: as an operand it reads 8     *)
(* past the instruction, as a target it branches.                          *)
(***************************************************************************)
EXTENDS InsnWord

CONSTANTS XBits,   \* width of a register (32)
          Memory, Program, RegFiles,
          LastPc   \* bound on pc

VARIABLES insn, \* the instruction at pc, before rewriting
          regs, \* registers 0 .. 14
          pc,
          last  \* address of the last load

vars == <<insn, regs, pc, last>>

R15 == 0 .. 3
Addr(a) == a % (2 ^ XBits)

Init == /\ insn \in Program
        /\ regs \in RegFiles
        /\ pc = 0 /\ last = 0

Continue == /\ pc < LastPc
            /\ insn' \in Program

-----------------------------------------------------------------------------
IsLdrReg(word) == /\ And(word, 20 .. 31) = {20, 23, 24, 25, 26, 29, 30, 31}
                  /\ 4 \notin word
IsLdrImm(word) == And(word, 20 .. 31) = {20, 23, 24, 26, 29, 30, 31}

Operand(r) == IF r = R15 THEN Addr(pc + 8) ELSE regs[r]

(* The index shifted left (type 00) or right (01) by imm5; the other two   *)
(* types, which compilers do not use for table lookups, are left out.      *)
Shifted(word) ==
    LET v == Operand(Field(word, 3, 0))
        n == Value(Field(word, 11, 7))
    IN IF Field(word, 6, 5) = {} THEN v * 2 ^ n
       ELSE v \div 2 ^ (IF n = 0 THEN 32 ELSE n)

Target(word) ==
    Addr(Operand(Field(word, 19, 16))
         + (IF IsLdrReg(word) THEN Shifted(word) ELSE Value(Field(word, 11, 0))))

Native ==
    LET rt == Field(insn, 15, 12)
        val == Memory[Target(insn)]
    IN /\ last' = Target(insn)
       /\ IF rt = R15 THEN regs' = regs /\ pc' = val
                      ELSE regs' = [regs EXCEPT ![rt] = val] /\ pc' = pc + 4
       /\ Continue

NativeSpec == Init /\ [][Native]_vars
=============================================================================
