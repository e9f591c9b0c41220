------------------------------ MODULE Armv8Load ------------------------------
(***************************************************************************)
(* What a processor does with the two loads the module rewrites, as the   *)
(* ARMv8 architecture defines them: the program as its author wrote it.    *)
(* Slot 31 of `regs' is the stack pointer, as in struct pt_regs.           *)
(***************************************************************************)
EXTENDS InsnWord

CONSTANTS XBits, WBits, \* widths of an X and of a W register (64 and 32)
          Memory,       \* the word at each address
          Program,      \* instruction words the program may execute
          RegFiles,     \* register contents it may start with
          LastPc        \* bound on pc

VARIABLES insn, \* the instruction at pc, before rewriting
          regs, pc,
          last  \* address of the last load

vars == <<insn, regs, pc, last>>

R31 == 0 .. 4
Addr(a) == a % (2 ^ XBits)

Init == /\ insn \in Program
        /\ regs \in RegFiles
        /\ pc = 0 /\ last = 0

Advance == /\ pc < LastPc
           /\ pc' = pc + 4
           /\ insn' \in Program

-----------------------------------------------------------------------------
IsLdrReg(word) ==
    And(word, 21 .. 31 \cup {10, 11}) = {11, 21, 22, 27, 28, 29, 31}
IsLdrImm(word) == And(word, 22 .. 31) = {22, 24, 27, 28, 29, 31}

(* The extended index: UXTW, LSL, SXTW, SXTX by the option field.          *)
Extend(option, v) ==
    LET w == v % (2 ^ WBits)
    IN CASE option = {1} -> w
         [] option = {1, 2} /\ w >= 2 ^ (WBits - 1) -> Addr(w - 2 ^ WBits)
         [] option = {1, 2} /\ w < 2 ^ (WBits - 1) -> w
         [] OTHER -> v

IndexReg(rm) == IF rm = R31 THEN 0 ELSE regs[rm]

Target(word) ==
    IF IsLdrReg(word)
    THEN LET amount == IF Field(word, 12, 12) = {} THEN 1 ELSE 4
         IN Addr(regs[Field(word, 9, 5)]
                 + amount * Extend(Field(word, 15, 13), IndexReg(Field(word, 20, 16))))
    ELSE Addr(regs[Field(word, 9, 5)] + 4 * Value(Field(word, 21, 10)))

(* A load to register 31 discards the word.                                *)
Load(word) ==
    LET rt == Field(word, 4, 0)
    IN /\ last' = Target(word)
       /\ regs' = IF rt = R31 THEN regs ELSE [regs EXCEPT ![rt] = Memory[Target(word)]]

Native == Load(insn) /\ Advance

NativeSpec == Init /\ [][Native]_vars
=============================================================================
