---------------------------- MODULE Instrumentation ----------------------------
(***************************************************************************)
(* From a program to its protected binary: the LLVM pass that inserts the  *)
(* calls of the library (smokebomb-pass/smokeBomb/src/test.cpp), the scan  *)
(* of the disassembly that picks the loads to rewrite (rewriter.py), and   *)
(* the program running the result.                                         *)
(*                                                                         *)
(* A program is a sequence of functions, a function a sequence of blocks   *)
(* in layout order, a block a sequence of instructions that ends in "br"   *)
(* (to any block of the function) or "ret".  An annotated variable is      *)
(* loaded by "access", stored to by "store", or its address is computed by *)
(* "gep" and used by a later "load".  "ldr" and "ldr_sp" are other loads,  *)
(* the second one from the stack.  The form of a load is "ldr32" when the  *)
(* rewriter can encode it, "ldr" when the disassembler prints that         *)
(* mnemonic but no converter takes the word (64 bits, a register or an     *)
(* offset out of range), "ldrb" when it prints another mnemonic.           *)
(***************************************************************************)
EXTENDS Integers, Sequences, SequencesExt

CONSTANTS Variables,  \* annotated variables
          Programs,   \* programs to instrument
          Optimize    \* the values of the rewriter's second argument

VARIABLES text,       \* lines of the disassembly
          patched,    \* numbers of the lines the rewriter replaced
          optimize,
          at,         \* line that runs next, 0 in the caller
          section     \* the variable registered, NoVariable for none

vars == <<text, patched, optimize, at, section>>

NoVariable == "none"

-----------------------------------------------------------------------------
(* The layout clang gives unoptimised functions.                           *)

Loads == {"access", "load", "ldr", "ldr_sp"}
Forms == {"ldr32", "ldr", "ldrb", "none"}
Instruction ==
    [op : {"gep", "access", "store", "load"}, var : Variables, form : Forms]
        \cup [op : {"ldr", "ldr_sp", "br", "ret"}, var : {NoVariable}, form : Forms]

IsAnnotated(insn) == insn.op \in {"gep", "access", "store"}

(* Every block ends in its only branch, the last one in the only return.   *)
OneReturn(function) ==
    /\ function # <<>>
    /\ \A b \in DOMAIN function :
          /\ function[b] # <<>>
          /\ \A i \in DOMAIN function[b] :
                /\ function[b][i].op \in {"br", "ret"} <=> i = Len(function[b])
                /\ function[b][i].op = "ret" <=> i = Len(function[b]) /\ b = Len(function)

(* A function that loads through an address of a variable computes one.    *)
ComputesAddresses(function) ==
    \A b \in DOMAIN function : \A i \in DOMAIN function[b] :
        function[b][i].op = "load" =>
            \E c \in DOMAIN function : \E j \in DOMAIN function[c] : IsAnnotated(function[c][j])

ClangProgram(program) ==
    /\ program \in Seq(Seq(Seq(Instruction))) /\ program # <<>>
    /\ \A f \in DOMAIN program : OneReturn(program[f]) /\ ComputesAddresses(program[f])

ASSUME InstrumentationAssumption ==
    /\ NoVariable \notin Variables
    /\ \A program \in Programs : ClangProgram(program)

-----------------------------------------------------------------------------
(* smokeBombPass.                                                          *)

Insn(op, form) == [op |-> op, var |-> NoVariable, form |-> form]
CallOf(op, var) == [op |-> op, var |-> var, form |-> "none"]

HasAnnotated(block) == SelectInSeq(block, IsAnnotated) # 0

(* The number of the first annotated instruction, 0 when there is none.    *)
StartInsn(function) == SelectInSeq(FlattenSeq(function), IsAnnotated)

(* insertDummyCallInstBeforeInsn, at every annotated instruction.          *)
MarkBlock(block) ==
    FlattenSeq([i \in DOMAIN block |->
        IF IsAnnotated(block[i]) THEN <<Insn("dummy_init", "none"), block[i]>> ELSE <<block[i]>>])

(* SensitiveGV: the variable of the first annotated instruction.           *)
SensitiveGV(function) == FlattenSeq(function)[StartInsn(function)].var

(* Mutant: before the first annotated instruction, in its block.           *)
InsertInitNear(function, var) ==
    [function EXCEPT ![SelectInSeq(function, HasAnnotated)] =
        Cons(CallOf("init", var), @)]

(* insertCallInstBeforeInsn: at the front of the function.                 *)
InsertInit(function, var) ==
    [function EXCEPT ![1] = Cons(CallOf("init", var), @)]

(* Mutant: after the last annotated instruction, in its block.             *)
InsertExitNear(function, var) ==
    [function EXCEPT ![SelectLastInSeq(function, HasAnnotated)] =
        InsertAt(@, Len(@), CallOf("exit", var))]

(* insertCallInstAfterInsn: before the last instruction of the last block. *)
InsertExit(function, var) ==
    [function EXCEPT ![Len(function)] = InsertAt(@, Len(@), CallOf("exit", var))]

(* iterateOnFunction.                                                      *)
Instrument(function) ==
    LET marked == [b \in DOMAIN function |-> MarkBlock(function[b])]
        var == SensitiveGV(function)
    IN IF StartInsn(function) = 0 THEN function
       ELSE InsertExit(InsertInit(marked, var), var)

-----------------------------------------------------------------------------
(* The binary: the functions, then the library that is linked in           *)
(* statically.  A branch inside smoke_bomb_init or smoke_bomb_exit is      *)
(* printed with the name of the function as a label.                       *)

Line(insn, f, b) == [insn |-> insn, function |-> f, block |-> b]

Lines(function, f) ==
    FlattenSeq([b \in DOMAIN function |->
        [i \in DOMAIN function[b] |-> Line(function[b][i], f, b)]])

Library == [i \in 1 .. 6 |->
    Line(Insn(<<"ldr", "init_label", "ldr", "ldr", "exit_label", "ldr">>[i], "ldr32"), 0, 0)]

Disassembly(program) ==
    FlattenSeq([f \in DOMAIN program |-> Lines(Instrument(program[f]), f)]) \o Library

-----------------------------------------------------------------------------
(* parse_objdump: one pass over the lines with two flags; patch() then     *)
(* replaces the words of patch_list that one of its converters takes.      *)

NamesInit(line) == line.insn.op \in {"init", "init_label"}
NamesExit(line) == line.insn.op \in {"exit", "exit_label"}
IsLdr(line) == line.insn.op \in Loads /\ line.insn.form \in {"ldr32", "ldr"}
Converts(line) == line.insn.form = "ldr32"

ScanStart == [smoke_bomb_ctx |-> 0, hit_ctx |-> 0, patch_list |-> {}]

(* Mutant: a load from the stack ends the search for the hit.              *)
ScanLdrAny(s, line, i, opt) ==
    IF s.hit_ctx = 1
    THEN [s EXCEPT !.hit_ctx = 0,
                   !.patch_list = IF opt = 1 THEN @ ELSE @ \cup {i}]
    ELSE [s EXCEPT !.patch_list = @ \cup {i}]

(* An ldr inside a context: a load from the stack is always patched, the   *)
(* first other one after a marker is a hit, which -optimize leaves alone.  *)
ScanLdr(s, line, i, opt) ==
    IF line.insn.op # "ldr_sp" /\ s.hit_ctx = 1
    THEN [s EXCEPT !.hit_ctx = 0,
                   !.patch_list = IF opt = 1 THEN @ ELSE @ \cup {i}]
    ELSE [s EXCEPT !.patch_list = @ \cup {i}]

(* Mutant: a context lasts to the end of the file.                         *)
ScanLineOpen(s, line, i, opt) ==
    CASE s.smoke_bomb_ctx = 0 /\ NamesInit(line) -> [s EXCEPT !.smoke_bomb_ctx = 1]
      [] s.smoke_bomb_ctx = 1 /\ line.insn.op = "dummy_init" -> [s EXCEPT !.hit_ctx = 1]
      [] s.smoke_bomb_ctx = 1 /\ IsLdr(line) -> ScanLdr(s, line, i, opt)
      [] OTHER -> s

ScanLine(s, line, i, opt) ==
    CASE s.smoke_bomb_ctx = 1 /\ NamesExit(line) -> [s EXCEPT !.smoke_bomb_ctx = 0]
      [] s.smoke_bomb_ctx = 0 /\ NamesInit(line) -> [s EXCEPT !.smoke_bomb_ctx = 1]
      [] s.smoke_bomb_ctx = 1 /\ line.insn.op = "dummy_init" -> [s EXCEPT !.hit_ctx = 1]
      [] s.smoke_bomb_ctx = 1 /\ IsLdr(line) -> ScanLdr(s, line, i, opt)
      [] OTHER -> s

(* The flags and the list after each line.                                 *)
Scan(lines, opt) ==
    LET scan[i \in 0 .. Len(lines)] ==
            IF i = 0 THEN ScanStart ELSE ScanLine(scan[i - 1], lines[i], i, opt)
    IN scan

PatchList(lines, opt) == Scan(lines, opt)[Len(lines)].patch_list

(* patch: a word that no converter takes stays as it is.                   *)
Patched(lines, opt) == {n \in PatchList(lines, opt) : Converts(lines[n])}

-----------------------------------------------------------------------------
(* The program runs.                                                       *)

Init == /\ optimize \in Optimize
        /\ \E program \in Programs : text = Disassembly(program)
        /\ patched = Patched(text, optimize)
        /\ at = 0
        /\ section = NoVariable

BlockStart(lines, f, b) ==
    SelectInSeq(lines, LAMBDA line : line.function = f /\ line.block = b)

Functions == {text[i].function : i \in DOMAIN text} \ {0}
Blocks(f) == {text[i].block : i \in {j \in DOMAIN text : text[j].function = f}}

Op == text[at].insn.op

Call(f) == /\ at = 0
           /\ at' = BlockStart(text, f, 1)
           /\ UNCHANGED <<text, patched, optimize, section>>

(* A registered variable makes INIT fail; the library ignores that.        *)
CallSmokeBombInit ==
    /\ at # 0 /\ Op = "init"
    /\ section' = IF section = NoVariable THEN text[at].insn.var ELSE section
    /\ at' = at + 1
    /\ UNCHANGED <<text, patched, optimize>>

CallSmokeBombExit ==
    /\ at # 0 /\ Op = "exit"
    /\ section' = NoVariable
    /\ at' = at + 1
    /\ UNCHANGED <<text, patched, optimize>>

Execute == /\ at # 0 /\ Op \notin {"init", "exit", "br", "ret"}
           /\ at' = at + 1
           /\ UNCHANGED <<text, patched, optimize, section>>

Branch == /\ at # 0 /\ Op = "br"
          /\ \E b \in Blocks(text[at].function) : at' = BlockStart(text, text[at].function, b)
          /\ UNCHANGED <<text, patched, optimize, section>>

Ret == /\ at # 0 /\ Op = "ret"
       /\ at' = 0
       /\ UNCHANGED <<text, patched, optimize, section>>

Next == \/ \E f \in Functions : Call(f)
        \/ CallSmokeBombInit \/ CallSmokeBombExit \/ Execute \/ Branch \/ Ret

Spec == Init /\ [][Next]_vars

-----------------------------------------------------------------------------
(* Properties.                                                             *)

(* The first use of an annotated variable in the text of its function.     *)
FirstUse(n) ==
    /\ IsAnnotated(text[n].insn)
    /\ \A m \in 1 .. n - 1 :
          text[m].function = text[n].function => ~IsAnnotated(text[m].insn)

(* Whenever an instruction uses an annotated variable, the variable that   *)
(* its function uses first is registered, on every path (test.cpp:100-124, *)
(* 270-273, 388-396).  A second variable of the function is not.           *)
AccessInSection ==
    at # 0 /\ Op \in {"access", "load", "store"} =>
        \E n \in DOMAIN text : /\ text[n].function = text[at].function
                              /\ FirstUse(n)
                              /\ section = text[n].insn.var

(* A function that opened a section has closed it when it returns, by      *)
(* whatever path: "Insert at the end of Function for safety"               *)
(* (test.cpp:152).                                                         *)
SectionClosed == at = 0 => section = NoVariable

(* An ldr of a function that has a section, but not from the stack.        *)
Hit(n) ==
    /\ IsLdr(text[n]) /\ text[n].insn.op # "ldr_sp"
    /\ \E i \in DOMAIN text :
          text[i].function = text[n].function /\ text[i].insn.op = "init"

(* The first of them after a marker, maybe one of an earlier function.     *)
FollowsMarker(n) ==
    /\ Hit(n)
    /\ \E m \in 1 .. n - 1 :
          text[m].insn.op = "dummy_init" /\ \A k \in m + 1 .. n - 1 : ~Hit(k)

(* A load that runs inside a section and that a converter takes has been   *)
(* rewritten; the exception under -optimize is the first hit after each    *)
(* marker, whatever it loads (rewriter.py:35-78, 145-153).                 *)
SectionRewritten ==
    at # 0 /\ Op \in Loads /\ section # NoVariable /\ text[at].insn.form = "ldr32"
        => at \in patched \/ (optimize = 1 /\ FollowsMarker(at))

(* A load of the program that runs outside a section is the original one:  *)
(* the flags of the scan follow the text, the section follows the          *)
(* execution (rewriter.py:35-43).                                          *)
OutsideOriginal == at # 0 /\ section = NoVariable => at \notin patched
=============================================================================
