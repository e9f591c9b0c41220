--------------------------- MODULE MCInstrumentation ---------------------------
(***************************************************************************)
(* Programs of two functions, the first one of up to three blocks.         *)
(***************************************************************************)
EXTENDS Instrumentation

(* What an expression becomes: a load of a variable that the rewriter      *)
(* takes or one of a byte, a store, a lookup whose index comes back from   *)
(* the stack after the marker's call, other loads.  A function may use     *)
(* both variables.                                                         *)
Use(op, var, form) == [op |-> op, var |-> var, form |-> form]
Expressions(var) ==
    {<<Use("access", var, form)>> : form \in {"ldr32", "ldrb"}}
       \cup {<<Use("gep", var, "none"), Insn("ldr_sp", "ldr32"), Use("load", var, form)>> :
                form \in {"ldr32", "ldr"}}
       \cup {<<Use("store", v, "none")>> : v \in Variables}
       \cup {<<Insn("ldr", form)>> : form \in {"ldr32", "ldr"}}
       \cup {<<Insn("ldr_sp", "ldr32")>>}

Bodies(var, n) == {FlattenSeq(e) : e \in BoundedSeq(Expressions(var), n)}
Ending(body, op) == Append(body, Insn(op, "none"))

(* The layout clang gives unoptimised functions: one return, at the end.   *)
OneBlock(var, n) == {<<Ending(body, "ret")>> : body \in Bodies(var, n)}
Blocked(var) ==
    {[b \in DOMAIN bodies |-> Ending(bodies[b], IF b = Len(bodies) THEN "ret" ELSE "br")] :
        bodies \in BoundedSeq(Bodies(var, 1), 3) \ {<<>>}}

ClangPrograms ==
    {<<f, g>> : f \in OneBlock("v1", 2) \cup Blocked("v1"), g \in OneBlock("v2", 1)}
=============================================================================
