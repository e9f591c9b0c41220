------------------------------- MODULE InsnWord -------------------------------
(***************************************************************************)
(* 32-bit instruction words as the sets of their one bits, with the C      *)
(* operators the codecs use.  A set of bits is also how a register is      *)
(* named: by the field that encodes it.                                    *)
(***************************************************************************)
EXTENDS Integers, FiniteSetsExt

Bits == 0 .. 31
Word == SUBSET Bits

Shl(w, n) == {b + n : b \in w} \cap Bits                \* w << n
Shr(w, n) == {b - n : b \in w} \cap Bits                \* w >> n
Or(v, w) == v \cup w                                    \* v | w
And(v, w) == v \cap w                                   \* v & w

(* The architecture's name for the bits hi .. lo of a word.                *)
Field(w, hi, lo) == {b - lo : b \in w \cap (lo .. hi)}

(* The number a field stands for.                                          *)
Value(field) == MapThenSumSet(LAMBDA b : 2 ^ b, field)

(* a word with nothing set: no instruction                                 *)
Zero == {}
=============================================================================
