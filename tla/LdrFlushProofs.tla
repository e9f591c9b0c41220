---------------------------- MODULE LdrFlushProofs ----------------------------
(***************************************************************************)
(* What the encoders and decoders do to any instruction word, and that a   *)
(* program whose loads have been rewritten behaves as the original, for    *)
(* registers of any width and any contents of memory.                      *)
(***************************************************************************)
EXTENDS LdrFlush, TLAPS

-----------------------------------------------------------------------------
(* Shifts and fields.                                                      *)

LEMMA InShl == ASSUME NEW w \in SUBSET Int, NEW n \in Nat, NEW b
               PROVE  b \in Shl(w, n) <=> b \in Bits /\ b - n \in w
BY DEF Shl, Bits

LEMMA InShr == ASSUME NEW w \in SUBSET Int, NEW n \in Nat, NEW b
               PROVE  b \in Shr(w, n) <=> b \in Bits /\ b + n \in w
BY DEF Shr, Bits

LEMMA InField == ASSUME NEW w \in SUBSET Int, NEW hi \in Int, NEW lo \in Int, NEW b
                 PROVE  b \in Field(w, hi, lo) <=> b \in 0 .. (hi - lo) /\ b + lo \in w
BY DEF Field

(* A left and a right shift of a 32-bit word extract a field.              *)
LEMMA ShiftsAreField ==
    ASSUME NEW w \in Word, NEW s \in Bits, NEW t \in Bits, s <= t
    PROVE  Shr(Shl(w, s), t) = Field(w, 31 - s, t - s)
<1>1. w \in SUBSET Int /\ Shl(w, s) \in SUBSET Int
  BY DEF Word, Bits, Shl
<1>2. ASSUME NEW b PROVE b \in Shr(Shl(w, s), t) <=> b \in Field(w, 31 - s, t - s)
  <2>1. s \in Nat /\ t \in Nat /\ 31 - s \in Int /\ t - s \in Int
    BY DEF Bits
  <2>2. b \in Shr(Shl(w, s), t) <=> b \in Bits /\ b + t \in Shl(w, s)
    BY <1>1, <2>1, InShr
  <2>3. b + t \in Shl(w, s) <=> b + t \in Bits /\ (b + t) - s \in w
    BY <1>1, <2>1, InShl
  <2>4. b \in Field(w, 31 - s, t - s) <=> b \in 0 .. ((31 - s) - (t - s)) /\ b + (t - s) \in w
    BY <1>1, <2>1, InField
  <2>5. b \in Bits => (b + t) - s = b + (t - s)
    BY DEF Bits
  <2>6. b \in Bits /\ b + t \in Bits <=> b \in 0 .. ((31 - s) - (t - s))
    BY DEF Bits
  <2> QED
    BY <2>2, <2>3, <2>4, <2>5, <2>6
<1> QED
  BY <1>2

(* The shift back puts a field where it was.                               *)
LEMMA FieldInPlace ==
    ASSUME NEW w \in Word, NEW hi \in Bits, NEW lo \in Bits
    PROVE  Shl(Field(w, hi, lo), lo) = w \cap (lo .. hi)
<1>1. w \in SUBSET Int /\ Field(w, hi, lo) \in SUBSET Int
  BY DEF Word, Bits, Field
<1>2. ASSUME NEW b PROVE b \in Shl(Field(w, hi, lo), lo) <=> b \in w \cap (lo .. hi)
  <2>1. lo \in Nat /\ lo \in Int /\ hi \in Int
    BY DEF Bits
  <2>2. b \in Shl(Field(w, hi, lo), lo) <=> b \in Bits /\ b - lo \in Field(w, hi, lo)
    BY <1>1, <2>1, InShl
  <2>3. b - lo \in Field(w, hi, lo) <=> b - lo \in 0 .. (hi - lo) /\ (b - lo) + lo \in w
    BY <1>1, <2>1, InField
  <2>4. b \in Bits => (b - lo) + lo = b /\ (b - lo \in 0 .. (hi - lo) <=> b \in lo .. hi)
    BY DEF Bits
  <2>5. b \in w => b \in Bits
    BY DEF Word
  <2> QED
    BY <2>2, <2>3, <2>4, <2>5
<1> QED
  BY <1>2

(* The python expression (insn & mask) >> lo extracts a field too.         *)
LEMMA MaskIsField ==
    ASSUME NEW w \in Word, NEW hi \in Bits, NEW lo \in Bits
    PROVE  Shr(And(w, lo .. hi), lo) = Field(w, hi, lo)
<1>1. w \in SUBSET Int /\ And(w, lo .. hi) \in SUBSET Int /\ lo \in Nat /\ lo \in Int /\ hi \in Int
  BY DEF Word, Bits, And
<1>2. ASSUME NEW b PROVE b \in Shr(And(w, lo .. hi), lo) <=> b \in Field(w, hi, lo)
  <2>1. b \in Shr(And(w, lo .. hi), lo) <=> b \in Bits /\ b + lo \in w /\ b + lo \in lo .. hi
    BY <1>1, InShr DEF And
  <2>2. b \in Field(w, hi, lo) <=> b \in 0 .. (hi - lo) /\ b + lo \in w
    BY <1>1, InField
  <2>3. b \in Bits /\ b + lo \in lo .. hi <=> b \in 0 .. (hi - lo)
    BY DEF Bits
  <2> QED
    BY <2>1, <2>2, <2>3
<1> QED
  BY <1>2

(* Words that agree on the bits of a field have the same field.            *)
LEMMA SameField ==
    ASSUME NEW v, NEW w, NEW hi \in Int, NEW lo \in Int, v \cap (lo .. hi) = w \cap (lo .. hi)
    PROVE  Field(v, hi, lo) = Field(w, hi, lo)
BY DEF Field

LEMMA LowField == ASSUME NEW w \in Word, NEW hi \in Bits
                  PROVE  Field(w, hi, 0) = w \cap (0 .. hi)
<1>1. w \in SUBSET Int /\ hi \in Int
  BY DEF Word, Bits
<1>2. ASSUME NEW b PROVE b \in Field(w, hi, 0) <=> b \in w \cap (0 .. hi)
  <2>1. b \in Field(w, hi, 0) <=> b \in 0 .. (hi - 0) /\ b + 0 \in w
    BY <1>1, InField
  <2>2. b \in 0 .. hi => b + 0 = b
    OBVIOUS
  <2> QED
    BY <1>1, <2>1, <2>2
<1> QED
  BY <1>2

-----------------------------------------------------------------------------
(* ARMv8.                                                                  *)

(* The operators of the instance are those of InsnWord.                    *)
LEMMA Words64 ==
    /\ \A w, n : L64!Shl(w, n) = Shl(w, n) /\ L64!Shr(w, n) = Shr(w, n)
    /\ \A v, w : L64!Or(v, w) = v \cup w /\ L64!And(v, w) = v \cap w
    /\ \A w, hi, lo : L64!Field(w, hi, lo) = Field(w, hi, lo)
BY DEF L64!Shl, L64!Shr, L64!Or, L64!And, L64!Field, L64!Bits, Shl, Shr, Field, Bits

LEMMA Decoders64 ==
    ASSUME NEW w \in Word
    PROVE  /\ L64!sb_get_sb_op(w) = Field(w, 25, 24)
           /\ L64!sb_get_rm(w) = Field(w, 20, 16)
           /\ L64!sb_get_rn(w) = Field(w, 9, 5)
           /\ L64!sb_get_rt(w) = Field(w, 4, 0)
           /\ L64!sb_get_imm(w) = Field(w, 20, 10)
<1>1. /\ Shr(Shl(w, 6), 30) = Field(w, 25, 24)
      /\ Shr(Shl(w, 11), 27) = Field(w, 20, 16)
      /\ Shr(Shl(w, 22), 27) = Field(w, 9, 5)
      /\ Shr(Shl(w, 27), 27) = Field(w, 4, 0)
      /\ Shr(Shl(w, 11), 21) = Field(w, 20, 10)
  BY ShiftsAreField DEF Bits
<1> QED
  BY <1>1, Words64
     DEF L64!sb_get_sb_op, L64!sb_get_rm, L64!sb_get_rn, L64!sb_get_rt, L64!sb_get_imm

LEMMA SbInsn64 ==
    ASSUME NEW operands
    PROVE  /\ L64!SbInsn({}, operands) = {21, 22, 23, 26} \cup operands
           /\ L64!SbInsn({0}, operands) = {21, 22, 23, 24, 26} \cup operands
<1>1. /\ Shl({0}, 26) = {26} /\ Shl({0, 1, 2}, 21) = {21, 22, 23}
      /\ Shl({}, 24) = {} /\ Shl({0}, 24) = {24}
  BY DEF Shl, Bits
<1> QED
  BY <1>1, Words64 DEF L64!SbInsn, L64!SB_INSN_DUMMY_1, L64!SB_INSN_DUMMY_2

(* The rewritten words: the operands stay where they are.                  *)
LEMMA EncodeReg64 ==
    ASSUME NEW w \in Word
    PROVE  L64!convert_ldr32_reg(w, {}) =
               {21, 22, 23, 26} \cup (w \cap (0 .. 9 \cup 12 .. 20))
<1>1. /\ Shr(Shl(w, 11), 27) = Field(w, 20, 16)
      /\ Shr(Shl(w, 22), 27) = Field(w, 9, 5)
      /\ Shr(Shl(w, 27), 27) = Field(w, 4, 0)
      /\ Shr(Shl(w, 16), 29) = Field(w, 15, 13)
      /\ Shr(Shl(w, 19), 31) = Field(w, 12, 12)
  BY ShiftsAreField DEF Bits
<1>2. /\ Shl(Field(w, 20, 16), 16) = w \cap (16 .. 20)
      /\ Shl(Field(w, 9, 5), 5) = w \cap (5 .. 9)
      /\ Field(w, 4, 0) = w \cap (0 .. 4)
      /\ Shl(Field(w, 15, 13), 13) = w \cap (13 .. 15)
      /\ Shl(Field(w, 12, 12), 12) = w \cap (12 .. 12)
  BY FieldInPlace, LowField DEF Bits
<1>3. L64!convert_ldr32_reg(w, {}) =
        {21, 22, 23, 26} \cup UNION {w \cap (16 .. 20), w \cap (5 .. 9), w \cap (0 .. 4),
                                     w \cap (13 .. 15), w \cap (12 .. 12)}
  BY <1>1, <1>2, Words64, SbInsn64 DEF L64!convert_ldr32_reg
<1>4. UNION {w \cap (16 .. 20), w \cap (5 .. 9), w \cap (0 .. 4),
             w \cap (13 .. 15), w \cap (12 .. 12)} = w \cap (0 .. 9 \cup 12 .. 20)
  OBVIOUS
<1> QED
  BY <1>3, <1>4

LEMMA EncodeImm64 ==
    ASSUME NEW w \in Word
    PROVE  L64!convert_ldr32_imm(w, {0}) = {21, 22, 23, 24, 26} \cup (w \cap (0 .. 20))
<1>1. /\ Shr(Shl(w, 22), 27) = Field(w, 9, 5)
      /\ Shr(Shl(w, 27), 27) = Field(w, 4, 0)
      /\ Shr(Shl(w, 11), 21) = Field(w, 20, 10)
  BY ShiftsAreField DEF Bits
<1>2. /\ Shl(Field(w, 9, 5), 5) = w \cap (5 .. 9)
      /\ Field(w, 4, 0) = w \cap (0 .. 4)
      /\ Shl(Field(w, 20, 10), 10) = w \cap (10 .. 20)
  BY FieldInPlace, LowField DEF Bits
<1>3. L64!convert_ldr32_imm(w, {0}) =
        {21, 22, 23, 24, 26} \cup UNION {w \cap (10 .. 20), w \cap (5 .. 9), w \cap (0 .. 4)}
  BY <1>1, <1>2, Words64, SbInsn64 DEF L64!convert_ldr32_imm
<1>4. UNION {w \cap (10 .. 20), w \cap (5 .. 9), w \cap (0 .. 4)} = w \cap (0 .. 20)
  OBVIOUS
<1> QED
  BY <1>3, <1>4


(* What the converter makes of a word, by the form of the load.            *)
RegCode64(w) == {21, 22, 23, 26} \cup (w \cap (0 .. 9 \cup 12 .. 20))
ImmCode64(w) == {21, 22, 23, 24, 26} \cup (w \cap (0 .. 20))

LEMMA Checked64 ==
    ASSUME NEW w
    PROVE  /\ L64!is_insn_ldr32_reg(w) <=>
                  w \cap (21 .. 31 \cup {10, 11}) = {11, 21, 22, 27, 28, 29, 31}
           /\ L64!is_insn_ldr32_imm(w) <=> w \cap (20 .. 31) = {22, 24, 27, 28, 29, 31}
           /\ ~(L64!is_insn_ldr32_reg(w) /\ L64!is_insn_ldr32_imm(w))
<1>1. /\ L64!is_insn_ldr32_reg(w) <=>
             w \cap (21 .. 31 \cup {10, 11}) = {11, 21, 22, 27, 28, 29, 31}
      /\ L64!is_insn_ldr32_imm(w) <=> w \cap (20 .. 31) = {22, 24, 27, 28, 29, 31}
  BY Words64 DEF L64!is_insn_ldr32_reg, L64!is_insn_ldr32_imm
<1>2. w \cap (21 .. 31 \cup {10, 11}) = {11, 21, 22, 27, 28, 29, 31} => 21 \in w
  OBVIOUS
<1>3. w \cap (20 .. 31) = {22, 24, 27, 28, 29, 31} => 21 \notin w
  OBVIOUS
<1> QED
  BY <1>1, <1>2, <1>3

LEMMA Converted64 ==
    ASSUME NEW w \in Word
    PROVE  /\ L64!is_insn_ldr32_reg(w) => L64!convert_insn_to_sb_insn(w) = RegCode64(w)
           /\ L64!is_insn_ldr32_imm(w) => L64!convert_insn_to_sb_insn(w) = ImmCode64(w)
           /\ L64!Patched(w) <=> L64!is_insn_ldr32_reg(w) \/ L64!is_insn_ldr32_imm(w)
           /\ L64!Patched(w) => L64!convert_insn_to_sb_insn(w) \in Word
<1>1. L64!is_insn_ldr32_reg(w) => L64!convert_insn_to_sb_insn(w) = RegCode64(w)
  BY EncodeReg64 DEF L64!convert_insn_to_sb_insn, L64!SB_INSN_OP_LDR32_REG, RegCode64
<1>2. L64!is_insn_ldr32_imm(w) => L64!convert_insn_to_sb_insn(w) = ImmCode64(w)
  BY EncodeImm64, Checked64 DEF L64!convert_insn_to_sb_insn, L64!SB_INSN_OP_LDR32_IMM, ImmCode64
<1>3. ~L64!is_insn_ldr32_reg(w) /\ ~L64!is_insn_ldr32_imm(w)
        => L64!convert_insn_to_sb_insn(w) = {}
  BY DEF L64!convert_insn_to_sb_insn, L64!Zero
<1>4. RegCode64(w) # {} /\ ImmCode64(w) # {} /\ RegCode64(w) \in Word /\ ImmCode64(w) \in Word
  BY DEF RegCode64, ImmCode64, Word, Bits
<1> QED
  BY <1>1, <1>2, <1>3, <1>4 DEF L64!Patched, L64!Zero

(* For every word: the hook asks for what the converter writes and not for *)
(* the load, and the decoders give back the load's fields.                 *)
LEMMA Decodes64 == ASSUME insn \in Word PROVE L64!RewrittenDecodes
<1> PICK sb : sb = L64!convert_insn_to_sb_insn(insn)
  OBVIOUS
<1>1. L64!HookMatches(sb) <=> sb \cap (26 .. 31 \cup 21 .. 23) = {21, 22, 23, 26}
  BY Words64 DEF L64!HookMatches
<1>2. L64!HookMatches(insn) <=> insn \cap (26 .. 31 \cup 21 .. 23) = {21, 22, 23, 26}
  BY Words64 DEF L64!HookMatches
<1>3. CASE L64!is_insn_ldr32_reg(insn)
  <2>1. insn \cap (21 .. 31 \cup {10, 11}) = {11, 21, 22, 27, 28, 29, 31}
    BY <1>3, Checked64
  <2>2. sb = RegCode64(insn) /\ sb \in Word
    BY <1>3, Converted64
  <2>3. sb \cap (26 .. 31 \cup 21 .. 23) = {21, 22, 23, 26}
    BY <2>2 DEF RegCode64
  <2>4. insn \cap (26 .. 31 \cup 21 .. 23) # {21, 22, 23, 26}
    BY <2>1
  <2>5. /\ sb \cap (5 .. 9) = insn \cap (5 .. 9)
        /\ sb \cap (0 .. 4) = insn \cap (0 .. 4)
        /\ sb \cap (16 .. 20) = insn \cap (16 .. 20)
        /\ sb \cap (24 .. 25) = {}
    BY <2>2 DEF RegCode64
  <2>6. /\ Field(sb, 9, 5) = Field(insn, 9, 5)
        /\ Field(sb, 4, 0) = Field(insn, 4, 0)
        /\ Field(sb, 20, 16) = Field(insn, 20, 16)
        /\ Field(sb, 25, 24) = {}
    BY <2>5, SameField DEF Field
  <2> QED
    BY <1>1, <1>2, <1>3, <2>2, <2>3, <2>4, <2>6, Checked64, Decoders64, Words64
       DEF L64!RewrittenDecodes, L64!SB_INSN_OP_LDR32_REG
<1>4. CASE L64!is_insn_ldr32_imm(insn)
  <2>1. insn \cap (20 .. 31) = {22, 24, 27, 28, 29, 31}
    BY <1>4, Checked64
  <2>2. sb = ImmCode64(insn) /\ sb \in Word
    BY <1>4, Converted64
  <2>3. sb \cap (26 .. 31 \cup 21 .. 23) = {21, 22, 23, 26}
    BY <2>2 DEF ImmCode64
  <2>4. insn \cap (26 .. 31 \cup 21 .. 23) # {21, 22, 23, 26}
    BY <2>1
  <2>5. /\ sb \cap (5 .. 9) = insn \cap (5 .. 9)
        /\ sb \cap (0 .. 4) = insn \cap (0 .. 4)
        /\ sb \cap (10 .. 20) = insn \cap (10 .. 21)
        /\ sb \cap (24 .. 25) = {24}
    BY <2>1, <2>2 DEF ImmCode64
  <2>6. /\ Field(sb, 9, 5) = Field(insn, 9, 5)
        /\ Field(sb, 4, 0) = Field(insn, 4, 0)
        /\ Field(sb, 20, 10) = Field(insn, 21, 10)
        /\ Field(sb, 25, 24) = {0}
    BY <2>5, SameField DEF Field
  <2> QED
    BY <1>1, <1>2, <1>4, <2>2, <2>3, <2>4, <2>6, Checked64, Decoders64, Words64
       DEF L64!RewrittenDecodes, L64!SB_INSN_OP_LDR32_IMM
<1> QED
  BY <1>3, <1>4, Converted64 DEF L64!RewrittenDecodes


(* A rewritten load that traps does what the load would have done.         *)
LEMMA Emulates64 == ASSUME insn \in Word, AsDispatched64(insn), L64!Next PROVE L64!Native
<1> PICK sb : sb = L64!convert_insn_to_sb_insn(insn)
  OBVIOUS
<1> PICK rn, rt : rn = Field(insn, 9, 5) /\ rt = Field(insn, 4, 0)
  OBVIOUS
<1>1. rt # L64!R31
  BY DEF AsDispatched64
<1>2. CASE L64!Unpatched
  BY <1>2 DEF L64!Unpatched
<1>3. CASE L64!smoke_bomb_ex_handler
  <2>1. /\ L64!Patched(insn) /\ L64!Advance
        /\ \/ L64!sb_get_sb_op(sb) = {} /\ L64!Dispatch(sb, L64!ptr_ldr32_reg(sb))
           \/ L64!sb_get_sb_op(sb) = {0} /\ L64!Dispatch(sb, L64!ptr_ldr32_imm(sb))
    BY <1>3 DEF L64!smoke_bomb_ex_handler, L64!dispatch_ldr32_reg, L64!dispatch_ldr32_imm,
                L64!SB_INSN_OP_LDR32_REG, L64!SB_INSN_OP_LDR32_IMM
  <2>2. L64!RewrittenDecodes
    BY Decodes64
  <2>3. L64!sb_get_rn(sb) = rn /\ L64!sb_get_rt(sb) = rt
    BY <2>1, <2>2, Words64 DEF L64!RewrittenDecodes
  <2>4. SUFFICES L64!Load(insn)
    BY <2>1 DEF L64!Native
  <2>5. CASE L64!is_insn_ldr32_reg(insn)
    <3>1. L64!IsLdrReg(insn)
      BY <2>5 DEF L64!is_insn_ldr32_reg, L64!IsLdrReg
    <3>2. PICK rm : rm = Field(insn, 20, 16)
      OBVIOUS
    <3>3. /\ L64!sb_get_sb_op(sb) = {} /\ L64!sb_get_rm(sb) = rm
          /\ L64!Dispatch(sb, L64!ptr_ldr32_reg(sb))
      BY <2>1, <2>2, <2>5, <3>2, Words64 DEF L64!RewrittenDecodes, L64!SB_INSN_OP_LDR32_REG
    <3>4. rm # L64!R31 /\ Field(insn, 15, 13) = {1} /\ Field(insn, 12, 12) = {0}
      BY <3>1, <3>2 DEF AsDispatched64
    <3>5. L64!Target(insn) = L64!Addr(regs[rn] + 4 * L64!Extend({1}, L64!IndexReg(rm)))
      BY <3>1, <3>2, <3>4, Words64 DEF L64!Target
    <3>6. L64!Extend({1}, L64!IndexReg(rm)) = regs[rm] % (2 ^ WBits)
      <4>1. {1} # {1, 2}
        OBVIOUS
      <4> QED
        BY <3>4, <4>1, Zenon DEF L64!Extend, L64!IndexReg
    <3>7. L64!ptr_ldr32_reg(sb) = L64!Target(insn)
      BY <2>3, <3>3, <3>5, <3>6 DEF L64!ptr_ldr32_reg
    <3> QED
      BY <1>1, <2>3, <3>3, <3>7, Words64 DEF L64!Dispatch, L64!Load
  <2>6. CASE L64!is_insn_ldr32_imm(insn)
    <3>1. ~L64!IsLdrReg(insn)
      BY <2>6, Checked64 DEF L64!is_insn_ldr32_reg, L64!IsLdrReg
    <3>2. /\ L64!sb_get_sb_op(sb) = {0} /\ L64!sb_get_imm(sb) = Field(insn, 21, 10)
          /\ L64!Dispatch(sb, L64!ptr_ldr32_imm(sb))
      BY <2>1, <2>2, <2>6, Words64 DEF L64!RewrittenDecodes, L64!SB_INSN_OP_LDR32_IMM
    <3>3. L64!Target(insn) = L64!Addr(regs[rn] + 4 * L64!Value(Field(insn, 21, 10)))
      BY <3>1, Words64 DEF L64!Target
    <3>4. L64!ptr_ldr32_imm(sb) = L64!Target(insn)
      BY <2>3, <3>2, <3>3 DEF L64!ptr_ldr32_imm
    <3> QED
      BY <1>1, <2>3, <3>2, <3>4, Words64 DEF L64!Dispatch, L64!Load
  <2> QED
    BY <2>1, <2>5, <2>6, Converted64
<1> QED
  BY <1>2, <1>3 DEF L64!Next

-----------------------------------------------------------------------------
(* The static rewriter.                                                    *)

LEMMA WordsR ==
    /\ \A w, n : R!Shl(w, n) = Shl(w, n) /\ R!Shr(w, n) = Shr(w, n)
    /\ \A v, w : R!And(v, w) = And(v, w)
BY DEF R!Shl, R!Shr, R!And, R!Bits, Shl, Shr, And, Bits

LEMMA PrefixR == R!Prefix({}) = {21, 22, 23, 26} /\ R!Prefix({0}) = {21, 22, 23, 24, 26}
<1>1. /\ Shl({0}, 26) = {26} /\ Shl({0, 1, 2}, 21) = {21, 22, 23}
      /\ Shl({}, 24) = {} /\ Shl({0}, 24) = {24}
  BY DEF Shl, Bits
<1> QED
  BY <1>1, WordsR DEF R!Prefix, R!sb_insn_dummy1, R!sb_insn_dummy2

LEMMA AgreesOnWord ==
    ASSUME NEW w \in Word
    PROVE  R!Preche(w) \in {Zero, L64!convert_insn_to_sb_insn(w)}
<1>1. And(w, 0 .. 4) = w \cap (0 .. 4)
  BY DEF And
<1>2. /\ Shl(Shr(And(w, 16 .. 20), 16), 16) = w \cap (16 .. 20)
      /\ Shl(Shr(And(w, 5 .. 9), 5), 5) = w \cap (5 .. 9)
      /\ Shl(Shr(And(w, 13 .. 15), 13), 13) = w \cap (13 .. 15)
      /\ Shl(Shr(And(w, 12 .. 12), 12), 12) = w \cap (12 .. 12)
      /\ Shl(Shr(And(w, 10 .. 20), 10), 10) = w \cap (10 .. 20)
  <2>1. ASSUME NEW hi \in Bits, NEW lo \in Bits, lo <= hi
        PROVE  Shl(Shr(And(w, lo .. hi), lo), lo) = w \cap (lo .. hi)
    BY <2>1, MaskIsField, FieldInPlace
  <2> QED
    BY <2>1 DEF Bits
<1>3. CASE R!is_ldr32_reg(w)
  <2>1. w \cap (20 .. 31 \cup {10, 11}) = {11, 21, 22, 27, 28, 29, 31}
    BY <1>3, WordsR DEF R!is_ldr32_reg, And
  <2>2. w \cap (21 .. 31 \cup {10, 11}) = {11, 21, 22, 27, 28, 29, 31}
    BY <2>1
  <2>3. L64!convert_insn_to_sb_insn(w) = RegCode64(w)
    BY <2>2, Checked64, Converted64
  <2>4. {12} = 12 .. 12
    OBVIOUS
  <2>5. R!convert_ldr32_reg(w) = UNION {{21, 22, 23, 26}, w \cap (16 .. 20), w \cap (5 .. 9),
                                        w \cap (0 .. 4), w \cap (13 .. 15), w \cap (12 .. 12)}
    BY <1>1, <1>2, <2>4, PrefixR, WordsR DEF R!convert_ldr32_reg, R!sb_insn_op_ldr32_reg
  <2>6. UNION {{21, 22, 23, 26}, w \cap (16 .. 20), w \cap (5 .. 9), w \cap (0 .. 4),
               w \cap (13 .. 15), w \cap (12 .. 12)} = RegCode64(w)
    BY DEF RegCode64
  <2> QED
    BY <1>3, <2>3, <2>5, <2>6 DEF R!Preche
<1>4. CASE ~R!is_ldr32_reg(w) /\ R!is_ldr32_imm(w)
  <2>1. w \cap (20 .. 31) = {22, 24, 27, 28, 29, 31}
    BY <1>4, WordsR DEF R!is_ldr32_imm, And
  <2>2. L64!convert_insn_to_sb_insn(w) = ImmCode64(w)
    BY <2>1, Checked64, Converted64
  <2>3. R!convert_ldr32_imm(w) = UNION {{21, 22, 23, 24, 26}, w \cap (10 .. 20),
                                        w \cap (5 .. 9), w \cap (0 .. 4)}
    BY <1>1, <1>2, PrefixR, WordsR DEF R!convert_ldr32_imm, R!sb_insn_op_ldr32_imm
  <2>4. UNION {{21, 22, 23, 24, 26}, w \cap (10 .. 20), w \cap (5 .. 9), w \cap (0 .. 4)}
          = ImmCode64(w)
    BY DEF ImmCode64
  <2> QED
    BY <1>4, <2>2, <2>3, <2>4 DEF R!Preche
<1>5. CASE ~R!is_ldr32_reg(w) /\ ~R!is_ldr32_imm(w)
  BY <1>5 DEF R!Preche, R!Zero, Zero
<1> QED
  BY <1>3, <1>4, <1>5

-----------------------------------------------------------------------------
(* ARMv7.                                                                  *)

LEMMA Words32 ==
    /\ \A w, n : L32!Shl(w, n) = Shl(w, n) /\ L32!Shr(w, n) = Shr(w, n)
    /\ \A v, w : L32!And(v, w) = v \cap w
    /\ \A w, hi, lo : L32!Field(w, hi, lo) = Field(w, hi, lo)
BY DEF L32!Shl, L32!Shr, L32!And, L32!Field, L32!Bits, Shl, Shr, Field, Bits

LEMMA Shifts32 ==
    ASSUME NEW w \in Word
    PROVE  /\ Shr(Shl(w, 8), 30) = Field(w, 23, 22)
           /\ Shr(Shl(w, 12), 28) = Field(w, 19, 16)
           /\ Shr(Shl(w, 16), 28) = Field(w, 15, 12)
           /\ Shr(Shl(w, 28), 28) = Field(w, 3, 0)
           /\ Shr(Shl(w, 20), 27) = Field(w, 11, 7)
           /\ Shr(Shl(w, 20), 20) = Field(w, 11, 0)
BY ShiftsAreField DEF Bits

LEMMA Decoders32 ==
    ASSUME NEW w \in Word
    PROVE  /\ L32!sb_get_sb_op(w) = Field(w, 23, 22)
           /\ L32!sb_get_rm(w) = Field(w, 3, 0)
           /\ L32!sb_get_rn(w) = Field(w, 19, 16)
           /\ L32!sb_get_rt(w) = Field(w, 15, 12)
           /\ L32!sb_get_imm5(w) = Field(w, 11, 7)
           /\ L32!sb_get_imm12(w) = Field(w, 11, 7) \ {4}
<1>1. Shl({0}, 4) = {4}
  BY DEF Shl, Bits
<1> QED
  BY <1>1, Shifts32, Words32
     DEF L32!sb_get_sb_op, L32!sb_get_rm, L32!sb_get_rn, L32!sb_get_rt, L32!sb_get_imm5,
         L32!sb_get_imm12, L32!SB_INSN_DUMMY_3

LEMMA SbInsn32 ==
    ASSUME NEW operands
    PROVE  /\ L32!SbInsn({0}, operands) = {4, 21, 22, 24, 25, 26} \cup operands
           /\ L32!SbInsn({1}, operands) = {4, 21, 23, 24, 25, 26} \cup operands
<1>1. /\ Shl({0, 1, 2}, 24) = {24, 25, 26} /\ Shl({1}, 20) = {21} /\ Shl({0}, 4) = {4}
      /\ Shl({0}, 22) = {22} /\ Shl({1}, 22) = {23}
  BY DEF Shl, Bits
<1>2. /\ L32!SbInsn({0}, operands) = UNION {{24, 25, 26}, {21}, {4}, {22}, operands}
      /\ L32!SbInsn({1}, operands) = UNION {{24, 25, 26}, {21}, {4}, {23}, operands}
  BY <1>1, Words32
     DEF L32!SbInsn, L32!SB_INSN_DUMMY_1, L32!SB_INSN_DUMMY_2, L32!SB_INSN_DUMMY_3
<1> QED
  BY <1>2

RegCode32(w) == {4, 21, 22, 24, 25, 26} \cup (w \cap (0 .. 3 \cup 7 .. 19))
ImmCode32(w) == {4, 21, 23, 24, 25, 26} \cup (w \cap (0 .. 19))

LEMMA EncodeReg32 ==
    ASSUME NEW w \in Word
    PROVE  L32!convert_ldr_reg(w, {0}) = RegCode32(w)
<1>1. /\ Shl(Field(w, 19, 16), 16) = w \cap (16 .. 19)
      /\ Shl(Field(w, 15, 12), 12) = w \cap (12 .. 15)
      /\ Shl(Field(w, 11, 7), 7) = w \cap (7 .. 11)
      /\ Field(w, 3, 0) = w \cap (0 .. 3)
  BY FieldInPlace, LowField DEF Bits
<1>2. L32!convert_ldr_reg(w, {0}) =
        {4, 21, 22, 24, 25, 26} \cup UNION {w \cap (16 .. 19), w \cap (12 .. 15),
                                           w \cap (7 .. 11), w \cap (0 .. 3)}
  BY <1>1, Shifts32, SbInsn32, Words32 DEF L32!convert_ldr_reg
<1>3. UNION {w \cap (16 .. 19), w \cap (12 .. 15), w \cap (7 .. 11), w \cap (0 .. 3)}
        = w \cap (0 .. 3 \cup 7 .. 19)
  OBVIOUS
<1> QED
  BY <1>2, <1>3 DEF RegCode32

LEMMA EncodeImm32 ==
    ASSUME NEW w \in Word
    PROVE  L32!convert_ldr_imm(w, {1}) = ImmCode32(w)
<1>1. /\ Shl(Field(w, 19, 16), 16) = w \cap (16 .. 19)
      /\ Shl(Field(w, 15, 12), 12) = w \cap (12 .. 15)
      /\ Field(w, 11, 0) = w \cap (0 .. 11)
  BY FieldInPlace, LowField DEF Bits
<1>2. L32!convert_ldr_imm(w, {1}) =
        {4, 21, 23, 24, 25, 26} \cup UNION {w \cap (16 .. 19), w \cap (12 .. 15),
                                           w \cap (0 .. 11)}
  BY <1>1, Shifts32, SbInsn32, Words32 DEF L32!convert_ldr_imm
<1>3. UNION {w \cap (16 .. 19), w \cap (12 .. 15), w \cap (0 .. 11)} = w \cap (0 .. 19)
  OBVIOUS
<1> QED
  BY <1>2, <1>3 DEF ImmCode32

LEMMA Checked32 ==
    ASSUME NEW w
    PROVE  /\ L32!is_insn_ldr_reg(w) <=> w \cap (20 .. 31) = {20, 23, 24, 25, 26, 29, 30, 31}
           /\ L32!is_insn_ldr_imm(w) => w \cap (20 .. 31) = {20, 23, 24, 26, 29, 30, 31}
           /\ ~(L32!is_insn_ldr_reg(w) /\ L32!is_insn_ldr_imm(w))
<1>1. /\ L32!is_insn_ldr_reg(w) <=> w \cap (20 .. 31) = {20, 23, 24, 25, 26, 29, 30, 31}
      /\ L32!is_insn_ldr_imm(w) => w \cap (20 .. 31) = {20, 23, 24, 26, 29, 30, 31}
  BY Words32 DEF L32!is_insn_ldr_reg, L32!is_insn_ldr_imm
<1>2. {20, 23, 24, 25, 26, 29, 30, 31} # {20, 23, 24, 26, 29, 30, 31}
  OBVIOUS
<1> QED
  BY <1>1, <1>2

LEMMA Converted32 ==
    ASSUME NEW w \in Word
    PROVE  /\ L32!is_insn_ldr_reg(w) => L32!convert_insn_to_sb_insn(w) = RegCode32(w)
           /\ L32!is_insn_ldr_imm(w) => L32!convert_insn_to_sb_insn(w) = ImmCode32(w)
           /\ L32!Patched(w) <=> L32!is_insn_ldr_reg(w) \/ L32!is_insn_ldr_imm(w)
           /\ L32!Patched(w) => L32!convert_insn_to_sb_insn(w) \in Word
<1>1. L32!is_insn_ldr_reg(w) => L32!convert_insn_to_sb_insn(w) = RegCode32(w)
  BY EncodeReg32 DEF L32!convert_insn_to_sb_insn, L32!SB_INSN_OP_LDR_REG
<1>2. L32!is_insn_ldr_imm(w) => L32!convert_insn_to_sb_insn(w) = ImmCode32(w)
  BY EncodeImm32, Checked32 DEF L32!convert_insn_to_sb_insn, L32!SB_INSN_OP_LDR_IMM
<1>3. ~L32!is_insn_ldr_reg(w) /\ ~L32!is_insn_ldr_imm(w)
        => L32!convert_insn_to_sb_insn(w) = {}
  BY DEF L32!convert_insn_to_sb_insn, L32!Zero
<1>4. RegCode32(w) # {} /\ ImmCode32(w) # {} /\ RegCode32(w) \in Word /\ ImmCode32(w) \in Word
  BY DEF RegCode32, ImmCode32, Word, Bits
<1> QED
  BY <1>1, <1>2, <1>3, <1>4 DEF L32!Patched, L32!Zero

LEMMA Decodes32 == ASSUME insn \in Word PROVE L32!RewrittenDecodes
<1> PICK sb : sb = L32!convert_insn_to_sb_insn(insn)
  OBVIOUS
<1>1. L32!HookMatches(sb) <=> sb \cap (24 .. 31 \cup {4, 20, 21}) = {4, 21, 24, 25, 26}
  BY Words32 DEF L32!HookMatches
<1>2. L32!HookMatches(insn) <=> insn \cap (24 .. 31 \cup {4, 20, 21}) = {4, 21, 24, 25, 26}
  BY Words32 DEF L32!HookMatches
<1>3. CASE L32!is_insn_ldr_reg(insn)
  <2>1. insn \cap (20 .. 31) = {20, 23, 24, 25, 26, 29, 30, 31}
    BY <1>3, Checked32
  <2>2. sb = RegCode32(insn) /\ sb \in Word
    BY <1>3, Converted32
  <2>3. sb \cap (24 .. 31 \cup {4, 20, 21}) = {4, 21, 24, 25, 26}
    BY <2>2 DEF RegCode32
  <2>4. insn \cap (24 .. 31 \cup {4, 20, 21}) # {4, 21, 24, 25, 26}
    BY <2>1
  <2>5. /\ sb \cap (16 .. 19) = insn \cap (16 .. 19)
        /\ sb \cap (12 .. 15) = insn \cap (12 .. 15)
        /\ sb \cap (0 .. 3) = insn \cap (0 .. 3)
        /\ sb \cap (7 .. 11) = insn \cap (7 .. 11)
        /\ sb \cap (22 .. 23) = {22}
    BY <2>2 DEF RegCode32
  <2>6. /\ Field(sb, 19, 16) = Field(insn, 19, 16)
        /\ Field(sb, 15, 12) = Field(insn, 15, 12)
        /\ Field(sb, 3, 0) = Field(insn, 3, 0)
        /\ Field(sb, 11, 7) = Field(insn, 11, 7)
        /\ Field(sb, 23, 22) = {0}
    BY <2>5, SameField DEF Field
  <2> QED
    BY <1>1, <1>2, <1>3, <2>2, <2>3, <2>4, <2>6, Checked32, Decoders32, Words32
       DEF L32!RewrittenDecodes, L32!SB_INSN_OP_LDR_REG
<1>4. CASE L32!is_insn_ldr_imm(insn)
  <2>1. insn \cap (20 .. 31) = {20, 23, 24, 26, 29, 30, 31}
    BY <1>4, Checked32
  <2>2. sb = ImmCode32(insn) /\ sb \in Word
    BY <1>4, Converted32
  <2>3. sb \cap (24 .. 31 \cup {4, 20, 21}) = {4, 21, 24, 25, 26}
    BY <2>2 DEF ImmCode32
  <2>4. insn \cap (24 .. 31 \cup {4, 20, 21}) # {4, 21, 24, 25, 26}
    BY <2>1
  <2>5. /\ sb \cap (16 .. 19) = insn \cap (16 .. 19)
        /\ sb \cap (12 .. 15) = insn \cap (12 .. 15)
        /\ sb \cap (22 .. 23) = {23}
    BY <2>2 DEF ImmCode32
  <2>6. /\ Field(sb, 19, 16) = Field(insn, 19, 16)
        /\ Field(sb, 15, 12) = Field(insn, 15, 12)
        /\ Field(sb, 23, 22) = {1}
    BY <2>5, SameField DEF Field
  <2>7. L32!sb_get_imm12(sb) = Field(insn, 11, 0) <=> Field(insn, 11, 0) = {}
    <3>1. sb \cap (7 .. 11) = insn \cap (7 .. 11)
      BY <2>2 DEF ImmCode32
    <3>2. Field(sb, 11, 7) = Field(insn, 11, 7)
      BY <3>1, SameField
    <3>3. L32!sb_get_imm12(sb) = Field(insn, 11, 7) \ {4}
      BY <2>2, <3>2, Decoders32
    <3>4. Field(insn, 11, 0) = insn \cap (0 .. 11)
      BY LowField DEF Bits
    <3>5. Field(insn, 11, 0) \cap (0 .. 9) = {}
      BY <1>4, Shifts32, Words32 DEF L32!is_insn_ldr_imm
    <3>6. Field(insn, 11, 7) \subseteq 0 .. 4
      BY DEF Field
    <3>7. CASE Field(insn, 11, 0) = {}
      <4>1. Field(insn, 11, 7) = {}
        BY <3>4, <3>7 DEF Field
      <4> QED
        BY <3>3, <3>7, <4>1
    <3>8. CASE Field(insn, 11, 0) # {}
      BY <3>3, <3>5, <3>6, <3>8
    <3> QED
      BY <3>7, <3>8
  <2> QED
    BY <1>1, <1>2, <1>4, <2>2, <2>3, <2>4, <2>6, <2>7, Checked32, Decoders32, Words32
       DEF L32!RewrittenDecodes, L32!SB_INSN_OP_LDR_IMM
<1> QED
  BY <1>3, <1>4, Converted32 DEF L32!RewrittenDecodes


LEMMA Emulates32 == ASSUME insn \in Word, AsDispatched32(insn), L32!Next PROVE L32!Native
<1> PICK sb : sb = L32!convert_insn_to_sb_insn(insn)
  OBVIOUS
<1> PICK rn, rt : rn = Field(insn, 19, 16) /\ rt = Field(insn, 15, 12)
  OBVIOUS
<1>1. rn # L32!R15 /\ rt # L32!R15
  BY DEF AsDispatched32
<1>2. CASE L32!Unpatched
  BY <1>2 DEF L32!Unpatched
<1>3. CASE L32!smoke_bomb_ex_handler
  <2>1. /\ L32!Patched(insn) /\ L32!Continue
        /\ \/ L32!sb_get_sb_op(sb) = {0} /\ L32!Dispatch(sb, L32!ptr_ldr_reg(sb))
           \/ L32!sb_get_sb_op(sb) = {1} /\ L32!Dispatch(sb, L32!ptr_ldr_imm(sb))
    BY <1>3 DEF L32!smoke_bomb_ex_handler, L32!dispatch_ldr_reg, L32!dispatch_ldr_imm,
                L32!SB_INSN_OP_LDR_REG, L32!SB_INSN_OP_LDR_IMM
  <2>2. L32!RewrittenDecodes
    BY Decodes32
  <2>3. L32!sb_get_rn(sb) = rn /\ L32!sb_get_rt(sb) = rt
    BY <2>1, <2>2, Words32 DEF L32!RewrittenDecodes
  <2>4. L32!uregs(rn) = regs[rn] /\ L32!Operand(rn) = regs[rn]
    BY <1>1 DEF L32!uregs, L32!Operand
  <2>5. ASSUME NEW ptr, ptr = L32!Target(insn), L32!Dispatch(sb, ptr) PROVE L32!Native
    BY <1>1, <2>1, <2>3, <2>5, Words32 DEF L32!Dispatch, L32!Native
  <2>6. CASE L32!is_insn_ldr_reg(insn)
    <3>1. PICK rm, imm5 : rm = Field(insn, 3, 0) /\ imm5 = Field(insn, 11, 7)
      OBVIOUS
    <3>2. rm # L32!R15 /\ Field(insn, 6, 4) = {}
      BY <2>6, <3>1 DEF AsDispatched32
    <3>3. /\ L32!sb_get_sb_op(sb) = {0} /\ L32!sb_get_rm(sb) = rm /\ L32!sb_get_imm5(sb) = imm5
          /\ L32!Dispatch(sb, L32!ptr_ldr_reg(sb))
      BY <2>1, <2>2, <2>6, <3>1, Words32 DEF L32!RewrittenDecodes, L32!SB_INSN_OP_LDR_REG
    <3>4. 4 \notin insn /\ Field(insn, 6, 5) = {}
      <4>1. \A b \in insn : b \notin 4 .. 6
        BY <3>2 DEF Field
      <4> QED
        BY <4>1 DEF Field
    <3>5. L32!IsLdrReg(insn)
      BY <2>6, <3>4 DEF L32!is_insn_ldr_reg, L32!IsLdrReg
    <3>6. L32!Shifted(insn) = regs[rm] * 2 ^ L32!Value(imm5)
      BY <3>1, <3>2, <3>4, Words32 DEF L32!Shifted, L32!Operand
    <3>7. L32!Target(insn) = L32!Addr(regs[rn] + regs[rm] * 2 ^ L32!Value(imm5))
      BY <2>4, <3>5, <3>6, Words32 DEF L32!Target
    <3>8. L32!ptr_ldr_reg(sb) = L32!Target(insn)
      <4>1. L32!uregs(rm) = regs[rm]
        BY <3>2 DEF L32!uregs
      <4> QED
        BY <2>3, <2>4, <3>3, <3>7, <4>1 DEF L32!ptr_ldr_reg
    <3> QED
      BY <2>5, <3>3, <3>8
  <2>7. CASE L32!is_insn_ldr_imm(insn)
    <3>1. ~L32!is_insn_ldr_reg(insn) /\ ~L32!IsLdrReg(insn)
      BY <2>7, Checked32 DEF L32!is_insn_ldr_reg, L32!IsLdrReg
    <3>2. L32!sb_get_sb_op(sb) = {1} /\ L32!Dispatch(sb, L32!ptr_ldr_imm(sb))
      BY <2>1, <2>2, <2>7 DEF L32!RewrittenDecodes, L32!SB_INSN_OP_LDR_IMM
    <3>3. insn \cap (0 .. 11) = {} /\ Field(insn, 11, 0) = {}
      <4>1. Field(insn, 11, 0) = {}
        BY <2>7 DEF AsDispatched32
      <4> QED
        BY <4>1, LowField DEF Bits
    <3>4. L32!sb_get_imm12(sb) = {}
      <4>1. sb = ImmCode32(insn) /\ sb \in Word
        BY <2>1, <2>7, Converted32
      <4>2. sb \cap (7 .. 11) = {}
        BY <3>3, <4>1 DEF ImmCode32
      <4>3. Field(sb, 11, 7) = {}
        BY <4>2 DEF Field
      <4> QED
        BY <4>1, <4>3, Decoders32
    <3>5. L32!Target(insn) = L32!Addr(regs[rn] + L32!Value({}))
      BY <2>4, <3>1, <3>3, Words32 DEF L32!Target
    <3>6. L32!ptr_ldr_imm(sb) = L32!Target(insn)
      BY <2>3, <2>4, <3>4, <3>5 DEF L32!ptr_ldr_imm
    <3> QED
      BY <2>5, <3>2, <3>6
  <2> QED
    BY <2>1, <2>6, <2>7, Converted32
<1> QED
  BY <1>2, <1>3 DEF L32!Next

-----------------------------------------------------------------------------
(* Theorems.                                                               *)

MachineInv ==
    /\ arch \in {"arm64", "arm"}
    /\ arch = "arm64" => insn \in Program64
    /\ arch = "arm" => insn \in Program32

LEMMA MachineInductive == Spec => []MachineInv
<1>1. (arch = "arm64" /\ L64!Init) \/ (arch = "arm" /\ L32!Init) => MachineInv
  BY DEF L64!Init, L32!Init, MachineInv
<1>2. MachineInv /\ [Next64 \/ Next32]_vars => MachineInv'
  <2> SUFFICES ASSUME MachineInv, [Next64 \/ Next32]_vars PROVE MachineInv'
    OBVIOUS
  <2>1. CASE Next64
    BY <2>1 DEF Next64, L64!Next, L64!smoke_bomb_ex_handler, L64!Unpatched, L64!Native,
                L64!Advance, MachineInv
  <2>2. CASE Next32
    BY <2>2 DEF Next32, L32!Next, L32!smoke_bomb_ex_handler, L32!Unpatched, L32!Native,
                L32!Continue, MachineInv
  <2>3. CASE UNCHANGED vars
    BY <2>3 DEF vars, MachineInv
  <2> QED
    BY <2>1, <2>2, <2>3
<1> QED
  BY <1>1, <1>2, PTL DEF Spec

(* For every program of instruction words: what the converter writes is    *)
(* asked for by the hook, names the right dispatcher and decodes to the    *)
(* load's registers and to its immediate (ARMv8) or shift amount (ARMv7).  *)
(* The immediate of an ARMv7 load is decoded right exactly when it is 0;   *)
(* extensions and shift types have no decoder and nothing is said of them  *)
(* (insn.c:46-73, 84-233; patch.c:261-267).                                *)
THEOREM RewrittenDecodesHolds == Spec => []RewrittenDecodes
<1>1. MachineInv => RewrittenDecodes
  BY Decodes64, Decodes32, LdrFlushAssumption DEF MachineInv, RewrittenDecodes
<1> QED
  BY <1>1, MachineInductive, PTL

(* For every word: python's converter writes what the kernel's would, or   *)
(* nothing (rewriter.py:82-121).                                           *)
THEOREM RewriterAgreesHolds == Spec => []RewriterAgrees
<1>1. MachineInv => RewriterAgrees
  BY AgreesOnWord, LdrFlushAssumption DEF MachineInv, RewriterAgrees
<1> QED
  BY <1>1, MachineInductive, PTL

(* A program whose loads have the addressing that the dispatchers perform  *)
(* does, rewritten, what it did before: the trap machine implements the    *)
(* native one, for registers of any width (arm64/insn.c:144,               *)
(* arm/insn.c:145).                                                        *)
THEOREM EmulatesNativeHolds ==
    ASSUME \A word \in Program64 : AsDispatched64(word),
           \A word \in Program32 : AsDispatched32(word)
    PROVE  Spec => EmulatesNative
<1>1. MachineInv /\ [Next64 \/ Next32]_vars
        => [IF arch = "arm64" THEN L64!Native ELSE L32!Native]_<<insn, regs, pc, last>>
  <2> SUFFICES ASSUME MachineInv, [Next64 \/ Next32]_vars
               PROVE  \/ IF arch = "arm64" THEN L64!Native ELSE L32!Native
                      \/ UNCHANGED <<insn, regs, pc, last>>
    OBVIOUS
  <2>1. CASE Next64
    <3>1. arch = "arm64" /\ L64!Next /\ insn \in Word /\ AsDispatched64(insn)
      BY <2>1, LdrFlushAssumption DEF Next64, MachineInv
    <3> QED
      BY <3>1, Emulates64
  <2>2. CASE Next32
    <3>1. arch # "arm64" /\ L32!Next /\ insn \in Word /\ AsDispatched32(insn)
      BY <2>2, LdrFlushAssumption DEF Next32, MachineInv
    <3> QED
      BY <3>1, Emulates32
  <2>3. CASE UNCHANGED vars
    BY <2>3 DEF vars
  <2> QED
    BY <2>1, <2>2, <2>3
<1> QED
  BY <1>1, MachineInductive, PTL DEF Spec, EmulatesNative

=============================================================================
