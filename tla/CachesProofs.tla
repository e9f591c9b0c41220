------------------------------ MODULE CachesProofs ------------------------------
(***************************************************************************)
(* The L1 cache.  What the module has put into it stays there until        *)
(* another line enters its set (SectionCache); what PRIME and PROBE tell   *)
(* of a set (PrimeProbe); the buffers they walk while the module is loaded *)
(* and removed (Lifecycle): for every cache whose geometry the models      *)
(* admit and every replacement policy, and then for the three side by side *)
(* as MCCaches checks them.                                                *)
(***************************************************************************)
EXTENDS MCCaches, SmokeBombLkmProofs, FiniteSetTheorems, WellFoundedInduction

-----------------------------------------------------------------------------
(* The words by which the module flushes a way of L1.                      *)

(* The least of a set of numbers, and induction from it.                   *)
LEMMA LeastOf ==
    ASSUME NEW T \in SUBSET Nat, T # {}
    PROVE  \E x \in T : \A y \in T : x <= y
<1>1. PICK x \in T : \A y \in T : ~(<<y, x>> \in OpToRel(<, Nat))
  BY NatLessThanWellFounded, WFMin
<1>2. \A y \in T : ~(y < x)
  BY <1>1 DEF OpToRel
<1> QED
  BY <1>2

LEMMA AllNumbers ==
    ASSUME NEW G, 0 \in G, \A n \in Nat : n \in G => n + 1 \in G
    PROVE  Nat \subseteq G
<1> SUFFICES ASSUME Nat \ G # {} PROVE FALSE
  OBVIOUS
<1>1. PICK x \in Nat \ G : \A y \in Nat \ G : x <= y
  BY LeastOf
<1>2. x # 0 /\ x - 1 \in Nat
  BY <1>1
<1>3. x - 1 \in G
  BY <1>1, <1>2
<1>4. (x - 1) + 1 \in G
  BY <1>2, <1>3
<1> QED
  BY <1>1, <1>4

LEMMA PowersOfTwo ==
    /\ 2 ^ 0 = 1 /\ 2 ^ 1 = 2 /\ 2 ^ 2 = 4 /\ 2 ^ 3 = 8 /\ 2 ^ 4 = 16 /\ 2 ^ 5 = 32
    /\ 2 ^ 6 = 64 /\ 2 ^ 7 = 128 /\ 2 ^ 8 = 256 /\ 2 ^ 9 = 512 /\ 2 ^ 10 = 1024
    /\ 2 ^ 11 = 2048 /\ 2 ^ 12 = 4096 /\ 2 ^ 13 = 8192 /\ 2 ^ 14 = 16384
    /\ 2 ^ 15 = 32768 /\ 2 ^ 16 = 65536 /\ 2 ^ 17 = 131072
OBVIOUS

(* The bits of a field: a cache has at most 2^17 sets.                     *)
FieldBits == 0 .. 16

LEMMA PowerOfBit ==
    ASSUME NEW k \in FieldBits
    PROVE  2 ^ k \in {1, 2, 4, 8, 16, 32, 64, 128, 256, 512, 1024, 2048, 4096, 8192,
                       16384, 32768, 65536} /\ 2 ^ (k + 1) = 2 * 2 ^ k
<1>1. CASE k = 0
  BY <1>1, PowersOfTwo
<1>2. CASE k = 1
  BY <1>2, PowersOfTwo
<1>3. CASE k = 2
  BY <1>3, PowersOfTwo
<1>4. CASE k = 3
  BY <1>4, PowersOfTwo
<1>5. CASE k = 4
  BY <1>5, PowersOfTwo
<1>6. CASE k = 5
  BY <1>6, PowersOfTwo
<1>7. CASE k = 6
  BY <1>7, PowersOfTwo
<1>8. CASE k = 7
  BY <1>8, PowersOfTwo
<1>9. CASE k = 8
  BY <1>9, PowersOfTwo
<1>10. CASE k = 9
  BY <1>10, PowersOfTwo
<1>11. CASE k = 10
  BY <1>11, PowersOfTwo
<1>12. CASE k = 11
  BY <1>12, PowersOfTwo
<1>13. CASE k = 12
  BY <1>13, PowersOfTwo
<1>14. CASE k = 13
  BY <1>14, PowersOfTwo
<1>15. CASE k = 14
  BY <1>15, PowersOfTwo
<1>16. CASE k = 15
  BY <1>16, PowersOfTwo
<1>17. CASE k = 16
  BY <1>17, PowersOfTwo
<1> QED
  BY <1>1, <1>2, <1>3, <1>4, <1>5, <1>6, <1>7, <1>8, <1>9, <1>10, <1>11, <1>12, <1>13, <1>14, <1>15, <1>16, <1>17 DEF FieldBits

LEMMA ModUnique ==
    ASSUME NEW a \in Nat, NEW m \in Nat, NEW q \in Nat, NEW r \in Nat,
           r < m, a = (q * m) + r
    PROVE  (a % m) = r
BY SMTT(30)

LEMMA DivMod ==
    ASSUME NEW n \in Nat, NEW p \in Nat \ {0}
    PROVE  \E q \in Nat, r \in Nat : q = n \div p /\ r = n % p /\ r < p /\ n = (q * p) + r
<1>1. n \div p \in Nat /\ (n % p) \in Nat /\ (n % p) < p
  BY SMTT(30)
<1>2. n = ((n \div p) * p) + (n % p)
  BY SMTT(30)
<1> QED
  BY <1>1, <1>2

LEMMA Halves ==
    ASSUME NEW q \in Nat
    PROVE  \E h \in Nat : \/ q = 2 * h /\ (q % 2) = 0
                          \/ q = (2 * h) + 1 /\ (q % 2) = 1
<1>1. q \div 2 \in Nat
  OBVIOUS
<1>2. \/ q = 2 * (q \div 2) /\ (q % 2) = 0
      \/ q = (2 * (q \div 2)) + 1 /\ (q % 2) = 1
  OBVIOUS
<1> QED
  BY <1>1, <1>2

LEMMA Twice ==
    ASSUME NEW h \in Nat, NEW p \in Nat
    PROVE  /\ (2 * h) * p = h * (2 * p)
           /\ ((2 * h) + 1) * p = (h * (2 * p)) + p
BY SMTT(30)

LEMMA Sums ==
    ASSUME NEW n \in Nat, NEW e \in Nat, NEW p \in Nat, NEW r \in Nat, NEW m,
           r < p, m = 2 * p
    PROVE  /\ n = (e + p) + r => n = e + (r + p)
           /\ r < m /\ r + p < m /\ r + p \in Nat /\ m \in Nat
OBVIOUS

(* Halving the quotient: its last bit is the next bit of the number.       *)
LEMMA ModTwice ==
    ASSUME NEW n \in Nat, NEW p \in Nat \ {0}
    PROVE  (n % (2 * p)) = (n % p) + (IF ((n \div p) % 2) = 1 THEN p ELSE 0)
<1>1. PICK q \in Nat, r \in Nat : q = n \div p /\ r = n % p /\ r < p /\ n = (q * p) + r
  BY DivMod
<1>2. PICK h \in Nat : \/ q = 2 * h /\ (q % 2) = 0
                       \/ q = (2 * h) + 1 /\ (q % 2) = 1
  BY Halves
<1>3. PICK m : m = 2 * p
  OBVIOUS
<1>4. PICK e \in Nat : e = h * m
  BY <1>3
<1>5. (2 * h) * p = e /\ ((2 * h) + 1) * p = e + p
  BY <1>3, <1>4, Twice
<1>6. /\ r < m /\ r + p < m /\ r + p \in Nat /\ m \in Nat
      /\ n = (e + p) + r => n = e + (r + p)
  BY <1>1, <1>3, Sums
<1>7. CASE q = (2 * h) + 1 /\ (q % 2) = 1
  <2>1. n = (e + p) + r
    BY <1>1, <1>5, <1>7, Zenon
  <2>2. n = (h * m) + (r + p)
    BY <1>4, <1>6, <2>1, Zenon
  <2>3. (n % m) = r + p
    BY <1>6, <2>2, ModUnique
  <2> QED
    BY <1>1, <1>3, <1>7, <2>3, Zenon
<1>8. CASE q = 2 * h /\ (q % 2) = 0
  <2>1. n = (h * m) + r
    BY <1>1, <1>4, <1>5, <1>8, Zenon
  <2>2. (n % m) = r
    BY <1>6, <2>1, ModUnique
  <2>3. r = r + 0 /\ ((n \div p) % 2) # 1
    BY <1>1, <1>8
  <2> QED
    BY <1>1, <1>3, <2>2, <2>3, Zenon
<1> QED
  BY <1>2, <1>7, <1>8

(* A further bit of a number.                                              *)
LEMMA ModDouble ==
    ASSUME NEW n \in Nat, NEW k \in FieldBits
    PROVE  (n % (2 ^ (k + 1))) =
              (n % (2 ^ k)) + (IF ((n \div (2 ^ k)) % 2) = 1 THEN 2 ^ k ELSE 0)
<1>1. 2 ^ k \in Nat \ {0} /\ 2 ^ (k + 1) = 2 * 2 ^ k
  BY PowerOfBit
<1> QED
  BY <1>1, ModTwice, Zenon

-----------------------------------------------------------------------------
(* The number a set of bits stands for, as a sum from its lowest bit.      *)

Bit(s, k) == IF k \in s THEN 2 ^ k ELSE 0
Partial(s, f, n) == /\ f \in [0 .. n -> Nat]
                    /\ f[0] = 0
                    /\ \A k \in 0 .. (n - 1) : f[k + 1] = f[k] + Bit(s, k)
SumF(s) == CHOOSE f : Partial(s, f, 17)

LEMMA BitNat ==
    ASSUME NEW s, NEW k \in FieldBits
    PROVE  Bit(s, k) \in Nat
BY PowerOfBit DEF Bit

LEMMA PartialExists ==
    ASSUME NEW s, NEW n \in 0 .. 17
    PROVE  \E f : Partial(s, f, n)
<1> DEFINE G == {m \in Nat : m > 17 \/ \E f : Partial(s, f, m)}
<1>1. 0 \in G
  <2>1. Partial(s, [k \in 0 .. 0 |-> 0], 0)
    BY DEF Partial
  <2> QED
    BY <2>1
<1>2. ASSUME NEW m \in Nat, m \in G PROVE m + 1 \in G
  <2> SUFFICES ASSUME m < 17 PROVE \E f : Partial(s, f, m + 1)
    OBVIOUS
  <2>1. PICK f : Partial(s, f, m)
    BY <1>2
  <2>2. m \in FieldBits /\ Bit(s, m) \in Nat
    BY BitNat DEF FieldBits
  <2>3. PICK g : g = [k \in 0 .. (m + 1) |-> IF k = m + 1 THEN f[m] + Bit(s, m) ELSE f[k]]
    OBVIOUS
  <2>4. g \in [0 .. (m + 1) -> Nat] /\ g[0] = 0
    BY <2>1, <2>2, <2>3 DEF Partial
  <2>5. ASSUME NEW k \in 0 .. ((m + 1) - 1) PROVE g[k + 1] = g[k] + Bit(s, k)
    <3>1. CASE k = m
      <4>1. g[k + 1] = f[m] + Bit(s, m) /\ g[k] = f[m]
        BY <2>3, <3>1
      <4> QED
        BY <3>1, <4>1
    <3>2. CASE k # m
      <4>1. k \in 0 .. (m - 1)
        BY <3>2
      <4>2. g[k + 1] = f[k + 1] /\ g[k] = f[k]
        BY <2>3, <4>1
      <4> QED
        BY <2>1, <4>1, <4>2 DEF Partial
    <3> QED
      BY <3>1, <3>2
  <2>6. Partial(s, g, m + 1)
    BY <2>4, <2>5 DEF Partial
  <2> QED
    BY <2>6
<1> HIDE DEF G
<1>3. Nat \subseteq G
  BY <1>1, <1>2, AllNumbers
<1>4. n \in G /\ ~(n > 17)
  BY <1>3
<1> QED
  BY <1>4 DEF G

LEMMA SumFacts ==
    ASSUME NEW s
    PROVE  /\ \A k \in 0 .. 17 : SumF(s)[k] \in Nat
           /\ SumF(s)[0] = 0
           /\ \A k \in FieldBits : SumF(s)[k + 1] = SumF(s)[k] + Bit(s, k)
<1>1. Partial(s, SumF(s), 17)
  BY PartialExists DEF SumF
<1> QED
  BY <1>1 DEF Partial, FieldBits

(* A bit less, its power less, in the partial sums that have it.           *)
LEMMA SumWithout ==
    ASSUME NEW s, NEW x \in FieldBits, x \in s, NEW n \in 0 .. 17
    PROVE  SumF(s)[n] = SumF(s \ {x})[n] + (IF x < n THEN 2 ^ x ELSE 0)
<1> DEFINE G == {m \in Nat : m > 17 \/ SumF(s)[m] = SumF(s \ {x})[m]
                                                       + (IF x < m THEN 2 ^ x ELSE 0)}
<1>1. 0 \in G
  BY SumFacts DEF FieldBits
<1>2. ASSUME NEW m \in Nat, m \in G PROVE m + 1 \in G
  <2> SUFFICES ASSUME m < 17
               PROVE  SumF(s)[m + 1] = SumF(s \ {x})[m + 1]
                                          + (IF x < m + 1 THEN 2 ^ x ELSE 0)
    OBVIOUS
  <2>0. 2 ^ x \in Nat
    BY PowerOfBit
  <2>1. m \in FieldBits /\ m \in 0 .. 17 /\ 2 ^ x \in Nat
    BY <2>0 DEF FieldBits
  <2>2. PICK a : a = SumF(s)[m]
    OBVIOUS
  <2>3. PICK b \in Nat : b = SumF(s \ {x})[m]
    BY <2>1, SumFacts
  <2>4. PICK p \in Nat : p = 2 ^ x
    BY <2>1
  <2>5. a = b + (IF x < m THEN p ELSE 0)
    BY <1>2, <2>2, <2>3, <2>4
  <2>6. SumF(s)[m + 1] = a + Bit(s, m) /\ SumF(s \ {x})[m + 1] = b + Bit(s \ {x}, m)
    BY <2>1, <2>2, <2>3, SumFacts, Zenon
  <2>7. CASE x = m
    <3>1. Bit(s, m) = p /\ Bit(s \ {x}, m) = 0
      BY <2>4, <2>7 DEF Bit
    <3> QED
      BY <2>4, <2>5, <2>6, <2>7, <3>1 DEF FieldBits
  <2>8. CASE x # m
    <3>1. PICK c \in Nat : c = Bit(s, m) /\ c = Bit(s \ {x}, m)
      BY <2>1, <2>8, BitNat DEF Bit
    <3>2. x < m <=> x < m + 1
      BY <2>8 DEF FieldBits
    <3> QED
      BY <2>3, <2>4, <2>5, <2>6, <3>1, <3>2
  <2> QED
    BY <2>7, <2>8
<1> HIDE DEF G
<1>3. Nat \subseteq G
  BY <1>1, <1>2, AllNumbers
<1>4. n \in G /\ ~(n > 17)
  BY <1>3
<1> QED
  BY <1>4 DEF G

LEMMA SumEmpty ==
    ASSUME NEW n \in 0 .. 17
    PROVE  SumF({})[n] = 0
<1> DEFINE G == {m \in Nat : m > 17 \/ SumF({})[m] = 0}
<1>1. 0 \in G
  BY SumFacts
<1>2. ASSUME NEW m \in Nat, m \in G PROVE m + 1 \in G
  BY <1>2, SumFacts DEF Bit, FieldBits
<1> HIDE DEF G
<1>3. Nat \subseteq G
  BY <1>1, <1>2, AllNumbers
<1> QED
  BY <1>3 DEF G

(* The sum has the recursion by which the community module defines it: it  *)
(* takes one bit after the other, in any order.                            *)
Sum(s) == SumF(s)[17]
OneOf(s) == CHOOSE x \in s : TRUE
IsIter(S, f) == f = [s \in SUBSET S |-> IF s = {} THEN 0
                                        ELSE (2 ^ OneOf(s)) + f[s \ {OneOf(s)}]]
Iter(S) == CHOOSE f : IsIter(S, f)

LEMMA ValueIsIter == ASSUME NEW S PROVE W!Value(S) = Iter(S)[S]
BY DEF W!Value, W!MapThenSumSet, W!MapThenFoldSet, Iter, IsIter, OneOf

LEMMA SumOneLess ==
    ASSUME NEW s \in SUBSET FieldBits, s # {}
    PROVE  /\ Sum(s) \in Nat /\ Sum(s \ {OneOf(s)}) \in Nat
           /\ Sum(s) = 2 ^ OneOf(s) + Sum(s \ {OneOf(s)})
           /\ Sum(s \ {OneOf(s)}) < Sum(s)
<1>1. PICK x \in FieldBits : x = OneOf(s) /\ x \in s
  BY DEF OneOf
<1>2. 2 ^ x \in Nat \ {0}
  BY PowerOfBit
<1>3. x < 17
  BY DEF FieldBits
<1>4. Sum(s) = Sum(s \ {x}) + 2 ^ x
  BY <1>1, <1>3, SumWithout DEF Sum
<1>5. Sum(s) \in Nat /\ Sum(s \ {x}) \in Nat
  BY SumFacts DEF Sum
<1> QED
  BY <1>1, <1>2, <1>4, <1>5

LEMMA IterSum ==
    ASSUME NEW S \in SUBSET FieldBits
    PROVE  \A s \in SUBSET S : Iter(S)[s] = Sum(s)
<1> DEFINE g == [s \in SUBSET S |-> Sum(s)]
<1>1. \A s \in SUBSET S : s = {} => Sum(s) = 0
  BY SumEmpty DEF Sum
<1>2. \A s \in SUBSET S : s # {} => Sum(s) = 2 ^ OneOf(s) + g[s \ {OneOf(s)}]
  BY SumOneLess
<1>3. IsIter(S, g)
  BY <1>1, <1>2, Zenon DEF IsIter
<1>4. IsIter(S, Iter(S))
  BY <1>3, Zenon DEF Iter
<1>5. PICK f : f = Iter(S) /\ f = [s \in SUBSET S |-> IF s = {} THEN 0
                                        ELSE (2 ^ OneOf(s)) + f[s \ {OneOf(s)}]]
  BY <1>4 DEF IsIter
<1> DEFINE T == {Sum(s) : s \in {r \in SUBSET S : f[r] # Sum(r)}}
<1> SUFFICES ASSUME NEW s0 \in SUBSET S, f[s0] # Sum(s0) PROVE FALSE
  BY <1>5
<1>6. T \in SUBSET Nat /\ T # {}
  BY SumFacts DEF Sum
<1>7. PICK n \in T : \A m \in T : n <= m
  BY <1>6, LeastOf
<1>8. PICK s \in SUBSET S : f[s] # Sum(s) /\ n = Sum(s)
  BY <1>7
<1>9. CASE s = {}
  BY <1>1, <1>5, <1>8, <1>9
<1>10. CASE s # {}
  <2> DEFINE r == s \ {OneOf(s)}
  <2>1. /\ Sum(s) \in Nat /\ Sum(r) \in Nat /\ Sum(s) = 2 ^ OneOf(s) + Sum(r) /\ Sum(r) < Sum(s)
    BY <1>10, SumOneLess
  <2>2. f[r] = Sum(r)
    <3>1. ~(n <= Sum(r))
      BY <1>8, <2>1
    <3>2. Sum(r) \notin T
      BY <1>7, <3>1
    <3> QED
      BY <3>2
  <2>3. f[s] = 2 ^ OneOf(s) + f[r]
    BY <1>5, <1>10
  <2> QED
    BY <1>8, <2>1, <2>2, <2>3
<1> QED
  BY <1>9, <1>10

LEMMA ValueIsSum ==
    ASSUME NEW S \in SUBSET FieldBits
    PROVE  W!Value(S) = Sum(S)
BY ValueIsIter, IterSum

(* The lowest bits of a number are the number modulo their power.          *)
LEMMA LowBits ==
    ASSUME NEW n \in Nat, NEW j \in 0 .. 17, NEW s \in SUBSET FieldBits,
           \A b \in FieldBits : b \in s <=> b < j /\ ((n \div (2 ^ b)) % 2) = 1
    PROVE  W!Value(s) = n % (2 ^ j)
<1> DEFINE G == {k \in Nat : k > 17 \/ SumF(s)[k] = (n % (2 ^ (IF k < j THEN k ELSE j)))}
<1>1. 0 \in G
  <2>1. (IF 0 < j THEN 0 ELSE j) = 0
    OBVIOUS
  <2>2. (n % 1) = 0
    OBVIOUS
  <2>3. 2 ^ 0 = 1 /\ SumF(s)[0] = 0
    BY SumFacts
  <2>4. SumF(s)[0] = (n % (2 ^ (IF 0 < j THEN 0 ELSE j)))
    BY <2>1, <2>2, <2>3, Zenon
  <2> QED
    BY <2>4
<1>2. ASSUME NEW k \in Nat, k \in G PROVE k + 1 \in G
  <2> SUFFICES ASSUME k < 17 PROVE k + 1 \in G
    OBVIOUS
  <2>1. k \in FieldBits
    BY DEF FieldBits
  <2>2. SumF(s)[k + 1] = SumF(s)[k] + Bit(s, k) /\ SumF(s)[k] \in Nat
    BY <2>1, SumFacts DEF FieldBits
  <2>3. CASE k < j
    <3>1. SumF(s)[k] = (n % (2 ^ k))
      BY <1>2, <2>3
    <3>2. Bit(s, k) = IF ((n \div (2 ^ k)) % 2) = 1 THEN 2 ^ k ELSE 0
      BY <2>1, <2>3 DEF Bit
    <3>3. SumF(s)[k + 1] = (n % (2 ^ (k + 1)))
      BY <2>1, <2>2, <3>1, <3>2, ModDouble, Zenon
    <3>4. k + 1 < j \/ k + 1 = j
      BY <2>3
    <3> QED
      BY <3>3, <3>4
  <2>4. CASE ~(k < j)
    <3>1. SumF(s)[k] = (n % (2 ^ j))
      BY <1>2, <2>4
    <3>2. Bit(s, k) = 0
      BY <2>1, <2>4 DEF Bit
    <3>3. SumF(s)[k + 1] = (n % (2 ^ j))
      BY <2>2, <3>1, <3>2
    <3> QED
      BY <2>4, <3>3
  <2> QED
    BY <2>3, <2>4
<1> HIDE DEF G
<1>3. Nat \subseteq G
  BY <1>1, <1>2, AllNumbers
<1>4. SumF(s)[17] = (n % (2 ^ j))
  BY <1>3 DEF G
<1> QED
  BY <1>4, ValueIsSum DEF Sum

-----------------------------------------------------------------------------
(* The fields of the word that flushes a way of L1.                        *)

LEMMA Log2Of ==
    ASSUME NEW n \in Powers
    PROVE  Log2(n) \in 1 .. 17 /\ 2 ^ Log2(n) = n
<1>1. \E b \in 0 .. 17 : 2 ^ b = n
  BY PowersOfTwo DEF Powers
<1>2. Log2(n) \in 0 .. 17 /\ 2 ^ Log2(n) = n
  BY <1>1 DEF Log2
<1>3. Log2(n) # 0
  <2>1. 2 ^ 0 = 1 /\ n # 1
    BY DEF Powers
  <2> QED
    BY <1>2, <2>1, Zenon
<1> QED
  BY <1>2, <1>3

LEMMA Log2Four == Log2(4) = 2
<1>1. 4 \in Powers
  BY DEF Powers
<1>2. PICK b \in 1 .. 17 : b = Log2(4) /\ 2 ^ b = 4
  BY <1>1, Log2Of
<1>3. b # 1
  <2>1. 2 ^ 1 = 2 /\ 2 # 4
    OBVIOUS
  <2> QED
    BY <1>2, <2>1, Zenon
<1>4. ASSUME b >= 3 PROVE FALSE
  <2>1. PICK c \in FieldBits : b = ((c + 1) + 1) + 1
    <3>1. b - 3 \in FieldBits /\ b = (((b - 3) + 1) + 1) + 1
      BY <1>4 DEF FieldBits
    <3> QED
      BY <3>1
  <2>2. c + 1 \in FieldBits /\ (c + 1) + 1 \in FieldBits
    BY <2>1 DEF FieldBits
  <2>3. PICK p \in Nat \ {0} : p = 2 ^ c
    BY PowerOfBit
  <2>4. 2 ^ (c + 1) = 2 * p
    BY <2>3, PowerOfBit
  <2>5. 2 ^ ((c + 1) + 1) = 2 * (2 * p)
    BY <2>2, <2>4, PowerOfBit
  <2>6. 2 ^ b = 2 * (2 * (2 * p))
    BY <2>1, <2>2, <2>5, PowerOfBit
  <2> QED
    BY <1>2, <2>3, <2>6
<1> QED
  BY <1>2, <1>3, <1>4

(* Bits 6 and up of the word are those of the set, bits 30 and 31 those of *)
(* the way.                                                                *)
LEMMA WordBits ==
    ASSUME NEW set, NEW way, NEW b \in 0 .. 31
    PROVE  /\ b < 6 => b \notin flush_l1_word(set, way)
           /\ b >= 6 /\ b < 30
                 => (b \in flush_l1_word(set, way) <=> b - 6 \in BitsOf(set))
           /\ b >= 30 => (b \in flush_l1_word(set, way) <=> b - 30 \in BitsOf(way))
<1>1. BitsOf(set) \subseteq 0 .. 17 /\ BitsOf(way) \subseteq 0 .. 17
  BY DEF BitsOf
<1> QED
  BY <1>1 DEF flush_l1_word, W!Or, W!Shl, W!Bits

LEMMA LevelField ==
    ASSUME NEW set, NEW way
    PROVE  W!Field(flush_l1_word(set, way), 3, 1) = {}
<1>1. \A b \in 1 .. 3 : b \notin flush_l1_word(set, way)
  BY WordBits
<1> QED
  BY <1>1 DEF W!Field

LEMMA SetField ==
    ASSUME NEW set \in Nat, NEW way
    PROVE  W!Value(W!Field(flush_l1_word(set, way), 5 + Log2(l1_sets), 6)) = (set % l1_sets)
<1> DEFINE word == flush_l1_word(set, way)
<1>1. PICK j \in 1 .. 17 : j = Log2(l1_sets) /\ 2 ^ j = l1_sets
  BY GeometryAssumption, Log2Of
<1>2. PICK s : s = W!Field(word, 5 + j, 6)
  OBVIOUS
<1>3. \A b \in 6 .. (5 + j) : b \in word <=> b - 6 \in BitsOf(set)
  BY WordBits
<1>4. \A c : c \in s <=> \E b \in 6 .. (5 + j) : b \in word /\ c = b - 6
  BY <1>2 DEF W!Field
<1>5. s \in SUBSET FieldBits
  BY <1>4 DEF FieldBits
<1>6. ASSUME NEW c \in FieldBits
      PROVE  c \in s <=> c < j /\ ((set \div (2 ^ c)) % 2) = 1
  <2>1. c \in BitsOf(set) <=> ((set \div (2 ^ c)) % 2) = 1
    BY DEF BitsOf, FieldBits
  <2>2. c \in s <=> c < j /\ c \in BitsOf(set)
    <3>1. c < j => c + 6 \in 6 .. (5 + j) /\ (c + 6) - 6 = c
      BY DEF FieldBits
    <3>2. \A b \in 6 .. (5 + j) : c = b - 6 => c < j /\ b = c + 6
      BY DEF FieldBits
    <3> QED
      BY <1>3, <1>4, <3>1, <3>2
  <2> QED
    BY <2>1, <2>2
<1>7. W!Value(s) = (set % (2 ^ j))
  <2>1. j \in 0 .. 17
    OBVIOUS
  <2> QED
    BY <1>5, <1>6, <2>1, LowBits
<1> QED
  BY <1>1, <1>2, <1>7

LEMMA WayField ==
    ASSUME l1_ways = 4, NEW set, NEW way \in Ways
    PROVE  W!Value(W!Field(flush_l1_word(set, way), 31, 32 - Log2(l1_ways))) = way
<1> DEFINE word == flush_l1_word(set, way)
<1>1. 32 - Log2(l1_ways) = 30
  BY Log2Four
<1>2. PICK s : s = W!Field(word, 31, 30)
  OBVIOUS
<1>3. \A b \in 30 .. 31 : b \in word <=> b - 30 \in BitsOf(way)
  BY WordBits
<1>4. \A c : c \in s <=> \E b \in 30 .. 31 : b \in word /\ c = b - 30
  BY <1>2 DEF W!Field
<1>5. s \in SUBSET FieldBits
  BY <1>4 DEF FieldBits
<1>6. ASSUME NEW c \in FieldBits
      PROVE  c \in s <=> c < 2 /\ ((way \div (2 ^ c)) % 2) = 1
  <2>1. c \in BitsOf(way) <=> ((way \div (2 ^ c)) % 2) = 1
    BY DEF BitsOf, FieldBits
  <2>2. c \in s <=> c < 2 /\ c \in BitsOf(way)
    <3>1. c < 2 => c + 30 \in 30 .. 31 /\ (c + 30) - 30 = c
      BY DEF FieldBits
    <3>2. \A b \in 30 .. 31 : c = b - 30 => c < 2 /\ b = c + 30
      BY DEF FieldBits
    <3> QED
      BY <1>3, <1>4, <3>1, <3>2
  <2> QED
    BY <2>1, <2>2
<1>7. way \in 0 .. 3
  BY DEF Ways
<1>8. W!Value(s) = (way % (2 ^ 2))
  BY <1>5, <1>6, <1>7, LowBits
<1>9. (way % (2 ^ 2)) = way
  BY <1>7, PowersOfTwo
<1> QED
  BY <1>1, <1>2, <1>8, <1>9

(* The word by which the module flushes a way of L1 names level 1 and the  *)
(* set, also where the preload has counted past the last set.              *)
FlushNamesSet ==
    \A s \in 0 .. (2 * l1_sets - 1) :
        LET word == flush_l1_word(s, l1_ways - 1)
        IN /\ W!Field(word, 3, 1) = {}
           /\ W!Value(W!Field(word, 5 + Log2(l1_sets), 6)) = (s % l1_sets)

(* The word by which the module flushes a way of L1 names level, set and   *)
(* way as the processor reads them.                                        *)
FlushNamesWay ==
    \A s \in Sets, w \in Ways :
        LET word == flush_l1_word(s, w)
        IN /\ W!Field(word, 3, 1) = {}
           /\ W!Value(W!Field(word, 5 + Log2(l1_sets), 6)) = s
           /\ W!Value(W!Field(word, 31, 32 - Log2(l1_ways))) = w

(* However many sets L1 has, the processor takes the set that the module   *)
(* meant from the word of its flush: one further bit of the number for     *)
(* each bit of the field (arm64/cache.h).                                  *)
THEOREM FlushNamesSetHolds == FlushNamesSet
<1>1. l1_sets \in Nat
  BY GeometryAssumption DEF Powers
<1>2. \A s \in 0 .. (2 * l1_sets - 1) : s \in Nat
  BY <1>1
<1> QED
  BY <1>2, LevelField, SetField DEF FlushNamesSet

(* It takes the way that the module meant if there are four of them, the   *)
(* number for which the word puts the way in the two uppermost bits.       *)
THEOREM FlushNamesWayHolds == l1_ways = 4 => FlushNamesWay
<1>1. l1_sets \in Nat \ {0}
  BY GeometryAssumption DEF Powers
<1>2. \A s \in Sets : s \in Nat /\ (s % l1_sets) = s
  BY <1>1 DEF Sets
<1> QED
  BY <1>2, LevelField, SetField, WayField DEF FlushNamesWay

-----------------------------------------------------------------------------
(* The module on a core with an L1 cache: any replacement policy, any      *)
(* number of tasks on the core and any other loads.                        *)

(* The other tasks on the core have sections to which the increments of    *)
(* the set numbers apply.                                                  *)
OthersFit == \A t \in Tasks, u \in Tasks : t # u /\ Open(u) => OneLineASet(u)

-----------------------------------------------------------------------------
(* Lines of memory.                                                        *)

LEMMA SetOfPa == ASSUME NEW pa \in Nat PROVE L1SetIdx(pa) \in Sets
<1>1. pa \div CACHE_LINE_SIZE \in Int /\ IndexRange(l1_sets) = l1_sets
  BY DivNat, Sizes, GeometryAssumption DEF IndexRange
<1>2. (pa \div CACHE_LINE_SIZE) % l1_sets \in 0 .. (l1_sets - 1)
  BY <1>1, Sizes, ModNat, Zenon
<1> QED
  BY <1>1, <1>2 DEF L1SetIdx, SetIdx, Sets

(* A line of a mapped page lies on a line of its frame.                    *)
LEMMA PaOfLine ==
    ASSUME TypeOK, NEW t \in Tasks, NEW va \in Nat, (va % CACHE_LINE_SIZE) = 0, Mapped(t, va)
    PROVE  /\ \E p \in Nat : Pa(t, va) = CACHE_LINE_SIZE * p
           /\ LineOf(Pa(t, va)) = Pa(t, va)
           /\ Set(t, va) \in Sets
<1>1. PICK m \in Nat : PAGE_SIZE = CACHE_LINE_SIZE * m
  BY Sizes, LineMultiple
<1>2. PICK k \in Nat : va = CACHE_LINE_SIZE * k
  BY LineMultiple
<1>3. PICK f \in Nat : f = frame[t][PageOf(va)]
  BY FrameNat
<1>4. PICK d \in Nat : d = va \div PAGE_SIZE
  BY Sizes, DivNat
<1>5. PICK r \in 0 .. (PAGE_SIZE - 1) : r = va % PAGE_SIZE
  <2>1. va \in Int
    OBVIOUS
  <2> QED
    BY <2>1, Sizes, ModNat, Zenon
<1>6. va = PAGE_SIZE * d + r
  BY <1>4, <1>5, Sizes
<1>7. PICK e \in Nat : e = m * d
  BY <1>1, <1>4
<1>8. PAGE_SIZE * d = CACHE_LINE_SIZE * e
  BY <1>1, <1>4, <1>7, Sizes
<1>9. e <= k
  <2>1. ASSUME e > k PROVE FALSE
    <3>1. PICK c \in Nat : e = k + 1 + c
      <4>1. e - k - 1 \in Nat /\ e = k + 1 + (e - k - 1)
        BY <2>1
      <4> QED
        BY <4>1
    <3>2. CACHE_LINE_SIZE * e = CACHE_LINE_SIZE * k + CACHE_LINE_SIZE + CACHE_LINE_SIZE * c
      BY <3>1, Sizes
    <3>3. CACHE_LINE_SIZE * c \in Nat /\ CACHE_LINE_SIZE * k \in Nat
      BY <3>1, Sizes
    <3> QED
      BY <1>2, <1>5, <1>6, <1>8, <3>2, <3>3, Sizes
  <2> QED
    BY <2>1
<1>10. PICK c \in Nat : k = e + c
  <2>1. k - e \in Nat /\ k = e + (k - e)
    BY <1>9
  <2> QED
    BY <2>1
<1>11. r = CACHE_LINE_SIZE * c
  <2>1. CACHE_LINE_SIZE * k = CACHE_LINE_SIZE * e + CACHE_LINE_SIZE * c
    BY <1>10, Sizes
  <2>2. CACHE_LINE_SIZE * e \in Nat /\ CACHE_LINE_SIZE * c \in Nat
    BY Sizes
  <2> QED
    BY <1>2, <1>5, <1>6, <1>8, <2>1, <2>2
<1>12. PICK g \in Nat : g = f * m
  OBVIOUS
<1>13. f * PAGE_SIZE = CACHE_LINE_SIZE * g
  BY <1>1, <1>12, Sizes
<1>14. Pa(t, va) = CACHE_LINE_SIZE * (g + c)
  <2>1. Pa(t, va) = CACHE_LINE_SIZE * g + CACHE_LINE_SIZE * c
    BY <1>3, <1>5, <1>11, <1>13 DEF Pa
  <2>2. CACHE_LINE_SIZE * (g + c) = CACHE_LINE_SIZE * g + CACHE_LINE_SIZE * c
    BY Sizes
  <2> QED
    BY <2>1, <2>2
<1>15. g + c \in Nat /\ CACHE_LINE_SIZE * (g + c) \in Nat
  BY Sizes
<1>16. (CACHE_LINE_SIZE * (g + c)) \div CACHE_LINE_SIZE = g + c
  BY <1>15, Sizes, DivMultiple
<1>17. (g + c) * CACHE_LINE_SIZE = CACHE_LINE_SIZE * (g + c)
  BY <1>15, Sizes
<1>18. LineOf(Pa(t, va)) = Pa(t, va)
  BY <1>14, <1>16, <1>17 DEF LineOf
<1> QED
  BY <1>14, <1>15, <1>18, SetOfPa DEF Set

-----------------------------------------------------------------------------
(* What the handlers keep while the cache is not looked at.                *)

(* A thread without a section, outside INIT and EXIT, has an empty row.    *)
Unregistered(t) == ~Open(t) /\ ~Registering(t) /\ ~Leaving(t) => Cleared(Region(t))

(* No line of the section that INIT is about to grant is prefetched.       *)
NotYet(t) ==
    LET sva == LineOf(loc[t].q.dsva)
        eva == LineOf(loc[t].q.deva)
    IN /\ At(t, "init_line") => Lines(sva, loc[t].va) \cap prefetched[t] = {}
       /\ pc[t] \in {"init_eva", "init_flag"} => Lines(sva, eva) \cap prefetched[t] = {}

(* The preload counts the set numbers up from that of the first line.      *)
Counted(t) ==
    LET sva == Region(t).sva
    IN /\ Open(t) /\ At(t, "preload_line") => sva <= loc[t].va
       /\ Open(t) /\ sva < Region(t).eva =>
              /\ At(t, "preload_first") => loc[t].set1 = Set(t, sva)
              /\ At(t, "preload_line") =>
                     \E k \in Nat : /\ loc[t].va = sva + CACHE_LINE_SIZE * k
                                    /\ loc[t].set1 = Set(t, sva) + k

HandlerInv == \A t \in Tasks : Unregistered(t) /\ NotYet(t) /\ Counted(t)

LEMMA HandlerInit == Init => HandlerInv
BY SlotOfTask DEF Init, HandlerInv, Unregistered, NotYet, Counted, Open, At,
                  Cleared, Region, NoRegion

LEMMA UnregisteredKept ==
    ASSUME TypeOK, NEW t \in Tasks, PhaseOK(t), Unregistered(t),
           User(t) \/ Handler(t) \/ Memory(t)
    PROVE  Unregistered(t)'
<1>0. get_pid_idx(t) \in Slots
  BY SlotOfTask
<1>1. CASE InitLineFails(t) \/ ExitStoreFlag(t)
  <2>1. Cleared(Region(t))
    BY <1>1 DEF InitLineFails, ExitStoreFlag, PhaseOK, At
  <2>2. Region(t)'.sva = Region(t).sva /\ Region(t)'.eva = Region(t).eva
    BY <1>0, <1>1 DEF InitLineFails, ExitStoreFlag, StoreRegion, Region, TypeOK, tables
  <2> QED
    BY <2>1, <2>2 DEF Unregistered, Cleared
<1>2. CASE InitStoreFlag(t)
  <2>1. loc[t].q \in Requests /\ granted'[t] = loc[t].q
    BY <1>2 DEF InitStoreFlag, PhaseOK, Registering, At, TypeOK
  <2>2. loc[t].q # NoRequest
    <3>1. loc[t].q.dsva >= PAGE_SIZE
      BY <2>1, LkmAssumption
    <3>2. NoRequest.dsva = 0
      BY DEF NoRequest
    <3> QED
      BY <3>1, <3>2, Sizes
  <2> QED
    BY <2>1, <2>2 DEF Unregistered, Open
<1>3. CASE InitStoreSva(t) \/ InitStoreEva(t) \/ InitLine(t) \/ \E q \in Requests : InitAccept(t, q)
  <2>1. Registering(t)'
    BY <1>3 DEF InitStoreSva, InitStoreEva, InitLine, InitLineAt, InitAccept, Registering, At,
                Goto, TypeOK
  <2> QED
    BY <2>1 DEF Unregistered
<1>4. CASE ExitStoreSva(t) \/ ExitStoreEva(t) \/ \E q \in Requests : ExitFlush(t, q)
  <2>1. Leaving(t)'
    BY <1>4 DEF ExitStoreSva, ExitStoreEva, ExitFlush, Leaving, Goto, TypeOK
  <2> QED
    BY <2>1 DEF Unregistered
<1>5. CASE PreloadDone(t)
  <2>1. /\ granted' = granted /\ pc[t] = "preload_done"
        /\ Region(t)'.sva = Region(t).sva /\ Region(t)'.eva = Region(t).eva
    BY <1>0, <1>5 DEF PreloadDone, StoreRegion, Region, TypeOK, At
  <2> QED
    BY <2>1 DEF Unregistered, Open, Registering, Leaving, Cleared
<1>6. CASE Memory(t) \/ InitRefuse(t) \/ (\E x \in Accesses : Trap(t, x)) \/ PreloadSkip(t)
           \/ PreloadNeeded(t) \/ PreloadSets(t) \/ PreloadFirst(t) \/ PreloadLine(t)
           \/ PreloadEnd(t) \/ LoadHit(t) \/ LoadMiss(t) \/ LookupZ(t)
           \/ LookupUnrelated(t) \/ LookupRelated(t) \/ Refill(t)
  <2>1. granted' = granted /\ sdata_region' = sdata_region
    BY <1>6 DEF Memory, PageIn, PageOut, InitRefuse, Trap, PreloadSkip, PreloadNeeded, PreloadSets,
                PreloadFirst, PreloadLine, PreloadEnd, LoadHit, LoadMiss, LookupZ,
                LookupUnrelated, LookupRelated, Refill, tables
  <2>2. (Registering(t) => Registering(t)') /\ (Leaving(t) => Leaving(t)')
    BY <1>6 DEF Memory, PageIn, PageOut, InitRefuse, Trap, PreloadSkip, PreloadNeeded, PreloadSets,
                PreloadFirst, PreloadLine, PreloadEnd, LoadHit, LoadMiss, LookupZ,
                LookupUnrelated, LookupRelated, Refill, Registering, Leaving, At
  <2> QED
    BY <2>1, <2>2 DEF Unregistered, Open, Region
<1> QED
  BY <1>1, <1>2, <1>3, <1>4, <1>5, <1>6 DEF User, Handler

LEMMA NotYetKept ==
    ASSUME TypeOK, NEW t \in Tasks, PhaseOK(t), SectionOK(t), NotYet(t),
           User(t) \/ Handler(t) \/ Memory(t)
    PROVE  NotYet(t)'
<1>1. CASE ~Registering(t)'
  BY <1>1 DEF NotYet, Registering, At
<1>2. CASE Memory(t) \/ InitRefuse(t)
  <2>1. pc' = pc /\ loc' = loc /\ prefetched'[t] \subseteq prefetched[t]
    BY <1>2 DEF Memory, PageIn, PageOut, InitRefuse, TypeOK
  <2> QED
    BY <2>1 DEF NotYet, At
<1>3. ASSUME NEW q \in Requests, InitAccept(t, q) PROVE NotYet(t)'
  <2>1. loc'[t].q = q /\ loc'[t].va = LineOf(q.dsva) /\ pc'[t] = "init_line"
    BY <1>3 DEF InitAccept, Goto, TypeOK, Locals
  <2>2. LineOf(q.dsva) \in Nat
    BY RequestNat
  <2>3. Lines(LineOf(q.dsva), LineOf(q.dsva)) = {}
    BY <2>2 DEF Lines
  <2> QED
    BY <2>1, <2>3 DEF NotYet, At
<1>4. ASSUME Registering(t)
      PROVE  /\ LineOf(loc[t].q.dsva) \in Nat /\ LineOf(loc[t].q.deva) \in Nat
             /\ loc[t].va \in Nat
  BY <1>4, RequestNat DEF PhaseOK, TypeOK, Locals
<1>5. CASE InitLine(t)
  <2>1. PICK sva \in Nat, va \in Nat : sva = LineOf(loc[t].q.dsva) /\ va = loc[t].va
    BY <1>4, <1>5 DEF InitLine, InitLineAt, Registering, At
  <2>2. /\ pc[t] = "init_line" /\ pc'[t] = "init_line"
        /\ loc'[t].q = loc[t].q /\ loc'[t].va = va + CACHE_LINE_SIZE
    BY <1>5, <2>1 DEF InitLine, InitLineAt, At, TypeOK, Locals
  <2>7. prefetched'[t] \subseteq prefetched[t] /\ va \notin prefetched'[t]
    <3>1. Flush(t, {va}) /\ Mapped(t, va)
      BY <1>5, <2>1 DEF InitLine, InitLineAt
    <3>2. prefetched'[t] = prefetched[t] \ FlushedOf(t, t, {va})
      BY <3>1, FlushEffect
    <3>3. va \in prefetched[t] => va \in FlushedOf(t, t, {va})
      BY <3>1 DEF FlushedOf
    <3> QED
      BY <3>2, <3>3
  <2>3. (va % CACHE_LINE_SIZE) = 0
    BY <2>1, <2>2 DEF SectionOK, InitProgress, At
  <2>4. Lines(sva, va) \cap prefetched[t] = {}
    BY <2>1, <2>2 DEF NotYet, At
  <2>5. ASSUME NEW w \in Lines(sva, va + CACHE_LINE_SIZE) PROVE w \notin prefetched'[t]
    <3>1. w = va \/ w \in Lines(sva, va)
      BY <2>3, LinesUpTo
    <3> QED
      BY <2>7, <2>4, <3>1
  <2>6. Lines(sva, va + CACHE_LINE_SIZE) \cap prefetched'[t] = {}
    BY <2>5
  <2> QED
    BY <2>1, <2>2, <2>6 DEF NotYet, At
<1>6. CASE InitStoreSva(t)
  <2>1. /\ pc[t] = "init_line" /\ pc'[t] = "init_eva" /\ loc' = loc /\ prefetched' = prefetched
        /\ loc[t].va >= LineOf(loc[t].q.deva)
    BY <1>6 DEF InitStoreSva, Goto, At, TypeOK
  <2>2. Lines(LineOf(loc[t].q.dsva), LineOf(loc[t].q.deva))
          \subseteq Lines(LineOf(loc[t].q.dsva), loc[t].va)
    BY <1>4, <2>1 DEF Lines, Registering
  <2> QED
    BY <2>1, <2>2 DEF NotYet, At
<1>7. CASE InitStoreEva(t)
  <2>1. pc[t] = "init_eva" /\ pc'[t] = "init_flag" /\ loc' = loc /\ prefetched' = prefetched
    BY <1>7 DEF InitStoreEva, Goto, At, TypeOK
  <2> QED
    BY <2>1 DEF NotYet, At
<1> QED
  BY <1>1, <1>2, <1>3, <1>5, <1>6, <1>7
     DEF User, Handler, ExitFlush, Trap, InitLineFails, InitStoreFlag, ExitStoreSva,
         ExitStoreEva, ExitStoreFlag, PreloadSkip, PreloadNeeded, PreloadSets,
         PreloadFirst, PreloadLine, PreloadEnd, PreloadDone, LoadHit, LoadMiss, LookupZ,
         LookupUnrelated, LookupRelated, Refill, Return, Goto, At, TypeOK, Registering

LEMMA FirstLine ==
    ASSUME TypeOK, NEW t \in Tasks, OwnsRegion(t), SectionOK(t), Open(t),
           Region(t).sva < Region(t).eva
    PROVE  /\ Region(t).sva \in RegionLines(t) /\ Region(t).sva \in Nat
           /\ (Region(t).sva % CACHE_LINE_SIZE) = 0
           /\ Mapped(t, Region(t).sva) /\ Stays(Region(t).sva)
<1>1. Region(t).sva \in Nat /\ Region(t).eva \in Nat
  BY SlotOfTask DEF Region, TypeOK
<1>2. granted[t] \in Requests
  BY DEF TypeOK, Open
<1>3. (Region(t).sva % CACHE_LINE_SIZE) = 0
  BY <1>2, LineOfAligned, RequestNat DEF OwnsRegion
<1>4. Region(t).sva \in RegionLines(t)
  BY <1>1, <1>3 DEF RegionLines, Lines
<1> QED
  BY <1>1, <1>3, <1>4, RegionLinesStay

LEMMA CountedKept ==
    ASSUME TypeOK, NEW t \in Tasks, OwnsRegion(t), PhaseOK(t), SectionOK(t), Counted(t),
           User(t) \/ Handler(t) \/ Memory(t)
    PROVE  Counted(t)'
<1>1. ASSUME (At(t, "preload_first") \/ At(t, "preload_line"))', Open(t)',
             (Region(t).sva < Region(t).eva)'
      PROVE  /\ At(t, "preload_first")' => (loc[t].set1 = Set(t, Region(t).sva))'
             /\ At(t, "preload_line")' =>
                  \E k \in Nat : /\ (loc[t].va = Region(t).sva + CACHE_LINE_SIZE * k)'
                                 /\ (loc[t].set1 = Set(t, Region(t).sva) + k)'
  <2>1. ~InitStoreFlag(t)
    BY <1>1 DEF InitStoreFlag, Return, Goto, At, TypeOK
  <2>2. PICK sva, eva : sva = Region(t).sva /\ eva = Region(t).eva
    OBVIOUS
  <2>3. /\ Open(t) /\ ~Registering(t) /\ ~Leaving(t)
        /\ Region(t)'.sva = sva /\ Region(t)'.eva = eva
    BY <1>1, <2>1, <2>2, OpenKept
  <2>4. sva < eva
    BY <1>1, <2>3
  <2>5. sva \in Nat /\ (sva % CACHE_LINE_SIZE) = 0 /\ Mapped(t, sva) /\ Stays(sva)
    BY <2>2, <2>3, <2>4, FirstLine
  <2>6. Set(t, sva)' = Set(t, sva)
    BY <2>5, MappingKept DEF Set
  <2>7. PICK s \in Sets : s = Set(t, sva)
    BY <2>5, PaOfLine
  <2>8. s \in Nat
    BY <2>7, Sizes DEF Sets
  <2>9. Region(t)'.sva = sva /\ Set(t, Region(t).sva)' = s
    BY <2>3, <2>6, <2>7 DEF Set, Pa
  <2>10. SUFFICES /\ At(t, "preload_first")' => loc'[t].set1 = s
                  /\ At(t, "preload_line")' =>
                       \E k \in Nat : /\ loc'[t].va = sva + CACHE_LINE_SIZE * k
                                      /\ loc'[t].set1 = s + k
    BY <2>9
  <2>11. /\ At(t, "preload_first") => loc[t].set1 = s
         /\ At(t, "preload_line") =>
               \E k \in Nat : loc[t].va = sva + CACHE_LINE_SIZE * k /\ loc[t].set1 = s + k
    BY <2>2, <2>3, <2>4, <2>7 DEF Counted
  <2>12. CASE Memory(t) \/ InitRefuse(t)
    <3>1. pc' = pc /\ loc' = loc
      BY <2>12 DEF Memory, PageIn, PageOut, InitRefuse
    <3> QED
      BY <2>11, <3>1 DEF At
  <2>13. CASE PreloadSets(t)
    <3>1. pc'[t] = "preload_first" /\ loc'[t].set1 = L1SetIdx(Pa(t, sva))
      BY <2>2, <2>5, <2>13 DEF PreloadSets, ConvertIgnored, Goto, TypeOK, Locals
    <3> QED
      BY <2>7, <3>1 DEF Set, At
  <2>14. CASE PreloadFirst(t)
    <3>1. /\ pc[t] = "preload_first" /\ pc'[t] = "preload_line"
          /\ loc'[t].va = sva /\ loc'[t].set1 = loc[t].set1
      BY <2>2, <2>14 DEF PreloadFirst, Goto, At, TypeOK, Locals
    <3>2. sva = sva + CACHE_LINE_SIZE * 0 /\ s = s + 0 /\ 0 \in Nat
      BY <2>5, <2>8, Sizes
    <3> QED
      BY <2>11, <3>1, <3>2 DEF At
  <2>15. CASE PreloadLine(t)
    <3>1. /\ pc[t] = "preload_line" /\ pc'[t] = "preload_line"
          /\ loc'[t].va = loc[t].va + CACHE_LINE_SIZE /\ loc'[t].set1 = loc[t].set1 + 1
      BY <2>15 DEF PreloadLine, At, TypeOK, Locals
    <3>2. PICK k \in Nat : loc[t].va = sva + CACHE_LINE_SIZE * k /\ loc[t].set1 = s + k
      BY <2>11, <3>1 DEF At
    <3>3. CACHE_LINE_SIZE * (k + 1) = CACHE_LINE_SIZE * k + CACHE_LINE_SIZE
      BY Sizes
    <3>4. CACHE_LINE_SIZE * k \in Nat
      BY Sizes
    <3>5. loc'[t].va = sva + CACHE_LINE_SIZE * (k + 1) /\ loc'[t].set1 = s + (k + 1)
      BY <2>5, <2>8, <3>1, <3>2, <3>3, <3>4, Sizes
    <3> QED
      BY <3>1, <3>5 DEF At
  <2> QED
    BY <1>1, <2>1, <2>12, <2>13, <2>14, <2>15
       DEF User, Handler, InitAccept, ExitFlush, Trap, InitLine, InitLineAt, InitLineFails,
           InitStoreSva, InitStoreEva, ExitStoreSva, ExitStoreEva, ExitStoreFlag,
           PreloadSkip, PreloadNeeded, PreloadEnd, PreloadDone, LoadHit, LoadMiss, LookupZ,
           LookupUnrelated, LookupRelated, Refill, Return, Goto, At, TypeOK
<1>2. ASSUME At(t, "preload_line")', Open(t)'
      PROVE  Region(t)'.sva <= loc'[t].va
  <2>1. ~InitStoreFlag(t)
    BY <1>2 DEF InitStoreFlag, Return, Goto, At, TypeOK
  <2>2. PICK sva \in Nat : sva = Region(t).sva
    BY SlotOfTask DEF Region, TypeOK
  <2>3. Open(t) /\ ~Registering(t) /\ ~Leaving(t) /\ Region(t)'.sva = sva
    BY <1>2, <2>1, <2>2, OpenKept
  <2>4. At(t, "preload_line") => sva <= loc[t].va
    BY <2>2, <2>3 DEF Counted
  <2>5. CASE Memory(t) \/ InitRefuse(t)
    <3>1. pc' = pc /\ loc' = loc
      BY <2>5 DEF Memory, PageIn, PageOut, InitRefuse
    <3> QED
      BY <1>2, <2>3, <2>4, <3>1 DEF At
  <2>6. CASE PreloadFirst(t)
    <3>1. loc'[t].va = sva
      BY <2>2, <2>6 DEF PreloadFirst, TypeOK, Locals
    <3> QED
      BY <2>2, <2>3, <3>1
  <2>7. CASE PreloadLine(t)
    <3>1. /\ pc[t] = "preload_line" /\ loc[t].va \in Nat
          /\ loc'[t].va = loc[t].va + CACHE_LINE_SIZE
      BY <2>7 DEF PreloadLine, At, TypeOK, Locals
    <3> QED
      BY <2>2, <2>3, <2>4, <3>1, Sizes DEF At
  <2> QED
    BY <1>2, <2>1, <2>5, <2>6, <2>7
       DEF User, Handler, InitAccept, ExitFlush, Trap, InitLine, InitLineAt, InitLineFails,
           InitStoreSva, InitStoreEva, ExitStoreSva, ExitStoreEva, ExitStoreFlag, PreloadSets,
           PreloadSkip, PreloadNeeded, PreloadEnd, PreloadDone, LoadHit, LoadMiss, LookupZ,
           LookupUnrelated, LookupRelated, Refill, Return, Goto, At, TypeOK
<1> QED
  BY <1>1, <1>2 DEF Counted

LEMMA HandlerStep ==
    ASSUME SlotsDistinct, TypeOK, RegistrationInv, SectionInv, HandlerInv, [Next]_vars
    PROVE  HandlerInv'
<1>1. CASE UNCHANGED vars
  BY <1>1 DEF vars, tables, HandlerInv, Unregistered, NotYet, Counted, Open, At,
              Registering, Leaving, Cleared, Region, Set, Pa
<1>2. ASSUME NEW t \in Tasks, User(t) \/ Handler(t) \/ Memory(t)
      PROVE  HandlerInv'
  <2>2. ASSUME NEW u \in Tasks PROVE Unregistered(u)' /\ NotYet(u)' /\ Counted(u)'
    <3>1. Unregistered(u) /\ NotYet(u) /\ Counted(u) /\ OwnsRegion(u) /\ PhaseOK(u) /\ SectionOK(u)
      BY DEF HandlerInv, RegistrationInv, OpenOwnsRegion, OwnsRegion, SectionInv
    <3>2. CASE u = t
      BY <1>2, <3>1, <3>2, UnregisteredKept, NotYetKept, CountedKept
    <3>3. CASE u # t
      <4>1. /\ pc'[u] = pc[u] /\ loc'[u] = loc[u] /\ granted'[u] = granted[u]
            /\ sdata_region'[get_pid_idx(u)] = sdata_region[get_pid_idx(u)]
            /\ frame'[u] = frame[u] /\ prefetched'[u] \subseteq prefetched[u]
        BY <1>2, <3>3, OthersKept
      <4> QED
        BY <3>1, <4>1 DEF Unregistered, NotYet, Counted, Open, At, Registering, Leaving,
                          Cleared, Region, Set, Pa
    <3> QED
      BY <3>2, <3>3
  <2> QED
    BY <2>2 DEF HandlerInv
<1> QED
  BY <1>1, <1>2 DEF Next

-----------------------------------------------------------------------------
(* The lines of a section that has an L1 set for each of them.             *)

LEMMA RegionSpan ==
    ASSUME NEW sva \in Nat, NEW eva \in Nat, NEW a \in Nat, NEW d \in Nat,
           CACHE_LINE_SIZE * a \in Lines(sva, eva),
           CACHE_LINE_SIZE * (a + d) \in Lines(sva, eva)
    PROVE  d < Cardinality(Lines(sva, eva))
<1> DEFINE L == Lines(sva, eva)
<1>1. IsFiniteSet(L)
  <2>1. L \in SUBSET Nat /\ \A va \in L : va <= eva
    BY LinesNat
  <2> HIDE DEF L
  <2> QED
    BY <2>1, FS_BoundedSetOfNaturals
<1>2. Cardinality(L) \in Nat
  BY <1>1, FS_CardinalityType
<1>3. IsFiniteSet(0 .. d) /\ Cardinality(0 .. d) = d + 1
  <2>1. 0 \in Int /\ d \in Int /\ ~(0 > d) /\ d - 0 + 1 = d + 1
    OBVIOUS
  <2>2. /\ IsFiniteSet(0 .. d)
        /\ Cardinality(0 .. d) = IF 0 > d THEN 0 ELSE d - 0 + 1
    BY <2>1, FS_Interval, Zenon
  <2> QED
    BY <2>1, <2>2, Zenon
<1>4. ASSUME NEW n \in 0 .. d PROVE CACHE_LINE_SIZE * (a + n) \in L
  <2>1. a + n \in Nat /\ CACHE_LINE_SIZE * (a + n) \in Nat
    BY Sizes
  <2>2. (CACHE_LINE_SIZE * (a + n)) % CACHE_LINE_SIZE = 0
    BY <2>1, LineMultiple
  <2>3. PICK e \in Nat : d = n + e
    <3>1. d - n \in Nat /\ d = n + (d - n)
      OBVIOUS
    <3> QED
      BY <3>1
  <2>4. /\ CACHE_LINE_SIZE * (a + n) = CACHE_LINE_SIZE * a + CACHE_LINE_SIZE * n
        /\ CACHE_LINE_SIZE * (a + d) = CACHE_LINE_SIZE * (a + n) + CACHE_LINE_SIZE * e
    BY <2>3, Sizes
  <2>5. CACHE_LINE_SIZE * n \in Nat /\ CACHE_LINE_SIZE * e \in Nat /\ CACHE_LINE_SIZE * a \in Nat
    BY Sizes
  <2>6. sva <= CACHE_LINE_SIZE * a /\ CACHE_LINE_SIZE * (a + d) < eva
    BY LinesNat
  <2>7. sva <= CACHE_LINE_SIZE * (a + n) /\ CACHE_LINE_SIZE * (a + n) < eva
    BY <2>1, <2>4, <2>5, <2>6
  <2> QED
    BY <2>1, <2>2, <2>7 DEF Lines
<1>5. ASSUME ~(d < Cardinality(L)) PROVE FALSE
  <2> DEFINE f == [n \in 0 .. d |-> CACHE_LINE_SIZE * (a + n)]
  <2>1. f \in [0 .. d -> L]
    BY <1>4
  <2>2. \A n \in 0 .. d : f[n] = CACHE_LINE_SIZE * (a + n)
    OBVIOUS
  <2>3. Cardinality(L) < Cardinality(0 .. d)
    BY <1>2, <1>3, <1>5
  <2> HIDE DEF f, L
  <2>4. PICK n \in 0 .. d, m \in 0 .. d : n # m /\ f[n] = f[m]
    BY <1>1, <1>3, <2>1, <2>3, FS_PigeonHole
  <2>5. a + n \in Nat /\ a + m \in Nat
    OBVIOUS
  <2>6. /\ (CACHE_LINE_SIZE * (a + n)) \div CACHE_LINE_SIZE = a + n
        /\ (CACHE_LINE_SIZE * (a + m)) \div CACHE_LINE_SIZE = a + m
    BY <2>5, Sizes, DivMultiple
  <2>7. a + n = a + m
    BY <2>2, <2>4, <2>6
  <2> QED
    BY <2>4, <2>7
<1> QED
  BY <1>5

(* Lines of such a section lie as far apart in memory as in the program.   *)
LEMMA SectionPas ==
    ASSUME TypeOK, NEW t \in Tasks, OwnsRegion(t), SectionOK(t), Open(t), OneLineASet(t),
           NEW a \in Nat, NEW d \in Nat,
           CACHE_LINE_SIZE * a \in RegionLines(t), CACHE_LINE_SIZE * (a + d) \in RegionLines(t)
    PROVE  /\ d < l1_sets
           /\ \E p \in Nat : /\ Pa(t, CACHE_LINE_SIZE * a) = CACHE_LINE_SIZE * p
                             /\ Pa(t, CACHE_LINE_SIZE * (a + d)) = CACHE_LINE_SIZE * (p + d)
<1>1. PICK sva \in Nat, eva \in Nat : sva = Region(t).sva /\ eva = Region(t).eva
  BY SlotOfTask DEF Region, TypeOK
<1>2. d < l1_sets
  <2>1. d < Cardinality(Lines(sva, eva)) /\ Cardinality(Lines(sva, eva)) <= l1_sets
    BY <1>1, RegionSpan DEF RegionLines, OneLineASet
  <2>2. IsFiniteSet(Lines(sva, eva))
    <3>1. Lines(sva, eva) \in SUBSET Nat /\ \A va \in Lines(sva, eva) : va <= eva
      BY LinesNat
    <3> QED
      BY <3>1, FS_BoundedSetOfNaturals
  <2>3. Cardinality(Lines(sva, eva)) \in Nat
    BY <2>2, FS_CardinalityType
  <2> QED
    BY <2>1, <2>3, Sizes
<1>3. PICK v \in Nat, w \in Nat : v = CACHE_LINE_SIZE * a /\ w = CACHE_LINE_SIZE * (a + d)
  BY Sizes
<1>4. /\ Mapped(t, v) /\ (v % CACHE_LINE_SIZE) = 0
      /\ Mapped(t, w) /\ (w % CACHE_LINE_SIZE) = 0
  BY <1>3, RegionLinesStay
<1>5. sva < eva
  BY <1>1, <1>3, LinesNat DEF RegionLines
<1>6. Mapped(t, sva)
  BY <1>1, <1>5, FirstLine
<1>7. PICK pv \in Nat, pw \in Nat, ps \in Nat : pv = Pa(t, v) /\ pw = Pa(t, w) /\ ps = Pa(t, sva)
  BY <1>4, <1>6, PaNat
<1>8. pv - v = ps - sva /\ pw - w = ps - sva
  BY <1>1, <1>3, <1>4, <1>7 DEF OneLineASet
<1>9. PICK p \in Nat : pv = CACHE_LINE_SIZE * p
  BY <1>4, <1>7, PaOfLine
<1>10. w = v + CACHE_LINE_SIZE * d /\ CACHE_LINE_SIZE * d \in Nat
  BY <1>3, Sizes
<1>11. pw = pv + CACHE_LINE_SIZE * d
  BY <1>8, <1>10
<1>12. CACHE_LINE_SIZE * (p + d) = CACHE_LINE_SIZE * p + CACHE_LINE_SIZE * d
  BY Sizes
<1> QED
  BY <1>2, <1>3, <1>7, <1>9, <1>11, <1>12

LEMMA SetsDiffer ==
    ASSUME TypeOK, NEW t \in Tasks, OwnsRegion(t), SectionOK(t), Open(t), OneLineASet(t),
           NEW v \in RegionLines(t), NEW w \in RegionLines(t), v # w
    PROVE  Set(t, v) # Set(t, w)
<1>1. ASSUME NEW x \in RegionLines(t), NEW y \in RegionLines(t), x < y
      PROVE  Set(t, x) # Set(t, y)
  <2>1. /\ x \in Nat /\ (x % CACHE_LINE_SIZE) = 0
        /\ y \in Nat /\ (y % CACHE_LINE_SIZE) = 0
    BY RegionLinesStay
  <2>2. PICK a \in Nat, b \in Nat : x = CACHE_LINE_SIZE * a /\ y = CACHE_LINE_SIZE * b
    BY <2>1, LineMultiple
  <2>3. a < b
    <3>1. ASSUME b <= a PROVE FALSE
      <4>1. PICK c \in Nat : a = b + c
        <5>1. a - b \in Nat /\ a = b + (a - b)
          BY <3>1
        <5> QED
          BY <5>1
      <4>2. x = y + CACHE_LINE_SIZE * c /\ CACHE_LINE_SIZE * c \in Nat
        BY <2>2, <4>1, Sizes
      <4> QED
        BY <1>1, <2>1, <4>2
    <3> QED
      BY <3>1
  <2>4. PICK d \in Nat : b = a + d /\ 0 < d
    <3>1. b - a \in Nat /\ b = a + (b - a) /\ 0 < b - a
      BY <2>3
    <3> QED
      BY <3>1
  <2>5. PICK p \in Nat : /\ d < l1_sets
                         /\ Pa(t, x) = CACHE_LINE_SIZE * p
                         /\ Pa(t, y) = CACHE_LINE_SIZE * (p + d)
    BY <2>2, <2>4, SectionPas
  <2> QED
    BY <2>4, <2>5, SetsApart DEF Set
<1>2. v \in Nat /\ w \in Nat
  BY RegionLinesStay
<1>3. v < w \/ w < v
  BY <1>2
<1> QED
  BY <1>1, <1>3

(* The set number that the preload has counted to is the line's.           *)
LEMMA CountedRight ==
    ASSUME TypeOK, NEW t \in Tasks, OwnsRegion(t), PhaseOK(t), SectionOK(t), Counted(t),
           Unregistered(t), Open(t) => OneLineASet(t), PreloadLine(t)
    PROVE  /\ Open(t) /\ loc[t].va \in RegionLines(t)
           /\ loc[t].set1 \in 0 .. (2 * l1_sets - 1)
           /\ loc[t].set1 % l1_sets = Set(t, loc[t].va)
<1>1. At(t, "preload_line") /\ loc[t].va < Region(t).eva /\ loc[t].va \in Nat
  BY DEF PreloadLine, TypeOK, Locals
<1>2. PICK sva \in Nat, eva \in Nat : sva = Region(t).sva /\ eva = Region(t).eva
  BY SlotOfTask DEF Region, TypeOK
<1>3. Open(t)
  <2>1. ~Registering(t) /\ ~Leaving(t)
    BY <1>1 DEF Registering, Leaving, At
  <2>2. eva # 0
    BY <1>1, <1>2
  <2> QED
    BY <1>2, <2>1, <2>2 DEF Unregistered, Cleared
<1>4. (loc[t].va % CACHE_LINE_SIZE) = 0
  BY <1>1, <1>3 DEF SectionOK, PreloadProgress
<1>5. sva < eva
  <2>1. sva <= loc[t].va
    BY <1>1, <1>2, <1>3 DEF Counted
  <2> QED
    BY <1>1, <1>2, <2>1
<1>6. PICK k \in Nat : loc[t].va = sva + CACHE_LINE_SIZE * k /\ loc[t].set1 = Set(t, sva) + k
  BY <1>1, <1>2, <1>3, <1>5 DEF Counted
<1>7. sva \in RegionLines(t) /\ (sva % CACHE_LINE_SIZE) = 0 /\ Mapped(t, sva)
  BY <1>2, <1>3, <1>5, FirstLine
<1>8. PICK a \in Nat : sva = CACHE_LINE_SIZE * a
  BY <1>7, LineMultiple
<1>9. loc[t].va = CACHE_LINE_SIZE * (a + k)
  BY <1>6, <1>8, Sizes
<1>10. loc[t].va \in RegionLines(t)
  <2>1. CACHE_LINE_SIZE * k \in Nat
    BY Sizes
  <2>2. sva <= loc[t].va
    BY <1>6, <2>1
  <2> QED
    BY <1>1, <1>2, <1>4, <2>2 DEF RegionLines, Lines
<1>11. PICK p \in Nat : /\ k < l1_sets
                        /\ Pa(t, sva) = CACHE_LINE_SIZE * p
                        /\ Pa(t, loc[t].va) = CACHE_LINE_SIZE * (p + k)
  BY <1>3, <1>7, <1>8, <1>9, <1>10, SectionPas
<1>12. Set(t, loc[t].va) = (Set(t, sva) + k) % l1_sets
  BY <1>11, SetOfLater DEF Set
<1>13. Set(t, sva) \in 0 .. (l1_sets - 1)
  BY <1>7, PaOfLine DEF Sets
<1>14. Set(t, sva) + k \in 0 .. (2 * l1_sets - 1)
  BY <1>11, <1>13, Sizes
<1> QED
  BY <1>3, <1>6, <1>10, <1>12, <1>14

-----------------------------------------------------------------------------
(* What the instructions do to L1.                                         *)

(* On ARMv8 the word that flushes a way of L2 names level 2.               *)
LEMMA L2FlushNamesL2 ==
    ASSUME Architecture = "arm64", NEW cache, NEW set, NEW way
    PROVE  flush_l2_dcache(cache, set, way) = cache
<1> DEFINE word == flush_l2_word64(set, way)
<1>1. 0 \in BitsOf(1)
  BY DEF BitsOf
<1>2. 1 \in W!Shl(BitsOf(1), 1)
  BY <1>1 DEF W!Shl, W!Bits
<1>3. 1 \in word
  BY <1>2 DEF flush_l2_word64, W!Or
<1>4. W!Field(word, 3, 1) # {}
  <2>1. 1 - 1 \in W!Field(word, 3, 1)
    BY <1>3 DEF W!Field
  <2> QED
    BY <2>1
<1> QED
  BY <1>4 DEF flush_l2_dcache, CleanInvalidate

LEMMA L1FlushNamesSet ==
    ASSUME NEW cache, NEW set \in 0 .. (2 * l1_sets - 1)
    PROVE  \E w : flush_l1_dcache(cache, set, l1_ways - 1) = Put(cache, set % l1_sets, w, Invalid)
BY FlushNamesSetHolds DEF FlushNamesSet, flush_l1_dcache, CleanInvalidate

LEMMA BringPuts ==
    ASSUME NEW cache, NEW pa, NEW new \in Bring(cache, pa), L1SetIdx(pa) \in Sets
    PROVE  /\ new = cache \/ \E w \in Ways : new = Put(cache, L1SetIdx(pa), w, LineOf(pa))
           /\ \E w \in Ways : new[L1SetIdx(pa), w] = LineOf(pa)
<1>1. CASE Resident(cache, pa)
  BY <1>1 DEF Bring, Resident
<1>2. CASE ~Resident(cache, pa)
  <2>1. PICK w \in Ways : new = Put(cache, L1SetIdx(pa), w, LineOf(pa))
    BY <1>2 DEF Bring, Allocate
  <2>2. new[L1SetIdx(pa), w] = LineOf(pa)
    BY <2>1 DEF Put
  <2> QED
    BY <2>1, <2>2
<1> QED
  BY <1>1, <1>2

(* The four lines of the preload and of a refill, with the set's number:   *)
(* the line is in its set and the other sets are as they were.             *)
LEMMA PutLineEffect ==
    ASSUME Architecture = "arm64", NEW t \in Tasks, NEW va, Mapped(t, va),
           NEW set1 \in 0 .. (2 * l1_sets - 1), NEW set2,
           Set(t, va) \in Sets, set1 % l1_sets = Set(t, va), PutLine(t, va, set1, set2)
    PROVE  /\ \A r \in Sets, v \in Ways : r # Set(t, va) => l1'[r, v] = l1[r, v]
           /\ \E v \in Ways : l1'[Set(t, va), v] = LineOf(Pa(t, va))
<1> PICK s \in Sets : s = Set(t, va)
  OBVIOUS
<1> PICK pa : pa = Pa(t, va)
  OBVIOUS
<1>1. L1SetIdx(pa) = s
  BY DEF Set
<1>2. PICK w : flush_l1_dcache(l1, set1, l1_ways - 1) = Put(l1, s, w, Invalid)
  BY L1FlushNamesSet
<1>3. PICK room : room = Put(l1, s, w, Invalid)
  OBVIOUS
<1>4. l1' \in Bring(room, pa)
  <2>1. flush_l2_dcache(flush_l1_dcache(l1, set1, l1_ways - 1), set2, l2_ways - 1) = room
    BY <1>2, <1>3, L2FlushNamesL2
  <2>2. \E filled \in PreloadInto(room, t, va) : l1' = flush_l2_dcache(filled, set2, l2_ways - 1)
    BY <2>1 DEF PutLine
  <2>3. PreloadInto(room, t, va) = Bring(room, pa)
    BY DEF PreloadInto
  <2> QED
    BY <2>2, <2>3, L2FlushNamesL2
<1>5. PICK new : new = l1'
  OBVIOUS
<1>6. /\ new = room \/ \E v \in Ways : new = Put(room, s, v, LineOf(pa))
      /\ \E v \in Ways : new[s, v] = LineOf(pa)
  BY <1>1, <1>4, <1>5, BringPuts
<1>7. ASSUME NEW r \in Sets, NEW v \in Ways, r # s PROVE new[r, v] = l1[r, v]
  <2>1. room[r, v] = l1[r, v]
    BY <1>3, <1>7 DEF Put
  <2>2. \A u \in Ways : Put(room, s, u, LineOf(pa))[r, v] = room[r, v]
    BY <1>7 DEF Put
  <2> QED
    BY <1>6, <2>1, <2>2
<1> QED
  BY <1>5, <1>6, <1>7

-----------------------------------------------------------------------------
(* The lines of a section in L1.                                           *)

ResidentOK(t) ==
    Open(t) /\ OneLineASet(t) =>
        \A va \in RegionLines(t) \cap prefetched[t] :
            Set(t, va) \notin spoiled[t] => Resident(l1, Pa(t, va))

KernelInv == TypeOK /\ RegistrationInv /\ SectionInv /\ TableInv /\ HandlerInv

LEMMA KernelStep ==
    ASSUME SlotsDistinct, SectionsStay, KernelInv, [Next]_vars
    PROVE  KernelInv'
BY TypeStep, RegistrationStep, SectionStep, TableStep, HandlerStep DEF KernelInv

(* Every step on the cache is a step of SmokeBombLkm or a load.            *)
LEMMA CacheStep ==
    ASSUME CacheNext
    PROVE  \/ \E t \in Tasks : User(t) \/ Handler(t) \/ Memory(t)
           \/ UNCHANGED vars /\ \E set \in Sets : OtherLoad(set)
BY DEF CacheNext, InitLineCached, ExitFlushCached, PreloadLineCached, PreloadDoneCached,
       LoadHitCached, LoadMissCached, RefillCached, TablesOnly, OtherLoad, User, Handler

(* An open section keeps its lines and where they are in memory.           *)
LEMMA SectionSame ==
    ASSUME SlotsDistinct, KernelInv, NEW v \in Tasks, User(v) \/ Handler(v) \/ Memory(v),
           NEW t \in Tasks, Open(t)', ~InitStoreFlag(t)
    PROVE  /\ Open(t) /\ RegionLines(t)' = RegionLines(t)
           /\ \A va \in RegionLines(t) : Mapped(t, va)' /\ Pa(t, va)' = Pa(t, va)
           /\ OneLineASet(t)' => OneLineASet(t)
<1>0. TypeOK /\ PhaseOK(t) /\ SectionOK(t) /\ OwnsRegion(t)
  BY DEF KernelInv, RegistrationInv, OpenOwnsRegion, OwnsRegion, SectionInv
<1>1. /\ Open(t)
      /\ Region(t)'.sva = Region(t).sva /\ Region(t)'.eva = Region(t).eva
  <2>1. CASE v = t
    BY <1>0, <2>1, OpenKept
  <2>2. CASE v # t
    BY <1>0, <2>2, OthersKept DEF Open, Region
  <2> QED
    BY <2>1, <2>2
<1>2. RegionLines(t)' = RegionLines(t)
  BY <1>1 DEF RegionLines
<1>3. ASSUME NEW va \in RegionLines(t)
      PROVE  Mapped(t, va) /\ Mapped(t, va)' /\ Pa(t, va)' = Pa(t, va)
  BY <1>0, <1>1, RegionLinesStay, MappingKept
<1>4. ASSUME OneLineASet(t)' PROVE OneLineASet(t)
  <2>1. Cardinality(RegionLines(t)) <= l1_sets
    BY <1>2, <1>4 DEF OneLineASet
  <2>2. PICK sva \in Nat, eva \in Nat : sva = Region(t).sva /\ eva = Region(t).eva
    BY <1>0, SlotOfTask DEF Region, TypeOK
  <2>3. ASSUME NEW va \in RegionLines(t) PROVE Pa(t, va) - va = Pa(t, sva) - sva
    <3>1. sva < eva
      BY <2>2, <2>3, LinesNat DEF RegionLines
    <3>2. sva \in RegionLines(t)
      BY <1>0, <1>1, <2>2, <3>1, FirstLine
    <3>3. Pa(t, sva)' = Pa(t, sva) /\ Pa(t, va)' = Pa(t, va) /\ Mapped(t, va)'
      BY <1>3, <2>3, <3>2
    <3>4. Pa(t, va)' - va = Pa(t, sva)' - sva
      BY <1>1, <1>2, <1>4, <2>2, <2>3, <3>3 DEF OneLineASet, Pa
    <3> QED
      BY <3>3, <3>4
  <2> QED
    BY <2>1, <2>2, <2>3 DEF OneLineASet
<1> QED
  BY <1>1, <1>2, <1>3, <1>4

LEMMA Undisturbed ==
    ASSUME NEW t \in Tasks, ResidentOK(t), Open(t), OneLineASet(t),
           NEW va \in RegionLines(t), va \in prefetched[t], Set(t, va) \notin spoiled[t],
           NEW new, \A w \in Ways : l1[Set(t, va), w] = LineOf(Pa(t, va)) =>
                                    new[Set(t, va), w] = l1[Set(t, va), w]
    PROVE  \E w \in Ways : new[Set(t, va), w] = LineOf(Pa(t, va))
BY DEF ResidentOK, Resident, Set

(* The preload or a refill of task v, for line va of task t's section.     *)
LEMMA PutStays ==
    ASSUME Architecture = "arm64", TypeOK,
           NEW t \in Tasks, OwnsRegion(t), SectionOK(t), ResidentOK(t), Open(t), OneLineASet(t),
           NEW va \in RegionLines(t), va \in prefetched'[t], Set(t, va) \notin spoiled'[t],
           NEW v \in Tasks, NEW x, Mapped(v, x), Set(v, x) \in Sets,
           NEW set1 \in 0 .. (2 * l1_sets - 1), NEW set2, set1 % l1_sets = Set(v, x),
           PutLine(v, x, set1, set2),
           \/ v = t /\ x \in RegionLines(t) /\ Restored(v, Set(v, x))
           \/ (v # t \/ x \notin RegionLines(t))
                /\ (Spoil(Set(v, x)) \/ (v # t /\ Restored(v, Set(v, x)))),
           v = t => prefetched'[t] \subseteq prefetched[t] \cup {x},
           v # t => prefetched'[t] \subseteq prefetched[t]
    PROVE  \E w \in Ways : l1'[Set(t, va), w] = LineOf(Pa(t, va))
<1> PICK new : new = l1'
  OBVIOUS
<1>0. /\ \A r \in Sets, w \in Ways : r # Set(v, x) => l1'[r, w] = l1[r, w]
      /\ \E w \in Ways : l1'[Set(v, x), w] = LineOf(Pa(v, x))
  BY PutLineEffect
<1>1. /\ \A r \in Sets, w \in Ways : r # Set(v, x) => new[r, w] = l1[r, w]
      /\ \E w \in Ways : new[Set(v, x), w] = LineOf(Pa(v, x))
  BY <1>0
<1>2. Set(t, va) \in Sets
  BY RegionLinesStay, PaOfLine
<1>3. CASE v = t /\ x = va
  BY <1>1, <1>3
<1>4. CASE v = t /\ x # va /\ x \in RegionLines(t)
  <2>1. Set(t, x) # Set(t, va)
    BY <1>4, SetsDiffer
  <2>2. va \in prefetched[t]
    BY <1>4
  <2>3. spoiled'[t] = spoiled[t] \ {Set(t, x)}
    BY <1>4 DEF Restored
  <2>4. Set(t, va) \notin spoiled[t]
    BY <2>1, <2>3
  <2>5. \A w \in Ways : new[Set(t, va), w] = l1[Set(t, va), w]
    BY <1>1, <1>2, <1>4, <2>1
  <2>6. \E w \in Ways : new[Set(t, va), w] = LineOf(Pa(t, va))
    BY <2>2, <2>4, <2>5, Undisturbed
  <2> QED
    BY <2>6
<1>5. CASE v # t \/ x \notin RegionLines(t)
  <2>1. spoiled'[t] = spoiled[t] \cup {Set(v, x)}
    BY <1>5 DEF Restored, Spoil
  <2>2. Set(v, x) # Set(t, va) /\ Set(t, va) \notin spoiled[t]
    BY <2>1
  <2>3. va \in prefetched[t]
    BY <1>5
  <2>4. \A w \in Ways : new[Set(t, va), w] = l1[Set(t, va), w]
    BY <1>1, <1>2, <2>2
  <2>5. \E w \in Ways : new[Set(t, va), w] = LineOf(Pa(t, va))
    BY <2>2, <2>3, <2>4, Undisturbed
  <2> QED
    BY <2>5
<1> QED
  BY <1>3, <1>4, <1>5

(* Any other line that comes into a set.                                   *)
LEMMA SpoilStays ==
    ASSUME NEW t \in Tasks, ResidentOK(t), Open(t), OneLineASet(t),
           NEW va \in RegionLines(t), va \in prefetched[t], Set(t, va) \notin spoiled'[t],
           Set(t, va) \in Sets,
           \/ (l1' = l1 /\ spoiled' = spoiled)
           \/ \E s \in Sets, u \in Ways : \E line : l1' = Put(l1, s, u, line) /\ Spoil(s)
    PROVE  \E w \in Ways : l1'[Set(t, va), w] = LineOf(Pa(t, va))
<1> PICK new : new = l1'
  OBVIOUS
<1>1. CASE l1' = l1 /\ spoiled' = spoiled
  BY <1>1, Undisturbed
<1>2. ASSUME NEW s \in Sets, NEW u \in Ways, NEW line, l1' = Put(l1, s, u, line), Spoil(s)
      PROVE  \E w \in Ways : new[Set(t, va), w] = LineOf(Pa(t, va))
  <2>1. spoiled'[t] = spoiled[t] \cup {s}
    BY <1>2 DEF Spoil
  <2>2. s # Set(t, va) /\ Set(t, va) \notin spoiled[t]
    BY <2>1
  <2>3. \A r \in Sets, w \in Ways : r # s => new[r, w] = l1[r, w]
    BY <1>2 DEF Put
  <2>4. \A w \in Ways : new[Set(t, va), w] = l1[Set(t, va), w]
    BY <2>2, <2>3
  <2> QED
    BY <2>2, <2>4, Undisturbed
<1> QED
  BY <1>1, <1>2

(* A step of a task, and a line of a section that was open before it.      *)
LEMMA TaskStep ==
    ASSUME Architecture = "arm64", SlotsDistinct, KernelInv, OthersFit,
           NEW t \in Tasks, ResidentOK(t), Open(t), OneLineASet(t), ~InitStoreFlag(t), Open(t)',
           NEW va \in RegionLines(t), va \in prefetched'[t], Set(t, va) \notin spoiled'[t],
           NEW v \in Tasks,
           \/ InitLineCached(v) \/ \E q \in Requests : ExitFlushCached(v, q)
           \/ PreloadLineCached(v) \/ PreloadDoneCached(v)
           \/ LoadHitCached(v) \/ LoadMissCached(v) \/ RefillCached(v)
           \/ TablesOnly(v)
    PROVE  \E w \in Ways : l1'[Set(t, va), w] = LineOf(Pa(t, va))
<1>1. /\ TypeOK
      /\ PhaseOK(t) /\ SectionOK(t) /\ OwnsRegion(t)
      /\ PhaseOK(v) /\ SectionOK(v) /\ OwnsRegion(v)
      /\ Unregistered(v) /\ Counted(v) /\ LookupOK(v)
  BY DEF KernelInv, HandlerInv, RegistrationInv, OpenOwnsRegion, OwnsRegion, SectionInv, TableInv
<1>2. User(v) \/ Handler(v) \/ Memory(v)
  BY DEF InitLineCached, ExitFlushCached, PreloadLineCached, PreloadDoneCached,
         LoadHitCached, LoadMissCached, RefillCached, TablesOnly, User, Handler
<1>3. /\ va \in Nat /\ (va % CACHE_LINE_SIZE) = 0 /\ Mapped(t, va)
      /\ Set(t, va) \in Sets /\ LineOf(Pa(t, va)) = Pa(t, va)
  BY <1>1, RegionLinesStay, PaOfLine
<1>4. v # t => prefetched'[t] \subseteq prefetched[t]
  BY <1>1, <1>2, OthersKept
<1>5. ~Registering(t) /\ ~Leaving(t)
  BY <1>1 DEF PhaseOK
<1>6. CASE TablesOnly(v) \/ PreloadDoneCached(v)
  <2>1. l1' = l1 /\ spoiled' = spoiled
    BY <1>6 DEF TablesOnly, PreloadDoneCached, cacheVars
  <2>2. v = t => prefetched'[t] \subseteq prefetched[t]
    <3>1. CASE Memory(v)
      BY <1>1, <3>1 DEF Memory, PageIn, PageOut, TypeOK
    <3>2. CASE ~Memory(v)
      <4>1. v = t => prefetched' = prefetched
        BY <1>6, <3>2
           DEF TablesOnly, PreloadDoneCached, InitRefuse, InitAccept, InitStoreSva,
               InitStoreEva, InitStoreFlag, ExitStoreSva, ExitStoreEva, ExitStoreFlag, Trap,
               PreloadSkip, PreloadNeeded, PreloadSets, PreloadFirst, PreloadEnd, PreloadDone,
               LookupZ, LookupUnrelated, LookupRelated
      <4> QED
        BY <4>1
    <3> QED
      BY <3>1, <3>2
  <2>3. va \in prefetched[t]
    BY <1>4, <2>2
  <2> QED
    BY <1>3, <2>1, <2>3, SpoilStays
<1>7. CASE InitLineCached(v)
  <2>1. v # t
    BY <1>5, <1>7 DEF InitLineCached, InitLine, InitLineAt, InitLineFails, Registering, At
  <2>2. PICK x \in Nat : x = loc[v].va
    BY <1>1 DEF TypeOK, Locals
  <2>3. (x % CACHE_LINE_SIZE) = 0
    BY <1>1, <1>7, <2>2
       DEF InitLineCached, InitLine, InitLineAt, InitLineFails, SectionOK, InitProgress, At
  <2>4. l1' = FlushVa(v, x) /\ spoiled' = spoiled
    BY <1>7, <2>2 DEF InitLineCached
  <2>5. va \in prefetched[t] /\ Set(t, va) \notin spoiled[t]
    BY <1>4, <2>1, <2>4
  <2>6. CASE ~Mapped(v, x)
    <3>1. l1' = l1
      BY <2>4, <2>6 DEF FlushVa
    <3> QED
      BY <1>3, <2>4, <2>5, <3>1, SpoilStays
  <2>7. CASE Mapped(v, x)
    <3>0. InitLine(v)
      BY <1>7, <2>2, <2>7 DEF InitLineCached, InitLineFails
    <3>1. LineOf(Pa(v, x)) # Pa(t, va)
      <4>1. LineOf(Pa(v, x)) = Pa(v, x)
        BY <1>1, <2>3, <2>7, PaOfLine
      <4>2. Flush(v, {x})
        BY <2>2, <3>0 DEF InitLine, InitLineAt
      <4>3. va \notin FlushedOf(t, v, {x})
        BY <1>1, <4>2, FlushEffect
      <4> QED
        BY <1>3, <2>5, <2>7, <4>1, <4>3 DEF FlushedOf
    <3>2. l1' = [p \in Sets \X Ways |-> IF l1[p] = LineOf(Pa(v, x)) THEN Invalid ELSE l1[p]]
      BY <2>4, <2>7 DEF FlushVa, flush_dcache
    <3>3. PICK new : new = l1'
      OBVIOUS
    <3>4. \A w \in Ways : l1[Set(t, va), w] = LineOf(Pa(t, va)) =>
                              new[Set(t, va), w] = l1[Set(t, va), w]
      BY <1>3, <3>1, <3>2, <3>3
    <3>5. \E w \in Ways : new[Set(t, va), w] = LineOf(Pa(t, va))
      BY <2>5, <3>4, Undisturbed
    <3> QED
      BY <3>3, <3>5
  <2> QED
    BY <2>6, <2>7
<1>8. ASSUME NEW q \in Requests, ExitFlushCached(v, q)
      PROVE  \E w \in Ways : l1'[Set(t, va), w] = LineOf(Pa(t, va))
  <2>1. v # t
    BY <1>1, <1>8 DEF ExitFlushCached, ExitFlush, Open, TypeOK
  <2>2. PICK sva \in Nat, eva \in Nat : sva = LineOf(q.dsva) /\ eva = LineOf(q.deva)
    BY RequestNat
  <2>3. l1' = FlushAll(v, Lines(sva, eva)) /\ spoiled' = spoiled
    BY <1>8, <2>2 DEF ExitFlushCached
  <2>4. va \in prefetched[t] /\ Set(t, va) \notin spoiled[t]
    BY <1>4, <2>1, <2>3
  <2>5. \A x \in Lines(sva, eva) : Mapped(v, x) => Pa(v, x) # Pa(t, va)
    <3>1. Flush(v, Lines(sva, eva))
      BY <1>8, <2>2 DEF ExitFlushCached, ExitFlush
    <3>2. va \notin FlushedOf(t, v, Lines(sva, eva))
      BY <1>1, <3>1, FlushEffect
    <3> QED
      BY <1>3, <2>4, <3>2 DEF FlushedOf
  <2>6. l1' = [p \in Sets \X Ways |->
                  IF \E x \in Lines(sva, eva) : Mapped(v, x) /\ l1[p] = Pa(v, x)
                  THEN Invalid ELSE l1[p]]
    BY <2>3 DEF FlushAll
  <2>7. PICK new : new = l1'
    OBVIOUS
  <2>8. \A w \in Ways : l1[Set(t, va), w] = LineOf(Pa(t, va)) =>
                            new[Set(t, va), w] = l1[Set(t, va), w]
    BY <1>3, <2>5, <2>6, <2>7
  <2>9. \E w \in Ways : new[Set(t, va), w] = LineOf(Pa(t, va))
    BY <2>4, <2>8, Undisturbed
  <2> QED
    BY <2>7, <2>9
<1>9. CASE PreloadLineCached(v)
  <2>1. PICK x, set1, set2 : x = loc[v].va /\ set1 = loc[v].set1 /\ set2 = loc[v].set2
    OBVIOUS
  <2>2. PreloadLine(v) /\ PutLine(v, x, set1, set2) /\ Restored(v, Set(v, x))
    BY <1>9, <2>1 DEF PreloadLineCached
  <2>3. Open(v) => OneLineASet(v)
    BY DEF OthersFit
  <2>4. /\ Open(v) /\ x \in RegionLines(v)
        /\ set1 \in 0 .. (2 * l1_sets - 1) /\ set1 % l1_sets = Set(v, x)
    BY <1>1, <2>1, <2>2, <2>3, CountedRight
  <2>5. x \in Nat /\ Mapped(v, x) /\ Set(v, x) \in Sets
    BY <1>1, <2>4, RegionLinesStay, PaOfLine
  <2>6. v = t => prefetched'[t] \subseteq prefetched[t] \cup {x}
    BY <1>1, <2>1, <2>2 DEF PreloadLine, Prefetch, TypeOK
  <2> QED
    BY <1>1, <1>4, <2>2, <2>4, <2>5, <2>6, PutStays
<1>10. CASE RefillCached(v)
  <2>0. loc[v].va_z \in Nat
    BY <1>1 DEF TypeOK, Locals
  <2>1. PICK x, set1, set2 : x = loc[v].va_z /\ set1 = loc[v].set1 /\ set2 = loc[v].set2
    OBVIOUS
  <2>2. /\ Refill(v) /\ PutLine(v, x, set1, set2)
        /\ IF x \in RegionLines(v) THEN Restored(v, Set(v, x)) ELSE Spoil(set1)
    BY <1>10, <2>1 DEF RefillCached
  <2>3. x \in Nat /\ Mapped(v, x) /\ Set(v, x) = set1
    BY <1>1, <2>0, <2>1, <2>2 DEF Refill, LookupOK, Set
  <2>4. set1 \in Sets
    BY <1>1, <2>3, PaNat, SetOfPa DEF Set
  <2>5. set1 \in 0 .. (2 * l1_sets - 1) /\ set1 % l1_sets = set1
    BY <2>4, Sizes DEF Sets
  <2>6. v = t => prefetched'[t] \subseteq prefetched[t] \cup {x}
    BY <1>1, <2>1, <2>2 DEF Refill, Prefetch, TypeOK
  <2>7. \/ v = t /\ x \in RegionLines(t) /\ Restored(v, Set(v, x))
        \/ (v # t \/ x \notin RegionLines(t))
             /\ (Spoil(Set(v, x)) \/ (v # t /\ Restored(v, Set(v, x))))
    BY <2>2, <2>3
  <2> QED
    BY <1>1, <1>4, <2>2, <2>3, <2>4, <2>5, <2>6, <2>7, PutStays
<1>11. CASE LoadHitCached(v) \/ LoadMissCached(v)
  <2>1. PICK x \in Nat : x = loc[v].x
    BY <1>1 DEF TypeOK, Locals
  <2>2. /\ Mapped(v, x) /\ prefetched' = prefetched /\ l1' \in Bring(l1, Pa(v, x))
        /\ IF l1' = l1 THEN spoiled' = spoiled ELSE Spoil(Set(v, x))
    BY <1>11, <2>1 DEF LoadHitCached, LoadMissCached, LoadHit, LoadMiss
  <2>3. Set(v, x) \in Sets
    BY <1>1, <2>2, PaNat, SetOfPa DEF Set
  <2>4. l1' = l1 \/ \E u \in Ways : l1' = Put(l1, Set(v, x), u, LineOf(Pa(v, x)))
    BY <2>2, <2>3, BringPuts DEF Set
  <2> QED
    BY <1>3, <2>2, <2>3, <2>4, SpoilStays
<1> QED
  BY <1>6, <1>7, <1>8, <1>9, <1>10, <1>11

(* A step that is not of the module leaves the lines in the other sets.    *)
LEMMA LoadStep ==
    ASSUME KernelInv, UNCHANGED vars, NEW set \in Sets, OtherLoad(set),
           NEW t \in Tasks, ResidentOK(t), Open(t), OneLineASet(t),
           NEW va \in RegionLines(t), va \in prefetched[t], Set(t, va) \notin spoiled'[t]
    PROVE  \E w \in Ways : l1'[Set(t, va), w] = LineOf(Pa(t, va))
<1>1. TypeOK /\ OwnsRegion(t) /\ SectionOK(t)
  BY DEF KernelInv, RegistrationInv, OpenOwnsRegion, OwnsRegion, SectionInv
<1>2. Set(t, va) \in Sets
  BY <1>1, RegionLinesStay, PaOfLine
<1>3. \E u \in Ways : l1' = Put(l1, set, u, Foreign)
  BY DEF OtherLoad, Allocate
<1> QED
  BY <1>2, <1>3, SpoilStays DEF OtherLoad

(* INIT grants a section of which no line is prefetched.                   *)
LEMMA GrantedEmpty ==
    ASSUME KernelInv, NEW t \in Tasks, InitStoreFlag(t)
    PROVE  RegionLines(t)' \cap prefetched'[t] = {}
<1>1. TypeOK /\ PhaseOK(t) /\ NotYet(t) /\ get_pid_idx(t) \in Slots
  BY SlotOfTask DEF KernelInv, RegistrationInv, HandlerInv
<1>2. At(t, "init_flag") /\ prefetched' = prefetched
  BY DEF InitStoreFlag
<1>3. /\ Region(t).sva = LineOf(loc[t].q.dsva) /\ Region(t).eva = LineOf(loc[t].q.deva)
  BY <1>1, <1>2 DEF PhaseOK, At
<1>4. Region(t)'.sva = Region(t).sva /\ Region(t)'.eva = Region(t).eva
  BY <1>1 DEF InitStoreFlag, StoreRegion, Region, TypeOK
<1>5. Lines(LineOf(loc[t].q.dsva), LineOf(loc[t].q.deva)) \cap prefetched[t] = {}
  BY <1>1, <1>2 DEF NotYet, At
<1> QED
  BY <1>2, <1>3, <1>4, <1>5 DEF RegionLines

LEMMA ResidentStep ==
    ASSUME Architecture = "arm64", SlotsDistinct, SectionsStay, KernelInv,
           SectionResident, OthersFit, [CacheNext]_allVars
    PROVE  SectionResident'
<1>0. TypeOK
  BY DEF KernelInv
<1> SUFFICES ASSUME NEW t \in Tasks PROVE ResidentOK(t)'
  BY DEF SectionResident, ResidentOK
<1>1. ResidentOK(t)
  BY DEF SectionResident, ResidentOK
<1>2. CASE UNCHANGED allVars
  BY <1>1, <1>2 DEF allVars, vars, tables, cacheVars, ResidentOK, Open, OneLineASet,
                    RegionLines, Region, Set, Resident, Mapped, Pa
<1>3. CASE InitStoreFlag(t)
  BY <1>3, GrantedEmpty DEF ResidentOK
<1>4. ASSUME NEW set \in Sets, OtherLoad(set), UNCHANGED vars PROVE ResidentOK(t)'
  <2>1. SUFFICES ASSUME Open(t), OneLineASet(t), NEW va \in RegionLines(t),
                        va \in prefetched[t], Set(t, va) \notin spoiled'[t]
                 PROVE  \E w \in Ways : l1'[Set(t, va), w] = LineOf(Pa(t, va))
    BY <1>4 DEF vars, tables, ResidentOK, Open, OneLineASet, RegionLines, Region, Set, Resident,
                Mapped, Pa
  <2> QED
    BY <1>1, <1>4, <2>1, LoadStep
<1>5. ASSUME ~InitStoreFlag(t), NEW v \in Tasks,
             \/ InitLineCached(v) \/ \E q \in Requests : ExitFlushCached(v, q)
             \/ PreloadLineCached(v) \/ PreloadDoneCached(v)
             \/ LoadHitCached(v) \/ LoadMissCached(v) \/ RefillCached(v)
             \/ TablesOnly(v)
      PROVE  ResidentOK(t)'
  <2>1. User(v) \/ Handler(v) \/ Memory(v)
    BY <1>5 DEF InitLineCached, ExitFlushCached, PreloadLineCached, PreloadDoneCached,
                LoadHitCached, LoadMissCached, RefillCached, TablesOnly, User, Handler
  <2>2. SUFFICES ASSUME Open(t)', OneLineASet(t)', NEW va \in RegionLines(t)',
                        va \in prefetched'[t], Set(t, va)' \notin spoiled'[t]
                 PROVE  \E w \in Ways : l1'[Set(t, va)', w] = LineOf(Pa(t, va)')
    BY DEF ResidentOK, Resident, Set
  <2>3. /\ Open(t) /\ RegionLines(t)' = RegionLines(t) /\ OneLineASet(t)
        /\ \A x \in RegionLines(t) : Mapped(t, x)' /\ Pa(t, x)' = Pa(t, x)
    BY <1>5, <2>1, <2>2, SectionSame
  <2>4. va \in RegionLines(t) /\ Pa(t, va)' = Pa(t, va) /\ Set(t, va)' = Set(t, va)
    BY <2>2, <2>3 DEF Set
  <2>5. \E w \in Ways : l1'[Set(t, va), w] = LineOf(Pa(t, va))
    BY <1>1, <1>5, <2>2, <2>3, <2>4, TaskStep
  <2> QED
    BY <2>4, <2>5
<1> QED
  BY <1>2, <1>3, <1>4, <1>5 DEF CacheNext, OtherLoad

(* What the module has put into L1 is there until something else enters    *)
(* its set (SectionResident): neither the preload of the following lines,  *)
(* nor a refill, nor the flushes of L2 take it out, and INIT and EXIT of   *)
(* another task take out no line but those of memory the two tasks have in *)
(* common, which from then on are not among the prefetched ones            *)
(* (addr.c:146-163, arm64/insn.c:150-172, sb_lkm.c:65, 123).               *)
THEOREM SectionResidentHolds ==
    ASSUME Architecture = "arm64", SlotsDistinct, SectionsStay
    PROVE  CacheSpec /\ []OthersFit => []SectionResident
<1>1. CacheInit => KernelInv /\ SectionResident
  <2>1. Init => KernelInv
    BY TypeInit, RegistrationInit, SectionInit, TableInit, HandlerInit DEF KernelInv
  <2>2. Init => \A t \in Tasks : ~Open(t)
    BY DEF Init, Open
  <2> QED
    BY <2>1, <2>2 DEF CacheInit, SectionResident
<1>2. KernelInv /\ SectionResident /\ OthersFit /\ [CacheNext]_allVars
        => KernelInv' /\ SectionResident'
  <2>1. [CacheNext]_allVars => [Next]_vars
    BY CacheStep DEF Next, allVars
  <2> QED
    BY <2>1, KernelStep, ResidentStep
<1> QED
  BY <1>1, <1>2, PTL DEF CacheSpec

(* One task on the core, whose section OneLineASet describes: nothing is   *)
(* assumed of others.                                                      *)
COROLLARY AloneResidentHolds ==
    ASSUME Architecture = "arm64", SectionsStay,
           \A t \in Tasks, u \in Tasks : t = u
    PROVE  CacheSpec => []SectionResident
<1>1. SlotsDistinct
  BY DEF SlotsDistinct
<1>2. OthersFit
  BY DEF OthersFit
<1> QED
  BY <1>1, <1>2, SectionResidentHolds, PTL

-----------------------------------------------------------------------------
(* PRIME and PROBE, for any other loads.                                   *)

(* The buffers begin at a multiple of what one of them spans.              *)
BaseAligned == \E b \in Nat : PrimeBase = CACHE_LINE_SIZE * (l1_sets * b)

(* The memory of the program and the buffers of the module are not the same. *)
ProgramElsewhere ==
    \A pa \in ProgramLines :
        /\ pa \in Nat
        /\ \A s \in PP!Sets, w \in PP!Ways : PP!LineOf(pa) # PP!PrimeLine(s, w)

(* The number of ways for which the words of the flushes are made.         *)
FourWays == l1_ways = 4

LEMMA Geometry ==
    /\ CACHE_LINE_SIZE \in Nat \ {0} /\ l1_sets \in Nat \ {0}
    /\ PP!IndexRange(l1_sets) = l1_sets
    /\ l1_ways \in Nat \ {0}
BY GeometryAssumption, L1CacheAssumption DEF Powers, PP!IndexRange, PP!Powers

LEMMA L1SetIdxInSets == ASSUME NEW pa \in Nat PROVE PP!L1SetIdx(pa) \in PP!Sets
<1>1. pa \div CACHE_LINE_SIZE \in Int
  BY DivNat, Geometry
<1>2. (pa \div CACHE_LINE_SIZE) % l1_sets \in 0 .. (l1_sets - 1)
  BY <1>1, Geometry, ModNat, Zenon
<1> QED
  BY <1>2, Geometry DEF PP!L1SetIdx, PP!SetIdx, PP!Sets

-----------------------------------------------------------------------------
(* The lines of the buffers.                                               *)

(* A line of a buffer is in the set it is meant for, and lines of one set  *)
(* in different buffers are different.                                     *)
LEMMA PrimeLineIs ==
    ASSUME NEW b \in Nat, PrimeBase = CACHE_LINE_SIZE * (l1_sets * b),
           NEW s \in PP!Sets, NEW n \in PP!Ways
    PROVE  /\ l1_sets * (b + n) + s \in Nat
           /\ PP!PrimeLine(s, n) = CACHE_LINE_SIZE * (l1_sets * (b + n) + s)
<1>1. s \in Nat /\ n \in Nat
  BY Geometry DEF PP!Sets, PP!Ways
<1>2. /\ l1_sets * b \in Nat /\ l1_sets * n \in Nat /\ l1_sets * (b + n) \in Nat
      /\ l1_sets * (b + n) = l1_sets * b + l1_sets * n
  BY <1>1, Geometry
<1>3. PP!PrimeLine(s, n) = PrimeBase + n * l1_sets * CACHE_LINE_SIZE + s * CACHE_LINE_SIZE
  BY DEF PP!PrimeLine, PP!PrimeProbeArr
<1>4. /\ n * l1_sets * CACHE_LINE_SIZE = CACHE_LINE_SIZE * (l1_sets * n)
      /\ s * CACHE_LINE_SIZE = CACHE_LINE_SIZE * s
  BY <1>1, Geometry
<1>5. ASSUME NEW c \in Nat, NEW x \in Nat, NEW y \in Nat, NEW z \in Nat
      PROVE  c * x + c * y + c * z = c * ((x + y) + z)
  OBVIOUS
<1> QED
  BY <1>1, <1>2, <1>3, <1>4, <1>5, Geometry

LEMMA PrimeLineSet ==
    ASSUME BaseAligned, NEW s \in PP!Sets, NEW n \in PP!Ways
    PROVE  /\ PP!PrimeLine(s, n) \in Nat
           /\ PP!LineOf(PP!PrimeLine(s, n)) = PP!PrimeLine(s, n)
           /\ PP!L1SetIdx(PP!PrimeLine(s, n)) = s
<1>1. PICK b \in Nat : PrimeBase = CACHE_LINE_SIZE * (l1_sets * b)
  BY DEF BaseAligned
<1>2. n \in Nat /\ s \in Nat /\ s < l1_sets
  BY Geometry DEF PP!Sets, PP!Ways
<1>3. PICK q \in Nat : q = l1_sets * (b + n) + s
  BY <1>1, PrimeLineIs
<1>4. PP!PrimeLine(s, n) = CACHE_LINE_SIZE * q
  BY <1>1, <1>3, PrimeLineIs
<1>5. PP!PrimeLine(s, n) \div CACHE_LINE_SIZE = q
  BY <1>3, <1>4, Geometry, DivMultiple
<1>6. q % l1_sets = s
  <2>1. b + n \in Nat
    BY <1>2
  <2>2. (l1_sets * (b + n) + s) % l1_sets = s % l1_sets
    BY <1>2, <2>1, GeometryAssumption, ModAddMultiple
  <2>3. s % l1_sets = s
    BY <1>2, Geometry
  <2> QED
    BY <1>3, <2>2, <2>3
<1>7. CACHE_LINE_SIZE * q \in Nat /\ q * CACHE_LINE_SIZE = CACHE_LINE_SIZE * q
  BY <1>3, Geometry
<1> QED
  BY <1>4, <1>5, <1>6, <1>7, Geometry DEF PP!LineOf, PP!L1SetIdx, PP!SetIdx

LEMMA PrimeLineWay ==
    ASSUME BaseAligned, NEW s \in PP!Sets, NEW n \in PP!Ways, NEW m \in PP!Ways,
           PP!PrimeLine(s, n) = PP!PrimeLine(s, m)
    PROVE  n = m
<1>1. PICK b \in Nat : PrimeBase = CACHE_LINE_SIZE * (l1_sets * b)
  BY DEF BaseAligned
<1>2. n \in Nat /\ m \in Nat /\ s \in Nat
  BY Geometry DEF PP!Sets, PP!Ways
<1>3. PICK p \in Nat, q \in Nat : p = l1_sets * (b + n) + s /\ q = l1_sets * (b + m) + s
  BY <1>1, PrimeLineIs
<1>4. CACHE_LINE_SIZE * p = CACHE_LINE_SIZE * q
  BY <1>1, <1>3, PrimeLineIs
<1>5. p = q
  <2>1. (CACHE_LINE_SIZE * p) \div CACHE_LINE_SIZE = p
    BY <1>3, Geometry, DivMultiple
  <2>2. (CACHE_LINE_SIZE * q) \div CACHE_LINE_SIZE = q
    BY <1>3, Geometry, DivMultiple
  <2> QED
    BY <1>4, <2>1, <2>2
<1>6. b + n \in Nat /\ b + m \in Nat
  BY <1>2
<1>7. l1_sets * (b + n) = l1_sets * (b + m)
  <2>1. l1_sets * (b + n) \in Nat /\ l1_sets * (b + m) \in Nat
    BY <1>6, Geometry
  <2> QED
    BY <1>2, <1>3, <1>5, <2>1
<1>8. b + n = b + m
  <2>1. (l1_sets * (b + n)) \div l1_sets = b + n
    BY <1>6, Geometry, DivMultiple
  <2>2. (l1_sets * (b + m)) \div l1_sets = b + m
    BY <1>6, Geometry, DivMultiple
  <2> QED
    BY <1>7, <2>1, <2>2
<1> QED
  BY <1>2, <1>8

-----------------------------------------------------------------------------
(* Contents of the cache.                                                  *)

LEMMA AllocateEffect ==
    ASSUME NEW cache, NEW set, NEW line, NEW new \in PP!Allocate(cache, set, line)
    PROVE  \E w \in PP!Ways : new = PP!Put(cache, set, w, line)
BY DEF PP!Allocate

LEMMA BringEffect ==
    ASSUME NEW cache, NEW pa, NEW new \in PP!Bring(cache, pa), new # cache
    PROVE  \E w \in PP!Ways : new = PP!Put(cache, PP!L1SetIdx(pa), w, PP!LineOf(pa))
BY AllocateEffect DEF PP!Bring

LEMMA WaysFinite == IsFiniteSet(PP!Ways) /\ Cardinality(PP!Ways) = l1_ways
<1>1. 0 \in Int /\ l1_ways - 1 \in Int /\ ~(0 > l1_ways - 1) /\ l1_ways - 1 - 0 + 1 = l1_ways
  BY Geometry
<1>2. /\ IsFiniteSet(0 .. (l1_ways - 1))
      /\ Cardinality(0 .. (l1_ways - 1)) =
            IF 0 > l1_ways - 1 THEN 0 ELSE l1_ways - 1 - 0 + 1
  BY <1>1, FS_Interval, Zenon
<1> QED
  BY <1>1, <1>2, Zenon DEF PP!Ways

LEMMA OneWayLess ==
    ASSUME NEW w \in PP!Ways, NEW f \in [PP!Ways -> PP!Ways \ {w}]
    PROVE  \E n \in PP!Ways, m \in PP!Ways : n # m /\ f[n] = f[m]
<1>1. IsFiniteSet(PP!Ways) /\ Cardinality(PP!Ways) = l1_ways
  BY WaysFinite
<1>2. IsFiniteSet(PP!Ways \ {w}) /\ Cardinality(PP!Ways \ {w}) = l1_ways - 1
  BY <1>1, FS_RemoveElement
<1>3. l1_ways - 1 < l1_ways
  BY Geometry
<1>4. Cardinality(PP!Ways \ {w}) < Cardinality(PP!Ways)
  BY <1>1, <1>2, <1>3, Zenon
<1> QED
  BY <1>1, <1>2, <1>4, FS_PigeonHole

(* A set with as many ways as it has lines of the buffers: where one way   *)
(* holds another line, one line of the buffers is missing.                 *)
LEMMA LineMissing ==
    ASSUME BaseAligned, NEW cache, NEW s \in PP!Sets, NEW w \in PP!Ways,
           \A n \in PP!Ways : cache[s, w] # PP!PrimeLine(s, n)
    PROVE  \E n \in PP!Ways : ~PP!Resident(cache, PP!PrimeLine(s, n))
<1> SUFFICES ASSUME \A n \in PP!Ways : PP!Resident(cache, PP!PrimeLine(s, n))
             PROVE  FALSE
  OBVIOUS
<1>1. \A n \in PP!Ways : \E v \in PP!Ways : cache[s, v] = PP!PrimeLine(s, n)
  <2>1. ASSUME NEW n \in PP!Ways
        PROVE  \E v \in PP!Ways : cache[s, v] = PP!PrimeLine(s, n)
    <3>1. /\ PP!LineOf(PP!PrimeLine(s, n)) = PP!PrimeLine(s, n)
          /\ PP!L1SetIdx(PP!PrimeLine(s, n)) = s
      BY PrimeLineSet
    <3> QED
      BY <2>1, <3>1, Zenon DEF PP!Resident
  <2> QED
    BY <2>1
<1> DEFINE holder == [n \in PP!Ways |-> CHOOSE v \in PP!Ways : cache[s, v] = PP!PrimeLine(s, n)]
<1>2. \A n \in PP!Ways : holder[n] \in PP!Ways /\ cache[s, holder[n]] = PP!PrimeLine(s, n)
  BY <1>1
<1>3. holder \in [PP!Ways -> PP!Ways \ {w}]
  BY <1>2
<1> HIDE DEF holder
<1>4. PICK n \in PP!Ways, m \in PP!Ways : n # m /\ holder[n] = holder[m]
  BY <1>3, OneWayLess, Zenon
<1>5. PP!PrimeLine(s, n) = PP!PrimeLine(s, m)
  BY <1>2, <1>4
<1> QED
  BY <1>4, <1>5, PrimeLineWay

-----------------------------------------------------------------------------
(* What a PROBE counts.                                                    *)

OthersIn(cache, s) == \E w \in PP!Ways : \A n \in PP!Ways : cache[s, w] # PP!PrimeLine(s, n)
Missing(cache, s, n) == ~PP!Resident(cache, PP!PrimeLine(s, n))

(* Since a line entered the set in use it holds a line that is not of the  *)
(* buffers; a PROBE that has counted nothing has yet to come to a line of  *)
(* the buffers that is missing.                                            *)
ProbeInv ==
    /\ cmd \in {"user", "prime", "probe"}
    /\ set_idx \in PP!Sets /\ i \in Nat /\ sum \in Nat
    /\ cmd = "prime" => entered # "since"
    /\ cmd = "user" /\ entered = "since" => OthersIn(l1, set_idx)
    /\ cmd = "probe" /\ entered = "since" /\ sum = 0 =>
          /\ event = "L1D refill"
          /\ \E n \in PP!Ways : n >= i /\ Missing(l1, set_idx, n)

LEMMA ProbeInit == BaseAligned /\ PP!Init => ProbeInv
<1> SUFFICES ASSUME BaseAligned, PP!Init PROVE ProbeInv
  OBVIOUS
<1>1. 0 \in PP!Sets /\ 0 \in PP!Ways
  BY Geometry DEF PP!Sets, PP!Ways
<1>2. l1[0, 0] = PP!Foreign
  BY <1>1 DEF PP!Init
<1>3. \A n \in PP!Ways : PP!PrimeLine(0, n) # PP!Foreign
  BY <1>1, PrimeLineSet DEF PP!Foreign
<1>4. OthersIn(l1, 0)
  BY <1>1, <1>2, <1>3 DEF OthersIn
<1> QED
  BY <1>1, <1>4 DEF PP!Init, ProbeInv

(* Any other line that comes into a set.                                   *)
LEMMA EnteringStep ==
    ASSUME BaseAligned, ProbeInv, NEW set \in PP!Sets, NEW w \in PP!Ways, NEW line,
           \A s \in PP!Sets, n \in PP!Ways : line # PP!PrimeLine(s, n),
           l1' = PP!Put(l1, set, w, line), PP!Entering(set), UNCHANGED <<event, cmd, set_idx, i, sum>>
    PROVE  ProbeInv'
<1> PICK new : new = l1'
  OBVIOUS
<1>1. \A s \in PP!Sets, v \in PP!Ways :
          new[s, v] = IF s = set /\ v = w THEN line ELSE l1[s, v]
  <2>1. new = PP!Put(l1, set, w, line)
    OBVIOUS
  <2> QED
    BY <2>1 DEF PP!Put
<1>2. ASSUME NEW s \in PP!Sets, OthersIn(l1, s) \/ s = set PROVE OthersIn(new, s)
  <2>1. CASE s = set
    <3>1. \A n \in PP!Ways : new[s, w] # PP!PrimeLine(s, n)
      BY <1>1, <2>1
    <3> QED
      BY <3>1 DEF OthersIn
  <2>2. CASE s # set
    BY <1>1, <1>2, <2>2 DEF OthersIn
  <2> QED
    BY <2>1, <2>2
<1>3. ASSUME NEW s \in PP!Sets, NEW n \in PP!Ways, Missing(l1, s, n) PROVE Missing(new, s, n)
  <2>1. PP!L1SetIdx(PP!PrimeLine(s, n)) = s /\ PP!LineOf(PP!PrimeLine(s, n)) = PP!PrimeLine(s, n)
    BY PrimeLineSet
  <2>2. \A v \in PP!Ways : l1[s, v] # PP!PrimeLine(s, n)
    BY <1>3, <2>1 DEF Missing, PP!Resident
  <2>3. \A v \in PP!Ways : new[s, v] # PP!PrimeLine(s, n)
    BY <1>1, <2>2
  <2> QED
    BY <2>1, <2>3 DEF Missing, PP!Resident
<1>4. set_idx' = set_idx /\ set_idx \in PP!Sets
  BY DEF ProbeInv
<1> QED
  BY <1>2, <1>3, <1>4 DEF ProbeInv, PP!Entering

LEMMA ProbeStep ==
    ASSUME BaseAligned, ProgramElsewhere, ProbeInv, [PP!Next]_PP!vars
    PROVE  ProbeInv'
<1>1. CASE UNCHANGED PP!vars
  BY <1>1 DEF PP!vars, ProbeInv
<1>2. ASSUME NEW pa \in ProgramLines, PP!Prime(pa) PROVE ProbeInv'
  <2>1. PP!get_set_idx(pa) \in PP!Sets
    BY L1SetIdxInSets DEF ProgramElsewhere, PP!get_set_idx
  <2> QED
    BY <1>2, <2>1 DEF PP!Prime, ProbeInv
<1>3. CASE PP!PrimeWay
  BY <1>3 DEF PP!PrimeWay, ProbeInv
<1>4. CASE PP!PrimeReturn
  BY <1>4 DEF PP!PrimeReturn, ProbeInv
<1>5. ASSUME NEW pa \in ProgramLines, PP!Probe(pa) PROVE ProbeInv'
  <2>1. PP!get_set_idx(pa) \in PP!Sets
    BY L1SetIdxInSets DEF ProgramElsewhere, PP!get_set_idx
  <2>2. /\ cmd' = "probe" /\ set_idx' \in PP!Sets /\ i' = 0 /\ sum' = 0 /\ event' = "L1D refill"
        /\ l1' = l1 /\ (entered' = "since" => entered = "since" /\ set_idx' = set_idx)
    BY <1>5, <2>1 DEF PP!Probe
  <2>3. ASSUME entered' = "since" PROVE \E n \in PP!Ways : Missing(l1, set_idx, n)
    <3>1. OthersIn(l1, set_idx) /\ set_idx \in PP!Sets
      BY <1>5, <2>2, <2>3 DEF PP!Probe, ProbeInv
    <3> QED
      BY <3>1, LineMissing DEF OthersIn, Missing
  <2>4. \A n \in PP!Ways : n >= 0
    BY Geometry DEF PP!Ways
  <2> QED
    BY <2>2, <2>3, <2>4 DEF ProbeInv
<1>6. CASE PP!ProbeWay
  <2>0. PICK line : line = PP!PrimeLine(set_idx, i)
    OBVIOUS
  <2>1. /\ cmd = "probe" /\ i < l1_ways /\ i' = i + 1 /\ UNCHANGED <<event, cmd, set_idx, entered>>
        /\ l1' \in PP!Bring(l1, line)
    BY <1>6, <2>0 DEF PP!ProbeWay
  <2>2. PICK n \in {0, 1} : /\ sum' = sum + n
                            /\ event = "L1D refill" /\ n = 0 => PP!Resident(l1, line)
    <3>1. CASE event = "L1D refill" /\ ~PP!Resident(l1, line)
      <4>1. sum' = sum + 1
        BY <1>6, <2>0, <3>1 DEF PP!ProbeWay
      <4> QED
        BY <4>1
    <3>2. CASE ~(event = "L1D refill" /\ ~PP!Resident(l1, line))
      <4>1. PICK n \in {0, 1} : sum' = sum + n
        BY <1>6, <2>0, <3>2 DEF PP!ProbeWay
      <4> QED
        BY <3>2, <4>1
    <3> QED
      BY <3>1, <3>2
  <2>3. i \in Nat /\ sum \in Nat
    BY DEF ProbeInv
  <2>4. sum' \in Nat /\ i' \in Nat /\ (sum' = 0 => sum = 0 /\ n = 0)
    <3>1. sum' = sum + n
      BY <2>2
    <3>2. i' = i + 1
      BY <2>1
    <3> QED
      BY <2>3, <3>1, <3>2
  <2>5. ASSUME entered' = "since", sum' = 0
        PROVE  /\ l1' = l1 /\ event = "L1D refill"
               /\ \E m \in PP!Ways : m >= i + 1 /\ Missing(l1, set_idx, m)
    <3>1. event = "L1D refill" /\ n = 0
      BY <2>1, <2>4, <2>5 DEF ProbeInv
    <3>2. PP!Resident(l1, line)
      BY <2>2, <3>1
    <3>3. l1' = l1
      BY <2>1, <3>2 DEF PP!Bring
    <3>4. PICK m \in PP!Ways : m >= i /\ Missing(l1, set_idx, m)
      BY <2>1, <2>4, <2>5 DEF ProbeInv
    <3>5. m # i
      BY <2>0, <3>2, <3>4 DEF Missing
    <3>6. m \in Int
      BY Geometry DEF PP!Ways
    <3>7. m >= i + 1
      BY <2>3, <3>4, <3>5, <3>6
    <3> QED
      BY <3>1, <3>3, <3>4, <3>7
  <2> QED
    BY <2>1, <2>4, <2>5 DEF ProbeInv
<1>7. CASE PP!ProbeReturn
  BY <1>7 DEF PP!ProbeReturn, ProbeInv
<1>8. ASSUME NEW pa \in ProgramLines, PP!ProgramLoad(pa) PROVE ProbeInv'
  <2>1. CASE l1' = l1
    BY <1>8, <2>1 DEF PP!ProgramLoad, ProbeInv
  <2>2. CASE l1' # l1
    <3>1. PICK w \in PP!Ways : l1' = PP!Put(l1, PP!L1SetIdx(pa), w, PP!LineOf(pa))
      BY <1>8, <2>2, BringEffect DEF PP!ProgramLoad
    <3>2. PP!L1SetIdx(pa) \in PP!Sets /\ \A s \in PP!Sets, n \in PP!Ways : PP!LineOf(pa) # PP!PrimeLine(s, n)
      BY L1SetIdxInSets DEF ProgramElsewhere
    <3>3. PP!Entering(PP!L1SetIdx(pa)) /\ UNCHANGED <<event, cmd, set_idx, i, sum>>
      BY <1>8, <2>2 DEF PP!ProgramLoad
    <3> QED
      BY <3>1, <3>2, <3>3, EnteringStep
  <2> QED
    BY <2>1, <2>2
<1>9. ASSUME NEW set \in PP!Sets, PP!OtherLoad(set) PROVE ProbeInv'
  <2>1. PICK w \in PP!Ways : l1' = PP!Put(l1, set, w, PP!Foreign)
    BY <1>9, AllocateEffect DEF PP!OtherLoad
  <2>2. \A s \in PP!Sets, n \in PP!Ways : PP!Foreign # PP!PrimeLine(s, n)
    BY PrimeLineSet DEF PP!Foreign
  <2>3. PP!Entering(set) /\ UNCHANGED <<event, cmd, set_idx, i, sum>>
    BY <1>9 DEF PP!OtherLoad
  <2> QED
    BY <2>1, <2>2, <2>3, EnteringStep
<1> QED
  BY <1>1, <1>2, <1>3, <1>4, <1>5, <1>6, <1>7, <1>8, <1>9 DEF PP!Next

LEMMA ProbeInvTells == ProbeInv => PP!ProbeNotices
<1>1. \A n \in PP!Ways : ~(n >= l1_ways)
  BY Geometry DEF PP!Ways
<1> QED
  BY <1>1 DEF ProbeInv, PP!ProbeNotices

(* A PROBE that counts no miss tells that nothing has entered the set      *)
(* since the PRIME, or the PROBE, before it returned: any line that did    *)
(* has driven one of the buffers' lines out, and the PROBE comes to it.    *)
THEOREM ProbeTells ==
    ASSUME BaseAligned, ProgramElsewhere
    PROVE  PP!Spec => []PP!ProbeNotices
<1>1. PP!Init => ProbeInv
  BY ProbeInit
<1>2. ProbeInv /\ [PP!Next]_PP!vars => ProbeInv'
  BY ProbeStep
<1> QED
  BY <1>1, <1>2, ProbeInvTells, PTL DEF PP!Spec

-----------------------------------------------------------------------------
(* What a PRIME leaves in its set.                                         *)

Clear(s) == {PP!Invalid} \cup {PP!PrimeLine(s, n) : n \in PP!Ways}

(* The ways that PRIME has come to hold nothing else, if no other line has *)
(* entered the set meanwhile.                                              *)
PrimeInv ==
    /\ cmd \in {"user", "prime", "probe"}
    /\ set_idx \in PP!Sets /\ i \in Nat
    /\ cmd = "prime" => i <= l1_ways
    /\ cmd = "prime" /\ entered = "never" => \A w \in PP!Ways : w < i => l1[set_idx, w] \in Clear(set_idx)
    /\ PP!PrimeClears

(* PrimeProbe's cache is SectionCache's.                                   *)
LEMMA SameFlush ==
    ASSUME NEW cache, NEW s, NEW w
    PROVE  /\ PP!flush_l1_dcache(cache, s, w) = flush_l1_dcache(cache, s, w)
           /\ PP!Put(cache, s, w, PP!Invalid) = Put(cache, s, w, Invalid)
BY DEF flush_l1_dcache, PP!flush_l1_dcache, CleanInvalidate, PP!CleanInvalidate,
       Put, PP!Put, Invalid, PP!Invalid, Sets, PP!Sets, Ways, PP!Ways,
       flush_l1_word, PP!flush_l1_word, BitsOf, PP!BitsOf, Log2, PP!Log2,
       W!Or, PP!W!Or, W!Shl, PP!W!Shl, W!Bits, PP!W!Bits, W!Field, PP!W!Field,
       W!Value, PP!W!Value, W!MapThenSumSet, PP!W!MapThenSumSet,
       W!MapThenFoldSet, PP!W!MapThenFoldSet

LEMMA FlushWay ==
    ASSUME FourWays, NEW cache, NEW s \in PP!Sets, NEW w \in PP!Ways
    PROVE  PP!flush_l1_dcache(cache, s, w) = PP!Put(cache, s, w, PP!Invalid)
<1>1. s \in Sets /\ w \in Ways /\ FlushNamesWay
  BY FlushNamesWayHolds DEF FourWays, Sets, Ways, PP!Sets, PP!Ways
<1>2. flush_l1_dcache(cache, s, w) = Put(cache, s, w, Invalid)
  BY <1>1 DEF FlushNamesWay, flush_l1_dcache, CleanInvalidate
<1> QED
  BY <1>2, SameFlush

(* A line of the buffers that comes into its set.                          *)
LEMMA BringClear ==
    ASSUME BaseAligned, NEW cache, NEW s \in PP!Sets, NEW n \in PP!Ways,
           NEW new \in PP!Bring(cache, PP!PrimeLine(s, n)), NEW w \in PP!Ways
    PROVE  new[s, w] = cache[s, w] \/ new[s, w] \in Clear(s)
<1>1. CASE new = cache
  BY <1>1
<1>2. CASE new # cache
  <2>1. PICK v \in PP!Ways : new = PP!Put(cache, s, v, PP!PrimeLine(s, n))
    BY <1>2, BringEffect, PrimeLineSet
  <2> QED
    BY <2>1 DEF PP!Put, Clear
<1> QED
  BY <1>1, <1>2

LEMMA PrimeWayStep ==
    ASSUME BaseAligned, FourWays, PrimeInv, PP!PrimeWay
    PROVE  PrimeInv'
<1>0. PICK line : line = PP!PrimeLine(set_idx, i)
  OBVIOUS
<1>1. /\ cmd = "prime" /\ i < l1_ways /\ i' = i + 1
      /\ UNCHANGED <<cmd, set_idx, entered>>
  BY DEF PP!PrimeWay
<1>2. PICK stored \in PP!Bring(l1, line) :
         l1' \in PP!Bring(PP!flush_l1_dcache(PP!flush_dcache(stored, line), set_idx, i), line)
  BY <1>0 DEF PP!PrimeWay
<1>3. set_idx \in PP!Sets /\ i \in PP!Ways /\ i \in Nat
  <2>1. set_idx \in PP!Sets /\ i \in Nat /\ i < l1_ways
    BY <1>1 DEF PrimeInv
  <2>2. i \in 0 .. (l1_ways - 1)
    BY <2>1, Geometry
  <2> QED
    BY <2>1, <2>2 DEF PP!Ways
<1>4. PICK flushed : flushed = PP!Put(PP!flush_dcache(stored, line), set_idx, i, PP!Invalid)
  OBVIOUS
<1>5. PICK new \in PP!Bring(flushed, line) : new = l1'
  BY <1>2, <1>3, <1>4, FlushWay
<1>6. ASSUME NEW w \in PP!Ways, w = i \/ l1[set_idx, w] \in Clear(set_idx)
      PROVE  new[set_idx, w] \in Clear(set_idx)
  <2>1. stored[set_idx, w] = l1[set_idx, w] \/ stored[set_idx, w] \in Clear(set_idx)
    BY <1>0, <1>3, BringClear
  <2>2. /\ flushed[set_idx, i] = PP!Invalid
        /\ w = i \/ flushed[set_idx, w] = PP!Invalid \/ flushed[set_idx, w] = stored[set_idx, w]
    BY <1>3, <1>4 DEF PP!Put, PP!flush_dcache
  <2>3. flushed[set_idx, w] \in Clear(set_idx)
    BY <1>6, <2>1, <2>2 DEF Clear
  <2> QED
    BY <1>0, <1>3, <1>5, <2>3, BringClear
<1>7. ASSUME entered = "never", NEW w \in PP!Ways, w < i + 1 PROVE new[set_idx, w] \in Clear(set_idx)
  <2>1. w = i \/ w < i
    BY <1>3, <1>7, Geometry DEF PP!Ways
  <2> QED
    BY <1>1, <1>6, <1>7, <2>1 DEF PrimeInv
<1>8. i + 1 \in Nat /\ i + 1 <= l1_ways
  BY <1>1, <1>3, Geometry
<1> QED
  BY <1>1, <1>3, <1>5, <1>7, <1>8 DEF PrimeInv, PP!PrimeClears

(* A line that comes in from elsewhere changes no other set, and is seen   *)
(* in its own.                                                             *)
LEMMA OtherSets ==
    ASSUME PrimeInv, NEW set, NEW w \in PP!Ways, NEW line,
           l1' = PP!Put(l1, set, w, line), PP!Entering(set), UNCHANGED <<event, cmd, set_idx, i, sum>>
    PROVE  PrimeInv'
<1> PICK new : new = l1'
  OBVIOUS
<1>1. CASE set = set_idx
  BY <1>1 DEF PrimeInv, PP!PrimeClears, PP!Entering
<1>2. CASE set # set_idx
  <2>1. \A v \in PP!Ways : new[set_idx, v] = l1[set_idx, v]
    <3>1. new = PP!Put(l1, set, w, line) /\ set_idx \in PP!Sets
      BY DEF PrimeInv
    <3> QED
      BY <1>2, <3>1 DEF PP!Put
  <2>2. entered' = entered
    BY <1>2 DEF PP!Entering
  <2> QED
    BY <2>1, <2>2 DEF PrimeInv, PP!PrimeClears, PP!PrimeLine, PP!PrimeProbeArr
<1> QED
  BY <1>1, <1>2

LEMMA PrimeStep ==
    ASSUME BaseAligned, FourWays, ProgramElsewhere, PrimeInv, [PP!Next]_PP!vars
    PROVE  PrimeInv'
<1>1. CASE UNCHANGED PP!vars
  BY <1>1 DEF PP!vars, PrimeInv, PP!PrimeClears, PP!PrimeLine, PP!PrimeProbeArr
<1>2. ASSUME NEW pa \in ProgramLines, PP!Prime(pa) \/ PP!Probe(pa) PROVE PrimeInv'
  <2>1. PP!get_set_idx(pa) \in PP!Sets
    BY L1SetIdxInSets DEF ProgramElsewhere, PP!get_set_idx
  <2>2. \A w \in PP!Ways : ~(w < 0)
    BY Geometry DEF PP!Ways
  <2>3. 0 \in Nat /\ 0 <= l1_ways
    BY Geometry
  <2>4. CASE PP!Prime(pa)
    <3>1. cmd' = "prime" /\ set_idx' \in PP!Sets /\ i' = 0
      BY <2>1, <2>4 DEF PP!Prime
    <3> QED
      BY <2>2, <2>3, <3>1 DEF PrimeInv, PP!PrimeClears
  <2>5. CASE PP!Probe(pa)
    <3>1. cmd' = "probe" /\ set_idx' \in PP!Sets /\ i' = 0
      BY <2>1, <2>5 DEF PP!Probe
    <3> QED
      BY <2>3, <3>1 DEF PrimeInv, PP!PrimeClears
  <2> QED
    BY <1>2, <2>4, <2>5
<1>3. CASE PP!PrimeWay
  BY <1>3, PrimeWayStep
<1>4. CASE PP!PrimeReturn
  <2>1. \A w \in PP!Ways : w < l1_ways
    BY Geometry DEF PP!Ways
  <2> QED
    BY <1>4, <2>1 DEF PP!PrimeReturn, PrimeInv, PP!PrimeClears, Clear, PP!PrimeLine, PP!PrimeProbeArr
<1>5. CASE PP!ProbeWay
  <2>1. cmd' = "probe" /\ set_idx' = set_idx /\ i' = i + 1
    BY <1>5 DEF PP!ProbeWay
  <2>2. set_idx \in PP!Sets /\ i \in Nat
    BY DEF PrimeInv
  <2>3. i + 1 \in Nat
    BY <2>2
  <2> QED
    BY <2>1, <2>2, <2>3 DEF PrimeInv, PP!PrimeClears
<1>6. CASE PP!ProbeReturn
  BY <1>6 DEF PP!ProbeReturn, PrimeInv, PP!PrimeClears
<1>7. ASSUME NEW pa \in ProgramLines, PP!ProgramLoad(pa) PROVE PrimeInv'
  <2>1. CASE l1' = l1
    BY <1>7, <2>1 DEF PP!ProgramLoad, PrimeInv, PP!PrimeClears, PP!PrimeLine, PP!PrimeProbeArr
  <2>2. CASE l1' # l1
    <3>1. PICK w \in PP!Ways : l1' = PP!Put(l1, PP!L1SetIdx(pa), w, PP!LineOf(pa))
      BY <1>7, <2>2, BringEffect DEF PP!ProgramLoad
    <3>2. PP!Entering(PP!L1SetIdx(pa)) /\ UNCHANGED <<event, cmd, set_idx, i, sum>>
      BY <1>7, <2>2 DEF PP!ProgramLoad
    <3> QED
      BY <3>1, <3>2, OtherSets
  <2> QED
    BY <2>1, <2>2
<1>8. ASSUME NEW set \in PP!Sets, PP!OtherLoad(set) PROVE PrimeInv'
  <2>1. PICK w \in PP!Ways : l1' = PP!Put(l1, set, w, PP!Foreign)
    BY <1>8, AllocateEffect DEF PP!OtherLoad
  <2>2. PP!Entering(set) /\ UNCHANGED <<event, cmd, set_idx, i, sum>>
    BY <1>8 DEF PP!OtherLoad
  <2> QED
    BY <2>1, <2>2, OtherSets
<1> QED
  BY <1>1, <1>2, <1>3, <1>4, <1>5, <1>6, <1>7, <1>8 DEF PP!Next

LEMMA PrimeInit == PP!Init => PrimeInv
BY Geometry DEF PP!Init, PrimeInv, PP!PrimeClears, PP!Sets

(* After a PRIME that nothing disturbed the set holds lines of the buffers *)
(* only, whatever ways the replacement policy chose, where the word by     *)
(* which the module flushes a way names that way.                          *)
THEOREM PrimeLeavesClear ==
    ASSUME BaseAligned, ProgramElsewhere, FourWays
    PROVE  PP!Spec => []PP!PrimeClears
<1>1. PrimeInv /\ [PP!Next]_PP!vars => PrimeInv'
  BY PrimeStep
<1>2. PrimeInv => PP!PrimeClears
  BY DEF PrimeInv
<1> QED
  BY PrimeInit, <1>1, <1>2, PTL DEF PP!Spec

-----------------------------------------------------------------------------
(* The buffers while the module is loaded and removed (Lifecycle), for any *)
(* threads and as many ways as the cache has.                              *)

(* The ways of a cache are numbered from 0.                                *)
LEMMA WaysNumbered == \E n \in Nat : LoadedWays = 0 .. n
<1>1. BufferWays - 1 \in Nat
  BY CachesAssumption
<1> QED
  BY <1>1 DEF LoadedWays

Loaders == {"absent", "fix", "register", "info", "alloc", "memset", "live", "dead",
            "rundown", "unregister", "free", "unload"}
Serving == {"live", "rundown"}
Buffers == {"NULL", "allocated", "failed", "freed"}
There(w) == buffers[w] \in {"allocated", "failed"}

LifecycleType ==
    /\ loader \in Loaders
    /\ ways \in Nat
    /\ buffers \in [LoadedWays -> Buffers]
    /\ rows \in [CommandThreads -> BOOLEAN]
    /\ command \in [CommandThreads -> {"user", "INIT", "EXIT", "PRIME"}]
    /\ turn \in [CommandThreads -> Nat]
    /\ early \in [CommandThreads -> BOOLEAN]
    /\ opened \in [CommandThreads -> BOOLEAN]

(* What insmod and rmmod have done when the loader has come to a place.    *)
LoaderInv ==
    /\ loader \in {"info", "alloc", "memset", "live", "rundown", "unregister"} => hook
    /\ loader \in {"alloc", "memset", "live", "rundown", "unregister"}
          => LoadedWays = 0 .. (ways - 1)
    /\ loader \in {"absent", "fix", "register", "info"}
          => \A w \in LoadedWays : buffers[w] = "NULL"
    /\ loader = "alloc" => \A w \in LoadedWays : buffers[w] = "NULL" \/ There(w)
    /\ loader \in {"memset", "live", "rundown", "unregister"} => \A w \in LoadedWays : There(w)

(* A command that did not begin early keeps the module in place, and a     *)
(* section is opened only by such a command.                               *)
ThreadInv(t) ==
    /\ command[t] # "user" /\ ~early[t] => loader \in Serving
    /\ opened[t] => /\ rows[t] /\ command[t] # "EXIT"
                    /\ loader \in Serving \cup {"unregister", "free", "unload"}

LifecycleInv == LifecycleType /\ LoaderInv /\ \A t \in CommandThreads : ThreadInv(t)

LEMMA LifecycleInit == LC!Init => LifecycleInv
BY DEF LC!Init, LifecycleInv, LifecycleType, LoaderInv, ThreadInv, Loaders, Buffers, Serving

(* The steps of insmod.                                                    *)
LEMMA InsmodStep ==
    ASSUME LifecycleInv,
           LC!ProcCreate \/ LC!FixUnresolved \/ LC!RegisterExHandler \/ LC!SetCacheInfo
             \/ LC!InitPrimeProbeArr \/ LC!InitAllSdataArr
    PROVE  LifecycleInv'
<1> USE DEF LifecycleInv, LifecycleType, LoaderInv, ThreadInv, Loaders, Buffers, Serving,
            There, LC!threads, LC!Step
<1>0. PICK n \in Nat : LoadedWays = 0 .. n
  BY WaysNumbered
<1>1. CASE LC!ProcCreate
  BY <1>1 DEF LC!ProcCreate
<1>2. CASE LC!FixUnresolved
  BY <1>2 DEF LC!FixUnresolved
<1>3. CASE LC!RegisterExHandler
  BY <1>3 DEF LC!RegisterExHandler
<1>4. CASE LC!SetCacheInfo
  <2>1. PICK m \in LoadedWays : ways' = m + 1 /\ m + 1 \notin LoadedWays
    BY <1>4 DEF LC!SetCacheInfo
  <2>2. m = n
    BY <1>0, <2>1
  <2> QED
    BY <1>0, <1>4, <2>1, <2>2 DEF LC!SetCacheInfo
<1>5. CASE LC!InitPrimeProbeArr
  <2>1. CASE /\ buffers' = [w \in LoadedWays |-> "failed"]
             /\ loader' = "memset"
    BY <1>5, <2>1 DEF LC!InitPrimeProbeArr
  <2>2. CASE \E w \in LoadedWays :
                /\ \A v \in 0 .. (w - 1) : buffers[v] # "NULL"
                /\ \E p \in {"allocated", "failed"} :
                      buffers' = [buffers EXCEPT ![w] = p]
                /\ loader' = IF w + 1 = ways THEN "memset" ELSE "alloc"
    <3>1. PICK w \in LoadedWays, p \in {"allocated", "failed"} :
             /\ \A v \in 0 .. (w - 1) : buffers[v] # "NULL"
             /\ buffers' = [buffers EXCEPT ![w] = p]
             /\ loader' = IF w + 1 = ways THEN "memset" ELSE "alloc"
      BY <2>2
    <3>2. /\ loader = "alloc" /\ LoadedWays = 0 .. (ways - 1)
          /\ UNCHANGED <<proc, hook, resolved, ways, rows, LC!threads>>
      BY <1>5 DEF LC!InitPrimeProbeArr
    <3>3. /\ buffers' \in [LoadedWays -> Buffers]
          /\ \A v \in LoadedWays : v = w \/ buffers'[v] = buffers[v]
          /\ There(w)'
      BY <3>1
    <3>4. \A v \in LoadedWays : buffers[v] = "NULL" \/ There(v)
      BY <3>2
    <3>5. \A v \in LoadedWays : buffers'[v] = "NULL" \/ There(v)'
      BY <3>3, <3>4
    <3>6. ASSUME w + 1 = ways, NEW v \in LoadedWays PROVE There(v)'
      <4>1. v = w \/ v \in 0 .. (w - 1)
        BY <1>0, <3>2, <3>6
      <4> QED
        BY <3>1, <3>3, <3>4, <4>1
    <3>7. LifecycleType'
      BY <3>1, <3>2, <3>3
    <3>8. LoaderInv'
      BY <3>1, <3>2, <3>5, <3>6
    <3>9. ASSUME NEW t \in CommandThreads PROVE ThreadInv(t)'
      BY <3>2, <3>1
    <3> QED
      BY <3>7, <3>8, <3>9
  <2> QED
    BY <1>5, <2>1, <2>2 DEF LC!InitPrimeProbeArr
<1>6. CASE LC!InitAllSdataArr
  BY <1>6 DEF LC!InitAllSdataArr
<1> QED
  BY <1>1, <1>2, <1>3, <1>4, <1>5, <1>6

(* The steps of rmmod.                                                     *)
LEMMA RmmodStep ==
    ASSUME LifecycleInv,
           LC!RemoveProc \/ LC!Rundown \/ LC!UnregisterExHandler
             \/ LC!FinalizePrimeProbeArr \/ LC!Unload
    PROVE  LifecycleInv'
<1> USE DEF LifecycleInv, LifecycleType, LoaderInv, ThreadInv, Loaders, Buffers, Serving,
            There, LC!threads, LC!Step
<1>1. CASE LC!RemoveProc
  BY <1>1 DEF LC!RemoveProc
<1>2. CASE LC!Rundown
  BY <1>2 DEF LC!Rundown
<1>3. CASE LC!UnregisterExHandler
  BY <1>3 DEF LC!UnregisterExHandler
<1>4. CASE LC!FinalizePrimeProbeArr
  BY <1>4 DEF LC!FinalizePrimeProbeArr
<1>5. CASE LC!Unload
  BY <1>5 DEF LC!Unload
<1> QED
  BY <1>1, <1>2, <1>3, <1>4, <1>5

(* The steps of the threads that write commands.                           *)
LEMMA CommandStep ==
    ASSUME LifecycleInv, NEW t \in CommandThreads,
           \/ \E c \in {"INIT", "EXIT", "PRIME"} : LC!Write(t, c)
           \/ LC!CmdInit(t) \/ LC!CmdExit(t) \/ LC!PrimeWay(t) \/ LC!PrimeReturn(t)
    PROVE  LifecycleInv'
<1> USE DEF LifecycleInv, LifecycleType, LoaderInv, ThreadInv, Serving, There, LC!module
<1>1. ASSUME NEW c \in {"INIT", "EXIT", "PRIME"}, LC!Write(t, c) PROVE LifecycleInv'
  BY <1>1 DEF LC!Write
<1>2. CASE LC!CmdInit(t)
  BY <1>2 DEF LC!CmdInit
<1>3. CASE LC!CmdExit(t)
  BY <1>3 DEF LC!CmdExit
<1>4. CASE LC!PrimeWay(t)
  BY <1>4 DEF LC!PrimeWay
<1>5. CASE LC!PrimeReturn(t)
  BY <1>5 DEF LC!PrimeReturn
<1> QED
  BY <1>1, <1>2, <1>3, <1>4, <1>5

LEMMA LifecycleStep ==
    ASSUME LifecycleInv, [LC!Next]_LC!vars
    PROVE  LifecycleInv'
<1>1. CASE UNCHANGED LC!vars
  BY <1>1 DEF LC!vars, LC!module, LC!threads, LifecycleInv, LifecycleType, LoaderInv,
              ThreadInv, There
<1> QED
  BY <1>1, InsmodStep, RmmodStep, CommandStep DEF LC!Next

LEMMA LifecycleServes == LifecycleInv => LC!CommandsServed
<1> SUFFICES ASSUME LifecycleInv, NEW t \in CommandThreads
             PROVE  /\ command[t] # "user" /\ ~early[t] => hook
                    /\ command[t] = "PRIME" /\ ~early[t] /\ turn[t] < ways =>
                          buffers[turn[t]] \in {"allocated", "failed"}
                    /\ opened[t] => rows[t]
  BY DEF LC!CommandsServed
<1>1. ThreadInv(t) /\ LoaderInv /\ turn[t] \in Nat /\ ways \in Nat
  BY DEF LifecycleInv, LifecycleType
<1>2. ASSUME command[t] # "user", ~early[t]
      PROVE  hook /\ LoadedWays = 0 .. (ways - 1) /\ \A w \in LoadedWays : There(w)
  BY <1>1, <1>2 DEF ThreadInv, LoaderInv, Serving
<1>3. ASSUME command[t] = "PRIME", ~early[t], turn[t] < ways
      PROVE  There(turn[t])
  <2>1. turn[t] \in 0 .. (ways - 1)
    BY <1>1, <1>3
  <2> QED
    BY <1>2, <1>3, <2>1
<1> QED
  BY <1>1, <1>2, <1>3 DEF ThreadInv, There

(* A command that begins in the loaded module finds the handler and its    *)
(* buffers until it returns, and a section it opens stays registered until *)
(* its EXIT or the removal of the module (sb_lkm.c:379-403).               *)
THEOREM LifecycleServesCommands == LC!Spec => []LC!CommandsServed
<1>1. LifecycleInv /\ [LC!Next]_LC!vars => LifecycleInv'
  BY LifecycleStep
<1> QED
  BY LifecycleInit, LifecycleServes, <1>1, PTL DEF LC!Spec

-----------------------------------------------------------------------------
(* The three models side by side, as MCCaches checks them.                 *)

(* What a step of either of the other two models leaves alone.             *)
LEMMA Chosen ==
    ASSUME [CachesNext]_<<allVars, use, measuring, loading>>
    PROVE  /\ use' = use
           /\ use = "probe" => [PP!Next]_PP!vars
           /\ use # "probe" => UNCHANGED measuring
           /\ [LC!Next]_LC!vars
<1>1. CASE UNCHANGED <<allVars, use, measuring, loading>>
  <2>1. UNCHANGED PP!vars
    BY <1>1 DEF PP!vars, allVars, cacheVars, measuring
  <2>2. UNCHANGED LC!vars
    BY <1>1 DEF LC!vars, LC!module, LC!threads, loading
  <2> QED
    BY <1>1, <2>1, <2>2
<1>2. CASE UNCHANGED loading
  <2>1. UNCHANGED LC!vars
    BY <1>2 DEF LC!vars, LC!module, LC!threads, loading
  <2> QED
    BY <1>1, <1>2, <2>1 DEF CachesNext
<1> QED
  BY <1>1, <1>2 DEF CachesNext

(* Until PRIME or PROBE has been called their properties hold of any       *)
(* contents of the cache.                                                  *)
NothingMeasured == use # "probe" /\ cmd = "user" /\ entered = "since"

LEMMA MeasuringInit ==
    CachesInit => (use = "probe" /\ PP!Init) \/ NothingMeasured
BY DEF CachesInit, PP!Init, NothingMeasured

LEMMA NothingMeasuredStep ==
    ASSUME NothingMeasured, [CachesNext]_<<allVars, use, measuring, loading>>
    PROVE  NothingMeasured'
BY Chosen DEF NothingMeasured, measuring

(* In the other two uses of the cache no section is open.                  *)
SectionUse ==
    /\ KernelInv
    /\ use = "section" => SectionResident
    /\ use # "section" => \A t \in Tasks : ~Open(t)

LEMMA SectionUseInit == CachesInit => SectionUse
<1>1. Init => KernelInv
  BY TypeInit, RegistrationInit, SectionInit, TableInit, HandlerInit DEF KernelInv
<1>2. Init => \A t \in Tasks : ~Open(t)
  BY DEF Init, Open
<1> QED
  BY <1>1, <1>2 DEF CachesInit, SectionUse, SectionResident

LEMMA SectionUseStep ==
    ASSUME Architecture = "arm64", SlotsDistinct, SectionsStay, SectionUse, OthersFit,
           [CachesNext]_<<allVars, use, measuring, loading>>
    PROVE  SectionUse'
<1>1. CASE use = "section" /\ [CacheNext]_allVars /\ use' = use
  <2>1. [Next]_vars
    BY <1>1, CacheStep DEF Next, allVars
  <2>2. KernelInv'
    BY <2>1, KernelStep DEF SectionUse
  <2>3. SectionResident'
    BY <1>1, ResidentStep DEF SectionUse
  <2> QED
    BY <1>1, <2>2, <2>3 DEF SectionUse
<1>2. CASE use # "section" /\ UNCHANGED vars /\ use' = use
  <2>1. KernelInv'
    BY <1>2, KernelStep DEF SectionUse
  <2>2. \A t \in Tasks : ~Open(t)'
    BY <1>2 DEF SectionUse, Open, vars
  <2> QED
    BY <1>2, <2>1, <2>2 DEF SectionUse
<1> QED
  BY <1>1, <1>2 DEF CachesNext, allVars

(* What the module has put into L1 is there until something else enters    *)
(* its set (addr.c:146-163, arm64/insn.c:150-172), in the run's            *)
(* specification.                                                          *)
THEOREM SectionResidentInRun ==
    ASSUME Architecture = "arm64", SlotsDistinct, SectionsStay
    PROVE  CachesSpec /\ []OthersFit => []SectionResident
<1>1. CachesInit => SectionUse
  BY SectionUseInit
<1>2. SectionUse /\ OthersFit /\ [CachesNext]_<<allVars, use, measuring, loading>> => SectionUse'
  BY SectionUseStep
<1>3. SectionUse => SectionResident
  BY DEF SectionUse, SectionResident
<1> QED
  BY <1>1, <1>2, <1>3, PTL DEF CachesSpec

(* After a PRIME that nothing disturbed the set holds lines of the module  *)
(* only (sb_lkm.c:223-230), in the run's specification.                    *)
THEOREM PrimeClearsHolds ==
    ASSUME BaseAligned, ProgramElsewhere, FourWays
    PROVE  CachesSpec => []PrimeClears
<1> DEFINE Inv == (use = "probe" /\ PrimeInv) \/ NothingMeasured
<1>1. CachesInit => Inv
  BY MeasuringInit, PrimeInit
<1>2. Inv /\ [CachesNext]_<<allVars, use, measuring, loading>> => Inv'
  BY Chosen, PrimeStep, NothingMeasuredStep
<1>3. Inv => PrimeClears
  BY DEF PrimeInv, NothingMeasured, PrimeClears, PP!PrimeClears
<1> HIDE DEF Inv
<1> QED
  BY <1>1, <1>2, <1>3, PTL DEF CachesSpec

(* A PROBE that counts no miss: nothing has entered the set since the      *)
(* PRIME, or the PROBE, before it returned (sb_lkm.c:223-255), in the      *)
(* run's specification.                                                    *)
THEOREM ProbeNoticesHolds ==
    ASSUME BaseAligned, ProgramElsewhere
    PROVE  CachesSpec => []ProbeNotices
<1> DEFINE Inv == (use = "probe" /\ ProbeInv) \/ NothingMeasured
<1>1. CachesInit => Inv
  BY MeasuringInit, ProbeInit
<1>2. Inv /\ [CachesNext]_<<allVars, use, measuring, loading>> => Inv'
  BY Chosen, ProbeStep, NothingMeasuredStep
<1>3. Inv => ProbeNotices
  BY ProbeInvTells DEF NothingMeasured, ProbeNotices, PP!ProbeNotices
<1> HIDE DEF Inv
<1> QED
  BY <1>1, <1>2, <1>3, PTL DEF CachesSpec

(* Commands that begin in the loaded module find its handler and its       *)
(* buffers until they return, sections stay registered (sb_lkm.c:379-403), *)
(* in the run's specification.                                             *)
THEOREM CommandsServedHolds == CachesSpec => []CommandsServed
<1>1. CachesInit => LifecycleInv
  BY LifecycleInit DEF CachesInit
<1>2. LifecycleInv /\ [CachesNext]_<<allVars, use, measuring, loading>> => LifecycleInv'
  BY Chosen, LifecycleStep
<1>3. LifecycleInv => CommandsServed
  BY LifecycleServes DEF CommandsServed
<1> QED
  BY <1>1, <1>2, <1>3, PTL DEF CachesSpec
=============================================================================
