------------------------- MODULE InstrumentationProofs -------------------------
(***************************************************************************)
(* An instrumented program, rewritten and run, for every set of programs   *)
(* of clang's layout: the pass puts the calls where the section needs      *)
(* them, the scan finds what lies between them, and so every use of the    *)
(* variable runs inside its section and every load inside is rewritten.    *)
(*                                                                         *)
(* What the pass and the scan compute is defined by recursion over lines;  *)
(* the induction is over the least number that is not in a set.            *)
(***************************************************************************)
EXTENDS Instrumentation, WellFoundedInduction, TLAPS

-----------------------------------------------------------------------------
(* Induction over a set of numbers.                                        *)

LEMMA LeastOf ==
    ASSUME NEW T \in SUBSET Nat, T # {}
    PROVE  \E x \in T : \A y \in T : x <= y
<1>1. PICK x \in T : \A y \in T : ~(<<y, x>> \in OpToRel(<, Nat))
  BY NatLessThanWellFounded, WFMin
<1>2. \A y \in T : ~(y < x)
  BY <1>1 DEF OpToRel
<1> QED
  BY <1>2

LEMMA AllNumbers ==
    ASSUME NEW G, 0 \in G, \A n \in Nat : n \in G => n + 1 \in G
    PROVE  Nat \subseteq G
<1> SUFFICES ASSUME Nat \ G # {} PROVE FALSE
  OBVIOUS
<1>1. PICK x \in Nat \ G : \A y \in Nat \ G : x <= y
  BY LeastOf
<1>2. x # 0 /\ x - 1 \in Nat
  BY <1>1
<1>3. x - 1 \in G
  BY <1>1, <1>2
<1>4. (x - 1) + 1 \in G
  BY <1>2, <1>3
<1> QED
  BY <1>1, <1>4

-----------------------------------------------------------------------------
(* Sequences of sequences.                                                 *)

LEMMA SequenceOf ==
    ASSUME NEW T, NEW n \in Nat, NEW s, s = [i \in 1 .. n |-> s[i]], \A i \in 1 .. n : s[i] \in T
    PROVE  s \in Seq(T) /\ Len(s) = n /\ (n # 0 => s # <<>>)
<1>1. s \in [1 .. n -> T]
  OBVIOUS
<1>2. s \in Seq(T) /\ Len(s) = n
  BY <1>1
<1> QED
  BY <1>2

LEMMA ElementsOf ==
    ASSUME NEW T, NEW s \in Seq(T), s # <<>>
    PROVE  Len(s) \in Nat \ {0} /\ DOMAIN s = 1 .. Len(s) /\ \A i \in 1 .. Len(s) : s[i] \in T
OBVIOUS

Join(s, t) == s \o t
Flat(ss) == CHOOSE flat : flat = [i \in 1 .. Len(ss) |->
                                     IF i = 1 THEN ss[i] ELSE Join(flat[i - 1], ss[i])]

LEMMA FlatSteps ==
    ASSUME NEW ss, Len(ss) \in Nat \ {0}
    PROVE  /\ Flat(ss) = [i \in 1 .. Len(ss) |->
                             IF i = 1 THEN ss[i] ELSE Join(Flat(ss)[i - 1], ss[i])]
<1> DEFINE Steps(h, n) == [i \in 1 .. n |-> IF i = 1 THEN ss[i] ELSE Join(h[i - 1], ss[i])]
           G == {n \in Nat : \E h : h = Steps(h, n)}
<1>1. 0 \in G
  <2>1. [i \in 1 .. 0 |-> ss[1]] = Steps([i \in 1 .. 0 |-> ss[1]], 0)
    OBVIOUS
  <2> QED
    BY <2>1
<1>2. ASSUME NEW n \in Nat, n \in G PROVE n + 1 \in G
  <2>1. PICK h : h = Steps(h, n)
    BY <1>2
  <2> DEFINE g == [i \in 1 .. n + 1 |->
                      IF i <= n THEN h[i] ELSE IF n = 0 THEN ss[1] ELSE Join(h[n], ss[n + 1])]
  <2>2. ASSUME NEW i \in 1 .. n + 1
        PROVE  g[i] = IF i = 1 THEN ss[i] ELSE Join(g[i - 1], ss[i])
    <3>1. CASE i = n + 1
      BY <3>1
    <3>2. CASE i \in 1 .. n
      <4>1. h[i] = IF i = 1 THEN ss[i] ELSE Join(h[i - 1], ss[i])
        BY <2>1, <3>2
      <4> QED
        BY <3>2, <4>1
    <3> QED
      BY <3>1, <3>2
  <2>3. g = Steps(g, n + 1)
    BY <2>2
  <2> HIDE DEF g
  <2>4. \E f : f = Steps(f, n + 1)
    BY <2>3
  <2> QED
    BY <2>4
<1>3. \E h : h = Steps(h, Len(ss))
  BY <1>1, <1>2, AllNumbers
<1> QED
  BY <1>3 DEF Flat

LEMMA FlattenIsFlat ==
    ASSUME NEW ss, Len(ss) \in Nat \ {0}
    PROVE  FlattenSeq(ss) = Flat(ss)[Len(ss)]
BY DEF FlattenSeq, Flat, Join


Joins(S, u, v, w) ==
    /\ w \in Seq(S) /\ Len(w) = Len(u) + Len(v) /\ Len(u) \in Nat /\ Len(v) \in Nat
    /\ \A i \in 1 .. Len(u) : w[i] = u[i]
    /\ \A i \in 1 .. Len(v) : w[Len(u) + i] = v[i]

LEMMA Joined ==
    ASSUME NEW S, NEW u \in Seq(S), NEW v \in Seq(S)
    PROVE  Joins(S, u, v, Join(u, v))
BY DEF Join, Joins

(* Where the a-th sequence begins.                                         *)
Off(ss, a) == IF a = 0 THEN 0 ELSE Len(Flat(ss)[a])

PlacedUpTo(S, ss, m) ==
    /\ Flat(ss)[m] \in Seq(S)
    /\ Off(ss, m) = Len(Flat(ss)[m])
    /\ \A a \in 1 .. m :
          /\ Off(ss, a - 1) \in Nat /\ Len(ss[a]) \in Nat
          /\ Off(ss, a) = Off(ss, a - 1) + Len(ss[a])
          /\ Off(ss, a) <= Off(ss, m)
          /\ \A i \in 1 .. Len(ss[a]) : Flat(ss)[m][Off(ss, a - 1) + i] = ss[a][i]

LEMMA FlatPlaces ==
    ASSUME NEW S, NEW ss, Len(ss) \in Nat \ {0}, \A a \in 1 .. Len(ss) : ss[a] \in Seq(S),
           NEW n \in 1 .. Len(ss)
    PROVE  PlacedUpTo(S, ss, n)
<1> DEFINE G == {m \in Nat : m + 1 \in 1 .. Len(ss) => PlacedUpTo(S, ss, m + 1)}
<1>1. 0 \in G
  <2>1. Flat(ss)[1] = ss[1] /\ ss[1] \in Seq(S)
    BY FlatSteps
  <2>2. Len(ss[1]) \in Nat
    BY <2>1
  <2>3. PlacedUpTo(S, ss, 1)
    BY <2>1, <2>2 DEF PlacedUpTo, Off
  <2> QED
    BY <2>3
<1>2. ASSUME NEW m \in Nat, m \in G PROVE m + 1 \in G
  <2> SUFFICES ASSUME m + 2 \in 1 .. Len(ss) PROVE PlacedUpTo(S, ss, m + 2)
    BY m + 1 + 1 = m + 2
  <2>1. m + 1 \in 1 .. Len(ss)
    OBVIOUS
  <2>2. PlacedUpTo(S, ss, m + 1)
    BY <1>2, <2>1
  <2> HIDE DEF G
  <2>3. Flat(ss)[m + 2] = Join(Flat(ss)[m + 1], ss[m + 2])
    BY FlatSteps
  <2>4. PICK u, v, w : u = Flat(ss)[m + 1] /\ v = ss[m + 2] /\ w = Flat(ss)[m + 2]
    OBVIOUS
  <2>5. u \in Seq(S) /\ v \in Seq(S) /\ w = Join(u, v)
    BY <2>2, <2>3, <2>4 DEF PlacedUpTo
  <2>6. Joins(S, u, v, w)
    BY <2>5, Joined
  <2>7. Off(ss, m + 1) = Len(u) /\ Off(ss, m + 2) = Len(w)
    BY <2>4 DEF Off
  <2>8. ASSUME NEW a \in 1 .. m + 2
        PROVE  /\ Off(ss, a - 1) \in Nat /\ Len(ss[a]) \in Nat
               /\ Off(ss, a) = Off(ss, a - 1) + Len(ss[a])
               /\ Off(ss, a) <= Off(ss, m + 2)
               /\ \A i \in 1 .. Len(ss[a]) : w[Off(ss, a - 1) + i] = ss[a][i]
    <3>1. CASE a = m + 2
      <4>1. a - 1 = m + 1
        BY <3>1
      <4>2. PICK o, e : o = Off(ss, a - 1) /\ e = Off(ss, a)
        OBVIOUS
      <4>3. o = Len(u) /\ e = Len(w) /\ ss[a] = v /\ Off(ss, m + 2) = Len(w)
        BY <2>4, <2>7, <3>1, <4>1, <4>2
      <4>4. /\ Len(w) = Len(u) + Len(v) /\ Len(u) \in Nat /\ Len(v) \in Nat
            /\ \A i \in 1 .. Len(v) : w[Len(u) + i] = v[i]
        BY <2>6 DEF Joins
      <4>5. o \in Nat /\ Len(ss[a]) \in Nat /\ e = o + Len(ss[a]) /\ e <= Off(ss, m + 2)
        BY <4>3, <4>4
      <4>6. \A i \in 1 .. Len(ss[a]) : w[o + i] = ss[a][i]
        BY <4>3, <4>4, Zenon
      <4> QED
        BY <4>2, <4>5, <4>6, Zenon
    <3>2. CASE a \in 1 .. m + 1
      <4>1. PICK o, l, e : o = Off(ss, a - 1) /\ l = Len(ss[a]) /\ e = Off(ss, a)
        OBVIOUS
      <4>2. /\ o \in Nat /\ l \in Nat /\ e = o + l /\ e <= Len(u)
            /\ \A i \in 1 .. l : u[o + i] = ss[a][i]
        BY <2>2, <2>4, <2>7, <3>2, <4>1 DEF PlacedUpTo
      <4>3. Len(u) \in Nat /\ Len(v) \in Nat /\ Len(w) = Len(u) + Len(v)
            /\ \A i \in 1 .. Len(u) : w[i] = u[i]
        BY <2>6 DEF Joins
      <4>4. \A i \in 1 .. l : o + i \in 1 .. Len(u)
        BY <4>2, <4>3
      <4>5. \A i \in 1 .. l : w[o + i] = ss[a][i]
        BY <4>2, <4>3, <4>4
      <4>6. e <= Off(ss, m + 2)
        BY <2>7, <4>2, <4>3
      <4> QED
        BY <4>1, <4>2, <4>5, <4>6
    <3> QED
      BY <3>1, <3>2
  <2> QED
    BY <2>4, <2>6, <2>7, <2>8 DEF PlacedUpTo, Joins
<1> HIDE DEF G
<1>3. Nat \subseteq G
  BY <1>1, <1>2, AllNumbers
<1>4. n - 1 \in G /\ (n - 1) + 1 = n
  BY <1>3
<1> QED
  BY <1>4 DEF G

(* A sequence of sequences put together: the i-th element of the a-th one  *)
(* lies at Off(ss, a - 1) + i, and there is nothing else.                  *)
LEMMA Flattened ==
    ASSUME NEW S, NEW ss, Len(ss) \in Nat \ {0}, \A a \in 1 .. Len(ss) : ss[a] \in Seq(S)
    PROVE  /\ FlattenSeq(ss) \in Seq(S) /\ Len(FlattenSeq(ss)) = Off(ss, Len(ss))
           /\ Off(ss, 0) = 0
           /\ \A a \in 1 .. Len(ss) :
                 /\ Off(ss, a - 1) \in Nat /\ Len(ss[a]) \in Nat
                 /\ Off(ss, a) = Off(ss, a - 1) + Len(ss[a])
                 /\ \A i \in 1 .. Len(ss[a]) : FlattenSeq(ss)[Off(ss, a - 1) + i] = ss[a][i]
           /\ \A c \in 1 .. Len(ss) : \A a \in 0 .. c : Off(ss, a) <= Off(ss, c)
<1>1. Len(ss) \in 1 .. Len(ss)
  OBVIOUS
<1>2. PlacedUpTo(S, ss, Len(ss))
  BY <1>1, FlatPlaces
<1>3. FlattenSeq(ss) = Flat(ss)[Len(ss)]
  BY FlattenIsFlat
<1>4. Off(ss, 0) = 0
  BY DEF Off
<1>5. ASSUME NEW c \in 1 .. Len(ss), NEW a \in 0 .. c PROVE Off(ss, a) <= Off(ss, c)
  <2>1. PlacedUpTo(S, ss, c)
    BY FlatPlaces
  <2>2. CASE a = 0
    <3>1. Len(Flat(ss)[c]) \in Nat /\ Off(ss, c) = Len(Flat(ss)[c])
      BY <2>1 DEF PlacedUpTo
    <3> QED
      BY <1>4, <2>2, <3>1
  <2>3. CASE a # 0
    BY <2>1, <2>3 DEF PlacedUpTo
  <2> QED
    BY <2>2, <2>3
<1> QED
  BY <1>2, <1>3, <1>4, <1>5 DEF PlacedUpTo

(* Every place is one of these.                                            *)
LEMMA FlattenedPlace ==
    ASSUME NEW S, NEW ss, Len(ss) \in Nat \ {0}, \A a \in 1 .. Len(ss) : ss[a] \in Seq(S),
           NEW k \in 1 .. Len(FlattenSeq(ss))
    PROVE  \E a \in 1 .. Len(ss) : \E i \in 1 .. Len(ss[a]) : k = Off(ss, a - 1) + i
<1> DEFINE T == {a \in 1 .. Len(ss) : k <= Off(ss, a)}
<1>1. Len(ss) \in T
  BY Flattened
<1>2. PICK a \in T : \A c \in T : a <= c
  <2>1. T \in SUBSET Nat /\ T # {}
    BY <1>1
  <2> QED
    BY <2>1, LeastOf
<1>3. Off(ss, a - 1) < k
  <2>1. CASE a = 1
    BY <2>1, Flattened
  <2>2. CASE a # 1
    <3>1. a - 1 \in 1 .. Len(ss) /\ a - 1 \notin T
      BY <1>2, <2>2
    <3>2. Off(ss, a - 1) \in Nat
      BY Flattened
    <3> QED
      BY <3>1, <3>2
  <2> QED
    BY <2>1, <2>2
<1>4. /\ Off(ss, a - 1) \in Nat /\ Len(ss[a]) \in Nat
      /\ Off(ss, a) = Off(ss, a - 1) + Len(ss[a])
  BY Flattened
<1>5. PICK o, l : o = Off(ss, a - 1) /\ l = Len(ss[a])
  OBVIOUS
<1>6. o \in Nat /\ l \in Nat /\ o < k /\ k <= o + l
  BY <1>2, <1>3, <1>4, <1>5
<1>7. k \in Nat
  <2>1. Len(FlattenSeq(ss)) \in Nat
    BY Flattened
  <2> QED
    BY <2>1
<1>8. k - o \in 1 .. l /\ k = o + (k - o)
  BY <1>6, <1>7
<1> QED
  BY <1>5, <1>8

(* w is the n sequences of ss, of lengths len, put together: the a-th one  *)
(* ends at off[a].                                                         *)
Places(S, ss, n, len, w, off) ==
    /\ w \in Seq(S) /\ off \in [0 .. n -> Nat] /\ len \in [1 .. n -> Nat]
    /\ off[0] = 0 /\ off[n] = Len(w)
    /\ \A a \in 1 .. n : off[a] = off[a - 1] + len[a]
    /\ \A c \in 0 .. n : \A a \in 0 .. c : off[a] <= off[c]
    /\ \A a \in 1 .. n : \A i \in 1 .. len[a] :
          off[a - 1] + i \in 1 .. Len(w) /\ w[off[a - 1] + i] = ss[a][i]
    /\ \A k \in 1 .. Len(w) : \E a \in 1 .. n : \E i \in 1 .. len[a] : k = off[a - 1] + i

LEMMA FlattenedPlaces ==
    ASSUME NEW S, NEW ss, NEW n \in Nat \ {0}, Len(ss) = n,
           NEW len, len = [a \in 1 .. n |-> Len(ss[a])],
           \A a \in 1 .. n : ss[a] \in Seq(S)
    PROVE  \E off : Places(S, ss, n, len, FlattenSeq(ss), off)
<1>0. Len(ss) \in Nat \ {0} /\ \A a \in 1 .. Len(ss) : ss[a] \in Seq(S)
  OBVIOUS
<1>1. PICK w : w = FlattenSeq(ss)
  OBVIOUS
<1>2. PICK off : off = [a \in 0 .. n |-> Off(ss, a)]
  OBVIOUS
<1>3. /\ w \in Seq(S) /\ Len(w) = Off(ss, n) /\ Off(ss, 0) = 0
      /\ \A a \in 1 .. n :
            /\ Off(ss, a - 1) \in Nat /\ Len(ss[a]) \in Nat
            /\ Off(ss, a) = Off(ss, a - 1) + Len(ss[a])
            /\ \A i \in 1 .. Len(ss[a]) : w[Off(ss, a - 1) + i] = ss[a][i]
      /\ \A c \in 1 .. n : \A a \in 0 .. c : Off(ss, a) <= Off(ss, c)
  <2>1. /\ FlattenSeq(ss) \in Seq(S) /\ Len(FlattenSeq(ss)) = Off(ss, Len(ss))
        /\ Off(ss, 0) = 0
        /\ \A a \in 1 .. Len(ss) :
              /\ Off(ss, a - 1) \in Nat /\ Len(ss[a]) \in Nat
              /\ Off(ss, a) = Off(ss, a - 1) + Len(ss[a])
              /\ \A i \in 1 .. Len(ss[a]) : FlattenSeq(ss)[Off(ss, a - 1) + i] = ss[a][i]
        /\ \A c \in 1 .. Len(ss) : \A a \in 0 .. c : Off(ss, a) <= Off(ss, c)
    BY <1>0, Flattened, Zenon
  <2> QED
    BY <1>1, <2>1, Zenon
<1>4. ASSUME NEW a \in 0 .. n PROVE Off(ss, a) \in Nat
  <2>1. CASE a = 0
    BY <1>3, <2>1
  <2>2. CASE a # 0
    <3>1. a \in 1 .. n
      BY <2>2
    <3>2. Off(ss, a - 1) \in Nat /\ Len(ss[a]) \in Nat
          /\ Off(ss, a) = Off(ss, a - 1) + Len(ss[a])
      BY <1>3, <3>1, Zenon
    <3> QED
      BY <3>2
  <2> QED
    BY <2>1, <2>2
<1>5. off \in [0 .. n -> Nat]
  BY <1>2, <1>4
<1>6. off[0] = 0 /\ off[n] = Len(w)
  BY <1>1, <1>2, <1>3
<1>7. \A a \in 1 .. n : off[a] = Off(ss, a) /\ off[a - 1] = Off(ss, a - 1)
  BY <1>1, <1>2
<1>8. ASSUME NEW c \in 0 .. n, NEW a \in 0 .. c PROVE off[a] <= off[c]
  <2>1. CASE c = 0
    BY <1>5, <2>1
  <2>2. CASE c # 0
    BY <1>1, <1>2, <1>3, <2>2
  <2> QED
    BY <2>1, <2>2
<1>9. /\ len \in [1 .. n -> Nat]
      /\ \A a \in 1 .. n : len[a] = Len(ss[a]) /\ off[a] = off[a - 1] + len[a]
  BY <1>3, <1>7
<1>10. ASSUME NEW a \in 1 .. n, NEW i \in 1 .. len[a]
       PROVE  off[a - 1] + i \in 1 .. Len(w) /\ w[off[a - 1] + i] = ss[a][i]
  <2>1. w[off[a - 1] + i] = ss[a][i]
    <3>1. i \in 1 .. Len(ss[a]) /\ off[a - 1] = Off(ss, a - 1)
      BY <1>7, <1>9
    <3>2. w[Off(ss, a - 1) + i] = ss[a][i]
      BY <1>3, <3>1, Zenon
    <3> QED
      BY <3>1, <3>2, Zenon
  <2>2. off[a] <= Len(w) /\ off[a] = off[a - 1] + len[a] /\ len[a] \in Nat /\ off[a - 1] \in Nat
    <3>1. n \in 0 .. n /\ a \in 0 .. n /\ a - 1 \in 0 .. n
      OBVIOUS
    <3> QED
      BY <1>5, <1>6, <1>8, <1>9, <3>1
  <2>3. Len(w) \in Nat
    BY <1>3
  <2>4. PICK o, l, m : o = off[a - 1] /\ l = len[a] /\ m = Len(w)
    OBVIOUS
  <2>5. o \in Nat /\ l \in Nat /\ m \in Nat /\ i \in 1 .. l /\ o + l <= m
    BY <2>2, <2>3, <2>4
  <2>6. o + i \in 1 .. m
    BY <2>5
  <2> QED
    BY <2>1, <2>4, <2>6
<1>11. ASSUME NEW k \in 1 .. Len(w)
       PROVE  \E a \in 1 .. n : \E i \in 1 .. len[a] : k = off[a - 1] + i
  <2>1. PICK a \in 1 .. n : \E i \in 1 .. Len(ss[a]) : k = Off(ss, a - 1) + i
    <3>1. \A j \in 1 .. Len(FlattenSeq(ss)) :
             \E a \in 1 .. Len(ss) : \E i \in 1 .. Len(ss[a]) : j = Off(ss, a - 1) + i
      <4> TAKE j \in 1 .. Len(FlattenSeq(ss))
      <4> QED
        BY ONLY <1>0, FlattenedPlace, j \in 1 .. Len(FlattenSeq(ss))
    <3> QED
      BY <1>1, <3>1, Zenon
  <2>2. PICK i \in 1 .. Len(ss[a]) : k = Off(ss, a - 1) + i
    BY <2>1
  <2>3. Off(ss, a - 1) = off[a - 1] /\ Len(ss[a]) = len[a]
    BY <1>7, <1>9
  <2> QED
    BY <2>2, <2>3, Zenon
<1>12. Places(S, ss, n, len, w, off)
  <2>1. \A a \in 1 .. n : off[a] = off[a - 1] + len[a]
    BY <1>9
  <2> QED
    BY <1>3, <1>5, <1>6, <1>8, <1>9, <1>10, <1>11, <2>1, Zenon DEF Places
<1> QED
  BY <1>1, <1>12

-----------------------------------------------------------------------------
(* Disassemblies.                                                          *)

OpAt(lines, n) == lines[n].insn.op

(* The lines of the program: the library follows them.                     *)
Body(lines) == {n \in DOMAIN lines : lines[n].function # 0}
First(lines, n) == n = 1 \/ lines[n - 1].function # lines[n].function

(* The functions into which the pass has put the calls.                    *)
Guarded(lines, f) == \E n \in Body(lines) : lines[n].function = f /\ OpAt(lines, n) = "init"

(* One function after the other, each of which ends in its only return.    *)
InOrder(lines) ==
    /\ lines \in Seq(Range(lines))
    /\ \E m \in Nat : Body(lines) = 1 .. m
    /\ \A n \in Body(lines) :
          /\ n + 1 \in DOMAIN lines
          /\ lines[n + 1].function = lines[n].function <=> OpAt(lines, n) # "ret"
          /\ \A p \in Body(lines) : p <= n => lines[p].function <= lines[n].function
          /\ lines[n].function \in Nat
          /\ First(lines, n) => lines[n].block = 1
          /\ OpAt(lines, n) \notin {"init_label", "exit_label"}

(* The call of init of function f names v, and so does the first line of   *)
(* it that uses an annotated variable.                                     *)
Opens(lines, f, v) ==
    /\ \A n \in Body(lines) : lines[n].function = f /\ OpAt(lines, n) = "init"
                               => lines[n].insn.var = v
    /\ \E n \in Body(lines) :
          /\ lines[n].function = f /\ IsAnnotated(lines[n].insn) /\ lines[n].insn.var = v
          /\ \A p \in Body(lines) : lines[p].function = f /\ p < n => ~IsAnnotated(lines[p].insn)

(* A guarded function opens its section in its first line, and closes it   *)
(* before its return.                                                      *)
GuardedRight(lines, f) ==
    /\ \E v : v # NoVariable /\ Opens(lines, f, v)
    /\ \A n \in Body(lines) : lines[n].function = f =>
          /\ OpAt(lines, n) = "init" <=> First(lines, n)
          /\ OpAt(lines, n) = "exit" => OpAt(lines, n + 1) = "ret"
          /\ OpAt(lines, n) = "ret" =>
                /\ ~First(lines, n) /\ OpAt(lines, n - 1) = "exit"
                /\ lines[n - 1].block = lines[n].block

UnguardedRight(lines, f) ==
    \A n \in Body(lines) : lines[n].function = f =>
        OpAt(lines, n) \notin {"init", "exit", "dummy_init", "access", "load", "store"}

LaidOut(lines) ==
    /\ InOrder(lines)
    /\ \A f \in Nat : IF Guarded(lines, f) THEN GuardedRight(lines, f) ELSE UnguardedRight(lines, f)

-----------------------------------------------------------------------------
(* What the pass makes of a function.                                      *)

Marker == Insn("dummy_init", "none")
Marks(block) == [i \in DOMAIN block |->
        IF IsAnnotated(block[i]) THEN <<Marker, block[i]>> ELSE <<block[i]>>]

Emitted == [op : {"gep", "access", "load", "store", "ldr", "ldr_sp", "br", "ret",
                  "dummy_init", "init", "exit"},
            var : Variables \cup {NoVariable}, form : Forms]

(* place gives the place of each instruction of a block once it is marked. *)
MarkPlaces(block, w, place) ==
    /\ place \in [1 .. Len(block) -> 1 .. Len(w)]
    /\ place[Len(block)] = Len(w)
    /\ \A a \in 1 .. Len(block) : \A c \in 1 .. Len(block) : a < c => place[a] < place[c]
    /\ \A a \in 1 .. Len(block) : w[place[a]] = block[a]
    /\ \A k \in 1 .. Len(w) : \E a \in 1 .. Len(block) :
          k = place[a] \/ (k = place[a] - 1 /\ IsAnnotated(block[a]) /\ w[k] = Marker)

LEMMA Marked ==
    ASSUME NEW block \in Seq(Instruction), block # <<>>
    PROVE  /\ MarkBlock(block) \in Seq(Emitted)
           /\ \E place : MarkPlaces(block, MarkBlock(block), place)
<1> DEFINE n == Len(block)
           ss == Marks(block)
<1>1. n \in Nat \ {0} /\ DOMAIN block = 1 .. n /\ \A i \in 1 .. n : block[i] \in Instruction
  OBVIOUS
<1>2. MarkBlock(block) = FlattenSeq(ss)
  BY DEF MarkBlock, Marks, Marker
<1>3. /\ \A x \in Instruction : x \in Emitted
      /\ Marker \in Emitted
  BY DEF Instruction, Loads, Forms, Emitted, Marker, Insn
<1>4. ASSUME NEW a \in 1 .. n
      PROVE  /\ ss[a] \in Seq(Emitted) /\ Len(ss[a]) \in {1, 2} /\ ss[a][Len(ss[a])] = block[a]
             /\ Len(ss[a]) = 2 => IsAnnotated(block[a]) /\ ss[a][1] = Marker
  <2>1. PICK x : x = block[a] /\ x \in Emitted
    BY <1>1, <1>3
  <2>2. CASE IsAnnotated(x)
    <3>1. ss[a] = <<Marker, x>>
      BY <1>1, <2>1, <2>2 DEF Marks
    <3> QED
      BY <1>3, <2>1, <2>2, <3>1
  <2>3. CASE ~IsAnnotated(x)
    <3>1. ss[a] = <<x>>
      BY <1>1, <2>1, <2>3 DEF Marks
    <3> QED
      BY <2>1, <3>1
  <2> QED
    BY <2>2, <2>3
<1>5. Len(ss) = n
  BY <1>1 DEF Marks
<1> HIDE DEF ss
<1>6. PICK len : len = [a \in 1 .. n |-> Len(ss[a])]
  OBVIOUS
<1>7. PICK w, off : w = FlattenSeq(ss) /\ Places(Emitted, ss, n, len, w, off)
  BY <1>1, <1>4, <1>5, <1>6, FlattenedPlaces
<1>8. \A a \in 1 .. n :
         /\ len[a] \in {1, 2} /\ ss[a][len[a]] = block[a]
         /\ len[a] = 2 => IsAnnotated(block[a]) /\ ss[a][1] = Marker
  BY <1>4, <1>6
<1>9. /\ w \in Seq(Emitted) /\ Len(w) = off[n] /\ off[0] = 0 /\ off \in [0 .. n -> Nat]
      /\ \A a \in 1 .. n : off[a] = off[a - 1] + len[a]
      /\ \A a \in 1 .. n : \A i \in 1 .. len[a] :
            off[a - 1] + i \in 1 .. Len(w) /\ w[off[a - 1] + i] = ss[a][i]
      /\ \A c \in 0 .. n : \A a \in 0 .. c : off[a] <= off[c]
      /\ \A k \in 1 .. Len(w) : \E a \in 1 .. n : \E i \in 1 .. len[a] : k = off[a - 1] + i
  BY <1>7, Zenon DEF Places
<1> HIDE DEF n
<1>10. PICK place : place = [a \in 1 .. n |-> off[a]]
  OBVIOUS
<1>11. ASSUME NEW a \in 1 .. n
       PROVE  place[a] \in 1 .. Len(w) /\ w[place[a]] = block[a] /\ place[a] = off[a - 1] + len[a]
  <2>1. len[a] \in 1 .. len[a]
    BY <1>8
  <2>2. off[a] = off[a - 1] + len[a]
    BY <1>9, Zenon
  <2>3. off[a - 1] + len[a] \in 1 .. Len(w) /\ w[off[a - 1] + len[a]] = ss[a][len[a]]
    BY <1>9, <2>1, Zenon
  <2> QED
    BY <1>8, <1>10, <2>2, <2>3
<1>12. place \in [1 .. n -> 1 .. Len(w)] /\ place[n] = Len(w)
  <2>1. n \in 1 .. n
    BY <1>1
  <2>2. place[n] = off[n]
    BY <1>10, <2>1
  <2>3. \A a \in 1 .. n : place[a] \in 1 .. Len(w)
    BY <1>11, Zenon
  <2>4. place \in [1 .. n -> 1 .. Len(w)]
    BY <1>10, <2>3
  <2> QED
    BY <1>9, <2>2, <2>4, Zenon
<1>13. ASSUME NEW a \in 1 .. n, NEW c \in 1 .. n, a < c PROVE place[a] < place[c]
  <2>1. c - 1 \in 0 .. n /\ a \in 0 .. c - 1 /\ a \in 0 .. n
    BY <1>1, <1>13
  <2>2. off[a] <= off[c - 1] /\ off[c] = off[c - 1] + len[c] /\ off[c - 1] \in Nat
        /\ off[a] \in Nat
    BY <1>9, <2>1
  <2> QED
    BY <1>8, <1>10, <2>2
<1>14. ASSUME NEW k \in 1 .. Len(w)
       PROVE  \E a \in 1 .. n :
                 k = place[a] \/ (k = place[a] - 1 /\ IsAnnotated(block[a]) /\ w[k] = Marker)
  <2>0. PICK a \in 1 .. n : \E i \in 1 .. len[a] : k = off[a - 1] + i
    BY <1>9
  <2>1. PICK i \in 1 .. len[a] : k = off[a - 1] + i
    BY <2>0
  <2>2. w[k] = ss[a][i] /\ place[a] = off[a - 1] + len[a] /\ off[a - 1] \in Nat
    <3>1. w[k] = ss[a][i]
      BY <1>9, <2>1, Zenon
    <3>2. a - 1 \in 0 .. n
      BY <1>1
    <3> QED
      BY <1>9, <1>11, <3>1, <3>2, Zenon
  <2>3. CASE i = len[a]
    BY <2>1, <2>2, <2>3
  <2>4. CASE i # len[a]
    <3>1. i = 1 /\ len[a] = 2 /\ IsAnnotated(block[a]) /\ ss[a][1] = Marker
      BY <1>8, <2>4
    <3>2. k = place[a] - 1
      BY <2>1, <2>2, <3>1
    <3> QED
      BY <2>2, <3>1, <3>2
  <2> QED
    BY <2>3, <2>4
<1>15. MarkBlock(block) = w
  BY <1>2, <1>7
<1>16. MarkPlaces(block, w, place)
  BY <1>11, <1>12, <1>13, <1>14, Zenon DEF MarkPlaces, n
<1> QED
  BY <1>9, <1>15, <1>16

(* What a block uses: nothing, v before any other variable, or anything.   *)
Used(s, v, u) ==
    /\ u = "none" => \A i \in 1 .. Len(s) : ~IsAnnotated(s[i])
    /\ u = "first" => \E i \in 1 .. Len(s) :
                        /\ IsAnnotated(s[i]) /\ s[i].var = v
                        /\ \A j \in 1 .. i - 1 : ~IsAnnotated(s[j])

(* A block of a function that uses v first, as the pass leaves it: opens   *)
(* says whether it starts with the call of init, closes whether that of    *)
(* exit comes before its end, last whether the end is the return.          *)
BlockRight(s, v, opens, closes, last, u) ==
    /\ s \in Seq(Emitted) /\ s # <<>>
    /\ \A i \in 1 .. Len(s) :
          /\ s[i].op = "ret" <=> last /\ i = Len(s)
          /\ s[i].op = "init" <=> opens /\ i = 1
          /\ s[i].op = "exit" <=> closes /\ i = Len(s) - 1
          /\ s[i].op = "init" => s[i].var = v
    /\ closes => last /\ Len(s) > 1
    /\ Used(s, v, u)

LEMMA MarkRight ==
    ASSUME NEW block \in Seq(Instruction), block # <<>>, NEW v, NEW last \in BOOLEAN, NEW u,
           \A i \in 1 .. Len(block) : block[i].op = "ret" <=> last /\ i = Len(block),
           Used(block, v, u)
    PROVE  BlockRight(MarkBlock(block), v, FALSE, FALSE, last, u)
<1>0. PICK n, w : n = Len(block) /\ w = MarkBlock(block)
  OBVIOUS
<1>1. n \in Nat \ {0} /\ DOMAIN block = 1 .. n /\ \A i \in 1 .. n : block[i] \in Instruction
  BY <1>0
<1>00. PICK place : MarkPlaces(block, w, place)
  BY <1>0, Marked
<1>2. /\ place \in [1 .. n -> 1 .. Len(w)] /\ place[n] = Len(w)
      /\ \A a \in 1 .. n : \A c \in 1 .. n : a < c => place[a] < place[c]
      /\ \A a \in 1 .. n : w[place[a]] = block[a]
      /\ \A k \in 1 .. Len(w) : \E a \in 1 .. n :
            k = place[a] \/ (k = place[a] - 1 /\ IsAnnotated(block[a]) /\ w[k] = Marker)
  BY <1>0, <1>00, Zenon DEF MarkPlaces
<1>3. w \in Seq(Emitted) /\ Len(w) \in Nat /\ Len(w) # 0
  <2>1. w \in Seq(Emitted)
    BY <1>0, Marked
  <2>2. place[1] \in 1 .. Len(w)
    BY <1>1, <1>2
  <2> QED
    BY <2>1, <2>2
<1>4. Marker.op = "dummy_init"
  BY DEF Marker, Insn
<1>5. ASSUME NEW k \in 1 .. Len(w), w[k] # Marker
      PROVE  \E a \in 1 .. n : k = place[a] /\ w[k] = block[a]
  BY <1>2, <1>5
<1>6. ASSUME NEW k \in 1 .. Len(w)
      PROVE  /\ w[k].op = "ret" <=> last /\ k = Len(w)
             /\ w[k].op # "init" /\ w[k].op # "exit"
  <2>1. CASE w[k] = Marker
    <3>1. k # Len(w) \/ ~last
      <4>1. w[Len(w)] = block[n] /\ (block[n].op = "ret" <=> last)
        BY <1>0, <1>1, <1>2
      <4> QED
        BY <1>4, <2>1, <4>1
    <3> QED
      BY <1>4, <2>1, <3>1
  <2>2. CASE w[k] # Marker
    <3>1. PICK a \in 1 .. n : k = place[a] /\ w[k] = block[a]
      BY <1>5, <2>2
    <3>2. k = Len(w) <=> a = n
      <4>1. a # n => place[a] < place[n]
        <5>1. n \in 1 .. n /\ (a # n => a < n)
          BY <1>1
        <5> QED
          BY <1>2, <5>1
      <4> QED
        BY <1>2, <1>3, <3>1, <4>1
    <3>3. block[a] \in Instruction /\ (block[a].op = "ret" <=> last /\ a = n)
      BY <1>0, <1>1
    <3>4. block[a].op # "init" /\ block[a].op # "exit"
      BY <3>3 DEF Instruction, Loads
    <3> QED
      BY <3>1, <3>2, <3>3, <3>4
  <2> QED
    BY <2>1, <2>2
<1>7. ~IsAnnotated(Marker)
  BY <1>4 DEF IsAnnotated
<1>8. ASSUME u = "none", NEW k \in 1 .. Len(w) PROVE ~IsAnnotated(w[k])
  <2>1. \A a \in 1 .. n : ~IsAnnotated(block[a])
    BY <1>0, <1>8 DEF Used
  <2> QED
    BY <1>5, <1>7, <2>1
<1>9. ASSUME u = "first"
      PROVE  \E k \in 1 .. Len(w) : /\ IsAnnotated(w[k]) /\ w[k].var = v
                                   /\ \A m \in 1 .. k - 1 : ~IsAnnotated(w[m])
  <2>1. PICK a \in 1 .. n : /\ IsAnnotated(block[a]) /\ block[a].var = v
                            /\ \A x \in 1 .. a - 1 : ~IsAnnotated(block[x])
    BY <1>0, <1>9 DEF Used
  <2>2. place[a] \in 1 .. Len(w) /\ w[place[a]] = block[a]
    BY <1>2
  <2>3. ASSUME NEW m \in 1 .. place[a] - 1 PROVE ~IsAnnotated(w[m])
    <3> SUFFICES ASSUME w[m] # Marker PROVE ~IsAnnotated(w[m])
      BY <1>7
    <3>1. m \in 1 .. Len(w) /\ m < place[a]
      BY <1>3, <2>2
    <3>2. PICK x \in 1 .. n : m = place[x] /\ w[m] = block[x]
      BY <1>5, <3>1
    <3>3. a < x => place[a] < place[x]
      BY <1>2
    <3>4. ~(a < x) /\ a # x
      BY <1>3, <2>2, <3>1, <3>2, <3>3
    <3>5. x \in 1 .. a - 1
      BY <1>1, <3>4
    <3> QED
      BY <2>1, <3>2, <3>5
  <2> QED
    BY <2>1, <2>2, <2>3
<1> QED
  BY <1>0, <1>3, <1>6, <1>8, <1>9 DEF BlockRight, Used

LEMMA InitRight ==
    ASSUME NEW s, NEW v \in Variables, NEW last \in BOOLEAN, NEW u,
           BlockRight(s, v, FALSE, FALSE, last, u)
    PROVE  BlockRight(Cons(CallOf("init", v), s), v, TRUE, FALSE, last, u)
<1>1. PICK e, w : e = CallOf("init", v) /\ w = Cons(e, s)
  OBVIOUS
<1>2. e \in Emitted /\ e.op = "init" /\ e.var = v /\ ~IsAnnotated(e)
  BY <1>1 DEF Emitted, Forms, CallOf, IsAnnotated
<1>3. s \in Seq(Emitted) /\ s # <<>> /\ Len(s) \in Nat \ {0}
  BY DEF BlockRight
<1>4. /\ w \in Seq(Emitted) /\ Len(w) = Len(s) + 1 /\ w # <<>>
      /\ w[1] = e /\ \A i \in 2 .. Len(w) : w[i] = s[i - 1]
  BY <1>1, <1>2, <1>3 DEF Cons
<1>5. ASSUME NEW i \in 1 .. Len(w)
      PROVE  /\ w[i].op = "ret" <=> last /\ i = Len(w)
             /\ w[i].op = "init" <=> i = 1
             /\ w[i].op # "exit"
             /\ w[i].op = "init" => w[i].var = v
  <2>1. CASE i = 1
    BY <1>2, <1>3, <1>4, <2>1
  <2>2. CASE i # 1
    <3>1. i - 1 \in 1 .. Len(s) /\ w[i] = s[i - 1] /\ (i = Len(w) <=> i - 1 = Len(s))
      BY <1>3, <1>4, <2>2
    <3> QED
      BY <2>2, <3>1 DEF BlockRight
  <2> QED
    BY <2>1, <2>2
<1>6. ASSUME u = "none", NEW i \in 1 .. Len(w) PROVE ~IsAnnotated(w[i])
  <2>1. \A j \in 1 .. Len(s) : ~IsAnnotated(s[j])
    BY <1>6 DEF BlockRight, Used
  <2>2. i = 1 \/ (i \in 2 .. Len(w) /\ i - 1 \in 1 .. Len(s))
    BY <1>3, <1>4
  <2> QED
    BY <1>2, <1>4, <2>1, <2>2
<1>7. ASSUME u = "first"
      PROVE  \E i \in 1 .. Len(w) : /\ IsAnnotated(w[i]) /\ w[i].var = v
                                   /\ \A j \in 1 .. i - 1 : ~IsAnnotated(w[j])
  <2>1. PICK i \in 1 .. Len(s) : /\ IsAnnotated(s[i]) /\ s[i].var = v
                                 /\ \A j \in 1 .. i - 1 : ~IsAnnotated(s[j])
    BY <1>7 DEF BlockRight, Used
  <2>2. i + 1 \in 1 .. Len(w) /\ w[i + 1] = s[i]
    BY <1>3, <1>4
  <2>3. ASSUME NEW j \in 1 .. (i + 1) - 1 PROVE ~IsAnnotated(w[j])
    <3>1. j = 1 \/ (j \in 2 .. Len(w) /\ j - 1 \in 1 .. i - 1)
      BY <1>3, <1>4
    <3> QED
      BY <1>2, <1>4, <2>1, <3>1
  <2> QED
    BY <2>1, <2>2, <2>3
<1>8. BlockRight(w, v, TRUE, FALSE, last, u)
  BY <1>4, <1>5, <1>6, <1>7 DEF BlockRight, Used
<1> QED
  BY <1>1, <1>8

LEMMA ExitRight ==
    ASSUME NEW s, NEW v \in Variables, NEW opens \in BOOLEAN, NEW u,
           BlockRight(s, v, opens, FALSE, TRUE, u)
    PROVE  BlockRight(InsertAt(s, Len(s), CallOf("exit", v)), v, opens, TRUE, TRUE, u)
<1>1. PICK e, w, n : /\ e = CallOf("exit", v) /\ w = InsertAt(s, Len(s), e)
                     /\ n = Len(s)
  OBVIOUS
<1>2. e \in Emitted /\ e.op = "exit" /\ ~IsAnnotated(e)
  BY <1>1 DEF Emitted, Forms, CallOf, IsAnnotated
<1>3. s \in Seq(Emitted) /\ s # <<>> /\ n \in Nat \ {0} /\ n = Len(s)
  BY <1>1 DEF BlockRight
<1>4. /\ w \in Seq(Emitted) /\ Len(w) = n + 1 /\ w # <<>>
      /\ w[n] = e /\ w[n + 1] = s[n] /\ \A i \in 1 .. n - 1 : w[i] = s[i]
  <2>1. w = SubSeq(s, 1, n - 1) \o <<e>> \o SubSeq(s, n, n)
    BY <1>1 DEF InsertAt
  <2>2. PICK x, y : x = SubSeq(s, 1, n - 1) /\ y = SubSeq(s, n, n)
    OBVIOUS
  <2>3. x \in Seq(Emitted) /\ Len(x) = n - 1 /\ \A i \in 1 .. n - 1 : x[i] = s[i]
    BY <1>3, <2>2
  <2>4. y \in Seq(Emitted) /\ Len(y) = 1 /\ y[1] = s[n]
    BY <1>3, <2>2
  <2>5. PICK z : z = x \o <<e>>
    OBVIOUS
  <2>6. z \in Seq(Emitted) /\ Len(z) = n /\ z[n] = e /\ \A i \in 1 .. n - 1 : z[i] = s[i]
    BY <1>2, <1>3, <2>3, <2>5
  <2>7. w = z \o y
    BY <2>1, <2>2, <2>5
  <2>8. Joins(Emitted, z, y, w)
    BY <2>4, <2>6, <2>7, Joined DEF Join
  <2>9. Len(w) = n + 1 /\ w \in Seq(Emitted) /\ (\A i \in 1 .. n : w[i] = z[i]) /\ w[n + 1] = y[1]
    BY <1>3, <2>4, <2>6, <2>8 DEF Joins
  <2> QED
    BY <1>3, <2>4, <2>6, <2>9
<1>5. s[n].op = "ret" /\ ~(opens /\ n = 1)
  BY <1>3 DEF BlockRight
<1>6. ASSUME NEW i \in 1 .. Len(w)
      PROVE  /\ w[i].op = "ret" <=> i = Len(w)
             /\ w[i].op = "init" <=> opens /\ i = 1
             /\ w[i].op = "exit" <=> i = Len(w) - 1
             /\ w[i].op = "init" => w[i].var = v
  <2>1. CASE i = n
    BY <1>2, <1>3, <1>4, <1>5, <2>1
  <2>2. CASE i = n + 1
    BY <1>3, <1>4, <1>5, <2>2
  <2>3. CASE i \in 1 .. n - 1
    <3>1. w[i] = s[i] /\ i \in 1 .. Len(s) /\ i # Len(s)
      BY <1>3, <1>4, <2>3
    <3> QED
      BY <1>3, <1>4, <2>3, <3>1 DEF BlockRight
  <2> QED
    BY <1>3, <1>4, <2>1, <2>2, <2>3
<1>7. ~IsAnnotated(s[n])
  BY <1>5 DEF IsAnnotated
<1>8. ASSUME u = "none", NEW i \in 1 .. Len(w) PROVE ~IsAnnotated(w[i])
  <2>1. \A j \in 1 .. n : ~IsAnnotated(s[j])
    BY <1>3, <1>8 DEF BlockRight, Used
  <2>2. i \in 1 .. n - 1 \/ i = n \/ i = n + 1
    BY <1>3, <1>4
  <2>3. i \in 1 .. n - 1 => w[i] = s[i] /\ i \in 1 .. n
    BY <1>3, <1>4
  <2> QED
    BY <1>2, <1>4, <1>7, <2>1, <2>2, <2>3
<1>9. ASSUME u = "first"
      PROVE  \E i \in 1 .. Len(w) : /\ IsAnnotated(w[i]) /\ w[i].var = v
                                   /\ \A j \in 1 .. i - 1 : ~IsAnnotated(w[j])
  <2>1. PICK i \in 1 .. n : /\ IsAnnotated(s[i]) /\ s[i].var = v
                            /\ \A j \in 1 .. i - 1 : ~IsAnnotated(s[j])
    BY <1>3, <1>9 DEF BlockRight, Used
  <2>2. i \in 1 .. n - 1
    BY <1>3, <1>7, <2>1
  <2>3. i \in 1 .. Len(w) /\ w[i] = s[i] /\ \A j \in 1 .. i - 1 : w[j] = s[j]
    BY <1>3, <1>4, <2>2
  <2> QED
    BY <2>1, <2>3
<1>10. BlockRight(w, v, opens, TRUE, TRUE, u)
  <2>1. Len(w) > 1
    BY <1>3, <1>4
  <2> QED
    BY <1>4, <1>6, <1>8, <1>9, <2>1 DEF BlockRight, Used
<1> QED
  BY <1>1, <1>10

(* A block of a function that has no annotated variable.                   *)
PlainRight(s, last) ==
    /\ s \in Seq(Emitted) /\ s # <<>>
    /\ \A i \in 1 .. Len(s) :
          /\ s[i].op = "ret" <=> last /\ i = Len(s)
          /\ s[i].op \notin {"init", "exit", "dummy_init", "access", "load", "store"}

(* The first use is in block c.                                            *)
Part(b, c) == IF b < c THEN "none" ELSE IF b = c THEN "first" ELSE "any"

FunctionRight(g) ==
    /\ g \in Seq(Seq(Emitted)) /\ g # <<>>
    /\ \/ \E v \in Variables, c \in 1 .. Len(g) : \A b \in 1 .. Len(g) :
             BlockRight(g[b], v, b = 1, b = Len(g), b = Len(g), Part(b, c))
       \/ \A b \in 1 .. Len(g) : PlainRight(g[b], b = Len(g))

LEMMA StartInsnIs ==
    ASSUME NEW function \in Seq(Seq(Instruction)), function # <<>>
    PROVE  IF StartInsn(function) = 0
           THEN \A b \in 1 .. Len(function) : \A i \in 1 .. Len(function[b]) :
                   ~IsAnnotated(function[b][i])
           ELSE \E b \in 1 .. Len(function) : \E i \in 1 .. Len(function[b]) :
                   /\ IsAnnotated(function[b][i]) /\ SensitiveGV(function) = function[b][i].var
                   /\ \A c \in 1 .. b : \A j \in 1 .. Len(function[c]) :
                         c < b \/ j < i => ~IsAnnotated(function[c][j])
<1>1. PICK n, len, w : /\ n = Len(function) /\ w = FlattenSeq(function)
                       /\ len = [a \in 1 .. n |-> Len(function[a])]
  OBVIOUS
<1>2. n \in Nat \ {0} /\ \A a \in 1 .. n : function[a] \in Seq(Instruction)
  BY <1>1
<1>3. PICK off : Places(Instruction, function, n, len, w, off)
  BY <1>1, <1>2, FlattenedPlaces
<1>4. /\ w \in Seq(Instruction) /\ Len(w) \in Nat
      /\ \A a \in 1 .. n : \A i \in 1 .. len[a] :
            off[a - 1] + i \in 1 .. Len(w) /\ w[off[a - 1] + i] = function[a][i]
      /\ \A k \in 1 .. Len(w) : \E a \in 1 .. n : \E i \in 1 .. len[a] : k = off[a - 1] + i
      /\ \A a \in 1 .. n : off[a] = off[a - 1] + len[a]
      /\ \A c \in 0 .. n : \A a \in 0 .. c : off[a] <= off[c]
      /\ off \in [0 .. n -> Nat] /\ len \in [1 .. n -> Nat]
  <2>1. w \in Seq(Instruction)
    BY <1>3 DEF Places
  <2>2. Len(w) \in Nat
    BY <2>1
  <2> QED
    BY <1>3, <2>1, <2>2, Zenon DEF Places
<1>5. \A a \in 1 .. n : len[a] = Len(function[a])
  BY <1>1
<1> DEFINE I == {i \in 1 .. Len(w) : IsAnnotated(w[i])}
<1>6. StartInsn(function) = IF I # {} THEN Min(I) ELSE 0
  BY <1>1 DEF StartInsn, SelectInSeq
<1>7. CASE I = {}
  <2>1. StartInsn(function) = 0
    BY <1>6, <1>7
  <2>2. ASSUME NEW b \in 1 .. n, NEW i \in 1 .. len[b] PROVE ~IsAnnotated(function[b][i])
    BY <1>4, <1>7
  <2> QED
    BY <1>1, <1>5, <2>1, <2>2
<1>8. CASE I # {}
  <2>1. \E x \in I : \A y \in I : x <= y
    <3>1. I \in SUBSET Nat
      BY <1>4
    <3> QED
      BY <1>8, <3>1, LeastOf
  <2> HIDE DEF I
  <2>2. Min(I) \in I /\ \A y \in I : Min(I) <= y
    BY <2>1 DEF Min
  <2>3. PICK k : /\ k = StartInsn(function) /\ k \in 1 .. Len(w) /\ IsAnnotated(w[k])
                 /\ \A m \in 1 .. Len(w) : IsAnnotated(w[m]) => k <= m
    BY <1>6, <1>8, <2>2 DEF I
  <2>4. PICK a \in 1 .. n : \E i \in 1 .. len[a] : k = off[a - 1] + i
    BY <1>4, <2>3
  <2>5. PICK i \in 1 .. len[a] : k = off[a - 1] + i
    BY <2>4
  <2>6. w[k] = function[a][i]
    BY <1>4, <2>5
  <2>7. k # 0 /\ SensitiveGV(function) = w[k].var
    BY <1>1, <1>4, <2>3 DEF SensitiveGV
  <2>8. ASSUME NEW c \in 1 .. a, NEW j \in 1 .. len[c], c < a \/ j < i
        PROVE  ~IsAnnotated(function[c][j])
    <3>0. c \in 1 .. n
      BY <1>2
    <3>1. off[c - 1] + j \in 1 .. Len(w) /\ w[off[c - 1] + j] = function[c][j]
      BY <1>4, <3>0, Zenon
    <3>2. PICK m : m = off[c - 1] + j
      OBVIOUS
    <3>3. m < k
      <4>1. CASE c < a
        <5>1. c \in 0 .. a - 1 /\ a - 1 \in 0 .. n
          BY <1>2, <4>1
        <5>2. off[c] <= off[a - 1] /\ off[c] = off[c - 1] + len[c]
          BY <1>4, <3>0, <5>1
        <5>3. PICK x, y, z, l : x = off[c - 1] /\ y = off[c] /\ z = off[a - 1] /\ l = len[c]
          OBVIOUS
        <5>4. c - 1 \in 0 .. n /\ c \in 0 .. n
          BY <1>2, <3>0
        <5>5. x \in Nat /\ y \in Nat /\ z \in Nat /\ l \in Nat
          BY <1>4, <3>0, <5>1, <5>3, <5>4
        <5>6. i \in Nat \ {0} /\ j \in Nat /\ j <= l
          <6>1. len[a] \in Nat
            BY <1>4
          <6> QED
            BY <5>3, <5>5, <6>1
        <5>7. m = x + j /\ k = z + i /\ y <= z /\ y = x + l
          BY <2>5, <3>2, <5>2, <5>3
        <5> QED
          BY <5>5, <5>6, <5>7
      <4>2. CASE c = a
        <5>1. j < i
          BY <2>8, <4>2
        <5>2. a - 1 \in 0 .. n
          BY <1>2
        <5>3. off[a - 1] \in Nat /\ len[a] \in Nat
          BY <1>4, <5>2
        <5> QED
          BY <2>5, <3>2, <4>2, <5>1, <5>3
      <4> QED
        BY <4>1, <4>2
    <3>4. m \in 1 .. Len(w)
      BY <3>1, <3>2
    <3>5. ~(k <= m)
      <4>1. Len(w) \in Nat
        BY <1>4
      <4> QED
        BY <2>3, <3>3, <3>4, <4>1
    <3>6. ~IsAnnotated(w[m])
      BY <2>3, <3>4, <3>5, Zenon
    <3> QED
      BY <3>1, <3>2, <3>6
  <2>9. \A c \in 1 .. a : len[c] = Len(function[c])
    BY <1>2, <1>5
  <2>10. i \in 1 .. Len(function[a]) /\ a \in 1 .. Len(function)
    BY <1>1, <1>5
  <2>11. /\ IsAnnotated(function[a][i]) /\ SensitiveGV(function) = function[a][i].var
         /\ StartInsn(function) # 0
    BY <2>3, <2>6, <2>7
  <2>12. \A c \in 1 .. a : \A j \in 1 .. Len(function[c]) :
            c < a \/ j < i => ~IsAnnotated(function[c][j])
    BY <2>8, <2>9
  <2> QED
    BY <2>10, <2>11, <2>12, Zenon
<1> QED
  BY <1>7, <1>8

LEMMA InstrumentRight ==
    ASSUME NEW function \in Seq(Seq(Instruction)), OneReturn(function),
           ComputesAddresses(function)
    PROVE  FunctionRight(Instrument(function))
<1>1. PICK n : n = Len(function)
  OBVIOUS
<1>2. /\ function # <<>> /\ n \in Nat \ {0} /\ DOMAIN function = 1 .. n
      /\ \A b \in 1 .. n : function[b] \in Seq(Instruction) /\ function[b] # <<>>
  <2>1. function # <<>> /\ \A b \in DOMAIN function : function[b] # <<>>
    BY DEF OneReturn
  <2>2. /\ n \in Nat \ {0} /\ DOMAIN function = 1 .. n
        /\ \A b \in 1 .. n : function[b] \in Seq(Instruction)
    BY <1>1, <2>1, ElementsOf, Zenon
  <2> QED
    BY <2>1, <2>2, Zenon
<1>3. ASSUME NEW b \in 1 .. n
      PROVE  /\ DOMAIN function[b] = 1 .. Len(function[b])
             /\ \A i \in 1 .. Len(function[b]) :
                   function[b][i].op = "ret" <=> (b = n) /\ i = Len(function[b])
  <2>1. DOMAIN function[b] = 1 .. Len(function[b])
    BY <1>2
  <2> QED
    BY <1>1, <1>2, <2>1 DEF OneReturn
<1>4. ASSUME NEW b \in 1 .. n, NEW i \in 1 .. Len(function[b]), function[b][i].op = "load"
      PROVE  \E c \in 1 .. n : \E j \in 1 .. Len(function[c]) : IsAnnotated(function[c][j])
  <2>1. b \in DOMAIN function /\ i \in DOMAIN function[b]
    BY <1>2, <1>3
  <2>2. PICK c \in DOMAIN function : \E j \in DOMAIN function[c] : IsAnnotated(function[c][j])
    BY <1>4, <2>1 DEF ComputesAddresses
  <2> QED
    BY <1>2, <1>3, <2>2
<1>5. CASE StartInsn(function) = 0
  <2>1. \A b \in 1 .. n : \A i \in 1 .. Len(function[b]) : ~IsAnnotated(function[b][i])
    BY <1>1, <1>2, <1>5, StartInsnIs
  <2>2. ASSUME NEW b \in 1 .. n PROVE PlainRight(function[b], b = n)
    <3>1. PICK s : s = function[b] /\ s \in Seq(Instruction) /\ s # <<>>
      BY <1>2
    <3>2. \A i \in 1 .. Len(s) : s[i] \in Instruction
      BY <3>1
    <3>3. \A x \in Instruction : x \in Emitted /\ x.op \notin {"init", "exit", "dummy_init"}
      BY DEF Instruction, Loads, Forms, Emitted
    <3>4. s \in Seq(Emitted)
      BY <3>1, <3>2, <3>3
    <3>5. ASSUME NEW i \in 1 .. Len(s)
          PROVE  /\ s[i].op = "ret" <=> (b = n) /\ i = Len(s)
                 /\ s[i].op \notin {"init", "exit", "dummy_init", "access", "load", "store"}
      BY <1>3, <1>4, <2>1, <3>1, <3>2, <3>3 DEF IsAnnotated
    <3> QED
      BY <3>1, <3>4, <3>5 DEF PlainRight
  <2>3. function \in Seq(Seq(Emitted))
    <3>1. \A b \in 1 .. n : function[b] \in Seq(Emitted)
      BY <2>2 DEF PlainRight
    <3>2. function = [b \in 1 .. n |-> function[b]]
      BY <1>1, <1>2
    <3> QED
      BY <1>2, <3>1, <3>2, SequenceOf, Zenon
  <2>4. Instrument(function) = function
    BY <1>5 DEF Instrument
  <2> QED
    BY <1>1, <1>2, <2>2, <2>3, <2>4 DEF FunctionRight
<1>6. CASE StartInsn(function) # 0
  <2>0. PICK c \in 1 .. n : \E i \in 1 .. Len(function[c]) :
           /\ IsAnnotated(function[c][i]) /\ SensitiveGV(function) = function[c][i].var
           /\ \A d \in 1 .. c : \A j \in 1 .. Len(function[d]) :
                 d < c \/ j < i => ~IsAnnotated(function[d][j])
    BY <1>1, <1>2, <1>6, StartInsnIs
  <2>1. PICK v, i : /\ i \in 1 .. Len(function[c]) /\ v = SensitiveGV(function)
                    /\ IsAnnotated(function[c][i]) /\ v = function[c][i].var
                    /\ \A d \in 1 .. c : \A j \in 1 .. Len(function[d]) :
                          d < c \/ j < i => ~IsAnnotated(function[d][j])
    BY <2>0
  <2>11. v \in Variables
    <3>1. function[c][i] \in Instruction
      BY <1>2, <2>1
    <3> QED
      BY <2>1, <3>1 DEF IsAnnotated, Instruction
  <2>12. ASSUME NEW b \in 1 .. n PROVE Used(function[b], v, Part(b, c))
    <3>1. CASE b < c
      <4>1. b \in 1 .. c
        BY <1>2, <3>1
      <4>2. \A j \in 1 .. Len(function[b]) : ~IsAnnotated(function[b][j])
        BY <2>1, <3>1, <4>1
      <4>3. Part(b, c) = "none"
        BY <3>1 DEF Part
      <4> QED
        BY <4>2, <4>3 DEF Used
    <3>2. CASE b = c
      <4>1. Len(function[c]) \in Nat /\ c \in 1 .. c
        BY <1>2
      <4>2. \A j \in 1 .. i - 1 : j \in 1 .. Len(function[c]) /\ j < i
        BY <2>1, <4>1
      <4>3. \A j \in 1 .. i - 1 : ~IsAnnotated(function[c][j])
        BY <2>1, <4>1, <4>2
      <4>4. Part(b, c) = "first"
        BY <1>2, <3>2 DEF Part
      <4> QED
        BY <2>1, <3>2, <4>3, <4>4 DEF Used
    <3>3. CASE ~(b < c) /\ b # c
      BY <3>3 DEF Part, Used
    <3> QED
      BY <3>1, <3>2, <3>3
  <2>2. PICK marked : marked = [b \in 1 .. n |-> MarkBlock(function[b])]
    OBVIOUS
  <2>3. ASSUME NEW b \in 1 .. n PROVE BlockRight(marked[b], v, FALSE, FALSE, b = n, Part(b, c))
    <3>1. PICK block : block = function[b] /\ block \in Seq(Instruction) /\ block # <<>>
      BY <1>2
    <3>2. \A k \in 1 .. Len(block) : block[k].op = "ret" <=> (b = n) /\ k = Len(block)
      BY <1>3, <3>1
    <3>3. Used(block, v, Part(b, c))
      BY <2>12, <3>1
    <3>4. BlockRight(MarkBlock(block), v, FALSE, FALSE, b = n, Part(b, c))
      BY <3>1, <3>2, <3>3, MarkRight
    <3> QED
      BY <2>2, <3>1, <3>4
  <2>4. PICK opened : opened = [marked EXCEPT ![1] = Cons(CallOf("init", v), @)]
    OBVIOUS
  <2>5. ASSUME NEW b \in 1 .. n PROVE BlockRight(opened[b], v, b = 1, FALSE, b = n, Part(b, c))
    <3>1. CASE b = 1
      <4>1. opened[b] = Cons(CallOf("init", v), marked[b])
        BY <2>2, <2>4, <3>1
      <4>2. BlockRight(opened[b], v, TRUE, FALSE, b = n, Part(b, c))
        <5>1. (b = n) \in BOOLEAN
          OBVIOUS
        <5>2. BlockRight(marked[b], v, FALSE, FALSE, b = n, Part(b, c))
          BY <2>3, Zenon
        <5>3. BlockRight(Cons(CallOf("init", v), marked[b]), v, TRUE, FALSE, b = n, Part(b, c))
          BY <2>11, <5>1, <5>2, InitRight, Zenon
        <5> QED
          BY <4>1, <5>3, Zenon
      <4>3. (b = 1) = TRUE
        BY <3>1
      <4> QED
        BY <4>2, <4>3
    <3>2. CASE b # 1
      <4>1. opened[b] = marked[b]
        BY <2>2, <2>4, <3>2
      <4>2. (b = 1) = FALSE
        BY <3>2
      <4> QED
        BY <2>3, <4>1, <4>2
    <3> QED
      BY <3>1, <3>2
  <2>6. PICK closed :
           closed = [opened EXCEPT ![n] = InsertAt(@, Len(@), CallOf("exit", v))]
    OBVIOUS
  <2>7. ASSUME NEW b \in 1 .. n PROVE BlockRight(closed[b], v, b = 1, b = n, b = n, Part(b, c))
    <3>1. CASE b = n
      <4>1. closed[b] = InsertAt(opened[b], Len(opened[b]), CallOf("exit", v))
        BY <2>2, <2>4, <2>6, <3>1
      <4>2. (b = n) = TRUE
        BY <3>1
      <4>3. BlockRight(opened[b], v, b = 1, FALSE, TRUE, Part(b, c))
        BY <2>5, <4>2
      <4>4. BlockRight(closed[b], v, b = 1, TRUE, TRUE, Part(b, c))
        BY <2>11, <4>1, <4>3, ExitRight
      <4> QED
        BY <4>2, <4>4
    <3>2. CASE b # n
      <4>1. closed[b] = opened[b]
        BY <2>2, <2>4, <2>6, <3>2
      <4>2. (b = n) = FALSE
        BY <3>2
      <4> QED
        BY <2>5, <4>1, <4>2
    <3> QED
      BY <3>1, <3>2
  <2>8. Instrument(function) = closed
    <3>1. Len(opened) = n
      BY <1>2, <2>2, <2>4
    <3>2. marked = [b \in DOMAIN function |-> MarkBlock(function[b])]
      BY <1>2, <2>2
    <3>3. InsertInit(marked, v) = opened
      BY <2>4 DEF InsertInit
    <3>4. InsertExit(opened, v) = closed
      BY <2>6, <3>1 DEF InsertExit
    <3> QED
      BY <1>6, <2>1, <3>2, <3>3, <3>4 DEF Instrument
  <2>9. closed = [b \in 1 .. n |-> closed[b]]
    BY <2>2, <2>4, <2>6
  <2>10. closed \in Seq(Seq(Emitted)) /\ Len(closed) = n /\ closed # <<>>
    <3>1. \A b \in 1 .. n : closed[b] \in Seq(Emitted)
      BY <2>7 DEF BlockRight
    <3>2. n \in Nat /\ n # 0
      BY <1>2
    <3>3. closed \in Seq(Seq(Emitted)) /\ Len(closed) = n
      BY <2>9, <3>1, <3>2, SequenceOf, Zenon
    <3>4. Len(<<>>) = 0
      OBVIOUS
    <3> QED
      BY <3>2, <3>3, <3>4, Zenon
  <2> QED
    BY <2>7, <2>8, <2>10, <2>11 DEF FunctionRight
<1> QED
  BY <1>5, <1>6

-----------------------------------------------------------------------------
(* What becomes of it in the disassembly.                                  *)

Printed == [insn : Emitted, function : Nat \ {0}, block : Nat]

(* The lines of a function that uses v first.                              *)
SectionRight(s, v) ==
    /\ \A k \in 1 .. Len(s) :
          /\ OpAt(s, k) = "init" <=> k = 1
          /\ OpAt(s, k) = "init" => s[k].insn.var = v
          /\ OpAt(s, k) = "exit" => k = Len(s) - 1
          /\ k = Len(s) => k > 1 /\ OpAt(s, k - 1) = "exit" /\ s[k - 1].block = s[k].block
    /\ \E k \in 1 .. Len(s) :
          /\ IsAnnotated(s[k].insn) /\ s[k].insn.var = v
          /\ \A j \in 1 .. k - 1 : ~IsAnnotated(s[j].insn)

(* The lines of function f.                                                *)
LinesRight(s, f) ==
    /\ s \in Seq(Printed) /\ s # <<>>
    /\ s[1].block = 1
    /\ \A k \in 1 .. Len(s) : s[k].function = f /\ (OpAt(s, k) = "ret" <=> k = Len(s))
    /\ \/ \E v \in Variables : SectionRight(s, v)
       \/ \A k \in 1 .. Len(s) :
             OpAt(s, k) \notin {"init", "exit", "dummy_init", "access", "load", "store"}

(* Where the instructions of a function are among its lines.               *)
LinePlaces(g, f, w, off) ==
    /\ w \in Seq(Printed) /\ Len(w) \in Nat /\ off \in [0 .. Len(g) -> Nat]
    /\ off[0] = 0 /\ off[Len(g)] = Len(w)
    /\ \A b \in 1 .. Len(g) : off[b] = off[b - 1] + Len(g[b])
    /\ \A c \in 0 .. Len(g) : \A b \in 0 .. c : off[b] <= off[c]
    /\ \A b \in 1 .. Len(g) : \A i \in 1 .. Len(g[b]) :
          off[b - 1] + i \in 1 .. Len(w) /\ w[off[b - 1] + i] = Line(g[b][i], f, b)
    /\ \A k \in 1 .. Len(w) : \E b \in 1 .. Len(g) : \E i \in 1 .. Len(g[b]) : k = off[b - 1] + i

LEMMA LinesPlaced ==
    ASSUME NEW g \in Seq(Seq(Emitted)), g # <<>>, \A b \in 1 .. Len(g) : g[b] # <<>>,
           NEW f \in Nat \ {0}
    PROVE  \E off : LinePlaces(g, f, Lines(g, f), off)
<1>1. PICK n : n = Len(g)
  OBVIOUS
<1>2. /\ n \in Nat \ {0} /\ DOMAIN g = 1 .. n
      /\ \A b \in 1 .. n : g[b] \in Seq(Emitted) /\ g[b] # <<>>
  BY <1>1, ElementsOf
<1>3. ASSUME NEW b \in 1 .. n
      PROVE  /\ Len(g[b]) \in Nat /\ DOMAIN g[b] = 1 .. Len(g[b])
             /\ \A i \in 1 .. Len(g[b]) : g[b][i] \in Emitted
  BY <1>2, ElementsOf
<1>4. PICK ss : ss = [b \in 1 .. n |-> [i \in 1 .. Len(g[b]) |-> Line(g[b][i], f, b)]]
  OBVIOUS
<1>5. Lines(g, f) = FlattenSeq(ss)
  <2>1. ss = [b \in DOMAIN g |-> [i \in DOMAIN g[b] |-> Line(g[b][i], f, b)]]
    BY <1>2, <1>3, <1>4
  <2> QED
    BY <2>1 DEF Lines
<1>6. ASSUME NEW b \in 1 .. n
      PROVE  /\ ss[b] \in Seq(Printed) /\ Len(ss[b]) = Len(g[b])
             /\ \A i \in 1 .. Len(g[b]) : ss[b][i] = Line(g[b][i], f, b)
  <2>1. PICK m, s : m = Len(g[b]) /\ s = ss[b]
    OBVIOUS
  <2>2. s = [i \in 1 .. m |-> Line(g[b][i], f, b)]
    BY <1>4, <2>1
  <2>3. ASSUME NEW i \in 1 .. m PROVE s[i] \in Printed
    <3>1. g[b][i] \in Emitted
      BY <1>3, <2>1
    <3> QED
      BY <2>2, <3>1 DEF Printed, Line
  <2>4. s \in Seq(Printed) /\ Len(s) = m
    <3>1. m \in Nat /\ s = [i \in 1 .. m |-> s[i]]
      BY <1>3, <2>1, <2>2
    <3>2. \A i \in 1 .. m : s[i] \in Printed
      BY <2>3
    <3>3. s \in [1 .. m -> Printed]
      BY <3>1, <3>2
    <3> QED
      BY <3>1, <3>3
  <2> QED
    BY <2>1, <2>2, <2>4
<1>7. PICK len : len = [b \in 1 .. n |-> Len(ss[b])]
  OBVIOUS
<1>8. Len(ss) = n
  BY <1>2, <1>4
<1>9. PICK w, off : w = FlattenSeq(ss) /\ Places(Printed, ss, n, len, w, off)
  BY <1>2, <1>6, <1>7, <1>8, FlattenedPlaces
<1>10. \A b \in 1 .. n : len[b] = Len(g[b])
  BY <1>6, <1>7
<1>11. w \in Seq(Printed)
  BY <1>9 DEF Places
<1>12. Len(w) \in Nat
  BY <1>11
<1>13. \A b \in 1 .. n : \A i \in 1 .. Len(g[b]) :
          off[b - 1] + i \in 1 .. Len(w) /\ w[off[b - 1] + i] = ss[b][i]
  BY <1>9, <1>10, Zenon DEF Places
<1>14. \A b \in 1 .. n : \A i \in 1 .. Len(g[b]) :
          off[b - 1] + i \in 1 .. Len(w) /\ w[off[b - 1] + i] = Line(g[b][i], f, b)
  BY <1>6, <1>13, Zenon
<1>15. ASSUME NEW k \in 1 .. Len(w)
       PROVE  \E b \in 1 .. n : \E i \in 1 .. Len(g[b]) : k = off[b - 1] + i
  <2>1. PICK b \in 1 .. n : \E i \in 1 .. len[b] : k = off[b - 1] + i
    BY <1>9, Zenon DEF Places
  <2> QED
    BY <1>10, <2>1, Zenon
<1>16. \A b \in 1 .. n : off[b] = off[b - 1] + Len(g[b])
  BY <1>9, <1>10, Zenon DEF Places
<1>17. LinePlaces(g, f, w, off)
  BY <1>1, <1>9, <1>11, <1>12, <1>14, <1>15, <1>16, Zenon DEF LinePlaces, Places
<1> QED
  BY <1>5, <1>9, <1>17

(* The k-th line is the i-th instruction of block b.                       *)
Coordinates(g, f, w, off, k, b, i) ==
    /\ b \in 1 .. Len(g) /\ i \in 1 .. Len(g[b]) /\ Len(g[b]) \in Nat \ {0} /\ off[b - 1] \in Nat
    /\ k = off[b - 1] + i
    /\ OpAt(w, k) = g[b][i].op /\ w[k].insn = g[b][i]
    /\ w[k].function = f /\ w[k].block = b
    /\ k = 1 <=> b = 1 /\ i = 1
    /\ k = Len(w) <=> b = Len(g) /\ i = Len(g[b])
    /\ b = Len(g) => Len(w) = off[b - 1] + Len(g[b])

LEMMA LinesOfFunction ==
    ASSUME NEW g, FunctionRight(g), NEW f \in Nat \ {0}
    PROVE  LinesRight(Lines(g, f), f)
<1>1. PICK n, w : n = Len(g) /\ w = Lines(g, f)
  OBVIOUS
<1>2. /\ g \in Seq(Seq(Emitted)) /\ g # <<>> /\ n \in Nat \ {0}
      /\ \A b \in 1 .. n : g[b] \in Seq(Emitted)
  BY <1>1, ElementsOf DEF FunctionRight
<1>3. \A b \in 1 .. n : g[b] # <<>>
                        /\ \A i \in 1 .. Len(g[b]) : g[b][i].op = "ret" <=> b = n /\ i = Len(g[b])
  BY <1>1 DEF FunctionRight, BlockRight, PlainRight
<1>4. \A b \in 1 .. n : Len(g[b]) \in Nat \ {0}
  BY <1>2, <1>3, ElementsOf
<1>5. PICK off : LinePlaces(g, f, w, off)
  BY <1>1, <1>2, <1>3, LinesPlaced
<1>6. /\ w \in Seq(Printed) /\ Len(w) \in Nat /\ off \in [0 .. n -> Nat]
      /\ off[0] = 0 /\ off[n] = Len(w)
      /\ \A b \in 1 .. n : off[b] = off[b - 1] + Len(g[b])
      /\ \A c \in 0 .. n : \A b \in 0 .. c : off[b] <= off[c]
      /\ \A b \in 1 .. n : \A i \in 1 .. Len(g[b]) :
            off[b - 1] + i \in 1 .. Len(w) /\ w[off[b - 1] + i] = Line(g[b][i], f, b)
      /\ \A k \in 1 .. Len(w) : \E b \in 1 .. n : \E i \in 1 .. Len(g[b]) : k = off[b - 1] + i
  BY <1>1, <1>5, Zenon DEF LinePlaces
<1>7. ASSUME NEW b \in 1 .. n, NEW i \in 1 .. Len(g[b])
      PROVE  LET k == off[b - 1] + i
             IN /\ k \in 1 .. Len(w) /\ w[k].insn = g[b][i] /\ w[k].function = f
                /\ w[k].block = b /\ OpAt(w, k) = g[b][i].op
  <2>1. off[b - 1] + i \in 1 .. Len(w) /\ w[off[b - 1] + i] = Line(g[b][i], f, b)
    BY <1>6, Zenon
  <2> QED
    BY <2>1 DEF Line, OpAt
<1>8. ASSUME NEW b \in 1 .. n
      PROVE  /\ off[b - 1] \in Nat /\ off[b] \in Nat /\ off[b] <= Len(w)
             /\ (b # n => off[b] < Len(w)) /\ (b # 1 => off[b - 1] > 0)
  <2>1. b - 1 \in 0 .. n /\ b \in 0 .. n /\ n \in 0 .. n /\ (b # n => b + 1 \in 1 .. n)
    BY <1>2
  <2>2. off[b - 1] \in Nat /\ off[b] \in Nat /\ off[b] <= Len(w)
    <3>1. b \in 0 .. n /\ n \in 0 .. n
      BY <2>1
    <3>2. off[b] <= off[n] /\ off[n] = Len(w)
      BY <1>6, <3>1, Zenon
    <3>3. off \in [0 .. n -> Nat]
      BY <1>6
    <3> QED
      BY <2>1, <3>2, <3>3
  <2>3. ASSUME b # n PROVE off[b] < Len(w)
    <3>1. b + 1 \in 1 .. n /\ (b + 1) - 1 = b /\ b + 1 \in 0 .. n
      BY <1>2, <2>3
    <3>2. off[b + 1] = off[b] + Len(g[b + 1]) /\ Len(g[b + 1]) \in Nat \ {0} /\ off[b + 1] <= Len(w)
      BY <1>4, <1>6, <2>1, <3>1
    <3> QED
      BY <1>6, <2>2, <3>2
  <2>4. ASSUME b # 1 PROVE off[b - 1] > 0
    <3>1. 1 \in 1 .. n /\ 1 \in 0 .. b - 1 /\ b - 1 \in 0 .. n
      BY <1>2, <2>4
    <3>2. off[1] = off[0] + Len(g[1]) /\ Len(g[1]) \in Nat \ {0} /\ off[1] <= off[b - 1]
      <4>1. off[1] = off[1 - 1] + Len(g[1])
        BY <1>6, <3>1
      <4> QED
        BY <1>4, <1>6, <3>1, <4>1
    <3> QED
      BY <1>6, <2>2, <3>2
  <2> QED
    BY <2>2, <2>3, <2>4
<1>9. ASSUME NEW k \in 1 .. Len(w)
      PROVE  \E b, i : Coordinates(g, f, w, off, k, b, i)
  <2>1. PICK b \in 1 .. n : \E i \in 1 .. Len(g[b]) : k = off[b - 1] + i
    BY <1>6, Zenon
  <2>2. PICK i \in 1 .. Len(g[b]) : k = off[b - 1] + i
    BY <2>1
  <2>3. PICK o, e, l : o = off[b - 1] /\ e = off[b] /\ l = Len(g[b])
    OBVIOUS
  <2>4. /\ l \in Nat \ {0} /\ o \in Nat /\ e = o + l /\ i \in 1 .. l /\ k = o + i
        /\ e <= Len(w) /\ (b # n => e < Len(w)) /\ (b # 1 => o > 0)
    <3>1. off[b] = off[b - 1] + Len(g[b])
      BY <1>6, Zenon
    <3> QED
      BY <1>4, <1>8, <2>2, <2>3, <3>1
  <2>5. (b = 1 => o = 0) /\ (b = n => e = Len(w))
    <3>1. b = 1 => b - 1 = 0
      OBVIOUS
    <3> QED
      BY <1>6, <2>3, <3>1
  <2>6. k = 1 <=> b = 1 /\ i = 1
    BY <2>4, <2>5
  <2>7. k = Len(w) <=> b = n /\ i = l
    BY <1>6, <2>4, <2>5
  <2>8. b = n => Len(w) = o + l
    BY <2>4, <2>5
  <2>9. w[k].insn = g[b][i] /\ w[k].function = f /\ w[k].block = b /\ OpAt(w, k) = g[b][i].op
    BY <1>7, <2>2
  <2>10. Coordinates(g, f, w, off, k, b, i)
    BY <1>1, <2>3, <2>4, <2>6, <2>7, <2>8, <2>9 DEF Coordinates
  <2> QED
    BY <2>10
<1>10. ASSUME NEW k \in 1 .. Len(w)
       PROVE  w[k].function = f /\ (OpAt(w, k) = "ret" <=> k = Len(w))
  <2>1. PICK b, i : Coordinates(g, f, w, off, k, b, i)
    BY <1>9
  <2>2. b \in 1 .. n /\ i \in 1 .. Len(g[b]) => (g[b][i].op = "ret" <=> b = n /\ i = Len(g[b]))
    BY <1>3
  <2> QED
    BY <1>1, <2>1, <2>2 DEF Coordinates
<1>11. Len(w) \in Nat \ {0} /\ w # <<>> /\ w[1].block = 1
  <2>1. 1 \in 1 .. n /\ 1 \in 1 .. Len(g[1]) /\ 1 = off[1 - 1] + 1
    BY <1>2, <1>4, <1>6
  <2>2. 1 \in 1 .. Len(w) /\ w[1].block = 1
    BY <1>7, <2>1
  <2> QED
    BY <1>6, <2>2
<1>12. ASSUME NEW c \in 1 .. n, NEW m \in 1 .. Len(g[c]), NEW j \in 1 .. off[c - 1] + m - 1
       PROVE  \E b \in 1 .. c : \E i \in 1 .. Len(g[b]) :
                 w[j].insn = g[b][i] /\ (b < c \/ i < m)
  <2>1. off[c - 1] + m \in 1 .. Len(w) /\ off[c - 1] \in Nat
    BY <1>7, <1>8
  <2>2. j \in 1 .. Len(w)
    <3>1. PICK o, p, e : o = off[c - 1] /\ p = Len(w) /\ e = Len(g[c])
      OBVIOUS
    <3>2. o \in Nat /\ o + m \in 1 .. p /\ j \in 1 .. o + m - 1 /\ p \in Nat
      BY <1>6, <2>1, <3>1
    <3>3. m \in 1 .. e /\ e \in Nat
      BY <1>4, <3>1
    <3>4. j \in 1 .. p
      BY <3>2, <3>3
    <3> QED
      BY <3>1, <3>4
  <2>3. PICK b, i : Coordinates(g, f, w, off, j, b, i)
    BY <1>9, <2>2
  <2>4. /\ b \in 1 .. n /\ i \in 1 .. Len(g[b]) /\ j = off[b - 1] + i /\ w[j].insn = g[b][i]
        /\ off[b - 1] \in Nat /\ Len(g[b]) \in Nat
    BY <1>1, <2>3 DEF Coordinates
  <2>5. PICK x, y, l : x = off[c - 1] /\ y = off[b - 1] /\ l = Len(g[c])
    OBVIOUS
  <2>6. /\ x \in Nat /\ y \in Nat /\ j = y + i /\ j \in 1 .. x + m - 1 /\ m \in Nat /\ i \in Nat \ {0}
    <3>1. l \in Nat /\ m \in 1 .. l
      BY <1>4, <2>5
    <3>2. x \in Nat /\ y \in Nat /\ j = y + i /\ j \in 1 .. x + m - 1
      BY <2>1, <2>4, <2>5
    <3>3. i \in Nat \ {0}
      <4>1. PICK h : h = Len(g[b])
        OBVIOUS
      <4> QED
        BY <2>4, <4>1
    <3> QED
      BY <3>1, <3>2, <3>3
  <2>7. b <= c
    <3> SUFFICES ASSUME c < b PROVE FALSE
      BY <1>2, <2>4
    <3>1. c \in 0 .. b - 1 /\ b - 1 \in 0 .. n
      <4>1. n \in Nat
        BY <1>2
      <4>2. b \in 1 .. n
        BY <2>4
      <4> QED
        BY <4>1, <4>2
    <3>2. off[c] <= y /\ off[c] = x + l
      BY <1>6, <2>5, <3>1
    <3>3. l \in Nat /\ m <= l
      BY <1>4, <2>5
    <3> QED
      BY <2>6, <3>2, <3>3
  <2>8. b = c => i < m
    BY <2>5, <2>6
  <2>9. b \in 1 .. c /\ (b < c \/ i < m)
    BY <1>2, <2>4, <2>7, <2>8
  <2> QED
    BY <2>4, <2>9, Zenon
<1>13. CASE \A b \in 1 .. n : PlainRight(g[b], b = n)
  <2>1. ASSUME NEW k \in 1 .. Len(w)
        PROVE  OpAt(w, k) \notin {"init", "exit", "dummy_init", "access", "load", "store"}
    <3>1. PICK b, i : Coordinates(g, f, w, off, k, b, i)
      BY <1>9
    <3>2. OpAt(w, k) = g[b][i].op /\ i \in 1 .. Len(g[b]) /\ b \in 1 .. n
      BY <1>1, <3>1 DEF Coordinates
    <3> QED
      BY <1>13, <3>2 DEF PlainRight
  <2> QED
    BY <1>1, <1>6, <1>10, <1>11, <2>1 DEF LinesRight
<1>14. CASE \E v \in Variables, c \in 1 .. n : \A b \in 1 .. n :
               BlockRight(g[b], v, b = 1, b = n, b = n, Part(b, c))
  <2>1. PICK v \in Variables, c \in 1 .. n :
           \A b \in 1 .. n : BlockRight(g[b], v, b = 1, b = n, b = n, Part(b, c))
    BY <1>14
  <2>2. ASSUME NEW k \in 1 .. Len(w)
        PROVE  /\ OpAt(w, k) = "init" <=> k = 1
               /\ OpAt(w, k) = "init" => w[k].insn.var = v
               /\ OpAt(w, k) = "exit" => k = Len(w) - 1
               /\ k = Len(w) => k > 1 /\ OpAt(w, k - 1) = "exit" /\ w[k - 1].block = w[k].block
    <3>1. PICK b, i : Coordinates(g, f, w, off, k, b, i)
      BY <1>9
    <3>2. PICK o, l : o = off[b - 1] /\ l = Len(g[b])
      OBVIOUS
    <3>20. /\ b \in 1 .. n /\ k = o + i /\ o \in Nat /\ l \in Nat \ {0} /\ i \in 1 .. l
           /\ OpAt(w, k) = g[b][i].op /\ w[k].insn = g[b][i] /\ w[k].block = b
           /\ k = 1 <=> b = 1 /\ i = 1
           /\ k = Len(w) <=> b = n /\ i = l
           /\ b = n => Len(w) = o + l
      BY <1>1, <3>1, <3>2 DEF Coordinates
    <3>3. /\ g[b][i].op = "init" <=> b = 1 /\ i = 1
          /\ g[b][i].op = "exit" => b = n /\ i = l - 1
          /\ g[b][i].op = "init" => g[b][i].var = v
      BY <2>1, <3>2, <3>20 DEF BlockRight
    <3>4. ASSUME k = Len(w)
          PROVE  k > 1 /\ OpAt(w, k - 1) = "exit" /\ w[k - 1].block = w[k].block
      <4>1. b = n /\ i = l /\ i > 1 /\ i - 1 \in 1 .. Len(g[b])
        <5>1. b = n /\ i = l
          BY <3>20, <3>4
        <5>2. BlockRight(g[b], v, b = 1, b = n, b = n, Part(b, c))
          BY <2>1, <3>20
        <5>3. l > 1
          BY <3>2, <5>1, <5>2 DEF BlockRight
        <5> QED
          BY <3>2, <3>20, <5>1, <5>3
      <4>2. g[b][i - 1].op = "exit"
        <5>1. \A m \in 1 .. Len(g[b]) : m = Len(g[b]) - 1 /\ b = n => g[b][m].op = "exit"
          <6>1. BlockRight(g[b], v, b = 1, b = n, b = n, Part(b, c))
            BY <2>1, <3>20
          <6> QED
            BY <6>1 DEF BlockRight
        <5> QED
          BY <3>2, <4>1, <5>1
      <4>3. k - 1 = off[b - 1] + (i - 1)
        BY <3>2, <3>20
      <4>4. OpAt(w, k - 1) = g[b][i - 1].op /\ w[k - 1].block = b
        <5>1. PICK j : j = i - 1 /\ j \in 1 .. Len(g[b])
          BY <4>1
        <5>2. b \in 1 .. n
          BY <3>20
        <5>3. OpAt(w, off[b - 1] + j) = g[b][j].op /\ w[off[b - 1] + j].block = b
          BY <1>7, <5>1, <5>2, Zenon
        <5> QED
          BY <4>3, <5>1, <5>3
      <4> QED
        BY <3>20, <4>1, <4>2, <4>4
    <3>5. g[b][i].op = "exit" => k = Len(w) - 1
      BY <3>20, <3>3
    <3>6. OpAt(w, k) = "init" <=> k = 1
      BY <3>20, <3>3
    <3>7. OpAt(w, k) = "init" => w[k].insn.var = v
      BY <3>20, <3>3
    <3> QED
      BY <3>20, <3>4, <3>5, <3>6, <3>7
  <2>3. \E k \in 1 .. Len(w) : /\ IsAnnotated(w[k].insn) /\ w[k].insn.var = v
                              /\ \A j \in 1 .. k - 1 : ~IsAnnotated(w[j].insn)
    <3>1. \A b \in 1 .. n : Used(g[b], v, Part(b, c))
      BY <2>1 DEF BlockRight
    <3>2. Part(c, c) = "first"
      BY <1>2 DEF Part
    <3>3. PICK m \in 1 .. Len(g[c]) : /\ IsAnnotated(g[c][m]) /\ g[c][m].var = v
                                      /\ \A j \in 1 .. m - 1 : ~IsAnnotated(g[c][j])
      BY <3>1, <3>2 DEF Used
    <3>4. PICK k : k = off[c - 1] + m
      OBVIOUS
    <3>5. k \in 1 .. Len(w) /\ w[k].insn = g[c][m]
      BY <1>7, <3>4
    <3>6. ASSUME NEW j \in 1 .. k - 1 PROVE ~IsAnnotated(w[j].insn)
      <4>1. PICK b \in 1 .. c : \E i \in 1 .. Len(g[b]) :
               w[j].insn = g[b][i] /\ (b < c \/ i < m)
        <5>1. j \in 1 .. off[c - 1] + m - 1
          <6>1. off[c - 1] \in Nat /\ Len(g[c]) \in Nat
            BY <1>4, <1>8
          <6>2. PICK x, l : x = off[c - 1] /\ l = Len(g[c])
            OBVIOUS
          <6> QED
            BY <3>4, <6>1, <6>2
        <5>2. c \in 1 .. n /\ m \in 1 .. Len(g[c])
          BY <1>2
        <5> QED
          BY <1>12, <5>1, <5>2, ZenonT(30)
      <4>2. PICK i \in 1 .. Len(g[b]) : w[j].insn = g[b][i] /\ (b < c \/ i < m)
        BY <4>1
      <4>3. CASE b < c
        <5>1. Part(b, c) = "none" /\ b \in 1 .. n
          BY <1>2, <4>3 DEF Part
        <5> QED
          BY <3>1, <4>2, <5>1 DEF Used
      <4>4. CASE ~(b < c)
        <5>1. b = c /\ i < m
          BY <1>2, <4>2, <4>4
        <5>2. i \in 1 .. m - 1
          BY <1>4, <5>1
        <5> QED
          BY <3>3, <4>2, <5>1, <5>2
      <4> QED
        BY <4>3, <4>4
    <3> QED
      BY <3>3, <3>5, <3>6
  <2>4. SectionRight(w, v)
    BY <2>2, <2>3, Zenon DEF SectionRight
  <2> QED
    BY <1>1, <1>6, <1>10, <1>11, <2>4, Zenon DEF LinesRight
<1> QED
  BY <1>1, <1>13, <1>14 DEF FunctionRight

(* The lines of the functions, one after the other, and then others.       *)
ProgramPlaces(ss, n, len, w, last, off) ==
    /\ w \in Seq(Range(w)) /\ Len(w) \in Nat /\ last \in Nat /\ last + 1 <= Len(w)
    /\ Body(w) = 1 .. last /\ w[last + 1].function = 0
    /\ n \in Nat \ {0} /\ off \in [0 .. n -> Nat]
    /\ \A f \in 1 .. n : len[f] = Len(ss[f]) /\ len[f] \in Nat \ {0}
    /\ off[0] = 0 /\ off[n] = last
    /\ \A f \in 1 .. n : off[f] = off[f - 1] + len[f]
    /\ \A c \in 0 .. n : \A f \in 0 .. c : off[f] <= off[c]
    /\ \A f \in 1 .. n : \A i \in 1 .. len[f] :
          off[f - 1] + i \in 1 .. last /\ w[off[f - 1] + i] = ss[f][i]
    /\ \A k \in 1 .. last : \E f \in 1 .. n : \E i \in 1 .. len[f] : k = off[f - 1] + i

(* The k-th line is the i-th one of function f.                            *)
LineIs(ss, len, w, last, off, n, k, f, i) ==
    /\ f \in 1 .. n /\ i \in 1 .. len[f] /\ len[f] \in Nat \ {0} /\ off[f - 1] \in Nat
    /\ k = off[f - 1] + i /\ k \in 1 .. last
    /\ w[k] = ss[f][i] /\ w[k].function = f
    /\ First(w, k) <=> i = 1
    /\ i > 1 => w[k - 1] = ss[f][i - 1]
    /\ IF i < len[f] THEN w[k + 1] = ss[f][i + 1] ELSE w[k + 1].function # f

LEMMA LineIsSome ==
    ASSUME NEW ss, NEW n, NEW len, NEW w, NEW last, NEW off,
           ProgramPlaces(ss, n, len, w, last, off),
           \A f \in 1 .. n : \A i \in 1 .. len[f] : ss[f][i].function = f,
           NEW k \in 1 .. last
    PROVE  \E f, i : LineIs(ss, len, w, last, off, n, k, f, i)
<1>1. /\ n \in Nat \ {0} /\ off \in [0 .. n -> Nat] /\ off[0] = 0 /\ off[n] = last /\ last \in Nat
      /\ w[last + 1].function = 0
      /\ \A f \in 1 .. n : len[f] \in Nat \ {0} /\ off[f] = off[f - 1] + len[f]
      /\ \A f \in 1 .. n : \A i \in 1 .. len[f] :
            off[f - 1] + i \in 1 .. last /\ w[off[f - 1] + i] = ss[f][i]
  BY Zenon DEF ProgramPlaces
<1>2. PICK f \in 1 .. n : \E i \in 1 .. len[f] : k = off[f - 1] + i
  BY Zenon DEF ProgramPlaces
<1>3. PICK i \in 1 .. len[f] : k = off[f - 1] + i
  BY <1>2
<1>4. PICK o, l, e : o = off[f - 1] /\ l = len[f] /\ e = off[f]
  OBVIOUS
<1>5. /\ o \in Nat /\ e \in Nat /\ l \in Nat \ {0} /\ e = o + l /\ i \in 1 .. l /\ k = o + i
      /\ f \in 1 .. n
      /\ \A j \in 1 .. l : o + j \in 1 .. last /\ w[o + j] = ss[f][j] /\ ss[f][j].function = f
  <2>1. f - 1 \in 0 .. n /\ f \in 0 .. n
    BY <1>1
  <2>2. o \in Nat /\ e \in Nat /\ l \in Nat \ {0} /\ e = o + l
    BY <1>1, <1>4, <2>1
  <2> QED
    BY <1>1, <1>3, <1>4, <2>2
<1>6. k \in 1 .. last /\ w[k] = ss[f][i] /\ w[k].function = f
  BY <1>5
<1>7. ASSUME i > 1 PROVE w[k - 1] = ss[f][i - 1] /\ w[k - 1].function = f /\ k # 1
  <2>1. i - 1 \in 1 .. l /\ k - 1 = o + (i - 1)
    BY <1>5, <1>7
  <2>2. PICK j : j = i - 1
    OBVIOUS
  <2>3. w[o + j] = ss[f][j] /\ ss[f][j].function = f
    BY <1>5, <2>1, <2>2
  <2> QED
    BY <1>5, <1>7, <2>1, <2>2, <2>3
<1>8. ASSUME i = 1, f # 1 PROVE k - 1 \in 1 .. last /\ w[k - 1].function = f - 1
  <2>1. PICK g : g = f - 1
    OBVIOUS
  <2>2. g \in 1 .. n
    BY <1>1, <1>8, <2>1
  <2>3. len[g] \in Nat \ {0} /\ off[g] = off[g - 1] + len[g] /\ off[g] = o
    BY <1>1, <1>4, <2>1, <2>2
  <2>4. len[g] \in 1 .. len[g] /\ k - 1 = off[g - 1] + len[g]
    BY <1>5, <1>8, <2>3
  <2>5. off[g - 1] + len[g] \in 1 .. last /\ w[off[g - 1] + len[g]] = ss[g][len[g]]
        /\ ss[g][len[g]].function = g
    BY <1>1, <2>2, <2>4
  <2> QED
    BY <2>1, <2>4, <2>5
<1>9. First(w, k) <=> i = 1
  <2>1. CASE i = 1 /\ f = 1
    <3>1. k = 1
      BY <1>1, <1>4, <1>5, <2>1
    <3> QED
      BY <2>1, <3>1 DEF First
  <2>2. CASE i = 1 /\ f # 1
    <3>1. w[k - 1].function # w[k].function
      BY <1>5, <1>6, <1>8, <2>2
    <3> QED
      BY <2>2, <3>1 DEF First
  <2>3. CASE i # 1
    <3>1. i > 1
      BY <1>5, <2>3
    <3> QED
      BY <1>6, <1>7, <2>3, <3>1 DEF First
  <2> QED
    BY <2>1, <2>2, <2>3
<1>10. IF i < l THEN w[k + 1] = ss[f][i + 1] ELSE w[k + 1].function # f
  <2>1. CASE i < l
    <3>1. PICK j : j = i + 1
      OBVIOUS
    <3>2. j \in 1 .. l /\ k + 1 = o + j
      BY <1>5, <2>1, <3>1
    <3>3. w[o + j] = ss[f][j]
      BY <1>5, <3>2
    <3> QED
      BY <2>1, <3>1, <3>2, <3>3
  <2>2. CASE i = l /\ f = n
    <3>1. k + 1 = last + 1
      BY <1>1, <1>4, <1>5, <2>2
    <3>2. w[k + 1].function = 0
      BY <1>1, <3>1
    <3>3. f # 0 /\ ~(i < l)
      BY <1>5, <2>2
    <3> QED
      BY <3>2, <3>3
  <2>3. CASE i = l /\ f # n
    <3>1. PICK g : g = f + 1
      OBVIOUS
    <3>2. g \in 1 .. n /\ g - 1 = f
      BY <1>1, <1>5, <2>3, <3>1
    <3>3. 1 \in 1 .. len[g]
      <4>1. len[g] \in Nat \ {0}
        BY <1>1, <3>2
      <4> QED
        BY <4>1
    <3>4. w[off[g - 1] + 1] = ss[g][1] /\ ss[g][1].function = g
      BY <1>1, <3>2, <3>3
    <3>5. k + 1 = off[g - 1] + 1
      BY <1>4, <1>5, <2>3, <3>2
    <3> QED
      BY <1>5, <2>3, <3>1, <3>4, <3>5
  <2> QED
    BY <1>5, <2>1, <2>2, <2>3
<1>11. LineIs(ss, len, w, last, off, n, k, f, i)
  BY <1>4, <1>5, <1>6, <1>7, <1>9, <1>10 DEF LineIs
<1> QED
  BY <1>11

LEMMA PlacedLaidOut ==
    ASSUME NEW ss, NEW n, NEW len, NEW w, NEW last, NEW off,
           ProgramPlaces(ss, n, len, w, last, off),
           \A f \in 1 .. n : LinesRight(ss[f], f)
    PROVE  LaidOut(w)
<1>1. /\ w \in Seq(Range(w)) /\ Len(w) \in Nat /\ last \in Nat /\ last + 1 <= Len(w)
      /\ Body(w) = 1 .. last /\ n \in Nat \ {0} /\ off \in [0 .. n -> Nat] /\ off[0] = 0
      /\ \A f \in 1 .. n : len[f] = Len(ss[f]) /\ len[f] \in Nat \ {0}
      /\ \A f \in 1 .. n : off[f] = off[f - 1] + len[f]
      /\ \A c \in 0 .. n : \A f \in 0 .. c : off[f] <= off[c]
      /\ \A f \in 1 .. n : \A i \in 1 .. len[f] :
            off[f - 1] + i \in 1 .. last /\ w[off[f - 1] + i] = ss[f][i]
  BY Zenon DEF ProgramPlaces
<1>0. n \in Nat \ {0} /\ last \in Nat /\ Len(w) \in Nat /\ last + 1 <= Len(w)
  BY <1>1
<1>2. ASSUME NEW f \in 1 .. n, NEW i \in 1 .. len[f]
      PROVE  /\ ss[f][i] \in Printed /\ ss[f][i].function = f
             /\ ss[f][i].insn.op = "ret" <=> i = len[f]
             /\ i = 1 => ss[f][i].block = 1
  <2>1. PICK s : s = ss[f] /\ len[f] = Len(s) /\ LinesRight(s, f)
    BY <1>1
  <2>2. s \in Seq(Printed) /\ i \in 1 .. Len(s)
    BY <2>1 DEF LinesRight
  <2>3. s[i] \in Printed
    BY <2>2
  <2>4. s[i].function = f /\ (OpAt(s, i) = "ret" <=> i = Len(s)) /\ (i = 1 => s[i].block = 1)
    BY <2>1, <2>2 DEF LinesRight
  <2> QED
    BY <2>1, <2>3, <2>4 DEF OpAt
<1>3. ASSUME NEW k \in 1 .. last
      PROVE  \E f, i : LineIs(ss, len, w, last, off, n, k, f, i)
  BY <1>2, LineIsSome
<1>4. ASSUME NEW p \in 1 .. last, NEW k \in 1 .. last, p <= k
      PROVE  w[p].function <= w[k].function
  <2>1. PICK f, i : LineIs(ss, len, w, last, off, n, k, f, i)
    BY <1>3
  <2>2. PICK g, j : LineIs(ss, len, w, last, off, n, p, g, j)
    BY <1>3
  <2>3. /\ f \in 1 .. n /\ g \in 1 .. n /\ w[p].function = g /\ w[k].function = f
        /\ i \in 1 .. len[f] /\ k = off[f - 1] + i /\ off[f - 1] \in Nat
        /\ j \in 1 .. len[g] /\ p = off[g - 1] + j /\ off[g - 1] \in Nat /\ len[f] \in Nat
    BY <2>1, <2>2 DEF LineIs
  <2>4. CASE f < g
    <3>1. g - 1 \in 0 .. n /\ f \in 0 .. g - 1
      BY <1>0, <2>3, <2>4
    <3>2. off[f] <= off[g - 1] /\ off[f] = off[f - 1] + len[f]
      BY <1>1, <2>3, <3>1
    <3>3. k <= off[f] /\ off[g - 1] < p
      BY <2>3, <3>2
    <3>4. off[f] \in Nat /\ off[g - 1] \in Nat
      BY <1>1, <2>3, <3>2
    <3> QED
      BY <1>4, <3>2, <3>3, <3>4
  <2> QED
    BY <1>1, <2>3, <2>4
<1>5. ASSUME NEW k \in 1 .. last
      PROVE  /\ k + 1 \in DOMAIN w
             /\ w[k + 1].function = w[k].function <=> OpAt(w, k) # "ret"
             /\ w[k].function \in Nat
             /\ First(w, k) => w[k].block = 1
             /\ OpAt(w, k) \notin {"init_label", "exit_label"}
  <2>1. PICK f, i : LineIs(ss, len, w, last, off, n, k, f, i)
    BY <1>3
  <2>2. k + 1 \in DOMAIN w
    <3>1. DOMAIN w = 1 .. Len(w)
      BY <1>1
    <3> QED
      BY <1>1, <3>1
  <2>0. PICK l : l = len[f]
    OBVIOUS
  <2>3. /\ f \in 1 .. n /\ i \in 1 .. l /\ w[k] = ss[f][i] /\ w[k].function = f
        /\ l \in Nat \ {0}
    BY <2>0, <2>1 DEF LineIs
  <2>4. /\ w[k] \in Printed
        /\ OpAt(w, k) = "ret" <=> i = l
        /\ i = 1 => w[k].block = 1
    BY <1>2, <2>0, <2>3 DEF OpAt
  <2>5. w[k + 1].function = f <=> i # l
    <3>1. CASE i < l
      <4>1. PICK j : j = i + 1 /\ j \in 1 .. l
        BY <2>3, <3>1
      <4>2. w[k + 1] = ss[f][j]
        BY <2>0, <2>1, <3>1, <4>1 DEF LineIs
      <4>3. ss[f][j].function = f
        BY <1>2, <2>0, <2>3, <4>1
      <4>4. i # l
        BY <2>3, <3>1
      <4> QED
        BY <4>2, <4>3, <4>4
    <3>2. CASE ~(i < l)
      <4>1. w[k + 1].function # f
        BY <2>0, <2>1, <3>2 DEF LineIs
      <4>2. i = l
        BY <2>3, <3>2
      <4> QED
        BY <4>1, <4>2
    <3> QED
      BY <3>1, <3>2
  <2>6. First(w, k) => i = 1
    BY <2>1 DEF LineIs
  <2>7. OpAt(w, k) \notin {"init_label", "exit_label"}
    BY <2>4 DEF Printed, Emitted, OpAt
  <2>8. f \in Nat
    BY <1>0, <2>3
  <2>9. w[k + 1].function = w[k].function <=> OpAt(w, k) # "ret"
    BY <2>3, <2>4, <2>5
  <2>10. First(w, k) => w[k].block = 1
    BY <2>4, <2>6
  <2> QED
    BY <2>2, <2>3, <2>7, <2>8, <2>9, <2>10
<1>6. InOrder(w)
  BY <1>1, <1>4, <1>5 DEF InOrder
<1>7. ASSUME NEW f \in Nat
      PROVE  IF Guarded(w, f) THEN GuardedRight(w, f) ELSE UnguardedRight(w, f)
  <2>1. CASE f \notin 1 .. n
    <3>1. ASSUME NEW k \in Body(w) PROVE w[k].function # f
      <4>1. PICK g, i : LineIs(ss, len, w, last, off, n, k, g, i)
        BY <1>1, <1>3
      <4> QED
        BY <2>1, <4>1 DEF LineIs
    <3> QED
      BY <3>1 DEF Guarded, UnguardedRight
  <2>2. CASE f \in 1 .. n
    <3>1. PICK s : s = ss[f] /\ len[f] = Len(s) /\ LinesRight(s, f)
      BY <1>1, <2>2
    <3>2. ASSUME NEW k \in Body(w), w[k].function = f
          PROVE  \E i : LineIs(ss, len, w, last, off, n, k, f, i)
      <4>1. PICK g, i : LineIs(ss, len, w, last, off, n, k, g, i)
        BY <1>1, <1>3
      <4>2. g = f
        BY <3>2, <4>1 DEF LineIs
      <4> QED
        BY <4>1, <4>2
    <3>3. CASE \A i \in 1 .. Len(s) :
                  OpAt(s, i) \notin {"init", "exit", "dummy_init", "access", "load", "store"}
      <4>1. ASSUME NEW k \in Body(w), w[k].function = f
            PROVE  OpAt(w, k) \notin {"init", "exit", "dummy_init", "access", "load", "store"}
        <5>1. PICK i : LineIs(ss, len, w, last, off, n, k, f, i)
          BY <3>2, <4>1
        <5>2. i \in 1 .. Len(s) /\ w[k] = s[i]
          BY <3>1, <5>1 DEF LineIs
        <5> QED
          BY <3>3, <5>2 DEF OpAt
      <4> QED
        BY <4>1 DEF Guarded, UnguardedRight
    <3>4. CASE \E v \in Variables : SectionRight(s, v)
      <4>1. PICK v \in Variables : SectionRight(s, v)
        BY <3>4
      <4>2. ASSUME NEW k \in Body(w), w[k].function = f
            PROVE  /\ OpAt(w, k) = "init" <=> First(w, k)
                   /\ OpAt(w, k) = "init" => w[k].insn.var = v
                   /\ OpAt(w, k) = "exit" => OpAt(w, k + 1) = "ret"
                   /\ OpAt(w, k) = "ret" => /\ ~First(w, k) /\ OpAt(w, k - 1) = "exit"
                                            /\ w[k - 1].block = w[k].block
        <5>1. PICK i : LineIs(ss, len, w, last, off, n, k, f, i)
          BY <3>2, <4>2
        <5>2. /\ Len(s) \in Nat \ {0} /\ i \in 1 .. Len(s) /\ w[k] = s[i]
              /\ OpAt(w, k) = OpAt(s, i) /\ (First(w, k) <=> i = 1)
              /\ i > 1 => w[k - 1] = s[i - 1]
              /\ i < Len(s) => w[k + 1] = s[i + 1]
          BY <3>1, <5>1 DEF LineIs, OpAt
        <5>3. /\ OpAt(s, i) = "init" <=> i = 1
              /\ OpAt(s, i) = "init" => s[i].insn.var = v
              /\ OpAt(s, i) = "exit" => i = Len(s) - 1
              /\ i = Len(s) => /\ i > 1 /\ OpAt(s, i - 1) = "exit"
                               /\ s[i - 1].block = s[i].block
              /\ OpAt(s, i) = "ret" <=> i = Len(s)
              /\ OpAt(s, Len(s)) = "ret"
          BY <3>1, <4>1, <5>2 DEF LinesRight, SectionRight
        <5>4. OpAt(w, k) = "exit" => OpAt(w, k + 1) = "ret"
          BY <5>2, <5>3 DEF OpAt
        <5>5. OpAt(w, k) = "ret" => /\ ~First(w, k) /\ OpAt(w, k - 1) = "exit"
                                    /\ w[k - 1].block = w[k].block
          BY <5>2, <5>3 DEF OpAt
        <5> QED
          BY <5>2, <5>3, <5>4, <5>5
      <4>3. Guarded(w, f)
        <5>1. PICK k : k = off[f - 1] + 1
          OBVIOUS
        <5>2. 1 \in 1 .. Len(s)
          BY <1>1, <2>2, <3>1
        <5>3. k \in 1 .. last /\ w[k] = s[1]
          BY <1>1, <2>2, <3>1, <5>1, <5>2
        <5>4. OpAt(s, 1) = "init" /\ s[1].function = f
          BY <3>1, <4>1, <5>2 DEF LinesRight, SectionRight
        <5> QED
          BY <1>1, <5>3, <5>4 DEF Guarded, OpAt
      <4>4. v # NoVariable
        BY InstrumentationAssumption
      <4>5. \E k \in Body(w) :
               /\ w[k].function = f /\ IsAnnotated(w[k].insn) /\ w[k].insn.var = v
               /\ \A p \in Body(w) : w[p].function = f /\ p < k => ~IsAnnotated(w[p].insn)
        <5>1. PICK m \in 1 .. Len(s) :
                 /\ IsAnnotated(s[m].insn) /\ s[m].insn.var = v
                 /\ \A j \in 1 .. m - 1 : ~IsAnnotated(s[j].insn)
          BY <4>1 DEF SectionRight
        <5>2. PICK o, l : o = off[f - 1] /\ l = len[f] /\ l = Len(s)
          BY <3>1
        <5>3. o + m \in 1 .. last /\ w[o + m] = s[m] /\ s[m].function = f
          BY <1>1, <1>2, <2>2, <3>1, <5>2
        <5>4. ASSUME NEW p \in Body(w), w[p].function = f, p < o + m
              PROVE  ~IsAnnotated(w[p].insn)
          <6>1. PICK j : LineIs(ss, len, w, last, off, n, p, f, j)
            BY <3>2, <5>4
          <6>2. j \in 1 .. l /\ p = o + j /\ w[p] = s[j] /\ o \in Nat /\ l \in Nat
            BY <3>1, <5>2, <6>1 DEF LineIs
          <6>3. j \in 1 .. m - 1
            BY <5>2, <5>4, <6>2
          <6> QED
            BY <5>1, <6>2, <6>3
        <5> QED
          BY <1>1, <5>1, <5>3, <5>4
      <4> QED
        BY <4>2, <4>3, <4>4, <4>5 DEF GuardedRight, Opens
    <3> QED
      BY <3>1, <3>3, <3>4 DEF LinesRight
  <2> QED
    BY <2>1, <2>2
<1> QED
  BY <1>6, <1>7 DEF LaidOut

LEMMA DisassemblyLaidOut ==
    ASSUME NEW program, ClangProgram(program)
    PROVE  LaidOut(Disassembly(program))
<1>1. PICK n : n = Len(program)
  OBVIOUS
<1>2. /\ n \in Nat \ {0} /\ DOMAIN program = 1 .. n
      /\ \A f \in 1 .. n : program[f] \in Seq(Seq(Instruction))
  <2>1. program \in Seq(Seq(Seq(Instruction))) /\ program # <<>>
    BY DEF ClangProgram
  <2> QED
    BY <1>1, <2>1, ElementsOf, Zenon
<1>3. \A f \in 1 .. n : OneReturn(program[f]) /\ ComputesAddresses(program[f])
  BY <1>2 DEF ClangProgram
<1>4. PICK ss : ss = [f \in 1 .. n |-> Lines(Instrument(program[f]), f)]
  OBVIOUS
<1>5. ASSUME NEW f \in 1 .. n PROVE LinesRight(ss[f], f)
  <2>1. FunctionRight(Instrument(program[f]))
    BY <1>2, <1>3, InstrumentRight
  <2>2. f \in Nat \ {0}
    BY <1>2
  <2>3. LinesRight(Lines(Instrument(program[f]), f), f)
    BY <2>1, <2>2, LinesOfFunction
  <2> QED
    BY <1>4, <2>3
<1>6. \A f \in 1 .. n : ss[f] \in Seq(Printed) /\ Len(ss[f]) \in Nat \ {0}
  BY <1>5, ElementsOf DEF LinesRight
<1>7. PICK len : len = [f \in 1 .. n |-> Len(ss[f])]
  OBVIOUS
<1>8. Len(ss) = n
  BY <1>2, <1>4
<1>9. PICK u, off : u = FlattenSeq(ss) /\ Places(Printed, ss, n, len, u, off)
  BY <1>2, <1>6, <1>7, <1>8, FlattenedPlaces
<1>10. PICK w : w = Disassembly(program)
  OBVIOUS
<1>11. w = Join(u, Library)
  <2>1. ss = [f \in DOMAIN program |-> Lines(Instrument(program[f]), f)]
    BY <1>2, <1>4
  <2> QED
    BY <1>9, <1>10, <2>1 DEF Disassembly, Join
<1>12. PICK T : T = Printed \cup {Library[i] : i \in 1 .. 6}
  OBVIOUS
<1>13. /\ Library \in Seq(T) /\ Len(Library) = 6
       /\ \A i \in 1 .. 6 : Library[i].function = 0
  <2>1. Library \in [1 .. 6 -> T]
    BY <1>12 DEF Library
  <2>2. \A i \in 1 .. 6 : Library[i].function = 0
    BY DEF Library, Line
  <2>3. PICK m, s : m = 6 /\ s = Library
    OBVIOUS
  <2>4. m \in Nat /\ s \in [1 .. m -> T]
    BY <2>1, <2>3
  <2>5. s \in Seq(T) /\ Len(s) = m
    BY <2>4
  <2> QED
    BY <2>2, <2>3, <2>5
<1>14. u \in Seq(Printed) /\ Len(u) \in Nat
  <2>1. u \in Seq(Printed)
    BY <1>9 DEF Places
  <2> QED
    BY <2>1
<1>15. u \in Seq(T)
  <2>1. Printed \subseteq T
    BY <1>12
  <2> QED
    BY <1>14, <2>1
<1>16. Joins(T, u, Library, w)
  BY <1>11, <1>13, <1>15, Joined
<1>17. PICK last : last = Len(u)
  OBVIOUS
<1>18. /\ w \in Seq(T) /\ last \in Nat /\ Len(w) = last + 6
       /\ \A i \in 1 .. last : w[i] = u[i]
       /\ \A i \in 1 .. 6 : w[last + i] = Library[i]
  BY <1>13, <1>14, <1>16, <1>17 DEF Joins
<1>19. \A i \in 1 .. last : w[i].function # 0
  <2>1. \A i \in 1 .. last : w[i] \in Printed
    BY <1>14, <1>17, <1>18
  <2> QED
    BY <2>1 DEF Printed
<1>20. w[last + 1].function = 0
  BY <1>13, <1>18
<1>21. Body(w) = 1 .. last
  <2>1. DOMAIN w = 1 .. last + 6
    BY <1>18
  <2>2. ASSUME NEW i \in 1 .. last + 6, i \notin 1 .. last PROVE w[i].function = 0
    <3>1. PICK j : j = i - last /\ j \in 1 .. 6 /\ i = last + j
      BY <1>18, <2>2
    <3> QED
      BY <1>13, <1>18, <3>1
  <2>3. 1 .. last \subseteq 1 .. last + 6
    BY <1>18
  <2> QED
    BY <1>19, <2>1, <2>2, <2>3 DEF Body
<1>22. w \in Seq(Range(w)) /\ Len(w) \in Nat /\ last + 1 <= Len(w)
  <2>1. w \in Seq(Range(w))
    BY <1>18 DEF Range
  <2> QED
    BY <1>18, <2>1
<1>23. \A f \in 1 .. n : len[f] = Len(ss[f]) /\ len[f] \in Nat \ {0}
  BY <1>6, <1>7
<1>24. \A f \in 1 .. n : \A i \in 1 .. len[f] :
          off[f - 1] + i \in 1 .. last /\ w[off[f - 1] + i] = ss[f][i]
  <2>1. \A f \in 1 .. n : \A i \in 1 .. len[f] :
           off[f - 1] + i \in 1 .. last /\ u[off[f - 1] + i] = ss[f][i]
    BY <1>9, <1>17, Zenon DEF Places
  <2> QED
    BY <1>18, <2>1, Zenon
<1>25. /\ off \in [0 .. n -> Nat] /\ off[0] = 0 /\ off[n] = last
       /\ \A f \in 1 .. n : off[f] = off[f - 1] + len[f]
       /\ \A c \in 0 .. n : \A f \in 0 .. c : off[f] <= off[c]
       /\ \A k \in 1 .. last : \E f \in 1 .. n : \E i \in 1 .. len[f] : k = off[f - 1] + i
  BY <1>9, <1>17, Zenon DEF Places
<1>26. ProgramPlaces(ss, n, len, w, last, off)
  BY <1>2, <1>18, <1>20, <1>21, <1>22, <1>23, <1>24, <1>25, Zenon DEF ProgramPlaces
<1> QED
  BY <1>5, <1>10, <1>26, PlacedLaidOut

-----------------------------------------------------------------------------
(* What the scan makes of such a disassembly.                              *)

InContext(lines, n) ==
    Guarded(lines, lines[n].function) /\ ~First(lines, n) /\ OpAt(lines, n) # "ret"

LEMMA ScanSteps ==
    ASSUME NEW lines, NEW opt, Len(lines) \in Nat
    PROVE  Scan(lines, opt) = [i \in 0 .. Len(lines) |->
               IF i = 0 THEN ScanStart
               ELSE ScanLine(Scan(lines, opt)[i - 1], lines[i], i, opt)]
<1> DEFINE Steps(h, n) == [i \in 0 .. n |->
               IF i = 0 THEN ScanStart ELSE ScanLine(h[i - 1], lines[i], i, opt)]
           G == {n \in Nat : \E h : h = Steps(h, n)}
<1>1. 0 \in G
  <2>1. [i \in 0 .. 0 |-> ScanStart] = Steps([i \in 0 .. 0 |-> ScanStart], 0)
    OBVIOUS
  <2> QED
    BY <2>1
<1>2. ASSUME NEW n \in Nat, n \in G PROVE n + 1 \in G
  <2>1. PICK h : h = Steps(h, n)
    BY <1>2
  <2> DEFINE g == [i \in 0 .. n + 1 |->
                      IF i <= n THEN h[i] ELSE ScanLine(h[n], lines[n + 1], n + 1, opt)]
  <2>2. ASSUME NEW i \in 0 .. n + 1
        PROVE  g[i] = IF i = 0 THEN ScanStart ELSE ScanLine(g[i - 1], lines[i], i, opt)
    <3>1. CASE i = n + 1
      BY <3>1
    <3>2. CASE i \in 0 .. n
      <4>1. h[i] = IF i = 0 THEN ScanStart ELSE ScanLine(h[i - 1], lines[i], i, opt)
        BY <2>1, <3>2
      <4> QED
        BY <3>2, <4>1
    <3> QED
      BY <3>1, <3>2
  <2>3. g = Steps(g, n + 1)
    BY <2>2
  <2> HIDE DEF g
  <2>4. \E f : f = Steps(f, n + 1)
    BY <2>3
  <2> QED
    BY <2>4
<1>3. \E h : h = Steps(h, Len(lines))
  BY <1>1, <1>2, AllNumbers
<1> QED
  BY <1>3 DEF Scan

States == [smoke_bomb_ctx : {0, 1}, hit_ctx : {0, 1}, patch_list : SUBSET Nat]

(* What a line does to the flags and the list.                             *)
LineEffect(before, line, n, opt, after) ==
    LET op == line.insn.op
        inside == before.smoke_bomb_ctx = 1
    IN /\ before \in States /\ after \in States
       /\ after.smoke_bomb_ctx = IF inside THEN IF NamesExit(line) THEN 0 ELSE 1
                                           ELSE IF NamesInit(line) THEN 1 ELSE 0
       /\ ~inside \/ (op # "dummy_init" /\ ~IsLdr(line)) \/ op = "ldr_sp"
             => after.hit_ctx = before.hit_ctx
       /\ inside /\ IsLdr(line) /\ op # "ldr_sp" => after.hit_ctx = 0
       /\ after.patch_list =
             IF inside /\ IsLdr(line) /\ ~(op # "ldr_sp" /\ before.hit_ctx = 1 /\ opt = 1)
             THEN before.patch_list \cup {n} ELSE before.patch_list

LEMMA ScanLineEffect ==
    ASSUME NEW s \in States, NEW line, NEW n \in Nat, NEW opt
    PROVE  LineEffect(s, line, n, opt, ScanLine(s, line, n, opt))
<1> USE DEF LineEffect
<1> DEFINE op == line.insn.op
<1>0. /\ s.smoke_bomb_ctx \in {0, 1} /\ s.hit_ctx \in {0, 1} /\ s.patch_list \subseteq Nat
      /\ s = [smoke_bomb_ctx |-> s.smoke_bomb_ctx, hit_ctx |-> s.hit_ctx,
              patch_list |-> s.patch_list]
  BY DEF States
<1>1. CASE s.smoke_bomb_ctx = 1 /\ NamesExit(line)
  <2>1. ~IsLdr(line) /\ op # "dummy_init" /\ op # "ldr_sp"
    BY <1>1 DEF NamesExit, IsLdr, Loads
  <2>2. ScanLine(s, line, n, opt) = [s EXCEPT !.smoke_bomb_ctx = 0]
    BY <1>1, <2>1 DEF ScanLine
  <2> QED
    BY <1>0, <1>1, <2>1, <2>2 DEF States
<1>2. CASE s.smoke_bomb_ctx = 0 /\ NamesInit(line)
  <2>1. ~IsLdr(line) /\ op # "dummy_init" /\ op # "ldr_sp"
    BY <1>2 DEF NamesInit, IsLdr, Loads
  <2>2. ScanLine(s, line, n, opt) = [s EXCEPT !.smoke_bomb_ctx = 1]
    BY <1>2, <2>1 DEF ScanLine
  <2> QED
    BY <1>0, <1>2, <2>1, <2>2 DEF States
<1>3. CASE s.smoke_bomb_ctx = 1 /\ op = "dummy_init"
  <2>1. ~IsLdr(line) /\ ~NamesInit(line) /\ ~NamesExit(line) /\ op # "ldr_sp"
    BY <1>3 DEF NamesInit, NamesExit, IsLdr, Loads
  <2>2. ScanLine(s, line, n, opt) = [s EXCEPT !.hit_ctx = 1]
    BY <1>3, <2>1 DEF ScanLine
  <2> QED
    BY <1>0, <1>3, <2>1, <2>2 DEF States
<1>4. CASE s.smoke_bomb_ctx = 1 /\ IsLdr(line)
  <2>1. op # "dummy_init" /\ ~NamesInit(line) /\ ~NamesExit(line)
    BY <1>4 DEF NamesInit, NamesExit, IsLdr, Loads
  <2>2. ScanLine(s, line, n, opt) = ScanLdr(s, line, n, opt)
    BY <1>4, <2>1 DEF ScanLine
  <2>3. CASE op # "ldr_sp" /\ s.hit_ctx = 1
    <3>1. CASE opt = 1
      <4>1. ScanLine(s, line, n, opt) = [s EXCEPT !.hit_ctx = 0]
        BY <2>2, <2>3, <3>1, <1>0 DEF ScanLdr
      <4> QED
        BY <1>0, <1>4, <2>1, <2>3, <3>1, <4>1 DEF States
    <3>2. CASE opt # 1
      <4>1. ScanLine(s, line, n, opt)
              = [s EXCEPT !.hit_ctx = 0, !.patch_list = s.patch_list \cup {n}]
        BY <2>2, <2>3, <3>2 DEF ScanLdr
      <4> QED
        BY <1>0, <1>4, <2>1, <2>3, <3>2, <4>1 DEF States
    <3> QED
      BY <3>1, <3>2
  <2>4. CASE ~(op # "ldr_sp" /\ s.hit_ctx = 1)
    BY <1>0, <1>4, <2>1, <2>2, <2>4 DEF States, ScanLdr
  <2> QED
    BY <2>3, <2>4
<1>5. CASE /\ ~(s.smoke_bomb_ctx = 1 /\ NamesExit(line))
           /\ ~(s.smoke_bomb_ctx = 0 /\ NamesInit(line))
           /\ ~(s.smoke_bomb_ctx = 1 /\ op = "dummy_init")
           /\ ~(s.smoke_bomb_ctx = 1 /\ IsLdr(line))
  <2>1. ScanLine(s, line, n, opt) = s
    BY <1>5 DEF ScanLine
  <2> QED
    BY <1>0, <1>5, <2>1 DEF IsLdr
<1> QED
  BY <1>1, <1>2, <1>3, <1>4, <1>5

LEMMA ScanNext ==
    ASSUME NEW lines, NEW opt, Len(lines) \in Nat, NEW n \in 1 .. Len(lines)
    PROVE  LineEffect(Scan(lines, opt)[n - 1], lines[n], n, opt, Scan(lines, opt)[n])
<1> DEFINE G == {m \in Nat : m < Len(lines) =>
                    LineEffect(Scan(lines, opt)[m], lines[m + 1], m + 1, opt,
                               Scan(lines, opt)[m + 1])}
<1>1. ASSUME NEW m \in Nat, m < Len(lines), Scan(lines, opt)[m] \in States
      PROVE  LineEffect(Scan(lines, opt)[m], lines[m + 1], m + 1, opt, Scan(lines, opt)[m + 1])
  <2>1. Scan(lines, opt)[m + 1] = ScanLine(Scan(lines, opt)[m], lines[m + 1], m + 1, opt)
    BY <1>1, ScanSteps
  <2>2. m + 1 \in Nat
    OBVIOUS
  <2>3. LineEffect(Scan(lines, opt)[m], lines[m + 1], m + 1, opt,
                   ScanLine(Scan(lines, opt)[m], lines[m + 1], m + 1, opt))
    BY <1>1, <2>2, ScanLineEffect, Zenon
  <2> QED
    BY <2>1, <2>3, Zenon
<1>2. 0 \in G
  <2>1. Scan(lines, opt)[0] = ScanStart /\ ScanStart \in States
    <3>1. 0 \in 0 .. Len(lines)
      OBVIOUS
    <3>2. Scan(lines, opt)[0] = ScanStart
      BY <3>1, ScanSteps
    <3>3. ScanStart \in States
      BY DEF ScanStart, States
    <3> QED
      BY <3>2, <3>3
  <2>2. 0 < Len(lines) =>
           LineEffect(Scan(lines, opt)[0], lines[0 + 1], 0 + 1, opt, Scan(lines, opt)[0 + 1])
    <3>1. 0 \in Nat
      OBVIOUS
    <3> QED
      BY <1>1, <2>1, <3>1, Zenon
  <2> QED
    BY <2>2
<1>3. ASSUME NEW m \in Nat, m \in G PROVE m + 1 \in G
  <2> SUFFICES ASSUME m + 1 < Len(lines)
               PROVE  LineEffect(Scan(lines, opt)[m + 1], lines[m + 1 + 1], m + 1 + 1, opt,
                                 Scan(lines, opt)[m + 1 + 1])
    OBVIOUS
  <2>1. Scan(lines, opt)[m + 1] \in States
    BY <1>3 DEF LineEffect
  <2>2. m + 1 \in Nat
    OBVIOUS
  <2> QED
    BY <1>1, <2>1, <2>2
<1> HIDE DEF G
<1>4. Nat \subseteq G
  BY <1>2, <1>3, AllNumbers
<1>5. n - 1 \in G
  BY <1>4
<1> QED
  BY <1>5 DEF G

(* The context is open between the calls of a guarded function.            *)
LEMMA ScanContext ==
    ASSUME NEW lines, NEW opt, LaidOut(lines), NEW n \in Body(lines)
    PROVE  Scan(lines, opt)[n - 1].smoke_bomb_ctx = 1 <=> InContext(lines, n)
<1> DEFINE ctx(m) == Scan(lines, opt)[m].smoke_bomb_ctx
           G == {m \in Nat : m + 1 \in Body(lines) => (ctx(m) = 1 <=> InContext(lines, m + 1))}
<1>0. /\ Len(lines) \in Nat /\ DOMAIN lines = 1 .. Len(lines)
      /\ InOrder(lines)
  <2>1. InOrder(lines)
    BY DEF LaidOut
  <2>2. lines \in Seq(Range(lines))
    BY <2>1 DEF InOrder
  <2> QED
    BY <2>1, <2>2
<1>00. PICK last \in Nat : Body(lines) = 1 .. last
  BY <1>0 DEF InOrder
<1>1. 0 \in G
  <2>1. ctx(0) = 0
    BY <1>0, ScanSteps DEF ScanStart
  <2> QED
    BY <2>1 DEF InContext, First
<1>2. ASSUME NEW m \in Nat, m \in G PROVE m + 1 \in G
  <2> SUFFICES ASSUME m + 2 \in Body(lines)
               PROVE  ctx(m + 1) = 1 <=> InContext(lines, m + 2)
    OBVIOUS
  <2>1. m + 1 \in Body(lines) /\ m + 1 \in 1 .. Len(lines) /\ m \in 0 .. Len(lines)
    BY <1>0, <1>00 DEF Body
  <2>2. LineEffect(Scan(lines, opt)[m], lines[m + 1], m + 1, opt, Scan(lines, opt)[m + 1])
    BY <1>0, <2>1, ScanNext
  <2>3. /\ ctx(m) \in {0, 1} /\ ctx(m + 1) \in {0, 1}
        /\ ctx(m + 1) = IF ctx(m) = 1 THEN IF NamesExit(lines[m + 1]) THEN 0 ELSE 1
                                      ELSE IF NamesInit(lines[m + 1]) THEN 1 ELSE 0
    BY <2>2 DEF LineEffect, States
  <2>4. ctx(m) = 1 <=> InContext(lines, m + 1)
    BY <1>2, <2>1
  <2> DEFINE op == OpAt(lines, m + 1)
             f == lines[m + 1].function
  <2>5. /\ op \notin {"init_label", "exit_label"} /\ f \in Nat
        /\ lines[m + 2].function = f <=> op # "ret"
    BY <1>0, <2>1 DEF InOrder
  <2>6. ctx(m + 1) = IF ctx(m) = 1 /\ op = "exit" THEN 0
                     ELSE IF ctx(m) = 0 /\ op = "init" THEN 1 ELSE ctx(m)
    BY <2>3, <2>5 DEF NamesInit, NamesExit, OpAt
  <2>7. First(lines, m + 2) <=> op = "ret"
    BY <2>5 DEF First
  <2>8. CASE Guarded(lines, f)
    <3>1. GuardedRight(lines, f)
      BY <2>5, <2>8 DEF LaidOut
    <3>2. /\ op = "init" <=> First(lines, m + 1)
          /\ op = "exit" => OpAt(lines, m + 2) = "ret"
          /\ op # "ret" /\ op # "exit" => OpAt(lines, m + 2) # "ret"
      BY <2>1, <2>5, <3>1 DEF GuardedRight
    <3> HIDE DEF op, f
    <3> QED
      BY <2>3, <2>4, <2>5, <2>6, <2>7, <2>8, <3>2 DEF InContext, f, op
  <2>9. CASE ~Guarded(lines, f)
    <3>1. op # "init"
      BY <2>1, <2>5, <2>9 DEF LaidOut, UnguardedRight
    <3>2. ctx(m + 1) # 1
      BY <2>3, <2>4, <2>6, <2>9, <3>1 DEF InContext
    <3> QED
      BY <2>5, <2>7, <2>9, <3>2 DEF InContext
  <2> QED
    BY <2>8, <2>9
<1> HIDE DEF G
<1>3. Nat \subseteq G
  BY <1>1, <1>2, AllNumbers
<1>4. n - 1 \in G
  BY <1>3, <1>00
<1> QED
  BY <1>4, <1>00 DEF G

LEMMA LinesOf ==
    ASSUME NEW lines, LaidOut(lines)
    PROVE  /\ Len(lines) \in Nat /\ DOMAIN lines = 1 .. Len(lines)
           /\ \E last \in 0 .. Len(lines) : Body(lines) = 1 .. last
<1>1. lines \in Seq(Range(lines)) /\ \E m \in Nat : Body(lines) = 1 .. m
  BY DEF LaidOut, InOrder
<1>2. Len(lines) \in Nat /\ DOMAIN lines = 1 .. Len(lines)
  BY <1>1
<1>3. PICK m \in Nat : Body(lines) = 1 .. m
  BY <1>1
<1>4. m = 0 \/ m \in 1 .. m
  BY <1>3
<1>5. m \in 0 .. Len(lines)
  BY <1>2, <1>3, <1>4 DEF Body
<1> QED
  BY <1>2, <1>3, <1>5

(* A load of a guarded function is in the context.                         *)
LEMMA HitInContext ==
    ASSUME LaidOut(text), NEW n \in Body(text), Hit(n)
    PROVE  InContext(text, n)
<1>1. PICK i \in DOMAIN text :
         text[i].function = text[n].function /\ OpAt(text, i) = "init"
  BY DEF Hit, OpAt
<1>2. Guarded(text, text[n].function)
  BY <1>1 DEF Guarded, Body
<1>3. text[n].function \in Nat
  BY DEF LaidOut, InOrder
<1>4. GuardedRight(text, text[n].function)
  BY <1>2, <1>3 DEF LaidOut
<1>5. OpAt(text, n) # "init" /\ OpAt(text, n) # "ret"
  BY DEF Hit, IsLdr, Loads, OpAt
<1> QED
  BY <1>2, <1>4, <1>5 DEF GuardedRight, InContext

(* The flag of a hit says that a marker waits for one.                     *)
LEMMA ScanHits ==
    ASSUME LaidOut(text), NEW opt, NEW n \in Body(text), Hit(n),
           Scan(text, opt)[n - 1].hit_ctx = 1
    PROVE  FollowsMarker(n)
<1> DEFINE inside(m) == Scan(text, opt)[m - 1].smoke_bomb_ctx = 1
           HitBy(m) == inside(m) /\ IsLdr(text[m]) /\ OpAt(text, m) # "ldr_sp"
           Waiting(m) == \E j \in 1 .. m : /\ OpAt(text, j) = "dummy_init"
                                           /\ \A k \in j + 1 .. m : ~HitBy(k)
           hit(m) == Scan(text, opt)[m].hit_ctx
           G == {m \in Nat : m <= Len(text) => hit(m) \in {0, 1} /\ (hit(m) = 1 => Waiting(m))}
<1>0. PICK last \in 0 .. Len(text) : Body(text) = 1 .. last /\ Len(text) \in Nat
  BY LinesOf
<1>1. 0 \in G
  BY <1>0, ScanSteps DEF ScanStart
<1>2. ASSUME NEW m \in Nat, m \in G PROVE m + 1 \in G
  <2> SUFFICES ASSUME m + 1 <= Len(text)
               PROVE  hit(m + 1) \in {0, 1} /\ (hit(m + 1) = 1 => Waiting(m + 1))
    OBVIOUS
  <2>1. LineEffect(Scan(text, opt)[m], text[m + 1], m + 1, opt, Scan(text, opt)[m + 1])
    <3>1. m + 1 \in 1 .. Len(text) /\ (m + 1) - 1 = m
      OBVIOUS
    <3> QED
      BY <1>0, <3>1, ScanNext
  <2>2. /\ hit(m + 1) \in {0, 1} /\ Scan(text, opt)[m].smoke_bomb_ctx \in {0, 1}
        /\ HitBy(m + 1) => hit(m + 1) = 0
        /\ \/ hit(m + 1) = hit(m) \/ HitBy(m + 1) \/ OpAt(text, m + 1) = "dummy_init"
    BY <2>1 DEF LineEffect, States, OpAt
  <2>3. hit(m) \in {0, 1} /\ (hit(m) = 1 => Waiting(m))
    BY <1>2
  <2> SUFFICES ASSUME hit(m + 1) = 1 PROVE Waiting(m + 1)
    BY <2>2
  <2>4. ~HitBy(m + 1)
    BY <2>2
  <2> HIDE DEF HitBy, hit
  <2>5. CASE OpAt(text, m + 1) = "dummy_init"
    <3>1. m + 1 \in 1 .. m + 1 /\ \A k \in (m + 1) + 1 .. m + 1 : ~HitBy(k)
      OBVIOUS
    <3> QED
      BY <2>5, <3>1
  <2>6. CASE Waiting(m)
    <3>1. PICK j \in 1 .. m : OpAt(text, j) = "dummy_init" /\ \A k \in j + 1 .. m : ~HitBy(k)
      BY <2>6
    <3>2. j \in 1 .. m + 1 /\ \A k \in j + 1 .. m + 1 : ~HitBy(k)
      BY <2>4, <3>1
    <3> QED
      BY <3>1, <3>2
  <2> QED
    BY <2>2, <2>3, <2>4, <2>5, <2>6
<1> HIDE DEF G
<1>3. Nat \subseteq G
  BY <1>1, <1>2, AllNumbers
<1>4. Waiting(n - 1)
  <2>1. n - 1 \in Nat /\ n - 1 <= Len(text)
    BY <1>0
  <2> QED
    BY <1>3, <2>1 DEF G
<1>5. PICK j \in 1 .. n - 1 : /\ OpAt(text, j) = "dummy_init"
                              /\ \A k \in j + 1 .. n - 1 : ~HitBy(k)
  BY <1>4
<1>6. ASSUME NEW k \in j + 1 .. n - 1 PROVE ~Hit(k)
  <2> SUFFICES ASSUME Hit(k) PROVE FALSE
    OBVIOUS
  <2>1. k \in Body(text)
    BY <1>0
  <2>2. inside(k)
    BY <2>1, HitInContext, ScanContext
  <2> QED
    BY <1>5, <2>2 DEF Hit, OpAt
<1> QED
  BY <1>5, <1>6 DEF FollowsMarker, OpAt

(* The list has the loads at which the context was open, but the hits.     *)
LEMMA ScanList ==
    ASSUME NEW lines, NEW opt, LaidOut(lines), NEW n \in Body(lines)
    PROVE  n \in PatchList(lines, opt) <=>
              /\ Scan(lines, opt)[n - 1].smoke_bomb_ctx = 1 /\ IsLdr(lines[n])
              /\ ~(OpAt(lines, n) # "ldr_sp" /\ Scan(lines, opt)[n - 1].hit_ctx = 1 /\ opt = 1)
<1> DEFINE list(m) == Scan(lines, opt)[m].patch_list
           Chosen(m) == /\ Scan(lines, opt)[m - 1].smoke_bomb_ctx = 1 /\ IsLdr(lines[m])
                        /\ ~(/\ OpAt(lines, m) # "ldr_sp" /\ Scan(lines, opt)[m - 1].hit_ctx = 1
                             /\ opt = 1)
           G == {m \in Nat : m <= Len(lines) => list(m) = {k \in 1 .. m : Chosen(k)}}
<1>0. PICK last \in 0 .. Len(lines) : Body(lines) = 1 .. last /\ Len(lines) \in Nat
  BY LinesOf
<1>1. 0 \in G
  BY <1>0, ScanSteps DEF ScanStart
<1>2. ASSUME NEW m \in Nat, m \in G PROVE m + 1 \in G
  <2> SUFFICES ASSUME m + 1 <= Len(lines)
               PROVE  list(m + 1) = {k \in 1 .. m + 1 : Chosen(k)}
    OBVIOUS
  <2>1. LineEffect(Scan(lines, opt)[m], lines[m + 1], m + 1, opt, Scan(lines, opt)[m + 1])
    <3>1. m + 1 \in 1 .. Len(lines) /\ (m + 1) - 1 = m
      OBVIOUS
    <3> QED
      BY <1>0, <3>1, ScanNext
  <2>2. list(m + 1) = IF Chosen(m + 1) THEN list(m) \cup {m + 1} ELSE list(m)
    BY <2>1 DEF LineEffect, OpAt
  <2>3. list(m) = {k \in 1 .. m : Chosen(k)}
    BY <1>2
  <2> HIDE DEF list, Chosen
  <2> QED
    BY <2>2, <2>3
<1> HIDE DEF G
<1>3. Nat \subseteq G
  BY <1>1, <1>2, AllNumbers
<1>4. list(Len(lines)) = {k \in 1 .. Len(lines) : Chosen(k)}
  <2>1. Len(lines) \in G
    BY <1>0, <1>3
  <2> QED
    BY <1>0, <2>1 DEF G
<1>5. n \in 1 .. Len(lines)
  BY <1>0
<1> QED
  BY <1>4, <1>5 DEF PatchList

(* The rewriter takes the loads between the calls, and leaves none that a  *)
(* converter accepts but, with -optimize, the first hit after a marker.    *)
LEMMA PatchedRight ==
    ASSUME LaidOut(text), NEW opt, NEW n \in Body(text)
    PROVE  /\ n \in Patched(text, opt) => InContext(text, n) /\ IsLdr(text[n])
           /\ InContext(text, n) /\ IsLdr(text[n]) /\ Converts(text[n]) =>
                 \/ n \in Patched(text, opt)
                 \/ opt = 1 /\ FollowsMarker(n)
<1>1. n \in PatchList(text, opt) => InContext(text, n) /\ IsLdr(text[n])
  BY ScanList, ScanContext
<1>2. ASSUME InContext(text, n), IsLdr(text[n]), n \notin PatchList(text, opt)
      PROVE  opt = 1 /\ FollowsMarker(n)
  <2>1. /\ OpAt(text, n) # "ldr_sp" /\ Scan(text, opt)[n - 1].hit_ctx = 1 /\ opt = 1
    BY <1>2, ScanList, ScanContext
  <2>2. Hit(n)
    BY <1>2, <2>1 DEF Hit, InContext, Guarded, OpAt, Body
  <2> QED
    BY <2>1, <2>2, ScanHits
<1> QED
  BY <1>1, <1>2 DEF Patched

-----------------------------------------------------------------------------
(* The program runs.                                                       *)

LEMMA BlockStartFirst ==
    ASSUME NEW lines, LaidOut(lines), NEW n \in Body(lines)
    PROVE  LET start == BlockStart(lines, lines[n].function, lines[n].block)
           IN /\ start \in Body(lines) /\ start <= n
              /\ lines[start].function = lines[n].function
              /\ lines[start].block = lines[n].block
              /\ \A m \in Body(lines) :
                    lines[m].function = lines[n].function /\ lines[m].block = lines[n].block
                       => start <= m
<1> DEFINE f == lines[n].function
           b == lines[n].block
           I == {m \in 1 .. Len(lines) : lines[m].function = f /\ lines[m].block = b}
<1>1. Len(lines) \in Nat /\ DOMAIN lines = 1 .. Len(lines) /\ n \in 1 .. Len(lines) /\ f # 0
  BY LinesOf DEF Body
<1>2. n \in I /\ I \in SUBSET Nat
  BY <1>1
<1>3. \E x \in I : \A y \in I : x <= y
  BY <1>2, LeastOf
<1>4. Min(I) \in I /\ \A y \in I : Min(I) <= y
  BY <1>3 DEF Min
<1>5. BlockStart(lines, f, b) = Min(I)
  <2>1. BlockStart(lines, f, b) = IF I # {} THEN Min(I) ELSE 0
    BY SMTT(20) DEF BlockStart, SelectInSeq
  <2> QED
    BY <1>2, <2>1
<1> HIDE DEF I
<1>6. Min(I) \in Body(lines) /\ lines[Min(I)].function = f /\ lines[Min(I)].block = b
  BY <1>1, <1>4 DEF I, Body
<1>7. ASSUME NEW m \in Body(lines), lines[m].function = f, lines[m].block = b PROVE Min(I) <= m
  BY <1>1, <1>4, <1>7 DEF I, Body
<1> QED
  BY <1>5, <1>6, <1>7


(* The variable that the function names is registered.                     *)
OpenFor(f) == section # NoVariable /\ Guarded(text, f) /\ Opens(text, f, section)

(* A section is open from the call of init to that of exit; the program    *)
(* may come back to the call of init with its section open.                *)
RunInv ==
    /\ LaidOut(text)
    /\ patched = Patched(text, optimize)
    /\ at = 0 => section = NoVariable
    /\ at # 0 => /\ at \in Body(text)
                 /\ \/ section = NoVariable /\ ~InContext(text, at)
                    \/ OpenFor(text[at].function) /\ Op # "ret"

LEMMA RunInit == Init => RunInv
<1> SUFFICES ASSUME Init PROVE RunInv
  OBVIOUS
<1>1. PICK program \in Programs : text = Disassembly(program)
  BY DEF Init
<1>2. ClangProgram(program)
  BY InstrumentationAssumption DEF Init
<1>3. LaidOut(text)
  BY <1>1, <1>2, DisassemblyLaidOut
<1> QED
  BY <1>3 DEF Init, RunInv

(* The next line of a function, and what it is not.                        *)
LEMMA NextLine ==
    ASSUME RunInv, at # 0, Op # "ret"
    PROVE  /\ at \in Body(text) /\ at + 1 \in Body(text)
           /\ text[at + 1].function = text[at].function
           /\ text[at].function \in Nat
           /\ Guarded(text, text[at].function) =>
                 /\ GuardedRight(text, text[at].function)
                 /\ OpAt(text, at + 1) = "ret" => Op = "exit"
<1> DEFINE f == text[at].function
<1>1. at \in Body(text) /\ InOrder(text)
  BY DEF RunInv, LaidOut
<1>2. at + 1 \in DOMAIN text /\ text[at + 1].function = f /\ f # 0 /\ f \in Nat
  BY <1>1 DEF InOrder, OpAt, Op, Body
<1>3. at + 1 \in Body(text)
  BY <1>2 DEF Body
<1>4. Guarded(text, f) => GuardedRight(text, f)
  BY <1>2 DEF RunInv, LaidOut
<1>5. at \in Nat
  BY <1>1, LinesOf DEF RunInv
<1>6. ASSUME Guarded(text, f), OpAt(text, at + 1) = "ret" PROVE Op = "exit"
  <2>1. OpAt(text, at + 1) = "ret" => OpAt(text, (at + 1) - 1) = "exit"
    BY <1>2, <1>3, <1>4, <1>6 DEF GuardedRight
  <2> QED
    BY <1>5, <1>6, <2>1 DEF Op, OpAt
<1> QED
  BY <1>1, <1>2, <1>3, <1>4, <1>6

LEMMA CallStep ==
    ASSUME RunInv, NEW f \in Functions, Call(f)
    PROVE  RunInv'
<1>1. PICK n \in DOMAIN text : text[n].function = f /\ f # 0
  BY DEF Functions
<1>2. PICK last \in 0 .. Len(text) : Body(text) = 1 .. last
  BY LinesOf DEF RunInv
<1>3. n \in {m \in Body(text) : text[m].function = f}
  BY <1>1 DEF Body
<1>4. {m \in Body(text) : text[m].function = f} \in SUBSET Nat
  BY <1>2
<1>5. PICK first \in {m \in Body(text) : text[m].function = f} :
         \A m \in {k \in Body(text) : text[k].function = f} : first <= m
  <2> HIDE DEF Functions
  <2> QED
    BY <1>3, <1>4, LeastOf
<1>6. First(text, first)
  <2>1. first = 1 \/ (first - 1 \in Body(text) /\ ~(first <= first - 1))
    BY <1>2
  <2> QED
    BY <1>5, <2>1 DEF First
<1>7. text[first].block = 1
  BY <1>5, <1>6 DEF RunInv, LaidOut, InOrder
<1>8. /\ at' \in Body(text) /\ at' <= first /\ text[at'].function = f
  BY <1>5, <1>7, BlockStartFirst DEF Call, RunInv
<1>9. at' = first
  BY <1>2, <1>5, <1>8
<1>10. at' # 0
  BY <1>2, <1>8
<1> QED
  BY <1>6, <1>8, <1>9, <1>10 DEF Call, RunInv, InContext, OpenFor

LEMMA InitStep == ASSUME RunInv, CallSmokeBombInit PROVE RunInv'
<1>1. at # 0 /\ Op = "init" /\ Op # "ret" /\ Op # "exit" /\ at' = at + 1
      /\ UNCHANGED <<text, patched, optimize>>
  BY DEF CallSmokeBombInit
<1>0. PICK f : f = text[at].function
  OBVIOUS
<1>2. /\ at \in Body(text) /\ at + 1 \in Body(text) /\ text[at + 1].function = f
      /\ Guarded(text, f) => /\ GuardedRight(text, f) /\ OpAt(text, at + 1) # "ret"
  BY <1>0, <1>1, NextLine
<1>3. Guarded(text, f)
  BY <1>0, <1>1, <1>2 DEF Guarded, Op, OpAt
<1>4. PICK v : v # NoVariable /\ Opens(text, f, v)
  BY <1>2, <1>3 DEF GuardedRight
<1>5. text[at].insn.var = v
  BY <1>0, <1>1, <1>2, <1>4 DEF Opens, Op, OpAt
<1>6. section' = v
  <2>1. CASE section = NoVariable
    BY <1>5, <2>1 DEF CallSmokeBombInit
  <2>2. CASE section # NoVariable
    <3>1. OpenFor(f)
      BY <1>0, <1>1, <2>2 DEF RunInv
    <3>2. text[at].insn.var = section
      BY <1>0, <1>1, <1>2, <3>1 DEF OpenFor, Opens, Op, OpAt
    <3> QED
      BY <1>5, <2>2, <3>2 DEF CallSmokeBombInit
  <2> QED
    BY <2>1, <2>2
<1>7. at' # 0 /\ at' \in Body(text)
  BY <1>1, <1>2, LinesOf DEF RunInv
<1>8. OpenFor(f)'
  BY <1>1, <1>3, <1>4, <1>6 DEF OpenFor, Opens
<1> QED
  BY <1>0, <1>1, <1>2, <1>3, <1>7, <1>8 DEF RunInv, Op, OpAt

LEMMA ExitStep == ASSUME RunInv, CallSmokeBombExit PROVE RunInv'
<1>1. at # 0 /\ Op = "exit" /\ Op # "ret" /\ at' = at + 1 /\ section' = NoVariable
      /\ UNCHANGED <<text, patched, optimize>>
  BY DEF CallSmokeBombExit
<1> DEFINE f == text[at].function
<1>2. /\ at \in Body(text) /\ at + 1 \in Body(text) /\ text[at + 1].function = f /\ f \in Nat
      /\ Guarded(text, f) => GuardedRight(text, f)
  BY <1>1, NextLine
<1>3. Guarded(text, f)
  BY <1>1, <1>2 DEF RunInv, LaidOut, UnguardedRight, Op, OpAt
<1>4. OpAt(text, at + 1) = "ret"
  BY <1>1, <1>2, <1>3 DEF GuardedRight, Op, OpAt
<1> QED
  BY <1>1, <1>2, <1>4 DEF RunInv, InContext, OpAt

(* Outside a section and past the call of init, the function has none.     *)
LEMMA Unregistered ==
    ASSUME RunInv, at # 0, section = NoVariable, Op # "ret", Op # "init"
    PROVE  ~Guarded(text, text[at].function)
<1>1. /\ at \in Body(text)
      /\ Guarded(text, text[at].function) => GuardedRight(text, text[at].function)
  BY NextLine
<1>2. ~InContext(text, at)
  BY DEF RunInv, OpenFor
<1> QED
  BY <1>1, <1>2 DEF InContext, GuardedRight, Op, OpAt

LEMMA ExecuteStep == ASSUME RunInv, Execute PROVE RunInv'
<1>1. at # 0 /\ Op \notin {"init", "exit", "ret"} /\ at' = at + 1
      /\ UNCHANGED <<text, patched, optimize, section>>
  BY DEF Execute
<1>0. PICK f : f = text[at].function
  OBVIOUS
<1>2. /\ at \in Body(text) /\ at + 1 \in Body(text) /\ text[at + 1].function = f
      /\ Guarded(text, f) => OpAt(text, at + 1) # "ret"
  BY <1>0, <1>1, NextLine
<1>3. at' # 0
  BY <1>1, <1>2, LinesOf DEF RunInv
<1>4. CASE section = NoVariable
  <2>1. ~Guarded(text, f)
    BY <1>0, <1>1, <1>4, Unregistered
  <2> QED
    BY <1>1, <1>2, <1>4, <2>1 DEF RunInv, InContext
<1>5. CASE section # NoVariable
  <2>1. OpenFor(f)
    BY <1>0, <1>1, <1>5 DEF RunInv
  <2>2. OpenFor(f)'
    BY <1>1, <2>1 DEF OpenFor, Opens
  <2> QED
    BY <1>1, <1>2, <1>3, <2>1, <2>2 DEF RunInv, OpenFor, Op, OpAt
<1> QED
  BY <1>4, <1>5

LEMMA BranchStep == ASSUME RunInv, Branch PROVE RunInv'
<1>1. at # 0 /\ Op \notin {"init", "exit", "ret"}
      /\ UNCHANGED <<text, patched, optimize, section>>
  BY DEF Branch
<1> DEFINE f == text[at].function
<1>2. /\ at \in Body(text) /\ f # 0
      /\ Guarded(text, f) => GuardedRight(text, f)
  BY <1>1, NextLine DEF Body
<1>3. PICK n \in Body(text) : text[n].function = f /\ at' = BlockStart(text, f, text[n].block)
  BY <1>2 DEF Branch, Blocks, Body
<1>4. /\ at' \in Body(text) /\ text[at'].function = f /\ text[at'].block = text[n].block
      /\ \A m \in Body(text) :
            text[m].function = f /\ text[m].block = text[n].block => at' <= m
  BY <1>3, BlockStartFirst DEF RunInv
<1>5. PICK last \in 0 .. Len(text) : Body(text) = 1 .. last
  BY LinesOf DEF RunInv
<1>6. CASE section = NoVariable
  <2>1. ~Guarded(text, f)
    BY <1>1, <1>6, Unregistered
  <2> QED
    BY <1>1, <1>4, <1>6, <2>1 DEF RunInv, InContext
<1>7. CASE section # NoVariable
  <2>1. OpenFor(f)
    BY <1>1, <1>7 DEF RunInv
  <2>2. OpAt(text, at') # "ret"
    <3> SUFFICES ASSUME OpAt(text, at') = "ret" PROVE FALSE
      OBVIOUS
    <3>1. ~First(text, at') /\ text[at' - 1].block = text[at'].block
      BY <1>2, <1>4, <2>1 DEF OpenFor, GuardedRight
    <3>2. at' - 1 \in Body(text) /\ text[at' - 1].function = f
      BY <1>4, <1>5, <3>1 DEF First
    <3>3. at' <= at' - 1
      BY <1>4, <3>1, <3>2
    <3> QED
      BY <1>4, <1>5, <3>3
  <2> QED
    BY <1>1, <1>4, <1>5, <1>7, <2>1, <2>2 DEF RunInv, OpenFor, Op, OpAt
<1> QED
  BY <1>6, <1>7

LEMMA RetStep == ASSUME RunInv, Ret PROVE RunInv'
BY DEF RunInv, Ret, OpenFor

LEMMA RunStep == ASSUME RunInv, [Next]_vars PROVE RunInv'
<1>1. CASE UNCHANGED vars
  BY <1>1 DEF vars, RunInv, OpenFor, Opens, Op
<1> QED
  BY <1>1, CallStep, InitStep, ExitStep, ExecuteStep, BranchStep, RetStep DEF Next

LEMMA RunInductive == Spec => []RunInv
<1>1. RunInv /\ [Next]_vars => RunInv'
  BY RunStep
<1> QED
  BY RunInit, <1>1, PTL DEF Spec

-----------------------------------------------------------------------------
(* Theorems.                                                               *)

(* Wherever an annotated variable is used, the one that the function uses  *)
(* first is registered, on every path: init is the first instruction of    *)
(* the function and names it, exit comes before the return only            *)
(* (test.cpp:100-124, 270-273, 388-396).                                   *)
THEOREM AccessInSectionHolds == Spec => []AccessInSection
<1>1. ASSUME RunInv PROVE AccessInSection
  <2> SUFFICES ASSUME at # 0, Op \in {"access", "load", "store"}
               PROVE  \E n \in DOMAIN text : /\ text[n].function = text[at].function
                                            /\ FirstUse(n)
                                            /\ section = text[n].insn.var
    BY DEF AccessInSection
  <2>1. at \in Body(text) /\ text[at].function \in Nat
    BY <1>1, NextLine
  <2>2. Guarded(text, text[at].function)
    BY <1>1, <2>1 DEF RunInv, LaidOut, UnguardedRight, Op, OpAt
  <2>3. OpenFor(text[at].function)
    BY <1>1, <2>2, Unregistered DEF RunInv
  <2>4. PICK n \in Body(text) :
           /\ text[n].function = text[at].function
           /\ IsAnnotated(text[n].insn) /\ text[n].insn.var = section
           /\ \A p \in Body(text) :
                 text[p].function = text[at].function /\ p < n => ~IsAnnotated(text[p].insn)
    BY <2>3 DEF OpenFor, Opens
  <2>5. PICK last \in 0 .. Len(text) : Body(text) = 1 .. last
    BY <1>1, LinesOf DEF RunInv
  <2>6. n \in DOMAIN text /\ \A m \in 1 .. n - 1 : m \in Body(text) /\ m < n
    BY <2>5 DEF Body
  <2> QED
    BY <2>4, <2>6 DEF FirstUse
<1> QED
  BY <1>1, RunInductive, PTL

(* A function that opened a section has closed it when it returns: the     *)
(* last block, where exit was inserted, is the only one that returns       *)
(* (test.cpp:126-159).                                                     *)
THEOREM SectionClosedHolds == Spec => []SectionClosed
<1>1. RunInv => SectionClosed
  BY DEF RunInv, SectionClosed
<1> QED
  BY <1>1, RunInductive, PTL

(* A load that runs inside a section and that a converter takes has been   *)
(* rewritten, but for the first hit after a marker under -optimize:        *)
(* between init and exit the scan is in its context, and its second flag   *)
(* is raised by a marker and lowered by a hit only (rewriter.py:35-78,     *)
(* 145-153).                                                               *)
THEOREM SectionRewrittenHolds == Spec => []SectionRewritten
<1>1. ASSUME RunInv PROVE SectionRewritten
  <2> SUFFICES ASSUME at # 0, Op \in Loads, section # NoVariable,
                      text[at].insn.form = "ldr32"
               PROVE  at \in patched \/ (optimize = 1 /\ FollowsMarker(at))
    BY DEF SectionRewritten
  <2>0. Op # "ret" /\ Op # "init" /\ IsLdr(text[at]) /\ Converts(text[at])
    BY DEF IsLdr, Converts, Loads, Op
  <2>1. /\ at \in Body(text) /\ OpenFor(text[at].function)
        /\ Guarded(text, text[at].function) => GuardedRight(text, text[at].function)
    BY <1>1, <2>0, NextLine DEF RunInv
  <2>2. InContext(text, at)
    BY <2>0, <2>1 DEF OpenFor, InContext, GuardedRight, Op, OpAt
  <2> QED
    BY <1>1, <2>0, <2>1, <2>2, PatchedRight DEF RunInv
<1> QED
  BY <1>1, RunInductive, PTL

(* A load that runs outside a section is the original one: the scan leaves *)
(* its context at the call of exit, before the text of the next function   *)
(* (rewriter.py:35-43).                                                    *)
THEOREM OutsideOriginalHolds == Spec => []OutsideOriginal
<1>1. ASSUME RunInv PROVE OutsideOriginal
  <2> SUFFICES ASSUME at # 0, section = NoVariable PROVE at \notin patched
    BY DEF OutsideOriginal
  <2>1. at \in Body(text) /\ ~InContext(text, at)
    BY <1>1 DEF RunInv, OpenFor
  <2> QED
    BY <1>1, <2>1, PatchedRight DEF RunInv
<1> QED
  BY <1>1, RunInductive, PTL
=============================================================================
