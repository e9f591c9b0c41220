--------------------------- MODULE SmokeBombLkmProofs ---------------------------
(***************************************************************************)
(* Theorems about the kernel module, for every set of tasks, requests,     *)
(* pages and frames and every cache geometry GeometryAssumption admits.    *)
(***************************************************************************)
EXTENDS SmokeBombLkm, TLAPS

-----------------------------------------------------------------------------
(* Set numbers and addresses of lines.                                     *)

LEMMA DivNat == ASSUME NEW a \in Nat, NEW b \in Nat \ {0}
                PROVE  a \div b \in Nat
BY SMT

LEMMA ModNat == ASSUME NEW a \in Int, NEW b \in Nat \ {0}
                PROVE  a % b \in 0 .. (b - 1)
BY SMT

(* A set number is an index into a row of the tables.                      *)
LEMMA SetIdxInRow ==
    ASSUME NEW addr \in Nat
    PROVE  /\ L1SetIdx(addr) \in 0 .. (SDATA_LINES - 1)
           /\ L2SetIdx(addr) \in 0 .. (SDATA_LINES - 1)
<1>1. /\ IndexRange(l1_sets) = l1_sets /\ l1_sets \in Nat \ {0}
      /\ IndexRange(l2_sets) = l2_sets /\ l2_sets \in Nat \ {0}
  BY GeometryAssumption DEF IndexRange, Powers
<1>2. addr \div CACHE_LINE_SIZE \in Int
  BY DivNat, GeometryAssumption, SMT
<1>3. /\ (addr \div CACHE_LINE_SIZE) % l1_sets \in 0 .. (l1_sets - 1)
      /\ (addr \div CACHE_LINE_SIZE) % l2_sets \in 0 .. (l2_sets - 1)
  BY <1>1, <1>2, ModNat, Zenon
<1> QED
  BY <1>1, <1>3, GeometryAssumption DEF L1SetIdx, L2SetIdx, SetIdx

LEMMA LineOfNat == ASSUME NEW a \in Nat
                   PROVE  LineOf(a) \in Nat
<1>1. a \div CACHE_LINE_SIZE \in Nat
  BY DivNat, GeometryAssumption
<1> QED
  BY <1>1, GeometryAssumption DEF LineOf

LEMMA LineOfPositive ==
    ASSUME NEW a \in Nat, a >= CACHE_LINE_SIZE
    PROVE  LineOf(a) # 0
<1>1. CACHE_LINE_SIZE \in Nat \ {0}
  BY GeometryAssumption
<1>2. a \div CACHE_LINE_SIZE # 0
  BY <1>1
<1>3. a \div CACHE_LINE_SIZE \in Nat
  BY DivNat, <1>1
<1> DEFINE d == a \div CACHE_LINE_SIZE
<1>4. d * CACHE_LINE_SIZE # 0
  <2> HIDE DEF d
  <2>1. ASSUME NEW n \in Nat \ {0}, NEW m \in Nat \ {0} PROVE n * m # 0
    BY SMT
  <2>2. d \in Nat \ {0}
    BY <1>2, <1>3 DEF d
  <2> QED
    BY <1>1, <2>1, <2>2
<1> QED
  BY <1>4 DEF LineOf

(* Adding a multiple of a power does not change the remainder by it.       *)
LEMMA ModAddMultiple ==
    ASSUME NEW n \in Powers, NEW x \in Nat, NEW r \in Nat
    PROVE  (n * x + r) % n = r % n
BY SMTT(60) DEF Powers

LEMMA PowerDivides ==
    ASSUME NEW n \in Powers, NEW m \in Powers, n <= m
    PROVE  \E k \in Nat : m = n * k
BY SMTT(60) DEF Powers

(* Addresses that agree in their L2 set number agree in their L1 set      *)
(* number: a handler that found an entry by L2 set may flush the L1 set   *)
(* of the address it came with.                                           *)
THEOREM SameL2SameL1 ==
    ASSUME NEW a \in Nat, NEW b \in Nat, L2SetIdx(a) = L2SetIdx(b)
    PROVE  L1SetIdx(a) = L1SetIdx(b)
<1> DEFINE qa == a \div CACHE_LINE_SIZE
           qb == b \div CACHE_LINE_SIZE
<1>1. /\ l1_sets \in Nat \ {0} /\ l2_sets \in Nat \ {0}
      /\ L1SetIdx(a) = qa % l1_sets /\ L1SetIdx(b) = qb % l1_sets
      /\ L2SetIdx(a) = qa % l2_sets /\ L2SetIdx(b) = qb % l2_sets
  BY GeometryAssumption DEF L1SetIdx, L2SetIdx, SetIdx, IndexRange, Powers
<1>2. qa \in Nat /\ qb \in Nat
  BY DivNat, GeometryAssumption
<1> HIDE DEF qa, qb
<1>3. PICK k \in Nat : l2_sets = l1_sets * k
  BY PowerDivides, GeometryAssumption
<1>4. ASSUME NEW q \in Nat
      PROVE  q % l1_sets = (q % l2_sets) % l1_sets
  <2>1. q = l2_sets * (q \div l2_sets) + (q % l2_sets)
    BY <1>1
  <2>2. q \div l2_sets \in Nat /\ q % l2_sets \in Nat
    <3>1. l2_sets \in Nat \ {0} /\ q \in Int
      BY <1>1
    <3>2. q % l2_sets \in 0 .. (l2_sets - 1)
      BY <3>1, ModNat, Zenon
    <3> QED
      BY <3>1, <3>2, DivNat
  <2> DEFINE d == q \div l2_sets
             r == q % l2_sets
  <2>3. d \in Nat /\ r \in Nat
    BY <2>2
  <2>4. q = l2_sets * d + r
    BY <2>1
  <2> HIDE DEF d, r
  <2>5. k * d \in Nat /\ l2_sets * d = l1_sets * (k * d)
    BY <1>1, <1>3, <2>3
  <2>6. (l1_sets * (k * d) + r) % l1_sets = r % l1_sets
    BY ModAddMultiple, GeometryAssumption, <2>3, <2>5
  <2> QED
    BY <2>4, <2>5, <2>6 DEF r
<1> QED
  BY <1>1, <1>2, <1>4

-----------------------------------------------------------------------------
(* Line addresses are the multiples of the line size.                      *)

LEMMA LineMultiple ==
    ASSUME NEW a \in Nat
    PROVE  (a % CACHE_LINE_SIZE) = 0 <=> \E k \in Nat : a = CACHE_LINE_SIZE * k
<1> DEFINE d == a \div CACHE_LINE_SIZE
           r == a % CACHE_LINE_SIZE
<1>1. CACHE_LINE_SIZE \in Nat \ {0} /\ a \in Int
  BY GeometryAssumption
<1>2. d \in Nat
  BY <1>1, DivNat
<1>3. r \in 0 .. (CACHE_LINE_SIZE - 1)
  BY <1>1, ModNat, Zenon
<1>4. a = CACHE_LINE_SIZE * d + r
  BY <1>1
<1> HIDE DEF d, r
<1>5. ASSUME r = 0 PROVE \E k \in Nat : a = CACHE_LINE_SIZE * k
  BY <1>1, <1>2, <1>4, <1>5
<1>6. ASSUME NEW k \in Nat, a = CACHE_LINE_SIZE * k PROVE r = 0
  <2>1. CASE k > d
    <3>1. PICK e \in Nat : k = d + 1 + e
      <4>1. k - d - 1 \in Nat /\ k = d + 1 + (k - d - 1)
        BY <1>2, <2>1
      <4> QED
        BY <4>1
    <3>2. CACHE_LINE_SIZE * k = CACHE_LINE_SIZE * d + CACHE_LINE_SIZE + CACHE_LINE_SIZE * e
      BY <1>1, <1>2, <3>1
    <3>3. CACHE_LINE_SIZE * e \in Nat /\ CACHE_LINE_SIZE * d \in Nat
      BY <1>1, <1>2
    <3> QED
      BY <1>1, <1>3, <1>4, <1>6, <3>2, <3>3
  <2>2. CASE k <= d
    <3>1. PICK e \in Nat : d = k + e
      <4>1. d - k \in Nat /\ d = k + (d - k)
        BY <1>2, <2>2
      <4> QED
        BY <4>1
    <3>2. CACHE_LINE_SIZE * d = CACHE_LINE_SIZE * k + CACHE_LINE_SIZE * e
      BY <1>1, <1>2, <3>1
    <3>3. CACHE_LINE_SIZE * e \in Nat /\ CACHE_LINE_SIZE * k \in Nat
      BY <1>1
    <3> QED
      BY <1>1, <1>3, <1>4, <1>6, <3>2, <3>3
  <2> QED
    BY <1>2, <2>1, <2>2
<1> QED
  BY <1>5, <1>6 DEF r

LEMMA LineOfAligned ==
    ASSUME NEW a \in Nat
    PROVE  (LineOf(a) % CACHE_LINE_SIZE) = 0
<1>1. a \div CACHE_LINE_SIZE \in Nat /\ CACHE_LINE_SIZE \in Nat
  BY DivNat, GeometryAssumption
<1> DEFINE k == a \div CACHE_LINE_SIZE
<1>2. LineOf(a) = k * CACHE_LINE_SIZE
  BY DEF LineOf
<1>3. k \in Nat
  BY <1>1
<1> HIDE DEF k
<1>4. LineOf(a) = CACHE_LINE_SIZE * k
  BY <1>1, <1>2, <1>3
<1> QED
  BY <1>3, <1>4, LineMultiple, LineOfNat

(* Stepping by a line from a line reaches every line on the way.           *)
LEMMA NextLine ==
    ASSUME NEW a \in Nat, (a % CACHE_LINE_SIZE) = 0
    PROVE  /\ ((a + CACHE_LINE_SIZE) % CACHE_LINE_SIZE) = 0
           /\ \A b \in Nat : (b % CACHE_LINE_SIZE) = 0 /\ b < a + CACHE_LINE_SIZE => b <= a
<1>1. CACHE_LINE_SIZE \in Nat \ {0}
  BY GeometryAssumption
<1>2. PICK k \in Nat : a = CACHE_LINE_SIZE * k
  BY LineMultiple
<1>3. a + CACHE_LINE_SIZE = CACHE_LINE_SIZE * (k + 1)
  BY <1>1, <1>2
<1>4. ((a + CACHE_LINE_SIZE) % CACHE_LINE_SIZE) = 0
  <2>1. a + CACHE_LINE_SIZE \in Nat /\ k + 1 \in Nat
    BY <1>1
  <2> QED
    BY <1>3, <2>1, LineMultiple
<1>5. ASSUME NEW b \in Nat, (b % CACHE_LINE_SIZE) = 0, b < a + CACHE_LINE_SIZE
      PROVE  b <= a
  <2>1. PICK j \in Nat : b = CACHE_LINE_SIZE * j
    BY <1>5, LineMultiple
  <2>2. CASE j <= k
    <3>1. PICK e \in Nat : k = j + e
      <4>1. k - j \in Nat /\ k = j + (k - j)
        BY <2>2
      <4> QED
        BY <4>1
    <3>2. a = b + CACHE_LINE_SIZE * e /\ CACHE_LINE_SIZE * e \in Nat
      BY <1>1, <1>2, <2>1, <3>1
    <3> QED
      BY <3>2
  <2>3. CASE j > k
    <3>1. PICK e \in Nat : j = (k + 1) + e
      <4>1. j - (k + 1) \in Nat /\ j = (k + 1) + (j - (k + 1))
        BY <2>3
      <4> QED
        BY <4>1
    <3>2. b = (a + CACHE_LINE_SIZE) + CACHE_LINE_SIZE * e /\ CACHE_LINE_SIZE * e \in Nat
      BY <1>1, <1>2, <2>1, <3>1
    <3> QED
      BY <1>1, <1>5, <3>2
  <2> QED
    BY <2>2, <2>3
<1> QED
  BY <1>4, <1>5

LEMMA DivMultiple ==
    ASSUME NEW n \in Nat \ {0}, NEW q \in Nat
    PROVE  (n * q) \div n = q
<1> DEFINE a == n * q
           d == a \div n
           r == a % n
<1>1. a \in Nat
  OBVIOUS
<1> HIDE DEF a
<1>2. d \in Nat
  BY <1>1, DivNat
<1>3. r \in 0 .. (n - 1)
  <2>1. a \in Int
    BY <1>1
  <2> QED
    BY <2>1, ModNat, Zenon
<1>4. a = n * d + r
  BY <1>1
<1>5. a = n * q
  BY DEF a
<1> HIDE DEF d, r
<1>6. ASSUME d < q PROVE FALSE
  <2>1. PICK e \in Nat : q = d + 1 + e
    <3>1. q - d - 1 \in Nat /\ q = d + 1 + (q - d - 1)
      BY <1>2, <1>6
    <3> QED
      BY <3>1
  <2>2. n * q = n * d + n + n * e
    BY <1>2, <2>1
  <2>3. n * e \in Nat /\ n * d \in Nat
    BY <1>2, <2>1
  <2> QED
    BY <1>3, <1>4, <1>5, <2>2, <2>3
<1>7. ASSUME d > q PROVE FALSE
  <2>1. PICK e \in Nat : d = q + 1 + e
    <3>1. d - q - 1 \in Nat /\ d = q + 1 + (d - q - 1)
      BY <1>2, <1>7
    <3> QED
      BY <3>1
  <2>2. n * d = n * q + n + n * e
    BY <1>2, <2>1
  <2>3. n * e \in Nat /\ n * q \in Nat
    BY <2>1
  <2> QED
    BY <1>3, <1>4, <1>5, <2>2, <2>3
<1> QED
  BY <1>2, <1>6, <1>7 DEF d, a

-----------------------------------------------------------------------------
(* The sets of the lines that follow a line.                               *)

LEMMA SetOfLater ==
    ASSUME NEW p \in Nat, NEW k \in Nat
    PROVE  /\ L1SetIdx(CACHE_LINE_SIZE * p) = p % l1_sets
           /\ L1SetIdx(CACHE_LINE_SIZE * (p + k))
                 = (L1SetIdx(CACHE_LINE_SIZE * p) + k) % l1_sets
<1>1. CACHE_LINE_SIZE \in Nat \ {0} /\ l1_sets \in Powers /\ l1_sets \in Nat \ {0}
  BY GeometryAssumption DEF Powers
<1>2. \A q \in Nat : L1SetIdx(CACHE_LINE_SIZE * q) = q % l1_sets
  BY <1>1, DivMultiple DEF L1SetIdx, SetIdx, IndexRange
<1> DEFINE d == p \div l1_sets
           r == p % l1_sets
<1>3. d \in Nat
  BY <1>1, DivNat
<1>4. r \in 0 .. (l1_sets - 1)
  <2>1. p \in Int
    OBVIOUS
  <2> QED
    BY <1>1, <2>1, ModNat, Zenon
<1>5. p = l1_sets * d + r
  BY <1>1
<1> HIDE DEF d, r
<1>6. r \in Nat /\ r + k \in Nat /\ p + k \in Nat /\ l1_sets * d \in Nat
  BY <1>1, <1>3, <1>4
<1>7. p + k = l1_sets * d + (r + k)
  BY <1>5, <1>6
<1>8. (p + k) % l1_sets = (r + k) % l1_sets
  BY <1>1, <1>3, <1>6, <1>7, ModAddMultiple
<1> QED
  BY <1>2, <1>6, <1>8 DEF r

(* Fewer lines apart than there are sets, two lines are in different sets. *)
LEMMA SetsApart ==
    ASSUME NEW p \in Nat, NEW k \in Nat, 0 < k, k < l1_sets
    PROVE  L1SetIdx(CACHE_LINE_SIZE * (p + k)) # L1SetIdx(CACHE_LINE_SIZE * p)
<1>1. l1_sets \in Powers /\ l1_sets \in Nat \ {0} /\ p \in Int
  BY GeometryAssumption DEF Powers
<1> DEFINE r == p % l1_sets
<1>2. r \in 0 .. (l1_sets - 1)
  BY <1>1, ModNat, Zenon
<1>3. /\ L1SetIdx(CACHE_LINE_SIZE * p) = r
      /\ L1SetIdx(CACHE_LINE_SIZE * (p + k)) = (r + k) % l1_sets
  BY SetOfLater
<1> HIDE DEF r
<1>4. CASE r + k < l1_sets
  <2>1. (r + k) % l1_sets = r + k
    BY <1>1, <1>2, <1>4
  <2> QED
    BY <1>2, <1>3, <2>1
<1>5. CASE r + k >= l1_sets
  <2>1. PICK z \in Nat : r + k = l1_sets * 1 + z /\ z < l1_sets /\ z < r
    <3>1. r + k - l1_sets \in Nat
      BY <1>1, <1>2, <1>5
    <3> QED
      BY <1>1, <1>2, <3>1
  <2>2. (l1_sets * 1 + z) % l1_sets = z % l1_sets
    BY <1>1, ModAddMultiple
  <2>3. z % l1_sets = z
    BY <1>1, <2>1
  <2> QED
    BY <1>2, <1>3, <2>1, <2>2, <2>3
<1> QED
  BY <1>1, <1>2, <1>4, <1>5

-----------------------------------------------------------------------------
(* Typing of the helpers.                                                  *)

LEMMA SlotOfTask == ASSUME NEW t \in Tasks
                    PROVE  get_pid_idx(t) \in Slots
<1>1. t \in Int /\ SB_MAX_PID \in Nat \ {0}
  BY LkmAssumption
<1>2. t % SB_MAX_PID \in 0 .. (SB_MAX_PID - 1)
  BY <1>1, ModNat, Zenon
<1> QED
  BY <1>2 DEF get_pid_idx, Slots

LEMMA PaNat ==
    ASSUME TypeOK, NEW t \in Tasks, NEW va \in Nat, Mapped(t, va)
    PROVE  Pa(t, va) \in Nat
<1>1. PAGE_SIZE \in Nat \ {0} /\ va \in Int
  BY LkmAssumption
<1>2. va % PAGE_SIZE \in 0 .. (PAGE_SIZE - 1)
  BY <1>1, ModNat, Zenon
<1>3. frame[t][PageOf(va)] \in Nat
  <2>1. Frames \subseteq Nat
    BY LkmAssumption
  <2>2. PageOf(va) \in Pages /\ frame[t][PageOf(va)] # NoFrame
    BY DEF Mapped
  <2>3. frame[t][PageOf(va)] \in Frames \cup {NoFrame}
    BY <2>2 DEF TypeOK
  <2> QED
    BY <2>1, <2>2, <2>3
<1> QED
  BY <1>1, <1>2, <1>3 DEF Pa

LEMMA Sizes ==
    /\ CACHE_LINE_SIZE \in Nat \ {0} /\ l1_sets \in Nat \ {0}
    /\ PAGE_SIZE \in Nat \ {0} /\ (PAGE_SIZE % CACHE_LINE_SIZE) = 0
BY GeometryAssumption, LkmAssumption DEF Powers

LEMMA FrameNat ==
    ASSUME TypeOK, NEW t \in Tasks, NEW va \in Nat, Mapped(t, va)
    PROVE  frame[t][PageOf(va)] \in Nat
<1>1. PageOf(va) \in Pages /\ frame[t][PageOf(va)] # NoFrame
  BY DEF Mapped
<1>2. frame[t] \in [Pages -> Frames \cup {NoFrame}] /\ Frames \subseteq Nat
  BY LkmAssumption DEF TypeOK
<1> QED
  BY <1>1, <1>2

(* The frame of an address is that of its page.                            *)
LEMMA FrameOfPa ==
    ASSUME TypeOK, NEW t \in Tasks, NEW va \in Nat, Mapped(t, va)
    PROVE  Pa(t, va) \div PAGE_SIZE = frame[t][PageOf(va)]
<1>1. PICK f \in Nat : f = frame[t][PageOf(va)]
  BY FrameNat
<1>2. PICK r \in 0 .. (PAGE_SIZE - 1) : r = va % PAGE_SIZE
  <2>1. va \in Int
    OBVIOUS
  <2> QED
    BY <2>1, Sizes, ModNat, Zenon
<1>3. Pa(t, va) = f * PAGE_SIZE + r
  BY <1>1, <1>2 DEF Pa
<1>4. PICK z \in Nat : z = f * PAGE_SIZE + r
  BY <1>2, Sizes
<1>5. PICK d \in Nat : d = z \div PAGE_SIZE
  BY <1>4, Sizes, DivNat
<1>6. PICK y \in 0 .. (PAGE_SIZE - 1) : y = z % PAGE_SIZE
  <2>1. z \in Int
    OBVIOUS
  <2> QED
    BY <2>1, Sizes, ModNat, Zenon
<1>7. z = PAGE_SIZE * d + y
  BY <1>5, <1>6, Sizes
<1>8. z = PAGE_SIZE * f + r
  BY <1>2, <1>4, Sizes
<1>9. ASSUME NEW a \in Nat, NEW b \in Nat, NEW v \in 0 .. (PAGE_SIZE - 1),
             NEW w \in 0 .. (PAGE_SIZE - 1), PAGE_SIZE * a + v = PAGE_SIZE * b + w, a < b
      PROVE  FALSE
  <2>1. PICK c \in Nat : b = a + 1 + c
    <3>1. b - a - 1 \in Nat /\ b = a + 1 + (b - a - 1)
      BY <1>9
    <3> QED
      BY <3>1
  <2>2. PAGE_SIZE * b = PAGE_SIZE * a + PAGE_SIZE + PAGE_SIZE * c
    BY <2>1, Sizes
  <2>3. PAGE_SIZE * c \in Nat /\ PAGE_SIZE * a \in Nat
    BY <2>1, Sizes
  <2> QED
    BY <1>9, <2>2, <2>3, Sizes
<1>10. d = f
  <2>1. PAGE_SIZE * d + y = PAGE_SIZE * f + r
    BY <1>7, <1>8
  <2>2. ~(d < f)
    BY <2>1, <1>9
  <2>3. ~(f < d)
    BY <2>1, <1>9
  <2> QED
    BY <2>2, <2>3
<1> QED
  BY <1>1, <1>3, <1>4, <1>5, <1>10

LEMMA ConvertNat ==
    ASSUME TypeOK, NEW t \in Tasks, NEW va \in Nat, NEW pa \in ConvertIgnored(t, va)
    PROVE  pa \in Nat
BY PaNat, LkmAssumption DEF ConvertIgnored

LEMMA SetNat ==
    ASSUME NEW pa \in Nat
    PROVE  /\ L1SetIdx(pa) \in Nat /\ L1SetIdx(pa) \in Indices
           /\ L2SetIdx(pa) \in Nat /\ L2SetIdx(pa) \in Indices
BY SetIdxInRow, GeometryAssumption DEF Indices

LEMMA RequestNat ==
    ASSUME NEW q \in Requests
    PROVE  /\ LineOf(q.dsva) \in Nat /\ LineOf(q.deva) \in Nat
           /\ q.dsva \in Nat /\ q.deva \in Nat
BY LineOfNat, LkmAssumption

-----------------------------------------------------------------------------
(* What a prefetch and a flush by address do to the history variables.     *)

(* The lines that have been prefetched for a task, those that another      *)
(* task's command has flushed since included.                              *)
Had(t) == prefetched[t] \cup lost[t]

LEMMA PrefetchEffect ==
    ASSUME TypeOK, NEW t \in Tasks, NEW va \in Nat, Prefetch(t, va)
    PROVE  /\ prefetched' \in [Tasks -> SUBSET Nat] /\ lost' \in [Tasks -> SUBSET Nat]
           /\ prefetched[t] \subseteq prefetched'[t] /\ Had(t) \subseteq Had(t)'
           /\ Mapped(t, va) => va \in prefetched'[t]
           /\ \A u \in Tasks \ {t} : prefetched'[u] = prefetched[u] /\ lost'[u] = lost[u]
<1>1. CASE Mapped(t, va)
  <2>1. /\ prefetched' = [prefetched EXCEPT ![t] = @ \cup {va}]
        /\ lost' = [lost EXCEPT ![t] = @ \ {va}]
    BY <1>1 DEF Prefetch
  <2>2. prefetched' \in [Tasks -> SUBSET Nat] /\ lost' \in [Tasks -> SUBSET Nat]
    BY <2>1 DEF TypeOK
  <2>3. prefetched'[t] = prefetched[t] \cup {va} /\ lost'[t] = lost[t] \ {va}
    BY <2>1 DEF TypeOK
  <2>4. \A u \in Tasks \ {t} : prefetched'[u] = prefetched[u] /\ lost'[u] = lost[u]
    BY <2>1 DEF TypeOK
  <2> QED
    BY <2>2, <2>3, <2>4 DEF Had
<1>2. CASE ~Mapped(t, va)
  BY <1>2 DEF Prefetch, TypeOK, Had
<1> QED
  BY <1>1, <1>2

LEMMA FlushEffect ==
    ASSUME TypeOK, NEW t \in Tasks, NEW vas, Flush(t, vas)
    PROVE  /\ prefetched' \in [Tasks -> SUBSET Nat] /\ lost' \in [Tasks -> SUBSET Nat]
           /\ \A u \in Tasks : /\ prefetched'[u] = prefetched[u] \ FlushedOf(u, t, vas)
                               /\ prefetched'[u] \subseteq prefetched[u]
           /\ \A u \in Tasks \ {t} : Had(u)' = Had(u)
<1>1. \A u \in Tasks : FlushedOf(u, t, vas) \subseteq prefetched[u]
  BY DEF FlushedOf
<1> QED
  BY <1>1 DEF Flush, TypeOK, Had

-----------------------------------------------------------------------------
(* Type correctness.                                                       *)

LEMMA TypeInit == Init => TypeOK
BY DEF Init, TypeOK, Slots, Indices, NoData, NoRegion, NoLocals, NoRequest,
       Datas, Locals, Labels, At

LEMMA TypeStep == TypeOK /\ [Next]_vars => TypeOK'
<1> SUFFICES ASSUME TypeOK, [Next]_vars PROVE TypeOK'
  OBVIOUS
<1>00. NoLocals \in Locals
  BY DEF NoLocals, NoRequest, Locals
<1> USE SlotOfTask
<1>0. CASE UNCHANGED vars
  BY <1>0 DEF TypeOK, vars, tables, At
<1>1. ASSUME NEW t \in Tasks, User(t) PROVE TypeOK'
  <2>1. CASE InitRefuse(t)
    BY <2>1 DEF TypeOK, InitRefuse, At, tables
  <2>2. ASSUME NEW q \in Requests, InitAccept(t, q) PROVE TypeOK'
    <3>1. loc' \in [Tasks -> Locals]
      <4>1. PICK va : va = LineOf(q.dsva)
        OBVIOUS
      <4>2. va \in Nat
        BY <4>1, RequestNat
      <4>3. loc' = [loc EXCEPT ![t] = [loc[t] EXCEPT !.q = q, !.va = va]]
        BY <2>2, <4>1 DEF InitAccept
      <4> QED
        BY <4>2, <4>3 DEF TypeOK, Locals
    <3> QED
      BY <2>2, <3>1 DEF TypeOK, InitAccept, At, Goto, NewCommand, tables, Labels
  <2>3. ASSUME NEW q \in Requests, ExitFlush(t, q) PROVE TypeOK'
    <3>1. prefetched' \in [Tasks -> SUBSET Nat] /\ lost' \in [Tasks -> SUBSET Nat]
      BY <2>3, FlushEffect DEF ExitFlush
    <3> QED
      BY <2>3, <3>1 DEF TypeOK, ExitFlush, At, Goto, NewCommand, tables, Labels, NoRequest
  <2>4. ASSUME NEW x \in Accesses, Trap(t, x) PROVE TypeOK'
    <3>1. x \in Nat
      BY LkmAssumption
    <3>2. loc' \in [Tasks -> Locals]
      BY <2>4, <3>1 DEF TypeOK, Trap, Locals
    <3> QED
      BY <2>4, <3>2 DEF TypeOK, Trap, At, Goto, NewCommand, tables, Labels
  <2> QED
    BY <1>1, <2>1, <2>2, <2>3, <2>4 DEF User
<1>2. ASSUME NEW t \in Tasks, Memory(t) PROVE TypeOK'
  <2>1. ASSUME NEW p \in Reclaimable, PageOut(t, p) PROVE TypeOK'
    BY <2>1 DEF TypeOK, PageOut, At, tables
  <2>2. ASSUME NEW p \in Pages, NEW f \in Frames, PageIn(t, p, f) PROVE TypeOK'
    BY <2>2 DEF TypeOK, PageIn, At, tables
  <2> QED
    BY <1>2, <2>1, <2>2 DEF Memory
<1>3. ASSUME NEW t \in Tasks, Handler(t) PROVE TypeOK'
  <2>0. CACHE_LINE_SIZE \in Nat
    BY GeometryAssumption
  <2>1. CASE InitLine(t)
    <3> DEFINE va == loc[t].va
    <3>1. va \in Nat /\ Mapped(t, va)
      BY <2>1 DEF TypeOK, InitLine, InitLineAt, Locals
    <3>2. Pa(t, va) \in Nat
      BY <3>1, PaNat
    <3>3. /\ L1SetIdx(Pa(t, va)) \in Nat
          /\ L2SetIdx(Pa(t, va)) \in Nat
      BY <3>2, SetNat
    <3>4. loc' \in [Tasks -> Locals]
      <4>1. loc' = [loc EXCEPT ![t].va = va + CACHE_LINE_SIZE]
        BY <2>1 DEF InitLine, InitLineAt
      <4>2. va + CACHE_LINE_SIZE \in Nat
        BY <2>0, <3>1
      <4> HIDE DEF va
      <4> QED
        BY <4>1, <4>2 DEF TypeOK, Locals
    <3>6. sdata_l1_arr' \in [Slots -> [Indices -> Datas]]
      BY <2>1, <3>1, <3>2, <3>3 DEF TypeOK, InitLine, InitLineAt, Datas
    <3>7. sdata_l2_arr' \in [Slots -> [Indices -> Datas]]
      BY <2>1, <3>1, <3>2, <3>3 DEF TypeOK, InitLine, InitLineAt, Datas
    <3>8. prefetched' \in [Tasks -> SUBSET Nat] /\ lost' \in [Tasks -> SUBSET Nat]
      BY <2>1, FlushEffect DEF InitLine, InitLineAt
    <3> QED
      BY <2>1, <3>4, <3>6, <3>7, <3>8 DEF TypeOK, InitLine, InitLineAt, At, Locals
  <2>2. CASE InitLineFails(t)
    BY <2>2 DEF TypeOK, InitLineFails, At, Return, Goto, tables, Labels, Locals,
                NoLocals, NoRequest
  <2>3. CASE InitStoreSva(t)
    <3>1. loc[t].q.dsva \in Nat
      BY RequestNat DEF TypeOK, Locals, NoRequest
    <3>2. LineOf(loc[t].q.dsva) \in Nat
      BY <3>1, LineOfNat
    <3> QED
      BY <2>3, <3>2 DEF TypeOK, InitStoreSva, StoreRegion, At, Goto, Labels
  <2>4. CASE InitStoreEva(t)
    <3>1. loc[t].q.deva \in Nat
      BY RequestNat DEF TypeOK, Locals, NoRequest
    <3>2. LineOf(loc[t].q.deva) \in Nat
      BY <3>1, LineOfNat
    <3> QED
      BY <2>4, <3>2 DEF TypeOK, InitStoreEva, StoreRegion, At, Goto, Labels
  <2>5. CASE InitStoreFlag(t)
    <3>1. /\ loc' = [loc EXCEPT ![t] = NoLocals]
          /\ pc' = [pc EXCEPT ![t] = "idle"]
      BY <2>5 DEF InitStoreFlag, Return, Goto
    <3>2. loc' \in [Tasks -> Locals] /\ pc' \in [Tasks -> Labels]
      BY <1>00, <3>1 DEF TypeOK, Labels
    <3>3. sdata_region' \in [Slots -> [sva : Nat, eva : Nat, preload_flag : {0, 1}]]
      BY <2>5 DEF TypeOK, InitStoreFlag, StoreRegion
    <3>4. \A u \in Tasks : At(u, "check_z")' => loc'[u].set2 \in Indices
      BY <3>1 DEF TypeOK, At
    <3> QED
      BY <2>5, <3>2, <3>3, <3>4 DEF TypeOK, InitStoreFlag, Locals
  <2>6. CASE ExitStoreSva(t)
    BY <2>6 DEF TypeOK, ExitStoreSva, StoreRegion, At, Goto, Labels
  <2>7. CASE ExitStoreEva(t)
    BY <2>7 DEF TypeOK, ExitStoreEva, StoreRegion, At, Goto, Labels
  <2>8. CASE ExitStoreFlag(t)
    <3>1. /\ loc' = [loc EXCEPT ![t] = NoLocals]
          /\ pc' = [pc EXCEPT ![t] = "idle"]
      BY <2>8 DEF ExitStoreFlag, Return, Goto
    <3>2. loc' \in [Tasks -> Locals] /\ pc' \in [Tasks -> Labels]
      BY <1>00, <3>1 DEF TypeOK, Labels
    <3>3. sdata_region' \in [Slots -> [sva : Nat, eva : Nat, preload_flag : {0, 1}]]
      BY <2>8 DEF TypeOK, ExitStoreFlag, StoreRegion
    <3>4. \A u \in Tasks : At(u, "check_z")' => loc'[u].set2 \in Indices
      BY <3>1 DEF TypeOK, At
    <3> QED
      BY <2>8, <3>2, <3>3, <3>4 DEF TypeOK, ExitStoreFlag
  <2>9. CASE PreloadSkip(t)
    BY <2>9 DEF TypeOK, PreloadSkip, At, Goto, tables, Labels
  <2>10. CASE PreloadNeeded(t)
    BY <2>10 DEF TypeOK, PreloadNeeded, At, Goto, tables, Labels
  <2>11. CASE PreloadSets(t)
    <3>1. Region(t).sva \in Nat
      BY DEF TypeOK, Region
    <3>2. PICK pa \in ConvertIgnored(t, Region(t).sva) :
             loc' = [loc EXCEPT ![t] = [@ EXCEPT !.set1 = L1SetIdx(pa),
                                               !.set2 = L2SetIdx(pa)]]
      BY <2>11 DEF PreloadSets
    <3>3. L1SetIdx(pa) \in Nat /\ L2SetIdx(pa) \in Nat
      BY <3>1, <3>2, ConvertNat, SetNat
    <3>4. loc' \in [Tasks -> Locals]
      BY <3>2, <3>3 DEF TypeOK, Locals
    <3> QED
      BY <2>11, <3>2, <3>4 DEF TypeOK, PreloadSets, At, Goto, tables, Labels
  <2>12. CASE PreloadFirst(t)
    <3>1. Region(t).sva \in Nat
      BY DEF TypeOK, Region
    <3>2. loc' \in [Tasks -> Locals]
      BY <2>12, <3>1 DEF TypeOK, PreloadFirst, Locals
    <3> QED
      BY <2>12, <3>2 DEF TypeOK, PreloadFirst, At, Goto, tables, Labels
  <2>13. CASE PreloadLine(t)
    <3>1. prefetched' \in [Tasks -> SUBSET Nat] /\ lost' \in [Tasks -> SUBSET Nat]
      BY <2>13, PrefetchEffect DEF PreloadLine, TypeOK, Locals
    <3>2. loc' \in [Tasks -> Locals]
      <4> DEFINE l == [loc[t] EXCEPT !.va = loc[t].va + CACHE_LINE_SIZE,
                                     !.set1 = loc[t].set1 + 1,
                                     !.set2 = loc[t].set2 + 1]
      <4>1. loc' = [loc EXCEPT ![t] = l] /\ loc[t] \in Locals /\ loc \in [Tasks -> Locals]
        BY <2>13 DEF TypeOK, PreloadLine
      <4>2. l \in Locals
        <5>1. /\ loc[t].va + CACHE_LINE_SIZE \in Nat
              /\ loc[t].set1 + 1 \in Nat /\ loc[t].set2 + 1 \in Nat
          BY <2>0, <4>1 DEF Locals
        <5> QED
          BY <4>1, <5>1, Zenon DEF Locals
      <4> HIDE DEF l
      <4> QED
        BY <4>1, <4>2
    <3> QED
      BY <2>13, <3>1, <3>2 DEF TypeOK, PreloadLine, At, tables
  <2>14. CASE PreloadDone(t)
    BY <2>14 DEF TypeOK, PreloadDone, StoreRegion, At, Goto, Labels
  <2>15. CASE LoadHit(t)
    BY <2>15 DEF TypeOK, LoadHit, At, Return, Goto, tables, Labels, Locals, NoLocals, NoRequest
  <2>16. CASE LoadMiss(t)
    BY <2>16 DEF TypeOK, LoadMiss, At, Goto, tables, Labels
  <2>17. CASE LookupZ(t)
    <3>1. loc[t].x \in Nat
      BY DEF TypeOK, Locals
    <3> DEFINE z(pa) == sdata_l2_arr[get_pid_idx(t)][L2SetIdx(pa)].va
    <3>2. PICK pa \in ConvertIgnored(t, loc[t].x) :
             loc' = [loc EXCEPT ![t] = [@ EXCEPT !.pa = pa, !.set2 = L2SetIdx(pa),
                                               !.va_z = z(pa)]]
      BY <2>17 DEF LookupZ
    <3>3. pa \in Nat /\ L2SetIdx(pa) \in Nat /\ L2SetIdx(pa) \in Indices
      BY <3>1, <3>2, ConvertNat, SetNat
    <3>4. z(pa) \in Nat
      BY <3>3 DEF TypeOK, Datas
    <3> HIDE DEF z
    <3>5. loc' \in [Tasks -> Locals]
      BY <3>2, <3>3, <3>4 DEF TypeOK, Locals
    <3>6. \A u \in Tasks : At(u, "check_z")' => loc'[u].set2 \in Indices
      <4> SUFFICES ASSUME NEW u \in Tasks, At(u, "check_z")'
                   PROVE  loc'[u].set2 \in Indices
        OBVIOUS
      <4>1. CASE u = t
        BY <3>2, <3>3, <4>1 DEF TypeOK, Locals
      <4>2. CASE u # t
        BY <2>17, <3>2, <4>2 DEF TypeOK, LookupZ, At, Goto
      <4> QED
        BY <4>1, <4>2
    <3> QED
      BY <2>17, <3>5, <3>6 DEF TypeOK, LookupZ, Goto, tables, Labels
  <2>18. CASE LookupUnrelated(t)
    BY <2>18 DEF TypeOK, LookupUnrelated, At, Return, Goto, tables, Labels, Locals,
                 NoLocals, NoRequest
  <2>19. CASE LookupRelated(t)
    <3>1. L1SetIdx(loc[t].pa) \in Nat
      BY SetNat DEF TypeOK, Locals
    <3>2. loc' \in [Tasks -> Locals]
      BY <2>19, <3>1 DEF TypeOK, LookupRelated, Locals
    <3> QED
      BY <2>19, <3>2 DEF TypeOK, LookupRelated, At, Goto, tables, Labels
  <2>20. CASE Refill(t)
    <3>1. prefetched' \in [Tasks -> SUBSET Nat] /\ lost' \in [Tasks -> SUBSET Nat]
      BY <2>20, PrefetchEffect DEF Refill, TypeOK, Locals
    <3> QED
      BY <2>20, <3>1 DEF TypeOK, Refill, At, Return, Goto, tables, Labels, Locals,
                         NoLocals, NoRequest
  <2>21. CASE PreloadEnd(t)
    BY <2>21 DEF TypeOK, PreloadEnd, At, Goto, tables, Labels
  <2> QED
    BY <1>3, <2>1, <2>2, <2>3, <2>4, <2>5, <2>6, <2>7, <2>8, <2>9, <2>10, <2>11, <2>12,
       <2>13, <2>14, <2>15, <2>16, <2>17, <2>18, <2>19, <2>20, <2>21 DEF Handler
<1> QED
  BY <1>0, <1>1, <1>2, <1>3 DEF Next

(* Every variable keeps its type, and no lookup leaves the table, for any  *)
(* cache whose L2 set count is a power of two within the table.            *)
THEOREM TypeCorrect == Spec => []TypeOK
BY TypeInit, TypeStep, PTL DEF Spec

-----------------------------------------------------------------------------
(* Registrations, when no two threads share a row.                         *)

Registering(t) == pc[t] \in {"init_line", "init_eva", "init_flag"}
Leaving(t) == pc[t] \in {"exit_sva", "exit_eva", "exit_flag"}
Cleared(r) == r.sva = 0 /\ r.eva = 0

(* What the half-written region of a row looks like at each place of the   *)
(* handler that writes it, and that it is whole everywhere else.           *)
PhaseOK(t) ==
    LET r == Region(t)
        q == loc[t].q
    IN /\ Registering(t) => q \in Requests
       /\ Registering(t) \/ Leaving(t) => ~Open(t)
       /\ At(t, "init_line") => Cleared(r)
       /\ At(t, "init_eva") => r.sva = LineOf(q.dsva) /\ r.eva = 0
       /\ At(t, "init_flag") => r.sva = LineOf(q.dsva) /\ r.eva = LineOf(q.deva)
       /\ At(t, "exit_eva") => r.sva = 0
       /\ At(t, "exit_flag") => Cleared(r)
       /\ ~At(t, "init_eva") /\ ~At(t, "exit_eva") =>
              Cleared(r) \/ [sva |-> r.sva, eva |-> r.eva] \in Ranges

RegistrationInv == OpenOwnsRegion /\ \A t \in Tasks : PhaseOK(t)

(* A step of one task leaves what belongs to another task alone, but for   *)
(* the lines it flushes out of memory they have in common.                 *)
LEMMA OthersKept ==
    ASSUME SlotsDistinct, TypeOK, NEW t \in Tasks, NEW u \in Tasks, u # t,
           User(t) \/ Handler(t) \/ Memory(t)
    PROVE  /\ pc'[u] = pc[u] /\ loc'[u] = loc[u] /\ granted'[u] = granted[u]
           /\ sdata_region'[get_pid_idx(u)] = sdata_region[get_pid_idx(u)]
           /\ sdata_l2_arr'[get_pid_idx(u)] = sdata_l2_arr[get_pid_idx(u)]
           /\ frame'[u] = frame[u]
           /\ prefetched'[u] \subseteq prefetched[u] /\ Had(u)' = Had(u)
<1>1. get_pid_idx(t) # get_pid_idx(u)
  BY DEF SlotsDistinct
<1>2. /\ get_pid_idx(t) \in Slots /\ get_pid_idx(u) \in Slots
  BY SlotOfTask
<1> USE DEF Had
<1>3. CASE User(t)
  <2>1. ASSUME NEW q \in Requests, ExitFlush(t, q)
        PROVE  prefetched'[u] \subseteq prefetched[u] /\ Had(u)' = Had(u)
    <3>1. PICK vas : Flush(t, vas)
      BY <2>1 DEF ExitFlush
    <3> QED
      BY <3>1, FlushEffect, Zenon
  <2>2. CASE \A q \in Requests : ~ExitFlush(t, q)
    BY <1>3, <2>2 DEF TypeOK, User, InitRefuse, InitAccept, Trap, Goto, NewCommand, tables
  <2>3. ASSUME NEW q \in Requests, ExitFlush(t, q)
        PROVE  /\ pc'[u] = pc[u] /\ loc' = loc /\ granted'[u] = granted[u]
               /\ sdata_region' = sdata_region /\ sdata_l2_arr' = sdata_l2_arr
               /\ frame' = frame
    BY <2>3 DEF TypeOK, ExitFlush, Goto, tables
  <2> HIDE DEF Had
  <2> QED
    BY <2>1, <2>2, <2>3
<1>4. CASE Memory(t)
  BY <1>4 DEF TypeOK, Memory, PageIn, PageOut, tables
<1>5. CASE InitLine(t)
  <2>1. prefetched'[u] \subseteq prefetched[u] /\ Had(u)' = Had(u)
    <3>1. PICK vas : Flush(t, vas)
      BY <1>5 DEF InitLine, InitLineAt
    <3> QED
      BY <3>1, FlushEffect, Zenon
  <2>2. /\ pc'[u] = pc[u] /\ loc'[u] = loc[u] /\ granted'[u] = granted[u]
        /\ sdata_region'[get_pid_idx(u)] = sdata_region[get_pid_idx(u)]
        /\ sdata_l2_arr'[get_pid_idx(u)] = sdata_l2_arr[get_pid_idx(u)]
        /\ frame'[u] = frame[u]
    BY <1>1, <1>2, <1>5 DEF TypeOK, InitLine, InitLineAt
  <2> HIDE DEF Had
  <2> QED
    BY <2>1, <2>2
<1>9. CASE Refill(t) \/ PreloadLine(t)
  <2>1. PICK va \in Nat : Prefetch(t, va)
    BY <1>9 DEF Refill, PreloadLine, TypeOK, Locals
  <2>2. prefetched'[u] = prefetched[u] /\ lost'[u] = lost[u]
    BY <2>1, PrefetchEffect
  <2> QED
    BY <1>9, <2>2 DEF TypeOK, Refill, PreloadLine, Return, Goto, tables
<1>6. CASE InitLineFails(t) \/ InitStoreFlag(t) \/ ExitStoreFlag(t) \/ LoadHit(t)
           \/ LookupUnrelated(t)
  BY <1>1, <1>2, <1>6
     DEF TypeOK, InitLineFails, InitStoreFlag, ExitStoreFlag, LoadHit, LookupUnrelated,
         StoreRegion, Return, Goto, tables
<1>7. CASE InitStoreSva(t) \/ InitStoreEva(t) \/ ExitStoreSva(t) \/ ExitStoreEva(t)
           \/ PreloadDone(t)
  BY <1>1, <1>2, <1>7
     DEF TypeOK, InitStoreSva, InitStoreEva, ExitStoreSva, ExitStoreEva, PreloadDone,
         StoreRegion, Goto
<1>8. CASE PreloadSkip(t) \/ PreloadNeeded(t) \/ PreloadSets(t) \/ PreloadFirst(t)
           \/ PreloadEnd(t) \/ LoadMiss(t) \/ LookupZ(t) \/ LookupRelated(t)
  BY <1>8
     DEF TypeOK, PreloadSkip, PreloadNeeded, PreloadSets, PreloadFirst, PreloadEnd,
         LoadMiss, LookupZ, LookupRelated, Goto, tables
<1> QED
  BY <1>3, <1>4, <1>5, <1>6, <1>7, <1>8, <1>9 DEF Handler

LEMMA RequestNotZero ==
    ASSUME NEW q \in Requests
    PROVE  LineOf(q.dsva) # 0 /\ LineOf(q.deva) # 0
<1>1. PAGE_SIZE >= CACHE_LINE_SIZE
  <2>1. /\ PAGE_SIZE \in Nat \ {0} /\ CACHE_LINE_SIZE \in Nat \ {0}
        /\ (PAGE_SIZE % CACHE_LINE_SIZE) = 0
    BY LkmAssumption, GeometryAssumption
  <2> QED
    BY <2>1
<1>2. /\ q.dsva \in Nat /\ q.deva \in Nat
      /\ q.dsva >= PAGE_SIZE /\ q.deva >= q.dsva
  BY LkmAssumption
<1>3. PAGE_SIZE \in Nat /\ CACHE_LINE_SIZE \in Nat
  BY LkmAssumption, GeometryAssumption
<1>4. q.dsva >= CACHE_LINE_SIZE /\ q.deva >= CACHE_LINE_SIZE
  BY <1>1, <1>2, <1>3
<1> QED
  BY <1>2, <1>4, LineOfPositive

LEMMA RegistrationInit == Init => RegistrationInv
BY SlotOfTask
   DEF Init, RegistrationInv, OpenOwnsRegion, PhaseOK, Open, Registering, Leaving, Cleared,
       At, Region, NoRegion

(* What the moving task itself keeps.                                      *)
OwnsRegion(t) == Open(t) => /\ Region(t).sva = LineOf(granted[t].dsva)
                            /\ Region(t).eva = LineOf(granted[t].deva)

LEMMA RegistrationOwnStep ==
    ASSUME TypeOK, NEW t \in Tasks, OwnsRegion(t), PhaseOK(t),
           User(t) \/ Handler(t) \/ Memory(t)
    PROVE  OwnsRegion(t)' /\ PhaseOK(t)'
<1> DEFINE s == get_pid_idx(t)
<1>0. s \in Slots
  BY SlotOfTask
<1> USE DEF Region, Open, Registering, Leaving, Cleared, At, OwnsRegion
<1>1. CASE InitRefuse(t)
  BY <1>1 DEF InitRefuse, PhaseOK, tables
<1>2. ASSUME NEW q \in Requests, InitAccept(t, q) PROVE OwnsRegion(t)' /\ PhaseOK(t)'
  <2>1. ~Open(t)
    BY <1>2, RequestNotZero DEF InitAccept, TypeOK
  <2>2. Cleared(Region(t))
    BY <1>2, RequestNotZero DEF InitAccept, PhaseOK, Ranges
  <2>3. loc'[t].q = q /\ pc'[t] = "init_line"
    BY <1>2 DEF InitAccept, Goto, TypeOK, Locals
  <2> QED
    BY <1>2, <2>1, <2>2, <2>3 DEF InitAccept, PhaseOK, tables
<1>3. ASSUME NEW q \in Requests, ExitFlush(t, q) PROVE OwnsRegion(t)' /\ PhaseOK(t)'
  BY <1>3 DEF ExitFlush, Goto, PhaseOK, TypeOK, tables
<1>4. ASSUME NEW x \in Accesses, Trap(t, x) PROVE OwnsRegion(t)' /\ PhaseOK(t)'
  BY <1>4 DEF Trap, Goto, PhaseOK, TypeOK, tables
<1>5. CASE Memory(t)
  BY <1>5 DEF Memory, PageIn, PageOut, PhaseOK, tables
<1>6. CASE InitLine(t)
  BY <1>6 DEF InitLine, InitLineAt, PhaseOK, TypeOK, Locals
<1>7. CASE InitLineFails(t)
  BY <1>7 DEF InitLineFails, Return, Goto, PhaseOK, TypeOK, tables
<1>8. CASE InitStoreSva(t)
  BY <1>0, <1>8 DEF InitStoreSva, StoreRegion, Goto, PhaseOK, TypeOK
<1>9. CASE InitStoreEva(t)
  <2>1. /\ Region(t)'.sva = LineOf(loc[t].q.dsva)
        /\ Region(t)'.eva = LineOf(loc[t].q.deva)
        /\ loc[t].q \in Requests /\ pc'[t] = "init_flag"
    BY <1>0, <1>9 DEF InitStoreEva, StoreRegion, Goto, PhaseOK, TypeOK
  <2>2. [sva |-> Region(t)'.sva, eva |-> Region(t)'.eva] \in Ranges
    BY <2>1 DEF Ranges
  <2> QED
    BY <1>9, <2>1, <2>2 DEF InitStoreEva, PhaseOK
<1>10. CASE InitStoreFlag(t)
  <2>1. /\ Region(t)'.sva = Region(t).sva /\ Region(t)'.eva = Region(t).eva
        /\ granted'[t] = loc[t].q /\ pc'[t] = "idle"
    BY <1>0, <1>10 DEF InitStoreFlag, StoreRegion, Return, Goto, TypeOK
  <2> QED
    BY <1>10, <2>1 DEF InitStoreFlag, PhaseOK
<1>11. CASE ExitStoreSva(t)
  BY <1>0, <1>11 DEF ExitStoreSva, StoreRegion, Goto, PhaseOK, TypeOK
<1>12. CASE ExitStoreEva(t)
  BY <1>0, <1>12 DEF ExitStoreEva, StoreRegion, Goto, PhaseOK, TypeOK
<1>13. CASE ExitStoreFlag(t)
  BY <1>0, <1>13 DEF ExitStoreFlag, StoreRegion, Return, Goto, PhaseOK, TypeOK
<1>14. CASE PreloadDone(t)
  <2>1. /\ Region(t)'.sva = Region(t).sva /\ Region(t)'.eva = Region(t).eva
        /\ pc[t] = "preload_done" /\ pc'[t] = "load"
    BY <1>0, <1>14 DEF PreloadDone, StoreRegion, Goto, TypeOK
  <2> QED
    BY <1>14, <2>1 DEF PreloadDone, PhaseOK
<1>15. CASE \/ PreloadSkip(t) \/ PreloadNeeded(t) \/ PreloadSets(t) \/ PreloadFirst(t)
            \/ PreloadEnd(t) \/ LoadMiss(t) \/ LookupZ(t) \/ LookupRelated(t)
  BY <1>15
     DEF PreloadSkip, PreloadNeeded, PreloadSets, PreloadFirst, PreloadEnd, LoadMiss, LookupZ,
         LookupRelated, Goto, PhaseOK, TypeOK, tables
<1>16. CASE PreloadLine(t)
  BY <1>16 DEF PreloadLine, PhaseOK, TypeOK, tables
<1>17. CASE LoadHit(t) \/ LookupUnrelated(t) \/ Refill(t)
  BY <1>17 DEF LoadHit, LookupUnrelated, Refill, Return, Goto, PhaseOK, TypeOK, tables
<1> QED
  BY <1>1, <1>2, <1>3, <1>4, <1>5, <1>6, <1>7, <1>8, <1>9, <1>10, <1>11, <1>12, <1>13,
     <1>14, <1>15, <1>16, <1>17 DEF User, Handler

LEMMA RegistrationStep ==
    ASSUME SlotsDistinct, TypeOK, RegistrationInv, [Next]_vars
    PROVE  RegistrationInv'
<1>1. CASE UNCHANGED vars
  BY <1>1 DEF vars, tables, RegistrationInv, OpenOwnsRegion, PhaseOK, Open, Registering,
              Leaving, Cleared, At, Region
<1>2. ASSUME NEW t \in Tasks, User(t) \/ Handler(t) \/ Memory(t)
      PROVE  RegistrationInv'
  <2>1. SUFFICES ASSUME NEW u \in Tasks PROVE OwnsRegion(u)' /\ PhaseOK(u)'
    BY DEF RegistrationInv, OpenOwnsRegion, OwnsRegion
  <2>2. OwnsRegion(u) /\ PhaseOK(u)
    BY DEF RegistrationInv, OpenOwnsRegion, OwnsRegion
  <2>3. CASE u = t
    BY <1>2, <2>2, <2>3, RegistrationOwnStep
  <2>4. CASE u # t
    <3>1. /\ pc'[u] = pc[u] /\ loc'[u] = loc[u] /\ granted'[u] = granted[u]
          /\ sdata_region'[get_pid_idx(u)] = sdata_region[get_pid_idx(u)]
      BY <1>2, <2>4, OthersKept
    <3> QED
      BY <2>2, <3>1 DEF OwnsRegion, PhaseOK, Open, Registering, Leaving, Cleared, At, Region
  <2> QED
    BY <2>3, <2>4
<1> QED
  BY <1>1, <1>2 DEF Next

(* When no two thread ids fall on the same row, the region of an open     *)
(* section is the range its INIT was granted, whatever else runs.          *)
THEOREM OpenOwnsRegionHolds ==
    ASSUME SlotsDistinct
    PROVE  Spec => []OpenOwnsRegion
<1>1. Init => TypeOK /\ RegistrationInv
  BY TypeInit, RegistrationInit
<1>2. TypeOK /\ RegistrationInv /\ [Next]_vars => (TypeOK /\ RegistrationInv)'
  BY TypeStep, RegistrationStep
<1>3. RegistrationInv => OpenOwnsRegion
  BY DEF RegistrationInv
<1> QED
  BY <1>1, <1>2, <1>3, PTL DEF Spec

-----------------------------------------------------------------------------
(* The rows implement SlotRegistry.                                        *)

Held == [s \in Slots |-> HeldOf(sdata_region[s])]

(* Only the four stores to sva and eva change what a row holds.            *)
LEMMA HeldKept ==
    ASSUME TypeOK, NEW t \in Tasks, User(t) \/ Handler(t) \/ Memory(t),
           ~InitStoreSva(t), ~InitStoreEva(t), ~ExitStoreSva(t), ~ExitStoreEva(t)
    PROVE  Held' = Held
<1> SUFFICES ASSUME NEW s \in Slots
             PROVE  /\ sdata_region'[s].sva = sdata_region[s].sva
                    /\ sdata_region'[s].eva = sdata_region[s].eva
  BY DEF Held, HeldOf
<1>1. CASE UNCHANGED sdata_region
  BY <1>1
<1>2. ASSUME NEW v \in {0, 1}, StoreRegion(t, "preload_flag", v)
      PROVE  /\ sdata_region'[s].sva = sdata_region[s].sva
             /\ sdata_region'[s].eva = sdata_region[s].eva
  BY <1>2 DEF StoreRegion, TypeOK
<1>3. CASE User(t) \/ Memory(t)
  BY <1>1, <1>3 DEF User, Memory, InitRefuse, InitAccept, ExitFlush, Trap, PageIn, PageOut,
                    tables
<1>4. CASE InitStoreFlag(t) \/ ExitStoreFlag(t) \/ PreloadDone(t)
  BY <1>2, <1>4 DEF InitStoreFlag, ExitStoreFlag, PreloadDone
<1>5. CASE Handler(t) /\ ~(InitStoreFlag(t) \/ ExitStoreFlag(t) \/ PreloadDone(t))
  BY <1>1, <1>5
     DEF Handler, InitLine, InitLineAt, InitLineFails, PreloadSkip, PreloadNeeded,
         PreloadSets, PreloadFirst, PreloadLine, PreloadEnd, LoadHit, LoadMiss, LookupZ,
         LookupUnrelated, LookupRelated, Refill, tables
<1> QED
  BY <1>3, <1>4, <1>5

LEMMA HeldStored ==
    ASSUME TypeOK, NEW t \in Tasks, NEW field \in {"sva", "eva"}, NEW v \in Nat,
           StoreRegion(t, field, v)
    PROVE  Held' = [Held EXCEPT ![get_pid_idx(t)] =
                       HeldOf([sdata_region[get_pid_idx(t)] EXCEPT ![field] = v])]
BY SlotOfTask DEF StoreRegion, Held, TypeOK

LEMMA RegistryStep ==
    ASSUME TypeOK, RegistrationInv, [Next]_vars
    PROVE  [Registry!Next]_Held
<1> SUFFICES ASSUME NEW t \in Tasks, User(t) \/ Handler(t) \/ Memory(t)
             PROVE  Registry!Next \/ Held' = Held
  BY DEF Next, vars, tables, Held
<1> DEFINE s == get_pid_idx(t)
           r == sdata_region[s]
           q == loc[t].q
<1>0. /\ s \in Slots /\ r = Region(t) /\ PhaseOK(t)
      /\ r \in [sva : Nat, eva : Nat, preload_flag : {0, 1}]
  BY SlotOfTask DEF RegistrationInv, Region, TypeOK
<1>1. CASE InitStoreSva(t)
  <2>1. q \in Requests /\ r.eva = 0
    BY <1>0, <1>1 DEF InitStoreSva, PhaseOK, Registering, Cleared, At
  <2>2. Held' = [Held EXCEPT ![s] = HeldOf([r EXCEPT !["sva"] = LineOf(q.dsva)])]
    BY <1>1, <2>1, HeldStored, RequestNat DEF InitStoreSva
  <2>3. HeldOf([r EXCEPT !["sva"] = LineOf(q.dsva)]) = Free /\ HeldOf(r) = Free
    BY <1>0, <2>1 DEF HeldOf
  <2> QED
    BY <1>0, <2>2, <2>3 DEF Held
<1>2. CASE InitStoreEva(t)
  <2>1. q \in Requests /\ r.eva = 0 /\ r.sva = LineOf(q.dsva)
    BY <1>0, <1>2 DEF InitStoreEva, PhaseOK, Registering, At
  <2>2. Held' = [Held EXCEPT ![s] = HeldOf([r EXCEPT !["eva"] = LineOf(q.deva)])]
    BY <1>2, <2>1, HeldStored, RequestNat DEF InitStoreEva
  <2> DEFINE range == [sva |-> LineOf(q.dsva), eva |-> LineOf(q.deva)]
  <2>3. HeldOf([r EXCEPT !["eva"] = LineOf(q.deva)]) = range
    BY <1>0, <2>1, RequestNotZero DEF HeldOf
  <2>4. range \in Ranges /\ Held[s] = Free
    BY <1>0, <2>1 DEF Ranges, Held, HeldOf
  <2>5. Registry!Register(s, range)
    BY <2>2, <2>3, <2>4 DEF Registry!Register, Held
  <2> QED
    BY <1>0, <2>4, <2>5 DEF Registry!Next
<1>3. CASE ExitStoreSva(t)
  <2>1. Held' = [Held EXCEPT ![s] = HeldOf([r EXCEPT !["sva"] = 0])]
    BY <1>3, HeldStored DEF ExitStoreSva
  <2>2. HeldOf([r EXCEPT !["sva"] = 0]) = Free
    BY <1>0 DEF HeldOf
  <2>3. CASE Held[s] = Free
    BY <1>0, <2>1, <2>2, <2>3 DEF Held
  <2>4. CASE Held[s] # Free
    BY <1>0, <2>1, <2>2, <2>4 DEF Registry!Next, Registry!Release, Held
  <2> QED
    BY <2>3, <2>4
<1>4. CASE ExitStoreEva(t)
  <2>1. r.sva = 0
    BY <1>0, <1>4 DEF ExitStoreEva, PhaseOK, At
  <2>2. Held' = [Held EXCEPT ![s] = HeldOf([r EXCEPT !["eva"] = 0])]
    BY <1>4, HeldStored DEF ExitStoreEva
  <2>3. HeldOf([r EXCEPT !["eva"] = 0]) = Free /\ HeldOf(r) = Free
    BY <1>0, <2>1 DEF HeldOf
  <2> QED
    BY <1>0, <2>2, <2>3 DEF Held
<1> QED
  BY <1>1, <1>2, <1>3, <1>4, HeldKept

(* With a row per thread the handlers implement the registry: a row is     *)
(* taken whole, only while free, and is given up whole.                    *)
THEOREM ImplementsRegistry ==
    ASSUME SlotsDistinct
    PROVE  Spec => RegistrySpec
<1>1. Init => Registry!Init
  BY DEF Init, Registry!Init, HeldOf, Free, NoRegion
<1>2. Init => TypeOK /\ RegistrationInv
  BY TypeInit, RegistrationInit
<1>3. TypeOK /\ RegistrationInv /\ [Next]_vars => (TypeOK /\ RegistrationInv)'
  BY TypeStep, RegistrationStep
<1>4. TypeOK /\ RegistrationInv /\ [Next]_vars
         => [Registry!Next]_[s \in Slots |-> HeldOf(sdata_region[s])]
  BY RegistryStep DEF Held
<1> QED
  BY <1>1, <1>2, <1>3, <1>4, PTL DEF Spec, RegistrySpec, Registry!Spec

-----------------------------------------------------------------------------
(* The lookup table, when in addition no page of a section moves.          *)

Stays(va) == PageOf(va) \notin Reclaimable

SectionsStay ==
    \A q \in Requests, va \in Nat :
        LineOf(q.dsva) <= va /\ va < LineOf(q.deva) => Stays(va)

Entry(t, i) == sdata_l2_arr[get_pid_idx(t)][i]

(* An entry that is in use names a mapped line of the task, on a page that *)
(* stays, filed under the line's own L2 set.                               *)
EntriesFiled(t) ==
    \A i \in Indices : Entry(t, i).va # 0 =>
        /\ Mapped(t, Entry(t, i).va) /\ Stays(Entry(t, i).va)
        /\ L2SetIdx(Pa(t, Entry(t, i).va)) = i

(* What the locals of INIT and of a lookup have to do with the request,    *)
(* the table and each other.                                               *)
LookupOK(t) ==
    /\ At(t, "init_line") => /\ loc[t].q \in Requests
                             /\ LineOf(loc[t].q.dsva) <= loc[t].va
    /\ At(t, "check_z") => /\ loc[t].set2 = L2SetIdx(loc[t].pa)
                           /\ loc[t].va_z = Entry(t, loc[t].set2).va
    /\ At(t, "refill") => /\ Mapped(t, loc[t].va_z) /\ Stays(loc[t].va_z)
                          /\ L2SetIdx(Pa(t, loc[t].va_z)) = loc[t].set2
                          /\ L1SetIdx(Pa(t, loc[t].va_z)) = loc[t].set1

TableInv == \A t \in Tasks : EntriesFiled(t) /\ LookupOK(t)

LEMMA TableInit == Init => TableInv
BY SlotOfTask DEF Init, TableInv, EntriesFiled, LookupOK, Entry, At, NoData, Indices

(* A mapped address on a page that stays keeps its translation.            *)
LEMMA MappingKept ==
    ASSUME TypeOK, NEW t \in Tasks, User(t) \/ Handler(t) \/ Memory(t),
           NEW u \in Tasks, NEW va \in Nat, Mapped(u, va), Stays(va)
    PROVE  Mapped(u, va)' /\ Pa(u, va)' = Pa(u, va)
<1> SUFFICES frame'[u][PageOf(va)] = frame[u][PageOf(va)]
  BY DEF Mapped, Pa
<1>1. CASE UNCHANGED frame
  BY <1>1
<1>2. ASSUME NEW p \in Pages, NEW f \in Frames, PageIn(t, p, f)
      PROVE  frame'[u][PageOf(va)] = frame[u][PageOf(va)]
  BY <1>2 DEF PageIn, Mapped, TypeOK
<1>3. CASE Memory(t)
  <2>1. ASSUME NEW p \in Reclaimable, PageOut(t, p)
        PROVE  frame'[u][PageOf(va)] = frame[u][PageOf(va)]
    BY <2>1, LkmAssumption DEF PageOut, Mapped, Stays, TypeOK
  <2> QED
    BY <1>2, <1>3, <2>1 DEF Memory
<1>4. CASE User(t)
  BY <1>1, <1>4 DEF User, InitRefuse, InitAccept, ExitFlush, Trap
<1>5. CASE Handler(t)
  BY <1>1, <1>5
     DEF Handler, InitLine, InitLineAt, InitLineFails, InitStoreSva, InitStoreEva,
         InitStoreFlag, ExitStoreSva, ExitStoreEva, ExitStoreFlag, PreloadSkip,
         PreloadNeeded, PreloadSets, PreloadFirst, PreloadLine, PreloadEnd, PreloadDone, LoadHit,
         LoadMiss, LookupZ, LookupUnrelated, LookupRelated, Refill
<1> QED
  BY <1>3, <1>4, <1>5

(* A task whose place, locals and row stay keeps its part of TableInv.     *)
LEMMA TableKept ==
    ASSUME TypeOK, NEW t \in Tasks, User(t) \/ Handler(t) \/ Memory(t),
           NEW u \in Tasks, EntriesFiled(u),
           sdata_l2_arr'[get_pid_idx(u)] = sdata_l2_arr[get_pid_idx(u)]
    PROVE  /\ EntriesFiled(u)'
           /\ LookupOK(u) /\ pc'[u] = pc[u] /\ loc'[u] = loc[u] => LookupOK(u)'
<1>1. \A i \in Indices : Entry(u, i)' = Entry(u, i) /\ Entry(u, i).va \in Nat
  BY SlotOfTask DEF Entry, TypeOK, Datas
<1>2. EntriesFiled(u)'
  BY <1>1, MappingKept DEF EntriesFiled
<1>3. loc[u].va_z \in Nat
  BY DEF TypeOK, Locals
<1>4. ASSUME LookupOK(u), pc'[u] = pc[u], loc'[u] = loc[u]
      PROVE  LookupOK(u)'
  <2>1. At(u, "check_z") => loc[u].set2 \in Indices
    BY DEF TypeOK
  <2>2. At(u, "refill") => /\ Mapped(u, loc[u].va_z)'
                           /\ Pa(u, loc[u].va_z)' = Pa(u, loc[u].va_z)
    BY <1>3, <1>4, MappingKept DEF LookupOK
  <2> QED
    BY <1>1, <1>4, <2>1, <2>2 DEF LookupOK, At
<1> QED
  BY <1>2, <1>4

LEMMA L2RowsKept ==
    ASSUME NEW t \in Tasks, User(t) \/ Handler(t) \/ Memory(t), ~InitLine(t)
    PROVE  sdata_l2_arr' = sdata_l2_arr
BY DEF User, Handler, Memory, InitRefuse, InitAccept, ExitFlush, Trap, PageIn, PageOut,
       InitLineFails, InitStoreSva, InitStoreEva, InitStoreFlag, ExitStoreSva,
       ExitStoreEva, ExitStoreFlag, PreloadSkip, PreloadNeeded, PreloadSets,
       PreloadFirst, PreloadLine, PreloadEnd, PreloadDone, LoadHit, LoadMiss, LookupZ,
       LookupUnrelated, LookupRelated, Refill, tables

LEMMA TableOwnStep ==
    ASSUME SectionsStay, TypeOK, NEW t \in Tasks, EntriesFiled(t), LookupOK(t),
           User(t) \/ Handler(t) \/ Memory(t)
    PROVE  EntriesFiled(t)' /\ LookupOK(t)'
<1>0. get_pid_idx(t) \in Slots
  BY SlotOfTask
<1>1. CASE InitLine(t)
  <2>0. PICK va \in Nat : va = loc[t].va
    BY DEF TypeOK, Locals
  <2>1. Mapped(t, va) /\ pc[t] = "init_line" /\ pc'[t] = "init_line"
    BY <1>1, <2>0 DEF InitLine, InitLineAt, At, TypeOK
  <2>7. Stays(va)
    BY <1>1, <2>0, <2>1 DEF InitLine, InitLineAt, LookupOK, At, SectionsStay
  <2>8. loc'[t].q = loc[t].q /\ loc'[t].va = va + CACHE_LINE_SIZE
    BY <1>1, <2>0 DEF InitLine, InitLineAt, TypeOK, Locals
  <2>9. loc'[t].q \in Requests /\ LineOf(loc'[t].q.dsva) <= loc'[t].va
    <3>1. loc[t].q \in Requests /\ LineOf(loc[t].q.dsva) <= va
      BY <2>0, <2>1 DEF LookupOK, At
    <3>2. LineOf(loc[t].q.dsva) \in Nat
      BY <3>1, LkmAssumption, LineOfNat
    <3> QED
      BY <2>8, <3>1, <3>2, GeometryAssumption
  <2>2. PICK set2 \in Indices : set2 = L2SetIdx(Pa(t, va))
    BY <2>1, PaNat, SetNat
  <2>3. \A i \in Indices : Entry(t, i)'.va = IF i = set2 THEN va ELSE Entry(t, i).va
    BY <1>0, <1>1, <2>0, <2>2 DEF InitLine, InitLineAt, Entry, TypeOK
  <2>4. \A i \in Indices : Entry(t, i).va \in Nat
    BY <1>0 DEF Entry, TypeOK, Datas
  <2>5. Mapped(t, va)' /\ Pa(t, va)' = Pa(t, va)
    BY <1>1, <2>1, <2>7, MappingKept DEF Handler
  <2>6. EntriesFiled(t)'
    <3> SUFFICES ASSUME NEW i \in Indices, (Entry(t, i).va # 0)'
                 PROVE  (/\ Mapped(t, Entry(t, i).va) /\ Stays(Entry(t, i).va)
                         /\ L2SetIdx(Pa(t, Entry(t, i).va)) = i)'
      BY DEF EntriesFiled
    <3>1. CASE i = set2
      <4>1. (Entry(t, i).va)' = va
        BY <2>3, <3>1
      <4> QED
        BY <2>2, <2>5, <2>7, <3>1, <4>1 DEF Mapped, Pa, Stays
    <3>2. CASE i # set2
      <4>1. PICK w \in Nat : w = Entry(t, i).va
        BY <2>4
      <4>2. (Entry(t, i).va)' = w
        BY <2>3, <3>2, <4>1
      <4>3. Mapped(t, w) /\ Stays(w) /\ L2SetIdx(Pa(t, w)) = i
        BY <4>1, <4>2 DEF EntriesFiled
      <4>4. Mapped(t, w)' /\ Pa(t, w)' = Pa(t, w)
        BY <1>1, <4>3, MappingKept DEF Handler
      <4> QED
        BY <4>2, <4>3, <4>4 DEF Mapped, Pa, Stays
    <3> QED
      BY <3>1, <3>2
  <2> QED
    BY <2>1, <2>6, <2>9 DEF LookupOK, At
<1>2. ASSUME ~InitLine(t)
      PROVE  sdata_l2_arr' = sdata_l2_arr
  BY <1>2, L2RowsKept
<1>3. ASSUME ~InitLine(t)
      PROVE  /\ EntriesFiled(t)'
             /\ pc'[t] = pc[t] /\ loc'[t] = loc[t] => LookupOK(t)'
  BY <1>2, <1>3, TableKept
<1>4. CASE LookupZ(t)
  <2>1. pc'[t] = "check_z" /\ ~InitLine(t)
    BY <1>4 DEF LookupZ, InitLine, InitLineAt, Goto, At, TypeOK
  <2>2. PICK pa \in ConvertIgnored(t, loc[t].x) :
           loc' = [loc EXCEPT ![t] = [@ EXCEPT !.pa = pa, !.set2 = L2SetIdx(pa),
                                               !.va_z = Entry(t, L2SetIdx(pa)).va]]
    BY <1>4 DEF LookupZ, Entry
  <2>3. /\ loc'[t].pa = pa /\ loc'[t].set2 = L2SetIdx(pa)
        /\ loc'[t].va_z = Entry(t, L2SetIdx(pa)).va
    BY <2>2 DEF TypeOK, Locals
  <2>4. sdata_l2_arr' = sdata_l2_arr
    BY <1>2, <2>1
  <2> QED
    BY <1>3, <2>1, <2>3, <2>4 DEF LookupOK, Entry, At
<1>5. CASE LookupRelated(t)
  <2> DEFINE z == loc[t].va_z
             set2 == loc[t].set2
  <2>1. /\ pc[t] = "check_z" /\ pc'[t] = "refill"
        /\ set2 \in Indices /\ loc[t].pa \in Nat /\ z \in Nat
        /\ Entry(t, set2).va # 0
        /\ loc'[t].va_z = z /\ loc'[t].set2 = set2 /\ loc'[t].set1 = L1SetIdx(loc[t].pa)
        /\ frame' = frame
    BY <1>5 DEF LookupRelated, Goto, At, TypeOK, Locals, Entry
  <2>2. z = Entry(t, set2).va /\ set2 = L2SetIdx(loc[t].pa)
    BY <2>1 DEF LookupOK, At
  <2>3. Mapped(t, z) /\ Stays(z) /\ L2SetIdx(Pa(t, z)) = set2
    BY <2>1, <2>2 DEF EntriesFiled
  <2>4. L1SetIdx(Pa(t, z)) = L1SetIdx(loc[t].pa)
    BY <2>1, <2>2, <2>3, PaNat, SameL2SameL1
  <2>5. ~InitLine(t)
    BY <2>1 DEF InitLine, InitLineAt, At
  <2>6. Mapped(t, z)' /\ Pa(t, z)' = Pa(t, z)
    BY <2>1, <2>3 DEF Mapped, Pa
  <2> QED
    BY <1>3, <2>1, <2>3, <2>4, <2>5, <2>6 DEF LookupOK, At, Mapped, Pa, Stays
<1>6. CASE ~InitLine(t) /\ ~LookupZ(t) /\ ~LookupRelated(t)
  <2>1. CASE Memory(t)
    BY <1>3, <1>6, <2>1 DEF Memory, PageIn, PageOut
  <2>2. CASE pc'[t] \notin {"init_line", "check_z", "refill"}
    BY <1>3, <1>6, <2>2 DEF LookupOK, At
  <2>3. CASE User(t)
    <3>1. ASSUME NEW q \in Requests, InitAccept(t, q) PROVE LookupOK(t)'
      <4>1. /\ pc'[t] = "init_line" /\ loc'[t].q = q /\ loc'[t].va = LineOf(q.dsva)
        BY <3>1 DEF InitAccept, Goto, TypeOK, Locals
      <4>2. LineOf(q.dsva) \in Nat
        BY LkmAssumption, LineOfNat
      <4> QED
        BY <4>1, <4>2 DEF LookupOK, At
    <3>2. ASSUME NEW q \in Requests, ExitFlush(t, q) PROVE LookupOK(t)'
      BY <1>6, <2>2, <3>2 DEF ExitFlush, Goto, TypeOK
    <3>3. ASSUME NEW x \in Accesses, Trap(t, x) PROVE LookupOK(t)'
      BY <1>6, <2>2, <3>3 DEF Trap, Goto, TypeOK
    <3> QED
      BY <1>3, <1>6, <2>3, <3>1, <3>2, <3>3 DEF User, InitRefuse
  <2>4. CASE Handler(t)
    BY <1>6, <2>2, <2>4
       DEF Handler, InitLineFails, InitStoreSva, InitStoreEva, InitStoreFlag, ExitStoreSva,
           ExitStoreEva, ExitStoreFlag, PreloadSkip, PreloadNeeded, PreloadSets,
           PreloadFirst, PreloadLine, PreloadEnd, PreloadDone, LoadHit, LoadMiss, LookupUnrelated,
           Refill, Return, Goto, At, TypeOK
  <2> QED
    BY <2>1, <2>3, <2>4
<1> QED
  BY <1>1, <1>4, <1>5, <1>6

LEMMA TableStep ==
    ASSUME SlotsDistinct, SectionsStay, TypeOK, TableInv, [Next]_vars
    PROVE  TableInv'
<1>1. CASE UNCHANGED vars
  BY <1>1 DEF vars, tables, TableInv, EntriesFiled, LookupOK, Entry, Mapped, Pa, At, Stays
<1>2. ASSUME NEW t \in Tasks, User(t) \/ Handler(t) \/ Memory(t), NEW u \in Tasks
      PROVE  EntriesFiled(u)' /\ LookupOK(u)'
  <2>1. EntriesFiled(u) /\ LookupOK(u)
    BY DEF TableInv
  <2>2. CASE u = t
    BY <1>2, <2>1, <2>2, TableOwnStep
  <2>3. CASE u # t
    <3>1. /\ pc'[u] = pc[u] /\ loc'[u] = loc[u]
          /\ sdata_l2_arr'[get_pid_idx(u)] = sdata_l2_arr[get_pid_idx(u)]
      BY <1>2, <2>3, OthersKept
    <3> QED
      BY <1>2, <2>1, <3>1, TableKept
  <2> QED
    BY <2>2, <2>3
<1> QED
  BY <1>1, <1>2 DEF Next, TableInv

(* With a row per thread and sections whose pages stay, the line a miss   *)
(* prefetches lies in the L2 and the L1 set that the handler flushed for   *)
(* it.                                                                     *)
THEOREM RefillSameSetHolds ==
    ASSUME SlotsDistinct, SectionsStay
    PROVE  Spec => []RefillSameSet
<1>1. Init => TypeOK /\ TableInv
  BY TypeInit, TableInit
<1>2. TypeOK /\ TableInv /\ [Next]_vars => (TypeOK /\ TableInv)'
  BY TypeStep, TableStep
<1>3. TableInv => RefillSameSet
  BY DEF TableInv, LookupOK, RefillSameSet
<1> QED
  BY <1>1, <1>2, <1>3, PTL DEF Spec

-----------------------------------------------------------------------------
(* What INIT and the preload have done for an open section: its lines are  *)
(* prefetched and the L2 table answers for them.                           *)

Z(t, va) == Entry(t, L2SetIdx(Pa(t, va))).va

(* The lines of sva .. eva before `to' are mapped on pages that stay, and  *)
(* the entry of each one's set names it or a later line of the section.    *)
Covered(t, sva, to, eva) ==
    \A va \in Lines(sva, to) :
        /\ Mapped(t, va) /\ Stays(va)
        /\ Z(t, va) \in Lines(sva, eva) /\ Z(t, va) >= va

(* INIT fills the table line by line before it stores the region.          *)
InitProgress(t) ==
    LET sva == LineOf(loc[t].q.dsva)
        eva == LineOf(loc[t].q.deva)
        va == loc[t].va
    IN /\ At(t, "init_line") => /\ (va % CACHE_LINE_SIZE) = 0 /\ sva <= va
                                /\ Covered(t, sva, va, eva)
       /\ pc[t] \in {"init_eva", "init_flag"} => Covered(t, sva, eva, eva)

RegionCovered(t) == Open(t) => Covered(t, Region(t).sva, Region(t).eva, Region(t).eva)

(* The first trap prefetches line by line before it stores preload_flag,   *)
(* and no load is emulated before that.                                    *)
PreloadProgress(t) ==
    LET r == Region(t)
        va == loc[t].va
    IN /\ Loading(t) => r.preload_flag = 1
       /\ Open(t) /\ (r.preload_flag = 1 \/ At(t, "preload_done")) =>
              RegionLines(t) \subseteq Had(t)
       /\ Open(t) /\ At(t, "preload_line") =>
              /\ (va % CACHE_LINE_SIZE) = 0
              /\ \A w \in RegionLines(t) : w < va => w \in Had(t)

SectionOK(t) == InitProgress(t) /\ RegionCovered(t) /\ PreloadProgress(t)
SectionInv == \A t \in Tasks : SectionOK(t)

LEMMA SectionInit == Init => SectionInv
BY SlotOfTask DEF Init, SectionInv, SectionOK, InitProgress, RegionCovered, PreloadProgress,
                  Open, Loading, At

-----------------------------------------------------------------------------
(* Covered lines.                                                          *)

LEMMA LinesNat ==
    ASSUME NEW sva \in Nat, NEW eva \in Nat, NEW va \in Lines(sva, eva)
    PROVE  va \in Nat /\ (va % CACHE_LINE_SIZE) = 0 /\ sva <= va /\ va < eva
BY DEF Lines

(* The lines before the next one are the lines before this one and this.   *)
LEMMA LinesUpTo ==
    ASSUME NEW sva \in Nat, NEW to \in Nat, (to % CACHE_LINE_SIZE) = 0,
           NEW va \in Lines(sva, to + CACHE_LINE_SIZE)
    PROVE  va = to \/ va \in Lines(sva, to)
<1>1. to + CACHE_LINE_SIZE \in Nat
  BY GeometryAssumption
<1>2. va \in Nat /\ (va % CACHE_LINE_SIZE) = 0 /\ sva <= va /\ va < to + CACHE_LINE_SIZE
  BY <1>1, LinesNat
<1>3. va <= to
  BY <1>2, NextLine
<1> QED
  BY <1>2, <1>3 DEF Lines

(* Coverage survives every step that leaves the task's L2 row alone.       *)
LEMMA CoveredKept ==
    ASSUME TypeOK, NEW t \in Tasks, User(t) \/ Handler(t) \/ Memory(t),
           NEW u \in Tasks, NEW sva \in Nat, NEW to \in Nat, NEW eva \in Nat,
           Covered(u, sva, to, eva),
           sdata_l2_arr'[get_pid_idx(u)] = sdata_l2_arr[get_pid_idx(u)]
    PROVE  Covered(u, sva, to, eva)'
<1> SUFFICES ASSUME NEW va \in Lines(sva, to)
             PROVE  /\ Mapped(u, va)' /\ Stays(va)
                    /\ Z(u, va)' \in Lines(sva, eva) /\ Z(u, va)' >= va
  BY DEF Covered, Stays
<1>1. va \in Nat
  BY LinesNat
<1>2. /\ Mapped(u, va) /\ Stays(va)
      /\ Z(u, va) \in Lines(sva, eva) /\ Z(u, va) >= va
  BY DEF Covered
<1>3. Mapped(u, va)' /\ Pa(u, va)' = Pa(u, va)
  BY <1>1, <1>2, MappingKept
<1>4. Z(u, va)' = Z(u, va)
  BY <1>3 DEF Z, Entry
<1> QED
  BY <1>2, <1>3, <1>4

(* One turn of INIT's loop covers one more line; an entry it overwrites    *)
(* names a later line of the same section from then on.                    *)
LEMMA InitLineCovers ==
    ASSUME SectionsStay, TypeOK, NEW t \in Tasks, PhaseOK(t), SectionOK(t), InitLine(t)
    PROVE  InitProgress(t)'
<1>1. PICK q, va : q = loc[t].q /\ va = loc[t].va
  OBVIOUS
<1>2. PICK sva, eva : sva = LineOf(q.dsva) /\ eva = LineOf(q.deva)
  OBVIOUS
<1>3. /\ q \in Requests /\ sva \in Nat /\ eva \in Nat /\ va \in Nat
      /\ pc[t] = "init_line" /\ pc'[t] = "init_line" /\ Mapped(t, va) /\ va < eva
  <2>1. pc[t] = "init_line" /\ pc'[t] = "init_line" /\ Mapped(t, va) /\ va < eva
    BY <1>1, <1>2 DEF InitLine, InitLineAt, At
  <2>2. q \in Requests /\ va \in Nat
    BY <1>1, <2>1 DEF PhaseOK, Registering, TypeOK, Locals
  <2> QED
    BY <1>2, <2>1, <2>2, RequestNat
<1>4. (va % CACHE_LINE_SIZE) = 0 /\ sva <= va /\ Covered(t, sva, va, eva)
  BY <1>1, <1>3, <1>2 DEF SectionOK, InitProgress, At
<1>5. loc'[t].q = q /\ loc'[t].va = va + CACHE_LINE_SIZE
  BY <1>1 DEF InitLine, InitLineAt, TypeOK, Locals
<1>6. /\ Stays(va)
      /\ va \in Lines(sva, eva)
  BY <1>3, <1>4, <1>2 DEF SectionsStay, Lines
<1>7. PICK set2 \in Indices : set2 = L2SetIdx(Pa(t, va))
  BY <1>3, PaNat, SetNat
<1>8. \A n \in Indices : Entry(t, n)'.va = IF n = set2 THEN va ELSE Entry(t, n).va
  BY <1>1, <1>7, SlotOfTask DEF InitLine, InitLineAt, Entry, TypeOK
<1>9. ASSUME NEW w \in Nat, Mapped(t, w), Stays(w)
      PROVE  /\ Mapped(t, w)'
             /\ Z(t, w)' = IF L2SetIdx(Pa(t, w)) = set2 THEN va ELSE Z(t, w)
  <2>1. Mapped(t, w)' /\ Pa(t, w)' = Pa(t, w)
    BY <1>9, MappingKept DEF Handler
  <2>2. L2SetIdx(Pa(t, w)) \in Indices
    BY <1>9, PaNat, SetNat
  <2> QED
    BY <1>8, <2>1, <2>2 DEF Z, Entry
<1>10. ASSUME NEW w \in Lines(sva, va + CACHE_LINE_SIZE)
      PROVE  /\ Mapped(t, w)' /\ Stays(w)
             /\ Z(t, w)' \in Lines(sva, eva) /\ Z(t, w)' >= w
  <2>1. CASE w = va
    BY <1>3, <1>6, <1>7, <1>9, <2>1
  <2>2. CASE w \in Lines(sva, va)
    <3>1. /\ Mapped(t, w) /\ Stays(w) /\ Z(t, w) \in Lines(sva, eva) /\ Z(t, w) >= w
      BY <1>4, <2>2 DEF Covered
    <3>2. w \in Nat /\ w < va
      BY <1>3, <2>2, LinesNat
    <3> QED
      BY <1>3, <1>6, <1>9, <3>1, <3>2
  <2> QED
    BY <1>3, <1>4, <2>1, <2>2, LinesUpTo
<1>11. Covered(t, sva, va + CACHE_LINE_SIZE, eva)'
  BY <1>10 DEF Covered, Stays
<1>12. ((va + CACHE_LINE_SIZE) % CACHE_LINE_SIZE) = 0 /\ sva <= va + CACHE_LINE_SIZE
  BY <1>3, <1>4, NextLine, GeometryAssumption
<1> QED
  BY <1>3, <1>5, <1>11, <1>12, <1>2 DEF InitProgress, At
(* A section stays open on the same region until its EXIT.                 *)
LEMMA OpenKept ==
    ASSUME TypeOK, NEW t \in Tasks, PhaseOK(t), User(t) \/ Handler(t) \/ Memory(t),
           Open(t)', ~InitStoreFlag(t)
    PROVE  /\ Open(t) /\ ~Registering(t) /\ ~Leaving(t)
           /\ Region(t)'.sva = Region(t).sva /\ Region(t)'.eva = Region(t).eva
<1>0. get_pid_idx(t) \in Slots
  BY SlotOfTask
<1>1. Open(t)
  <2>1. CASE User(t) \/ Memory(t)
    BY <2>1 DEF User, Memory, InitRefuse, InitAccept, ExitFlush, Trap, PageIn, PageOut,
                TypeOK, Open
  <2>2. CASE Handler(t)
    BY <2>2
       DEF Handler, InitLine, InitLineAt, InitLineFails, InitStoreSva, InitStoreEva,
           ExitStoreSva, ExitStoreEva, ExitStoreFlag, PreloadSkip, PreloadNeeded,
           PreloadSets, PreloadFirst, PreloadLine, PreloadEnd, PreloadDone, LoadHit, LoadMiss, LookupZ,
           LookupUnrelated, LookupRelated, Refill, Open
  <2> QED
    BY <2>1, <2>2
<1>2. ~Registering(t) /\ ~Leaving(t)
  BY <1>1 DEF PhaseOK
<1>3. CASE PreloadDone(t)
  BY <1>0, <1>1, <1>2, <1>3 DEF PreloadDone, StoreRegion, Region, TypeOK
<1>4. CASE ~PreloadDone(t)
  <2>1. sdata_region' = sdata_region
    BY <1>2, <1>4
       DEF User, Memory, Handler, InitRefuse, InitAccept, ExitFlush, Trap, PageIn, PageOut,
           InitLine, InitLineAt, InitLineFails, InitStoreSva, InitStoreEva, ExitStoreSva,
           ExitStoreEva, ExitStoreFlag, PreloadSkip, PreloadNeeded, PreloadSets,
           PreloadFirst, PreloadLine, PreloadEnd, LoadHit, LoadMiss, LookupZ, LookupUnrelated,
           LookupRelated, Refill, tables, Registering, Leaving, At
  <2> QED
    BY <1>1, <1>2, <2>1 DEF Region
<1> QED
  BY <1>3, <1>4

LEMMA InitProgressKept ==
    ASSUME SectionsStay, TypeOK, NEW t \in Tasks, PhaseOK(t), SectionOK(t),
           User(t) \/ Handler(t) \/ Memory(t)
    PROVE  InitProgress(t)'
<1>1. CASE InitLine(t)
  BY <1>1, InitLineCovers
<1>2. CASE ~InitLine(t)
  <2>1. ASSUME NEW sva \in Nat, NEW to \in Nat, NEW eva \in Nat, Covered(t, sva, to, eva)
        PROVE  Covered(t, sva, to, eva)'
    BY <1>2, <2>1, CoveredKept, L2RowsKept
  <2>2. CASE ~Registering(t)'
    BY <2>2 DEF InitProgress, Registering, At
  <2>3. ASSUME Registering(t), loc'[t].q = loc[t].q
        PROVE  /\ LineOf(loc[t].q.dsva) \in Nat /\ LineOf(loc[t].q.deva) \in Nat
               /\ loc[t].va \in Nat
    BY <2>3, RequestNat DEF PhaseOK, TypeOK, Locals
  <2>4. CASE Memory(t) \/ InitRefuse(t)
    <3>1. pc' = pc /\ loc' = loc
      BY <2>4 DEF Memory, PageIn, PageOut, InitRefuse
    <3> QED
      BY <2>1, <2>3, <3>1 DEF SectionOK, InitProgress, Registering, At
  <2>5. ASSUME NEW q \in Requests, InitAccept(t, q) PROVE InitProgress(t)'
    <3>1. loc'[t].q = q /\ loc'[t].va = LineOf(q.dsva) /\ pc'[t] = "init_line"
      BY <2>5 DEF InitAccept, Goto, TypeOK, Locals
    <3>2. LineOf(q.dsva) \in Nat /\ (LineOf(q.dsva) % CACHE_LINE_SIZE) = 0
      BY RequestNat, LineOfAligned
    <3>3. Lines(LineOf(q.dsva), LineOf(q.dsva)) = {}
      BY <3>2 DEF Lines
    <3> QED
      BY <3>1, <3>2, <3>3 DEF InitProgress, Covered, At
  <2>6. CASE InitStoreSva(t)
    <3> DEFINE sva == LineOf(loc[t].q.dsva)
               eva == LineOf(loc[t].q.deva)
    <3>1. /\ pc[t] = "init_line" /\ pc'[t] = "init_eva" /\ loc' = loc /\ loc[t].va >= eva
      BY <2>6 DEF InitStoreSva, Goto, At, TypeOK
    <3>2. Covered(t, sva, loc[t].va, eva) /\ sva \in Nat /\ eva \in Nat /\ loc[t].va \in Nat
      BY <2>3, <3>1 DEF SectionOK, InitProgress, At, Registering
    <3>3. Lines(sva, eva) \subseteq Lines(sva, loc[t].va)
      BY <3>1, <3>2 DEF Lines
    <3>4. Covered(t, sva, eva, eva)
      BY <3>2, <3>3 DEF Covered
    <3>5. Covered(t, sva, eva, eva)'
      BY <2>1, <3>1, <3>2, <3>4
    <3> QED
      BY <3>1, <3>5 DEF InitProgress, At
  <2>7. CASE InitStoreEva(t)
    <3>1. pc[t] = "init_eva" /\ pc'[t] = "init_flag" /\ loc' = loc
      BY <2>7 DEF InitStoreEva, Goto, At, TypeOK
    <3> QED
      BY <2>1, <2>3, <3>1 DEF SectionOK, InitProgress, Registering, At
  <2>8. CASE User(t) \/ Handler(t)
    BY <1>2, <2>2, <2>4, <2>5, <2>6, <2>7, <2>8
       DEF User, Handler, ExitFlush, Trap, InitLineFails, InitStoreFlag, ExitStoreSva,
           ExitStoreEva, ExitStoreFlag, PreloadSkip, PreloadNeeded, PreloadSets,
           PreloadFirst, PreloadLine, PreloadEnd, PreloadDone, LoadHit, LoadMiss, LookupZ,
           LookupUnrelated, LookupRelated, Refill, Return, Goto, At, TypeOK, Registering
  <2> QED
    BY <2>4, <2>8
<1> QED
  BY <1>1, <1>2

LEMMA RegionCoveredKept ==
    ASSUME TypeOK, NEW t \in Tasks, PhaseOK(t), SectionOK(t),
           User(t) \/ Handler(t) \/ Memory(t)
    PROVE  RegionCovered(t)'
<1> SUFFICES ASSUME Open(t)'
             PROVE  Covered(t, Region(t).sva, Region(t).eva, Region(t).eva)'
  BY DEF RegionCovered
<1>1. CASE InitStoreFlag(t)
  <2>1. PICK sva \in Nat, eva \in Nat : Region(t).sva = sva /\ Region(t).eva = eva
    BY SlotOfTask DEF Region, TypeOK
  <2>2. Covered(t, sva, eva, eva)
    BY <1>1, <2>1 DEF InitStoreFlag, SectionOK, InitProgress, PhaseOK, At
  <2>3. Region(t)'.sva = sva /\ Region(t)'.eva = eva
    BY <1>1, <2>1, SlotOfTask DEF InitStoreFlag, StoreRegion, Region, TypeOK
  <2>4. Covered(t, sva, eva, eva)'
    BY <1>1, <2>2, CoveredKept DEF InitStoreFlag, Handler
  <2> QED
    BY <2>3, <2>4
<1>2. CASE ~InitStoreFlag(t)
  <2>1. PICK sva \in Nat, eva \in Nat : Region(t).sva = sva /\ Region(t).eva = eva
    BY SlotOfTask DEF Region, TypeOK
  <2>2. Open(t) /\ ~Registering(t) /\ Region(t)'.sva = sva /\ Region(t)'.eva = eva
    BY <1>2, <2>1, OpenKept
  <2>3. Covered(t, sva, eva, eva)
    BY <2>1, <2>2 DEF SectionOK, RegionCovered
  <2>4. ~InitLine(t)
    BY <2>2 DEF Registering, InitLine, InitLineAt, At
  <2>5. Covered(t, sva, eva, eva)'
    BY <2>3, <2>4, CoveredKept, L2RowsKept
  <2> QED
    BY <2>2, <2>5
<1> QED
  BY <1>1, <1>2
-----------------------------------------------------------------------------
(* The preload.                                                            *)

(* The lines of an open section are numbers, mapped, on pages that stay.   *)
LEMMA RegionLinesStay ==
    ASSUME TypeOK, NEW t \in Tasks, Open(t), SectionOK(t), NEW va \in RegionLines(t)
    PROVE  va \in Nat /\ (va % CACHE_LINE_SIZE) = 0 /\ Mapped(t, va) /\ Stays(va)
<1>1. Region(t).sva \in Nat /\ Region(t).eva \in Nat
  BY SlotOfTask DEF Region, TypeOK
<1> QED
  BY <1>1, LinesNat DEF RegionLines, SectionOK, RegionCovered, Covered

(* No step of the task takes a line of its open section out of those that  *)
(* have been prefetched for it.                                            *)
LEMMA PrefetchedKept ==
    ASSUME TypeOK, NEW t \in Tasks, PhaseOK(t), SectionOK(t),
           User(t) \/ Handler(t) \/ Memory(t), Open(t)', ~InitStoreFlag(t)
    PROVE  /\ RegionLines(t)' = RegionLines(t)
           /\ \A va \in RegionLines(t) : va \in Had(t) => va \in Had(t)'
<1>1. /\ Open(t) /\ ~Registering(t) /\ ~Leaving(t)
      /\ Region(t)'.sva = Region(t).sva /\ Region(t)'.eva = Region(t).eva
  BY OpenKept
<1>2. RegionLines(t)' = RegionLines(t)
  BY <1>1 DEF RegionLines
<1>3. CASE Memory(t)
  <2>1. \A va \in RegionLines(t) : Stays(va)
    BY <1>1, RegionLinesStay
  <2> QED
    BY <1>2, <1>3, <2>1 DEF Memory, PageIn, PageOut, Stays, TypeOK, Had
<1>4. CASE User(t)
  <2>1. UNCHANGED <<prefetched, lost>>
    BY <1>4, <1>1 DEF User, InitRefuse, InitAccept, ExitFlush, Trap, Open, TypeOK
  <2> QED
    BY <1>2, <2>1 DEF Had
<1>5. CASE Handler(t)
  <2>1. CASE PreloadLine(t) \/ Refill(t)
    <3>1. PICK va \in Nat : Prefetch(t, va)
      BY <2>1 DEF Refill, PreloadLine, TypeOK, Locals
    <3> QED
      BY <1>2, <3>1, PrefetchEffect
  <2>2. CASE ~(PreloadLine(t) \/ Refill(t))
    <3>1. UNCHANGED <<prefetched, lost>>
      BY <1>1, <1>5, <2>2
         DEF Handler, InitLine, InitLineAt, InitLineFails, InitStoreSva, InitStoreEva,
             ExitStoreSva, ExitStoreEva, ExitStoreFlag, PreloadSkip, PreloadNeeded,
             PreloadSets, PreloadFirst, PreloadEnd, PreloadDone, LoadHit, LoadMiss,
             LookupZ, LookupUnrelated, LookupRelated, Registering, At
    <3> QED
      BY <1>2, <3>1 DEF Had
  <2> QED
    BY <2>1, <2>2
<1> QED
  BY <1>3, <1>4, <1>5

(* The flag of a row that no step of INIT, EXIT or the preload stores.     *)
LEMMA FlagKept ==
    ASSUME TypeOK, NEW t \in Tasks, User(t) \/ Handler(t) \/ Memory(t),
           ~InitStoreFlag(t), ~ExitStoreFlag(t), ~PreloadDone(t)
    PROVE  Region(t)'.preload_flag = Region(t).preload_flag
<1>0. get_pid_idx(t) \in Slots
  BY SlotOfTask
<1>1. CASE InitStoreSva(t) \/ InitStoreEva(t) \/ ExitStoreSva(t) \/ ExitStoreEva(t)
  BY <1>0, <1>1 DEF InitStoreSva, InitStoreEva, ExitStoreSva, ExitStoreEva, StoreRegion,
                    Region, TypeOK
<1>2. CASE ~(InitStoreSva(t) \/ InitStoreEva(t) \/ ExitStoreSva(t) \/ ExitStoreEva(t))
  <2>1. sdata_region' = sdata_region
    BY <1>2
       DEF User, Memory, Handler, InitRefuse, InitAccept, ExitFlush, Trap, PageIn, PageOut,
           InitLine, InitLineAt, InitLineFails, PreloadSkip, PreloadNeeded, PreloadSets,
           PreloadFirst, PreloadLine, PreloadEnd, LoadHit, LoadMiss, LookupZ, LookupUnrelated,
           LookupRelated, Refill, tables
  <2> QED
    BY <2>1 DEF Region
<1> QED
  BY <1>1, <1>2

LEMMA PreloadProgressKept ==
    ASSUME TypeOK, NEW t \in Tasks, OwnsRegion(t), PhaseOK(t), SectionOK(t),
           User(t) \/ Handler(t) \/ Memory(t)
    PROVE  PreloadProgress(t)'
<1> DEFINE Done == Open(t) /\ (Region(t).preload_flag = 1 \/ At(t, "preload_done"))
                      => RegionLines(t) \subseteq Had(t)
           Sofar == Open(t) /\ At(t, "preload_line") =>
              /\ (loc[t].va % CACHE_LINE_SIZE) = 0
              /\ \A w \in RegionLines(t) : w < loc[t].va => w \in Had(t)
<1>0. /\ Loading(t) => Region(t).preload_flag = 1
      /\ Done /\ Sofar
  BY DEF SectionOK, PreloadProgress
<1>1. SUFFICES /\ Loading(t)' => Region(t)'.preload_flag = 1
               /\ Done' /\ Sofar'
  BY DEF PreloadProgress
<1>2. /\ Region(t).sva \in Nat /\ Region(t).eva \in Nat /\ loc[t].va \in Nat
      /\ Region(t).preload_flag \in {0, 1} /\ get_pid_idx(t) \in Slots
  BY SlotOfTask DEF Region, TypeOK, Locals
<1>3. CASE InitStoreFlag(t) \/ ExitStoreFlag(t)
  <2>1. pc'[t] = "idle"
    BY <1>3 DEF InitStoreFlag, ExitStoreFlag, Return, Goto, TypeOK
  <2>2. Region(t)'.preload_flag = 0
    BY <1>2, <1>3 DEF InitStoreFlag, ExitStoreFlag, StoreRegion, Region, TypeOK
  <2> QED
    BY <2>1, <2>2 DEF Loading, At
<1>4. CASE PreloadDone(t)
  <2>1. pc[t] = "preload_done" /\ pc'[t] = "load"
    BY <1>4 DEF PreloadDone, Goto, At, TypeOK
  <2>2. Region(t)'.preload_flag = 1
    BY <1>2, <1>4 DEF PreloadDone, StoreRegion, Region, TypeOK
  <2>3. ~InitStoreFlag(t)
    BY <2>1 DEF InitStoreFlag, At
  <2>4. ASSUME Open(t)' PROVE RegionLines(t)' \subseteq Had(t)'
    <3>1. Open(t)
      BY <2>3, <2>4, OpenKept
    <3> QED
      BY <1>0, <2>1, <2>3, <2>4, <3>1, PrefetchedKept DEF At
  <2> QED
    BY <2>1, <2>2, <2>4 DEF At
<1>6. CASE PreloadEnd(t)
  <2>1. pc[t] = "preload_line" /\ pc'[t] = "preload_done" /\ loc[t].va >= Region(t).eva
    BY <1>6 DEF PreloadEnd, Goto, At, TypeOK
  <2>2. ~InitStoreFlag(t) /\ ~ExitStoreFlag(t) /\ ~PreloadDone(t)
    BY <2>1 DEF InitStoreFlag, ExitStoreFlag, PreloadDone, At
  <2>3. Region(t)'.preload_flag = Region(t).preload_flag
    BY <2>2, FlagKept
  <2>4. ASSUME Open(t)' PROVE RegionLines(t)' \subseteq Had(t)'
    <3>1. Open(t)
      BY <2>2, <2>4, OpenKept
    <3>2. \A w \in RegionLines(t) : w < loc[t].va
      BY <1>2, <2>1, LinesNat DEF RegionLines
    <3> QED
      BY <1>0, <2>1, <2>2, <2>4, <3>1, <3>2, PrefetchedKept DEF At
  <2>5. ~Loading(t)'
    BY <2>1 DEF Loading
  <2> QED
    BY <2>1, <2>4, <2>5 DEF At
<1>5. CASE ~(InitStoreFlag(t) \/ ExitStoreFlag(t) \/ PreloadDone(t) \/ PreloadEnd(t))
  <2>1. Region(t)'.preload_flag = Region(t).preload_flag
    BY <1>5, FlagKept
  <2>11. At(t, "preload_done")' => At(t, "preload_done")
    BY <1>5
       DEF User, Memory, Handler, InitRefuse, InitAccept, ExitFlush, Trap, PageIn, PageOut,
           InitLine, InitLineAt, InitLineFails, InitStoreSva, InitStoreEva, ExitStoreSva,
           ExitStoreEva, PreloadSkip, PreloadNeeded, PreloadSets, PreloadFirst,
           PreloadLine, LoadHit, LoadMiss, LookupZ, LookupUnrelated, LookupRelated,
           Refill, Return, Goto, At, TypeOK
  <2>2. Done'
    BY <1>0, <1>5, <2>1, <2>11, OpenKept, PrefetchedKept
  <2>3. CASE pc' = pc /\ loc' = loc
    BY <1>0, <1>5, <2>1, <2>2, <2>3, OpenKept, PrefetchedKept DEF Loading, At
  <2>4. CASE PreloadSkip(t)
    <3>1. pc'[t] = "load" /\ Region(t).preload_flag = 1
      BY <1>2, <2>4 DEF PreloadSkip, Goto, TypeOK
    <3> QED
      BY <2>1, <2>2, <3>1 DEF At
  <2>5. CASE PreloadFirst(t)
    <3>1. pc'[t] = "preload_line" /\ loc'[t].va = Region(t).sva
      BY <1>2, <2>5 DEF PreloadFirst, Goto, TypeOK, Locals
    <3>2. ASSUME Open(t)'
          PROVE  /\ (Region(t).sva % CACHE_LINE_SIZE) = 0
                 /\ \A w \in RegionLines(t)' : ~(w < Region(t).sva)
      <4>1. Open(t) /\ RegionLines(t)' = RegionLines(t)
        BY <1>5, <3>2, OpenKept, PrefetchedKept
      <4>2. PICK q \in Requests : q = granted[t]
        BY <4>1 DEF Open, TypeOK
      <4>3. Region(t).sva = LineOf(q.dsva) /\ q.dsva \in Nat
        BY <4>1, <4>2, RequestNat DEF OwnsRegion
      <4>4. (LineOf(q.dsva) % CACHE_LINE_SIZE) = 0
        BY <4>3, LineOfAligned
      <4>5. \A w \in RegionLines(t) : w \in Nat /\ Region(t).sva <= w
        BY <1>2, LinesNat DEF RegionLines
      <4> QED
        BY <1>2, <4>1, <4>3, <4>4, <4>5
    <3> QED
      BY <2>2, <3>1, <3>2 DEF Loading, At
  <2>6. CASE PreloadLine(t)
    <3>1. /\ pc'[t] = "preload_line" /\ pc[t] = "preload_line"
          /\ loc'[t].va = loc[t].va + CACHE_LINE_SIZE
          /\ Prefetch(t, loc[t].va)
      BY <2>6 DEF PreloadLine, At, TypeOK, Locals
    <3>2. ASSUME Open(t)'
          PROVE  /\ ((loc[t].va + CACHE_LINE_SIZE) % CACHE_LINE_SIZE) = 0
                 /\ \A w \in RegionLines(t)' :
                        w < loc[t].va + CACHE_LINE_SIZE => w \in Had(t)'
      <4>1. Open(t) /\ RegionLines(t)' = RegionLines(t)
        BY <1>5, <3>2, OpenKept, PrefetchedKept
      <4>2. /\ (loc[t].va % CACHE_LINE_SIZE) = 0
            /\ \A w \in RegionLines(t) : w < loc[t].va => w \in Had(t)
        BY <1>0, <3>1, <4>1 DEF At
      <4>3. ASSUME NEW w \in RegionLines(t), w < loc[t].va + CACHE_LINE_SIZE
            PROVE  w \in Had(t)'
        <5>1. w \in Nat /\ (w % CACHE_LINE_SIZE) = 0 /\ Mapped(t, w)
          BY <4>1, RegionLinesStay
        <5>2. w <= loc[t].va
          BY <1>2, <4>2, <4>3, <5>1, NextLine
        <5>3. /\ Had(t) \subseteq Had(t)'
              /\ Mapped(t, loc[t].va) => loc[t].va \in prefetched'[t]
          BY <1>2, <3>1, PrefetchEffect
        <5>4. CASE w = loc[t].va
          BY <5>1, <5>3, <5>4 DEF Had
        <5>5. CASE w < loc[t].va
          BY <4>2, <5>3, <5>5
        <5> QED
          BY <1>2, <5>1, <5>2, <5>4, <5>5
      <4> QED
        BY <1>2, <4>1, <4>2, <4>3, NextLine
    <3> QED
      BY <2>2, <3>1, <3>2 DEF Loading, At
  <2>7. CASE LoadMiss(t) \/ LookupZ(t) \/ LookupRelated(t)
    <3>1. Loading(t) /\ pc'[t] # "preload_line"
      BY <2>7 DEF LoadMiss, LookupZ, LookupRelated, Loading, Goto, At, TypeOK
    <3> QED
      BY <1>0, <2>1, <2>2, <3>1 DEF At
  <2>8. CASE User(t)
    BY <2>2, <2>3, <2>8 DEF User, InitRefuse, InitAccept, ExitFlush, Trap, Goto, Loading,
                            At, TypeOK
  <2>9. CASE Memory(t)
    BY <2>3, <2>9 DEF Memory, PageIn, PageOut
  <2>10. CASE Handler(t) /\ ~(PreloadSkip(t) \/ PreloadFirst(t) \/ PreloadLine(t)
                             \/ LoadMiss(t) \/ LookupZ(t) \/ LookupRelated(t))
    <3>1. ~Loading(t)' /\ pc'[t] # "preload_line"
      BY <1>5, <2>10
         DEF Handler, InitLine, InitLineAt, InitLineFails, InitStoreSva, InitStoreEva,
             ExitStoreSva, ExitStoreEva, PreloadNeeded, PreloadSets, LoadHit,
             LookupUnrelated, Refill, Return, Goto, Loading, At, TypeOK
    <3> QED
      BY <2>2, <3>1 DEF At
  <2> QED
    BY <2>4, <2>5, <2>6, <2>7, <2>8, <2>9, <2>10
<1> QED
  BY <1>3, <1>4, <1>5, <1>6

-----------------------------------------------------------------------------
LEMMA SectionStep ==
    ASSUME SlotsDistinct, SectionsStay, TypeOK, RegistrationInv, SectionInv, [Next]_vars
    PROVE  SectionInv'
<1>1. CASE UNCHANGED vars
  BY <1>1 DEF vars, tables, SectionInv, SectionOK, InitProgress, RegionCovered,
              PreloadProgress, Covered, Z, Entry, Mapped, Pa, Stays, Open, Loading,
              RegionLines, Region, At, Had
<1>2. ASSUME NEW t \in Tasks, User(t) \/ Handler(t) \/ Memory(t), NEW u \in Tasks
      PROVE  SectionOK(u)'
  <2>1. SectionOK(u) /\ OwnsRegion(u) /\ PhaseOK(u)
    BY DEF SectionInv, RegistrationInv, OpenOwnsRegion, OwnsRegion
  <2>2. CASE u = t
    BY <1>2, <2>1, <2>2, InitProgressKept, RegionCoveredKept, PreloadProgressKept
       DEF SectionOK
  <2>3. CASE u # t
    <3>1. /\ pc'[u] = pc[u] /\ loc'[u] = loc[u] /\ granted'[u] = granted[u]
          /\ sdata_region'[get_pid_idx(u)] = sdata_region[get_pid_idx(u)]
          /\ sdata_l2_arr'[get_pid_idx(u)] = sdata_l2_arr[get_pid_idx(u)]
          /\ frame'[u] = frame[u] /\ Had(u)' = Had(u)
      BY <1>2, <2>3, OthersKept
    <3> QED
      BY <2>1, <3>1 DEF SectionOK, InitProgress, RegionCovered, PreloadProgress, Covered, Z,
                        Entry, Mapped, Pa, Stays, Open, Loading, RegionLines, Region, At
  <2> QED
    BY <2>2, <2>3
<1> QED
  BY <1>1, <1>2 DEF Next, SectionInv

LEMMA SectionInductive ==
    ASSUME SlotsDistinct, SectionsStay
    PROVE  Spec => [](TypeOK /\ RegistrationInv /\ SectionInv)
<1>1. Init => TypeOK /\ RegistrationInv /\ SectionInv
  BY TypeInit, RegistrationInit, SectionInit
<1>2. TypeOK /\ RegistrationInv /\ SectionInv /\ [Next]_vars
         => (TypeOK /\ RegistrationInv /\ SectionInv)'
  BY TypeStep, RegistrationStep, SectionStep
<1> QED
  BY <1>1, <1>2, PTL DEF Spec

(* With a row per thread and sections whose pages stay, no load is         *)
(* emulated for an open section before the preload has prefetched every    *)
(* line of it, and of these only INIT and EXIT of other tasks on the same  *)
(* memory have flushed one by address since.  Whatever pages the tasks     *)
(* have in common: the theorem bounds what such a command can undo.        *)
THEOREM SectionPreloadedHolds ==
    ASSUME SlotsDistinct, SectionsStay
    PROVE  Spec => []SectionPreloaded
<1>1. SectionInv => SectionPreloaded
  BY DEF SectionInv, SectionOK, PreloadProgress, SectionPreloaded, Had
<1> QED
  BY <1>1, SectionInductive, PTL

(* No two tasks have memory in common.                                     *)
FramesApart ==
    \A t \in Tasks, u \in Tasks, p \in Pages, r \in Pages :
        frame[t][p] = frame[u][r] /\ frame[t][p] # NoFrame => t = u

NothingLost == \A t \in Tasks : lost[t] = {}

LEMMA FlushedOwn ==
    ASSUME TypeOK, FramesApart, NothingLost, NEW t \in Tasks, NEW vas \in SUBSET Nat,
           Flush(t, vas)
    PROVE  NothingLost'
<1> SUFFICES ASSUME NEW u \in Tasks, u # t PROVE FlushedOf(u, t, vas) = {}
  BY DEF Flush, NothingLost
<1>1. ASSUME NEW va \in prefetched[u], NEW w \in vas, Mapped(t, w), Mapped(u, va),
             Pa(u, va) = Pa(t, w)
      PROVE  FALSE
  <2>1. va \in Nat /\ w \in Nat
    BY DEF TypeOK
  <2>2. /\ Pa(u, va) \div PAGE_SIZE = frame[u][PageOf(va)]
        /\ Pa(t, w) \div PAGE_SIZE = frame[t][PageOf(w)]
    BY <1>1, <2>1, FrameOfPa
  <2> QED
    BY <1>1, <2>2 DEF FramesApart, Mapped
<1> QED
  BY <1>1 DEF FlushedOf

LEMMA NothingLostStep ==
    ASSUME TypeOK, FramesApart, RegistrationInv, NothingLost, [Next]_vars
    PROVE  NothingLost'
<1>1. CASE UNCHANGED vars
  BY <1>1 DEF vars, NothingLost
<1>2. ASSUME NEW t \in Tasks, User(t) \/ Handler(t) \/ Memory(t)
      PROVE  NothingLost'
  <2>1. CASE InitLine(t)
    <3>1. {loc[t].va} \in SUBSET Nat /\ Flush(t, {loc[t].va})
      BY <2>1 DEF InitLine, InitLineAt, TypeOK, Locals
    <3> QED
      BY <3>1, FlushedOwn
  <2>2. ASSUME NEW q \in Requests, ExitFlush(t, q) PROVE NothingLost'
    <3>1. PICK vas \in SUBSET Nat : Flush(t, vas)
      <4>1. Lines(LineOf(q.dsva), LineOf(q.deva)) \in SUBSET Nat
        BY RequestNat, LinesNat
      <4> QED
        BY <2>2, <4>1 DEF ExitFlush
    <3> QED
      BY <3>1, FlushedOwn
  <2>3. CASE PreloadLine(t) \/ Refill(t) \/ InitStoreFlag(t)
    BY <2>3 DEF PreloadLine, Refill, Prefetch, InitStoreFlag, NothingLost, TypeOK
  <2>4. CASE lost' = lost
    BY <2>4 DEF NothingLost
  <2> QED
    BY <1>2, <2>1, <2>2, <2>3, <2>4
       DEF User, Handler, Memory, InitRefuse, InitAccept, Trap, PageIn, PageOut,
           InitLineFails, InitStoreSva, InitStoreEva, ExitStoreSva, ExitStoreEva,
           ExitStoreFlag, PreloadSkip, PreloadNeeded, PreloadSets, PreloadFirst,
           PreloadEnd, PreloadDone, LoadHit, LoadMiss, LookupZ, LookupUnrelated,
           LookupRelated
<1> QED
  BY <1>1, <1>2 DEF Next

(* Without memory in common the exception is empty: every line of an open  *)
(* section is prefetched, and not flushed by address since, whenever a     *)
(* load of the section is emulated (addr.c:146-163, sb_lkm.c:65, 123).     *)
THEOREM ApartPreloaded ==
    ASSUME SlotsDistinct, SectionsStay
    PROVE  Spec /\ []FramesApart
             => [](\A t \in Tasks : Open(t) /\ Loading(t) => RegionLines(t) \subseteq prefetched[t])
<1>1. Init => NothingLost
  BY DEF Init, NothingLost
<1>2. TypeOK /\ RegistrationInv /\ FramesApart /\ NothingLost /\ [Next]_vars => NothingLost'
  BY NothingLostStep
<1>3. SectionInv /\ NothingLost
        => \A t \in Tasks : Open(t) /\ Loading(t) => RegionLines(t) \subseteq prefetched[t]
  BY DEF SectionInv, SectionOK, PreloadProgress, Had, NothingLost
<1> QED
  BY <1>1, <1>2, <1>3, SectionInductive, PTL DEF Spec

(* Under the same hypotheses the L2 table answers for every line of an     *)
(* open section with that line or a later line of the section.             *)
THEOREM SectionCoveredHolds ==
    ASSUME SlotsDistinct, SectionsStay
    PROVE  Spec => []SectionCovered
<1>1. SectionInv => SectionCovered
  BY DEF SectionInv, SectionOK, RegionCovered, Covered, Z, Entry, SectionCovered, RegionLines
<1> QED
  BY <1>1, SectionInductive, PTL
=============================================================================
