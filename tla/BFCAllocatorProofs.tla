------------------------- MODULE BFCAllocatorProofs -------------------------
(***************************************************************************)
(* Proofs about BFCAllocator, for any number of threads, any sizes and any *)
(* amount of memory: the structures that describe the memory agree, blocks *)
(* in use do not overlap, and memory that would do is found.               *)
(***************************************************************************)
EXTENDS BFCAllocator, SubsequenceProofs, FiniteSetTheorems

(***************************************************************************)
(* Recursive functions, and the arithmetic of sizes.                       *)
(***************************************************************************)

\* f solves the recursion that stops with base, or goes on at next and adds inc.
Solves(f, D, Stop, base, next, inc) ==
    \A v \in D : f[v] = IF v \in Stop THEN base[v] ELSE inc[v] + f[next[v]]

\* It has a solution if going on lowers a rank.
LEMMA RecursionExists ==
  ASSUME NEW D, NEW rank \in [D -> Nat], NEW Stop, NEW base \in [D -> Int], NEW next \in [D -> D],
         NEW inc \in [D -> Int], \A v \in D \ Stop : rank[next[v]] < rank[v]
  PROVE  \E f \in [D -> Int] : Solves(f, D, Stop, base, next, inc)
  <1> DEFINE Low(k) == {v \in D : rank[v] < k}
             Part(f, k) == \A v \in Low(k) : f[v] = IF v \in Stop THEN base[v] ELSE inc[v] + f[next[v]]
             T == {k \in Nat : \E f \in [D -> Int] : Part(f, k)}
  <1>1. 0 \in T
    <2>1. Low(0) = {}
      OBVIOUS
    <2>2. Part(base, 0)
      BY <2>1
    <2> QED
      BY <2>2
  <1>2. ASSUME NEW k \in Nat, k \in T PROVE k + 1 \in T
    <2>1. PICK f \in [D -> Int] : Part(f, k)
      BY <1>2
    <2> DEFINE g == [v \in D |-> IF rank[v] < k THEN f[v]
                                 ELSE IF v \in Stop THEN base[v] ELSE inc[v] + f[next[v]]]
    <2>2. g \in [D -> Int]
      OBVIOUS
    <2>3. ASSUME NEW v \in D, rank[v] < k + 1, v \notin Stop PROVE rank[next[v]] < k /\ g[next[v]] = f[next[v]]
      <3>1. rank[next[v]] < rank[v] /\ next[v] \in D /\ rank[v] \in Nat /\ rank[next[v]] \in Nat
        BY <2>3
      <3>2. rank[next[v]] < k
        BY <2>3, <3>1
      <3> QED
        BY <3>1, <3>2
    <2>4. Part(g, k + 1)
      <3> SUFFICES ASSUME NEW v \in D, rank[v] < k + 1
                   PROVE  g[v] = IF v \in Stop THEN base[v] ELSE inc[v] + g[next[v]]
        OBVIOUS
      <3>1. CASE rank[v] < k
        <4>1. g[v] = f[v]
          BY <3>1
        <4>2. f[v] = IF v \in Stop THEN base[v] ELSE inc[v] + f[next[v]]
          BY <2>1, <3>1
        <4> QED
          BY <4>1, <4>2, <2>3
      <3>2. CASE ~(rank[v] < k)
        BY <3>2, <2>3
      <3> QED
        BY <3>1, <3>2
    <2> HIDE DEF g
    <2> QED
      BY <2>2, <2>4
  <1>3. Nat \subseteq T
    <2> HIDE DEF T
    <2> QED
      BY <1>1, <1>2, Induction
  <1> DEFINE F(k) == CHOOSE f \in [D -> Int] : Part(f, k)
  <1>4. \A k \in Nat : F(k) \in [D -> Int] /\ Part(F(k), k)
    BY <1>3
  <1>5. ASSUME NEW k \in Nat, NEW l \in Nat PROVE \A v \in Low(k) \cap Low(l) : F(k)[v] = F(l)[v]
    <2> DEFINE f == F(k)
               g == F(l)
               S == {i \in Nat : \A v \in Low(k) \cap Low(l) : rank[v] < i => f[v] = g[v]}
    <2>0. Part(f, k) /\ Part(g, l)
      BY <1>4
    <2> HIDE DEF f, g
    <2>1. 0 \in S
      OBVIOUS
    <2>2. ASSUME NEW i \in Nat, i \in S PROVE i + 1 \in S
      <3> SUFFICES ASSUME NEW v \in Low(k) \cap Low(l), rank[v] < i + 1 PROVE f[v] = g[v]
        OBVIOUS
      <3>1. CASE v \in Stop
        BY <2>0, <3>1
      <3>2. CASE v \notin Stop
        <4>1. rank[next[v]] < rank[v] /\ next[v] \in D /\ rank[v] \in Nat /\ rank[next[v]] \in Nat
          BY <3>2
        <4>2. next[v] \in Low(k) \cap Low(l) /\ rank[next[v]] < i
          BY <4>1
        <4>3. f[next[v]] = g[next[v]]
          BY <2>2, <4>2
        <4> QED
          BY <2>0, <3>2, <4>3
      <3> QED
        BY <3>1, <3>2
    <2>3. Nat \subseteq S
      <3> HIDE DEF S
      <3> QED
        BY <2>1, <2>2, Induction
    <2>4. ASSUME NEW v \in Low(k) \cap Low(l) PROVE f[v] = g[v]
      <3>1. rank[v] + 1 \in Nat /\ rank[v] < rank[v] + 1
        OBVIOUS
      <3>2. rank[v] + 1 \in S
        BY <2>3, <3>1
      <3> QED
        BY <3>1, <3>2
    <2> QED
      BY <2>4 DEF f, g
  <1> HIDE DEF F
  <1> DEFINE h == [v \in D |-> F(rank[v] + 1)[v]]
  <1>6. h \in [D -> Int]
    BY <1>4
  <1>7. ASSUME NEW v \in D PROVE h[v] = IF v \in Stop THEN base[v] ELSE inc[v] + h[next[v]]
    <2>1. rank[v] + 1 \in Nat /\ v \in Low(rank[v] + 1) /\ h[v] = F(rank[v] + 1)[v]
      OBVIOUS
    <2>2. h[v] = IF v \in Stop THEN base[v] ELSE inc[v] + F(rank[v] + 1)[next[v]]
      BY <1>4, <2>1
    <2>3. CASE v \notin Stop
      <3>1. rank[next[v]] < rank[v] /\ next[v] \in D /\ rank[v] \in Nat /\ rank[next[v]] \in Nat
        BY <2>3
      <3>2. next[v] \in Low(rank[v] + 1) /\ next[v] \in Low(rank[next[v]] + 1) /\ rank[next[v]] + 1 \in Nat
        BY <3>1
      <3>3. F(rank[v] + 1)[next[v]] = F(rank[next[v]] + 1)[next[v]]
        BY <1>5, <2>1, <3>2
      <3> QED
        BY <2>2, <2>3, <3>1, <3>3
    <2> QED
      BY <2>2, <2>3
  <1> HIDE DEF h
  <1> QED
    BY <1>6, <1>7 DEF Solves

\* The recursion of Log2Floor.
LEMMA Log2Equation ==
  /\ Log2Floor \in [Nat -> Int]
  /\ \A v \in Nat : Log2Floor[v] = IF v < 2 THEN 0 ELSE 1 + Log2Floor[v \div 2]
  <1> DEFINE rank == [v \in Nat |-> v]
             Stop == {v \in Nat : v < 2}
             base == [v \in Nat |-> 0]
             next == [v \in Nat |-> v \div 2]
             inc  == [v \in Nat |-> 1]
             Body(f) == [v \in Nat |-> IF v < 2 THEN 0 ELSE 1 + f[v \div 2]]
  <1>1. \A v \in Nat : v \div 2 \in Nat /\ (v >= 2 => v \div 2 < v)
    OBVIOUS
  <1>2. /\ rank \in [Nat -> Nat] /\ base \in [Nat -> Int] /\ next \in [Nat -> Nat] /\ inc \in [Nat -> Int]
        /\ \A v \in Nat \ Stop : rank[next[v]] < rank[v]
    BY <1>1
  <1>3. PICK f \in [Nat -> Int] : Solves(f, Nat, Stop, base, next, inc)
    <2> HIDE DEF rank, Stop, base, next, inc
    <2> QED
      BY <1>2, RecursionExists
  <1>4. f = Body(f)
    <2>1. \A v \in Nat : f[v] = IF v < 2 THEN 0 ELSE 1 + f[v \div 2]
      BY <1>1, <1>3 DEF Solves
    <2> QED
      BY <2>1
  <1>5. Log2Floor = Body(Log2Floor)
    BY <1>4, Zenon DEF Log2Floor
  <1>6. \A v \in Nat : Log2Floor[v] = IF v < 2 THEN 0 ELSE 1 + Log2Floor[v \div 2]
    BY <1>5
  <1> DEFINE T == {k \in Nat : \A v \in Nat : v <= k => Log2Floor[v] \in Int}
  <1>7. 0 \in T
    BY <1>6
  <1>8. ASSUME NEW k \in Nat, k \in T PROVE k + 1 \in T
    <2> SUFFICES ASSUME NEW v \in Nat, v <= k + 1 PROVE Log2Floor[v] \in Int
      OBVIOUS
    <2>1. CASE v < 2
      BY <1>6, <2>1
    <2>2. CASE v >= 2
      <3>1. v \div 2 \in Nat /\ v \div 2 <= k
        BY <2>2, <1>1
      <3> QED
        BY <1>6, <1>8, <2>2, <3>1
    <2> QED
      BY <2>1, <2>2
  <1>9. Nat \subseteq T
    <2> HIDE DEF T
    <2> QED
      BY <1>7, <1>8, Induction
  <1>10. \A v \in Nat : Log2Floor[v] \in Int
    BY <1>9
  <1>11. Log2Floor \in [Nat -> Int]
    BY <1>5, <1>10
  <1> QED
    BY <1>6, <1>11

\* A larger number has no smaller logarithm.
LEMMA Log2Monotone ==
  ASSUME NEW v \in Nat, NEW w \in Nat, v <= w
  PROVE  0 <= Log2Floor[v] /\ Log2Floor[v] <= Log2Floor[w]
  <1> DEFINE T == {k \in Nat : \A x, y \in Nat : x <= y /\ y <= k => 0 <= Log2Floor[x] /\ Log2Floor[x] <= Log2Floor[y]}
  <1>0. \A x \in Nat : /\ Log2Floor[x] \in Int /\ x \div 2 \in Nat
                       /\ Log2Floor[x] = IF x < 2 THEN 0 ELSE 1 + Log2Floor[x \div 2]
    BY Log2Equation
  <1>1. 0 \in T
    BY <1>0
  <1>2. ASSUME NEW k \in Nat, k \in T PROVE k + 1 \in T
    <2> SUFFICES ASSUME NEW x \in Nat, NEW y \in Nat, x <= y, y <= k + 1
                 PROVE  0 <= Log2Floor[x] /\ Log2Floor[x] <= Log2Floor[y]
      OBVIOUS
    <2>1. CASE y < 2
      BY <1>0, <2>1
    <2>2. CASE y >= 2
      <3>1. x \div 2 <= y \div 2 /\ y \div 2 <= k
        BY <2>2
      <3>2. 0 <= Log2Floor[x \div 2] /\ Log2Floor[x \div 2] <= Log2Floor[y \div 2]
        BY <1>0, <1>2, <3>1
      <3> QED
        BY <1>0, <2>2, <3>2
    <2> QED
      BY <2>1, <2>2
  <1>3. Nat \subseteq T
    <2> HIDE DEF T
    <2> QED
      BY <1>1, <1>2, Induction
  <1> QED
    BY <1>3

\* The bins of sizes.
LEMMA BinFacts ==
  ASSUME NEW n \in Nat
  PROVE  /\ BinNumForSize(n) \in 0..kNumBins - 1 /\ kInvalidBinNum \notin 0..kNumBins - 1
         /\ \A k \in Nat : n <= k => BinNumForSize(n) <= BinNumForSize(k)
  <1> DEFINE v(x) == (IF x < 256 THEN 256 ELSE x) \div 256
  <1>1. \A x \in Nat : v(x) \in Nat
    OBVIOUS
  <1>2. \A x, y \in Nat : x <= y => v(x) <= v(y)
    OBVIOUS
  <1>3. \A x \in Nat : BinNumForSize(x) = IF 20 < Log2Floor[v(x)] THEN 20 ELSE Log2Floor[v(x)]
    BY DEF BinNumForSize, Lesser, kNumBins, kMinAllocationSize
  <1> HIDE DEF v
  <1>4. \A x \in Nat : Log2Floor[v(x)] \in Int
    BY <1>1, Log2Equation
  <1>5. \A x, y \in Nat : x <= y => 0 <= Log2Floor[v(x)] /\ Log2Floor[v(x)] <= Log2Floor[v(y)]
    BY <1>1, <1>2, Log2Monotone
  <1>6. BinNumForSize(n) \in 0..kNumBins - 1
    <2> DEFINE l == Log2Floor[v(n)]
    <2>1. l \in Int /\ 0 <= l /\ BinNumForSize(n) = IF 20 < l THEN 20 ELSE l
      BY <1>3, <1>4, <1>5
    <2> HIDE DEF l
    <2> QED
      BY <2>1 DEF kNumBins
  <1>7. \A k \in Nat : n <= k => BinNumForSize(n) <= BinNumForSize(k)
    BY <1>3, <1>4, <1>5
  <1> QED
    BY <1>6, <1>7 DEF kNumBins, kInvalidBinNum

\* Rounding up.
LEMMA RoundedFacts ==
  ASSUME NEW n \in Nat
  PROVE  /\ RoundedBytes(n) \in Nat /\ n <= RoundedBytes(n) /\ RoundedBytes(n) < n + kMinAllocationSize
         /\ (n > 0 => RoundedBytes(n) > 0) /\ RoundedBytes(n) % kMinAllocationSize = 0
         /\ \A k \in Nat : n <= k => RoundedBytes(n) <= RoundedBytes(k)
  <1>1. RoundedBytes(n) \in Nat /\ n <= RoundedBytes(n) /\ RoundedBytes(n) < n + kMinAllocationSize
    BY DEF RoundedBytes, kMinAllocationSize
  <1>2. RoundedBytes(n) % kMinAllocationSize = 0
    BY DEF RoundedBytes, kMinAllocationSize
  <1>3. \A k \in Nat : n <= k => RoundedBytes(n) <= RoundedBytes(k)
    BY DEF RoundedBytes, kMinAllocationSize
  <1> QED
    BY <1>1, <1>2, <1>3

\* Doubling ends with enough.
LEMMA EnoughFacts ==
  ASSUME NEW m, NEW n \in Nat, m.curr_region_allocation_bytes \in Nat \ {0}
  PROVE  /\ Enough(m, n) \in Nat \ {0} /\ n <= Enough(m, n)
         /\ m.curr_region_allocation_bytes <= Enough(m, n)
         /\ (m.curr_region_allocation_bytes % 256 = 0 => Enough(m, n) % 256 = 0)
  <1> DEFINE rank == [v \in Nat |-> IF n > v THEN n - v ELSE 0]
             Stop == {v \in Nat : ~(n > v) \/ v = 0}
             base == [v \in Nat |-> v]
             next == [v \in Nat |-> 2 * v]
             inc  == [v \in Nat |-> 0]
             Body(f) == [b \in Nat |-> IF n > b THEN f[2 * b] ELSE b]
             d == CHOOSE f : f = Body(f)
  <1>1. \A v \in Nat : 2 * v \in Nat
    OBVIOUS
  <1>2. /\ rank \in [Nat -> Nat] /\ base \in [Nat -> Int] /\ next \in [Nat -> Nat] /\ inc \in [Nat -> Int]
        /\ \A v \in Nat \ Stop : rank[next[v]] < rank[v]
    <2>1. \A v \in Nat : (IF n > v THEN n - v ELSE 0) \in Nat
      OBVIOUS
    <2>2. ASSUME NEW v \in Nat \ Stop PROVE rank[next[v]] < rank[v]
      <3>1. v \in Nat /\ n > v /\ v # 0 /\ 2 * v \in Nat /\ rank[v] = n - v
        OBVIOUS
      <3>2. rank[2 * v] = IF n > 2 * v THEN n - 2 * v ELSE 0
        BY <3>1
      <3>3. rank[next[v]] = rank[2 * v]
        BY <3>1
      <3> HIDE DEF rank, next
      <3> QED
        BY <3>1, <3>2, <3>3
    <2>3. rank \in [Nat -> Nat]
      BY <2>1
    <2> QED
      BY <1>1, <2>2, <2>3
  <1>3. PICK f \in [Nat -> Int] : Solves(f, Nat, Stop, base, next, inc)
    <2> HIDE DEF rank, Stop, base, next, inc
    <2> QED
      BY <1>2, RecursionExists
  <1>4. f = Body(f)
    <2>1. ASSUME NEW v \in Nat PROVE f[v] = IF n > v THEN f[2 * v] ELSE v
      <3>1. f[v] = IF ~(n > v) \/ v = 0 THEN v ELSE 0 + f[2 * v]
        BY <1>1, <1>3 DEF Solves
      <3>2. f[2 * v] \in Int
        BY <1>1
      <3> QED
        BY <3>1, <3>2
    <2> QED
      BY <2>1
  <1>5. d = Body(d)
    BY <1>4, Zenon
  <1> HIDE DEF d
  <1>6. \A v \in Nat : d[v] = IF n > v THEN d[2 * v] ELSE v
    BY <1>5
  <1> DEFINE T == {k \in Nat : \A v \in Nat \ {0} : n <= v + k =>
                      /\ d[v] \in Nat \ {0} /\ n <= d[v] /\ v <= d[v] /\ (v % 256 = 0 => d[v] % 256 = 0)}
  <1>7. 0 \in T
    BY <1>6
  <1>8. ASSUME NEW k \in Nat, k \in T PROVE k + 1 \in T
    <2> SUFFICES ASSUME NEW v \in Nat \ {0}, n <= v + (k + 1)
                 PROVE  d[v] \in Nat \ {0} /\ n <= d[v] /\ v <= d[v] /\ (v % 256 = 0 => d[v] % 256 = 0)
      OBVIOUS
    <2>1. CASE n > v
      <3>1. 2 * v \in Nat \ {0} /\ n <= 2 * v + k /\ v <= 2 * v /\ (v % 256 = 0 => (2 * v) % 256 = 0)
        BY <2>1
      <3>2. d[2 * v] \in Nat \ {0} /\ n <= d[2 * v] /\ 2 * v <= d[2 * v] /\ ((2 * v) % 256 = 0 => d[2 * v] % 256 = 0)
        BY <1>8, <3>1
      <3>3. d[v] = d[2 * v]
        BY <1>6, <2>1
      <3> QED
        BY <3>1, <3>2, <3>3
    <2>2. CASE ~(n > v)
      BY <1>6, <2>2
    <2> QED
      BY <2>1, <2>2
  <1>9. Nat \subseteq T
    <2> HIDE DEF T
    <2> QED
      BY <1>7, <1>8, Induction
  <1>10. n \in T
    BY <1>9
  <1>11. Enough(m, n) = d[m.curr_region_allocation_bytes]
    BY DEF Enough, d
  <1> QED
    BY <1>10, <1>11

\* Nine tenths, rounded up.
LEMMA LessFacts ==
  ASSUME NEW b \in Nat
  PROVE  Less(b) \in Nat /\ Less(b) % 256 = 0 /\ (b % 256 = 0 => Less(b) <= b)
  <1>1. (b * 9) \div 10 \in Nat /\ (b * 9) \div 10 <= b
    OBVIOUS
  <1> DEFINE x == (b * 9) \div 10
  <1> HIDE DEF x
  <1>2. Less(b) = RoundedBytes(x)
    BY DEF Less, x
  <1>3. x \in Nat /\ x <= b
    BY <1>1 DEF x
  <1>4. RoundedBytes(x) \in Nat /\ RoundedBytes(x) % 256 = 0 /\ RoundedBytes(x) <= RoundedBytes(b)
    BY <1>3, RoundedFacts DEF kMinAllocationSize
  <1>5. RoundedBytes(b) \in Nat /\ (b % 256 = 0 => RoundedBytes(b) = b)
    BY DEF RoundedBytes, kMinAllocationSize
  <1> QED
    BY <1>2, <1>4, <1>5

\* What the SubAllocator gives: what it is asked for or less, what it has, and
\* not less than n.
LEMMA SubAllocateFacts ==
  ASSUME NEW m, NEW bytes \in Nat, bytes % 256 = 0, NEW n \in Nat \ {0}, n <= bytes,
         physical \in Nat, m.total_region_allocated_bytes \in Nat, m.started_backpedal \in BOOLEAN
  PROVE  /\ SubAllocate(m, bytes, n) \in Int
         /\ SubAllocate(m, bytes, n) > 0 =>
              /\ n <= SubAllocate(m, bytes, n) /\ SubAllocate(m, bytes, n) <= bytes
              /\ SubAllocate(m, bytes, n) <= physical - m.total_region_allocated_bytes
              /\ SubAllocate(m, bytes, n) % 256 = 0
         /\ SubAllocate(m, bytes, n) > 0 =>
              SubAllocate(m, bytes, n) = bytes \/ ~m.started_backpedal
         /\ ~(SubAllocate(m, bytes, n) > 0) =>
              bytes > physical - m.total_region_allocated_bytes /\ SubAllocate(m, bytes, n) # bytes
  <1> DEFINE room == physical - m.total_region_allocated_bytes
             Stop == {b \in Nat : Less(b) < n \/ Less(b) <= room \/ Less(b) = b}
             rank == [b \in Nat |-> IF b % 256 = 0 THEN b ELSE Less(b) + 1]
             base == [b \in Nat |-> IF Less(b) < n THEN 0 ELSE IF Less(b) <= room THEN Less(b) ELSE -1]
             next == [b \in Nat |-> Less(b)]
             inc  == [b \in Nat |-> 0]
             Body(f) == [b \in Nat |-> IF Less(b) < n THEN 0
                                       ELSE IF Less(b) <= room THEN Less(b)
                                       ELSE IF Less(b) = b THEN -1 ELSE f[Less(b)]]
             d == CHOOSE f : f = Body(f)
  <1>0. \A b \in Nat : Less(b) \in Nat /\ Less(b) % 256 = 0 /\ (b % 256 = 0 => Less(b) <= b)
    BY LessFacts
  <1>r. room \in Int
    OBVIOUS
  <1> HIDE DEF room
  <1>2. /\ rank \in [Nat -> Nat] /\ base \in [Nat -> Int] /\ next \in [Nat -> Nat] /\ inc \in [Nat -> Int]
        /\ \A v \in Nat \ Stop : rank[next[v]] < rank[v]
    <2>1. \A b \in Nat : (IF b % 256 = 0 THEN b ELSE Less(b) + 1) \in Nat
      BY <1>0
    <2>2. \A b \in Nat : (IF Less(b) < n THEN 0 ELSE IF Less(b) <= room THEN Less(b) ELSE -1) \in Int
      BY <1>0
    <2>3. ASSUME NEW v \in Nat \ Stop PROVE rank[next[v]] < rank[v]
      <3>1. v \in Nat /\ Less(v) # v /\ Less(v) \in Nat /\ next[v] = Less(v)
        BY <1>0
      <3>2. rank[Less(v)] = Less(v)
        BY <1>0, <3>1
      <3>3. rank[v] = IF v % 256 = 0 THEN v ELSE Less(v) + 1
        OBVIOUS
      <3>4. v % 256 = 0 => Less(v) < v
        BY <1>0, <3>1
      <3> HIDE DEF rank, next
      <3> QED
        BY <3>1, <3>2, <3>3, <3>4
    <2>4. rank \in [Nat -> Nat]
      BY <2>1
    <2>5. base \in [Nat -> Int]
      BY <2>2
    <2>6. next \in [Nat -> Nat] /\ inc \in [Nat -> Int]
      BY <1>0
    <2> HIDE DEF rank, base, next, inc, Stop
    <2> QED
      BY <2>3, <2>4, <2>5, <2>6
  <1>3. PICK f \in [Nat -> Int] : Solves(f, Nat, Stop, base, next, inc)
    <2> HIDE DEF rank, Stop, base, next, inc
    <2> QED
      BY <1>2, RecursionExists
  <1>4. f = Body(f)
    <2>1. ASSUME NEW v \in Nat
          PROVE f[v] = IF Less(v) < n THEN 0 ELSE IF Less(v) <= room THEN Less(v)
                       ELSE IF Less(v) = v THEN -1 ELSE f[Less(v)]
      <3>0. Less(v) \in Nat /\ f[Less(v)] \in Int
        BY <1>0
      <3>1. f[v] = IF v \in Stop THEN base[v] ELSE inc[v] + f[next[v]]
        BY <1>3 DEF Solves
      <3>2. v \in Stop <=> Less(v) < n \/ Less(v) <= room \/ Less(v) = v
        OBVIOUS
      <3>3. base[v] = IF Less(v) < n THEN 0 ELSE IF Less(v) <= room THEN Less(v) ELSE -1
        OBVIOUS
      <3>4. inc[v] = 0 /\ next[v] = Less(v)
        OBVIOUS
      <3> HIDE DEF Stop, base, inc, next
      <3> QED
        BY <3>0, <3>1, <3>2, <3>3, <3>4
    <2> QED
      BY <2>1
  <1>5. d = Body(d)
    BY <1>4, Zenon
  <1> HIDE DEF d
  <1>6. \A v \in Nat : d[v] = IF Less(v) < n THEN 0 ELSE IF Less(v) <= room THEN Less(v)
                              ELSE IF Less(v) = v THEN -1 ELSE d[Less(v)]
    BY <1>5
  <1> DEFINE Good(v) == d[v] \in Int /\ (d[v] > 0 => n <= d[v] /\ d[v] <= v /\ d[v] <= room /\ d[v] % 256 = 0)
             T == {k \in Nat : \A v \in Nat : v <= k /\ v % 256 = 0 => Good(v)}
  <1>7. 0 \in T
    <2> SUFFICES ASSUME NEW v \in Nat, v <= 0 PROVE Good(v)
      OBVIOUS
    <2>1. v = 0 /\ Less(v) = 0
      BY <1>0
    <2> QED
      BY <1>6, <2>1
  <1>8. ASSUME NEW k \in Nat, k \in T PROVE k + 1 \in T
    <2> SUFFICES ASSUME NEW v \in Nat, v <= k + 1, v % 256 = 0 PROVE Good(v)
      OBVIOUS
    <2>0. Less(v) \in Nat /\ Less(v) <= v /\ Less(v) % 256 = 0
      BY <1>0
    <2>1. CASE Less(v) < n \/ Less(v) <= room \/ Less(v) = v
      BY <1>6, <2>0, <2>1
    <2>2. CASE ~(Less(v) < n \/ Less(v) <= room \/ Less(v) = v)
      <3>1. Less(v) <= k
        BY <2>0, <2>2
      <3>2. Good(Less(v))
        BY <1>8, <2>0, <3>1
      <3>3. d[v] = d[Less(v)]
        BY <1>6, <2>2
      <3> QED
        BY <2>0, <3>2, <3>3
    <2> QED
      BY <2>1, <2>2
  <1>9. Nat \subseteq T
    <2> HIDE DEF T
    <2> QED
      BY <1>7, <1>8, Induction
  <1>10. Good(bytes)
    BY <1>9
  <1>12. SubAllocate(m, bytes, n) = IF bytes <= room THEN bytes ELSE IF m.started_backpedal THEN 0 ELSE d[bytes]
    BY DEF SubAllocate, d, room
  <1>13. bytes > 0
    OBVIOUS
  <1> DEFINE r == SubAllocate(m, bytes, n)
  <1> HIDE DEF r
  <1>14. /\ r \in Int
         /\ r > 0 => n <= r /\ r <= bytes /\ r <= room /\ r % 256 = 0
         /\ r > 0 => r = bytes \/ ~m.started_backpedal
         /\ ~(r > 0) => bytes > room /\ r # bytes
    BY <1>r, <1>10, <1>12, <1>13 DEF r
  <1> QED
    BY <1>14 DEF r, room

(***************************************************************************)
(* The state of the allocator, and what the operators do to its fields.    *)
(***************************************************************************)
Chunk == [size : Nat, requested_size : Nat, allocation_id : Int, ptr : Int,
          prev : Int, next : Int, bin_num : Int]
Bin == 0..kNumBins - 1

\* m is a record with the fields of Init.
Field == {"chunks", "handles", "free_chunks_list", "bins", "regions", "curr_region_allocation_bytes",
          "total_region_allocated_bytes", "started_backpedal", "next_allocation_id", "bytes_in_use",
          "ok", "ret"}
IsMem(m) == m = [f \in Field |-> m[f]]

\* The fields that have to do with chunks have the right types.
Shape(m) ==
    /\ IsMem(m)
    /\ m.chunks \in [DOMAIN m.chunks -> Chunk] /\ \E n \in Nat : DOMAIN m.chunks = 0..n - 1
    /\ \A p \in DOMAIN m.handles : m.handles[p] \in DOMAIN m.chunks /\ m.chunks[m.handles[p]].ptr = p
    /\ m.bins \in [Bin -> SUBSET DOMAIN m.chunks]
    /\ m.free_chunks_list \in DOMAIN m.chunks \cup {kInvalidChunkHandle}

\* The other fields, unchanged.
Regions(m, r) ==
    /\ r.regions = m.regions
    /\ r.curr_region_allocation_bytes = m.curr_region_allocation_bytes
    /\ r.total_region_allocated_bytes = m.total_region_allocated_bytes
    /\ r.started_backpedal = m.started_backpedal
Counters(m, r) ==
    r.next_allocation_id = m.next_allocation_id /\ r.bytes_in_use = m.bytes_in_use /\ r.ret = m.ret
Lists(m, r) == r.handles = m.handles /\ r.free_chunks_list = m.free_chunks_list

\* Chunk h of m is in bin b, in r, and the bins are B.
BinSet(m, r, h, b, B, ok) ==
    /\ IsMem(r) /\ Regions(m, r) /\ Counters(m, r) /\ Lists(m, r)
    /\ r.bins = B /\ r.ok = ok
    /\ r.chunks = [m.chunks EXCEPT ![h] = [m.chunks[h] EXCEPT !.bin_num = b]]

\* A CHECK changes its own field only.
LEMMA CheckFields ==
  ASSUME NEW m, IsMem(m), NEW c
  PROVE  /\ IsMem(CHECK(m, c)) /\ Regions(m, CHECK(m, c)) /\ Counters(m, CHECK(m, c)) /\ Lists(m, CHECK(m, c))
         /\ CHECK(m, c).chunks = m.chunks /\ CHECK(m, c).bins = m.bins /\ CHECK(m, c).ok = (m.ok /\ c)
  <1>1. IsMem(CHECK(m, c)) /\ CHECK(m, c).ok = (m.ok /\ c)
    BY DEF CHECK, IsMem, Field
  <1>2. \A f \in Field \ {"ok"} : CHECK(m, c)[f] = m[f]
    BY DEF CHECK, IsMem, Field
  <1> QED
    BY <1>1, <1>2 DEF Regions, Counters, Lists, Field

\* What InsertFreeChunkIntoBin changes.
LEMMA InsertFields ==
  ASSUME NEW m, Shape(m), NEW h \in DOMAIN m.chunks
  PROVE  BinSet(m, InsertFreeChunkIntoBin(m, h), h, BinNumForSize(m.chunks[h].size),
                [m.bins EXCEPT ![BinNumForSize(m.chunks[h].size)] = @ \cup {h}],
                m.ok /\ ~in_use(m.chunks[h]) /\ m.chunks[h].bin_num = kInvalidBinNum)
  <1> DEFINE c == ~in_use(m.chunks[h]) /\ m.chunks[h].bin_num = kInvalidBinNum
             q == CHECK(m, c)
             b == BinNumForSize(m.chunks[h].size)
             r == InsertFreeChunkIntoBin(m, h)
  <1>1. /\ IsMem(q) /\ Regions(m, q) /\ Counters(m, q) /\ Lists(m, q)
        /\ q.chunks = m.chunks /\ q.bins = m.bins /\ q.ok = (m.ok /\ c)
    <2> HIDE DEF c
    <2>1. IsMem(m)
      BY DEF Shape
    <2> QED
      BY <2>1, CheckFields, Zenon
  <1>2. r = [q EXCEPT !.chunks[h].bin_num = b, !.bins[b] = @ \cup {h}]
    BY DEF InsertFreeChunkIntoBin
  <1> HIDE DEF q, b, r
  <1>3. /\ IsMem(r) /\ r.chunks = [q.chunks EXCEPT ![h] = [q.chunks[h] EXCEPT !.bin_num = b]]
        /\ r.bins = [q.bins EXCEPT ![b] = @ \cup {h}]
    BY <1>1, <1>2 DEF IsMem, Field
  <1>4. \A f \in Field \ {"chunks", "bins"} : r[f] = q[f]
    BY <1>1, <1>2 DEF IsMem, Field
  <1>5. Regions(q, r) /\ Counters(q, r) /\ Lists(q, r) /\ r.ok = q.ok
    BY <1>4 DEF Regions, Counters, Lists, Field
  <1>6. Regions(m, r) /\ Counters(m, r) /\ Lists(m, r)
    BY <1>1, <1>5 DEF Regions, Counters, Lists
  <1>7. BinSet(m, r, h, b, [m.bins EXCEPT ![b] = @ \cup {h}], m.ok /\ c)
    BY <1>1, <1>3, <1>5, <1>6 DEF BinSet
  <1> QED
    BY <1>7 DEF r, b

\* What RemoveFreeChunkFromBin changes.
LEMMA RemoveFields ==
  ASSUME NEW m, Shape(m), NEW h \in DOMAIN m.chunks
  PROVE  BinSet(m, RemoveFreeChunkFromBin(m, h), h, kInvalidBinNum,
                [m.bins EXCEPT ![m.chunks[h].bin_num] = @ \ {h}],
                m.ok /\ ~in_use(m.chunks[h]) /\ h \in m.bins[m.chunks[h].bin_num])
  <1> DEFINE b == m.chunks[h].bin_num
             c == ~in_use(m.chunks[h]) /\ h \in m.bins[b]
             q == CHECK(m, c)
             r == RemoveFreeChunkFromBin(m, h)
  <1>1. /\ IsMem(q) /\ Regions(m, q) /\ Counters(m, q) /\ Lists(m, q)
        /\ q.chunks = m.chunks /\ q.bins = m.bins /\ q.ok = (m.ok /\ c)
    <2> HIDE DEF c
    <2>1. IsMem(m)
      BY DEF Shape
    <2> QED
      BY <2>1, CheckFields, Zenon
  <1>2. r = [q EXCEPT !.bins[b] = @ \ {h}, !.chunks[h].bin_num = kInvalidBinNum]
    BY DEF RemoveFreeChunkFromBin
  <1> HIDE DEF q, b, r
  <1>3. /\ IsMem(r) /\ r.chunks = [q.chunks EXCEPT ![h] = [q.chunks[h] EXCEPT !.bin_num = kInvalidBinNum]]
        /\ r.bins = [q.bins EXCEPT ![b] = @ \ {h}]
    BY <1>1, <1>2 DEF IsMem, Field
  <1>4. \A f \in Field \ {"chunks", "bins"} : r[f] = q[f]
    BY <1>1, <1>2 DEF IsMem, Field
  <1>5. Regions(q, r) /\ Counters(q, r) /\ Lists(q, r) /\ r.ok = q.ok
    BY <1>4 DEF Regions, Counters, Lists, Field
  <1>6. Regions(m, r) /\ Counters(m, r) /\ Lists(m, r)
    BY <1>1, <1>5 DEF Regions, Counters, Lists
  <1>7. BinSet(m, r, h, kInvalidBinNum, [m.bins EXCEPT ![b] = @ \ {h}], m.ok /\ c)
    BY <1>1, <1>3, <1>5, <1>6 DEF BinSet
  <1> QED
    BY <1>7 DEF r, b

(***************************************************************************)
(* The invariant of the memory.  X holds the free chunks that an operation *)
(* has taken out of their bins.                                            *)
(***************************************************************************)
End(c) == c.ptr + c.size
Inside(c, r) == r.ptr <= c.ptr /\ End(c) <= End(r)

\* The chunks that stand for memory, those that are free, those in use.
LiveIn(m) ==
    {h \in DOMAIN m.chunks : m.chunks[h].ptr \in DOMAIN m.handles /\ m.handles[m.chunks[h].ptr] = h}
FreeIn(m) == {h \in LiveIn(m) : ~in_use(m.chunks[h])}
UsedIn(m) == {h \in LiveIn(m) : in_use(m.chunks[h])}

\* The list: neighbours know each other and touch.
ListInv(C, L) ==
    \A h \in L :
        /\ C[h].size > 0
        /\ C[h].next # kInvalidChunkHandle =>
             C[h].next \in L /\ C[C[h].next].prev = h /\ C[C[h].next].ptr = End(C[h])
        /\ C[h].prev # kInvalidChunkHandle => C[h].prev \in L /\ C[C[h].prev].next = h

\* No two chunks overlap.
ApartInv(C, L) == \A h, k \in L : h # k => End(C[h]) <= C[k].ptr \/ End(C[k]) <= C[h].ptr

\* Each is in a region, with its successor; the first and the last touch its ends.
RegionOf(C, h, r) ==
    /\ Inside(C[h], r)
    /\ IF C[h].next = kInvalidChunkHandle THEN End(C[h]) = End(r) ELSE Inside(C[C[h].next], r)
    /\ C[h].prev = kInvalidChunkHandle => C[h].ptr = r.ptr
RegionInv(C, L, R) == \A h \in L : \E r \in R : RegionOf(C, h, r)

\* The list of the Chunk structures that are not needed.
UnusedInv(C, F, head) ==
    /\ head # kInvalidChunkHandle => head \in F
    /\ \A h \in F : C[h].next # kInvalidChunkHandle =>
         /\ C[h].next \in F /\ C[h].next # head
         /\ \A k \in F : C[k].next = C[h].next => k = h

\* A chunk is in the bin for its size or in none.
Binned(C, L, X, h) == h \in L \ X /\ ~in_use(C[h])
BinInv(C, L, B, X) ==
    /\ \A h \in X : h \in L /\ ~in_use(C[h])
    /\ \A h \in DOMAIN C :
         /\ C[h].bin_num = IF Binned(C, L, X, h) THEN BinNumForSize(C[h].size) ELSE kInvalidBinNum
         /\ \A b \in Bin : h \in B[b] <=> Binned(C, L, X, h) /\ b = BinNumForSize(C[h].size)

\* Two free neighbours are about to be merged.
JoinInv(C, L, X) ==
    \A h \in L : C[h].next # kInvalidChunkHandle /\ ~in_use(C[h]) /\ ~in_use(C[C[h].next])
                    => h \in X \/ C[h].next \in X

\* A block is large enough, not much too large, and has an id.
UseInv(C, L, id) ==
    \A h \in L : in_use(C[h]) =>
        /\ 0 < C[h].allocation_id /\ C[h].allocation_id < id
        /\ 0 < C[h].requested_size /\ C[h].requested_size <= C[h].size
        /\ C[h].size < 2 * RoundedBytes(C[h].requested_size)

\* The regions: they are apart, and around Base.
SpaceInv(m) ==
    /\ \A r \in m.regions : /\ r.ptr \in Int /\ r.size \in Nat
                            /\ Base - m.total_region_allocated_bytes <= r.ptr
                            /\ End(r) <= Base + m.total_region_allocated_bytes
    /\ \A r, s \in m.regions : r # s => End(r) <= s.ptr \/ End(s) <= r.ptr
    /\ m.total_region_allocated_bytes \in Nat /\ m.curr_region_allocation_bytes \in Nat \ {0}
    /\ m.total_region_allocated_bytes <= memory_limit /\ m.total_region_allocated_bytes <= physical
    /\ m.curr_region_allocation_bytes % 256 = 0 /\ m.started_backpedal \in BOOLEAN

ChunkInv(m, X) ==
    /\ ListInv(m.chunks, LiveIn(m)) /\ ApartInv(m.chunks, LiveIn(m))
    /\ RegionInv(m.chunks, LiveIn(m), m.regions)
    /\ UnusedInv(m.chunks, DOMAIN m.chunks \ LiveIn(m), m.free_chunks_list)
    /\ BinInv(m.chunks, LiveIn(m), m.bins, X) /\ JoinInv(m.chunks, LiveIn(m), X)
    /\ UseInv(m.chunks, LiveIn(m), m.next_allocation_id) /\ m.next_allocation_id \in Nat \ {0}
MemInv(m, X) == Shape(m) /\ SpaceInv(m) /\ ChunkInv(m, X) /\ m.ok = TRUE

\* Two chunks that differ in their bins at most.
Alike(c, d) ==
    /\ c.size = d.size /\ c.requested_size = d.requested_size /\ c.allocation_id = d.allocation_id
    /\ c.ptr = d.ptr /\ c.prev = d.prev /\ c.next = d.next

\* The blocks in use are the same.
UsedSame(m, r) ==
    /\ UsedIn(r) = UsedIn(m)
    /\ \A h \in UsedIn(m) :
         /\ r.chunks[h].ptr = m.chunks[h].ptr /\ r.chunks[h].size = m.chunks[h].size
         /\ r.chunks[h].requested_size = m.chunks[h].requested_size
         /\ r.chunks[h].allocation_id = m.chunks[h].allocation_id

\* Two chunks at the same place.
Placed(c, d) == c.size = d.size /\ c.ptr = d.ptr /\ c.prev = d.prev /\ c.next = d.next

\* The parts that speak of places.
LEMMA PlacedInv ==
  ASSUME NEW C, NEW D, DOMAIN D = DOMAIN C, \A x \in DOMAIN C : Placed(C[x], D[x]),
         NEW L \in SUBSET DOMAIN C
  PROVE  /\ ListInv(C, L) => ListInv(D, L)
         /\ ApartInv(C, L) => ApartInv(D, L)
         /\ \A R : ListInv(C, L) /\ RegionInv(C, L, R) => RegionInv(D, L, R)
         /\ \A f : UnusedInv(C, DOMAIN C \ L, f) => UnusedInv(D, DOMAIN D \ L, f)
  <1>1. ListInv(C, L) => ListInv(D, L)
    BY DEF Placed, ListInv, End
  <1>2. ApartInv(C, L) => ApartInv(D, L)
    BY DEF Placed, ApartInv, End
  <1>3. ASSUME NEW R, ListInv(C, L), RegionInv(C, L, R) PROVE RegionInv(D, L, R)
    BY <1>3 DEF Placed, RegionInv, RegionOf, ListInv, Inside, End
  <1>4. \A f : UnusedInv(C, DOMAIN C \ L, f) => UnusedInv(D, DOMAIN D \ L, f)
    BY DEF Placed, UnusedInv
  <1> QED
    BY <1>1, <1>2, <1>3, <1>4

\* The parts that do not speak of bins.
LEMMA AlikeInv ==
  ASSUME NEW C, NEW D, DOMAIN D = DOMAIN C, \A x \in DOMAIN C : Alike(C[x], D[x]),
         NEW L \in SUBSET DOMAIN C
  PROVE  /\ ListInv(C, L) => ListInv(D, L)
         /\ ApartInv(C, L) => ApartInv(D, L)
         /\ \A R : ListInv(C, L) /\ RegionInv(C, L, R) => RegionInv(D, L, R)
         /\ \A f : UnusedInv(C, DOMAIN C \ L, f) => UnusedInv(D, DOMAIN D \ L, f)
         /\ \A n : UseInv(C, L, n) => UseInv(D, L, n)
         /\ \A X : ListInv(C, L) /\ JoinInv(C, L, X) => JoinInv(D, L, X)
  <1>1. \A x \in DOMAIN C : Placed(C[x], D[x])
    BY DEF Alike, Placed
  <1>2. /\ ListInv(C, L) => ListInv(D, L)
        /\ ApartInv(C, L) => ApartInv(D, L)
        /\ \A R : ListInv(C, L) /\ RegionInv(C, L, R) => RegionInv(D, L, R)
        /\ \A f : UnusedInv(C, DOMAIN C \ L, f) => UnusedInv(D, DOMAIN D \ L, f)
    BY <1>1, PlacedInv
  <1>5. \A n : UseInv(C, L, n) => UseInv(D, L, n)
    BY DEF Alike, UseInv, in_use
  <1>6. \A X : ListInv(C, L) /\ JoinInv(C, L, X) => JoinInv(D, L, X)
    BY DEF Alike, JoinInv, ListInv, in_use
  <1> QED
    BY <1>2, <1>5, <1>6

\* Setting the bin of a chunk.
LEMMA BinSetFacts ==
  ASSUME NEW m, NEW r, NEW h \in DOMAIN m.chunks, NEW b \in Int, NEW B \in [Bin -> SUBSET DOMAIN m.chunks],
         NEW ok, Shape(m), BinSet(m, r, h, b, B, ok)
  PROVE  /\ Shape(r) /\ DOMAIN r.chunks = DOMAIN m.chunks /\ LiveIn(r) = LiveIn(m)
         /\ \A x \in DOMAIN m.chunks : Alike(m.chunks[x], r.chunks[x])
         /\ \A x \in DOMAIN m.chunks : r.chunks[x].bin_num = IF x = h THEN b ELSE m.chunks[x].bin_num
         /\ UsedSame(m, r)
  <1>1. /\ m.chunks \in [DOMAIN m.chunks -> Chunk] /\ r.chunks = [m.chunks EXCEPT ![h] = [m.chunks[h] EXCEPT !.bin_num = b]]
    BY DEF Shape, BinSet
  <1>2. [m.chunks[h] EXCEPT !.bin_num = b] \in Chunk /\ Alike(m.chunks[h], [m.chunks[h] EXCEPT !.bin_num = b])
        /\ [m.chunks[h] EXCEPT !.bin_num = b].bin_num = b
    BY <1>1 DEF Chunk, Alike
  <1>3. \A x \in DOMAIN m.chunks : Alike(m.chunks[x], m.chunks[x])
    BY DEF Alike
  <1>4. /\ r.chunks \in [DOMAIN m.chunks -> Chunk] /\ DOMAIN r.chunks = DOMAIN m.chunks
        /\ \A x \in DOMAIN m.chunks : Alike(m.chunks[x], r.chunks[x])
        /\ \A x \in DOMAIN m.chunks : r.chunks[x].bin_num = IF x = h THEN b ELSE m.chunks[x].bin_num
    BY <1>1, <1>2, <1>3
  <1>5. r.handles = m.handles /\ r.free_chunks_list = m.free_chunks_list /\ r.bins = B /\ IsMem(r)
    BY DEF BinSet, Lists
  <1>6. LiveIn(r) = LiveIn(m)
    BY <1>4, <1>5 DEF LiveIn, Alike
  <1>7. Shape(r)
    <2>1. \A p \in DOMAIN m.handles : m.handles[p] \in DOMAIN m.chunks /\ r.chunks[m.handles[p]].ptr = p
      BY <1>4 DEF Shape, Alike
    <2>2. (\E n \in Nat : DOMAIN m.chunks = 0..n - 1) /\ m.free_chunks_list \in DOMAIN m.chunks \cup {kInvalidChunkHandle}
      BY DEF Shape
    <2> QED
      BY <1>4, <1>5, <2>1, <2>2 DEF Shape
  <1>8. UsedSame(m, r)
    BY <1>4, <1>6 DEF UsedSame, UsedIn, LiveIn, Alike, in_use
  <1> QED
    BY <1>4, <1>6, <1>7, <1>8

\* What changes is at most the bin of one chunk.
LEMMA AlikeMem ==
  ASSUME NEW m, NEW r, NEW X, MemInv(m, X), Regions(m, r), Counters(m, r), Lists(m, r),
         DOMAIN r.chunks = DOMAIN m.chunks, LiveIn(r) = LiveIn(m),
         \A x \in DOMAIN m.chunks : Alike(m.chunks[x], r.chunks[x])
  PROVE  /\ SpaceInv(r) /\ ListInv(r.chunks, LiveIn(r)) /\ ApartInv(r.chunks, LiveIn(r))
         /\ RegionInv(r.chunks, LiveIn(r), r.regions)
         /\ UnusedInv(r.chunks, DOMAIN r.chunks \ LiveIn(r), r.free_chunks_list)
         /\ JoinInv(r.chunks, LiveIn(r), X)
         /\ UseInv(r.chunks, LiveIn(r), r.next_allocation_id) /\ r.next_allocation_id \in Nat \ {0}
  <1>1. /\ r.regions = m.regions /\ r.next_allocation_id = m.next_allocation_id
        /\ r.free_chunks_list = m.free_chunks_list
    BY DEF Regions, Counters, Lists
  <1>2. SpaceInv(r)
    BY DEF MemInv, SpaceInv, Regions
  <1>3. LiveIn(m) \in SUBSET DOMAIN m.chunks
    BY DEF LiveIn
  <1> DEFINE C == m.chunks
             D == r.chunks
             L == LiveIn(m)
  <1>4. /\ ListInv(C, L) /\ ApartInv(C, L) /\ RegionInv(C, L, m.regions)
        /\ UnusedInv(C, DOMAIN C \ L, m.free_chunks_list) /\ JoinInv(C, L, X)
        /\ UseInv(C, L, m.next_allocation_id) /\ m.next_allocation_id \in Nat \ {0}
    BY DEF MemInv, ChunkInv
  <1>5. L \in SUBSET DOMAIN C /\ DOMAIN D = DOMAIN C /\ \A x \in DOMAIN C : Alike(C[x], D[x])
    BY <1>3
  <1> HIDE DEF C, D, L
  <1>6. /\ ListInv(D, L) /\ ApartInv(D, L) /\ RegionInv(D, L, m.regions)
        /\ UnusedInv(D, DOMAIN D \ L, m.free_chunks_list) /\ JoinInv(D, L, X)
        /\ UseInv(D, L, m.next_allocation_id)
    BY <1>4, <1>5, AlikeInv
  <1> QED
    BY <1>1, <1>2, <1>4, <1>6 DEF D, L

\* A free chunk leaves its bin.
LEMMA RemoveOK ==
  ASSUME NEW m, NEW X, MemInv(m, X), NEW h \in FreeIn(m) \ X
  PROVE  /\ MemInv(RemoveFreeChunkFromBin(m, h), X \cup {h})
         /\ UsedSame(m, RemoveFreeChunkFromBin(m, h))
         /\ BinSet(m, RemoveFreeChunkFromBin(m, h), h, kInvalidBinNum,
                   [m.bins EXCEPT ![m.chunks[h].bin_num] = @ \ {h}], TRUE)
         /\ m.chunks[h].bin_num \in Bin
  <1> DEFINE r == RemoveFreeChunkFromBin(m, h)
             b == m.chunks[h].bin_num
             B == [m.bins EXCEPT ![b] = @ \ {h}]
             L == LiveIn(m)
  <1>1. Shape(m) /\ h \in DOMAIN m.chunks /\ h \in L /\ ~in_use(m.chunks[h]) /\ h \notin X
    BY DEF MemInv, FreeIn, LiveIn
  <1>2. BinInv(m.chunks, L, m.bins, X) /\ m.chunks[h].size \in Nat
    BY <1>1 DEF MemInv, ChunkInv, Shape, Chunk
  <1>3. b \in Bin /\ h \in m.bins[b] /\ b = BinNumForSize(m.chunks[h].size)
    <2>1. BinNumForSize(m.chunks[h].size) \in Bin
      BY <1>2, BinFacts DEF Bin
    <2> QED
      BY <1>1, <1>2, <2>1 DEF BinInv, Binned
  <1>4. BinSet(m, r, h, kInvalidBinNum, B, TRUE)
    <2>1. BinSet(m, r, h, kInvalidBinNum, B, m.ok /\ ~in_use(m.chunks[h]) /\ h \in m.bins[b])
      BY <1>1, RemoveFields
    <2>2. (m.ok /\ ~in_use(m.chunks[h]) /\ h \in m.bins[b]) = TRUE
      BY <1>1, <1>3 DEF MemInv
    <2> QED
      BY <2>1, <2>2
  <1>5. B \in [Bin -> SUBSET DOMAIN m.chunks] /\ kInvalidBinNum \in Int
    BY <1>1, <1>3 DEF Shape, kInvalidBinNum
  <1>6. \A x \in Bin : B[x] = IF x = b THEN m.bins[b] \ {h} ELSE m.bins[x]
    BY <1>1, <1>3 DEF Shape
  <1> HIDE DEF r, b, B, L
  <1>7. /\ Shape(r) /\ DOMAIN r.chunks = DOMAIN m.chunks /\ LiveIn(r) = LiveIn(m)
        /\ \A x \in DOMAIN m.chunks : Alike(m.chunks[x], r.chunks[x])
        /\ \A x \in DOMAIN m.chunks : r.chunks[x].bin_num = IF x = h THEN kInvalidBinNum ELSE m.chunks[x].bin_num
        /\ UsedSame(m, r)
    BY <1>1, <1>4, <1>5, BinSetFacts
  <1>8. Regions(m, r) /\ Counters(m, r) /\ Lists(m, r) /\ r.bins = B /\ r.ok = TRUE
    BY <1>4 DEF BinSet
  <1>9. /\ SpaceInv(r) /\ ListInv(r.chunks, LiveIn(r)) /\ ApartInv(r.chunks, LiveIn(r))
        /\ RegionInv(r.chunks, LiveIn(r), r.regions)
        /\ UnusedInv(r.chunks, DOMAIN r.chunks \ LiveIn(r), r.free_chunks_list)
        /\ JoinInv(r.chunks, LiveIn(r), X)
        /\ UseInv(r.chunks, LiveIn(r), r.next_allocation_id) /\ r.next_allocation_id \in Nat \ {0}
    BY <1>7, <1>8, AlikeMem
  <1>10. JoinInv(r.chunks, LiveIn(r), X \cup {h})
    BY <1>9 DEF JoinInv
  <1>11. BinInv(r.chunks, L, B, X \cup {h})
    <2>1. \A x \in DOMAIN m.chunks : /\ r.chunks[x].size = m.chunks[x].size
                                     /\ in_use(r.chunks[x]) <=> in_use(m.chunks[x])
      BY <1>7 DEF Alike, in_use
    <2>2. \A x \in DOMAIN m.chunks : Binned(r.chunks, L, X \cup {h}, x) <=> Binned(m.chunks, L, X, x) /\ x # h
      BY <2>1 DEF Binned
    <2>3. Binned(m.chunks, L, X, h)
      BY <1>1 DEF Binned, L
    <2>4. \A x \in X \cup {h} : x \in L /\ ~in_use(r.chunks[x])
      BY <1>1, <1>2, <2>1 DEF BinInv, L, LiveIn
    <2>5. \A x \in DOMAIN m.chunks : r.chunks[x].bin_num =
              IF Binned(r.chunks, L, X \cup {h}, x) THEN BinNumForSize(r.chunks[x].size) ELSE kInvalidBinNum
      BY <1>2, <1>7, <2>1, <2>2, <2>3 DEF BinInv
    <2>6. \A x \in DOMAIN m.chunks : \A y \in Bin :
              x \in B[y] <=> Binned(r.chunks, L, X \cup {h}, x) /\ y = BinNumForSize(r.chunks[x].size)
      <3> SUFFICES ASSUME NEW x \in DOMAIN m.chunks, NEW y \in Bin
                   PROVE  x \in B[y] <=> Binned(r.chunks, L, X \cup {h}, x) /\ y = BinNumForSize(r.chunks[x].size)
        OBVIOUS
      <3>1. x \in m.bins[y] <=> Binned(m.chunks, L, X, x) /\ y = BinNumForSize(m.chunks[x].size)
        BY <1>2 DEF BinInv
      <3>2. BinNumForSize(r.chunks[x].size) = BinNumForSize(m.chunks[x].size)
        BY <2>1
      <3>3. x \in B[y] <=> x \in m.bins[y] /\ ~(y = b /\ x = h)
        BY <1>6
      <3> QED
        BY <1>3, <2>2, <3>1, <3>2, <3>3
    <2> QED
      BY <1>7, <2>4, <2>5, <2>6 DEF BinInv
  <1>12. MemInv(r, X \cup {h})
    BY <1>7, <1>8, <1>9, <1>10, <1>11 DEF MemInv, ChunkInv, L
  <1> QED
    BY <1>3, <1>4, <1>7, <1>12 DEF r, B, b

\* A free chunk whose neighbours are in use gets into its bin.
LEMMA InsertOK ==
  ASSUME NEW m, NEW X, MemInv(m, X), NEW h \in X,
         m.chunks[h].next # kInvalidChunkHandle =>
            in_use(m.chunks[m.chunks[h].next]) \/ m.chunks[h].next \in X \ {h},
         m.chunks[h].prev # kInvalidChunkHandle =>
            in_use(m.chunks[m.chunks[h].prev]) \/ m.chunks[h].prev \in X \ {h}
  PROVE  /\ MemInv(InsertFreeChunkIntoBin(m, h), X \ {h})
         /\ UsedSame(m, InsertFreeChunkIntoBin(m, h))
         /\ BinSet(m, InsertFreeChunkIntoBin(m, h), h, BinNumForSize(m.chunks[h].size),
                   [m.bins EXCEPT ![BinNumForSize(m.chunks[h].size)] = @ \cup {h}], TRUE)
  <1> DEFINE r == InsertFreeChunkIntoBin(m, h)
             b == BinNumForSize(m.chunks[h].size)
             B == [m.bins EXCEPT ![b] = @ \cup {h}]
             L == LiveIn(m)
  <1>1. BinInv(m.chunks, L, m.bins, X) /\ Shape(m)
    BY DEF MemInv, ChunkInv
  <1>2. h \in DOMAIN m.chunks /\ h \in L /\ ~in_use(m.chunks[h]) /\ ~Binned(m.chunks, L, X, h)
    BY <1>1 DEF BinInv, LiveIn, Binned
  <1>3. b \in Bin /\ m.chunks[h].bin_num = kInvalidBinNum
    <2>1. m.chunks[h].size \in Nat
      BY <1>1, <1>2 DEF Shape, Chunk
    <2>2. b \in Bin
      BY <2>1, BinFacts DEF Bin
    <2> QED
      BY <1>1, <1>2, <2>2 DEF BinInv
  <1>4. BinSet(m, r, h, b, B, TRUE)
    <2>1. BinSet(m, r, h, b, B, m.ok /\ ~in_use(m.chunks[h]) /\ m.chunks[h].bin_num = kInvalidBinNum)
      BY <1>1, <1>2, InsertFields
    <2>2. (m.ok /\ ~in_use(m.chunks[h]) /\ m.chunks[h].bin_num = kInvalidBinNum) = TRUE
      BY <1>2, <1>3 DEF MemInv
    <2> QED
      BY <2>1, <2>2
  <1>5. B \in [Bin -> SUBSET DOMAIN m.chunks] /\ b \in Int
    <2>1. b \in Int
      BY <1>3 DEF Bin, kNumBins
    <2>2. B \in [Bin -> SUBSET DOMAIN m.chunks]
      BY <1>1, <1>2, <1>3 DEF Shape
    <2> QED
      BY <2>1, <2>2
  <1>6. \A x \in Bin : B[x] = IF x = b THEN m.bins[b] \cup {h} ELSE m.bins[x]
    BY <1>1, <1>3 DEF Shape
  <1> HIDE DEF r, b, B, L
  <1>7. /\ Shape(r) /\ DOMAIN r.chunks = DOMAIN m.chunks /\ LiveIn(r) = LiveIn(m)
        /\ \A x \in DOMAIN m.chunks : Alike(m.chunks[x], r.chunks[x])
        /\ \A x \in DOMAIN m.chunks : r.chunks[x].bin_num = IF x = h THEN b ELSE m.chunks[x].bin_num
        /\ UsedSame(m, r)
    BY <1>1, <1>2, <1>4, <1>5, BinSetFacts
  <1>8. Regions(m, r) /\ Counters(m, r) /\ Lists(m, r) /\ r.bins = B /\ r.ok = TRUE
    BY <1>4 DEF BinSet
  <1>9. /\ SpaceInv(r) /\ ListInv(r.chunks, LiveIn(r)) /\ ApartInv(r.chunks, LiveIn(r))
        /\ RegionInv(r.chunks, LiveIn(r), r.regions)
        /\ UnusedInv(r.chunks, DOMAIN r.chunks \ LiveIn(r), r.free_chunks_list)
        /\ JoinInv(r.chunks, LiveIn(r), X)
        /\ UseInv(r.chunks, LiveIn(r), r.next_allocation_id) /\ r.next_allocation_id \in Nat \ {0}
    BY <1>7, <1>8, AlikeMem
  <1>s. \A x \in DOMAIN m.chunks : /\ r.chunks[x].size = m.chunks[x].size
                                   /\ r.chunks[x].next = m.chunks[x].next
                                   /\ in_use(r.chunks[x]) <=> in_use(m.chunks[x])
    BY <1>7 DEF Alike, in_use
  <1>10. JoinInv(r.chunks, LiveIn(r), X \ {h})
    <2> SUFFICES ASSUME NEW x \in L, r.chunks[x].next # kInvalidChunkHandle,
                        ~in_use(r.chunks[x]), ~in_use(r.chunks[r.chunks[x].next])
                 PROVE  x \in X \ {h} \/ r.chunks[x].next \in X \ {h}
      BY <1>7 DEF JoinInv, L
    <2>1. ListInv(m.chunks, L) /\ JoinInv(m.chunks, L, X) /\ L \subseteq DOMAIN m.chunks
      BY DEF MemInv, ChunkInv, L, LiveIn
    <2> DEFINE y == m.chunks[x].next
    <2>2. /\ y \in L /\ m.chunks[y].prev = x /\ ~in_use(m.chunks[x]) /\ ~in_use(m.chunks[y])
          /\ r.chunks[x].next = y /\ y # kInvalidChunkHandle
      BY <1>s, <2>1 DEF ListInv
    <2>3. x \in X \/ y \in X
      BY <2>1, <2>2 DEF JoinInv
    <2>4. x \in Int /\ x # kInvalidChunkHandle
      <3>1. x \in DOMAIN m.chunks
        BY <2>1
      <3> QED
        BY <1>1, <3>1 DEF Shape, kInvalidChunkHandle
    <2>5. CASE x = h
      BY <2>2, <2>5
    <2>6. CASE y = h
      BY <2>2, <2>4, <2>6
    <2> QED
      BY <2>2, <2>3, <2>5, <2>6
  <1>11. BinInv(r.chunks, L, B, X \ {h})
    <2>2. \A x \in DOMAIN m.chunks : Binned(r.chunks, L, X \ {h}, x) <=> Binned(m.chunks, L, X, x) \/ x = h
      BY <1>s, <1>2 DEF Binned
    <2>4. \A x \in X \ {h} : x \in L /\ ~in_use(r.chunks[x])
      BY <1>1, <1>s DEF BinInv, L, LiveIn
    <2>5. \A x \in DOMAIN m.chunks : r.chunks[x].bin_num =
              IF Binned(r.chunks, L, X \ {h}, x) THEN BinNumForSize(r.chunks[x].size) ELSE kInvalidBinNum
      <3> SUFFICES ASSUME NEW x \in DOMAIN m.chunks
                   PROVE  r.chunks[x].bin_num = IF Binned(r.chunks, L, X \ {h}, x)
                                                  THEN BinNumForSize(r.chunks[x].size) ELSE kInvalidBinNum
        OBVIOUS
      <3>1. m.chunks[x].bin_num = IF Binned(m.chunks, L, X, x) THEN BinNumForSize(m.chunks[x].size)
                                                               ELSE kInvalidBinNum
        BY <1>1 DEF BinInv
      <3>2. r.chunks[x].size = m.chunks[x].size /\ r.chunks[x].bin_num = IF x = h THEN b ELSE m.chunks[x].bin_num
        BY <1>7, <1>s
      <3>3. CASE x = h
        <4>1. Binned(r.chunks, L, X \ {h}, x)
          BY <2>2, <3>3
        <4> QED
          BY <3>2, <3>3, <4>1 DEF b
      <3>4. CASE x # h
        <4>1. Binned(r.chunks, L, X \ {h}, x) <=> Binned(m.chunks, L, X, x)
          BY <2>2, <3>4
        <4> QED
          BY <3>1, <3>2, <3>4, <4>1
      <3> QED
        BY <3>3, <3>4
    <2>6. \A x \in DOMAIN m.chunks : \A y \in Bin :
              x \in B[y] <=> Binned(r.chunks, L, X \ {h}, x) /\ y = BinNumForSize(r.chunks[x].size)
      <3> SUFFICES ASSUME NEW x \in DOMAIN m.chunks, NEW y \in Bin
                   PROVE  x \in B[y] <=> Binned(r.chunks, L, X \ {h}, x) /\ y = BinNumForSize(r.chunks[x].size)
        OBVIOUS
      <3>1. x \in m.bins[y] <=> Binned(m.chunks, L, X, x) /\ y = BinNumForSize(m.chunks[x].size)
        BY <1>1 DEF BinInv
      <3>2. BinNumForSize(r.chunks[x].size) = BinNumForSize(m.chunks[x].size)
        BY <1>s
      <3>3. x \in B[y] <=> x \in m.bins[y] \/ (y = b /\ x = h)
        BY <1>6
      <3>4. x = h => b = BinNumForSize(m.chunks[x].size)
        BY DEF b
      <3> QED
        BY <1>2, <2>2, <3>1, <3>2, <3>3, <3>4
    <2> QED
      BY <1>7, <2>4, <2>5, <2>6 DEF BinInv
  <1>12. MemInv(r, X \ {h})
    BY <1>7, <1>8, <1>9, <1>10, <1>11 DEF MemInv, ChunkInv, L
  <1> QED
    BY <1>4, <1>7, <1>12 DEF r, B, b

\* The chunks that are in bins stay there.
LEMMA BinsStay ==
  ASSUME NEW C, NEW D, NEW L, NEW M, NEW B, NEW X, NEW Y, BinInv(C, L, B, X), DOMAIN D = DOMAIN C,
         \A x \in Y : x \in M /\ ~in_use(D[x]),
         \A x \in DOMAIN C : D[x].bin_num = C[x].bin_num,
         \A x \in DOMAIN C : Binned(D, M, Y, x) <=> Binned(C, L, X, x),
         \A x \in DOMAIN C : Binned(C, L, X, x) => D[x].size = C[x].size
  PROVE  BinInv(D, M, B, Y)
  <1> SUFFICES ASSUME NEW x \in DOMAIN C
               PROVE  /\ D[x].bin_num = IF Binned(D, M, Y, x) THEN BinNumForSize(D[x].size) ELSE kInvalidBinNum
                      /\ \A b \in Bin : x \in B[b] <=> Binned(D, M, Y, x) /\ b = BinNumForSize(D[x].size)
    BY DEF BinInv
  <1>0. D[x].bin_num = C[x].bin_num
    OBVIOUS
  <1>1. /\ C[x].bin_num = IF Binned(C, L, X, x) THEN BinNumForSize(C[x].size) ELSE kInvalidBinNum
        /\ \A b \in Bin : x \in B[b] <=> Binned(C, L, X, x) /\ b = BinNumForSize(C[x].size)
    BY DEF BinInv
  <1>2. CASE Binned(C, L, X, x)
    <2>1. D[x].size = C[x].size
      BY <1>2, Zenon
    <2>2. Binned(D, M, Y, x)
      BY <1>2, Zenon
    <2> QED
      BY <1>0, <1>1, <1>2, <2>1, <2>2
  <1>3. CASE ~Binned(C, L, X, x)
    <2>1. ~Binned(D, M, Y, x)
      BY <1>3, Zenon
    <2> QED
      BY <1>0, <1>1, <1>3, <2>1
  <1> QED
    BY <1>2, <1>3

\* Chunk h of m gets a requested size and an allocation id, in r.
Marked(m, r, h, requested, id, nextid) ==
    /\ IsMem(r) /\ Regions(m, r) /\ Lists(m, r)
    /\ r.bins = m.bins /\ r.ok = TRUE /\ r.next_allocation_id = nextid
    /\ r.chunks = [m.chunks EXCEPT ![h] = [m.chunks[h] EXCEPT !.requested_size = requested, !.allocation_id = id]]

\* Everything stays in its place.
LEMMA MarkedFacts ==
  ASSUME NEW m, NEW X, MemInv(m, X), NEW r, NEW h \in DOMAIN m.chunks, NEW requested \in Nat, NEW id \in Int, NEW nextid,
         Marked(m, r, h, requested, id, nextid)
  PROVE  /\ Shape(r) /\ DOMAIN r.chunks = DOMAIN m.chunks /\ LiveIn(r) = LiveIn(m)
         /\ \A x \in DOMAIN m.chunks :
              /\ Placed(m.chunks[x], r.chunks[x]) /\ r.chunks[x].bin_num = m.chunks[x].bin_num
              /\ r.chunks[x].allocation_id = IF x = h THEN id ELSE m.chunks[x].allocation_id
              /\ r.chunks[x].requested_size = IF x = h THEN requested ELSE m.chunks[x].requested_size
         /\ SpaceInv(r) /\ ListInv(r.chunks, LiveIn(r)) /\ ApartInv(r.chunks, LiveIn(r))
         /\ RegionInv(r.chunks, LiveIn(r), r.regions)
         /\ UnusedInv(r.chunks, DOMAIN r.chunks \ LiveIn(r), r.free_chunks_list)
  <1> DEFINE d == [m.chunks[h] EXCEPT !.requested_size = requested, !.allocation_id = id]
  <1>1. Shape(m) /\ m.chunks \in [DOMAIN m.chunks -> Chunk] /\ r.chunks = [m.chunks EXCEPT ![h] = d]
    BY DEF MemInv, Shape, Marked
  <1>2. /\ d \in Chunk /\ Placed(m.chunks[h], d) /\ d.bin_num = m.chunks[h].bin_num
        /\ d.allocation_id = id /\ d.requested_size = requested
    BY <1>1 DEF Chunk, Placed
  <1>3. \A x \in DOMAIN m.chunks : Placed(m.chunks[x], m.chunks[x])
    BY DEF Placed
  <1> HIDE DEF d
  <1>4. /\ r.chunks \in [DOMAIN m.chunks -> Chunk] /\ DOMAIN r.chunks = DOMAIN m.chunks
        /\ \A x \in DOMAIN m.chunks :
              /\ Placed(m.chunks[x], r.chunks[x]) /\ r.chunks[x].bin_num = m.chunks[x].bin_num
              /\ r.chunks[x].allocation_id = IF x = h THEN id ELSE m.chunks[x].allocation_id
              /\ r.chunks[x].requested_size = IF x = h THEN requested ELSE m.chunks[x].requested_size
    BY <1>1, <1>2, <1>3
  <1>5. r.handles = m.handles /\ r.free_chunks_list = m.free_chunks_list /\ r.bins = m.bins /\ IsMem(r) /\ r.regions = m.regions
    BY DEF Marked, Lists, Regions
  <1>6. LiveIn(r) = LiveIn(m)
    BY <1>4, <1>5 DEF LiveIn, Placed
  <1>7. Shape(r)
    <2>1. \A p \in DOMAIN m.handles : m.handles[p] \in DOMAIN m.chunks /\ r.chunks[m.handles[p]].ptr = p
      BY <1>1, <1>4 DEF Shape, Placed
    <2>2. /\ \E n \in Nat : DOMAIN m.chunks = 0..n - 1
          /\ m.free_chunks_list \in DOMAIN m.chunks \cup {kInvalidChunkHandle} /\ m.bins \in [Bin -> SUBSET DOMAIN m.chunks]
      BY <1>1 DEF Shape
    <2> QED
      BY <1>4, <1>5, <2>1, <2>2 DEF Shape
  <1>8. SpaceInv(r)
    BY DEF MemInv, SpaceInv, Regions, Marked
  <1> DEFINE C == m.chunks
             D == r.chunks
             L == LiveIn(m)
  <1>9. /\ ListInv(C, L) /\ ApartInv(C, L) /\ RegionInv(C, L, m.regions)
        /\ UnusedInv(C, DOMAIN C \ L, m.free_chunks_list)
    BY DEF MemInv, ChunkInv
  <1>10. L \in SUBSET DOMAIN C /\ DOMAIN D = DOMAIN C /\ \A x \in DOMAIN C : Placed(C[x], D[x])
    BY <1>4 DEF LiveIn
  <1> HIDE DEF C, D, L
  <1>11. /\ ListInv(D, L) /\ ApartInv(D, L) /\ RegionInv(D, L, m.regions)
         /\ UnusedInv(D, DOMAIN D \ L, m.free_chunks_list)
    BY <1>9, <1>10, PlacedInv
  <1> QED
    BY <1>4, <1>5, <1>6, <1>7, <1>8, <1>11 DEF D, L

\* What a caller of FindChunkPtr is given.
Taken(m, r, h, requested) ==
    /\ UsedIn(r) = UsedIn(m) \cup {h} /\ h \notin UsedIn(m)
    /\ \A x \in UsedIn(m) :
         /\ r.chunks[x].ptr = m.chunks[x].ptr /\ r.chunks[x].size = m.chunks[x].size
         /\ r.chunks[x].requested_size = m.chunks[x].requested_size
         /\ r.chunks[x].allocation_id = m.chunks[x].allocation_id
    /\ r.chunks[h].requested_size = requested /\ r.chunks[h].allocation_id = m.next_allocation_id
    /\ r.next_allocation_id = m.next_allocation_id + 1
    /\ r.ret = r.chunks[h].ptr

\* A chunk that was taken out of its bin is used.
LEMMA UseOK ==
  ASSUME NEW m, NEW X, MemInv(m, X), NEW h \in X, NEW requested \in Nat \ {0},
         requested <= m.chunks[h].size, m.chunks[h].size < 2 * RoundedBytes(requested)
  PROVE  /\ MemInv(Use(m, h, requested), X \ {h}) /\ Taken(m, Use(m, h, requested), h, requested)
         /\ Marked(m, Use(m, h, requested), h, requested, m.next_allocation_id, m.next_allocation_id + 1)
         /\ LiveIn(Use(m, h, requested)) = LiveIn(m)
         /\ \A x \in LiveIn(m) : Use(m, h, requested).chunks[x].size = m.chunks[x].size
  <1> DEFINE r == Use(m, h, requested)
             L == LiveIn(m)
             id == m.next_allocation_id
  <1>1. /\ BinInv(m.chunks, L, m.bins, X) /\ Shape(m) /\ id \in Nat \ {0} /\ UseInv(m.chunks, L, id)
        /\ JoinInv(m.chunks, L, X) /\ m.ok = TRUE /\ ListInv(m.chunks, L)
    BY DEF MemInv, ChunkInv
  <1>2. h \in DOMAIN m.chunks /\ h \in L /\ ~in_use(m.chunks[h])
    BY <1>1 DEF BinInv, LiveIn
  <1>3. Marked(m, r, h, requested, id, id + 1) /\ r.ret = m.chunks[h].ptr
    <2>0. r = [m EXCEPT !.chunks[h] = [@ EXCEPT !.requested_size = requested,
                                                !.allocation_id = m.next_allocation_id],
                        !.next_allocation_id = @ + 1, !.bytes_in_use = @ + m.chunks[h].size,
                        !.ret = m.chunks[h].ptr]
      BY DEF Use
    <2> HIDE DEF r
    <2>1. IsMem(r) /\ r.next_allocation_id = id + 1 /\ r.ret = m.chunks[h].ptr
      <3>1. IsMem(m)
        BY <1>1 DEF Shape
      <3>2. IsMem(r)
        BY <2>0, <3>1 DEF IsMem, Field
      <3>3. r.next_allocation_id = id + 1
        BY <2>0, <3>1 DEF IsMem, Field
      <3>4. r.ret = m.chunks[h].ptr
        BY <2>0, <3>1 DEF IsMem, Field
      <3> QED
        BY <3>2, <3>3, <3>4
    <2>2. r.chunks = [m.chunks EXCEPT ![h] = [m.chunks[h] EXCEPT !.requested_size = requested, !.allocation_id = id]]
      BY <1>1, <1>2, <2>0 DEF Shape, IsMem, Field
    <2>3. \A f \in Field \ {"chunks", "next_allocation_id", "bytes_in_use", "ret"} : r[f] = m[f]
      BY <1>1, <2>0 DEF Shape, IsMem, Field
    <2>4. Regions(m, r) /\ Lists(m, r) /\ r.bins = m.bins /\ r.ok = m.ok
      BY <2>3 DEF Regions, Lists, Field
    <2> QED
      BY <1>1, <2>1, <2>2, <2>4 DEF Marked
  <1> HIDE DEF r, L, id
  <1>4. /\ Shape(r) /\ DOMAIN r.chunks = DOMAIN m.chunks /\ LiveIn(r) = L
        /\ \A x \in DOMAIN m.chunks :
              /\ Placed(m.chunks[x], r.chunks[x]) /\ r.chunks[x].bin_num = m.chunks[x].bin_num
              /\ r.chunks[x].allocation_id = IF x = h THEN id ELSE m.chunks[x].allocation_id
              /\ r.chunks[x].requested_size = IF x = h THEN requested ELSE m.chunks[x].requested_size
        /\ SpaceInv(r) /\ ListInv(r.chunks, LiveIn(r)) /\ ApartInv(r.chunks, LiveIn(r))
        /\ RegionInv(r.chunks, LiveIn(r), r.regions)
        /\ UnusedInv(r.chunks, DOMAIN r.chunks \ LiveIn(r), r.free_chunks_list)
    <2>1. id \in Int /\ requested \in Nat
      BY <1>1
    <2> QED
      BY <1>2, <1>3, <2>1, MarkedFacts DEF L
  <1>5. r.bins = m.bins /\ r.ok = TRUE /\ r.next_allocation_id = id + 1
    BY <1>3 DEF Marked
  <1>6. \A x \in DOMAIN m.chunks : /\ in_use(r.chunks[x]) <=> in_use(m.chunks[x]) \/ x = h
                                   /\ r.chunks[x].size = m.chunks[x].size /\ r.chunks[x].next = m.chunks[x].next
                                   /\ r.chunks[x].ptr = m.chunks[x].ptr
    BY <1>1, <1>4 DEF in_use, Placed
  <1>7. L \subseteq DOMAIN m.chunks
    BY DEF L, LiveIn
  <1>8. BinInv(r.chunks, L, r.bins, X \ {h})
    <2>1. \A x \in DOMAIN m.chunks : Binned(r.chunks, L, X \ {h}, x) <=> Binned(m.chunks, L, X, x)
      BY <1>6 DEF Binned
    <2>2. \A x \in X \ {h} : x \in L /\ ~in_use(r.chunks[x])
      BY <1>1, <1>6, <1>7 DEF BinInv
    <2> DEFINE C == m.chunks
               D == r.chunks
    <2>3. /\ BinInv(C, L, m.bins, X) /\ DOMAIN D = DOMAIN C /\ (\A x \in X \ {h} : x \in L /\ ~in_use(D[x]))
          /\ \A x \in DOMAIN C : D[x].bin_num = C[x].bin_num
          /\ \A x \in DOMAIN C : Binned(D, L, X \ {h}, x) <=> Binned(C, L, X, x)
          /\ \A x \in DOMAIN C : Binned(C, L, X, x) => D[x].size = C[x].size
      BY <1>1, <1>4, <1>6, <2>1, <2>2
    <2> HIDE DEF C, D
    <2>4. BinInv(D, L, m.bins, X \ {h})
      BY <2>3, BinsStay, Zenon
    <2> QED
      BY <1>5, <2>4 DEF D
  <1>9. JoinInv(r.chunks, L, X \ {h})
    BY <1>1, <1>6, <1>7 DEF JoinInv, ListInv
  <1>10. UseInv(r.chunks, L, id + 1)
    <2> SUFFICES ASSUME NEW x \in L, in_use(r.chunks[x])
                 PROVE  /\ 0 < r.chunks[x].allocation_id /\ r.chunks[x].allocation_id < id + 1
                        /\ 0 < r.chunks[x].requested_size /\ r.chunks[x].requested_size <= r.chunks[x].size
                        /\ r.chunks[x].size < 2 * RoundedBytes(r.chunks[x].requested_size)
      BY DEF UseInv
    <2>0. x \in DOMAIN m.chunks /\ m.chunks[x].allocation_id \in Int
      BY <1>1, <1>7 DEF Shape, Chunk
    <2>1. CASE x = h
      BY <1>1, <1>4, <1>6, <2>0, <2>1
    <2>2. CASE x # h
      <3>1. /\ 0 < m.chunks[x].allocation_id /\ m.chunks[x].allocation_id < id
            /\ 0 < m.chunks[x].requested_size /\ m.chunks[x].requested_size <= m.chunks[x].size
            /\ m.chunks[x].size < 2 * RoundedBytes(m.chunks[x].requested_size)
        BY <1>1, <1>6, <2>0, <2>2 DEF UseInv
      <3> QED
        BY <1>1, <1>4, <1>6, <2>0, <2>2, <3>1
    <2> QED
      BY <2>1, <2>2
  <1>11. MemInv(r, X \ {h})
    BY <1>1, <1>4, <1>5, <1>8, <1>9, <1>10 DEF MemInv, ChunkInv
  <1>12. Taken(m, r, h, requested)
    BY <1>2, <1>3, <1>4, <1>5, <1>6, <1>7 DEF Taken, UsedIn, L, id
  <1>13. \A x \in LiveIn(m) : r.chunks[x].size = m.chunks[x].size
    BY <1>6, <1>7 DEF L
  <1> QED
    BY <1>3, <1>4, <1>11, <1>12, <1>13 DEF r, id, L

\* Chunk h is no longer in use.
Freed(m, r, h) ==
    /\ UsedIn(r) = UsedIn(m) \ {h}
    /\ \A x \in UsedIn(r) :
         /\ r.chunks[x].ptr = m.chunks[x].ptr /\ r.chunks[x].size = m.chunks[x].size
         /\ r.chunks[x].requested_size = m.chunks[x].requested_size
         /\ r.chunks[x].allocation_id = m.chunks[x].allocation_id
    /\ r.next_allocation_id = m.next_allocation_id /\ r.ret = m.ret

\* FreeAndMaybeCoalesce marks the chunk as free, to begin with.
Release(m, h) ==
    [CHECK(m, in_use(m.chunks[h]) /\ m.chunks[h].bin_num = kInvalidBinNum)
        EXCEPT !.chunks[h].allocation_id = -1, !.bytes_in_use = @ - m.chunks[h].size]

\* A block in use becomes a free chunk that is in no bin yet.
LEMMA ReleaseOK ==
  ASSUME NEW m, MemInv(m, {}), NEW h \in UsedIn(m)
  PROVE  MemInv(Release(m, h), {h}) /\ Freed(m, Release(m, h), h)
  <1> DEFINE r == Release(m, h)
             L == LiveIn(m)
             id == m.next_allocation_id
             q == m.chunks[h].requested_size
  <1>1. /\ BinInv(m.chunks, L, m.bins, {}) /\ Shape(m) /\ id \in Nat \ {0} /\ UseInv(m.chunks, L, id)
        /\ JoinInv(m.chunks, L, {}) /\ m.ok = TRUE /\ ListInv(m.chunks, L)
    BY DEF MemInv, ChunkInv
  <1>2. h \in DOMAIN m.chunks /\ h \in L /\ in_use(m.chunks[h]) /\ ~Binned(m.chunks, L, {}, h)
    BY DEF UsedIn, LiveIn, Binned
  <1>b. m.chunks[h].bin_num = kInvalidBinNum /\ m.chunks[h] \in Chunk
    BY <1>1, <1>2 DEF BinInv, Shape
  <1>3. Marked(m, r, h, q, -1, id) /\ r.ret = m.ret
    <2> DEFINE c == in_use(m.chunks[h]) /\ m.chunks[h].bin_num = kInvalidBinNum
               s == CHECK(m, c)
    <2>c. c = TRUE
      BY <1>2, <1>b
    <2>0. r = [s EXCEPT !.chunks[h].allocation_id = -1, !.bytes_in_use = @ - m.chunks[h].size]
      BY DEF Release
    <2>s. /\ IsMem(s) /\ Regions(m, s) /\ Counters(m, s) /\ Lists(m, s)
          /\ s.chunks = m.chunks /\ s.bins = m.bins /\ s.ok = (m.ok /\ c)
      <3> HIDE DEF c
      <3>1. IsMem(m)
        BY <1>1 DEF Shape
      <3> QED
        BY <3>1, CheckFields, Zenon
    <2> HIDE DEF r, s, c
    <2>1. IsMem(r)
      BY <2>0, <2>s DEF IsMem, Field
    <2>2. r.chunks = [m.chunks EXCEPT ![h] = [m.chunks[h] EXCEPT !.allocation_id = -1]]
      BY <2>0, <2>s DEF IsMem, Field
    <2>3. \A f \in Field \ {"chunks", "bytes_in_use"} : r[f] = s[f]
      BY <2>0, <2>s DEF IsMem, Field
    <2>4. Regions(s, r) /\ Lists(s, r) /\ r.bins = s.bins /\ r.ok = s.ok /\ r.ret = s.ret /\ r.next_allocation_id = s.next_allocation_id
      BY <2>3 DEF Regions, Lists, Field
    <2>5. Regions(m, r) /\ Lists(m, r) /\ r.ret = m.ret /\ r.next_allocation_id = id
      BY <2>4, <2>s DEF Regions, Lists, Counters
    <2>6. [m.chunks[h] EXCEPT !.allocation_id = -1] = [m.chunks[h] EXCEPT !.requested_size = q, !.allocation_id = -1]
      BY <1>b DEF Chunk
    <2> QED
      BY <1>1, <2>1, <2>2, <2>4, <2>5, <2>6, <2>c, <2>s DEF Marked
  <1>q. q \in Nat
    BY <1>b DEF Chunk
  <1> HIDE DEF r, L, id, q
  <1>4. /\ Shape(r) /\ DOMAIN r.chunks = DOMAIN m.chunks /\ LiveIn(r) = L
        /\ \A x \in DOMAIN m.chunks :
              /\ Placed(m.chunks[x], r.chunks[x]) /\ r.chunks[x].bin_num = m.chunks[x].bin_num
              /\ r.chunks[x].allocation_id = IF x = h THEN -1 ELSE m.chunks[x].allocation_id
              /\ r.chunks[x].requested_size = IF x = h THEN q ELSE m.chunks[x].requested_size
        /\ SpaceInv(r) /\ ListInv(r.chunks, LiveIn(r)) /\ ApartInv(r.chunks, LiveIn(r))
        /\ RegionInv(r.chunks, LiveIn(r), r.regions)
        /\ UnusedInv(r.chunks, DOMAIN r.chunks \ LiveIn(r), r.free_chunks_list)
    <2>1. -1 \in Int
      OBVIOUS
    <2> QED
      BY <1>2, <1>3, <1>q, <2>1, MarkedFacts DEF L
  <1>5. r.bins = m.bins /\ r.ok = TRUE /\ r.next_allocation_id = id
    BY <1>3 DEF Marked
  <1>6. \A x \in DOMAIN m.chunks : /\ in_use(r.chunks[x]) <=> in_use(m.chunks[x]) /\ x # h
                                   /\ r.chunks[x].size = m.chunks[x].size /\ r.chunks[x].next = m.chunks[x].next
                                   /\ r.chunks[x].ptr = m.chunks[x].ptr
    BY <1>1, <1>4 DEF in_use, Placed
  <1>7. L \subseteq DOMAIN m.chunks
    BY DEF L, LiveIn
  <1>8. BinInv(r.chunks, L, r.bins, {h})
    <2>1. \A x \in DOMAIN m.chunks : Binned(r.chunks, L, {h}, x) <=> Binned(m.chunks, L, {}, x)
      BY <1>2, <1>6 DEF Binned
    <2>2. \A x \in {h} : x \in L /\ ~in_use(r.chunks[x])
      BY <1>2, <1>6
    <2> DEFINE C == m.chunks
               D == r.chunks
    <2>3. /\ BinInv(C, L, m.bins, {}) /\ DOMAIN D = DOMAIN C /\ (\A x \in {h} : x \in L /\ ~in_use(D[x]))
          /\ \A x \in DOMAIN C : D[x].bin_num = C[x].bin_num
          /\ \A x \in DOMAIN C : Binned(D, L, {h}, x) <=> Binned(C, L, {}, x)
          /\ \A x \in DOMAIN C : Binned(C, L, {}, x) => D[x].size = C[x].size
      BY <1>1, <1>4, <1>6, <2>1, <2>2
    <2> HIDE DEF C, D
    <2>4. BinInv(D, L, m.bins, {h})
      BY <2>3, BinsStay, Zenon
    <2> QED
      BY <1>5, <2>4 DEF D
  <1>9. JoinInv(r.chunks, L, {h})
    BY <1>1, <1>6, <1>7 DEF JoinInv, ListInv
  <1>10. UseInv(r.chunks, L, id)
    BY <1>1, <1>4, <1>6, <1>7 DEF UseInv
  <1>11. MemInv(r, {h})
    BY <1>1, <1>4, <1>5, <1>8, <1>9, <1>10 DEF MemInv, ChunkInv
  <1>12. Freed(m, r, h)
    <2>1. UsedIn(r) = UsedIn(m) \ {h}
      BY <1>4, <1>6, <1>7 DEF UsedIn, L
    <2>2. UsedIn(m) \subseteq DOMAIN m.chunks
      BY DEF UsedIn, LiveIn
    <2> QED
      BY <1>3, <1>4, <1>5, <1>6, <2>1, <2>2 DEF Freed, id
  <1> QED
    BY <1>11, <1>12 DEF r

\* Two chunks that differ in their neighbours at most.
SameBlock(c, d) ==
    /\ c.size = d.size /\ c.requested_size = d.requested_size /\ c.allocation_id = d.allocation_id
    /\ c.ptr = d.ptr /\ c.bin_num = d.bin_num

\* Chunk z of m, if there is one, has the predecessor h in r.
PrevSet(m, r, D, z, h) ==
    /\ IsMem(r) /\ r.chunks \in [D -> Chunk]
    /\ \A f \in Field \ {"chunks"} : r[f] = m[f]
    /\ \A x \in D : SameBlock(m.chunks[x], r.chunks[x])
    /\ \A x \in D : r.chunks[x].next = m.chunks[x].next
    /\ \A x \in D : r.chunks[x].prev = IF z # kInvalidChunkHandle /\ x = z THEN h ELSE m.chunks[x].prev

\* What SetPrev changes.
LEMMA SetPrevFields ==
  ASSUME NEW m, IsMem(m), NEW D, m.chunks \in [D -> Chunk], NEW z \in D \cup {kInvalidChunkHandle}, NEW h \in Int
  PROVE  PrevSet(m, SetPrev(m, z, h), D, z, h)
  <1> DEFINE r == SetPrev(m, z, h)
  <1>0. \A x \in D : SameBlock(m.chunks[x], m.chunks[x])
    BY DEF SameBlock
  <1>1. CASE z = kInvalidChunkHandle
    <2>1. r = m
      BY <1>1 DEF SetPrev
    <2> QED
      BY <1>0, <1>1, <2>1 DEF PrevSet
  <1>2. CASE z # kInvalidChunkHandle
    <2>0. z \in D
      BY <1>2
    <2> DEFINE d == [m.chunks[z] EXCEPT !.prev = h]
    <2>1. r = [m EXCEPT !.chunks[z].prev = h]
      BY <1>2 DEF SetPrev
    <2> HIDE DEF r
    <2>2. IsMem(r)
      BY <2>1 DEF IsMem, Field
    <2>3. \A f \in Field \ {"chunks"} : r[f] = m[f]
      BY <2>1 DEF IsMem, Field
    <2>4. r.chunks = [m.chunks EXCEPT ![z] = d]
      BY <2>1 DEF IsMem, Field
    <2>5. d \in Chunk /\ SameBlock(m.chunks[z], d) /\ d.prev = h /\ d.next = m.chunks[z].next
      <3>1. m.chunks[z] \in Chunk
        BY <2>0
      <3> QED
        BY <3>1 DEF Chunk, SameBlock
    <2> HIDE DEF d
    <2>6. \A x \in D : r.chunks[x] = IF x = z THEN d ELSE m.chunks[x]
      BY <2>4
    <2>7. r.chunks \in [D -> Chunk]
      BY <2>0, <2>4, <2>5
    <2>8. \A x \in D : SameBlock(m.chunks[x], r.chunks[x]) /\ r.chunks[x].next = m.chunks[x].next
      BY <1>0, <2>5, <2>6
    <2>9. \A x \in D : r.chunks[x].prev = IF z # kInvalidChunkHandle /\ x = z THEN h ELSE m.chunks[x].prev
      BY <1>2, <2>5, <2>6
    <2> QED
      BY <2>2, <2>3, <2>7, <2>8, <2>9 DEF r, PrevSet
  <1> QED
    BY <1>1, <1>2

\* Chunk h of m is deleted in r.
Deleted(m, r, D, h) ==
    /\ IsMem(r) /\ r.chunks \in [D -> Chunk]
    /\ \A f \in Field \ {"chunks", "handles", "free_chunks_list"} : r[f] = m[f]
    /\ r.free_chunks_list = h
    /\ r.handles = [q \in DOMAIN m.handles \ {m.chunks[h].ptr} |-> m.handles[q]]
    /\ \A x \in D : SameBlock(m.chunks[x], r.chunks[x])
    /\ \A x \in D : r.chunks[x].prev = m.chunks[x].prev
    /\ \A x \in D : r.chunks[x].next = IF x = h THEN m.free_chunks_list ELSE m.chunks[x].next

\* What DeleteChunk changes.
LEMMA DeleteFields ==
  ASSUME NEW m, IsMem(m), NEW D, m.chunks \in [D -> Chunk], NEW h \in D, m.free_chunks_list \in Int
  PROVE  Deleted(m, DeleteChunk(m, h), D, h)
  <1> DEFINE r == DeleteChunk(m, h)
             H == [q \in DOMAIN m.handles \ {m.chunks[h].ptr} |-> m.handles[q]]
             d == [m.chunks[h] EXCEPT !.next = m.free_chunks_list]
  <1>0. \A x \in D : SameBlock(m.chunks[x], m.chunks[x])
    BY DEF SameBlock
  <1>1. r = [m EXCEPT !.handles = H, !.chunks[h].next = m.free_chunks_list, !.free_chunks_list = h]
    BY DEF DeleteChunk
  <1> HIDE DEF r, H
  <1>2. IsMem(r)
    BY <1>1 DEF IsMem, Field
  <1>3. \A f \in Field \ {"chunks", "handles", "free_chunks_list"} : r[f] = m[f]
    BY <1>1 DEF IsMem, Field
  <1>4. r.chunks = [m.chunks EXCEPT ![h] = d]
    BY <1>1 DEF IsMem, Field
  <1>5. r.handles = H /\ r.free_chunks_list = h
    BY <1>1 DEF IsMem, Field
  <1>6. d \in Chunk /\ SameBlock(m.chunks[h], d) /\ d.prev = m.chunks[h].prev /\ d.next = m.free_chunks_list
    <2>1. m.chunks[h] \in Chunk
      OBVIOUS
    <2> QED
      BY <2>1 DEF Chunk, SameBlock
  <1> HIDE DEF d
  <1>7. \A x \in D : r.chunks[x] = IF x = h THEN d ELSE m.chunks[x]
    BY <1>4
  <1>8. r.chunks \in [D -> Chunk]
    BY <1>4, <1>6
  <1>9. /\ \A x \in D : SameBlock(m.chunks[x], r.chunks[x]) /\ r.chunks[x].prev = m.chunks[x].prev
        /\ \A x \in D : r.chunks[x].next = IF x = h THEN m.free_chunks_list ELSE m.chunks[x].next
    BY <1>0, <1>6, <1>7
  <1> QED
    BY <1>2, <1>3, <1>5, <1>8, <1>9 DEF r, H, Deleted

\* Chunk h2 of m is part of h1, in r.
Merged(m, r, h1, h2) ==
    /\ IsMem(r) /\ Regions(m, r) /\ Counters(m, r) /\ r.bins = m.bins
    /\ r.chunks \in [DOMAIN m.chunks -> Chunk]
    /\ r.handles = [q \in DOMAIN m.handles \ {m.chunks[h2].ptr} |-> m.handles[q]]
    /\ r.free_chunks_list = h2
    /\ \A x \in DOMAIN m.chunks :
         /\ r.chunks[x].ptr = m.chunks[x].ptr /\ r.chunks[x].bin_num = m.chunks[x].bin_num
         /\ r.chunks[x].allocation_id = m.chunks[x].allocation_id
         /\ r.chunks[x].requested_size = m.chunks[x].requested_size
    /\ \A x \in DOMAIN m.chunks : r.chunks[x].size =
         IF x = h1 THEN m.chunks[h1].size + m.chunks[h2].size ELSE m.chunks[x].size
    /\ \A x \in DOMAIN m.chunks : r.chunks[x].prev =
         IF m.chunks[h2].next # kInvalidChunkHandle /\ x = m.chunks[h2].next THEN h1 ELSE m.chunks[x].prev
    /\ \A x \in DOMAIN m.chunks : r.chunks[x].next =
         IF x = h1 THEN m.chunks[h2].next
         ELSE IF x = h2 THEN m.free_chunks_list ELSE m.chunks[x].next

\* What Merge changes.
LEMMA MergeFields ==
  ASSUME NEW m, Shape(m), NEW h1 \in DOMAIN m.chunks, NEW h2 \in DOMAIN m.chunks, h1 # h2,
         m.chunks[h2].next \in DOMAIN m.chunks \cup {kInvalidChunkHandle},
         ~in_use(m.chunks[h1]), ~in_use(m.chunks[h2]), m.chunks[h2].prev = h1, m.ok = TRUE
  PROVE  Merged(m, Merge(m, h1, h2), h1, h2) /\ Merge(m, h1, h2).ok = TRUE
  <1> DEFINE D == DOMAIN m.chunks
             z == m.chunks[h2].next
             c == ~in_use(m.chunks[h1]) /\ ~in_use(m.chunks[h2]) /\ m.chunks[h2].prev = h1
             q == CHECK(m, c)
             s == [q EXCEPT !.chunks[h1].next = z, !.chunks[h1].size = @ + m.chunks[h2].size]
             u == SetPrev(s, z, h1)
             r == DeleteChunk(u, h2)
             d == [m.chunks[h1] EXCEPT !.next = z, !.size = @ + m.chunks[h2].size]
  <1>1. r = Merge(m, h1, h2)
    BY DEF Merge
  <1>2. /\ m.chunks \in [D -> Chunk] /\ IsMem(m) /\ h1 \in Int /\ h2 \in Int /\ D \subseteq Int
        /\ m.free_chunks_list \in Int
    BY DEF Shape, kInvalidChunkHandle
  <1>3. c = TRUE
    OBVIOUS
  <1>4. /\ IsMem(q) /\ Regions(m, q) /\ Counters(m, q) /\ Lists(m, q)
        /\ q.chunks = m.chunks /\ q.bins = m.bins /\ q.ok = (m.ok /\ c)
    <2> HIDE DEF c
    <2> QED
      BY <1>2, CheckFields, Zenon
  <1> HIDE DEF q, c
  <1>5. IsMem(s)
    BY <1>4 DEF IsMem, Field
  <1>6. \A f \in Field \ {"chunks"} : s[f] = q[f]
    BY <1>4 DEF IsMem, Field
  <1>7. s.chunks = [m.chunks EXCEPT ![h1] = d]
    BY <1>2, <1>4 DEF IsMem, Field
  <1> HIDE DEF s
  <1>8. /\ d \in Chunk /\ d.ptr = m.chunks[h1].ptr /\ d.bin_num = m.chunks[h1].bin_num
        /\ d.allocation_id = m.chunks[h1].allocation_id /\ d.requested_size = m.chunks[h1].requested_size
        /\ d.prev = m.chunks[h1].prev /\ d.next = z /\ d.size = m.chunks[h1].size + m.chunks[h2].size
    <2>1. m.chunks[h1] \in Chunk /\ m.chunks[h2] \in Chunk
      BY <1>2
    <2>2. z \in Int /\ m.chunks[h1].size + m.chunks[h2].size \in Nat
      BY <2>1 DEF Chunk
    <2> QED
      BY <2>1, <2>2 DEF Chunk
  <1> HIDE DEF d
  <1>9. s.chunks \in [D -> Chunk] /\ \A x \in D : s.chunks[x] = IF x = h1 THEN d ELSE m.chunks[x]
    BY <1>2, <1>7, <1>8
  <1>10. z \in D \cup {kInvalidChunkHandle}
    OBVIOUS
  <1> HIDE DEF D, z
  <1>11. PrevSet(s, u, D, z, h1)
    <2>1. IsMem(s) /\ s.chunks \in [D -> Chunk] /\ z \in D \cup {kInvalidChunkHandle} /\ h1 \in Int
      BY <1>2, <1>5, <1>9, <1>10
    <2> QED
      BY <2>1, SetPrevFields
  <1> HIDE DEF u
  <1>12. /\ Regions(q, u) /\ Counters(q, u) /\ Lists(q, u) /\ u.bins = q.bins /\ u.ok = q.ok
    BY <1>6, <1>11 DEF Regions, Counters, Lists, Field, PrevSet
  <1>13. u.free_chunks_list = m.free_chunks_list /\ u.handles = m.handles
    BY <1>4, <1>12 DEF Lists
  <1>14. h2 \in D /\ h1 \in D
    BY DEF D
  <1>15. Deleted(u, r, D, h2)
    <2>1. u.free_chunks_list \in Int /\ IsMem(u) /\ u.chunks \in [D -> Chunk]
      BY <1>2, <1>11, <1>13 DEF PrevSet
    <2> QED
      BY <1>14, <2>1, DeleteFields
  <1> HIDE DEF r
  <1>16. Regions(u, r) /\ Counters(u, r) /\ r.bins = u.bins /\ r.ok = u.ok
    BY <1>15 DEF Regions, Counters, Field, Deleted
  <1>17. Regions(m, r) /\ Counters(m, r) /\ r.bins = m.bins /\ r.ok = TRUE
    BY <1>3, <1>4, <1>12, <1>16 DEF Regions, Counters
  <1>18. \A x \in D : /\ r.chunks[x].ptr = m.chunks[x].ptr /\ r.chunks[x].bin_num = m.chunks[x].bin_num
                      /\ r.chunks[x].allocation_id = m.chunks[x].allocation_id
                      /\ r.chunks[x].requested_size = m.chunks[x].requested_size
    BY <1>8, <1>9, <1>11, <1>15 DEF SameBlock, PrevSet, Deleted
  <1>19. \A x \in D : r.chunks[x].size = IF x = h1 THEN m.chunks[h1].size + m.chunks[h2].size ELSE m.chunks[x].size
    BY <1>8, <1>9, <1>11, <1>15 DEF SameBlock, PrevSet, Deleted
  <1>20. \A x \in D : r.chunks[x].prev = IF z # kInvalidChunkHandle /\ x = z THEN h1 ELSE m.chunks[x].prev
    BY <1>8, <1>9, <1>11, <1>15 DEF PrevSet, Deleted
  <1>21. \A x \in D : r.chunks[x].next = IF x = h1 THEN z ELSE IF x = h2 THEN m.free_chunks_list ELSE m.chunks[x].next
    BY <1>8, <1>9, <1>11, <1>13, <1>15, <1>14 DEF PrevSet, Deleted
  <1>22. u.chunks[h2].ptr = m.chunks[h2].ptr
    BY <1>9, <1>11, <1>14 DEF SameBlock, PrevSet
  <1>23. r.handles = [p \in DOMAIN m.handles \ {m.chunks[h2].ptr} |-> m.handles[p]]
    BY <1>13, <1>15, <1>22 DEF Deleted
  <1>24. Merged(m, r, h1, h2)
    BY <1>15, <1>17, <1>18, <1>19, <1>20, <1>21, <1>23 DEF Merged, Deleted, D, z
  <1> QED
    BY <1>1, <1>17, <1>24

\* A region is known by any chunk inside it.
LEMMA SameRegion ==
  ASSUME NEW m, SpaceInv(m), NEW c, c.ptr \in Int, c.size \in Nat \ {0},
         NEW a \in m.regions, NEW b \in m.regions, Inside(c, a), Inside(c, b)
  PROVE  a = b
  <1>1. a # b => End(a) <= b.ptr \/ End(b) <= a.ptr
    BY DEF SpaceInv
  <1>2. a.ptr \in Int /\ b.ptr \in Int /\ a.size \in Nat /\ b.size \in Nat
    BY DEF SpaceInv
  <1> QED
    BY <1>1, <1>2 DEF Inside, End

\* A free chunk is merged into its predecessor.
LEMMA MergeOK ==
  ASSUME NEW m, NEW X, MemInv(m, X), NEW h1 \in X, NEW h2 \in X, m.chunks[h1].next = h2
  PROVE  /\ MemInv(Merge(m, h1, h2), X \ {h2}) /\ UsedSame(m, Merge(m, h1, h2))
         /\ Merged(m, Merge(m, h1, h2), h1, h2) /\ LiveIn(Merge(m, h1, h2)) = LiveIn(m) \ {h2}
  <1> DEFINE r == Merge(m, h1, h2)
             C == m.chunks
             E == r.chunks
             D == DOMAIN m.chunks
             L == LiveIn(m)
             M == L \ {h2}
             F == D \ L
             z == C[h2].next
  <1>1. /\ BinInv(C, L, m.bins, X) /\ Shape(m) /\ UseInv(C, L, m.next_allocation_id) /\ ApartInv(C, L)
        /\ JoinInv(C, L, X) /\ m.ok = TRUE /\ ListInv(C, L) /\ RegionInv(C, L, m.regions)
        /\ UnusedInv(C, F, m.free_chunks_list) /\ SpaceInv(m) /\ m.next_allocation_id \in Nat \ {0}
    BY DEF MemInv, ChunkInv
  <1>2. C \in [D -> Chunk] /\ D \subseteq Nat /\ IsMem(m) /\ L \subseteq D /\ \A x \in D : x # kInvalidChunkHandle
    <2>1. C \in [D -> Chunk] /\ IsMem(m) /\ \E i \in Nat : D = 0..i - 1
      BY <1>1 DEF Shape
    <2>2. L \subseteq D
      BY DEF LiveIn
    <2>3. D \subseteq Nat /\ \A x \in D : x # kInvalidChunkHandle
      <3> HIDE DEF D
      <3> QED
        BY <2>1 DEF kInvalidChunkHandle
    <2> QED
      BY <2>1, <2>2, <2>3
  <1>3. \A x \in D : /\ C[x].size \in Nat /\ C[x].ptr \in Int /\ C[x].next \in Int /\ C[x].prev \in Int
                     /\ C[x].allocation_id \in Int /\ C[x].requested_size \in Nat /\ C[x].bin_num \in Int
    BY <1>2 DEF Chunk
  <1>4. h1 \in L /\ h2 \in L /\ ~in_use(C[h1]) /\ ~in_use(C[h2]) /\ h1 \in D /\ h2 \in D
    BY <1>1, <1>2 DEF BinInv
  <1>5. /\ C[h2].prev = h1 /\ C[h2].ptr = End(C[h1]) /\ C[h1].size > 0 /\ C[h2].size > 0 /\ C[h1].next = h2
        /\ z # kInvalidChunkHandle => z \in L /\ C[z].prev = h2 /\ C[z].ptr = End(C[h2])
    BY <1>1, <1>2, <1>4 DEF ListInv
  <1>6. h1 # h2 /\ (z # kInvalidChunkHandle => z # h1 /\ z # h2)
    BY <1>2, <1>3, <1>4, <1>5 DEF End
  <1>7. Merged(m, r, h1, h2) /\ r.ok = TRUE
    <2>1. z \in D \cup {kInvalidChunkHandle}
      BY <1>2, <1>5
    <2> QED
      BY <1>1, <1>4, <1>5, <1>6, <2>1, MergeFields
  <1> HIDE DEF r
  <1>8. /\ E \in [D -> Chunk] /\ DOMAIN E = D
        /\ \A x \in D : /\ E[x].ptr = C[x].ptr /\ E[x].bin_num = C[x].bin_num
                        /\ E[x].allocation_id = C[x].allocation_id /\ E[x].requested_size = C[x].requested_size
        /\ \A x \in D : E[x].size = IF x = h1 THEN C[h1].size + C[h2].size ELSE C[x].size
        /\ \A x \in D : E[x].prev = IF z # kInvalidChunkHandle /\ x = z THEN h1 ELSE C[x].prev
        /\ \A x \in D : E[x].next = IF x = h1 THEN z ELSE IF x = h2 THEN m.free_chunks_list ELSE C[x].next
    BY <1>7 DEF Merged
  <1>9. /\ IsMem(r) /\ Regions(m, r) /\ r.next_allocation_id = m.next_allocation_id /\ r.bins = m.bins
        /\ r.free_chunks_list = h2
        /\ r.handles = [q \in DOMAIN m.handles \ {C[h2].ptr} |-> m.handles[q]]
    BY <1>7 DEF Merged, Counters
  <1>10. /\ \A x \in D : in_use(E[x]) <=> in_use(C[x])
         /\ \A x \in L \ {h1} : C[x].next # h2
         /\ \A x \in L : C[x].prev = h2 => x = z
    <2>1. \A x \in D : in_use(E[x]) <=> in_use(C[x])
      BY <1>8 DEF in_use
    <2>2. \A x \in L \ {h1} : C[x].next # h2
      BY <1>1, <1>2, <1>4, <1>5 DEF ListInv
    <2>3. \A x \in L : C[x].prev = h2 => x = z
      BY <1>1, <1>2, <1>4, <1>5 DEF ListInv
    <2> QED
      BY <2>1, <2>2, <2>3
  <1>11. \A x \in L : C[x].ptr \in DOMAIN m.handles /\ m.handles[C[x].ptr] = x
    BY DEF LiveIn
  <1>12. LiveIn(r) = M
    <2>1. \A x \in D : x \in LiveIn(r) <=> E[x].ptr \in DOMAIN r.handles /\ r.handles[E[x].ptr] = x
      BY <1>8 DEF LiveIn
    <2>2. \A x \in D : x \in LiveIn(r) => x \in M
      <3> SUFFICES ASSUME NEW x \in D, x \in LiveIn(r) PROVE x \in M
        OBVIOUS
      <3>1. C[x].ptr \in DOMAIN m.handles /\ C[x].ptr # C[h2].ptr /\ m.handles[C[x].ptr] = x
        <4>1. E[x].ptr \in DOMAIN r.handles /\ r.handles[E[x].ptr] = x /\ E[x].ptr = C[x].ptr
          BY <1>8, <2>1
        <4> HIDE DEF C, E
        <4> QED
          BY <1>9, <4>1
      <3> QED
        BY <3>1 DEF LiveIn
    <2>3. \A x \in M : x \in LiveIn(r)
      <3> SUFFICES ASSUME NEW x \in M PROVE x \in LiveIn(r)
        OBVIOUS
      <3>1. C[x].ptr # C[h2].ptr /\ x \in D
        BY <1>2, <1>4, <1>11
      <3>2. C[x].ptr \in DOMAIN r.handles /\ r.handles[C[x].ptr] = x
        BY <1>9, <1>11, <3>1
      <3> QED
        BY <1>8, <2>1, <3>1, <3>2
    <2>4. LiveIn(r) \subseteq D
      BY <1>8 DEF LiveIn
    <2> QED
      BY <1>2, <2>2, <2>3, <2>4
  <1>13. Shape(r)
    <2>1. \A p \in DOMAIN r.handles : r.handles[p] \in D /\ E[r.handles[p]].ptr = p
      BY <1>1, <1>8, <1>9 DEF Shape
    <2>2. (\E n \in Nat : D = 0..n - 1) /\ m.bins \in [Bin -> SUBSET D]
      BY <1>1 DEF Shape
    <2> QED
      BY <1>4, <1>8, <1>9, <2>1, <2>2 DEF Shape
  <1>14. SpaceInv(r)
    BY <1>1, <1>9 DEF SpaceInv, Regions
  <1> HIDE DEF C, E, D, L, M, F, z
  <1>m. M = L \ {h2}
    BY DEF M
  <1>15. ListInv(E, M)
    <2> SUFFICES ASSUME NEW x \in M
                 PROVE  /\ E[x].size > 0
                        /\ E[x].next # kInvalidChunkHandle =>
                             E[x].next \in M /\ E[E[x].next].prev = x /\ E[E[x].next].ptr = End(E[x])
                        /\ E[x].prev # kInvalidChunkHandle => E[x].prev \in M /\ E[E[x].prev].next = x
      BY DEF ListInv
    <2>1. x \in L /\ x \in D /\ x # h2
      BY <1>2, <1>m
    <2>2. /\ C[x].size > 0
          /\ C[x].next # kInvalidChunkHandle =>
               C[x].next \in L /\ C[C[x].next].prev = x /\ C[C[x].next].ptr = End(C[x])
          /\ C[x].prev # kInvalidChunkHandle => C[x].prev \in L /\ C[C[x].prev].next = x
      BY <1>1, <2>1 DEF ListInv
    <2>3. E[x].size > 0
      BY <1>3, <1>4, <1>5, <1>8, <2>1, <2>2
    <2>4. ASSUME E[x].next # kInvalidChunkHandle
          PROVE E[x].next \in M /\ E[E[x].next].prev = x /\ E[E[x].next].ptr = End(E[x])
      <3>1. CASE x = h1
        <4>1. E[x].next = z /\ z \in L /\ z \in M /\ z \in D
          BY <1>2, <1>5, <1>6, <1>8, <1>m, <2>1, <2>4, <3>1
        <4>2. E[z].prev = h1 /\ E[z].ptr = C[z].ptr
          BY <1>8, <2>4, <4>1
        <4>3. End(E[x]) = C[z].ptr
          BY <1>3, <1>4, <1>5, <1>8, <2>4, <3>1, <4>1 DEF End
        <4> QED
          BY <3>1, <4>1, <4>2, <4>3
      <3>2. CASE x # h1
        <4>1. E[x].next = C[x].next /\ C[x].next \in L /\ C[x].next # h2 /\ C[x].next \in D
          BY <1>2, <1>8, <1>10, <2>1, <2>2, <2>4, <3>2
        <4>2. C[x].next # z
          BY <1>5, <2>1, <2>2, <2>4, <4>1
        <4>3. E[C[x].next].prev = x /\ E[C[x].next].ptr = End(C[x])
          BY <1>8, <2>2, <2>4, <4>1, <4>2
        <4>4. End(E[x]) = End(C[x])
          BY <1>8, <2>1, <3>2 DEF End
        <4> QED
          BY <1>m, <4>1, <4>3, <4>4
      <3> QED
        BY <3>1, <3>2
    <2>5. ASSUME E[x].prev # kInvalidChunkHandle PROVE E[x].prev \in M /\ E[E[x].prev].next = x
      <3>1. CASE z # kInvalidChunkHandle /\ x = z
        BY <1>4, <1>6, <1>8, <1>m, <2>1, <3>1
      <3>2. CASE ~(z # kInvalidChunkHandle /\ x = z)
        <4>1. E[x].prev = C[x].prev /\ C[x].prev \in L /\ C[x].prev \in D /\ C[C[x].prev].next = x
          BY <1>2, <1>8, <2>1, <2>2, <2>5, <3>2
        <4>2. C[x].prev # h2
          BY <1>2, <1>10, <2>1, <3>2
        <4>3. C[x].prev # h1
          BY <1>5, <2>1, <4>1
        <4> QED
          BY <1>8, <1>m, <4>1, <4>2, <4>3
      <3> QED
        BY <3>1, <3>2
    <2> QED
      BY <2>3, <2>4, <2>5
  <1>16. ApartInv(E, M)
    <2> SUFFICES ASSUME NEW x \in M, NEW y \in M, x # y
                 PROVE  End(E[x]) <= E[y].ptr \/ End(E[y]) <= E[x].ptr
      BY DEF ApartInv
    <2>1. x \in L /\ x \in D /\ x # h2 /\ y \in L /\ y \in D /\ y # h2
      BY <1>2, <1>m
    <2>2. /\ End(C[x]) <= C[y].ptr \/ End(C[y]) <= C[x].ptr
          /\ End(C[h2]) <= C[y].ptr \/ End(C[y]) <= C[h2].ptr
          /\ End(C[x]) <= C[h2].ptr \/ End(C[h2]) <= C[x].ptr
      BY <1>1, <1>4, <2>1 DEF ApartInv
    <2>3. C[x].size > 0 /\ C[y].size > 0
      BY <1>1, <2>1 DEF ListInv
    <2>4. CASE x # h1 /\ y # h1
      BY <1>8, <2>1, <2>2, <2>4 DEF End
    <2>5. CASE x = h1
      <3>1. End(E[x]) = End(C[h2]) /\ End(E[y]) = End(C[y])
        BY <1>3, <1>4, <1>5, <1>8, <2>1, <2>5 DEF End
      <3> QED
        BY <1>3, <1>4, <1>5, <1>8, <2>1, <2>2, <2>3, <2>5, <3>1 DEF End
    <2>6. CASE y = h1
      <3>1. End(E[y]) = End(C[h2]) /\ End(E[x]) = End(C[x])
        BY <1>3, <1>4, <1>5, <1>8, <2>1, <2>6 DEF End
      <3> QED
        BY <1>3, <1>4, <1>5, <1>8, <2>1, <2>2, <2>3, <2>6, <3>1 DEF End
    <2> QED
      BY <2>4, <2>5, <2>6
  <1>17. RegionInv(E, M, m.regions)
    <2>0. PICK a \in m.regions : RegionOf(C, h1, a)
      BY <1>1, <1>4 DEF RegionInv
    <2>1. PICK b \in m.regions : RegionOf(C, h2, b)
      BY <1>1, <1>4 DEF RegionInv
    <2>2. Inside(C[h2], a) /\ Inside(C[h2], b) /\ Inside(C[h1], a)
      BY <1>2, <1>4, <1>5, <2>0, <2>1 DEF RegionOf
    <2>3. a = b
      <3>1. C[h2].ptr \in Int /\ C[h2].size \in Nat \ {0}
        BY <1>3, <1>4, <1>5
      <3> QED
        BY <1>1, <2>2, <3>1, SameRegion
    <2>4. a.ptr \in Int /\ a.size \in Nat
      BY <1>1 DEF SpaceInv
    <2>5. Inside(E[h1], a)
      <3>1. E[h1].ptr = C[h1].ptr /\ End(E[h1]) = End(C[h2])
        BY <1>3, <1>4, <1>5, <1>8 DEF End
      <3> QED
        BY <2>2, <3>1 DEF Inside
    <2> SUFFICES ASSUME NEW x \in M PROVE \E c \in m.regions : RegionOf(E, x, c)
      BY DEF RegionInv
    <2>6. x \in L /\ x \in D /\ x # h2
      BY <1>2, <1>m
    <2>7. CASE x = h1
      <3>1. E[h1].next = z /\ End(E[h1]) = End(C[h2]) /\ E[h1].ptr = C[h1].ptr
        BY <1>3, <1>4, <1>5, <1>8 DEF End
      <3>2. E[h1].prev = C[h1].prev
        BY <1>4, <1>6, <1>8
      <3>3. C[h1].prev = kInvalidChunkHandle => C[h1].ptr = a.ptr
        BY <2>0 DEF RegionOf
      <3>4. IF z = kInvalidChunkHandle THEN End(C[h2]) = End(a) ELSE Inside(C[z], a)
        BY <2>1, <2>3 DEF RegionOf, z
      <3>5. z # kInvalidChunkHandle => Inside(E[z], a)
        <4> SUFFICES ASSUME z # kInvalidChunkHandle PROVE Inside(E[z], a)
          OBVIOUS
        <4>1. E[z].ptr = C[z].ptr /\ E[z].size = C[z].size
          BY <1>2, <1>5, <1>6, <1>8
        <4> QED
          BY <3>4, <4>1 DEF Inside, End
      <3> QED
        BY <2>5, <2>7, <3>1, <3>2, <3>3, <3>4, <3>5 DEF RegionOf
    <2>8. CASE x # h1
      <3>1. PICK c \in m.regions : RegionOf(C, x, c)
        BY <1>1, <2>6 DEF RegionInv
      <3>2. E[x].next = C[x].next /\ E[x].ptr = C[x].ptr /\ E[x].size = C[x].size
        BY <1>8, <2>6, <2>8
      <3>3. Inside(E[x], c)
        BY <3>1, <3>2 DEF RegionOf, Inside, End
      <3>4. E[x].prev = kInvalidChunkHandle => E[x].ptr = c.ptr
        <4>1. E[x].prev = kInvalidChunkHandle => C[x].prev = kInvalidChunkHandle
          BY <1>2, <1>4, <1>8, <2>6
        <4> QED
          BY <3>1, <3>2, <4>1 DEF RegionOf
      <3>5. CASE C[x].next = kInvalidChunkHandle
        BY <3>1, <3>2, <3>3, <3>4, <3>5 DEF RegionOf, End
      <3>6. CASE C[x].next # kInvalidChunkHandle
        <4>1. C[x].next \in L /\ C[x].next \in D /\ Inside(C[C[x].next], c) /\ C[x].next # h2
          BY <1>1, <1>2, <1>10, <2>6, <2>8, <3>1, <3>6 DEF ListInv, RegionOf
        <4>2. Inside(E[C[x].next], c)
          <5>1. CASE C[x].next = h1
            <6>1. c = a
              <7>1. C[h1].ptr \in Int /\ C[h1].size \in Nat \ {0} /\ Inside(C[h1], c)
                BY <1>3, <1>4, <1>5, <4>1, <5>1
              <7> QED
                BY <1>1, <2>2, <7>1, SameRegion
            <6> QED
              BY <2>5, <5>1, <6>1
          <5>2. CASE C[x].next # h1
            BY <1>8, <4>1, <5>2 DEF Inside, End
          <5> QED
            BY <5>1, <5>2
        <4> QED
          BY <3>2, <3>3, <3>4, <3>6, <4>2 DEF RegionOf
      <3> QED
        BY <3>5, <3>6
    <2> QED
      BY <2>7, <2>8
  <1>18. UnusedInv(E, D \ M, h2)
    <2> DEFINE head == m.free_chunks_list
    <2>1. /\ head # kInvalidChunkHandle => head \in F
          /\ \A h \in F : C[h].next # kInvalidChunkHandle =>
               /\ C[h].next \in F /\ C[h].next # head
               /\ \A k \in F : C[k].next = C[h].next => k = h
      BY <1>1 DEF UnusedInv
    <2>2. \A x \in F : x \in D /\ x # h1 /\ x # h2 /\ E[x].next = C[x].next
      BY <1>4, <1>8 DEF F
    <2>3. E[h2].next = head
      BY <1>4, <1>6, <1>8
    <2>4. \A x : x \in D \ M <=> x \in F \/ x = h2
      BY <1>4 DEF M, F
    <2> HIDE DEF head
    <2>5. h2 # kInvalidChunkHandle => h2 \in D \ M
      BY <2>4
    <2>6. ASSUME NEW x \in D \ M, E[x].next # kInvalidChunkHandle
          PROVE  /\ E[x].next \in D \ M /\ E[x].next # h2
                 /\ \A k \in D \ M : E[k].next = E[x].next => k = x
      <3>1. CASE x = h2
        BY <2>1, <2>2, <2>3, <2>4, <2>6, <3>1
      <3>2. CASE x # h2
        <4>1. x \in F /\ E[x].next = C[x].next /\ C[x].next \in F /\ C[x].next # head
          BY <2>1, <2>2, <2>4, <2>6, <3>2
        <4>2. E[x].next \in D \ M /\ E[x].next # h2
          BY <2>2, <2>4, <4>1
        <4>3. ASSUME NEW k \in D \ M, E[k].next = E[x].next PROVE k = x
          <5>1. k # h2
            BY <2>3, <4>1, <4>3
          <5>2. k \in F /\ C[k].next = C[x].next
            BY <2>2, <2>4, <4>1, <4>3, <5>1
          <5> QED
            BY <2>1, <2>6, <4>1, <5>2
        <4> QED
          BY <4>2, <4>3
      <3> QED
        BY <3>1, <3>2
    <2> QED
      BY <2>5, <2>6 DEF UnusedInv
  <1>19. BinInv(E, M, m.bins, X \ {h2})
    <2>1. \A x \in D : Binned(E, M, X \ {h2}, x) <=> Binned(C, L, X, x)
      BY <1>10, <1>m DEF Binned
    <2>2. \A x \in X \ {h2} : x \in M /\ ~in_use(E[x])
      BY <1>1, <1>2, <1>10, <1>m DEF BinInv
    <2>3. \A x \in D : Binned(C, L, X, x) => E[x].size = C[x].size
      BY <1>8 DEF Binned
    <2>4. /\ BinInv(C, L, m.bins, X) /\ DOMAIN E = DOMAIN C /\ (\A x \in X \ {h2} : x \in M /\ ~in_use(E[x]))
          /\ \A x \in DOMAIN C : E[x].bin_num = C[x].bin_num
          /\ \A x \in DOMAIN C : Binned(E, M, X \ {h2}, x) <=> Binned(C, L, X, x)
          /\ \A x \in DOMAIN C : Binned(C, L, X, x) => E[x].size = C[x].size
      BY <1>1, <1>2, <1>8, <2>1, <2>2, <2>3
    <2> QED
      BY <2>4, BinsStay, Zenon
  <1>20. JoinInv(E, M, X \ {h2})
    <2> SUFFICES ASSUME NEW x \in M, E[x].next # kInvalidChunkHandle, ~in_use(E[x]), ~in_use(E[E[x].next])
                 PROVE  x \in X \ {h2} \/ E[x].next \in X \ {h2}
      BY DEF JoinInv
    <2>1. x \in L /\ x \in D /\ x # h2
      BY <1>2, <1>m
    <2>2. CASE x = h1
      BY <1>6, <2>2
    <2>3. CASE x # h1
      <3>1. E[x].next = C[x].next /\ C[x].next \in L /\ C[x].next # h2 /\ C[x].next \in D
        <4>1. E[x].next = C[x].next
          BY <1>8, <2>1, <2>3
        <4>2. C[x].next \in L
          BY <1>1, <2>1, <4>1 DEF ListInv
        <4>3. C[x].next # h2
          BY <1>10, <2>1, <2>3
        <4> QED
          BY <1>2, <4>1, <4>2, <4>3
      <3>2. C[x].next # kInvalidChunkHandle /\ ~in_use(C[x]) /\ ~in_use(C[C[x].next])
        BY <1>10, <2>1, <3>1
      <3>3. x \in X \/ C[x].next \in X
        BY <1>1, <2>1, <3>2 DEF JoinInv
      <3> QED
        BY <2>1, <3>1, <3>3
    <2> QED
      BY <2>2, <2>3
  <1>21. UseInv(E, M, m.next_allocation_id)
    <2> SUFFICES ASSUME NEW x \in M, in_use(E[x])
                 PROVE  /\ 0 < E[x].allocation_id /\ E[x].allocation_id < m.next_allocation_id
                        /\ 0 < E[x].requested_size /\ E[x].requested_size <= E[x].size
                        /\ E[x].size < 2 * RoundedBytes(E[x].requested_size)
      BY DEF UseInv
    <2>1. x \in L /\ x \in D /\ in_use(C[x]) /\ x # h1
      BY <1>2, <1>4, <1>10, <1>m
    <2> QED
      BY <1>1, <1>8, <2>1 DEF UseInv
  <1>22. MemInv(r, X \ {h2})
    <2>1. r.regions = m.regions
      BY <1>9 DEF Regions
    <2> QED
      BY <1>1, <1>7, <1>8, <1>9, <1>12, <1>13, <1>14, <1>15, <1>16, <1>17, <1>18, <1>19, <1>20, <1>21, <2>1
      DEF MemInv, ChunkInv, E
  <1>23. UsedSame(m, r)
    <2>1. \A x \in UsedIn(m) : x \in L /\ x \in D /\ in_use(C[x]) /\ x # h1 /\ x # h2
      BY <1>2, <1>4 DEF UsedIn, L, C
    <2>2. \A x \in UsedIn(m) : E[x].ptr = C[x].ptr /\ E[x].size = C[x].size
                               /\ E[x].requested_size = C[x].requested_size /\ E[x].allocation_id = C[x].allocation_id
      BY <1>8, <2>1
    <2>3. \A x : x \in UsedIn(r) <=> x \in M /\ in_use(E[x])
      BY <1>12 DEF UsedIn, E
    <2>4. \A x : x \in UsedIn(m) <=> x \in L /\ in_use(C[x])
      BY DEF UsedIn, L, C
    <2>5. UsedIn(r) = UsedIn(m)
      BY <1>2, <1>4, <1>10, <1>m, <2>3, <2>4
    <2> QED
      BY <2>2, <2>5 DEF UsedSame, E, C
  <1> QED
    BY <1>7, <1>12, <1>22, <1>23 DEF r, M, L

\* Chunk structure k of A is not needed in m, and not in a list of A.
Fresh(m, A, k) ==
    /\ IsMem(A) /\ \A f \in Field \ {"chunks", "free_chunks_list"} : A[f] = m[f]
    /\ k \in Nat /\ k \notin LiveIn(m) /\ \E n \in Nat : DOMAIN m.chunks \cup {k} = 0..n - 1
    /\ A.chunks \in [DOMAIN m.chunks \cup {k} -> Chunk] /\ \A x \in DOMAIN m.chunks : A.chunks[x] = m.chunks[x]
    /\ A.chunks[k].bin_num = kInvalidBinNum /\ \A b \in Bin : k \notin m.bins[b]
    /\ A.free_chunks_list \in DOMAIN m.chunks \cup {kInvalidChunkHandle}
    /\ UnusedInv(A.chunks, (DOMAIN m.chunks \ LiveIn(m)) \ {k}, A.free_chunks_list)

\* AllocateChunk finds a Chunk structure that is not needed, or makes one.
LEMMA FreshOK ==
  ASSUME NEW m, NEW X, MemInv(m, X)
  PROVE  Fresh(m, AllocateChunk(m), ChunkHandle(m))
  <1> DEFINE A == AllocateChunk(m)
             k == ChunkHandle(m)
             C == m.chunks
             D == DOMAIN C
             L == LiveIn(m)
             F == D \ L
             head == m.free_chunks_list
  <1>1. BinInv(C, L, m.bins, X) /\ Shape(m) /\ UnusedInv(C, F, head)
    BY DEF MemInv, ChunkInv
  <1>2. /\ C \in [D -> Chunk] /\ D \subseteq Nat /\ IsMem(m) /\ L \subseteq D /\ m.bins \in [Bin -> SUBSET D]
        /\ head \in D \cup {kInvalidChunkHandle}
    BY <1>1 DEF Shape, LiveIn
  <1>3. /\ head # kInvalidChunkHandle => head \in F
        /\ \A h \in F : C[h].next # kInvalidChunkHandle =>
             /\ C[h].next \in F /\ C[h].next # head
             /\ \A x \in F : C[x].next = C[h].next => x = h
    BY <1>1 DEF UnusedInv
  <1>4. CASE head # kInvalidChunkHandle
    <2>1. k = head /\ k \in F /\ k \in D /\ k \notin L
      BY <1>3, <1>4 DEF ChunkHandle
    <2>2. A = [m EXCEPT !.free_chunks_list = C[head].next]
      BY <1>4 DEF AllocateChunk
    <2> HIDE DEF A
    <2>3. IsMem(A)
      BY <1>2, <2>2 DEF IsMem, Field
    <2>4. \A f \in Field \ {"free_chunks_list"} : A[f] = m[f]
      BY <1>2, <2>2 DEF IsMem, Field
    <2>5. A.free_chunks_list = C[head].next
      BY <1>2, <2>2 DEF IsMem, Field
    <2>6. A.chunks = C
      BY <2>4 DEF Field
    <2>7. D \cup {k} = D /\ \E n \in Nat : D = 0..n - 1
      BY <1>1, <2>1 DEF Shape
    <2>8. A.chunks[k].bin_num = kInvalidBinNum /\ \A b \in Bin : k \notin m.bins[b]
      <3>1. ~Binned(C, L, X, k)
        BY <2>1 DEF Binned
      <3> QED
        BY <1>1, <2>1, <2>6, <3>1 DEF BinInv
    <2>9. A.free_chunks_list \in D \cup {kInvalidChunkHandle}
      BY <1>3, <2>1, <2>5
    <2>10. UnusedInv(A.chunks, F \ {k}, A.free_chunks_list)
      <3>1. A.free_chunks_list # kInvalidChunkHandle => A.free_chunks_list \in F \ {k}
        BY <1>3, <2>1, <2>5
      <3>2. ASSUME NEW h \in F \ {k}, C[h].next # kInvalidChunkHandle
            PROVE  /\ C[h].next \in F \ {k} /\ C[h].next # A.free_chunks_list
                   /\ \A x \in F \ {k} : C[x].next = C[h].next => x = h
        <4>1. /\ C[h].next \in F /\ C[h].next # head
              /\ \A x \in F : C[x].next = C[h].next => x = h
          BY <1>3, <3>2
        <4> QED
          BY <2>1, <2>5, <4>1
      <3> QED
        BY <2>6, <3>1, <3>2 DEF UnusedInv
    <2>11. k \in Nat /\ A.chunks \in [D \cup {k} -> Chunk] /\ \A x \in D : A.chunks[x] = C[x]
      BY <1>2, <2>1, <2>6, <2>7
    <2>12. \A f \in Field \ {"chunks", "free_chunks_list"} : A[f] = m[f]
      BY <2>4
    <2> QED
      BY <2>1, <2>3, <2>7, <2>8, <2>9, <2>10, <2>11, <2>12 DEF Fresh, A
  <1>5. CASE head = kInvalidChunkHandle
    <2>1. k = Cardinality(D)
      BY <1>5 DEF ChunkHandle
    <2>2. PICK n \in Nat : D = 0..n - 1
      BY <1>1 DEF Shape
    <2>3. k = n
      <3>1. Cardinality(0..n - 1) = IF 0 > n - 1 THEN 0 ELSE (n - 1) - 0 + 1
        BY FS_Interval
      <3> QED
        BY <2>1, <2>2, <3>1
    <2>4. k \in Nat /\ k \notin D /\ D \cup {k} = 0..(n + 1) - 1 /\ k \notin L
      BY <1>2, <2>2, <2>3
    <2> DEFINE E == [h \in D \cup {k} |-> IF h \in D THEN C[h] ELSE NewChunk]
    <2>5. A = [m EXCEPT !.chunks = E]
      BY <1>5 DEF AllocateChunk
    <2>6. E \in [D \cup {k} -> Chunk] /\ (\A x \in D : E[x] = C[x]) /\ E[k].bin_num = kInvalidBinNum
      <3>1. NewChunk \in Chunk /\ NewChunk.bin_num = kInvalidBinNum
        BY DEF NewChunk, Chunk, nullptr, kInvalidChunkHandle, kInvalidBinNum
      <3>2. E[k] = NewChunk
        BY <2>4
      <3> QED
        BY <1>2, <3>1, <3>2
    <2> HIDE DEF A, E, k
    <2>7. IsMem(A)
      BY <1>2, <2>5 DEF IsMem, Field
    <2>8. A.chunks = E
      BY <1>2, <2>5 DEF IsMem, Field
    <2>9. \A f \in Field \ {"chunks"} : A[f] = m[f]
      BY <1>2, <2>5 DEF IsMem, Field
    <2>10. A.free_chunks_list = head
      BY <2>9 DEF Field
    <2>11. \A b \in Bin : k \notin m.bins[b]
      BY <1>2, <2>4
    <2>12. UnusedInv(A.chunks, F \ {k}, A.free_chunks_list)
      <3>1. F \ {k} = F /\ \A x \in F : A.chunks[x] = C[x]
        BY <2>4, <2>6, <2>8
      <3> QED
        BY <1>3, <2>10, <3>1 DEF UnusedInv
    <2>13. \E i \in Nat : D \cup {k} = 0..i - 1
      <3>1. n + 1 \in Nat
        OBVIOUS
      <3> QED
        BY <2>4, <3>1
    <2>14. \A f \in Field \ {"chunks", "free_chunks_list"} : A[f] = m[f]
      BY <2>9
    <2> QED
      BY <1>2, <2>4, <2>6, <2>7, <2>8, <2>10, <2>11, <2>12, <2>13, <2>14 DEF Fresh, A, k
  <1> QED
    BY <1>4, <1>5

\* The free chunk k, at address p, is in r and not in m; it is in no bin yet.
Added(m, A, r, k, p) ==
    /\ Fresh(m, A, k) /\ IsMem(r) /\ r.bins = m.bins /\ r.ok = TRUE
    /\ r.next_allocation_id = m.next_allocation_id /\ r.free_chunks_list = A.free_chunks_list
    /\ r.chunks \in [DOMAIN m.chunks \cup {k} -> Chunk]
    /\ p \notin DOMAIN m.handles
    /\ r.handles = [q \in DOMAIN m.handles \cup {p} |-> IF q = p THEN k ELSE m.handles[q]]
    /\ r.chunks[k].ptr = p /\ r.chunks[k].bin_num = kInvalidBinNum /\ r.chunks[k].allocation_id = -1
    /\ \A x \in DOMAIN m.chunks \ {k} :
         /\ r.chunks[x].ptr = m.chunks[x].ptr /\ r.chunks[x].bin_num = m.chunks[x].bin_num
         /\ r.chunks[x].allocation_id = m.chunks[x].allocation_id
         /\ r.chunks[x].requested_size = m.chunks[x].requested_size
    /\ \A x \in DOMAIN m.chunks \ {k} : x \notin LiveIn(m) => r.chunks[x].next = m.chunks[x].next

\* What holds whatever the place of the new chunk is.
LEMMA AddedFacts ==
  ASSUME NEW m, NEW X, MemInv(m, X), NEW A, NEW r, NEW k, NEW p, Added(m, A, r, k, p),
         \A x \in LiveIn(m) \ X : r.chunks[x].size = m.chunks[x].size
  PROVE  /\ Shape(r) /\ LiveIn(r) = LiveIn(m) \cup {k}
         /\ UnusedInv(r.chunks, DOMAIN r.chunks \ LiveIn(r), r.free_chunks_list)
         /\ BinInv(r.chunks, LiveIn(r), r.bins, X \cup {k})
         /\ UseInv(r.chunks, LiveIn(r), r.next_allocation_id) /\ r.next_allocation_id \in Nat \ {0}
         /\ UsedSame(m, r)
  <1> DEFINE C == m.chunks
             D == DOMAIN C
             E == r.chunks
             L == LiveIn(m)
             M == L \cup {k}
             F == (D \ L) \ {k}
  <1>1. /\ BinInv(C, L, m.bins, X) /\ Shape(m) /\ UseInv(C, L, m.next_allocation_id)
        /\ m.next_allocation_id \in Nat \ {0}
    BY DEF MemInv, ChunkInv
  <1>2. /\ C \in [D -> Chunk] /\ L \subseteq D /\ m.bins \in [Bin -> SUBSET D]
        /\ \A q \in DOMAIN m.handles : m.handles[q] \in D /\ C[m.handles[q]].ptr = q
    BY <1>1 DEF Shape, LiveIn
  <1>3. /\ k \in Nat /\ k \notin L /\ (\E n \in Nat : D \cup {k} = 0..n - 1)
        /\ (\A b \in Bin : k \notin m.bins[b]) /\ A.free_chunks_list \in D \cup {kInvalidChunkHandle}
        /\ UnusedInv(A.chunks, F, A.free_chunks_list) /\ (\A x \in D : A.chunks[x] = C[x])
    BY DEF Added, Fresh
  <1>4. /\ IsMem(r) /\ r.bins = m.bins /\ r.next_allocation_id = m.next_allocation_id
        /\ r.free_chunks_list = A.free_chunks_list /\ E \in [D \cup {k} -> Chunk] /\ DOMAIN E = D \cup {k}
        /\ p \notin DOMAIN m.handles
        /\ r.handles = [q \in DOMAIN m.handles \cup {p} |-> IF q = p THEN k ELSE m.handles[q]]
        /\ E[k].ptr = p /\ E[k].bin_num = kInvalidBinNum /\ E[k].allocation_id = -1
        /\ \A x \in D \ {k} : /\ E[x].ptr = C[x].ptr /\ E[x].bin_num = C[x].bin_num
                              /\ E[x].allocation_id = C[x].allocation_id /\ E[x].requested_size = C[x].requested_size
        /\ \A x \in D \ {k} : x \notin L => E[x].next = C[x].next
    BY DEF Added
  <1>5. \A x \in L \ X : E[x].size = C[x].size
    OBVIOUS
  <1>h. /\ DOMAIN r.handles = DOMAIN m.handles \cup {p} /\ r.handles[p] = k
        /\ \A q \in DOMAIN m.handles : r.handles[q] = m.handles[q]
    BY <1>4
  <1>6. \A x \in D : x \in L <=> C[x].ptr \in DOMAIN m.handles /\ m.handles[C[x].ptr] = x
    BY DEF LiveIn
  <1>7. \A q \in DOMAIN m.handles : m.handles[q] \in L
    BY <1>2, <1>6
  <1>8. LiveIn(r) = M
    <2>1. \A x \in D \cup {k} : x \in LiveIn(r) <=> E[x].ptr \in DOMAIN r.handles /\ r.handles[E[x].ptr] = x
      BY <1>4 DEF LiveIn
    <2>2. LiveIn(r) \subseteq D \cup {k}
      BY <1>4 DEF LiveIn
    <2> HIDE DEF C, E, D, L
    <2>3. k \in LiveIn(r)
      BY <1>4, <1>h, <2>1
    <2>4. ASSUME NEW x \in D, x # k PROVE x \in LiveIn(r) <=> x \in L
      <3>1. E[x].ptr = C[x].ptr
        BY <1>4, <2>4
      <3>2. x \in LiveIn(r) <=> C[x].ptr \in DOMAIN r.handles /\ r.handles[C[x].ptr] = x
        BY <2>1, <3>1
      <3>3. x \in L <=> C[x].ptr \in DOMAIN m.handles /\ m.handles[C[x].ptr] = x
        BY <1>6
      <3>4. CASE C[x].ptr = p
        <4>1. r.handles[C[x].ptr] # x
          BY <1>h, <2>4, <3>4
        <4>2. C[x].ptr \notin DOMAIN m.handles
          BY <1>4, <3>4
        <4> QED
          BY <3>2, <3>3, <4>1, <4>2
      <3>5. CASE C[x].ptr # p
        BY <1>h, <3>2, <3>3, <3>5
      <3> QED
        BY <3>4, <3>5
    <2> QED
      BY <1>2, <2>2, <2>3, <2>4
  <1>9. Shape(r)
    <2>1. ASSUME NEW q \in DOMAIN r.handles PROVE r.handles[q] \in D \cup {k} /\ E[r.handles[q]].ptr = q
      <3> HIDE DEF C, E, D, L
      <3>1. CASE q = p
        BY <1>4, <1>h, <3>1
      <3>2. CASE q # p
        <4>1. q \in DOMAIN m.handles /\ r.handles[q] = m.handles[q]
          BY <1>h, <3>2
        <4>2. m.handles[q] \in D /\ m.handles[q] # k /\ C[m.handles[q]].ptr = q
          BY <1>2, <1>3, <1>7, <4>1
        <4> QED
          BY <1>4, <4>1, <4>2
      <3> QED
        BY <3>1, <3>2
    <2>2. m.bins \in [Bin -> SUBSET (D \cup {k})]
      BY <1>2
    <2> QED
      BY <1>3, <1>4, <2>1, <2>2 DEF Shape
  <1>u. \A x \in D \cup {k} : in_use(E[x]) <=> x # k /\ in_use(C[x])
    BY <1>4 DEF in_use
  <1> HIDE DEF C, E, D, L, M, F
  <1>m. M = L \cup {k}
    BY DEF M
  <1>10. UnusedInv(E, DOMAIN E \ M, r.free_chunks_list)
    <2>1. DOMAIN E \ M = F
      BY <1>3, <1>4, <1>m DEF F
    <2>2. \A x \in F : E[x].next = A.chunks[x].next
      BY <1>3, <1>4 DEF F
    <2> QED
      BY <1>3, <1>4, <2>1, <2>2 DEF UnusedInv
  <1>11. BinInv(E, M, m.bins, X \cup {k})
    <2>1. \A x \in D \ {k} : Binned(E, M, X \cup {k}, x) <=> Binned(C, L, X, x)
      BY <1>m, <1>u DEF Binned
    <2>2. ~Binned(E, M, X \cup {k}, k)
      BY DEF Binned
    <2>3. \A x \in D \ {k} : Binned(C, L, X, x) => E[x].size = C[x].size
      BY <1>5 DEF Binned
    <2>4. \A x \in X \cup {k} : x \in M /\ ~in_use(E[x])
      BY <1>1, <1>2, <1>u, <1>m DEF BinInv
    <2>5. ASSUME NEW x \in D \cup {k}
          PROVE  /\ E[x].bin_num = IF Binned(E, M, X \cup {k}, x) THEN BinNumForSize(E[x].size) ELSE kInvalidBinNum
                 /\ \A b \in Bin : x \in m.bins[b] <=> Binned(E, M, X \cup {k}, x) /\ b = BinNumForSize(E[x].size)
      <3>1. CASE x = k
        BY <1>3, <1>4, <2>2, <3>1
      <3>2. CASE x # k
        <4>1. x \in D \ {k} /\ E[x].bin_num = C[x].bin_num
          BY <1>4, <3>2
        <4>2. /\ C[x].bin_num = IF Binned(C, L, X, x) THEN BinNumForSize(C[x].size) ELSE kInvalidBinNum
              /\ \A b \in Bin : x \in m.bins[b] <=> Binned(C, L, X, x) /\ b = BinNumForSize(C[x].size)
          BY <1>1, <4>1 DEF BinInv, D
        <4>3. CASE Binned(C, L, X, x)
          <5>1. Binned(E, M, X \cup {k}, x) /\ E[x].size = C[x].size
            BY <2>1, <2>3, <4>1, <4>3, Zenon
          <5> QED
            BY <4>1, <4>2, <4>3, <5>1
        <4>4. CASE ~Binned(C, L, X, x)
          <5>1. ~Binned(E, M, X \cup {k}, x)
            BY <2>1, <4>1, <4>4, Zenon
          <5> QED
            BY <4>1, <4>2, <4>4, <5>1
        <4> QED
          BY <4>3, <4>4
      <3> QED
        BY <3>1, <3>2
    <2> QED
      BY <1>4, <2>4, <2>5 DEF BinInv
  <1>12. UseInv(E, M, m.next_allocation_id)
    <2> SUFFICES ASSUME NEW x \in M, in_use(E[x])
                 PROVE  /\ 0 < E[x].allocation_id /\ E[x].allocation_id < m.next_allocation_id
                        /\ 0 < E[x].requested_size /\ E[x].requested_size <= E[x].size
                        /\ E[x].size < 2 * RoundedBytes(E[x].requested_size)
      BY DEF UseInv
    <2>1. x \in L /\ x \in D /\ in_use(C[x]) /\ x # k
      BY <1>2, <1>m, <1>u
    <2>2. x \notin X
      BY <1>1, <2>1 DEF BinInv
    <2> QED
      BY <1>1, <1>4, <1>5, <2>1, <2>2 DEF UseInv
  <1>13. UsedSame(m, r)
    <2>1. \A x \in UsedIn(m) : x \in L /\ x \in D /\ in_use(C[x]) /\ x # k /\ x \notin X
      BY <1>1, <1>2, <1>3 DEF UsedIn, L, C, BinInv
    <2>2. \A x \in UsedIn(m) : E[x].ptr = C[x].ptr /\ E[x].size = C[x].size
                               /\ E[x].requested_size = C[x].requested_size /\ E[x].allocation_id = C[x].allocation_id
      BY <1>4, <1>5, <2>1
    <2>3. \A x : x \in UsedIn(r) <=> x \in M /\ in_use(E[x])
      BY <1>8 DEF UsedIn, E
    <2>4. \A x : x \in UsedIn(m) <=> x \in L /\ in_use(C[x])
      BY DEF UsedIn, L, C
    <2>5. UsedIn(r) = UsedIn(m)
      BY <1>2, <1>u, <1>m, <1>3, <2>3, <2>4
    <2> QED
      BY <2>2, <2>5 DEF UsedSame, E, C
  <1> QED
    BY <1>1, <1>4, <1>8, <1>9, <1>10, <1>11, <1>12, <1>13 DEF E, M, L

\* The handle for address p of m is h in r.
HandleSet(m, r, p, h) ==
    /\ IsMem(r) /\ \A f \in Field \ {"handles"} : r[f] = m[f]
    /\ r.handles = [q \in DOMAIN m.handles \cup {p} |-> IF q = p THEN h ELSE m.handles[q]]

\* SetHandle changes its own field only.
LEMMA SetHandleFields ==
  ASSUME NEW m, IsMem(m), NEW p, NEW h
  PROVE  HandleSet(m, SetHandle(m, p, h), p, h)
  <1> DEFINE r == SetHandle(m, p, h)
             H == [q \in DOMAIN m.handles \cup {p} |-> IF q = p THEN h ELSE m.handles[q]]
  <1>1. r = [m EXCEPT !.handles = H]
    BY DEF SetHandle
  <1> HIDE DEF r, H
  <1>2. IsMem(r)
    BY <1>1 DEF IsMem, Field
  <1>3. \A f \in Field \ {"handles"} : r[f] = m[f]
    BY <1>1 DEF IsMem, Field
  <1>4. r.handles = H
    BY <1>1 DEF IsMem, Field
  <1> QED
    BY <1>2, <1>3, <1>4 DEF r, H, HandleSet

\* Chunk c for another block, and a shorter one.
MovedTo(c, p, n, x, y) == [c EXCEPT !.ptr = p, !.size = n, !.allocation_id = -1, !.prev = x, !.next = y]
CutTo(c, n, y) == [c EXCEPT !.size = n, !.next = y]

\* Their fields.
LEMMA MovedFields ==
  ASSUME NEW c \in Chunk, NEW p \in Int, NEW n \in Nat, NEW x \in Int, NEW y \in Int
  PROVE  /\ MovedTo(c, p, n, x, y) \in Chunk /\ MovedTo(c, p, n, x, y).ptr = p
         /\ MovedTo(c, p, n, x, y).size = n /\ MovedTo(c, p, n, x, y).allocation_id = -1
         /\ MovedTo(c, p, n, x, y).prev = x /\ MovedTo(c, p, n, x, y).next = y
         /\ MovedTo(c, p, n, x, y).bin_num = c.bin_num
  <1> DEFINE K == {"size", "requested_size", "allocation_id", "ptr", "prev", "next", "bin_num"}
             d == MovedTo(c, p, n, x, y)
  <1>1. c = [f \in K |-> c[f]] /\ c.requested_size \in Nat /\ c.bin_num \in Int
    BY DEF Chunk
  <1>2. d = [f \in K |-> d[f]]
    BY <1>1 DEF MovedTo
  <1>3. d.ptr = p /\ d.size = n /\ d.allocation_id = -1
    BY <1>1 DEF MovedTo
  <1>4. d.prev = x /\ d.next = y
    BY <1>1 DEF MovedTo
  <1>5. d.bin_num = c.bin_num /\ d.requested_size = c.requested_size
    BY <1>1 DEF MovedTo
  <1> HIDE DEF d
  <1>6. d \in Chunk
    BY <1>1, <1>2, <1>3, <1>4, <1>5 DEF Chunk
  <1> QED
    BY <1>3, <1>4, <1>5, <1>6 DEF d

\* What CutTo changes.
LEMMA CutFields ==
  ASSUME NEW c \in Chunk, NEW n \in Nat, NEW y \in Int
  PROVE  /\ CutTo(c, n, y) \in Chunk /\ CutTo(c, n, y).ptr = c.ptr /\ CutTo(c, n, y).size = n
         /\ CutTo(c, n, y).allocation_id = c.allocation_id /\ CutTo(c, n, y).prev = c.prev
         /\ CutTo(c, n, y).next = y /\ CutTo(c, n, y).bin_num = c.bin_num
         /\ CutTo(c, n, y).requested_size = c.requested_size
  BY DEF Chunk, CutTo

\* SplitChunk, but for the bin of the new chunk.
SplitOff(m, h, k, n) ==
    SetPrev(SetHandle([CHECK(m, ~in_use(m.chunks[h]) /\ m.chunks[h].bin_num = kInvalidBinNum) EXCEPT
                         !.chunks[k] = [@ EXCEPT !.ptr = m.chunks[h].ptr + n, !.size = m.chunks[h].size - n,
                                          !.allocation_id = -1, !.prev = h, !.next = m.chunks[h].next],
                         !.chunks[h].size = n, !.chunks[h].next = k],
                      m.chunks[h].ptr + n, k),
            m.chunks[h].next, k)

\* Where the chunks are once h has been cut.
SplitAt(C, E, D, h, k, n) ==
    /\ E[k].size = C[h].size - n /\ E[k].next = C[h].next /\ E[k].prev = h
    /\ E[h].size = n /\ E[h].next = k
    /\ \A x \in D \ {h, k} : E[x].size = C[x].size /\ E[x].next = C[x].next
    /\ \A x \in D \ {k} : E[x].prev =
         IF C[h].next # kInvalidChunkHandle /\ x = C[h].next THEN k ELSE C[x].prev

\* What SplitChunk changes.
LEMMA SplitFields ==
  ASSUME NEW m, NEW X, MemInv(m, X), NEW h \in X, NEW n \in Nat \ {0}, n < m.chunks[h].size,
         NEW A, NEW k, Fresh(m, A, k), m.chunks[h].ptr + n \notin DOMAIN m.handles
  PROVE  /\ Added(m, A, SplitOff(A, h, k, n), k, m.chunks[h].ptr + n)
         /\ SplitAt(m.chunks, SplitOff(A, h, k, n).chunks, DOMAIN m.chunks, h, k, n)
         /\ Regions(m, SplitOff(A, h, k, n)) /\ Counters(m, SplitOff(A, h, k, n))
  <1> DEFINE C == m.chunks
             D == DOMAIN m.chunks
             G == D \cup {k}
             L == LiveIn(m)
             z == C[h].next
             p == C[h].ptr + n
             c == ~in_use(A.chunks[h]) /\ A.chunks[h].bin_num = kInvalidBinNum
             q == CHECK(A, c)
             d == [A.chunks[k] EXCEPT !.ptr = p, !.size = C[h].size - n, !.allocation_id = -1, !.prev = h, !.next = z]
             e == [C[h] EXCEPT !.size = n, !.next = k]
             s == [q EXCEPT !.chunks[k] = [@ EXCEPT !.ptr = p, !.size = C[h].size - n,
                                            !.allocation_id = -1, !.prev = h, !.next = z],
                            !.chunks[h].size = n, !.chunks[h].next = k]
             u == SetHandle(s, p, k)
             r == SetPrev(u, z, k)
  <1>1. BinInv(C, L, m.bins, X) /\ Shape(m) /\ ListInv(C, L) /\ m.ok = TRUE
    BY DEF MemInv, ChunkInv
  <1>2. C \in [D -> Chunk] /\ D \subseteq Nat /\ IsMem(m) /\ L \subseteq D
    BY <1>1 DEF Shape, LiveIn
  <1>3. /\ IsMem(A) /\ (\A f \in Field \ {"chunks", "free_chunks_list"} : A[f] = m[f]) /\ k \in Nat /\ k \notin L
        /\ A.chunks \in [G -> Chunk] /\ (\A x \in D : A.chunks[x] = C[x]) /\ A.chunks[k].bin_num = kInvalidBinNum
    BY DEF Fresh
  <1>4. h \in L /\ h \in D /\ h \in Int /\ h # k /\ ~in_use(C[h]) /\ ~Binned(C, L, X, h)
    BY <1>1, <1>2, <1>3 DEF BinInv, Binned
  <1>5. C[h].bin_num = kInvalidBinNum /\ C[h] \in Chunk /\ A.chunks[h] = C[h]
    BY <1>1, <1>2, <1>3, <1>4 DEF BinInv
  <1>6. z \in L \cup {kInvalidChunkHandle}
    BY <1>1, <1>4 DEF ListInv
  <1>7. r = SplitOff(A, h, k, n)
    BY <1>5 DEF SplitOff
  <1>8. c = TRUE
    BY <1>4, <1>5
  <1>9. /\ IsMem(q) /\ Regions(A, q) /\ Counters(A, q) /\ Lists(A, q)
        /\ q.chunks = A.chunks /\ q.bins = A.bins /\ q.ok = (A.ok /\ c)
    <2> HIDE DEF c
    <2> QED
      BY <1>3, CheckFields, Zenon
  <1>10. Regions(m, A) /\ Counters(m, A) /\ A.handles = m.handles /\ A.bins = m.bins /\ A.ok = m.ok
    BY <1>3 DEF Regions, Counters, Field
  <1> HIDE DEF q, c, G
  <1>g. k \in G /\ h \in G /\ D \subseteq G /\ (\A x \in G : x \in D \/ x = k) /\ z \in G \cup {kInvalidChunkHandle}
    BY <1>2, <1>4, <1>6 DEF G
  <1>11. IsMem(s)
    <2> DEFINE v == [q.chunks[k] EXCEPT !.ptr = p, !.size = C[h].size - n, !.allocation_id = -1,
                                        !.prev = h, !.next = z]
               t == [q EXCEPT !.chunks[k] = v, !.chunks[h].size = n, !.chunks[h].next = k]
    <2>1. s = t
      OBVIOUS
    <2> HIDE DEF v, s
    <2>2. IsMem(q)
      BY <1>9
    <2>3. IsMem(t)
      BY <2>2 DEF IsMem, Field
    <2> QED
      BY <2>1, <2>3
  <1>12. \A f \in Field \ {"chunks"} : s[f] = q[f]
    BY <1>9 DEF IsMem, Field
  <1>13. s.chunks = [A.chunks EXCEPT ![k] = d, ![h] = e]
    <2>1. s.chunks = [q.chunks EXCEPT ![k] = [@ EXCEPT !.ptr = p, !.size = C[h].size - n,
                                               !.allocation_id = -1, !.prev = h, !.next = z],
                                      ![h].size = n, ![h].next = k]
      BY <1>9 DEF IsMem, Field
    <2>2. [A.chunks EXCEPT ![k] = d, ![h].size = n, ![h].next = k] = [A.chunks EXCEPT ![k] = d, ![h] = e]
      <3> HIDE DEF d
      <3>1. A.chunks[h] = C[h] /\ h # k /\ h \in G /\ k \in G /\ A.chunks \in [G -> Chunk]
        BY <1>3, <1>4, <1>5, <1>g
      <3>2. [C[h] EXCEPT !.size = n, !.next = k] = [[C[h] EXCEPT !.size = n] EXCEPT !.next = k]
        BY <1>5 DEF Chunk
      <3> QED
        BY <3>1, <3>2
    <2> QED
      BY <1>9, <2>1, <2>2
  <1>14. /\ d \in Chunk /\ d.ptr = p /\ d.size = C[h].size - n /\ d.allocation_id = -1 /\ d.prev = h /\ d.next = z
         /\ d.bin_num = kInvalidBinNum
    <2>1. A.chunks[k] \in Chunk /\ A.chunks[k].bin_num = kInvalidBinNum
      BY <1>3, <1>g
    <2>2. p \in Int /\ C[h].size - n \in Nat /\ z \in Int
      BY <1>5 DEF Chunk
    <2> DEFINE a == A.chunks[k]
               b == C[h].size - n
    <2>3. a \in Chunk /\ p \in Int /\ b \in Nat /\ h \in Int /\ z \in Int /\ a.bin_num = kInvalidBinNum
      BY <1>4, <2>1, <2>2
    <2>4. d = MovedTo(a, p, b, h, z)
      BY DEF MovedTo
    <2> HIDE DEF p, z, a, b, d
    <2>5. /\ MovedTo(a, p, b, h, z) \in Chunk /\ MovedTo(a, p, b, h, z).ptr = p
          /\ MovedTo(a, p, b, h, z).size = b /\ MovedTo(a, p, b, h, z).allocation_id = -1
          /\ MovedTo(a, p, b, h, z).prev = h /\ MovedTo(a, p, b, h, z).next = z
          /\ MovedTo(a, p, b, h, z).bin_num = a.bin_num
      BY <2>3, MovedFields
    <2>6. d.size = b /\ b = C[h].size - n
      BY <2>4, <2>5 DEF b
    <2> QED
      BY <2>3, <2>4, <2>5, <2>6
  <1>15. /\ e \in Chunk /\ e.ptr = C[h].ptr /\ e.size = n /\ e.allocation_id = C[h].allocation_id
         /\ e.prev = C[h].prev /\ e.next = k /\ e.bin_num = C[h].bin_num /\ e.requested_size = C[h].requested_size
    <2>1. C[h] \in Chunk /\ n \in Nat /\ k \in Int
      BY <1>3, <1>5
    <2> DEFINE a == C[h]
    <2>2. e = CutTo(a, n, k)
      BY DEF CutTo
    <2>3. a \in Chunk /\ n \in Nat /\ k \in Int
      BY <2>1
    <2> HIDE DEF e, a
    <2>4. /\ e \in Chunk /\ e.ptr = a.ptr /\ e.size = n /\ e.allocation_id = a.allocation_id
          /\ e.prev = a.prev /\ e.next = k /\ e.bin_num = a.bin_num /\ e.requested_size = a.requested_size
      BY <2>2, <2>3, CutFields
    <2> QED
      BY <2>4 DEF a
  <1> HIDE DEF s, d, e
  <1>16. s.chunks \in [G -> Chunk] /\ \A x \in G : s.chunks[x] = IF x = h THEN e ELSE IF x = k THEN d ELSE C[x]
    <2>1. s.chunks \in [G -> Chunk]
      BY <1>3, <1>13, <1>14, <1>15, <1>g
    <2>2. \A x \in G : s.chunks[x] = IF x = h THEN e ELSE IF x = k THEN d ELSE A.chunks[x]
      BY <1>3, <1>13, <1>g
    <2> QED
      BY <1>3, <1>g, <2>1, <2>2
  <1>17. HandleSet(s, u, p, k)
    BY <1>11, SetHandleFields
  <1> HIDE DEF u, z, p
  <1>18. PrevSet(u, r, G, z, k)
    <2>1. u.chunks = s.chunks
      BY <1>17 DEF Field, HandleSet
    <2>2. IsMem(u) /\ u.chunks \in [G -> Chunk] /\ z \in G \cup {kInvalidChunkHandle} /\ k \in Int
      BY <1>3, <1>16, <1>17, <1>g, <2>1 DEF HandleSet
    <2> QED
      BY <2>2, SetPrevFields
  <1> HIDE DEF r
  <1>19. /\ Regions(s, r) /\ Counters(s, r) /\ r.bins = s.bins /\ r.ok = s.ok
         /\ r.free_chunks_list = s.free_chunks_list /\ u.chunks = s.chunks /\ r.handles = u.handles
    BY <1>17, <1>18 DEF Regions, Counters, Field, PrevSet, HandleSet
  <1>20. /\ Regions(q, s) /\ Counters(q, s) /\ s.bins = q.bins /\ s.ok = q.ok
         /\ s.free_chunks_list = q.free_chunks_list /\ s.handles = q.handles
    BY <1>12 DEF Regions, Counters, Field
  <1>21. Regions(m, r) /\ Counters(m, r)
    BY <1>9, <1>10, <1>19, <1>20 DEF Regions, Counters
  <1>22. r.bins = m.bins /\ r.ok = TRUE /\ r.free_chunks_list = A.free_chunks_list
    BY <1>1, <1>8, <1>9, <1>10, <1>19, <1>20 DEF Lists
  <1>23. r.handles = [x \in DOMAIN m.handles \cup {p} |-> IF x = p THEN k ELSE m.handles[x]]
    <2>1. s.handles = m.handles
      BY <1>9, <1>10, <1>20 DEF Lists
    <2> QED
      BY <1>17, <1>19, <2>1 DEF HandleSet
  <1> DEFINE E == r.chunks
  <1>24. /\ E \in [G -> Chunk] /\ \A x \in G : SameBlock(s.chunks[x], E[x]) /\ E[x].next = s.chunks[x].next
         /\ \A x \in G : E[x].prev = IF z # kInvalidChunkHandle /\ x = z THEN k ELSE s.chunks[x].prev
    BY <1>18, <1>19 DEF PrevSet
  <1> HIDE DEF E
  <1>25. z = kInvalidChunkHandle \/ z # k
    BY <1>3, <1>6
  <1>26. /\ E[k].ptr = p /\ E[k].bin_num = kInvalidBinNum /\ E[k].allocation_id = -1
         /\ E[k].size = C[h].size - n /\ E[k].next = z /\ E[k].prev = h
    BY <1>4, <1>14, <1>16, <1>24, <1>25, <1>g DEF SameBlock
  <1>27. E[h].size = n /\ E[h].next = k
    BY <1>15, <1>16, <1>24, <1>g DEF SameBlock
  <1>28. \A x \in D \ {k} : /\ E[x].ptr = C[x].ptr /\ E[x].bin_num = C[x].bin_num
                            /\ E[x].allocation_id = C[x].allocation_id /\ E[x].requested_size = C[x].requested_size
    BY <1>15, <1>16, <1>24, <1>g DEF SameBlock
  <1>29. \A x \in D \ {h, k} : E[x].size = C[x].size /\ E[x].next = C[x].next
    BY <1>16, <1>24, <1>g DEF SameBlock
  <1>30. \A x \in D \ {k} : E[x].prev = IF z # kInvalidChunkHandle /\ x = z THEN k ELSE C[x].prev
    BY <1>15, <1>16, <1>24, <1>g
  <1>31. \A x \in D \ {k} : x \notin L => E[x].next = C[x].next
    BY <1>4, <1>29
  <1>32. r.next_allocation_id = m.next_allocation_id /\ IsMem(r)
    BY <1>18, <1>21 DEF Counters, PrevSet
  <1>33. p \notin DOMAIN m.handles
    BY DEF p
  <1>34. Added(m, A, r, k, p)
    BY <1>22, <1>23, <1>24, <1>26, <1>28, <1>31, <1>32, <1>33 DEF Added, G, E
  <1>35. SplitAt(C, E, D, h, k, n)
    BY <1>26, <1>27, <1>29, <1>30 DEF SplitAt, z
  <1> QED
    BY <1>7, <1>21, <1>34, <1>35 DEF E, p

\* The address inside a chunk at which it may be cut is nobody's.
LEMMA InsideIsFree ==
  ASSUME NEW m, NEW X, MemInv(m, X), NEW h \in LiveIn(m), NEW n \in Nat \ {0}, n < m.chunks[h].size
  PROVE  m.chunks[h].ptr + n \notin DOMAIN m.handles
  <1> SUFFICES ASSUME m.chunks[h].ptr + n \in DOMAIN m.handles PROVE FALSE
    OBVIOUS
  <1> DEFINE C == m.chunks
             p == C[h].ptr + n
             x == m.handles[p]
  <1>1. Shape(m) /\ ApartInv(C, LiveIn(m)) /\ ListInv(C, LiveIn(m))
    BY DEF MemInv, ChunkInv
  <1>2. x \in DOMAIN C /\ C[x].ptr = p
    BY <1>1 DEF Shape
  <1>3. x \in LiveIn(m)
    BY <1>2 DEF LiveIn
  <1>4. C[h].ptr \in Int /\ C[h].size \in Nat /\ C[x].ptr \in Int /\ C[x].size \in Nat /\ C[x].size > 0
    <2>1. h \in DOMAIN C /\ C[h] \in Chunk /\ C[x] \in Chunk
      BY <1>1, <1>2 DEF Shape, LiveIn
    <2>2. C[x].size > 0
      BY <1>1, <1>3 DEF ListInv
    <2> QED
      BY <2>1, <2>2 DEF Chunk
  <1>5. x # h
    BY <1>2, <1>4
  <1>6. End(C[h]) <= C[x].ptr \/ End(C[x]) <= C[h].ptr
    BY <1>1, <1>3, <1>5 DEF ApartInv
  <1> QED
    BY <1>2, <1>4, <1>6 DEF End

\* Chunk h of m is cut in two, h and k, in r.
SplitInto(m, r, h, k, n) ==
    /\ LiveIn(r) = LiveIn(m) \cup {k} /\ k \notin LiveIn(m)
    /\ r.chunks[h].size = n /\ r.chunks[k].size = m.chunks[h].size - n
    /\ \A x \in LiveIn(m) \ {h} : r.chunks[x].size = m.chunks[x].size

SplitDone(m, r, X, h, k, n) ==
    /\ MemInv(r, X \cup {k}) /\ UsedSame(m, r) /\ SplitInto(m, r, h, k, n) /\ Regions(m, r) /\ Counters(m, r)
    /\ r.chunks[k].prev = h /\ r.chunks[k].next = m.chunks[h].next

\* The new chunk is in its place.
LEMMA SplitOffOK ==
  ASSUME NEW m, NEW X, MemInv(m, X), NEW h \in X, NEW n \in Nat \ {0}, n < m.chunks[h].size,
         NEW A, NEW k, Fresh(m, A, k)
  PROVE  SplitDone(m, SplitOff(A, h, k, n), X, h, k, n)
  <1> DEFINE r == SplitOff(A, h, k, n)
             C == m.chunks
             E == r.chunks
             D == DOMAIN m.chunks
             L == LiveIn(m)
             M == L \cup {k}
             z == C[h].next
             p == C[h].ptr + n
  <1>1. /\ BinInv(C, L, m.bins, X) /\ Shape(m) /\ ApartInv(C, L)
        /\ JoinInv(C, L, X) /\ m.ok = TRUE /\ ListInv(C, L) /\ RegionInv(C, L, m.regions) /\ SpaceInv(m)
    BY DEF MemInv, ChunkInv
  <1>2. C \in [D -> Chunk] /\ D \subseteq Nat /\ L \subseteq D /\ \A x \in D : x # kInvalidChunkHandle
    <2>1. C \in [D -> Chunk] /\ IsMem(m) /\ \E i \in Nat : D = 0..i - 1
      BY <1>1 DEF Shape
    <2>2. L \subseteq D
      BY DEF LiveIn
    <2>3. D \subseteq Nat /\ \A x \in D : x # kInvalidChunkHandle
      <3> HIDE DEF D
      <3> QED
        BY <2>1 DEF kInvalidChunkHandle
    <2> QED
      BY <2>1, <2>2, <2>3
  <1>3. \A x \in D : /\ C[x].size \in Nat /\ C[x].ptr \in Int /\ C[x].next \in Int /\ C[x].prev \in Int
    BY <1>2 DEF Chunk
  <1>4. h \in L /\ h \in D /\ ~in_use(C[h])
    BY <1>1, <1>2 DEF BinInv
  <1>5. p \notin DOMAIN m.handles
    BY <1>4, InsideIsFree
  <1>6. /\ Added(m, A, r, k, p) /\ SplitAt(C, E, D, h, k, n) /\ Regions(m, r) /\ Counters(m, r)
    BY <1>5, SplitFields
  <1>7. /\ C[h].size > 0
        /\ z # kInvalidChunkHandle => z \in L /\ z \in D /\ C[z].prev = h /\ C[z].ptr = End(C[h])
    BY <1>1, <1>2, <1>4 DEF ListInv
  <1>8. k \in Nat /\ k \notin L /\ k # kInvalidChunkHandle /\ k # h
    BY <1>4, <1>6 DEF Added, Fresh, kInvalidChunkHandle
  <1>9. /\ E[k].ptr = p /\ E[k].allocation_id = -1
        /\ \A x \in D \ {k} : /\ E[x].ptr = C[x].ptr /\ E[x].allocation_id = C[x].allocation_id
    BY <1>6 DEF Added
  <1>10. /\ E[k].size = C[h].size - n /\ E[k].next = z /\ E[k].prev = h
         /\ E[h].size = n /\ E[h].next = k
         /\ \A x \in D \ {h, k} : E[x].size = C[x].size /\ E[x].next = C[x].next
         /\ \A x \in D \ {k} : E[x].prev = IF z # kInvalidChunkHandle /\ x = z THEN k ELSE C[x].prev
    BY <1>6 DEF SplitAt
  <1>11. /\ Shape(r) /\ LiveIn(r) = M
         /\ UnusedInv(E, DOMAIN E \ M, r.free_chunks_list)
         /\ BinInv(E, M, r.bins, X \cup {k})
         /\ UseInv(E, M, r.next_allocation_id) /\ r.next_allocation_id \in Nat \ {0} /\ UsedSame(m, r)
    <2>1. \A x \in L \ X : E[x].size = C[x].size
      BY <1>2, <1>8, <1>10
    <2>2. \A x \in LiveIn(m) \ X : r.chunks[x].size = m.chunks[x].size
      BY <2>1
    <2> HIDE DEF r, p
    <2>3. /\ Shape(r) /\ LiveIn(r) = LiveIn(m) \cup {k}
          /\ UnusedInv(r.chunks, DOMAIN r.chunks \ LiveIn(r), r.free_chunks_list)
          /\ BinInv(r.chunks, LiveIn(r), r.bins, X \cup {k})
          /\ UseInv(r.chunks, LiveIn(r), r.next_allocation_id) /\ r.next_allocation_id \in Nat \ {0}
          /\ UsedSame(m, r)
      BY <1>6, <2>2, AddedFacts
    <2> QED
      BY <2>3
  <1>12. SpaceInv(r)
    BY <1>1, <1>6 DEF SpaceInv, Regions
  <1>13. \A x \in D \ {k} : in_use(E[x]) <=> in_use(C[x])
    BY <1>9 DEF in_use
  <1>14. ~in_use(E[k])
    BY <1>9 DEF in_use
  <1> HIDE DEF r, C, E, D, L, M, z
  <1>m. M = L \cup {k} /\ \A x \in L : x \in D \ {k}
    BY <1>2, <1>8 DEF M
  <1>n. C[h].ptr \in Int /\ C[h].size \in Nat /\ p = C[h].ptr + n /\ n < C[h].size
    BY <1>3, <1>4 DEF C
  <1> HIDE DEF p
  <1>e. End(E[h]) = p /\ End(E[k]) = End(C[h])
    BY <1>9, <1>10, <1>n, <1>m, <1>4 DEF End
  <1>15. ListInv(E, M)
    <2>1. ASSUME NEW x \in M
          PROVE  /\ E[x].size > 0
                 /\ E[x].next # kInvalidChunkHandle =>
                      E[x].next \in M /\ E[E[x].next].prev = x /\ E[E[x].next].ptr = End(E[x])
                 /\ E[x].prev # kInvalidChunkHandle => E[x].prev \in M /\ E[E[x].prev].next = x
      <3>1. CASE x = k
        <4>1. E[k].size > 0
          BY <1>10, <1>n
        <4>2. ASSUME z # kInvalidChunkHandle PROVE z \in M /\ E[z].prev = k /\ E[z].ptr = End(E[k])
          BY <1>7, <1>9, <1>10, <1>e, <1>m, <4>2
        <4>3. h \in M /\ E[h].next = k
          BY <1>4, <1>10, <1>m
        <4> QED
          BY <1>10, <3>1, <4>1, <4>2, <4>3
      <3>2. CASE x # k
        <4>0. x \in L /\ x \in D \ {k}
          BY <1>m, <3>2
        <4>1. /\ C[x].size > 0
              /\ C[x].next # kInvalidChunkHandle =>
                   C[x].next \in L /\ C[C[x].next].prev = x /\ C[C[x].next].ptr = End(C[x])
              /\ C[x].prev # kInvalidChunkHandle => C[x].prev \in L /\ C[C[x].prev].next = x
          BY <1>1, <4>0 DEF ListInv
        <4>2. E[x].prev # kInvalidChunkHandle => E[x].prev \in M /\ E[E[x].prev].next = x
          <5>1. CASE z # kInvalidChunkHandle /\ x = z
            BY <1>10, <1>m, <4>0, <5>1
          <5>2. CASE ~(z # kInvalidChunkHandle /\ x = z)
            <6> SUFFICES ASSUME E[x].prev # kInvalidChunkHandle PROVE E[x].prev \in M /\ E[E[x].prev].next = x
              OBVIOUS
            <6>1. E[x].prev = C[x].prev
              BY <1>10, <4>0, <5>2
            <6>2. C[x].prev \in L /\ C[C[x].prev].next = x
              BY <4>1, <6>1
            <6>3. C[x].prev # h
              BY <1>2, <4>0, <5>2, <6>2 DEF z
            <6> QED
              BY <1>10, <1>m, <6>1, <6>2, <6>3
          <5> QED
            BY <5>1, <5>2
        <4>3. CASE x = h
          BY <1>8, <1>9, <1>10, <1>e, <1>m, <1>n, <4>2, <4>3
        <4>4. CASE x # h
          <5>1. E[x].size = C[x].size /\ E[x].next = C[x].next /\ E[x].ptr = C[x].ptr
            BY <1>9, <1>10, <4>0, <4>4
          <5>2. End(E[x]) = End(C[x])
            BY <5>1 DEF End
          <5>3. ASSUME C[x].next # kInvalidChunkHandle
                PROVE C[x].next \in M /\ E[C[x].next].prev = x /\ E[C[x].next].ptr = End(C[x])
            <6>1. C[x].next \in L /\ C[C[x].next].prev = x /\ C[C[x].next].ptr = End(C[x])
              BY <4>1, <5>3
            <6>2. ~(z # kInvalidChunkHandle /\ C[x].next = z)
              BY <1>7, <4>4, <6>1
            <6> QED
              BY <1>9, <1>10, <1>m, <6>1, <6>2
          <5> QED
            BY <4>1, <4>2, <5>1, <5>2, <5>3
        <4> QED
          BY <4>3, <4>4
      <3> QED
        BY <3>1, <3>2
    <2> QED
      BY <2>1 DEF ListInv
  <1>16. ApartInv(E, M)
    <2>1. ASSUME NEW x \in L, x # h
          PROVE  /\ End(E[x]) = End(C[x]) /\ E[x].ptr = C[x].ptr /\ E[x].ptr \in Int /\ End(E[x]) \in Int
                 /\ End(C[x]) <= C[h].ptr \/ End(C[h]) <= C[x].ptr
      BY <1>1, <1>3, <1>4, <1>9, <1>10, <1>m, <2>1 DEF End, ApartInv
    <2>2. End(C[h]) = C[h].ptr + C[h].size
      BY DEF End
    <2>3. E[h].ptr = C[h].ptr /\ E[k].ptr = p
      BY <1>4, <1>9, <1>m
    <2>4. ASSUME NEW x \in L, x # h
          PROVE  /\ End(E[x]) <= E[h].ptr \/ End(E[h]) <= E[x].ptr
                 /\ End(E[x]) <= E[k].ptr \/ End(E[k]) <= E[x].ptr
      BY <1>e, <1>n, <2>1, <2>2, <2>3, <2>4
    <2>5. ASSUME NEW x \in L, x # h, NEW y \in L, y # h, x # y
          PROVE  End(E[x]) <= E[y].ptr \/ End(E[y]) <= E[x].ptr
      <3>1. End(C[x]) <= C[y].ptr \/ End(C[y]) <= C[x].ptr
        BY <1>1, <2>5 DEF ApartInv
      <3> QED
        BY <2>1, <2>5, <3>1
    <2>6. End(E[h]) <= E[k].ptr
      BY <1>e, <1>n, <2>3
    <2> SUFFICES ASSUME NEW x \in M, NEW y \in M, x # y
                 PROVE  End(E[x]) <= E[y].ptr \/ End(E[y]) <= E[x].ptr
      BY DEF ApartInv
    <2> QED
      BY <1>m, <2>4, <2>5, <2>6
  <1>17. RegionInv(E, M, m.regions)
    <2>1. PICK a \in m.regions : RegionOf(C, h, a)
      BY <1>1, <1>4 DEF RegionInv
    <2>2. a.ptr \in Int /\ End(a) \in Int /\ a.ptr <= C[h].ptr /\ End(C[h]) <= End(a) /\ End(C[h]) = C[h].ptr + C[h].size
      BY <1>1, <2>1 DEF SpaceInv, RegionOf, Inside, End
    <2>3. E[h].ptr = C[h].ptr /\ E[k].ptr = p
      BY <1>4, <1>9, <1>m
    <2>4. Inside(E[h], a) /\ Inside(E[k], a)
      BY <1>e, <1>n, <2>2, <2>3 DEF Inside
    <2>5. \A x \in L \ {h} : E[x].ptr = C[x].ptr /\ End(E[x]) = End(C[x])
      BY <1>9, <1>10, <1>m DEF End
    <2>6. \A x \in L \ {h} : \A c : Inside(C[x], c) => Inside(E[x], c)
      BY <2>5 DEF Inside
    <2>7. RegionOf(E, h, a)
      <3>1. E[h].prev = kInvalidChunkHandle => C[h].prev = kInvalidChunkHandle
        BY <1>4, <1>8, <1>10, <1>m
      <3> QED
        BY <1>8, <1>10, <2>1, <2>3, <2>4, <3>1 DEF RegionOf
    <2>8. RegionOf(E, k, a)
      <3>1. h # kInvalidChunkHandle
        BY <1>2, <1>4
      <3>2. CASE z = kInvalidChunkHandle
        <4>1. End(E[k]) = End(a)
          BY <1>e, <2>1, <3>2 DEF RegionOf, z
        <4> QED
          BY <1>10, <2>4, <3>1, <3>2, <4>1 DEF RegionOf
      <3>3. CASE z # kInvalidChunkHandle
        <4>1. z \in L /\ z # h /\ Inside(C[z], a)
          <5>1. Inside(C[z], a)
            BY <2>1, <3>3 DEF RegionOf, z
          <5>2. z # h
            BY <1>7, <1>n, <3>3 DEF End
          <5> QED
            BY <1>7, <3>3, <5>1, <5>2
        <4>2. Inside(E[z], a)
          BY <2>6, <4>1
        <4> QED
          BY <1>10, <2>4, <3>1, <3>3, <4>2 DEF RegionOf
      <3> QED
        BY <3>2, <3>3
    <2>9. ASSUME NEW x \in L, x # h PROVE \E c \in m.regions : RegionOf(E, x, c)
      <3>1. PICK c \in m.regions : RegionOf(C, x, c)
        BY <1>1 DEF RegionInv
      <3>2. Inside(E[x], c) /\ E[x].next = C[x].next /\ End(E[x]) = End(C[x]) /\ E[x].ptr = C[x].ptr
        BY <1>10, <1>m, <2>5, <2>6, <2>9, <3>1 DEF RegionOf
      <3>3. E[x].prev = kInvalidChunkHandle => C[x].prev = kInvalidChunkHandle
        BY <1>8, <1>10, <1>m
      <3>4. E[x].prev = kInvalidChunkHandle => E[x].ptr = c.ptr
        BY <3>1, <3>2, <3>3 DEF RegionOf
      <3>5. CASE C[x].next = kInvalidChunkHandle
        <4>1. End(E[x]) = End(c)
          BY <3>1, <3>2, <3>5 DEF RegionOf
        <4> QED
          BY <3>2, <3>4, <3>5, <4>1 DEF RegionOf
      <3>6. CASE C[x].next # kInvalidChunkHandle
        <4>1. C[x].next \in L /\ Inside(C[C[x].next], c)
          BY <1>1, <3>1, <3>6 DEF ListInv, RegionOf
        <4>2. CASE C[x].next = h
          <5>1. c = a
            <6>1. C[h].ptr \in Int /\ C[h].size \in Nat \ {0} /\ Inside(C[h], c) /\ Inside(C[h], a)
              BY <1>7, <1>n, <2>1, <4>1, <4>2 DEF RegionOf
            <6> QED
              BY <1>1, <6>1, SameRegion
          <5> QED
            BY <2>4, <3>2, <3>4, <3>6, <4>2, <5>1 DEF RegionOf
        <4>3. CASE C[x].next # h
          <5>1. Inside(E[C[x].next], c)
            BY <2>6, <4>1, <4>3
          <5> QED
            BY <3>2, <3>4, <3>6, <5>1 DEF RegionOf
        <4> QED
          BY <4>2, <4>3
      <3> QED
        BY <3>5, <3>6
    <2> QED
      BY <1>m, <2>7, <2>8, <2>9 DEF RegionInv
  <1>18. JoinInv(E, M, X \cup {k})
    <2> SUFFICES ASSUME NEW x \in M, E[x].next # kInvalidChunkHandle, ~in_use(E[x]), ~in_use(E[E[x].next])
                 PROVE  x \in X \cup {k} \/ E[x].next \in X \cup {k}
      BY DEF JoinInv
    <2>1. CASE x = k \/ x = h
      BY <2>1
    <2>2. CASE x # k /\ x # h
      <3>1. x \in L /\ E[x].next = C[x].next /\ ~in_use(C[x])
        BY <1>10, <1>13, <1>m, <2>2
      <3>2. C[x].next \in L
        BY <1>1, <3>1 DEF ListInv
      <3>3. ~in_use(C[C[x].next])
        BY <1>13, <1>m, <3>1, <3>2
      <3>4. x \in X \/ C[x].next \in X
        BY <1>1, <3>1, <3>3 DEF JoinInv
      <3> QED
        BY <3>1, <3>4
    <2> QED
      BY <2>1, <2>2
  <1>19. MemInv(r, X \cup {k})
    <2>1. r.regions = m.regions /\ r.ok = TRUE
      BY <1>6 DEF Regions, Added
    <2> QED
      BY <1>11, <1>12, <1>15, <1>16, <1>17, <1>18, <2>1 DEF MemInv, ChunkInv, E
  <1>20. SplitInto(m, r, h, k, n)
    <2>1. LiveIn(r) = LiveIn(m) \cup {k} /\ k \notin LiveIn(m)
      BY <1>8, <1>11 DEF M, L
    <2>2. E[h].size = n /\ E[k].size = C[h].size - n /\ \A x \in L \ {h} : E[x].size = C[x].size
      BY <1>10, <1>m
    <2> QED
      BY <2>1, <2>2 DEF SplitInto, E, C, L
  <1> QED
    BY <1>6, <1>10, <1>11, <1>19, <1>20 DEF r, E, z, C, SplitDone

\* Getting into a bin changes nothing else.
LEMMA BinSetSame ==
  ASSUME NEW m, NEW r, NEW h \in DOMAIN m.chunks, NEW b \in Int, NEW B \in [Bin -> SUBSET DOMAIN m.chunks],
         NEW ok, Shape(m), BinSet(m, r, h, b, B, ok)
  PROVE  /\ LiveIn(r) = LiveIn(m) /\ Regions(m, r) /\ Counters(m, r)
         /\ \A x \in LiveIn(m) : Alike(m.chunks[x], r.chunks[x])
  <1>1. /\ LiveIn(r) = LiveIn(m) /\ \A x \in DOMAIN m.chunks : Alike(m.chunks[x], r.chunks[x])
    BY BinSetFacts
  <1>2. LiveIn(m) \subseteq DOMAIN m.chunks
    BY DEF LiveIn
  <1>3. Regions(m, r) /\ Counters(m, r)
    BY DEF BinSet
  <1> QED
    BY <1>1, <1>2, <1>3

\* InsertFreeChunkIntoBin changes nothing of a chunk but its bin.
LEMMA InsertSame ==
  ASSUME NEW m, Shape(m), NEW h \in DOMAIN m.chunks
  PROVE  /\ LiveIn(InsertFreeChunkIntoBin(m, h)) = LiveIn(m)
         /\ Regions(m, InsertFreeChunkIntoBin(m, h)) /\ Counters(m, InsertFreeChunkIntoBin(m, h))
         /\ \A x \in LiveIn(m) : Alike(m.chunks[x], InsertFreeChunkIntoBin(m, h).chunks[x])
  <1> DEFINE r == InsertFreeChunkIntoBin(m, h)
             b == BinNumForSize(m.chunks[h].size)
             B == [m.bins EXCEPT ![b] = @ \cup {h}]
             ok == m.ok /\ ~in_use(m.chunks[h]) /\ m.chunks[h].bin_num = kInvalidBinNum
  <1>1. BinSet(m, r, h, b, B, ok)
    BY InsertFields
  <1>2. b \in Bin
    <2>1. m.chunks[h].size \in Nat
      BY DEF Shape, Chunk
    <2> QED
      BY <2>1, BinFacts DEF Bin
  <1>3. b \in Int /\ B \in [Bin -> SUBSET DOMAIN m.chunks]
    <2>1. b \in Int
      BY <1>2 DEF Bin, kNumBins
    <2>2. B \in [Bin -> SUBSET DOMAIN m.chunks]
      BY <1>2 DEF Shape
    <2> QED
      BY <2>1, <2>2
  <1> HIDE DEF r, b, B, ok
  <1>4. /\ LiveIn(r) = LiveIn(m) /\ Regions(m, r) /\ Counters(m, r)
        /\ \A x \in LiveIn(m) : Alike(m.chunks[x], r.chunks[x])
    BY <1>1, <1>3, BinSetSame
  <1> QED
    BY <1>4 DEF r

\* RemoveFreeChunkFromBin changes nothing of a chunk but its bin.
LEMMA RemoveSame ==
  ASSUME NEW m, NEW X, MemInv(m, X), NEW h \in FreeIn(m) \ X
  PROVE  /\ LiveIn(RemoveFreeChunkFromBin(m, h)) = LiveIn(m)
         /\ Regions(m, RemoveFreeChunkFromBin(m, h)) /\ Counters(m, RemoveFreeChunkFromBin(m, h))
         /\ \A x \in LiveIn(m) : Alike(m.chunks[x], RemoveFreeChunkFromBin(m, h).chunks[x])
  <1> DEFINE r == RemoveFreeChunkFromBin(m, h)
             b == m.chunks[h].bin_num
             B == [m.bins EXCEPT ![b] = @ \ {h}]
  <1>1. BinSet(m, r, h, kInvalidBinNum, B, TRUE)
    BY RemoveOK
  <1>2. Shape(m) /\ h \in DOMAIN m.chunks
    BY DEF MemInv, FreeIn, LiveIn
  <1>3. kInvalidBinNum \in Int /\ B \in [Bin -> SUBSET DOMAIN m.chunks]
    <2>1. b \in Bin
      BY RemoveOK
    <2> QED
      BY <1>2, <2>1 DEF Shape, kInvalidBinNum
  <1> HIDE DEF r, b, B
  <1>4. /\ LiveIn(r) = LiveIn(m) /\ Regions(m, r) /\ Counters(m, r)
        /\ \A x \in LiveIn(m) : Alike(m.chunks[x], r.chunks[x])
    BY <1>1, <1>2, <1>3, BinSetSame
  <1> QED
    BY <1>4 DEF r

\* SplitChunk keeps the memory in order.
LEMMA SplitOK ==
  ASSUME NEW m, NEW X, MemInv(m, X), NEW h \in X, NEW n \in Nat \ {0}, n < m.chunks[h].size,
         m.chunks[h].next # kInvalidChunkHandle => in_use(m.chunks[m.chunks[h].next])
  PROVE  /\ MemInv(SplitChunk(m, h, n), X) /\ UsedSame(m, SplitChunk(m, h, n))
         /\ SplitInto(m, SplitChunk(m, h, n), h, ChunkHandle(m), n)
         /\ Regions(m, SplitChunk(m, h, n)) /\ Counters(m, SplitChunk(m, h, n))
  <1> DEFINE A == AllocateChunk(m)
             k == ChunkHandle(m)
             s == SplitOff(A, h, k, n)
             r == InsertFreeChunkIntoBin(s, k)
  <1>1. Fresh(m, A, k)
    BY FreshOK
  <1> HIDE DEF A, k
  <1>2. r = SplitChunk(m, h, n)
    BY DEF SplitChunk, Split, SplitOff, A, k
  <1>3. /\ MemInv(s, X \cup {k}) /\ UsedSame(m, s) /\ SplitInto(m, s, h, k, n)
        /\ Regions(m, s) /\ Counters(m, s) /\ s.chunks[k].prev = h /\ s.chunks[k].next = m.chunks[h].next
    <2>1. SplitDone(m, s, X, h, k, n)
      BY <1>1, SplitOffOK
    <2> HIDE DEF s
    <2> QED
      BY <2>1 DEF SplitDone
  <1> HIDE DEF s
  <1>4. k \notin LiveIn(m) /\ h \in LiveIn(m) /\ X \subseteq LiveIn(m) /\ ListInv(m.chunks, LiveIn(m))
    BY <1>3 DEF SplitInto, MemInv, ChunkInv, BinInv
  <1>5. s.chunks[k].next # kInvalidChunkHandle =>
           in_use(s.chunks[s.chunks[k].next]) \/ s.chunks[k].next \in (X \cup {k}) \ {k}
    <2> SUFFICES ASSUME s.chunks[k].next # kInvalidChunkHandle PROVE in_use(s.chunks[s.chunks[k].next])
      OBVIOUS
    <2> DEFINE z == m.chunks[h].next
    <2>1. z \in LiveIn(m) /\ in_use(m.chunks[z]) /\ s.chunks[k].next = z
      BY <1>3, <1>4 DEF ListInv
    <2>2. z \in UsedIn(m)
      BY <2>1 DEF UsedIn
    <2>3. z \in UsedIn(s)
      BY <1>3, <2>2 DEF UsedSame
    <2> QED
      BY <2>1, <2>3 DEF UsedIn
  <1>6. s.chunks[k].prev # kInvalidChunkHandle =>
           in_use(s.chunks[s.chunks[k].prev]) \/ s.chunks[k].prev \in (X \cup {k}) \ {k}
    BY <1>3, <1>4
  <1>7. MemInv(r, (X \cup {k}) \ {k}) /\ UsedSame(s, r)
    BY <1>3, <1>5, <1>6, InsertOK
  <1>8. (X \cup {k}) \ {k} = X
    BY <1>4
  <1>9. Shape(s) /\ k \in DOMAIN s.chunks /\ LiveIn(s) = LiveIn(m) \cup {k}
    BY <1>3 DEF MemInv, SplitInto, LiveIn
  <1>10. /\ LiveIn(r) = LiveIn(s) /\ Regions(s, r) /\ Counters(s, r)
         /\ \A x \in LiveIn(s) : Alike(s.chunks[x], r.chunks[x])
    BY <1>9, InsertSame
  <1> HIDE DEF r
  <1>11. Regions(m, r) /\ Counters(m, r)
    BY <1>3, <1>10 DEF Regions, Counters
  <1>12. UsedSame(m, r)
    BY <1>3, <1>7 DEF UsedSame
  <1>13. SplitInto(m, r, h, k, n)
    BY <1>3, <1>4, <1>9, <1>10 DEF SplitInto, Alike
  <1> QED
    BY <1>2, <1>7, <1>8, <1>11, <1>12, <1>13 DEF k

(***************************************************************************)
(* FindChunkPtr.                                                           *)
(***************************************************************************)

\* Addresses are not null.
LEMMA Positive ==
  ASSUME NEW m, NEW X, MemInv(m, X), NEW h \in LiveIn(m)
  PROVE  m.chunks[h].ptr \in Nat /\ m.chunks[h].ptr > 0 /\ m.chunks[h].size \in Nat \ {0}
  <1>1. Shape(m) /\ SpaceInv(m) /\ RegionInv(m.chunks, LiveIn(m), m.regions) /\ ListInv(m.chunks, LiveIn(m))
    BY DEF MemInv, ChunkInv
  <1>2. m.chunks[h] \in Chunk
    BY <1>1 DEF Shape, LiveIn
  <1>3. m.chunks[h].ptr \in Int /\ m.chunks[h].size \in Nat /\ m.chunks[h].size > 0
    BY <1>1, <1>2 DEF Chunk, ListInv
  <1>4. PICK r \in m.regions : r.ptr <= m.chunks[h].ptr
    BY <1>1 DEF RegionInv, RegionOf, Inside
  <1>5. /\ r.ptr \in Int /\ Base - m.total_region_allocated_bytes <= r.ptr
        /\ m.total_region_allocated_bytes \in Nat /\ m.total_region_allocated_bytes <= memory_limit
    BY <1>1 DEF SpaceInv
  <1>6. Base \in Int /\ Base > memory_limit /\ memory_limit \in Nat
    BY AllocatorAssumption, RoundedFacts DEF Base, kMinAllocationSize
  <1> QED
    BY <1>3, <1>4, <1>5, <1>6

\* The search finds a chunk if and only if some free chunk would do.
LEMMA FoundFacts ==
  ASSUME NEW m, MemInv(m, {}), NEW n \in Nat
  PROVE  /\ Found(m, n) <=> \E h \in FreeIn(m) : m.chunks[h].size >= n
         /\ \A b \in Bin : Fitting(m, b, n) \subseteq FreeIn(m)
  <1> DEFINE C == m.chunks
             L == LiveIn(m)
  <1>1. BinInv(C, L, m.bins, {}) /\ Shape(m)
    BY DEF MemInv, ChunkInv
  <1>2. C \in [DOMAIN C -> Chunk] /\ L \subseteq DOMAIN C /\ m.bins \in [Bin -> SUBSET DOMAIN C]
    BY <1>1 DEF Shape, LiveIn
  <1>3. \A h \in DOMAIN C : \A b \in Bin : h \in m.bins[b] <=> h \in FreeIn(m) /\ b = BinNumForSize(C[h].size)
    BY <1>1 DEF BinInv, Binned, FreeIn
  <1>4. \A b \in Bin : Fitting(m, b, n) \subseteq FreeIn(m)
    BY <1>2, <1>3 DEF Fitting
  <1>5. BinNumForSize(n) \in Bin /\ \A b \in BinNumForSize(n)..kNumBins - 1 : b \in Bin
    BY BinFacts DEF Bin, kNumBins
  <1>6. ASSUME NEW h \in FreeIn(m), C[h].size >= n PROVE Found(m, n)
    <2>1. h \in DOMAIN C /\ C[h].size \in Nat
      BY <1>2 DEF FreeIn, Chunk
    <2> DEFINE b == BinNumForSize(C[h].size)
    <2>2. b \in Bin /\ BinNumForSize(n) <= b
      BY <1>6, <2>1, BinFacts DEF Bin
    <2>3. h \in Fitting(m, b, n)
      BY <1>3, <1>6, <2>1, <2>2 DEF Fitting
    <2>4. b \in BinNumForSize(n)..kNumBins - 1
      BY <1>5, <2>2 DEF Bin, kNumBins
    <2> QED
      BY <2>3, <2>4 DEF Found
  <1>7. ASSUME Found(m, n) PROVE \E h \in FreeIn(m) : C[h].size >= n
    <2>1. PICK b \in BinNumForSize(n)..kNumBins - 1 : Fitting(m, b, n) # {}
      BY <1>7 DEF Found
    <2>2. PICK h \in Fitting(m, b, n) : TRUE
      BY <2>1
    <2>3. h \in FreeIn(m) /\ C[h].size >= n
      BY <1>4, <1>5, <2>2 DEF Fitting
    <2> QED
      BY <2>3
  <1> QED
    BY <1>4, <1>6, <1>7

\* The order in a bin has a first element.
LEMMA SmallestExists ==
  ASSUME NEW m, NEW X, MemInv(m, X), NEW S \in SUBSET LiveIn(m), S # {}
  PROVE  Smallest(m, S) \in S
  <1> DEFINE C == m.chunks
             Z == {C[h].size : h \in S}
  <1>1. \A h \in S : C[h].size \in Nat /\ C[h].ptr \in Nat
    BY Positive
  <1>2. Z \in SUBSET Nat /\ Z # {}
    BY <1>1
  <1>3. PICK v \in Z : \A w \in Z : v <= w
    BY <1>2, Least
  <1> DEFINE T == {h \in S : C[h].size = v}
             P == {C[h].ptr : h \in T}
  <1>4. P \in SUBSET Nat /\ P # {}
    BY <1>1, <1>3
  <1>5. PICK q \in P : \A w \in P : q <= w
    BY <1>4, Least
  <1>6. PICK h \in T : C[h].ptr = q
    BY <1>5
  <1>7. \A x \in S : C[x].ptr = q => x = h
    <2>1. \A x \in S : m.handles[C[x].ptr] = x
      BY DEF LiveIn
    <2> QED
      BY <2>1, <1>6
  <1>8. ASSUME NEW x \in S \ {h} PROVE Before(C[h], C[x])
    <2>1. C[h].size = v /\ C[h].ptr = q /\ h \in S
      BY <1>6
    <2>2. C[x].size \in Z /\ v <= C[x].size
      BY <1>3
    <2>3. CASE C[x].size = v
      <3>1. C[x].ptr \in P /\ q <= C[x].ptr /\ q # C[x].ptr
        BY <1>5, <1>7, <2>3
      <3> QED
        BY <1>1, <2>1, <2>3, <3>1 DEF Before
    <2>4. CASE C[x].size # v
      BY <1>1, <2>1, <2>2, <2>4 DEF Before
    <2> QED
      BY <2>3, <2>4
  <1>9. h \in S /\ \A k \in S \ {h} : Before(C[h], C[k])
    BY <1>6, <1>8
  <1>10. \E x \in S : \A k \in S \ {x} : Before(m.chunks[x], m.chunks[k])
    BY <1>9
  <1> QED
    BY <1>10 DEF Smallest

\* The chunk that is found is free and would do.
LEMMA FirstFitOK ==
  ASSUME NEW m, MemInv(m, {}), NEW n \in Nat, Found(m, n)
  PROVE  FirstFit(m, n) \in FreeIn(m) /\ m.chunks[FirstFit(m, n)].size >= n
  <1> DEFINE T == {b \in BinNumForSize(n)..kNumBins - 1 : Fitting(m, b, n) # {}}
             b == Min(T)
             S == Fitting(m, b, n)
  <1>1. T # {} /\ T \in SUBSET Nat
    BY BinFacts DEF Found, kNumBins
  <1>2. PICK x \in T : \A y \in T : x <= y
    BY <1>1, Least
  <1>3. b \in T
    BY <1>2 DEF Min
  <1>4. b \in Bin /\ S # {}
    BY <1>3, BinFacts DEF Bin, kNumBins
  <1>5. S \subseteq FreeIn(m)
    BY <1>4, FoundFacts
  <1>6. S \in SUBSET LiveIn(m)
    BY <1>5 DEF FreeIn
  <1>7. Smallest(m, S) \in S
    BY <1>4, <1>6, SmallestExists
  <1>8. FirstFit(m, n) = Smallest(m, S)
    BY DEF FirstFit
  <1> QED
    BY <1>5, <1>7, <1>8 DEF Fitting

\* No free chunk of r is larger than all those of m.
NotGrown(m, r) == \A x \in FreeIn(r) : \E y \in FreeIn(m) : r.chunks[x].size <= m.chunks[y].size

\* Taking the chunk that was found: it is cut if it is much too large.
LEMMA TakeOK ==
  ASSUME NEW m, MemInv(m, {}), NEW h \in FreeIn(m), NEW requested \in Nat \ {0},
         m.chunks[h].size >= RoundedBytes(requested)
  PROVE  /\ MemInv(TakeChunk(m, h, requested), {}) /\ Taken(m, TakeChunk(m, h, requested), h, requested)
         /\ Regions(m, TakeChunk(m, h, requested)) /\ NotGrown(m, TakeChunk(m, h, requested))
  <1> DEFINE n == RoundedBytes(requested)
             a == RemoveFreeChunkFromBin(m, h)
             b == Cut(a, h, n)
             r == Use(b, h, requested)
             C == m.chunks
             L == LiveIn(m)
             k == ChunkHandle(a)
  <1>0. r = TakeChunk(m, h, requested)
    BY DEF TakeChunk
  <1>1. n \in Nat \ {0} /\ requested <= n
    BY RoundedFacts
  <1>2. /\ MemInv(a, {} \cup {h}) /\ UsedSame(m, a) /\ LiveIn(a) = L /\ Regions(m, a) /\ Counters(m, a)
        /\ \A x \in L : Alike(C[x], a.chunks[x])
    <2>0. h \in FreeIn(m) \ {}
      OBVIOUS
    <2>1. MemInv(a, {} \cup {h}) /\ UsedSame(m, a)
      BY <2>0, RemoveOK
    <2>2. LiveIn(a) = LiveIn(m) /\ Regions(m, a) /\ Counters(m, a) /\ \A x \in LiveIn(m) : Alike(m.chunks[x], a.chunks[x])
      BY <2>0, RemoveSame
    <2> QED
      BY <2>1, <2>2
  <1>3. h \in L /\ ~in_use(C[h]) /\ ListInv(C, L) /\ JoinInv(C, L, {}) /\ \A x \in L : C[x].size \in Nat \ {0}
    BY Positive DEF FreeIn, MemInv, ChunkInv
  <1> HIDE DEF a, n
  <1>4. MemInv(a, {h})
    BY <1>2
  <1>5. a.chunks[h].size = C[h].size /\ a.chunks[h].next = C[h].next /\ \A x \in L : a.chunks[x].size = C[x].size
    BY <1>2, <1>3 DEF Alike
  <1>6. a.chunks[h].next # kInvalidChunkHandle => in_use(a.chunks[a.chunks[h].next])
    <2> SUFFICES ASSUME C[h].next # kInvalidChunkHandle PROVE in_use(a.chunks[C[h].next])
      BY <1>5
    <2>1. C[h].next \in L /\ in_use(C[C[h].next])
      BY <1>3 DEF ListInv, JoinInv
    <2>2. Alike(C[C[h].next], a.chunks[C[h].next])
      BY <1>2, <2>1
    <2> QED
      BY <2>1, <2>2 DEF Alike, in_use
  <1>7. /\ MemInv(b, {h}) /\ UsedSame(m, b) /\ Regions(m, b) /\ Counters(m, b)
        /\ requested <= b.chunks[h].size /\ b.chunks[h].size < 2 * n
        /\ \A x \in LiveIn(b) : (x \in L /\ b.chunks[x].size <= C[x].size) \/ b.chunks[x].size <= C[h].size
    <2>1. CASE a.chunks[h].size >= 2 * n
      <3>1. b = SplitChunk(a, h, n)
        BY <2>1 DEF Cut
      <3>2. n < a.chunks[h].size /\ h \in {h}
        BY <1>1, <1>3, <1>5, <2>1
      <3>3. /\ MemInv(b, {h}) /\ UsedSame(a, b) /\ SplitInto(a, b, h, k, n) /\ Regions(a, b) /\ Counters(a, b)
        BY <1>1, <1>4, <1>6, <3>1, <3>2, SplitOK
      <3> HIDE DEF b, k
      <3>4. UsedSame(m, b)
        BY <1>2, <3>3 DEF UsedSame
      <3>5. Regions(m, b) /\ Counters(m, b)
        BY <1>2, <3>3 DEF Regions, Counters
      <3>6. b.chunks[h].size = n
        BY <3>3 DEF SplitInto
      <3>7. ASSUME NEW x \in LiveIn(b)
            PROVE (x \in L /\ b.chunks[x].size <= C[x].size) \/ b.chunks[x].size <= C[h].size
        <4>1. CASE x = k
          BY <1>1, <1>3, <1>5, <3>3, <4>1 DEF SplitInto
        <4>2. CASE x = h
          BY <1>1, <1>3, <1>5, <3>2, <3>6, <4>2
        <4>3. CASE x # k /\ x # h
          <5>1. x \in L /\ b.chunks[x].size = a.chunks[x].size
            BY <1>2, <3>3, <4>3 DEF SplitInto
          <5> QED
            BY <1>3, <1>5, <5>1
        <4> QED
          BY <4>1, <4>2, <4>3
      <3> QED
        BY <1>1, <3>3, <3>4, <3>5, <3>6, <3>7
    <2>2. CASE ~(a.chunks[h].size >= 2 * n)
      <3>1. b = a
        BY <2>2 DEF Cut
      <3>2. requested <= a.chunks[h].size /\ a.chunks[h].size < 2 * n
        BY <1>1, <1>3, <1>5, <2>2 DEF n
      <3>3. \A x \in LiveIn(a) : x \in L /\ a.chunks[x].size <= C[x].size
        BY <1>2, <1>3, <1>5
      <3> QED
        BY <1>2, <1>4, <3>1, <3>2, <3>3
    <2> QED
      BY <2>1, <2>2
  <1> HIDE DEF b, k
  <1>8. /\ MemInv(r, {h} \ {h}) /\ Taken(b, r, h, requested)
        /\ Marked(b, r, h, requested, b.next_allocation_id, b.next_allocation_id + 1)
        /\ LiveIn(r) = LiveIn(b) /\ \A x \in LiveIn(b) : r.chunks[x].size = b.chunks[x].size
    BY <1>7, UseOK DEF n
  <1>9. MemInv(r, {})
    BY <1>8
  <1> HIDE DEF r
  <1>10. h \notin UsedIn(m) /\ b.next_allocation_id = m.next_allocation_id
    BY <1>3, <1>7 DEF UsedIn, Counters
  <1>11. Taken(m, r, h, requested)
    BY <1>7, <1>8, <1>10 DEF Taken, UsedSame
  <1>12. Regions(m, r)
    BY <1>7, <1>8 DEF Marked, Regions
  <1>13. NotGrown(m, r)
    <2> SUFFICES ASSUME NEW x \in FreeIn(r) PROVE \E y \in FreeIn(m) : r.chunks[x].size <= m.chunks[y].size
      BY DEF NotGrown
    <2>6. x \in LiveIn(b) /\ r.chunks[x].size = b.chunks[x].size /\ ~in_use(r.chunks[x])
      BY <1>8 DEF FreeIn
    <2>7. h \in FreeIn(m)
      OBVIOUS
    <2>8. CASE b.chunks[x].size <= C[h].size
      BY <2>6, <2>7, <2>8
    <2>9. CASE x \in L /\ b.chunks[x].size <= C[x].size
      <3>1. CASE x \in FreeIn(m)
        BY <2>6, <2>9, <3>1
      <3>2. CASE x \notin FreeIn(m)
        <4>1. x \in UsedIn(m)
          BY <2>9, <3>2 DEF FreeIn, UsedIn
        <4>2. x \in UsedIn(r)
          BY <1>11, <4>1 DEF Taken
        <4> QED
          BY <2>6, <4>2 DEF UsedIn
      <3> QED
        BY <3>1, <3>2
    <2> QED
      BY <1>7, <2>6, <2>8, <2>9
  <1> QED
    BY <1>0, <1>9, <1>11, <1>12, <1>13

\* FindChunkPtr takes a chunk, or there is none that would do.
LEMMA FindOK ==
  ASSUME NEW m, MemInv(m, {}), NEW requested \in Nat \ {0}
  PROVE  /\ MemInv(FindChunkPtr(m, requested), {}) /\ Regions(m, FindChunkPtr(m, requested))
         /\ NotGrown(m, FindChunkPtr(m, requested))
         /\ IF Found(m, RoundedBytes(requested))
              THEN \E h \in LiveIn(FindChunkPtr(m, requested)) : Taken(m, FindChunkPtr(m, requested), h, requested)
              ELSE FindChunkPtr(m, requested) = m
  <1> DEFINE r == FindChunkPtr(m, requested)
             n == RoundedBytes(requested)
  <1>1. n \in Nat
    BY RoundedFacts
  <1>2. CASE Found(m, n)
    <2> DEFINE h == FirstFit(m, n)
    <2>1. h \in FreeIn(m) /\ m.chunks[h].size >= n
      BY <1>1, <1>2, FirstFitOK
    <2>2. r = TakeChunk(m, h, requested)
      BY <1>2 DEF FindChunkPtr
    <2> HIDE DEF h
    <2>3. MemInv(r, {}) /\ Taken(m, r, h, requested) /\ Regions(m, r) /\ NotGrown(m, r)
      BY <2>1, <2>2, TakeOK
    <2>4. h \in LiveIn(r)
      BY <2>3 DEF Taken, UsedIn
    <2> QED
      BY <1>2, <2>3, <2>4
  <1>3. CASE ~Found(m, n)
    <2>1. r = m
      BY <1>3 DEF FindChunkPtr
    <2>2. Regions(m, m)
      BY DEF Regions
    <2>3. NotGrown(m, m)
      <3>1. \A x \in FreeIn(m) : m.chunks[x].size \in Nat
        BY Positive DEF FreeIn
      <3> QED
        BY <3>1 DEF NotGrown
    <2> QED
      BY <1>3, <2>1, <2>2, <2>3
  <1> QED
    BY <1>2, <1>3

(***************************************************************************)
(* Extend.                                                                 *)
(***************************************************************************)

\* A set of integers with a bound has a least, or a greatest, element.
LEMMA LeastInt ==
  ASSUME NEW S \in SUBSET Int, S # {}, NEW u \in Int, \A x \in S : u <= x
  PROVE  Min(S) \in S /\ \A x \in S : Min(S) <= x
  <1> DEFINE T == {x - u : x \in S}
  <1>0. \A x \in S : x - u \in Nat
    OBVIOUS
  <1>1. T \in SUBSET Nat /\ T # {}
    BY <1>0
  <1>2. PICK y \in T : \A z \in T : y <= z
    BY <1>1, Least
  <1>3. PICK x \in S : y = x - u
    BY <1>2
  <1>4. \A z \in S : x <= z
    <2> SUFFICES ASSUME NEW z \in S PROVE x <= z
      OBVIOUS
    <2>1. z - u \in T
      OBVIOUS
    <2>2. y <= z - u
      BY <1>2, <2>1
    <2> QED
      BY <1>3, <2>2
  <1>5. \E a \in S : \A z \in S : a =< z
    BY <1>4
  <1> QED
    BY <1>5 DEF Min

\* A set of integers that is bounded above has a greatest member.
LEMMA GreatestInt ==
  ASSUME NEW S \in SUBSET Int, S # {}, NEW u \in Int, \A x \in S : x <= u
  PROVE  Max(S) \in S /\ \A x \in S : x <= Max(S)
  <1> DEFINE T == {u - x : x \in S}
  <1>1. T \in SUBSET Nat /\ T # {}
    OBVIOUS
  <1>2. PICK y \in T : \A z \in T : y <= z
    BY <1>1, Least
  <1>3. PICK x \in S : y = u - x
    BY <1>2
  <1>4. \A z \in S : z <= x
    <2> SUFFICES ASSUME NEW z \in S PROVE z <= x
      OBVIOUS
    <2>1. u - z \in T
      OBVIOUS
    <2>2. y <= u - z
      BY <1>2, <2>1
    <2> QED
      BY <1>3, <2>2
  <1>5. \E a \in S : \A z \in S : a >= z
    BY <1>4
  <1>6. Max(S) \in S /\ \A z \in S : Max(S) >= z
    BY <1>5 DEF Max
  <1> QED
    BY <1>6

\* Where the SubAllocator puts a region there is no other.
LEMMA AddressFacts ==
  ASSUME NEW m, SpaceInv(m), NEW b \in Nat \ {0}, NEW above \in BOOLEAN
  PROVE  /\ NewAddress(m, b, above) \in Int
         /\ Base - (m.total_region_allocated_bytes + b) <= NewAddress(m, b, above)
         /\ NewAddress(m, b, above) + b <= Base + (m.total_region_allocated_bytes + b)
         /\ \A r \in m.regions : End(r) <= NewAddress(m, b, above) \/ NewAddress(m, b, above) + b <= r.ptr
  <1> DEFINE t == m.total_region_allocated_bytes
             p == NewAddress(m, b, above)
  <1>1. Base \in Int /\ t \in Nat
    BY AllocatorAssumption, RoundedFacts DEF Base, kMinAllocationSize, SpaceInv
  <1>2. \A r \in m.regions : /\ r.ptr \in Int /\ r.size \in Nat /\ Base - t <= r.ptr /\ r.ptr + r.size <= Base + t
    BY DEF SpaceInv, End
  <1>3. CASE above = TRUE
    <2> DEFINE S == Ends(m)
    <2>1. Base \in S /\ \A r \in m.regions : r.ptr + r.size \in S
      BY DEF Ends
    <2>2. \A x \in S : x = Base \/ \E r \in m.regions : x = r.ptr + r.size
      BY DEF Ends
    <2>3. \A x \in S : x \in Int /\ x <= Base + t
      BY <1>1, <1>2, <2>2
    <2>4. S \in SUBSET Int /\ S # {} /\ Base + t \in Int
      BY <1>1, <2>1, <2>3
    <2> HIDE DEF S
    <2>5. Max(S) \in S /\ \A x \in S : x <= Max(S)
      BY <2>3, <2>4, GreatestInt
    <2>6. p = Max(S)
      BY <1>3 DEF NewAddress, S
    <2> HIDE DEF p
    <2>7. p \in Int /\ Base <= p /\ p <= Base + t
      BY <2>1, <2>3, <2>5, <2>6
    <2>8. \A r \in m.regions : r.ptr + r.size <= p
      BY <2>1, <2>5, <2>6
    <2>9. p \in Int /\ Base - (t + b) <= p /\ p + b <= Base + (t + b)
      BY <1>1, <2>7
    <2>10. \A r \in m.regions : End(r) <= p
      BY <2>8 DEF End
    <2> QED
      BY <2>9, <2>10 DEF p
  <1>4. CASE above = FALSE
    <2> DEFINE S == Starts(m)
    <2>1. Base \in S /\ \A r \in m.regions : r.ptr \in S
      BY DEF Starts
    <2>2. \A x \in S : x = Base \/ \E r \in m.regions : x = r.ptr
      BY DEF Starts
    <2>3. \A x \in S : x \in Int /\ Base - t <= x
      BY <1>1, <1>2, <2>2
    <2>4. S \in SUBSET Int /\ S # {} /\ Base - t \in Int
      BY <1>1, <2>1, <2>3
    <2> HIDE DEF S
    <2>5. Min(S) \in S /\ \A x \in S : Min(S) <= x
      BY <2>3, <2>4, LeastInt
    <2>6. p = Min(S) - b
      BY <1>4 DEF NewAddress, S
    <2> HIDE DEF p
    <2>7. p \in Int /\ p + b <= Base /\ Base - t <= p + b
      <3>1. Min(S) \in Int /\ Min(S) <= Base /\ Base - t <= Min(S)
        BY <2>1, <2>3, <2>5
      <3> HIDE DEF t
      <3> QED
        BY <1>1, <2>6, <3>1
    <2>8. \A r \in m.regions : p + b <= r.ptr
      <3>1. Min(S) \in Int
        BY <2>3, <2>5
      <3> QED
        BY <1>2, <2>1, <2>5, <2>6, <3>1
    <2>9. p \in Int /\ Base - (t + b) <= p /\ p + b <= Base + (t + b)
      BY <1>1, <2>7
    <2> QED
      BY <2>8, <2>9 DEF p
  <1> QED
    BY <1>3, <1>4

\* AddRegion, but for the bin of the new chunk.
RegionOnly(m, p, b, h) ==
    SetHandle([m EXCEPT !.regions = @ \cup {[ptr |-> p, size |-> b]},
                        !.total_region_allocated_bytes = @ + b,
                        !.chunks[h] = [@ EXCEPT !.ptr = p, !.size = b, !.allocation_id = -1,
                                         !.prev = kInvalidChunkHandle, !.next = kInvalidChunkHandle]],
              p, h)

\* What a new region of b bytes at p changes; v is the new curr_region_allocation_bytes_.
NewRegion(m, r, k, p, b, v) ==
    /\ r.regions = m.regions \cup {[ptr |-> p, size |-> b]}
    /\ r.total_region_allocated_bytes = m.total_region_allocated_bytes + b
    /\ r.curr_region_allocation_bytes = v /\ r.started_backpedal = m.started_backpedal
    /\ Counters(m, r)
    /\ r.chunks[k].size = b /\ r.chunks[k].prev = kInvalidChunkHandle /\ r.chunks[k].next = kInvalidChunkHandle
    /\ \A x \in DOMAIN m.chunks \ {k} : r.chunks[x] = m.chunks[x]

\* What RegionOnly changes.
LEMMA RegionFields ==
  ASSUME NEW m, m.ok = TRUE, NEW A, NEW k, Fresh(m, A, k), NEW p \in Int, p \notin DOMAIN m.handles,
         NEW b \in Nat, NEW v
  PROVE  /\ Added(m, A, RegionOnly([A EXCEPT !.curr_region_allocation_bytes = v], p, b, k), k, p)
         /\ NewRegion(m, RegionOnly([A EXCEPT !.curr_region_allocation_bytes = v], p, b, k), k, p, b, v)
  <1> DEFINE C == m.chunks
             D == DOMAIN m.chunks
             G == D \cup {k}
             a == [A EXCEPT !.curr_region_allocation_bytes = v]
             d == [A.chunks[k] EXCEPT !.ptr = p, !.size = b, !.allocation_id = -1,
                     !.prev = kInvalidChunkHandle, !.next = kInvalidChunkHandle]
             s == [a EXCEPT !.regions = @ \cup {[ptr |-> p, size |-> b]},
                            !.total_region_allocated_bytes = @ + b,
                            !.chunks[k] = [@ EXCEPT !.ptr = p, !.size = b, !.allocation_id = -1,
                                             !.prev = kInvalidChunkHandle, !.next = kInvalidChunkHandle]]
             r == SetHandle(s, p, k)
  <1>1. /\ IsMem(A) /\ (\A f \in Field \ {"chunks", "free_chunks_list"} : A[f] = m[f])
        /\ A.chunks \in [G -> Chunk] /\ (\A x \in D : A.chunks[x] = C[x]) /\ A.chunks[k].bin_num = kInvalidBinNum
    BY DEF Fresh
  <1>2. r = RegionOnly(a, p, b, k)
    BY DEF RegionOnly
  <1>3. IsMem(a)
    BY <1>1 DEF IsMem, Field
  <1>4. a.curr_region_allocation_bytes = v
    BY <1>1 DEF IsMem, Field
  <1>5. \A f \in Field \ {"curr_region_allocation_bytes"} : a[f] = A[f]
    BY <1>1 DEF IsMem, Field
  <1> HIDE DEF a
  <1>6. a.chunks = A.chunks
    BY <1>5 DEF Field
  <1>7. IsMem(s)
    BY <1>3 DEF IsMem, Field
  <1>8. s.chunks = [a.chunks EXCEPT ![k] = [a.chunks[k] EXCEPT !.ptr = p, !.size = b, !.allocation_id = -1,
                     !.prev = kInvalidChunkHandle, !.next = kInvalidChunkHandle]]
    BY <1>3 DEF IsMem, Field
  <1>9. s.regions = a.regions \cup {[ptr |-> p, size |-> b]}
    BY <1>3 DEF IsMem, Field
  <1>10. s.total_region_allocated_bytes = a.total_region_allocated_bytes + b
    BY <1>3 DEF IsMem, Field
  <1>11. \A f \in Field \ {"chunks", "regions", "total_region_allocated_bytes"} : s[f] = a[f]
    BY <1>3 DEF IsMem, Field
  <1>12. s.chunks = [A.chunks EXCEPT ![k] = d]
    BY <1>6, <1>8
  <1>13. /\ d \in Chunk /\ d.ptr = p /\ d.size = b /\ d.allocation_id = -1 /\ d.prev = kInvalidChunkHandle
         /\ d.next = kInvalidChunkHandle /\ d.bin_num = kInvalidBinNum
    <2> DEFINE c == A.chunks[k]
               i == kInvalidChunkHandle
    <2>1. c \in Chunk /\ c.bin_num = kInvalidBinNum /\ i \in Int
      BY <1>1 DEF kInvalidChunkHandle
    <2>2. d = MovedTo(c, p, b, i, i)
      BY DEF MovedTo
    <2> HIDE DEF d, c, i
    <2>3. /\ d \in Chunk /\ d.ptr = p /\ d.size = b /\ d.allocation_id = -1 /\ d.prev = i /\ d.next = i
          /\ d.bin_num = c.bin_num
      BY <2>1, <2>2, MovedFields
    <2> QED
      BY <2>1, <2>3 DEF i
  <1> HIDE DEF s, d
  <1>14. s.chunks \in [G -> Chunk] /\ s.chunks[k] = d /\ \A x \in D \ {k} : s.chunks[x] = C[x]
    BY <1>1, <1>12, <1>13
  <1>15. HandleSet(s, r, p, k)
    BY <1>7, SetHandleFields
  <1> HIDE DEF r
  <1>16. IsMem(r) /\ \A f \in Field \ {"handles"} : r[f] = s[f]
    BY <1>15 DEF HandleSet
  <1>17. r.chunks = s.chunks /\ r.regions = s.regions /\ r.total_region_allocated_bytes = s.total_region_allocated_bytes
    BY <1>16 DEF Field
  <1>18. /\ r.bins = m.bins /\ r.ok = m.ok /\ r.started_backpedal = m.started_backpedal /\ Counters(m, r)
         /\ r.next_allocation_id = m.next_allocation_id
    BY <1>1, <1>5, <1>11, <1>16 DEF Field, Counters
  <1>19. r.free_chunks_list = A.free_chunks_list /\ r.curr_region_allocation_bytes = v
    BY <1>4, <1>5, <1>11, <1>16 DEF Field
  <1>20. r.regions = m.regions \cup {[ptr |-> p, size |-> b]}
         /\ r.total_region_allocated_bytes = m.total_region_allocated_bytes + b
    <2>1. a.regions = m.regions /\ a.total_region_allocated_bytes = m.total_region_allocated_bytes
      BY <1>1, <1>5 DEF Field
    <2> QED
      BY <1>9, <1>10, <1>17, <2>1
  <1>21. r.handles = [q \in DOMAIN m.handles \cup {p} |-> IF q = p THEN k ELSE m.handles[q]]
    <2>1. s.handles = m.handles
      BY <1>1, <1>5, <1>11 DEF Field
    <2> QED
      BY <1>15, <2>1 DEF HandleSet
  <1>22. NewRegion(m, r, k, p, b, v)
    BY <1>13, <1>14, <1>17, <1>18, <1>19, <1>20 DEF NewRegion
  <1>23. Added(m, A, r, k, p)
    BY <1>13, <1>14, <1>16, <1>17, <1>18, <1>19, <1>21 DEF Added
  <1> QED
    BY <1>2, <1>22, <1>23 DEF a

\* The region is there, with one free chunk that is in no bin yet.
LEMMA RegionOnlyOK ==
  ASSUME NEW m, MemInv(m, {}), NEW A, NEW r, NEW k, NEW p \in Int, NEW b \in Nat \ {0}, NEW v \in Nat \ {0}, v % 256 = 0,
         Added(m, A, r, k, p), NewRegion(m, r, k, p, b, v), physical \in Nat,
         m.total_region_allocated_bytes + b <= memory_limit, m.total_region_allocated_bytes + b <= physical,
         Base - (m.total_region_allocated_bytes + b) <= p, p + b <= Base + (m.total_region_allocated_bytes + b),
         \A a \in m.regions : End(a) <= p \/ p + b <= a.ptr
  PROVE  MemInv(r, {k}) /\ UsedSame(m, r) /\ LiveIn(r) = LiveIn(m) \cup {k}
  <1> DEFINE C == m.chunks
             E == r.chunks
             D == DOMAIN m.chunks
             L == LiveIn(m)
             M == L \cup {k}
             t == m.total_region_allocated_bytes
             g == [ptr |-> p, size |-> b]
  <1>1. /\ Shape(m) /\ ApartInv(C, L) /\ JoinInv(C, L, {}) /\ m.ok = TRUE /\ ListInv(C, L)
        /\ RegionInv(C, L, m.regions) /\ SpaceInv(m)
    BY DEF MemInv, ChunkInv
  <1>2. L \subseteq D /\ (\A x \in D : C[x] \in Chunk) /\ k \notin L
    <2>1. L \subseteq D
      BY DEF LiveIn
    <2>2. \A x \in D : C[x] \in Chunk
      BY <1>1 DEF Shape
    <2>3. k \notin L
      BY DEF Added, Fresh
    <2> QED
      BY <2>1, <2>2, <2>3
  <1>3. \A x \in L : E[x] = C[x]
    BY <1>2 DEF NewRegion
  <1>4. /\ Shape(r) /\ LiveIn(r) = M
        /\ UnusedInv(E, DOMAIN E \ M, r.free_chunks_list)
        /\ BinInv(E, M, r.bins, {} \cup {k})
        /\ UseInv(E, M, r.next_allocation_id) /\ r.next_allocation_id \in Nat \ {0} /\ UsedSame(m, r)
    <2>1. \A x \in LiveIn(m) \ {} : r.chunks[x].size = m.chunks[x].size
      BY <1>3
    <2>2. /\ Shape(r) /\ LiveIn(r) = LiveIn(m) \cup {k}
          /\ UnusedInv(r.chunks, DOMAIN r.chunks \ LiveIn(r), r.free_chunks_list)
          /\ BinInv(r.chunks, LiveIn(r), r.bins, {} \cup {k})
          /\ UseInv(r.chunks, LiveIn(r), r.next_allocation_id) /\ r.next_allocation_id \in Nat \ {0}
          /\ UsedSame(m, r)
      BY <2>1, AddedFacts
    <2> QED
      BY <2>2
  <1>5. /\ E[k].size = b /\ E[k].prev = kInvalidChunkHandle /\ E[k].next = kInvalidChunkHandle /\ E[k].ptr = p
        /\ r.regions = m.regions \cup {g} /\ r.total_region_allocated_bytes = t + b
        /\ r.curr_region_allocation_bytes = v /\ r.started_backpedal = m.started_backpedal /\ r.ok = TRUE
    BY DEF NewRegion, Added
  <1>6. t \in Nat /\ m.started_backpedal \in BOOLEAN /\ Base \in Int
    BY <1>1, AllocatorAssumption, RoundedFacts DEF SpaceInv, Base, kMinAllocationSize
  <1>7. /\ \A a \in m.regions : /\ a.ptr \in Int /\ a.size \in Nat /\ Base - t <= a.ptr
                                /\ End(a) <= Base + t
        /\ \A a, c \in m.regions : a # c => End(a) <= c.ptr \/ End(c) <= a.ptr
    BY <1>1 DEF SpaceInv
  <1>8. g.ptr = p /\ g.size = b /\ End(g) = p + b
    BY DEF End
  <1> HIDE DEF g
  <1>9. SpaceInv(r)
    <2>1. ASSUME NEW a \in m.regions \cup {g}
          PROVE a.ptr \in Int /\ a.size \in Nat /\ Base - (t + b) <= a.ptr /\ End(a) <= Base + (t + b)
      <3>1. CASE a = g
        BY <1>8, <3>1
      <3>2. CASE a # g
        <4>1. a \in m.regions /\ End(a) = a.ptr + a.size
          BY <3>2 DEF End
        <4>2. a.ptr \in Int /\ a.size \in Nat /\ Base - t <= a.ptr /\ End(a) <= Base + t
          BY <1>7, <4>1
        <4> HIDE DEF t
        <4> QED
          BY <1>6, <4>1, <4>2
      <3> QED
        BY <3>1, <3>2
    <2>2. ASSUME NEW a \in m.regions \cup {g}, NEW c \in m.regions \cup {g}, a # c
          PROVE End(a) <= c.ptr \/ End(c) <= a.ptr
      <3>1. CASE a = g
        BY <1>8, <2>2, <3>1
      <3>2. CASE c = g
        BY <1>8, <2>2, <3>2
      <3>3. CASE a # g /\ c # g
        BY <1>7, <2>2, <3>3
      <3> QED
        BY <3>1, <3>2, <3>3
    <2>3. t + b \in Nat
      BY <1>6
    <2> QED
      BY <1>5, <1>6, <2>1, <2>2, <2>3 DEF SpaceInv
  <1>10. \A x \in L : /\ C[x].ptr \in Int /\ C[x].size \in Nat /\ C[x].size > 0
                      /\ C[x].next # kInvalidChunkHandle => C[x].next \in L
    BY <1>1, <1>2 DEF Chunk, ListInv
  <1>11. ASSUME NEW x \in L PROVE End(E[k]) <= C[x].ptr \/ End(C[x]) <= E[k].ptr
    <2>1. PICK a \in m.regions : a.ptr <= C[x].ptr /\ End(C[x]) <= End(a)
      BY <1>1 DEF RegionInv, RegionOf, Inside
    <2>2. a.ptr \in Int /\ End(a) \in Int /\ End(C[x]) \in Int
      BY <1>7, <1>10 DEF End
    <2>3. End(E[k]) = p + b /\ E[k].ptr = p
      BY <1>5 DEF End
    <2>4. End(a) <= p \/ p + b <= a.ptr
      OBVIOUS
    <2> QED
      BY <1>10, <2>1, <2>2, <2>3, <2>4
  <1> HIDE DEF C, E, L, M
  <1>m. M = L \cup {k}
    BY DEF M
  <1>12. ListInv(E, M)
    <2>1. ASSUME NEW x \in M
          PROVE  /\ E[x].size > 0
                 /\ E[x].next # kInvalidChunkHandle =>
                      E[x].next \in M /\ E[E[x].next].prev = x /\ E[E[x].next].ptr = End(E[x])
                 /\ E[x].prev # kInvalidChunkHandle => E[x].prev \in M /\ E[E[x].prev].next = x
      <3>1. CASE x = k
        BY <1>5, <3>1
      <3>2. CASE x \in L
        <4>1. /\ C[x].size > 0
              /\ C[x].next # kInvalidChunkHandle =>
                   C[x].next \in L /\ C[C[x].next].prev = x /\ C[C[x].next].ptr = End(C[x])
              /\ C[x].prev # kInvalidChunkHandle => C[x].prev \in L /\ C[C[x].prev].next = x
          BY <1>1, <3>2 DEF ListInv
        <4> QED
          BY <1>3, <1>m, <3>2, <4>1
      <3> QED
        BY <1>m, <3>1, <3>2
    <2> QED
      BY <2>1 DEF ListInv
  <1>13. ApartInv(E, M)
    <2>1. \A x, y \in L : x # y => End(C[x]) <= C[y].ptr \/ End(C[y]) <= C[x].ptr
      BY <1>1 DEF ApartInv
    <2> SUFFICES ASSUME NEW x \in M, NEW y \in M, x # y
                 PROVE  End(E[x]) <= E[y].ptr \/ End(E[y]) <= E[x].ptr
      BY DEF ApartInv
    <2>2. CASE x = k
      BY <1>3, <1>11, <1>m, <2>2
    <2>3. CASE y = k
      BY <1>3, <1>11, <1>m, <2>3
    <2>4. CASE x # k /\ y # k
      BY <1>3, <1>m, <2>1, <2>4
    <2> QED
      BY <2>2, <2>3, <2>4
  <1>14. RegionInv(E, M, r.regions)
    <2> SUFFICES ASSUME NEW x \in M PROVE \E a \in r.regions : RegionOf(E, x, a)
      BY DEF RegionInv
    <2>1. CASE x = k
      <3>1. g \in r.regions /\ Inside(E[k], g) /\ End(E[k]) = End(g)
        BY <1>5, <1>8 DEF Inside, End
      <3> QED
        BY <1>5, <1>8, <2>1, <3>1 DEF RegionOf
    <2>2. CASE x \in L
      <3>1. PICK a \in m.regions : RegionOf(C, x, a)
        BY <1>1, <2>2 DEF RegionInv
      <3>2. RegionOf(E, x, a)
        BY <1>3, <1>10, <2>2, <3>1 DEF RegionOf
      <3> QED
        BY <1>5, <3>2
    <2> QED
      BY <1>m, <2>1, <2>2
  <1>15. JoinInv(E, M, {k})
    BY <1>1, <1>3, <1>10, <1>m DEF JoinInv
  <1>16. MemInv(r, {k})
    <2>1. {} \cup {k} = {k}
      OBVIOUS
    <2>2. BinInv(E, M, r.bins, {k})
      BY <1>4, <2>1
    <2> QED
      BY <1>4, <1>5, <1>9, <1>12, <1>13, <1>14, <1>15, <2>2 DEF MemInv, ChunkInv, E
  <1> QED
    BY <1>4, <1>16 DEF M, L

\* The chunk k of r is new and free, with b bytes; the others are as in m.
Grown(m, r, k, b) ==
    /\ LiveIn(r) = LiveIn(m) \cup {k} /\ k \in FreeIn(r) /\ r.chunks[k].size = b
    /\ \A x \in LiveIn(m) : Alike(m.chunks[x], r.chunks[x])
    /\ r.total_region_allocated_bytes = m.total_region_allocated_bytes + b
    /\ UsedSame(m, r) /\ Counters(m, r)

\* A region is added.
LEMMA ExtendedOK ==
  ASSUME NEW m, MemInv(m, {}), NEW curr \in Nat \ {0}, curr % 256 = 0, NEW b \in Nat \ {0}, NEW above \in BOOLEAN,
         physical \in Nat, m.total_region_allocated_bytes + b <= memory_limit,
         m.total_region_allocated_bytes + b <= physical
  PROVE  MemInv(Extended(m, curr, b, above), {}) /\ \E k : Grown(m, Extended(m, curr, b, above), k, b)
  <1> DEFINE A == AllocateChunk(m)
             k == ChunkHandle(m)
             p == NewAddress(m, b, above)
             v == IF curr = m.curr_region_allocation_bytes THEN 2 * curr ELSE curr
             s == RegionOnly([A EXCEPT !.curr_region_allocation_bytes = v], p, b, k)
             r == InsertFreeChunkIntoBin(s, k)
             t == m.total_region_allocated_bytes
  <1>1. Fresh(m, A, k)
    BY FreshOK
  <1>2. r = Extended(m, curr, b, above)
    BY DEF Extended, AddRegion, RegionOnly
  <1>3. v \in Nat \ {0} /\ v % 256 = 0
    OBVIOUS
  <1>4. /\ SpaceInv(m) /\ m.ok = TRUE /\ Shape(m) /\ RegionInv(m.chunks, LiveIn(m), m.regions) /\ t \in Nat
        /\ ListInv(m.chunks, LiveIn(m))
    BY DEF MemInv, ChunkInv, SpaceInv
  <1>5. /\ p \in Int /\ Base - (t + b) <= p /\ p + b <= Base + (t + b)
        /\ \A a \in m.regions : End(a) <= p \/ p + b <= a.ptr
    BY <1>4, AddressFacts
  <1> HIDE DEF A, k, p, v
  <1>6. p \notin DOMAIN m.handles
    <2> SUFFICES ASSUME p \in DOMAIN m.handles PROVE FALSE
      OBVIOUS
    <2> DEFINE x == m.handles[p]
    <2>1. x \in LiveIn(m) /\ m.chunks[x].ptr = p
      BY <1>4 DEF Shape, LiveIn
    <2>2. PICK a \in m.regions : a.ptr <= m.chunks[x].ptr /\ m.chunks[x].ptr + m.chunks[x].size <= End(a)
      BY <1>4, <2>1 DEF RegionInv, RegionOf, Inside, End
    <2>3. m.chunks[x].size \in Nat \ {0}
      BY <2>1, Positive
    <2>4. a.ptr \in Int /\ End(a) \in Int
      BY <1>4 DEF SpaceInv, End
    <2>5. End(a) <= p \/ p + b <= a.ptr
      BY <1>5
    <2> HIDE DEF x
    <2> QED
      BY <1>5, <2>1, <2>2, <2>3, <2>4, <2>5
  <1>7. Added(m, A, s, k, p) /\ NewRegion(m, s, k, p, b, v)
    <2>1. b \in Nat
      OBVIOUS
    <2> QED
      BY <1>1, <1>4, <1>5, <1>6, <2>1, RegionFields
  <1> HIDE DEF s
  <1>8. MemInv(s, {k}) /\ UsedSame(m, s) /\ LiveIn(s) = LiveIn(m) \cup {k}
    <2>1. /\ m.total_region_allocated_bytes + b <= memory_limit /\ m.total_region_allocated_bytes + b <= physical
          /\ Base - (m.total_region_allocated_bytes + b) <= p /\ p + b <= Base + (m.total_region_allocated_bytes + b)
          /\ \A a \in m.regions : End(a) <= p \/ p + b <= a.ptr
      BY <1>5
    <2> QED
      BY <1>3, <1>5, <1>7, <2>1, RegionOnlyOK
  <1>9. /\ s.chunks[k].size = b /\ s.chunks[k].prev = kInvalidChunkHandle /\ s.chunks[k].next = kInvalidChunkHandle
        /\ s.chunks[k].allocation_id = -1 /\ s.total_region_allocated_bytes = t + b /\ Counters(m, s)
        /\ (\A x \in DOMAIN m.chunks \ {k} : s.chunks[x] = m.chunks[x]) /\ k \notin LiveIn(m)
    BY <1>7 DEF NewRegion, Added, Fresh
  <1>10. MemInv(r, {k} \ {k}) /\ UsedSame(s, r)
    <2>1. k \in {k}
      OBVIOUS
    <2>2. s.chunks[k].next # kInvalidChunkHandle =>
            in_use(s.chunks[s.chunks[k].next]) \/ s.chunks[k].next \in {k} \ {k}
      BY <1>9
    <2>3. s.chunks[k].prev # kInvalidChunkHandle =>
            in_use(s.chunks[s.chunks[k].prev]) \/ s.chunks[k].prev \in {k} \ {k}
      BY <1>9
    <2> QED
      BY <1>8, <2>1, <2>2, <2>3, InsertOK
  <1>11. MemInv(r, {})
    BY <1>10
  <1>12. Shape(s) /\ k \in DOMAIN s.chunks
    BY <1>8 DEF MemInv, LiveIn
  <1>13. /\ LiveIn(r) = LiveIn(s) /\ Regions(s, r) /\ Counters(s, r)
         /\ \A x \in LiveIn(s) : Alike(s.chunks[x], r.chunks[x])
    BY <1>12, InsertSame
  <1> HIDE DEF r
  <1>14. \A x \in LiveIn(m) : Alike(m.chunks[x], r.chunks[x])
    <2>1. \A x \in LiveIn(m) : s.chunks[x] = m.chunks[x]
      BY <1>9 DEF LiveIn
    <2> QED
      BY <1>8, <1>13, <2>1
  <1>15. Alike(s.chunks[k], r.chunks[k])
    BY <1>8, <1>13
  <1>16. k \in FreeIn(r) /\ r.chunks[k].size = b
    BY <1>8, <1>9, <1>13, <1>15 DEF Alike, FreeIn, in_use
  <1>17. UsedSame(m, r)
    BY <1>8, <1>10 DEF UsedSame
  <1>18. Counters(m, r) /\ r.total_region_allocated_bytes = t + b
    BY <1>9, <1>13 DEF Counters, Regions
  <1>19. Grown(m, r, k, b)
    BY <1>8, <1>13, <1>14, <1>16, <1>17, <1>18 DEF Grown
  <1> QED
    BY <1>2, <1>11, <1>19

\* Nothing but the counters changes.
SameMemory(m, r) ==
    /\ IsMem(r) /\ r.chunks = m.chunks /\ r.bins = m.bins /\ Lists(m, r) /\ r.ok = m.ok
    /\ r.regions = m.regions /\ r.total_region_allocated_bytes = m.total_region_allocated_bytes
    /\ r.next_allocation_id = m.next_allocation_id

\* The invariant does not depend on the answer that is carried, nor on the size
\* of the next region as long as it is a positive multiple of the unit.
LEMMA SameMemoryOK ==
  ASSUME NEW m, NEW X, MemInv(m, X), NEW r, SameMemory(m, r), r.curr_region_allocation_bytes \in Nat \ {0},
         r.curr_region_allocation_bytes % 256 = 0, r.started_backpedal \in BOOLEAN
  PROVE  MemInv(r, X) /\ UsedSame(m, r) /\ LiveIn(r) = LiveIn(m) /\ FreeIn(r) = FreeIn(m)
  <1>1. r.handles = m.handles /\ r.chunks = m.chunks /\ r.free_chunks_list = m.free_chunks_list
    BY DEF SameMemory, Lists
  <1>2. LiveIn(r) = LiveIn(m)
    BY <1>1 DEF LiveIn
  <1>3. FreeIn(r) = FreeIn(m) /\ UsedIn(r) = UsedIn(m)
    BY <1>1, <1>2 DEF FreeIn, UsedIn
  <1>4. Shape(r)
    BY <1>1 DEF MemInv, Shape, SameMemory
  <1>5. SpaceInv(r)
    BY DEF MemInv, SpaceInv, SameMemory
  <1>6. ChunkInv(r, X)
    BY <1>1, <1>2 DEF MemInv, ChunkInv, SameMemory
  <1>7. UsedSame(m, r)
    BY <1>1, <1>3 DEF UsedSame
  <1> QED
    BY <1>2, <1>3, <1>4, <1>5, <1>6, <1>7 DEF MemInv, SameMemory

\* The SubAllocator has refused what Extend will ask for at least, for ever.
Stuck(m) ==
    /\ m.started_backpedal
    /\ Lesser(m.curr_region_allocation_bytes, Available(m)) > physical - m.total_region_allocated_bytes

\* What Extend does: nothing, a refusal, or a region with a chunk that would do.
Refused(m, r) == SameMemory(m, r) /\ r.ret \in Int /\ ~(r.ret > 0) /\ Stuck(r)
Granted(m, r, n) ==
    \E b \in Nat : \E k : Grown(m, r, k, b) /\ n <= b /\ b <= Available(m) /\ ~Stuck(m)

\* Available is what the limit leaves, in units.
LEMMA AvailableFacts ==
  ASSUME NEW m, SpaceInv(m)
  PROVE  /\ Available(m) \in Nat /\ Available(m) % 256 = 0
         /\ m.total_region_allocated_bytes + Available(m) <= memory_limit
  <1>1. /\ m.total_region_allocated_bytes \in Nat /\ memory_limit \in Nat
        /\ m.total_region_allocated_bytes <= memory_limit
    BY AllocatorAssumption DEF SpaceInv
  <1> DEFINE d == memory_limit - m.total_region_allocated_bytes
  <1>2. d \in Nat /\ memory_limit = m.total_region_allocated_bytes + d
    BY <1>1
  <1>3. Available(m) = (d \div 256) * 256
    BY DEF Available, kMinAllocationSize
  <1> HIDE DEF d
  <1>4. Available(m) \in Nat /\ Available(m) <= d
    BY <1>2, <1>3
  <1>5. Available(m) % 256 = 0
    BY <1>2, <1>3
  <1> QED
    BY <1>1, <1>2, <1>4, <1>5

\* After the SubAllocator has answered.
LEMMA AfterOK ==
  ASSUME NEW m, MemInv(m, {}), physical \in Nat, NEW n \in Nat \ {0}, n % 256 = 0, n <= Available(m),
         NEW above \in BOOLEAN
  PROVE  LET r == ExtendBy(m, Enough(m, n), Lesser(Enough(m, n), Available(m)), n, above)
         IN  MemInv(r, {}) /\ (Refused(m, r) \/ Granted(m, r, n))
  <1> DEFINE curr == Enough(m, n)
             v == Available(m)
             bytes == Lesser(curr, v)
             b == SubAllocate(m, bytes, n)
             t == m.total_region_allocated_bytes
             q == [m EXCEPT !.started_backpedal = @ \/ b # bytes]
             r == AfterSubAllocate(m, curr, bytes, b, above)
  <1>1. /\ SpaceInv(m) /\ Shape(m) /\ t \in Nat /\ m.curr_region_allocation_bytes \in Nat \ {0}
        /\ m.curr_region_allocation_bytes % 256 = 0 /\ m.started_backpedal \in BOOLEAN
    BY DEF MemInv, SpaceInv
  <1>2. curr \in Nat \ {0} /\ n <= curr /\ m.curr_region_allocation_bytes <= curr /\ curr % 256 = 0
    BY <1>1, EnoughFacts
  <1>3. v \in Nat /\ v % 256 = 0 /\ t + v <= memory_limit /\ memory_limit \in Nat
    BY <1>1, AvailableFacts, AllocatorAssumption
  <1>n. n <= v
    OBVIOUS
  <1> HIDE DEF curr, v
  <1>4. bytes \in Nat /\ bytes % 256 = 0 /\ n <= bytes /\ bytes <= v
        /\ Lesser(m.curr_region_allocation_bytes, v) <= bytes /\ Lesser(m.curr_region_allocation_bytes, v) \in Nat
    BY <1>1, <1>2, <1>3, <1>n DEF Lesser
  <1> HIDE DEF bytes
  <1>5. /\ b \in Int
        /\ b > 0 => n <= b /\ b <= bytes /\ b <= physical - t /\ b % 256 = 0
        /\ b > 0 => b = bytes \/ ~m.started_backpedal
        /\ ~(b > 0) => bytes > physical - t /\ b # bytes
    BY <1>1, <1>4, SubAllocateFacts
  <1> HIDE DEF b
  <1>6. IsMem(m)
    BY <1>1 DEF Shape
  <1>7. IsMem(q)
    BY <1>6 DEF IsMem, Field
  <1>8. q.started_backpedal = (m.started_backpedal \/ b # bytes)
    BY <1>6 DEF IsMem, Field
  <1>9. \A f \in Field \ {"started_backpedal"} : q[f] = m[f]
    BY <1>6 DEF IsMem, Field
  <1> HIDE DEF q
  <1>10. SameMemory(m, q) /\ q.curr_region_allocation_bytes = m.curr_region_allocation_bytes /\ Counters(m, q)
    BY <1>7, <1>9 DEF SameMemory, Lists, Counters, Field
  <1>11. q.started_backpedal \in BOOLEAN
    BY <1>8
  <1>12. MemInv(q, {}) /\ UsedSame(m, q) /\ LiveIn(q) = LiveIn(m)
    BY <1>1, <1>10, <1>11, SameMemoryOK
  <1>13. CASE b > 0
    <2>1. r = Extended(q, curr, b, above)
      BY <1>13 DEF AfterSubAllocate, q
    <2>2. q.total_region_allocated_bytes = t
      BY <1>10 DEF SameMemory
    <2>3. b \in Nat \ {0} /\ b <= v /\ b <= physical - t
      BY <1>3, <1>4, <1>5, <1>13
    <2>4. t + b <= memory_limit /\ t + b <= physical
      <3> HIDE DEF t
      <3> QED
        BY <1>1, <1>3, <2>3
    <2>5. q.total_region_allocated_bytes + b <= memory_limit /\ q.total_region_allocated_bytes + b <= physical
      BY <2>2, <2>4
    <2>6. MemInv(r, {}) /\ \E k : Grown(q, r, k, b)
      BY <1>2, <1>12, <2>1, <2>3, <2>5, ExtendedOK
    <2>7. PICK k : Grown(q, r, k, b)
      BY <2>6
    <2> HIDE DEF r
    <2>8. Grown(m, r, k, b)
      <3>1. q.chunks = m.chunks /\ q.total_region_allocated_bytes = m.total_region_allocated_bytes
        BY <1>10 DEF SameMemory
      <3>2. UsedSame(m, r)
        BY <1>12, <2>7 DEF UsedSame, Grown
      <3>3. Counters(m, r)
        BY <1>10, <2>7 DEF Grown, Counters
      <3> QED
        BY <1>12, <2>7, <3>1, <3>2, <3>3 DEF Grown
    <2>9. ~Stuck(m)
      <3> SUFFICES ASSUME Stuck(m) PROVE FALSE
        OBVIOUS
      <3>1. m.started_backpedal /\ Lesser(m.curr_region_allocation_bytes, v) > physical - t
        BY DEF Stuck, v
      <3>2. b = bytes
        BY <1>5, <1>13, <3>1
      <3> HIDE DEF t
      <3> QED
        BY <1>1, <1>4, <2>3, <3>1, <3>2
    <2>10. n <= b /\ b <= Available(m) /\ b \in Nat
      BY <1>5, <1>13, <2>3 DEF v
    <2>11. Granted(m, r, n)
      BY <2>8, <2>9, <2>10 DEF Granted
    <2> QED
      BY <2>6, <2>11 DEF r, ExtendBy, b, bytes, curr, v
  <1>14. CASE ~(b > 0)
    <2>1. r = [q EXCEPT !.curr_region_allocation_bytes = curr, !.ret = b]
      BY <1>14 DEF AfterSubAllocate, q
    <2> HIDE DEF r
    <2>2. IsMem(r)
      BY <1>7, <2>1 DEF IsMem, Field
    <2>3. r.curr_region_allocation_bytes = curr /\ r.ret = b
      BY <1>7, <2>1 DEF IsMem, Field
    <2>4. \A f \in Field \ {"curr_region_allocation_bytes", "ret"} : r[f] = q[f]
      BY <1>7, <2>1 DEF IsMem, Field
    <2>5. SameMemory(q, r) /\ r.started_backpedal = q.started_backpedal
      BY <2>2, <2>4 DEF SameMemory, Lists, Field
    <2>6. SameMemory(m, r)
      BY <1>10, <2>5 DEF SameMemory, Lists
    <2>7. r.started_backpedal = TRUE
      BY <1>5, <1>8, <1>14, <2>5
    <2>8. MemInv(r, {})
      <3>1. /\ r.curr_region_allocation_bytes \in Nat \ {0} /\ r.curr_region_allocation_bytes % 256 = 0
            /\ r.started_backpedal \in BOOLEAN
        BY <1>2, <2>3, <2>7
      <3> QED
        BY <2>6, <3>1, SameMemoryOK
    <2>9. Stuck(r)
      <3>1. r.total_region_allocated_bytes = t
        BY <2>6 DEF SameMemory
      <3>2. Available(r) = v
        BY <3>1 DEF Available, v
      <3>3. Lesser(r.curr_region_allocation_bytes, Available(r)) = bytes
        BY <2>3, <3>2 DEF bytes
      <3> QED
        BY <1>5, <1>14, <2>7, <3>1, <3>3 DEF Stuck
    <2>10. Refused(m, r)
      BY <1>5, <1>14, <2>3, <2>6, <2>9 DEF Refused
    <2> QED
      BY <2>8, <2>10 DEF r, ExtendBy, b, bytes, curr, v
  <1> QED
    BY <1>13, <1>14

\* Extend as a whole.
LEMMA ExtendOK ==
  ASSUME NEW m, MemInv(m, {}), physical \in Nat, NEW n \in Nat \ {0}, n % 256 = 0, NEW above \in BOOLEAN
  PROVE  /\ MemInv(Extend(m, n, above), {})
         /\ \/ n > Available(m) /\ Extend(m, n, above) = m
            \/ Refused(m, Extend(m, n, above))
            \/ Granted(m, Extend(m, n, above), n)
  <1>1. CASE n > Available(m)
    BY <1>1 DEF Extend
  <1>2. CASE ~(n > Available(m))
    <2> DEFINE r == ExtendBy(m, Enough(m, n), Lesser(Enough(m, n), Available(m)), n, above)
    <2>1. Extend(m, n, above) = r
      BY <1>2 DEF Extend
    <2>2. n <= Available(m)
      <3>1. Available(m) \in Nat
        BY AvailableFacts DEF MemInv
      <3> QED
        BY <1>2, <3>1
    <2>3. MemInv(r, {}) /\ (Refused(m, r) \/ Granted(m, r, n))
      BY <2>2, AfterOK
    <2> QED
      BY <2>1, <2>3
  <1> QED
    BY <1>1, <1>2

(***************************************************************************)
(* AllocateRawInternal.                                                    *)
(***************************************************************************)

\* No request for n bytes will be granted until memory is returned.
Quiet(m, n) == (\A x \in FreeIn(m) : m.chunks[x].size < n) /\ (n > Available(m) \/ Stuck(m))

\* Finding a chunk for someone else makes none that would do.
LEMMA QuietFind ==
  ASSUME NEW m, NEW r, MemInv(m, {}), MemInv(r, {}), Regions(m, r), NotGrown(m, r), NEW w \in Nat, Quiet(m, w)
  PROVE  Quiet(r, w)
  <1>1. Available(r) = Available(m) /\ (Stuck(m) => Stuck(r))
    BY DEF Regions, Available, Stuck
  <1>2. ASSUME NEW x \in FreeIn(r) PROVE r.chunks[x].size < w
    <2>1. PICK y \in FreeIn(m) : r.chunks[x].size <= m.chunks[y].size
      BY DEF NotGrown
    <2>2. m.chunks[y].size < w
      BY DEF Quiet
    <2>3. r.chunks[x].size \in Nat /\ m.chunks[y].size \in Nat
      BY Positive DEF FreeIn
    <2> QED
      BY <2>1, <2>2, <2>3
  <1> QED
    BY <1>1, <1>2 DEF Quiet

\* Nor does a new region.
LEMMA QuietExtend ==
  ASSUME NEW m, NEW r, MemInv(m, {}), MemInv(r, {}), NEW n, Granted(m, r, n), NEW w \in Nat, Quiet(m, w)
  PROVE  Quiet(r, w)
  <1>1. PICK b \in Nat : \E k : Grown(m, r, k, b) /\ b <= Available(m) /\ ~Stuck(m)
    BY DEF Granted
  <1>2. PICK k : Grown(m, r, k, b) /\ b <= Available(m) /\ ~Stuck(m)
    BY <1>1
  <1>3. w > Available(m)
    BY <1>2 DEF Quiet
  <1>4. Available(m) \in Nat /\ Available(r) \in Nat
    BY AvailableFacts DEF MemInv
  <1>5. Available(r) <= Available(m)
    <2>1. /\ r.total_region_allocated_bytes = m.total_region_allocated_bytes + b
          /\ m.total_region_allocated_bytes \in Nat /\ memory_limit \in Nat
      BY <1>2, AllocatorAssumption DEF Grown, MemInv, SpaceInv
    <2> DEFINE c == memory_limit - m.total_region_allocated_bytes
               d == memory_limit - r.total_region_allocated_bytes
    <2>2. c \in Int /\ d \in Int /\ d <= c
      BY <2>1
    <2>3. Available(m) = (c \div 256) * 256 /\ Available(r) = (d \div 256) * 256
      BY DEF Available, kMinAllocationSize
    <2> HIDE DEF c, d
    <2>4. d \div 256 <= c \div 256 /\ d \div 256 \in Int /\ c \div 256 \in Int
      BY <2>2
    <2> QED
      BY <2>3, <2>4
  <1>6. ASSUME NEW x \in FreeIn(r) PROVE r.chunks[x].size < w
    <2>1. CASE x = k
      BY <1>2, <1>3, <1>4, <2>1 DEF Grown
    <2>2. CASE x # k
      <3>1. x \in LiveIn(m) /\ Alike(m.chunks[x], r.chunks[x])
        BY <1>2, <2>2 DEF Grown, FreeIn
      <3>2. x \in FreeIn(m) /\ r.chunks[x].size = m.chunks[x].size
        BY <3>1 DEF Alike, FreeIn, in_use
      <3> QED
        BY <3>2 DEF Quiet
    <2> QED
      BY <2>1, <2>2
  <1> QED
    BY <1>3, <1>4, <1>5, <1>6 DEF Quiet

\* Nor does a refusal.
LEMMA QuietRefused ==
  ASSUME NEW m, NEW r, MemInv(m, {}), MemInv(r, {}), Refused(m, r), NEW w \in Nat, Quiet(m, w)
  PROVE  Quiet(r, w)
  <1>1. FreeIn(r) = FreeIn(m) /\ r.chunks = m.chunks
    BY DEF Refused, SameMemory, Lists, FreeIn, LiveIn
  <1> QED
    BY <1>1 DEF Quiet, Refused

\* The request is granted, or it is in vain until memory is returned.
GrantedTo(m, r, requested) == \E h \in LiveIn(r) : Taken(m, r, h, requested)
InVain(m, r, requested) ==
    /\ UsedSame(m, r) /\ r.next_allocation_id = m.next_allocation_id
    /\ r.ret \in Int /\ ~(r.ret > 0) /\ Quiet(r, RoundedBytes(requested))
    /\ \A x \in FreeIn(m) : m.chunks[x].size < RoundedBytes(requested)

\* AllocateRawInternal.
LEMMA AllocOK ==
  ASSUME NEW m, MemInv(m, {}), m.ret = nullptr, physical \in Nat, NEW requested \in Nat \ {0}, NEW above \in BOOLEAN
  PROVE  LET r == AllocateRawInternal(m, requested, above)
         IN  /\ MemInv(r, {}) /\ (GrantedTo(m, r, requested) \/ InVain(m, r, requested))
             /\ \A w \in Nat : Quiet(m, w) => Quiet(r, w)
  <1> DEFINE r == AllocateRawInternal(m, requested, above)
             n == RoundedBytes(requested)
             f == FindChunkPtr(m, requested)
             e == Extend(m, n, above)
             g == FindChunkPtr(e, requested)
  <1>1. n \in Nat \ {0} /\ n % 256 = 0
    BY RoundedFacts DEF kMinAllocationSize
  <1>2. r = IF f.ret # nullptr THEN f ELSE FindChunkPtr(Extend(f, n, above), requested)
    BY DEF AllocateRawInternal, SearchAgain
  <1> HIDE DEF r
  <1>3. /\ MemInv(f, {}) /\ Regions(m, f) /\ NotGrown(m, f)
        /\ IF Found(m, n) THEN \E h \in LiveIn(f) : Taken(m, f, h, requested) ELSE f = m
    BY FindOK
  <1> HIDE DEF n, f
  <1>4. CASE Found(m, n)
    <2>1. PICK h \in LiveIn(f) : Taken(m, f, h, requested)
      BY <1>3, <1>4
    <2>2. f.chunks[h].ptr > 0 /\ f.chunks[h].ptr \in Nat
      BY <1>3, Positive
    <2>3. f.ret # nullptr
      BY <2>1, <2>2 DEF Taken, nullptr
    <2>4. r = f
      BY <1>2, <2>3
    <2>5. \A w \in Nat : Quiet(m, w) => Quiet(f, w)
      BY <1>3, QuietFind
    <2> QED
      BY <1>3, <2>1, <2>4, <2>5 DEF GrantedTo, r
  <1>5. CASE ~Found(m, n)
    <2>1. f = m
      BY <1>3, <1>5
    <2>2. r = g
      BY <1>2, <2>1
    <2>3. \A x \in FreeIn(m) : m.chunks[x].size < n
      <3>1. ~\E h \in FreeIn(m) : m.chunks[h].size >= n
        BY <1>1, <1>5, FoundFacts
      <3>2. \A x \in FreeIn(m) : m.chunks[x].size \in Nat
        BY Positive DEF FreeIn
      <3> QED
        BY <1>1, <3>1, <3>2
    <2>4. MemInv(e, {}) /\ ((n > Available(m) /\ e = m) \/ Refused(m, e) \/ Granted(m, e, n))
      BY <1>1, ExtendOK
    <2> HIDE DEF e
    <2>5. /\ MemInv(g, {}) /\ Regions(e, g) /\ NotGrown(e, g)
          /\ IF Found(e, n) THEN \E h \in LiveIn(g) : Taken(e, g, h, requested) ELSE g = e
      BY <2>4, FindOK DEF n
    <2> HIDE DEF g
    <2>6. CASE n > Available(m) /\ e = m
      <3>1. g = m
        BY <1>5, <2>5, <2>6
      <3>2. Quiet(m, n)
        BY <2>3, <2>6 DEF Quiet
      <3>3. UsedSame(m, m)
        BY DEF UsedSame
      <3>4. InVain(m, m, requested)
        BY <2>3, <3>2, <3>3 DEF InVain, nullptr, n
      <3> QED
        BY <2>2, <3>1, <3>4 DEF r
    <2>7. CASE Refused(m, e)
      <3>1. FreeIn(e) = FreeIn(m) /\ e.chunks = m.chunks /\ UsedIn(e) = UsedIn(m)
        BY <2>7 DEF Refused, SameMemory, Lists, FreeIn, UsedIn, LiveIn
      <3>2. ~\E h \in FreeIn(e) : e.chunks[h].size >= n
        <4>1. \A x \in FreeIn(m) : m.chunks[x].size \in Nat
          BY Positive DEF FreeIn
        <4> QED
          BY <1>1, <2>3, <3>1, <4>1
      <3>3. ~Found(e, n)
        BY <1>1, <2>4, <3>2, FoundFacts
      <3>4. g = e
        BY <2>5, <3>3
      <3>5. Quiet(e, n)
        BY <2>3, <2>7, <3>1 DEF Quiet, Refused
      <3>6. InVain(m, e, requested)
        BY <2>3, <2>7, <3>1, <3>5 DEF InVain, Refused, SameMemory, UsedSame, n
      <3>7. \A w \in Nat : Quiet(m, w) => Quiet(e, w)
        BY <2>4, <2>7, QuietRefused
      <3> QED
        BY <2>2, <2>4, <3>4, <3>6, <3>7 DEF r
    <2>8. CASE Granted(m, e, n)
      <3>1. PICK b \in Nat : \E k : Grown(m, e, k, b) /\ n <= b
        BY <2>8 DEF Granted
      <3>2. PICK k : Grown(m, e, k, b) /\ n <= b
        BY <3>1
      <3>3. k \in FreeIn(e) /\ e.chunks[k].size >= n
        BY <1>1, <3>2 DEF Grown
      <3>4. Found(e, n)
        BY <1>1, <2>4, <3>3, FoundFacts
      <3>5. PICK h \in LiveIn(g) : Taken(e, g, h, requested)
        BY <2>5, <3>4
      <3>6. UsedSame(m, e) /\ e.next_allocation_id = m.next_allocation_id
        BY <3>2 DEF Grown, Counters
      <3>7. Taken(m, g, h, requested)
        BY <3>5, <3>6 DEF Taken, UsedSame
      <3>8. GrantedTo(m, g, requested)
        BY <3>5, <3>7 DEF GrantedTo
      <3>9. \A w \in Nat : Quiet(m, w) => Quiet(e, w)
        BY <2>4, <2>8, QuietExtend
      <3>10. \A w \in Nat : Quiet(e, w) => Quiet(g, w)
        BY <2>4, <2>5, QuietFind
      <3> QED
        BY <2>2, <2>5, <3>8, <3>9, <3>10 DEF r
    <2> QED
      BY <2>4, <2>6, <2>7, <2>8
  <1> QED
    BY <1>4, <1>5

(***************************************************************************)
(* DeallocateRawInternal: the chunk is marked as free, merged with its     *)
(* successor, merged with its predecessor, and put into a bin.             *)
(***************************************************************************)
\* Neighbours are different chunks, and no two are each other's successors.
LEMMA NoCycle ==
  ASSUME NEW m, NEW X, MemInv(m, X), NEW h \in LiveIn(m), m.chunks[h].next # kInvalidChunkHandle
  PROVE  /\ m.chunks[h].next \in LiveIn(m) /\ m.chunks[h].next # h
         /\ m.chunks[m.chunks[h].next].next # h /\ m.chunks[m.chunks[h].next].prev = h
  <1> DEFINE n == m.chunks[h].next
             C == m.chunks
             L == LiveIn(m)
  <1>1. ListInv(C, L) /\ h \in DOMAIN C /\ Shape(m)
    BY DEF MemInv, ChunkInv, LiveIn
  <1>2. n \in L /\ C[n].prev = h /\ C[n].ptr = End(C[h]) /\ C[h].size > 0 /\ C[n].size > 0
    BY <1>1 DEF ListInv
  <1>3. C[h].size \in Nat /\ C[n].size \in Nat /\ C[h].ptr \in Int /\ C[n].ptr \in Int
    BY <1>1, <1>2 DEF Shape, Chunk, LiveIn
  <1>4. n # h
    BY <1>2, <1>3 DEF End
  <1>5. ASSUME C[n].next = h PROVE FALSE
    <2>1. h \in Int /\ h # kInvalidChunkHandle
      BY <1>1 DEF Shape, kInvalidChunkHandle
    <2>2. C[h].ptr = End(C[n])
      BY <1>1, <1>2, <1>5, <2>1 DEF ListInv
    <2> QED
      BY <1>2, <1>3, <2>2 DEF End
  <1> QED
    BY <1>2, <1>4, <1>5

\* The free chunks of m that h would have to be merged with next.
NextInUse(m, h) ==
    m.chunks[h].next # kInvalidChunkHandle =>
        m.chunks[h].next \in LiveIn(m) /\ in_use(m.chunks[m.chunks[h].next])

\* Chunk h swallows the chunk after it if that one is free.
LEMMA CoalesceNextOK ==
  ASSUME NEW m, NEW h, MemInv(m, {h})
  PROVE  /\ MemInv(CoalesceNext(m, h), {h}) /\ UsedSame(m, CoalesceNext(m, h))
         /\ Counters(m, CoalesceNext(m, h)) /\ NextInUse(CoalesceNext(m, h), h)
  <1> DEFINE r == CoalesceNext(m, h)
             n == m.chunks[h].next
             q == RemoveFreeChunkFromBin(m, n)
             g == Merge(q, h, n)
  <1>1. /\ h \in LiveIn(m) /\ ~in_use(m.chunks[h]) /\ h \in DOMAIN m.chunks /\ Shape(m)
        /\ JoinInv(m.chunks, LiveIn(m), {h}) /\ ListInv(m.chunks, LiveIn(m))
    BY DEF MemInv, ChunkInv, BinInv, LiveIn
  <1>2. r = IF n # kInvalidChunkHandle /\ ~in_use(m.chunks[n]) THEN g ELSE m
    BY DEF CoalesceNext
  <1> HIDE DEF r
  <1>3. CASE ~(n # kInvalidChunkHandle /\ ~in_use(m.chunks[n]))
    <2>1. r = m
      BY <1>2, <1>3
    <2>2. NextInUse(m, h)
      BY <1>1, <1>3 DEF NextInUse, ListInv
    <2>3. UsedSame(m, m) /\ Counters(m, m)
      BY DEF UsedSame, Counters
    <2> QED
      BY <2>1, <2>2, <2>3 DEF r
  <1>4. CASE n # kInvalidChunkHandle /\ ~in_use(m.chunks[n])
    <2>1. r = g
      BY <1>2, <1>4
    <2>2. n \in LiveIn(m) /\ n # h /\ m.chunks[n].next # h
      BY <1>1, <1>4, NoCycle
    <2>3. n \in FreeIn(m) \ {h}
      BY <1>4, <2>2 DEF FreeIn
    <2> HIDE DEF n
    <2>4. MemInv(q, {h} \cup {n}) /\ UsedSame(m, q)
      BY <2>3, RemoveOK
    <2>5. LiveIn(q) = LiveIn(m) /\ Counters(m, q) /\ \A x \in LiveIn(m) : Alike(m.chunks[x], q.chunks[x])
      BY <2>3, RemoveSame
    <2> HIDE DEF q
    <2>6. /\ q.chunks[h].next = n /\ q.chunks[n].next = m.chunks[n].next
          /\ \A x \in LiveIn(m) : in_use(q.chunks[x]) <=> in_use(m.chunks[x])
      BY <1>1, <2>2, <2>5 DEF Alike, n, in_use
    <2> DEFINE Y == {h} \cup {n}
    <2>7. h \in Y /\ n \in Y /\ MemInv(q, Y) /\ q.chunks[h].next = n
      BY <2>4, <2>6
    <2>9. Y \ {n} = {h}
      BY <2>2
    <2> HIDE DEF Y
    <2>8. MemInv(g, Y \ {n}) /\ UsedSame(q, g) /\ Merged(q, g, h, n) /\ LiveIn(g) = LiveIn(q) \ {n}
      BY <2>7, MergeOK
    <2> HIDE DEF g
    <2>10. LiveIn(m) \subseteq DOMAIN q.chunks
      BY <2>5 DEF LiveIn
    <2>11. g.chunks[h].next = m.chunks[n].next
      BY <1>1, <2>6, <2>8, <2>10 DEF Merged
    <2>12. \A x \in LiveIn(m) : in_use(g.chunks[x]) <=> in_use(m.chunks[x])
      BY <2>6, <2>8, <2>10 DEF Merged, in_use
    <2>13. NextInUse(g, h)
      <3> SUFFICES ASSUME m.chunks[n].next # kInvalidChunkHandle
                   PROVE  m.chunks[n].next \in LiveIn(g) /\ in_use(g.chunks[m.chunks[n].next])
        BY <2>11 DEF NextInUse
      <3>1. m.chunks[n].next \in LiveIn(m) /\ m.chunks[n].next # n
        BY <2>2, NoCycle
      <3>2. in_use(m.chunks[m.chunks[n].next])
        BY <1>1, <1>4, <2>2, <3>1 DEF JoinInv, n
      <3> QED
        BY <2>5, <2>8, <2>12, <3>1, <3>2
    <2>14. UsedSame(m, g) /\ Counters(m, g)
      <3>1. UsedSame(m, g)
        BY <2>4, <2>8 DEF UsedSame
      <3>2. Counters(q, g)
        BY <2>8 DEF Merged
      <3> QED
        BY <2>5, <3>1, <3>2 DEF Counters
    <2> QED
      BY <2>1, <2>8, <2>9, <2>13, <2>14 DEF r
  <1> QED
    BY <1>3, <1>4

\* Chunk h is swallowed by the chunk before it if that one is free; a bin
\* gets the result.
LEMMA CoalescePrevOK ==
  ASSUME NEW m, NEW h, MemInv(m, {h}), NextInUse(m, h)
  PROVE  MemInv(CoalescePrev(m, h), {}) /\ UsedSame(m, CoalescePrev(m, h)) /\ Counters(m, CoalescePrev(m, h))
  <1> DEFINE r == CoalescePrev(m, h)
             p == m.chunks[h].prev
             z == m.chunks[h].next
             q == RemoveFreeChunkFromBin(m, p)
             g == Merge(q, p, h)
             i == InsertFreeChunkIntoBin(g, p)
             j == InsertFreeChunkIntoBin(m, h)
  <1>1. /\ h \in LiveIn(m) /\ ~in_use(m.chunks[h]) /\ h \in DOMAIN m.chunks /\ Shape(m)
        /\ JoinInv(m.chunks, LiveIn(m), {h}) /\ ListInv(m.chunks, LiveIn(m))
    BY DEF MemInv, ChunkInv, BinInv, LiveIn
  <1>2. r = IF p # kInvalidChunkHandle /\ ~in_use(m.chunks[p]) THEN i ELSE j
    BY DEF CoalescePrev
  <1>3. z # kInvalidChunkHandle => z \in LiveIn(m) /\ in_use(m.chunks[z])
    BY DEF NextInUse
  <1> HIDE DEF r
  <1>4. CASE ~(p # kInvalidChunkHandle /\ ~in_use(m.chunks[p]))
    <2>1. r = j
      BY <1>2, <1>4
    <2>2. MemInv(j, {h} \ {h}) /\ UsedSame(m, j)
      <3>1. h \in {h}
        OBVIOUS
      <3>2. z # kInvalidChunkHandle => in_use(m.chunks[z]) \/ z \in {h} \ {h}
        BY <1>3
      <3>3. p # kInvalidChunkHandle => in_use(m.chunks[p]) \/ p \in {h} \ {h}
        BY <1>4
      <3> QED
        BY <3>1, <3>2, <3>3, InsertOK
    <2>3. Counters(m, j)
      BY <1>1, InsertSame
    <2>4. {h} \ {h} = {}
      OBVIOUS
    <2> QED
      BY <2>1, <2>2, <2>3, <2>4 DEF r
  <1>5. CASE p # kInvalidChunkHandle /\ ~in_use(m.chunks[p])
    <2>1. r = i
      BY <1>2, <1>5
    <2>2. p \in LiveIn(m) /\ m.chunks[p].next = h
      BY <1>1, <1>5 DEF ListInv
    <2>3. p # h /\ p # z
      <3>1. h # kInvalidChunkHandle
        BY <1>1 DEF Shape, kInvalidChunkHandle
      <3>2. p # h
        BY <1>1, <2>2, <1>3, <3>1
      <3> QED
        BY <1>3, <1>5, <3>2
    <2>4. p \in FreeIn(m) \ {h}
      BY <1>5, <2>2, <2>3 DEF FreeIn
    <2>5. m.chunks[p].prev # kInvalidChunkHandle =>
             m.chunks[p].prev \in LiveIn(m) /\ in_use(m.chunks[m.chunks[p].prev])
      <3> SUFFICES ASSUME m.chunks[p].prev # kInvalidChunkHandle
                   PROVE  m.chunks[p].prev \in LiveIn(m) /\ in_use(m.chunks[m.chunks[p].prev])
        OBVIOUS
      <3> DEFINE o == m.chunks[p].prev
      <3>1. o \in LiveIn(m) /\ m.chunks[o].next = p
        BY <1>1, <2>2 DEF ListInv
      <3>2. o # h
        BY <2>3, <3>1
      <3> QED
        BY <1>1, <1>5, <2>3, <3>1, <3>2 DEF JoinInv
    <2> HIDE DEF p
    <2>6. MemInv(q, {h} \cup {p}) /\ UsedSame(m, q)
      BY <2>4, RemoveOK
    <2>7. LiveIn(q) = LiveIn(m) /\ Counters(m, q) /\ \A x \in LiveIn(m) : Alike(m.chunks[x], q.chunks[x])
      BY <2>4, RemoveSame
    <2> HIDE DEF q
    <2>8. /\ q.chunks[p].next = h /\ q.chunks[h].next = z /\ q.chunks[p].prev = m.chunks[p].prev
          /\ \A x \in LiveIn(m) : in_use(q.chunks[x]) <=> in_use(m.chunks[x])
      BY <1>1, <2>2, <2>7 DEF Alike, in_use
    <2> DEFINE Y == {h} \cup {p}
    <2>9. h \in Y /\ p \in Y /\ MemInv(q, Y) /\ q.chunks[p].next = h
      BY <2>6, <2>8
    <2>11. Y \ {h} = {p}
      BY <2>3
    <2> HIDE DEF Y
    <2>10. MemInv(g, Y \ {h}) /\ UsedSame(q, g) /\ Merged(q, g, p, h) /\ LiveIn(g) = LiveIn(q) \ {h}
      BY <2>9, MergeOK
    <2> HIDE DEF g
    <2>12. LiveIn(m) \subseteq DOMAIN q.chunks
      BY <2>7 DEF LiveIn
    <2>13. g.chunks[p].next = z /\ g.chunks[p].prev = m.chunks[p].prev
      BY <2>2, <2>3, <2>8, <2>10, <2>12 DEF Merged
    <2>14. \A x \in LiveIn(m) : in_use(g.chunks[x]) <=> in_use(m.chunks[x])
      BY <2>8, <2>10, <2>12 DEF Merged, in_use
    <2>15. MemInv(i, {p} \ {p}) /\ UsedSame(g, i)
      <3>1. p \in {p} /\ MemInv(g, {p})
        BY <2>10, <2>11
      <3>2. g.chunks[p].next # kInvalidChunkHandle => in_use(g.chunks[g.chunks[p].next]) \/ g.chunks[p].next \in {p} \ {p}
        BY <1>3, <2>13, <2>14
      <3>3. g.chunks[p].prev # kInvalidChunkHandle => in_use(g.chunks[g.chunks[p].prev]) \/ g.chunks[p].prev \in {p} \ {p}
        BY <2>5, <2>13, <2>14
      <3> QED
        BY <3>1, <3>2, <3>3, InsertOK
    <2>16. Counters(g, i)
      <3>1. p \in LiveIn(g) /\ Shape(g)
        BY <2>2, <2>3, <2>7, <2>10 DEF MemInv
      <3>2. p \in DOMAIN g.chunks
        BY <3>1 DEF LiveIn
      <3> QED
        BY <3>1, <3>2, InsertSame
    <2> HIDE DEF i
    <2>17. UsedSame(m, i) /\ Counters(m, i)
      <3>1. UsedSame(m, g)
        BY <2>6, <2>10 DEF UsedSame
      <3>2. UsedSame(m, i)
        BY <2>15, <3>1 DEF UsedSame
      <3>3. Counters(q, g)
        BY <2>10 DEF Merged
      <3> QED
        BY <2>7, <2>16, <3>2, <3>3 DEF Counters
    <2>18. {p} \ {p} = {}
      OBVIOUS
    <2> QED
      BY <2>1, <2>15, <2>17, <2>18 DEF r
  <1> QED
    BY <1>4, <1>5

\* DeallocateRawInternal.
LEMMA FreeOK ==
  ASSUME NEW m, MemInv(m, {}), NEW p \in DOMAIN m.handles, m.handles[p] \in UsedIn(m)
  PROVE  /\ MemInv(DeallocateRawInternal(m, p), {})
         /\ Freed(m, DeallocateRawInternal(m, p), m.handles[p])
  <1> DEFINE h == m.handles[p]
             a == Release(m, h)
             b == CoalesceNext(a, h)
             r == CoalescePrev(b, h)
  <1>1. DeallocateRawInternal(m, p) = r
    BY DEF DeallocateRawInternal, FreeAndMaybeCoalesce, Release
  <1> HIDE DEF h
  <1>2. h \in UsedIn(m)
    BY DEF h
  <1>3. MemInv(a, {h}) /\ Freed(m, a, h)
    BY <1>2, ReleaseOK
  <1> HIDE DEF a
  <1>4. MemInv(b, {h}) /\ UsedSame(a, b) /\ Counters(a, b) /\ NextInUse(b, h)
    BY <1>3, CoalesceNextOK
  <1> HIDE DEF b
  <1>5. MemInv(r, {}) /\ UsedSame(b, r) /\ Counters(b, r)
    BY <1>4, CoalescePrevOK
  <1> HIDE DEF r
  <1>6. UsedSame(a, r)
    BY <1>4, <1>5 DEF UsedSame
  <1>7. r.next_allocation_id = a.next_allocation_id /\ r.ret = a.ret
    BY <1>4, <1>5 DEF Counters
  <1>8. Freed(m, r, h)
    BY <1>3, <1>6, <1>7 DEF Freed, UsedSame
  <1> QED
    BY <1>1, <1>5, <1>8 DEF h

(***************************************************************************)
(* The threads.                                                            *)
(***************************************************************************)
Place == {"idle", "retry", "failed", "waiting", "last", "holding", "notify", "spinning"}
ThreadInv ==
    /\ pc \in [Thread -> Place] /\ ptr \in [Thread -> Int] /\ num_bytes \in [Thread -> Nat]
    /\ missed \in [Thread -> BOOLEAN] /\ physical \in Nat
    /\ \A t \in Thread : pc[t] \in {"retry", "failed", "waiting", "last"} => num_bytes[t] # 0

\* Thread t holds the block that chunk h is.
Holds(m, p, n, h) == h \in UsedIn(m) /\ m.chunks[h].ptr = p /\ m.chunks[h].requested_size = n
HoldInv ==
    /\ \A t \in Thread : pc[t] = "holding" => \E h \in UsedIn(mem) : Holds(mem, ptr[t], num_bytes[t], h)
    /\ \A t, u \in Thread : pc[t] = "holding" /\ pc[u] = "holding" /\ t # u => ptr[t] # ptr[u]
    /\ \A h \in UsedIn(mem) : \E t \in Thread : pc[t] = "holding" /\ ptr[t] = mem.chunks[h].ptr

\* A thread that failed will do so again unless somebody returned memory.
SleepInv ==
    \A t \in Thread : pc[t] \in {"failed", "waiting"} =>
        missed[t] \/ (\E u \in Thread : pc[u] = "notify") \/ Quiet(mem, RoundedBytes(num_bytes[t]))

Inv == MemInv(mem, {}) /\ mem.ret = nullptr /\ ThreadInv /\ HoldInv /\ SleepInv

\* The initial state of the allocator.
LEMMA InitOK ==
  ASSUME Init
  PROVE  Inv
  <1> DEFINE curr(g) == RoundedBytes(IF g THEN Lesser(memory_limit, InitialRegion) ELSE memory_limit)
  <1>1. \A g \in BOOLEAN : curr(g) \in Nat \ {0} /\ curr(g) % 256 = 0
    <2>1. memory_limit \in Nat \ {0} /\ Lesser(memory_limit, InitialRegion) \in Nat \ {0}
      BY AllocatorAssumption DEF Lesser
    <2>2. \A v \in Nat \ {0} : RoundedBytes(v) \in Nat \ {0} /\ RoundedBytes(v) % 256 = 0
      BY RoundedFacts DEF kMinAllocationSize
    <2> QED
      BY <2>1, <2>2
  <1>2. PICK g \in BOOLEAN :
           mem = [chunks |-> [h \in {} |-> NewChunk], handles |-> [p \in {} |-> 0],
                  free_chunks_list |-> kInvalidChunkHandle,
                  bins |-> [b \in 0..kNumBins - 1 |-> {}], regions |-> {},
                  curr_region_allocation_bytes |-> curr(g),
                  total_region_allocated_bytes |-> 0, started_backpedal |-> FALSE,
                  next_allocation_id |-> 1, bytes_in_use |-> 0, ok |-> TRUE, ret |-> nullptr]
    BY DEF Init
  <1> DEFINE v == curr(g)
  <1>3. v \in Nat \ {0} /\ v % 256 = 0
    BY <1>1
  <1> HIDE DEF curr, v
  <1>4. IsMem(mem)
    BY <1>2 DEF IsMem, Field
  <1>5. /\ DOMAIN mem.chunks = {} /\ mem.chunks = [h \in {} |-> NewChunk] /\ DOMAIN mem.handles = {}
        /\ mem.free_chunks_list = kInvalidChunkHandle /\ mem.bins = [b \in Bin |-> {}]
        /\ mem.regions = {} /\ mem.curr_region_allocation_bytes = v
    BY <1>2 DEF v, Bin
  <1>6. /\ mem.total_region_allocated_bytes = 0 /\ mem.started_backpedal = FALSE /\ mem.next_allocation_id = 1
        /\ mem.ok = TRUE /\ mem.ret = nullptr
    BY <1>2
  <1>7. physical \in Nat
    BY AllocatorAssumption DEF Init
  <1>8. Shape(mem)
    <2>1. DOMAIN mem.chunks = 0..0 - 1
      BY <1>5
    <2>2. mem.chunks \in [DOMAIN mem.chunks -> Chunk]
      BY <1>5
    <2>3. mem.bins \in [Bin -> SUBSET DOMAIN mem.chunks]
      BY <1>5
    <2> QED
      BY <1>4, <1>5, <2>1, <2>2, <2>3 DEF Shape
  <1>9. LiveIn(mem) = {}
    BY <1>5 DEF LiveIn
  <1>10. SpaceInv(mem)
    <2>1. memory_limit \in Nat /\ mem.started_backpedal \in BOOLEAN
      BY <1>6, AllocatorAssumption
    <2>2. /\ mem.total_region_allocated_bytes \in Nat /\ mem.total_region_allocated_bytes <= memory_limit
          /\ mem.total_region_allocated_bytes <= physical
      BY <1>6, <1>7, <2>1
    <2>3. mem.curr_region_allocation_bytes \in Nat \ {0} /\ mem.curr_region_allocation_bytes % 256 = 0
      BY <1>3, <1>5
    <2> QED
      BY <1>5, <2>1, <2>2, <2>3, Zenon DEF SpaceInv
  <1>11. ChunkInv(mem, {})
    <2>1. /\ ListInv(mem.chunks, {}) /\ ApartInv(mem.chunks, {}) /\ RegionInv(mem.chunks, {}, mem.regions)
          /\ JoinInv(mem.chunks, {}, {}) /\ UseInv(mem.chunks, {}, mem.next_allocation_id)
      BY DEF ListInv, ApartInv, RegionInv, JoinInv, UseInv
    <2>2. UnusedInv(mem.chunks, DOMAIN mem.chunks \ {}, mem.free_chunks_list)
      BY <1>5 DEF UnusedInv
    <2>3. BinInv(mem.chunks, {}, mem.bins, {})
      BY <1>5 DEF BinInv
    <2> QED
      BY <1>6, <1>9, <2>1, <2>2, <2>3 DEF ChunkInv
  <1>12. ThreadInv
    BY <1>7 DEF ThreadInv, Init, Place, nullptr
  <1>13. UsedIn(mem) = {} /\ \A t \in Thread : pc[t] = "idle"
    BY <1>9 DEF UsedIn, Init
  <1>14. HoldInv /\ SleepInv
    BY <1>13 DEF HoldInv, SleepInv
  <1> QED
    BY <1>6, <1>8, <1>10, <1>11, <1>12, <1>14 DEF Inv, MemInv

\* The answer is taken out of the field that carries it.
LEMMA ResetOK ==
  ASSUME NEW m, MemInv(m, {})
  PROVE  LET r == [m EXCEPT !.ret = nullptr]
         IN  /\ MemInv(r, {}) /\ r.ret = nullptr /\ r.chunks = m.chunks
             /\ r.next_allocation_id = m.next_allocation_id
             /\ LiveIn(r) = LiveIn(m) /\ FreeIn(r) = FreeIn(m) /\ UsedIn(r) = UsedIn(m)
             /\ \A w \in Nat : Quiet(m, w) => Quiet(r, w)
  <1> DEFINE r == [m EXCEPT !.ret = nullptr]
  <1>1. IsMem(m)
    BY DEF MemInv, Shape
  <1>2. IsMem(r) /\ r.ret = nullptr /\ \A f \in Field \ {"ret"} : r[f] = m[f]
    BY <1>1 DEF IsMem, Field
  <1> HIDE DEF r
  <1>3. /\ SameMemory(m, r) /\ r.curr_region_allocation_bytes = m.curr_region_allocation_bytes
        /\ r.started_backpedal = m.started_backpedal
    BY <1>2 DEF SameMemory, Field, Lists
  <1>4. /\ r.curr_region_allocation_bytes \in Nat \ {0} /\ r.curr_region_allocation_bytes % 256 = 0
        /\ r.started_backpedal \in BOOLEAN
    BY <1>3 DEF MemInv, SpaceInv
  <1>5. MemInv(r, {}) /\ UsedSame(m, r) /\ LiveIn(r) = LiveIn(m) /\ FreeIn(r) = FreeIn(m)
    BY <1>3, <1>4, SameMemoryOK
  <1>6. r.chunks = m.chunks /\ UsedIn(r) = UsedIn(m) /\ r.next_allocation_id = m.next_allocation_id
    BY <1>3, <1>5 DEF SameMemory, UsedSame
  <1>7. Available(r) = Available(m) /\ (Stuck(m) <=> Stuck(r))
    BY <1>3 DEF SameMemory, Available, Stuck
  <1>8. \A w \in Nat : Quiet(m, w) => Quiet(r, w)
    BY <1>5, <1>6, <1>7 DEF Quiet
  <1> QED
    BY <1>2, <1>5, <1>6, <1>8 DEF r

\* Chunk h is a block of r that was none of m; the others stay.
Took(m, r, h, requested) ==
    /\ h \in LiveIn(r) /\ h \notin UsedIn(m) /\ UsedIn(r) = UsedIn(m) \cup {h}
    /\ \A x \in UsedIn(m) :
         /\ r.chunks[x].ptr = m.chunks[x].ptr /\ r.chunks[x].size = m.chunks[x].size
         /\ r.chunks[x].requested_size = m.chunks[x].requested_size
         /\ r.chunks[x].allocation_id = m.chunks[x].allocation_id
    /\ r.chunks[h].requested_size = requested /\ r.chunks[h].allocation_id = m.next_allocation_id
    /\ r.next_allocation_id = m.next_allocation_id + 1

\* The two ways an attempt of thread t to get n bytes can end.
Got(t, n) ==
    \E h \in LiveIn(mem') :
        /\ Took(mem, mem', h, n)
        /\ ptr' = [ptr EXCEPT ![t] = mem'.chunks[h].ptr] /\ pc' = [pc EXCEPT ![t] = "holding"]
Failed(t, n, otherwise) ==
    /\ UsedSame(mem, mem') /\ mem'.next_allocation_id = mem.next_allocation_id
    /\ ptr' = [ptr EXCEPT ![t] = nullptr]
    /\ pc' = [pc EXCEPT ![t] = "spinning"] \/ pc' = [pc EXCEPT ![t] = otherwise]
    /\ n # 0 => /\ Quiet(mem', RoundedBytes(n))
                /\ \A x \in FreeIn(mem) : mem.chunks[x].size < RoundedBytes(n)

\* Attempt.
LEMMA AttemptOK ==
  ASSUME Inv, NEW t \in Thread, NEW n \in Nat, NEW otherwise, Attempt(t, n, otherwise)
  PROVE  /\ MemInv(mem', {}) /\ mem'.ret = nullptr /\ (Got(t, n) \/ Failed(t, n, otherwise))
         /\ \A w \in Nat : Quiet(mem, w) => Quiet(mem', w)
  <1>1. MemInv(mem, {}) /\ mem.ret = nullptr /\ physical \in Nat
    BY DEF Inv, ThreadInv
  <1>2. PICK above \in BOOLEAN : Attempted(t, AllocateRawInternal(mem, n, above), otherwise)
    BY DEF Attempt
  <1> DEFINE m == AllocateRawInternal(mem, n, above)
  <1>3. /\ mem' = [m EXCEPT !.ret = nullptr]
        /\ ptr' = [ptr EXCEPT ![t] = IF m.ret > 0 THEN m.ret ELSE nullptr]
        /\ pc' = [pc EXCEPT ![t] = IF m.ret > 0 THEN "holding"
                                   ELSE IF m.ret < 0 THEN "spinning" ELSE otherwise]
    BY <1>2 DEF Attempted
  <1>4. n = 0 => m = mem
    BY DEF AllocateRawInternal
  <1>5. n # 0 => /\ MemInv(m, {}) /\ (GrantedTo(mem, m, n) \/ InVain(mem, m, n))
                 /\ \A w \in Nat : Quiet(mem, w) => Quiet(m, w)
    BY <1>1, AllocOK
  <1> HIDE DEF m
  <1>6. MemInv(m, {}) /\ \A w \in Nat : Quiet(mem, w) => Quiet(m, w)
    BY <1>1, <1>4, <1>5
  <1>7. /\ MemInv(mem', {}) /\ mem'.ret = nullptr /\ mem'.chunks = m.chunks
        /\ mem'.next_allocation_id = m.next_allocation_id
        /\ LiveIn(mem') = LiveIn(m) /\ FreeIn(mem') = FreeIn(m) /\ UsedIn(mem') = UsedIn(m)
        /\ \A w \in Nat : Quiet(m, w) => Quiet(mem', w)
    BY <1>3, <1>6, ResetOK
  <1>8. \A w \in Nat : Quiet(mem, w) => Quiet(mem', w)
    BY <1>6, <1>7
  <1>9. CASE n = 0
    <2>1. UsedSame(mem, mem') /\ mem'.next_allocation_id = mem.next_allocation_id
      BY <1>4, <1>7, <1>9 DEF UsedSame
    <2>2. ~(m.ret > 0) /\ ~(m.ret < 0)
      BY <1>1, <1>4, <1>9 DEF nullptr
    <2>3. ptr' = [ptr EXCEPT ![t] = nullptr] /\ pc' = [pc EXCEPT ![t] = otherwise]
      BY <1>3, <2>2
    <2>4. Failed(t, n, otherwise)
      BY <1>9, <2>1, <2>3 DEF Failed
    <2> QED
      BY <1>7, <1>8, <2>4
  <1>10. CASE n # 0 /\ GrantedTo(mem, m, n)
    <2>1. PICK h \in LiveIn(m) : Taken(mem, m, h, n)
      BY <1>10 DEF GrantedTo
    <2>2. m.ret = m.chunks[h].ptr /\ m.ret > 0
      BY <1>6, <2>1, Positive DEF Taken
    <2>3. ptr' = [ptr EXCEPT ![t] = mem'.chunks[h].ptr] /\ pc' = [pc EXCEPT ![t] = "holding"]
      BY <1>3, <1>7, <2>2
    <2>4. Took(mem, mem', h, n)
      BY <1>7, <2>1 DEF Took, Taken
    <2>5. Got(t, n)
      BY <1>7, <2>3, <2>4 DEF Got
    <2> QED
      BY <1>7, <1>8, <2>5
  <1>11. CASE n # 0 /\ InVain(mem, m, n)
    <2>1. UsedSame(mem, mem') /\ mem'.next_allocation_id = mem.next_allocation_id
      BY <1>7, <1>11 DEF UsedSame, InVain
    <2>2. ~(m.ret > 0)
      BY <1>11 DEF InVain
    <2>3. /\ ptr' = [ptr EXCEPT ![t] = nullptr]
          /\ pc' = [pc EXCEPT ![t] = "spinning"] \/ pc' = [pc EXCEPT ![t] = otherwise]
      BY <1>3, <2>2
    <2>4. RoundedBytes(n) \in Nat
      BY RoundedFacts
    <2>5. Quiet(mem', RoundedBytes(n)) /\ \A x \in FreeIn(mem) : mem.chunks[x].size < RoundedBytes(n)
      BY <1>7, <1>11, <2>4 DEF InVain
    <2>6. Failed(t, n, otherwise)
      BY <2>1, <2>3, <2>5 DEF Failed
    <2> QED
      BY <1>7, <1>8, <2>6
  <1> QED
    BY <1>5, <1>9, <1>10, <1>11

\* Two chunks at the same address are the same.
LEMMA OneAtAddress ==
  ASSUME NEW m, NEW x \in LiveIn(m), NEW y \in LiveIn(m), m.chunks[x].ptr = m.chunks[y].ptr
  PROVE  x = y
  BY DEF LiveIn

\* What the invariant says depends on physical by its value.
LEMMA PrimedFacts ==
  ASSUME physical' = physical
  PROVE  /\ MemInv(mem, {})' <=> MemInv(mem', {})
         /\ \A t \in Thread : Quiet(mem, RoundedBytes(num_bytes[t]))'
                                <=> Quiet(mem', RoundedBytes(num_bytes'[t]))
  <1>1. MemInv(mem, {})' <=> MemInv(mem', {})
    BY DEF MemInv, SpaceInv
  <1>2. \A t \in Thread : Quiet(mem, RoundedBytes(num_bytes[t]))' <=> Quiet(mem', RoundedBytes(num_bytes'[t]))
    BY DEF Quiet, Stuck
  <1> QED
    BY <1>1, <1>2

\* Thread t gets the block that chunk h is.
LEMMA HoldGot ==
  ASSUME Inv, NEW t \in Thread, NEW n \in Nat, pc[t] # "holding", Got(t, n), MemInv(mem', {}),
         num_bytes' = [num_bytes EXCEPT ![t] = n]
  PROVE  HoldInv'
  <1>1. PICK h \in LiveIn(mem') :
          /\ Took(mem, mem', h, n)
          /\ ptr' = [ptr EXCEPT ![t] = mem'.chunks[h].ptr] /\ pc' = [pc EXCEPT ![t] = "holding"]
    BY DEF Got
  <1>2. HoldInv /\ ThreadInv
    BY DEF Inv
  <1>3. /\ pc'[t] = "holding" /\ ptr'[t] = mem'.chunks[h].ptr /\ num_bytes'[t] = n
        /\ \A u \in Thread \ {t} : pc'[u] = pc[u] /\ ptr'[u] = ptr[u] /\ num_bytes'[u] = num_bytes[u]
    BY <1>1, <1>2 DEF ThreadInv
  <1>4. /\ h \notin UsedIn(mem) /\ UsedIn(mem') = UsedIn(mem) \cup {h}
        /\ \A x \in UsedIn(mem) : /\ mem'.chunks[x].ptr = mem.chunks[x].ptr
                                  /\ mem'.chunks[x].requested_size = mem.chunks[x].requested_size
        /\ mem'.chunks[h].requested_size = n
    BY <1>1 DEF Took
  <1>5. UsedIn(mem') \subseteq LiveIn(mem')
    BY DEF UsedIn
  <1>6. ASSUME NEW u \in Thread \ {t}, pc[u] = "holding"
        PROVE  \E x \in UsedIn(mem) : Holds(mem, ptr[u], num_bytes[u], x) /\ Holds(mem', ptr[u], num_bytes[u], x)
    <2>1. PICK x \in UsedIn(mem) : Holds(mem, ptr[u], num_bytes[u], x)
      BY <1>2, <1>6 DEF HoldInv
    <2>2. Holds(mem', ptr[u], num_bytes[u], x)
      BY <1>4, <2>1 DEF Holds
    <2> QED
      BY <2>1, <2>2
  <1>7. \A u \in Thread : pc'[u] = "holding" => \E x \in UsedIn(mem') : Holds(mem', ptr'[u], num_bytes'[u], x)
    <2> SUFFICES ASSUME NEW u \in Thread, pc'[u] = "holding"
                 PROVE  \E x \in UsedIn(mem') : Holds(mem', ptr'[u], num_bytes'[u], x)
      OBVIOUS
    <2>1. CASE u = t
      <3>1. Holds(mem', ptr'[u], num_bytes'[u], h)
        BY <1>3, <1>4, <2>1 DEF Holds
      <3> QED
        BY <1>4, <3>1
    <2>2. CASE u # t
      BY <1>3, <1>4, <1>6, <2>2
    <2> QED
      BY <2>1, <2>2
  <1>8. ASSUME NEW u \in Thread \ {t}, pc[u] = "holding" PROVE ptr[u] # mem'.chunks[h].ptr
    <2>1. PICK x \in UsedIn(mem) : Holds(mem', ptr[u], num_bytes[u], x)
      BY <1>6, <1>8
    <2>2. x # h /\ x \in LiveIn(mem') /\ mem'.chunks[x].ptr = ptr[u]
      BY <1>4, <1>5, <2>1 DEF Holds
    <2> QED
      BY <2>2, OneAtAddress
  <1>9. \A u, v \in Thread : pc'[u] = "holding" /\ pc'[v] = "holding" /\ u # v => ptr'[u] # ptr'[v]
    <2> SUFFICES ASSUME NEW u \in Thread, NEW v \in Thread, pc'[u] = "holding", pc'[v] = "holding", u # v
                 PROVE  ptr'[u] # ptr'[v]
      OBVIOUS
    <2>1. CASE u = t
      BY <1>3, <1>8, <2>1
    <2>2. CASE v = t
      BY <1>3, <1>8, <2>2
    <2>3. CASE u # t /\ v # t
      BY <1>2, <1>3, <2>3 DEF HoldInv
    <2> QED
      BY <2>1, <2>2, <2>3
  <1>10. \A x \in UsedIn(mem') : \E u \in Thread : pc'[u] = "holding" /\ ptr'[u] = mem'.chunks[x].ptr
    <2> SUFFICES ASSUME NEW x \in UsedIn(mem')
                 PROVE  \E u \in Thread : pc'[u] = "holding" /\ ptr'[u] = mem'.chunks[x].ptr
      OBVIOUS
    <2>1. CASE x = h
      BY <1>3, <2>1
    <2>2. CASE x \in UsedIn(mem)
      <3>1. PICK u \in Thread : pc[u] = "holding" /\ ptr[u] = mem.chunks[x].ptr
        BY <1>2, <2>2 DEF HoldInv
      <3> QED
        BY <1>3, <1>4, <2>2, <3>1
    <2> QED
      BY <1>4, <2>1, <2>2
  <1> QED
    BY <1>7, <1>9, <1>10 DEF HoldInv

\* The blocks and those who hold them stay.
LEMMA HoldSame ==
  ASSUME Inv, UsedSame(mem, mem'),
         \A u \in Thread : pc'[u] = "holding" <=> pc[u] = "holding",
         \A u \in Thread : pc[u] = "holding" => ptr'[u] = ptr[u] /\ num_bytes'[u] = num_bytes[u]
  PROVE  HoldInv'
  <1>1. HoldInv
    BY DEF Inv
  <1>2. /\ UsedIn(mem') = UsedIn(mem)
        /\ \A x \in UsedIn(mem) : /\ mem'.chunks[x].ptr = mem.chunks[x].ptr
                                  /\ mem'.chunks[x].requested_size = mem.chunks[x].requested_size
    BY DEF UsedSame
  <1>3. \A u \in Thread : pc'[u] = "holding" => \E x \in UsedIn(mem') : Holds(mem', ptr'[u], num_bytes'[u], x)
    <2> SUFFICES ASSUME NEW u \in Thread, pc[u] = "holding"
                 PROVE  \E x \in UsedIn(mem') : Holds(mem', ptr'[u], num_bytes'[u], x)
      OBVIOUS
    <2>1. PICK x \in UsedIn(mem) : Holds(mem, ptr[u], num_bytes[u], x)
      BY <1>1 DEF HoldInv
    <2>2. Holds(mem', ptr'[u], num_bytes'[u], x)
      BY <1>2, <2>1 DEF Holds
    <2> QED
      BY <1>2, <2>2
  <1>4. \A u, v \in Thread : pc'[u] = "holding" /\ pc'[v] = "holding" /\ u # v => ptr'[u] # ptr'[v]
    BY <1>1 DEF HoldInv
  <1>5. \A x \in UsedIn(mem') : \E u \in Thread : pc'[u] = "holding" /\ ptr'[u] = mem'.chunks[x].ptr
    <2> SUFFICES ASSUME NEW x \in UsedIn(mem)
                 PROVE  \E u \in Thread : pc'[u] = "holding" /\ ptr'[u] = mem'.chunks[x].ptr
      BY <1>2
    <2>1. PICK u \in Thread : pc[u] = "holding" /\ ptr[u] = mem.chunks[x].ptr
      BY <1>1 DEF HoldInv
    <2> QED
      BY <1>2, <2>1
  <1> QED
    BY <1>3, <1>4, <1>5 DEF HoldInv

\* An attempt, whoever makes it and whatever comes next, keeps the invariant.
LEMMA AttemptInv ==
  ASSUME Inv, NEW t \in Thread, NEW n \in Nat, NEW otherwise \in {"idle", "retry", "failed", "last"},
         otherwise # "idle" => n # 0, pc[t] \notin {"holding", "notify"}, Attempt(t, n, otherwise),
         num_bytes' = [num_bytes EXCEPT ![t] = n], missed' \in [Thread -> BOOLEAN],
         \A u \in Thread \ {t} : missed'[u] = missed[u], physical' = physical
  PROVE  Inv'
  <1>1. /\ MemInv(mem', {}) /\ mem'.ret = nullptr /\ (Got(t, n) \/ Failed(t, n, otherwise))
        /\ \A w \in Nat : Quiet(mem, w) => Quiet(mem', w)
    BY AttemptOK
  <1>2. ThreadInv /\ SleepInv
    BY DEF Inv
  <1>3. /\ pc' = [pc EXCEPT ![t] = pc'[t]] /\ ptr' = [ptr EXCEPT ![t] = ptr'[t]]
        /\ Got(t, n) => pc'[t] = "holding" /\ ptr'[t] \in Int
        /\ Failed(t, n, otherwise) => pc'[t] \in {"spinning", otherwise} /\ ptr'[t] \in Int
    <2>1. CASE Got(t, n)
      <3>1. PICK h \in LiveIn(mem') : /\ ptr' = [ptr EXCEPT ![t] = mem'.chunks[h].ptr]
                                      /\ pc' = [pc EXCEPT ![t] = "holding"]
        BY <2>1 DEF Got
      <3>2. mem'.chunks[h].ptr \in Int
        BY <1>1, Positive
      <3>3. ~Failed(t, n, otherwise)
        BY <1>2, <3>1 DEF Failed, ThreadInv
      <3> QED
        BY <1>2, <3>1, <3>2, <3>3 DEF ThreadInv
    <2>2. CASE Failed(t, n, otherwise)
      <3>1. ~Got(t, n)
        BY <1>2, <2>2 DEF Failed, Got, ThreadInv
      <3> QED
        BY <1>2, <2>2, <3>1 DEF Failed, ThreadInv, nullptr
    <2> QED
      BY <1>1, <2>1, <2>2
  <1>4. \A u \in Thread \ {t} : pc'[u] = pc[u] /\ ptr'[u] = ptr[u] /\ num_bytes'[u] = num_bytes[u]
    BY <1>2, <1>3 DEF ThreadInv
  <1>5. num_bytes'[t] = n /\ num_bytes' \in [Thread -> Nat]
    BY <1>2 DEF ThreadInv
  <1>6. ThreadInv'
    <2>1. pc'[t] \in Place
      BY <1>1, <1>3 DEF Place
    <2>2. pc' \in [Thread -> Place] /\ ptr' \in [Thread -> Int]
      <3>1. ptr'[t] \in Int
        BY <1>1, <1>3
      <3>2. pc' \in [Thread -> Place]
        BY <1>2, <1>3, <2>1 DEF ThreadInv
      <3>3. ptr' \in [Thread -> Int]
        BY <1>2, <1>3, <3>1 DEF ThreadInv
      <3> QED
        BY <3>2, <3>3
    <2>3. \A u \in Thread : pc'[u] \in {"retry", "failed", "waiting", "last"} => num_bytes'[u] # 0
      <3>1. pc'[t] \in {"retry", "failed", "waiting", "last"} => n # 0
        BY <1>1, <1>3
      <3> QED
        BY <1>2, <1>4, <1>5, <3>1 DEF ThreadInv
    <2>4. physical' \in Nat
      BY <1>2 DEF ThreadInv
    <2> QED
      BY <1>5, <2>2, <2>3, <2>4 DEF ThreadInv
  <1>7. HoldInv'
    <2>1. CASE Got(t, n)
      BY <1>1, <2>1, HoldGot
    <2>2. CASE Failed(t, n, otherwise)
      <3>1. UsedSame(mem, mem')
        BY <2>2 DEF Failed
      <3>2. pc'[t] # "holding"
        BY <1>3, <2>2
      <3>3. \A u \in Thread : pc'[u] = "holding" <=> pc[u] = "holding"
        BY <1>4, <3>2
      <3>4. \A u \in Thread : pc[u] = "holding" => ptr'[u] = ptr[u] /\ num_bytes'[u] = num_bytes[u]
        BY <1>4
      <3> QED
        BY <3>1, <3>3, <3>4, HoldSame
    <2> QED
      BY <1>1, <2>1, <2>2
  <1>8. SleepInv'
    <2> SUFFICES ASSUME NEW u \in Thread, pc'[u] \in {"failed", "waiting"}
                 PROVE  missed'[u] \/ (\E v \in Thread : pc'[v] = "notify")
                          \/ Quiet(mem, RoundedBytes(num_bytes[u]))'
      BY DEF SleepInv
    <2>1. CASE u = t
      <3>1. Failed(t, n, otherwise) /\ n # 0
        BY <1>1, <1>3, <2>1
      <3>2. Quiet(mem', RoundedBytes(num_bytes'[u]))
        BY <1>5, <2>1, <3>1 DEF Failed
      <3> QED
        BY <3>2, PrimedFacts
    <2>2. CASE u # t
      <3>1. pc[u] \in {"failed", "waiting"} /\ missed'[u] = missed[u] /\ num_bytes'[u] = num_bytes[u]
        BY <1>4, <2>2
      <3>2. missed[u] \/ (\E v \in Thread : pc[v] = "notify") \/ Quiet(mem, RoundedBytes(num_bytes[u]))
        BY <1>2, <3>1 DEF SleepInv
      <3>3. CASE missed[u]
        BY <3>1, <3>3
      <3>4. CASE \E v \in Thread : pc[v] = "notify"
        <4>1. PICK v \in Thread : pc[v] = "notify"
          BY <3>4
        <4>2. v # t
          BY <4>1
        <4> QED
          BY <1>4, <4>1, <4>2
      <3>5. CASE Quiet(mem, RoundedBytes(num_bytes[u]))
        <4>1. RoundedBytes(num_bytes[u]) \in Nat
          BY <1>2, RoundedFacts DEF ThreadInv
        <4>2. Quiet(mem', RoundedBytes(num_bytes'[u]))
          BY <1>1, <3>1, <3>5, <4>1
        <4> QED
          BY <4>2, PrimedFacts
      <3> QED
        BY <3>2, <3>3, <3>4, <3>5
    <2> QED
      BY <2>1, <2>2
  <1>9. MemInv(mem, {})'
    BY <1>1, PrimedFacts
  <1> QED
    BY <1>1, <1>6, <1>7, <1>8, <1>9 DEF Inv

\* The chunk of the block that a thread holds.
LEMMA HeldFacts ==
  ASSUME Inv, NEW t \in Thread, pc[t] = "holding"
  PROVE  /\ ptr[t] \in DOMAIN mem.handles /\ mem.handles[ptr[t]] \in UsedIn(mem)
         /\ mem.chunks[mem.handles[ptr[t]]].ptr = ptr[t]
         /\ mem.chunks[mem.handles[ptr[t]]].requested_size = num_bytes[t]
  <1>1. PICK h \in UsedIn(mem) : Holds(mem, ptr[t], num_bytes[t], h)
    BY DEF Inv, HoldInv
  <1>2. mem.chunks[h].ptr = ptr[t] /\ mem.chunks[h].requested_size = num_bytes[t]
    BY <1>1 DEF Holds
  <1>3. ptr[t] \in DOMAIN mem.handles /\ mem.handles[ptr[t]] = h
    BY <1>2 DEF UsedIn, LiveIn
  <1> QED
    BY <1>2, <1>3

\* DeallocateRaw.
LEMMA DeallocateInv ==
  ASSUME Inv, NEW t \in Thread, DeallocateRaw(t)
  PROVE  Inv' /\ Freed(mem, mem', mem.handles[ptr[t]])
  <1> DEFINE h == mem.handles[ptr[t]]
  <1>1. /\ pc[t] = "holding" /\ mem' = DeallocateRawInternal(mem, ptr[t])
        /\ ptr' = [ptr EXCEPT ![t] = nullptr] /\ pc' = [pc EXCEPT ![t] = "notify"]
        /\ physical' = physical /\ num_bytes' = num_bytes /\ missed' = missed
    BY DEF DeallocateRaw
  <1>2. ptr[t] \in DOMAIN mem.handles /\ h \in UsedIn(mem) /\ mem.chunks[h].ptr = ptr[t]
    BY <1>1, HeldFacts
  <1>3. MemInv(mem, {}) /\ mem.ret = nullptr /\ ThreadInv /\ HoldInv
    BY DEF Inv
  <1>4. MemInv(mem', {}) /\ Freed(mem, mem', h)
    BY <1>1, <1>2, <1>3, FreeOK
  <1> HIDE DEF h
  <1>5. /\ pc'[t] = "notify" /\ \A u \in Thread \ {t} : pc'[u] = pc[u] /\ ptr'[u] = ptr[u]
        /\ pc' \in [Thread -> Place] /\ ptr' \in [Thread -> Int]
    BY <1>1, <1>3 DEF ThreadInv, Place, nullptr
  <1>6. ThreadInv'
    BY <1>1, <1>3, <1>5 DEF ThreadInv
  <1>7. mem'.ret = nullptr
    BY <1>3, <1>4 DEF Freed
  <1>8. /\ UsedIn(mem') = UsedIn(mem) \ {h}
        /\ \A x \in UsedIn(mem') : /\ mem'.chunks[x].ptr = mem.chunks[x].ptr
                                   /\ mem'.chunks[x].requested_size = mem.chunks[x].requested_size
    BY <1>4 DEF Freed
  <1>9. HoldInv'
    <2>1. \A u \in Thread : pc'[u] = "holding" => \E x \in UsedIn(mem') : Holds(mem', ptr'[u], num_bytes'[u], x)
      <3> SUFFICES ASSUME NEW u \in Thread, pc'[u] = "holding"
                   PROVE  \E x \in UsedIn(mem') : Holds(mem', ptr'[u], num_bytes'[u], x)
        OBVIOUS
      <3>1. u # t /\ pc[u] = "holding" /\ ptr'[u] = ptr[u] /\ ptr[u] # ptr[t]
        BY <1>1, <1>3, <1>5 DEF HoldInv
      <3>2. PICK x \in UsedIn(mem) : Holds(mem, ptr[u], num_bytes[u], x)
        BY <1>3, <3>1 DEF HoldInv
      <3>3. x # h /\ x \in UsedIn(mem')
        BY <1>2, <1>8, <3>1, <3>2 DEF Holds
      <3>4. Holds(mem', ptr'[u], num_bytes'[u], x)
        BY <1>1, <1>8, <3>1, <3>2, <3>3 DEF Holds
      <3> QED
        BY <3>3, <3>4
    <2>2. \A u, v \in Thread : pc'[u] = "holding" /\ pc'[v] = "holding" /\ u # v => ptr'[u] # ptr'[v]
      BY <1>3, <1>5 DEF HoldInv
    <2>3. \A x \in UsedIn(mem') : \E u \in Thread : pc'[u] = "holding" /\ ptr'[u] = mem'.chunks[x].ptr
      <3> SUFFICES ASSUME NEW x \in UsedIn(mem')
                   PROVE  \E u \in Thread : pc'[u] = "holding" /\ ptr'[u] = mem'.chunks[x].ptr
        OBVIOUS
      <3>1. PICK u \in Thread : pc[u] = "holding" /\ ptr[u] = mem.chunks[x].ptr
        BY <1>3, <1>8 DEF HoldInv
      <3>2. u # t
        <4>1. x \in LiveIn(mem) /\ h \in LiveIn(mem) /\ x # h
          BY <1>2, <1>8 DEF UsedIn
        <4> QED
          BY <1>2, <3>1, <4>1, OneAtAddress
      <3> QED
        BY <1>5, <1>8, <3>1, <3>2
    <2> QED
      BY <2>1, <2>2, <2>3 DEF HoldInv
  <1>10. SleepInv'
    BY <1>5 DEF SleepInv
  <1>11. MemInv(mem, {})'
    BY <1>1, <1>4, PrimedFacts
  <1> QED
    BY <1>4, <1>6, <1>7, <1>9, <1>10, <1>11 DEF Inv, h

\* A step that leaves the memory alone: threads that failed or wait still do
\* so, or have missed a notification, or are woken.
LEMMA QuietStep ==
  ASSUME Inv, mem' = mem, physical' = physical, num_bytes' = num_bytes, ptr' = ptr,
         pc' \in [Thread -> Place], missed' \in [Thread -> BOOLEAN],
         \A u \in Thread : pc'[u] = "holding" <=> pc[u] = "holding",
         \A u \in Thread : pc'[u] \in {"retry", "failed", "waiting", "last"} =>
                             pc[u] \in {"retry", "failed", "waiting", "last"},
         SleepInv'
  PROVE  Inv'
  <1>1. MemInv(mem, {}) /\ mem.ret = nullptr /\ ThreadInv
    BY DEF Inv
  <1>2. MemInv(mem, {})' /\ mem'.ret = nullptr
    BY <1>1, PrimedFacts
  <1>3. ThreadInv'
    BY <1>1 DEF ThreadInv
  <1>4. UsedSame(mem, mem')
    BY DEF UsedSame
  <1>5. HoldInv'
    BY <1>4, HoldSame
  <1> QED
    BY <1>2, <1>3, <1>5 DEF Inv

\* Every step keeps the invariant.
LEMMA StepInv ==
  ASSUME Inv, [Next]_vars
  PROVE  Inv'
  <1>1. ThreadInv /\ SleepInv
    BY DEF Inv
  <1>2. ASSUME NEW t \in Thread, NEW n \in Sizes, AllocateRaw(t, n) PROVE Inv'
    <2> DEFINE o == IF n = 0 \/ t \in NoRetry THEN "idle" ELSE "retry"
    <2>1. /\ pc[t] = "idle" /\ Attempt(t, n, o) /\ num_bytes' = [num_bytes EXCEPT ![t] = n]
          /\ missed' = [missed EXCEPT ![t] = FALSE] /\ physical' = physical
      BY <1>2 DEF AllocateRaw
    <2>2. n \in Nat
      BY AllocatorAssumption
    <2>3. o \in {"idle", "retry", "failed", "last"} /\ (o # "idle" => n # 0)
      OBVIOUS
    <2> HIDE DEF o
    <2>4. missed' \in [Thread -> BOOLEAN] /\ \A u \in Thread \ {t} : missed'[u] = missed[u]
      BY <1>1, <2>1 DEF ThreadInv
    <2>5. pc[t] \notin {"holding", "notify"}
      BY <2>1
    <2> QED
      BY <2>1, <2>2, <2>3, <2>4, <2>5, AttemptInv
  <1>3. ASSUME NEW t \in Thread, RetryAttempt(t) PROVE Inv'
    <2> DEFINE o == IF deadline[t] = "passed" THEN "last" ELSE "failed"
    <2>2. /\ pc[t] = "retry" /\ Attempt(t, num_bytes[t], o) /\ num_bytes' = num_bytes
          /\ missed' = [missed EXCEPT ![t] = FALSE] /\ physical' = physical
      BY <1>3 DEF RetryAttempt
    <2>3. o \in {"idle", "retry", "failed", "last"}
      OBVIOUS
    <2> HIDE DEF o
    <2>4. missed' \in [Thread -> BOOLEAN] /\ \A u \in Thread \ {t} : missed'[u] = missed[u]
      BY <1>1, <2>2 DEF ThreadInv
    <2>5. /\ num_bytes[t] \in Nat /\ num_bytes[t] # 0 /\ pc[t] \notin {"holding", "notify"}
          /\ num_bytes' = [num_bytes EXCEPT ![t] = num_bytes[t]]
      BY <1>1, <2>2 DEF ThreadInv
    <2> QED
      BY <2>2, <2>3, <2>4, <2>5, AttemptInv
  <1>4. ASSUME NEW t \in Thread, LastAttempt(t) PROVE Inv'
    <2>1. /\ pc[t] = "last" /\ Attempt(t, num_bytes[t], "idle") /\ num_bytes' = num_bytes
          /\ missed' = missed /\ physical' = physical
      BY <1>4 DEF LastAttempt
    <2>2. missed' \in [Thread -> BOOLEAN] /\ \A u \in Thread \ {t} : missed'[u] = missed[u]
      BY <1>1, <2>1 DEF ThreadInv
    <2>3. /\ num_bytes[t] \in Nat /\ pc[t] \notin {"holding", "notify"}
          /\ num_bytes' = [num_bytes EXCEPT ![t] = num_bytes[t]]
      BY <1>1, <2>1 DEF ThreadInv
    <2> QED
      BY <2>1, <2>2, <2>3, AttemptInv
  <1>5. ASSUME NEW t \in Thread, WaitForMilliseconds(t) PROVE Inv'
    <2>1. /\ pc[t] = "failed" /\ pc' = [pc EXCEPT ![t] = "waiting"] /\ mem' = mem /\ physical' = physical
          /\ num_bytes' = num_bytes /\ ptr' = ptr /\ missed' = missed
      BY <1>5 DEF WaitForMilliseconds
    <2>2. /\ pc' \in [Thread -> Place] /\ missed' \in [Thread -> BOOLEAN] /\ pc'[t] = "waiting"
          /\ \A u \in Thread \ {t} : pc'[u] = pc[u]
      BY <1>1, <2>1 DEF ThreadInv, Place
    <2>3. SleepInv'
      <3> SUFFICES ASSUME NEW u \in Thread, pc'[u] \in {"failed", "waiting"}
                   PROVE  missed'[u] \/ (\E v \in Thread : pc'[v] = "notify")
                            \/ Quiet(mem, RoundedBytes(num_bytes[u]))'
        BY DEF SleepInv
      <3>1. pc[u] \in {"failed", "waiting"}
        BY <2>1, <2>2
      <3>2. missed[u] \/ (\E v \in Thread : pc[v] = "notify") \/ Quiet(mem, RoundedBytes(num_bytes[u]))
        BY <1>1, <3>1 DEF SleepInv
      <3>3. (\E v \in Thread : pc[v] = "notify") => \E v \in Thread : pc'[v] = "notify"
        BY <2>1, <2>2
      <3> QED
        BY <2>1, <3>2, <3>3, PrimedFacts
    <2>4. /\ \A u \in Thread : pc'[u] = "holding" <=> pc[u] = "holding"
          /\ \A u \in Thread : pc'[u] \in {"retry", "failed", "waiting", "last"} =>
                                 pc[u] \in {"retry", "failed", "waiting", "last"}
      BY <2>1, <2>2
    <2> QED
      BY <2>1, <2>2, <2>3, <2>4, QuietStep
  <1>6. ASSUME NEW t \in Thread, Timeout(t) PROVE Inv'
    <2>1. /\ pc[t] = "waiting" /\ pc' = [pc EXCEPT ![t] = "retry"] /\ mem' = mem /\ physical' = physical
          /\ num_bytes' = num_bytes /\ ptr' = ptr /\ missed' = missed
      BY <1>6 DEF Timeout
    <2>2. /\ pc' \in [Thread -> Place] /\ missed' \in [Thread -> BOOLEAN] /\ pc'[t] = "retry"
          /\ \A u \in Thread \ {t} : pc'[u] = pc[u]
      BY <1>1, <2>1 DEF ThreadInv, Place
    <2>3. SleepInv'
      <3> SUFFICES ASSUME NEW u \in Thread, pc'[u] \in {"failed", "waiting"}
                   PROVE  missed'[u] \/ (\E v \in Thread : pc'[v] = "notify")
                            \/ Quiet(mem, RoundedBytes(num_bytes[u]))'
        BY DEF SleepInv
      <3>1. pc[u] \in {"failed", "waiting"}
        BY <2>1, <2>2
      <3>2. missed[u] \/ (\E v \in Thread : pc[v] = "notify") \/ Quiet(mem, RoundedBytes(num_bytes[u]))
        BY <1>1, <3>1 DEF SleepInv
      <3>3. (\E v \in Thread : pc[v] = "notify") => \E v \in Thread : pc'[v] = "notify"
        BY <2>1, <2>2
      <3> QED
        BY <2>1, <3>2, <3>3, PrimedFacts
    <2>4. /\ \A u \in Thread : pc'[u] = "holding" <=> pc[u] = "holding"
          /\ \A u \in Thread : pc'[u] \in {"retry", "failed", "waiting", "last"} =>
                                 pc[u] \in {"retry", "failed", "waiting", "last"}
      BY <2>1, <2>2
    <2> QED
      BY <2>1, <2>2, <2>3, <2>4, QuietStep
  <1>7. ASSUME NEW t \in Thread, NotifyDealloc(t) PROVE Inv'
    <2>1. /\ pc[t] = "notify"
          /\ pc' = [u \in Thread |-> IF u = t THEN "idle" ELSE IF pc[u] = "waiting" THEN "retry" ELSE pc[u]]
          /\ missed' = [u \in Thread |-> missed[u] \/ pc[u] = "failed"]
          /\ mem' = mem /\ physical' = physical /\ num_bytes' = num_bytes /\ ptr' = ptr
      BY <1>7 DEF NotifyDealloc, Woken
    <2>2. pc' \in [Thread -> Place] /\ missed' \in [Thread -> BOOLEAN]
      BY <1>1, <2>1 DEF ThreadInv, Place
    <2>3. SleepInv'
      <3> SUFFICES ASSUME NEW u \in Thread, pc'[u] \in {"failed", "waiting"}
                   PROVE  missed'[u]
        BY DEF SleepInv
      <3>1. pc[u] = "failed"
        BY <2>1
      <3> QED
        BY <2>1, <3>1
    <2>4. /\ \A u \in Thread : pc'[u] = "holding" <=> pc[u] = "holding"
          /\ \A u \in Thread : pc'[u] \in {"retry", "failed", "waiting", "last"} =>
                                 pc[u] \in {"retry", "failed", "waiting", "last"}
      BY <2>1
    <2> QED
      BY <2>1, <2>2, <2>3, <2>4, QuietStep
  <1>8. CASE UNCHANGED vars \/ \E t \in Thread : DeadlinePasses(t)
    <2>1. /\ mem' = mem /\ physical' = physical /\ num_bytes' = num_bytes /\ ptr' = ptr /\ pc' = pc
          /\ missed' = missed
      BY <1>8 DEF vars, DeadlinePasses
    <2>2. SleepInv'
      <3> SUFFICES ASSUME NEW u \in Thread, pc[u] \in {"failed", "waiting"}
                   PROVE  missed[u] \/ (\E v \in Thread : pc[v] = "notify")
                            \/ Quiet(mem, RoundedBytes(num_bytes[u]))'
        BY <2>1 DEF SleepInv
      <3>1. missed[u] \/ (\E v \in Thread : pc[v] = "notify") \/ Quiet(mem, RoundedBytes(num_bytes[u]))
        BY <1>1 DEF SleepInv
      <3> QED
        BY <2>1, <3>1, PrimedFacts
    <2> QED
      BY <1>1, <2>1, <2>2, QuietStep DEF ThreadInv
  <1>9. ASSUME NEW t \in Thread, DeallocateRaw(t) PROVE Inv'
    BY <1>9, DeallocateInv
  <1> QED
    BY <1>2, <1>3, <1>4, <1>5, <1>6, <1>7, <1>8, <1>9 DEF Next, Step

(***************************************************************************)
(* The theorems.                                                           *)
(***************************************************************************)
\* The invariant holds in every state.
LEMMA Invariance == Spec => []Inv
  <1>1. Init => Inv
    BY InitOK
  <1>2. Inv /\ [Next]_vars => Inv'
    BY StepInv
  <1> QED
    BY <1>1, <1>2, PTL DEF Spec

\* The chunks that stand for memory are those that the handles name.
LEMMA LiveFacts ==
  ASSUME Inv
  PROVE  Live = LiveIn(mem) /\ InUse = UsedIn(mem) /\ Live \ InUse = FreeIn(mem)
  <1>1. \A p \in DOMAIN mem.handles : mem.handles[p] \in DOMAIN mem.chunks /\ mem.chunks[mem.handles[p]].ptr = p
    BY DEF Inv, MemInv, Shape
  <1>2. Live = LiveIn(mem)
    BY <1>1 DEF Live, LiveIn
  <1>3. InUse = UsedIn(mem)
    BY <1>2 DEF InUse, UsedIn
  <1> QED
    BY <1>2, <1>3 DEF UsedIn, FreeIn

\* A free chunk large enough is what Quiet denies.
LEMMA FitsFacts ==
  ASSUME Inv, NEW n \in Nat, \A x \in FreeIn(mem) : mem.chunks[x].size < RoundedBytes(n)
  PROVE  ~Fits(n)
  <1>1. \A x \in FreeIn(mem) : mem.chunks[x].size \in Nat
    BY Positive DEF Inv, FreeIn
  <1>2. RoundedBytes(n) \in Nat
    BY RoundedFacts
  <1>3. Live \ InUse = FreeIn(mem)
    BY LiveFacts
  <1> QED
    BY <1>1, <1>2, <1>3 DEF Fits

\* A thread that waits in AllocatorRetry although a free chunk would do for it
\* is about to be notified, or memory was returned between its last attempt and
\* the wait.
THEOREM SleepIsJustified == Spec => []SleepsOnlyIfMissed
  <1>1. Inv => SleepsOnlyIfMissed
    <2> SUFFICES ASSUME Inv, NEW t \in Thread, pc[t] = "waiting", Fits(num_bytes[t])
                 PROVE  missed[t] \/ \E u \in Thread : pc[u] = "notify"
      BY DEF SleepsOnlyIfMissed
    <2>1. missed[t] \/ (\E u \in Thread : pc[u] = "notify") \/ Quiet(mem, RoundedBytes(num_bytes[t]))
      BY DEF Inv, SleepInv
    <2>2. num_bytes[t] \in Nat
      BY DEF Inv, ThreadInv
    <2>3. ~Quiet(mem, RoundedBytes(num_bytes[t]))
      BY <2>2, FitsFacts DEF Quiet
    <2> QED
      BY <2>1, <2>3
  <1> QED
    BY <1>1, Invariance, PTL

\* When the last attempt fails, no free chunk would have done: the search misses
\* none, whatever splits and merges came before.
THEOREM GivingUpIsJustified == Spec => GivesUpOnlyIfFull
  <1> DEFINE A == \A t \in Thread : pc[t] = "last" /\ pc'[t] = "idle" => ~Fits(num_bytes[t])
  <1>1. Inv /\ [Next]_vars => [A]_vars
    <2> SUFFICES ASSUME Inv, Next, NEW t \in Thread, pc[t] = "last", pc'[t] = "idle"
                 PROVE  ~Fits(num_bytes[t])
      OBVIOUS
    <2>1. ThreadInv
      BY DEF Inv
    <2>2. LastAttempt(t)
      <3>1. PICK u \in Thread : \/ \E n \in Sizes : AllocateRaw(u, n)
                                \/ DeallocateRaw(u) \/ Step(u) \/ DeadlinePasses(u)
        BY DEF Next
      <3>2. CASE u # t
        <4>1. ASSUME NEW n, NEW o, Attempt(u, n, o) PROVE pc'[t] = pc[t]
          BY <2>1, <3>2, <4>1 DEF Attempt, Attempted, ThreadInv
        <4>2. ASSUME NEW n \in Sizes, AllocateRaw(u, n) PROVE pc'[t] = pc[t]
          BY <4>1, <4>2 DEF AllocateRaw
        <4>3. ASSUME RetryAttempt(u) PROVE pc'[t] = pc[t]
          BY <4>1, <4>3 DEF RetryAttempt
        <4>4. ASSUME LastAttempt(u) PROVE pc'[t] = pc[t]
          BY <4>1, <4>4 DEF LastAttempt
        <4>5. ASSUME WaitForMilliseconds(u) \/ Timeout(u) \/ DeallocateRaw(u) \/ DeadlinePasses(u)
              PROVE  pc'[t] = pc[t]
          BY <2>1, <3>2, <4>5 DEF WaitForMilliseconds, Timeout, DeallocateRaw, DeadlinePasses, ThreadInv
        <4>6. ASSUME NotifyDealloc(u) PROVE pc'[t] = pc[t]
          BY <3>2, <4>6 DEF NotifyDealloc, Woken
        <4> QED
          BY <3>1, <4>2, <4>3, <4>4, <4>5, <4>6 DEF Step
      <3>3. CASE u = t
        BY <3>1, <3>3 DEF AllocateRaw, DeallocateRaw, Step, RetryAttempt, WaitForMilliseconds, Timeout, NotifyDealloc,
                          DeadlinePasses
      <3> QED
        BY <3>2, <3>3
    <2>3. num_bytes[t] \in Nat /\ num_bytes[t] # 0
      BY <2>1 DEF ThreadInv
    <2>4. Attempt(t, num_bytes[t], "idle")
      BY <2>2 DEF LastAttempt
    <2>5. Got(t, num_bytes[t]) \/ Failed(t, num_bytes[t], "idle")
      BY <2>3, <2>4, AttemptOK
    <2>6. ~Got(t, num_bytes[t])
      BY <2>1 DEF Got, ThreadInv
    <2>7. \A x \in FreeIn(mem) : mem.chunks[x].size < RoundedBytes(num_bytes[t])
      BY <2>3, <2>5, <2>6 DEF Failed
    <2> QED
      BY <2>3, <2>7, FitsFacts
  <1> QED
    BY <1>1, Invariance, PTL DEF Spec, GivesUpOnlyIfFull

\* The list, the bins, the regions and the threads agree on each chunk, none
\* of the CHECKs fails, and the limits are kept, however AllocateRaw and
\* DeallocateRaw split and merge chunks.
THEOREM StructuresAgree == Spec => []ChunksAgree
  <1>1. Inv => ChunksAgree
    <2> SUFFICES ASSUME Inv PROVE ChunksAgree
      OBVIOUS
    <2> DEFINE C == mem.chunks
               L == LiveIn(mem)
    <2>1. /\ Shape(mem) /\ SpaceInv(mem) /\ mem.ok = TRUE /\ ListInv(C, L) /\ RegionInv(C, L, mem.regions)
          /\ BinInv(C, L, mem.bins, {}) /\ JoinInv(C, L, {}) /\ UseInv(C, L, mem.next_allocation_id)
      BY DEF Inv, MemInv, ChunkInv
    <2>2. Live = L /\ InUse = UsedIn(mem) /\ Live \ InUse = FreeIn(mem)
      BY LiveFacts
    <2>3. ChecksHold /\ LimitsKept
      BY <2>1 DEF ChecksHold, LimitsKept, SpaceInv
    <2>4. ChunksTileRegions
      <3> SUFFICES ASSUME NEW h \in L
                   PROVE  /\ mem.handles[C[h].ptr] = h
                          /\ IF C[h].next = kInvalidChunkHandle
                               THEN \E r \in mem.regions : r.ptr <= C[h].ptr /\ C[h].ptr + C[h].size = r.ptr + r.size
                               ELSE C[h].next \in L /\ C[C[h].next].prev = h /\ C[C[h].next].ptr = C[h].ptr + C[h].size
                          /\ IF C[h].prev = kInvalidChunkHandle
                               THEN \E r \in mem.regions : C[h].ptr = r.ptr
                               ELSE C[h].prev \in L /\ C[C[h].prev].next = h
        BY <2>2, Zenon DEF ChunksTileRegions
      <3>1. PICK r \in mem.regions : RegionOf(C, h, r)
        BY <2>1 DEF RegionInv
      <3>2. mem.handles[C[h].ptr] = h
        BY DEF LiveIn
      <3> QED
        BY <2>1, <3>1, <3>2 DEF RegionOf, ListInv, Inside, End
    <2>5. NoAdjacentFree
      <3> SUFFICES ASSUME NEW h \in FreeIn(mem), C[h].next # kInvalidChunkHandle PROVE C[h].next \in UsedIn(mem)
        BY <2>2 DEF NoAdjacentFree
      <3>1. C[h].next \in L
        BY <2>1 DEF ListInv, FreeIn
      <3> QED
        BY <2>1, <3>1 DEF JoinInv, FreeIn, UsedIn
    <2>6. BinsHoldFreeChunks
      <3> SUFFICES ASSUME NEW h \in DOMAIN C, NEW b \in Bin
                   PROVE  /\ (h \in mem.bins[b]) <=> (h \in FreeIn(mem) /\ BinNumForSize(C[h].size) = b)
                          /\ (h \in mem.bins[b]) <=> (C[h].bin_num = b)
        BY <2>2, Zenon DEF BinsHoldFreeChunks, Bin
      <3>1. Binned(C, L, {}, h) <=> h \in FreeIn(mem)
        BY DEF Binned, FreeIn
      <3>2. /\ C[h].bin_num = IF Binned(C, L, {}, h) THEN BinNumForSize(C[h].size) ELSE kInvalidBinNum
            /\ h \in mem.bins[b] <=> Binned(C, L, {}, h) /\ b = BinNumForSize(C[h].size)
        BY <2>1 DEF BinInv
      <3>3. b # kInvalidBinNum
        BY DEF Bin, kInvalidBinNum, kNumBins
      <3> QED
        BY <3>1, <3>2, <3>3
    <2>7. BlocksFit
      <3> SUFFICES ASSUME NEW t \in Thread, pc[t] = "holding"
                   PROVE  LET c == C[mem.handles[ptr[t]]]
                          IN  /\ c.requested_size = num_bytes[t] /\ num_bytes[t] <= c.size
                              /\ c.size < 2 * RoundedBytes(num_bytes[t])
        BY DEF BlocksFit
      <3> DEFINE h == mem.handles[ptr[t]]
      <3>1. h \in UsedIn(mem) /\ C[h].requested_size = num_bytes[t]
        BY HeldFacts
      <3>2. C[h].requested_size <= C[h].size /\ C[h].size < 2 * RoundedBytes(C[h].requested_size)
        BY <2>1, <3>1 DEF UseInv, UsedIn
      <3> QED
        BY <3>1, <3>2
    <2>8. BlocksHeld
      <3>1. HoldInv
        BY DEF Inv
      <3>2. {C[h].ptr : h \in UsedIn(mem)} = {ptr[t] : t \in {u \in Thread : pc[u] = "holding"}}
        BY <3>1 DEF HoldInv, Holds
      <3> QED
        BY <2>2, <3>1, <3>2 DEF BlocksHeld, HoldInv
    <2> QED
      BY <2>3, <2>4, <2>5, <2>6, <2>7, <2>8 DEF ChunksAgree
  <1> QED
    BY <1>1, Invariance, PTL

\* The blocks in use, by the chunks of either state.
BlocksOf(m) == {Block(m, h) : h \in UsedIn(m)}

\* The blocks of the abstract specification, after a step.
LEMMA BlocksAfter ==
  ASSUME Inv'
  PROVE  InUseBlocks' = BlocksOf(mem')
  <1>1. \A p \in DOMAIN mem'.handles :
          mem'.handles[p] \in DOMAIN mem'.chunks /\ mem'.chunks[mem'.handles[p]].ptr = p
    BY DEF Inv, MemInv, Shape
  <1>2. Live' = LiveIn(mem')
    BY <1>1 DEF Live, LiveIn
  <1>3. InUse' = UsedIn(mem')
    BY <1>2 DEF InUse, UsedIn
  <1> QED
    BY <1>3 DEF InUseBlocks, BlocksOf

\* A block that an attempt gets is new, large enough, and apart from the others.
LEMMA GotAllocates ==
  ASSUME Inv, Inv', NEW h \in LiveIn(mem'), NEW n, Took(mem, mem', h, n)
  PROVE  Promise!Allocate
  <1> DEFINE b == Block(mem', h)
             C == mem'.chunks
             id == mem.next_allocation_id
  <1>1. MemInv(mem, {})' /\ MemInv(mem, {})
    BY DEF Inv
  <1>2. /\ h \notin UsedIn(mem) /\ UsedIn(mem') = UsedIn(mem) \cup {h}
        /\ \A x \in UsedIn(mem) :
             /\ C[x].ptr = mem.chunks[x].ptr /\ C[x].size = mem.chunks[x].size
             /\ C[x].requested_size = mem.chunks[x].requested_size
             /\ C[x].allocation_id = mem.chunks[x].allocation_id
        /\ C[h].allocation_id = id /\ mem'.next_allocation_id = id + 1
    BY DEF Took
  <1>3. InUseBlocks = BlocksOf(mem)
    BY LiveFacts DEF InUseBlocks, BlocksOf
  <1>4. InUseBlocks' = BlocksOf(mem')
    BY BlocksAfter
  <1>5. \A x \in UsedIn(mem) : Block(mem', x) = Block(mem, x)
    BY <1>2 DEF Block
  <1>6. InUseBlocks' = InUseBlocks \cup {b}
    BY <1>2, <1>3, <1>4, <1>5 DEF BlocksOf
  <1>7. /\ id \in Nat \ {0} /\ UseInv(mem.chunks, LiveIn(mem), id)
        /\ ApartInv(C, LiveIn(mem')) /\ UseInv(C, LiveIn(mem'), mem'.next_allocation_id)
        /\ C \in [DOMAIN C -> Chunk]
    BY <1>1 DEF MemInv, ChunkInv, Shape
  <1>8. /\ b.ptr = C[h].ptr /\ b.size = C[h].size /\ b.requested = C[h].requested_size /\ b.id = id
        /\ \A x \in UsedIn(mem) : Block(mem, x).id = mem.chunks[x].allocation_id
    BY <1>2 DEF Block
  <1> HIDE DEF b
  <1>9. b \notin InUseBlocks
    <2>1. \A x \in UsedIn(mem) : mem.chunks[x].allocation_id < id
      BY <1>7 DEF UseInv, UsedIn
    <2>2. \A x \in UsedIn(mem) : Block(mem, x) # b
      BY <1>7, <1>8, <2>1
    <2> QED
      BY <1>3, <2>2 DEF BlocksOf
  <1>10. C[h].ptr > 0
    <2>1. Shape(mem') /\ RegionInv(C, LiveIn(mem'), mem'.regions)
      BY <1>1 DEF MemInv, ChunkInv
    <2>2. C[h].ptr \in Int
      BY <1>7 DEF Chunk, LiveIn
    <2>3. PICK r \in mem'.regions : r.ptr <= C[h].ptr
      BY <2>1 DEF RegionInv, RegionOf, Inside
    <2>4. /\ r.ptr \in Int /\ Base - mem'.total_region_allocated_bytes <= r.ptr
          /\ mem'.total_region_allocated_bytes \in Nat /\ mem'.total_region_allocated_bytes <= memory_limit
      BY <1>1 DEF MemInv, SpaceInv
    <2>5. Base \in Int /\ Base > memory_limit /\ memory_limit \in Nat
      BY AllocatorAssumption, RoundedFacts DEF Base, kMinAllocationSize
    <2> QED
      BY <2>2, <2>3, <2>4, <2>5
  <1>11. C[h].requested_size > 0 /\ C[h].size >= C[h].requested_size
    <2>1. in_use(C[h])
      BY <1>2 DEF UsedIn
    <2>2. C[h].size \in Nat /\ C[h].requested_size \in Nat
      BY <1>7 DEF Chunk, LiveIn
    <2> QED
      BY <1>7, <2>1, <2>2 DEF UseInv
  <1>12. GivenIds' = GivenIds \cup {b.id} /\ b.id \notin GivenIds
    BY <1>2, <1>7, <1>8 DEF GivenIds
  <1>13. \A c \in InUseBlocks : ~(b.ptr < c.ptr + c.size /\ c.ptr < b.ptr + b.size)
    <2> SUFFICES ASSUME NEW x \in UsedIn(mem)
                 PROVE  LET c == Block(mem, x) IN ~(b.ptr < c.ptr + c.size /\ c.ptr < b.ptr + b.size)
      BY <1>3 DEF BlocksOf
    <2>1. x # h /\ x \in LiveIn(mem')
      BY <1>2 DEF UsedIn
    <2>2. End(C[h]) <= C[x].ptr \/ End(C[x]) <= C[h].ptr
      BY <1>7, <2>1 DEF ApartInv
    <2>3. Block(mem, x).ptr = C[x].ptr /\ Block(mem, x).size = C[x].size
      BY <1>2 DEF Block
    <2>4. C[x].ptr \in Int /\ C[x].size \in Nat /\ C[h].ptr \in Int /\ C[h].size \in Nat
      BY <1>7, <2>1 DEF Chunk, LiveIn
    <2> QED
      BY <1>8, <2>2, <2>3, <2>4 DEF End
  <1>14. b \in InUseBlocks' \ InUseBlocks
    BY <1>6, <1>9
  <1> QED
    BY <1>6, <1>8, <1>10, <1>11, <1>12, <1>13, <1>14 DEF Promise!Allocate, Promise!Overlap

\* The blocks stay the same if the chunks in use do.
LEMMA SameBlocks ==
  ASSUME Inv, Inv', UsedSame(mem, mem'), mem'.next_allocation_id = mem.next_allocation_id
  PROVE  UNCHANGED <<InUseBlocks, GivenIds>>
  <1>1. InUseBlocks = BlocksOf(mem)
    BY LiveFacts DEF InUseBlocks, BlocksOf
  <1>2. InUseBlocks' = BlocksOf(mem')
    BY BlocksAfter
  <1>3. UsedIn(mem') = UsedIn(mem) /\ \A x \in UsedIn(mem) : Block(mem', x) = Block(mem, x)
    BY DEF UsedSame, Block
  <1>4. BlocksOf(mem') = BlocksOf(mem)
    BY <1>3 DEF BlocksOf
  <1>5. GivenIds' = GivenIds
    BY DEF GivenIds
  <1> QED
    BY <1>1, <1>2, <1>4, <1>5

\* The block that is returned is the only one to go.
LEMMA FreedDeallocates ==
  ASSUME Inv, Inv', NEW h \in UsedIn(mem), Freed(mem, mem', h)
  PROVE  Promise!Deallocate
  <1>1. InUseBlocks = BlocksOf(mem)
    BY LiveFacts DEF InUseBlocks, BlocksOf
  <1>2. InUseBlocks' = BlocksOf(mem')
    BY BlocksAfter
  <1>3. UsedIn(mem') = UsedIn(mem) \ {h} /\ \A x \in UsedIn(mem') : Block(mem', x) = Block(mem, x)
    BY DEF Freed, Block
  <1>4. \A x \in UsedIn(mem) : Block(mem, x) = Block(mem, h) => x = h
    <2> SUFFICES ASSUME NEW x \in UsedIn(mem), Block(mem, x) = Block(mem, h) PROVE x = h
      OBVIOUS
    <2>1. Block(mem, x).ptr = mem.chunks[x].ptr /\ Block(mem, h).ptr = mem.chunks[h].ptr
      BY DEF Block
    <2>2. x \in LiveIn(mem) /\ h \in LiveIn(mem)
      BY DEF UsedIn
    <2> QED
      BY <2>1, <2>2, OneAtAddress
  <1>5. BlocksOf(mem') = BlocksOf(mem) \ {Block(mem, h)} /\ Block(mem, h) \in BlocksOf(mem)
    BY <1>3, <1>4 DEF BlocksOf
  <1>6. GivenIds' = GivenIds
    BY DEF GivenIds, Freed
  <1> QED
    BY <1>1, <1>2, <1>5, <1>6 DEF Promise!Deallocate

\* A block that AllocateRaw hands out overlaps no other that is in use, is large
\* enough and has a new id, and it stays as it is until DeallocateRaw: the
\* allocator implements Blocks.
THEOREM AllocatorImplementsBlocks == Spec => ImplementsBlocks
  <1>1. Init => Promise!Init
    <2> SUFFICES ASSUME Init PROVE Promise!Init
      OBVIOUS
    <2>1. DOMAIN mem.handles = {} /\ mem.next_allocation_id = 1
      BY DEF Init
    <2>2. InUseBlocks = {}
      BY <2>1 DEF InUseBlocks, InUse, Live
    <2>3. GivenIds = {}
      BY <2>1 DEF GivenIds
    <2> QED
      BY <2>2, <2>3 DEF Promise!Init
  <1>2. Inv /\ Inv' /\ [Next]_vars => [Promise!Next]_<<InUseBlocks, GivenIds>>
    <2> SUFFICES ASSUME Inv, Inv', [Next]_vars
                 PROVE  Promise!Allocate \/ Promise!Deallocate \/ UNCHANGED <<InUseBlocks, GivenIds>>
      BY DEF Promise!Next
    <2>1. ASSUME NEW t \in Thread, NEW n \in Nat, NEW o, Attempt(t, n, o)
          PROVE  Promise!Allocate \/ UNCHANGED <<InUseBlocks, GivenIds>>
      <3>1. Got(t, n) \/ Failed(t, n, o)
        BY <2>1, AttemptOK
      <3>2. CASE Got(t, n)
        <4>1. PICK h \in LiveIn(mem') : Took(mem, mem', h, n)
          BY <3>2 DEF Got
        <4> QED
          BY <4>1, GotAllocates
      <3>3. CASE Failed(t, n, o)
        BY <3>3, SameBlocks DEF Failed
      <3> QED
        BY <3>1, <3>2, <3>3
    <2>2. ASSUME mem' = mem PROVE UNCHANGED <<InUseBlocks, GivenIds>>
      <3>1. UsedSame(mem, mem') /\ mem'.next_allocation_id = mem.next_allocation_id
        BY <2>2 DEF UsedSame
      <3> QED
        BY <3>1, SameBlocks
    <2>3. ASSUME NEW t \in Thread, NEW n \in Sizes, AllocateRaw(t, n)
          PROVE  Promise!Allocate \/ UNCHANGED <<InUseBlocks, GivenIds>>
      BY <2>1, <2>3, AllocatorAssumption DEF AllocateRaw
    <2>4. ASSUME NEW t \in Thread, RetryAttempt(t) \/ LastAttempt(t)
          PROVE  Promise!Allocate \/ UNCHANGED <<InUseBlocks, GivenIds>>
      <3>1. num_bytes[t] \in Nat
        BY DEF Inv, ThreadInv
      <3>2. \E o : Attempt(t, num_bytes[t], o)
        BY <2>4 DEF RetryAttempt, LastAttempt
      <3> QED
        BY <2>1, <3>1, <3>2
    <2>5. ASSUME NEW t \in Thread, DeallocateRaw(t) PROVE Promise!Deallocate
      <3>1. pc[t] = "holding"
        BY <2>5 DEF DeallocateRaw
      <3>2. mem.handles[ptr[t]] \in UsedIn(mem)
        BY <3>1, HeldFacts
      <3>3. Freed(mem, mem', mem.handles[ptr[t]])
        BY <2>5, DeallocateInv
      <3> QED
        BY <3>2, <3>3, FreedDeallocates
    <2>6. ASSUME NEW t \in Thread, \/ WaitForMilliseconds(t) \/ Timeout(t) \/ NotifyDealloc(t)
                                   \/ DeadlinePasses(t)
          PROVE  mem' = mem
      BY <2>6 DEF WaitForMilliseconds, Timeout, NotifyDealloc, DeadlinePasses
    <2>7. ASSUME UNCHANGED vars PROVE mem' = mem
      BY <2>7 DEF vars
    <2> QED
      BY <2>2, <2>3, <2>4, <2>5, <2>6, <2>7 DEF Next, Step
  <1> QED
    BY <1>1, <1>2, Invariance, PTL DEF Spec, ImplementsBlocks, Promise!Spec
=============================================================================
