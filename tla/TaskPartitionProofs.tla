-------------------------- MODULE TaskPartitionProofs --------------------------
(***************************************************************************)
(* For every number of elements and of threads, the threads' chunks are a  *)
(* partition of the elements; and what the other proofs need of numbers,   *)
(* running sums and sequences in ascending order.                          *)
(***************************************************************************)
EXTENDS TaskPartition, ResultOrder, FiniteSetTheorems, WellFoundedInduction, TLAPS

(* Division rounds down. *)
LEMMA DivBounds ==
  ASSUME NEW x \in Nat, NEW k \in Nat \ {0}
  PROVE  /\ x \div k \in Nat
         /\ k * (x \div k) <= x
         /\ x < k * (x \div k) + k
  OBVIOUS

(* A chunk has at least one element, and k chunks have room for n. *)
LEMMA CeilDivideBounds ==
  ASSUME NEW n \in Nat, NEW k \in Nat \ {0}
  PROVE  /\ CeilDivide(n, k) \in Nat
         /\ n > 0 => CeilDivide(n, k) >= 1
         /\ n <= k * CeilDivide(n, k)
<1>1. CASE n = 0
  BY <1>1 DEF CeilDivide
<1>2. CASE n > 0
  <2> DEFINE q == (n - 1) \div k
  <2>1. n - 1 \in Nat
    BY <1>2
  <2>2. q \in Nat /\ n - 1 < k * q + k
    BY <2>1, DivBounds
  <2>3. CeilDivide(n, k) = q + 1
    BY <1>2 DEF CeilDivide
  <2> HIDE DEF q
  <2>4. k * (q + 1) = k * q + k
    BY <2>2
  <2> QED
    BY <2>2, <2>3, <2>4
<1> QED
  BY <1>1, <1>2

(* The start of a chunk is a natural number, and chunks are one after another. *)
LEMMA StartPosNext ==
  ASSUME NEW n \in Nat, NEW k \in Nat \ {0}, NEW t \in Nat
  PROVE  /\ StartPos(t, n, k) \in Nat
         /\ StartPos(t + 1, n, k) = StartPos(t, n, k) + CeilDivide(n, k)
<1> DEFINE q == CeilDivide(n, k)
<1>1. q \in Nat
  BY CeilDivideBounds
<1> HIDE DEF q
<1>2. t * q \in Nat /\ (t + 1) * q = t * q + q
  BY <1>1
<1> QED
  BY <1>2 DEF StartPos, q

(* Every element is in the chunk of some thread. *)
THEOREM ChunksCover ==
  ASSUME NEW n \in Nat, NEW k \in Nat \ {0}, NEW e \in 0 .. n - 1
  PROVE  \E t \in 0 .. k - 1 : e \in Chunk(t, n, k)
<1> DEFINE q == CeilDivide(n, k)
           t == e \div q
<1>1. q \in Nat \ {0} /\ n <= k * q
  BY CeilDivideBounds
<1> HIDE DEF q
<1>2. t \in Nat /\ q * t <= e /\ e < q * t + q
  BY <1>1, DivBounds
<1> HIDE DEF t
<1>3. t < k
  <2> SUFFICES ASSUME t >= k PROVE FALSE
    BY <1>2
  <2>1. q * t >= q * k
    BY <1>1, <1>2
  <2>2. q * k = k * q
    BY <1>1
  <2> QED
    BY <2>1, <2>2, <1>1, <1>2
<1>4. StartPos(t, n, k) = q * t
  BY <1>1, <1>2 DEF StartPos, q
<1>5. e \in Chunk(t, n, k)
  BY <1>1, <1>2, <1>4 DEF Chunk, EndPos, Lesser, q
<1> QED
  BY <1>2, <1>3, <1>5

(* No element is in the chunks of two threads. *)
THEOREM ChunksDisjoint ==
  ASSUME NEW n \in Nat, NEW k \in Nat \ {0},
         NEW t \in Nat, NEW u \in Nat, NEW e \in Int,
         e \in Chunk(t, n, k), e \in Chunk(u, n, k)
  PROVE  t = u
<1> DEFINE q == CeilDivide(n, k)
<1>1. q \in Nat
  BY CeilDivideBounds
<1>2. /\ StartPos(t, n, k) <= e /\ e < StartPos(t, n, k) + q
      /\ StartPos(u, n, k) <= e /\ e < StartPos(u, n, k) + q
  <2>1. /\ e \in StartPos(t, n, k) .. (EndPos(t, n, k) - 1)
        /\ e \in StartPos(u, n, k) .. (EndPos(u, n, k) - 1)
    BY DEF Chunk
  <2>2. /\ StartPos(t, n, k) \in Nat
        /\ StartPos(u, n, k) \in Nat
    BY StartPosNext
  <2> HIDE DEF q
  <2>3. /\ EndPos(t, n, k) \in Int /\ EndPos(t, n, k) <= StartPos(t, n, k) + q
        /\ EndPos(u, n, k) \in Int /\ EndPos(u, n, k) <= StartPos(u, n, k) + q
    BY <2>2, <1>1 DEF EndPos, Lesser, q
  <2> QED
    BY <2>1, <2>2, <2>3, <1>1
<1> HIDE DEF q
<1>3. t * q <= e /\ e < t * q + q /\ u * q <= e /\ e < u * q + q
  BY <1>2 DEF StartPos, q
<1>4. ASSUME NEW a \in Nat, NEW b \in Nat, a < b
      PROVE  a * q + q <= b * q
  <2>1. a + 1 <= b
    BY <1>4
  <2>2. (a + 1) * q <= b * q
    BY <2>1, <1>1
  <2> QED
    BY <2>2, <1>1
<1>5. ~(t < u)
  BY <1>1, <1>3, <1>4
<1>6. ~(u < t)
  BY <1>1, <1>3, <1>4
<1> QED
  BY <1>5, <1>6

(* The part of the set that run_task gives to a thread is the thread's chunk, and
   it lies inside the set. *)
LEMMA SliceIsChunk ==
  ASSUME NEW n \in Nat, NEW k \in Nat \ {0}, NEW t \in Nat
  PROVE  /\ StartElement(t, n, k) \in 0 .. n
         /\ NElements(t, n, k) \in 0 .. n
         /\ \A e \in Int : e \in Chunk(t, n, k)
              <=> StartElement(t, n, k) <= e /\ e < StartElement(t, n, k) + NElements(t, n, k)
<1> DEFINE q == CeilDivide(n, k)
           s == StartPos(t, n, k)
<1>1. q \in Nat /\ s \in Nat
  BY CeilDivideBounds, StartPosNext
<1> HIDE DEF q, s
<1>2. StartElement(t, n, k) = Lesser(s, n) /\ NElements(t, n, k) = Lesser(n - Lesser(s, n), q)
  BY DEF StartElement, NElements, q, s
<1>3. Chunk(t, n, k) = s .. (Lesser(s + q, n) - 1)
  BY DEF Chunk, EndPos, q, s
<1> QED
  BY <1>1, <1>2, <1>3 DEF Lesser

(***************************************************************************)
(* Running sums: the places where variable-length parts begin that are     *)
(* laid one behind the other.                                              *)
(***************************************************************************)

(* The natural numbers by their order. *)
Less == {pair \in Nat \X Nat : pair[1] < pair[2]}

(* A set of numbers that is not empty has a least one. *)
LEMMA Least ==
  ASSUME NEW T, T \subseteq Nat, T # {}
  PROVE  \E x \in T : \A y \in T : x <= y
<1>1. IsWellFoundedOn(Less, Nat)
  BY NatLessThanWellFounded, Zenon DEF OpToRel, Less
<1>2. PICK x \in T : \A y \in T : ~(<<y, x>> \in Less)
  BY <1>1, WFMin
<1>3. ASSUME NEW y \in T
      PROVE  x <= y
  <2>1. x \in Nat /\ y \in Nat
    OBVIOUS
  <2>2. ~(y < x)
    BY <1>2, <2>1 DEF Less
  <2> QED
    BY <2>1, <2>2
<1> QED
  BY <1>3

(* sum is a table of the running sums of the first n numbers of a. *)
IsSums(sum, a, n) ==
  /\ sum \in [0 .. n -> Nat]
  /\ sum[0] = 0
  /\ \A c \in 0 .. n - 1 : sum[c + 1] = sum[c] + a[c]

(* There are running sums: were there a number n with none for the first n, the
   ones for the numbers before the least such n could be continued. *)
LEMMA SumsExist ==
  ASSUME NEW n \in Nat, NEW a \in [0 .. n - 1 -> Nat]
  PROVE  \E sum : IsSums(sum, a, n)
<1> DEFINE Has(i) == \E sum : IsSums(sum, a, i)
           T == {i \in 0 .. n : ~ Has(i)}
<1> SUFFICES ASSUME ~ Has(n) PROVE FALSE
  OBVIOUS
<1>1. T \subseteq Nat /\ T # {}
  <2> HIDE DEF Has
  <2>1. n \in 0 .. n
    OBVIOUS
  <2> QED
    BY <2>1
<1>2. PICK x \in T : \A y \in T : x <= y
  BY <1>1, Least
<1>3. x \in 0 .. n /\ ~ \E sum : IsSums(sum, a, x)
  OBVIOUS
<1>4. CASE x = 0
  <2> DEFINE sum == [c \in 0 .. 0 |-> 0]
  <2>1. IsSums(sum, a, 0)
    BY DEF IsSums
  <2> QED
    BY <1>3, <1>4, <2>1
<1>5. CASE x > 0
  <2>1. x - 1 \in 0 .. n /\ x - 1 \notin T
    BY <1>2, <1>3, <1>5
  <2>2. PICK old : IsSums(old, a, x - 1)
    BY <2>1
  <2> HIDE DEF T
  <2> DEFINE sum == [c \in 0 .. x |-> IF c = x THEN old[x - 1] + a[x - 1] ELSE old[c]]
  <2>3. /\ old \in [0 .. x - 1 -> Nat] /\ old[0] = 0 /\ x \in Nat
        /\ \A c \in 0 .. x - 2 : old[c + 1] = old[c] + a[c]
    <3>1. (x - 1) - 1 = x - 2 /\ x \in Nat
      BY <1>3
    <3> QED
      BY <2>2, <3>1 DEF IsSums
  <2>4. a[x - 1] \in Nat
    BY <1>3, <1>5
  <2>5. sum \in [0 .. x -> Nat] /\ sum[0] = 0
    BY <1>5, <2>3, <2>4
  <2>6. ASSUME NEW c \in 0 .. x - 1
        PROVE  sum[c + 1] = sum[c] + a[c]
    <3>1. CASE c = x - 1
      BY <1>5, <2>3, <3>1
    <3>2. CASE c # x - 1
      <4>1. c \in 0 .. x - 2 /\ c # x /\ c + 1 # x /\ c \in 0 .. x /\ c + 1 \in 0 .. x
        BY <2>3, <3>2
      <4> QED
        BY <2>3, <4>1
    <3> QED
      BY <3>1, <3>2
  <2>7. IsSums(sum, a, x)
    <3> HIDE DEF sum
    <3> QED
      BY <2>5, <2>6 DEF IsSums
  <2> QED
    BY <1>3, <2>7
<1> QED
  BY <1>3, <1>4, <1>5

(* The table of the running sums, as the recursive function that computes it. *)
RunningSums(a, n) ==
  LET sum[c \in 0 .. n] == IF c = 0 THEN 0 ELSE sum[c - 1] + a[c - 1]
  IN sum

(* The recursive function RunningSums is the function that SumsExist gives. *)
LEMMA RunningSumsAre ==
  ASSUME NEW n \in Nat, NEW a \in [0 .. n - 1 -> Nat]
  PROVE  IsSums(RunningSums(a, n), a, n)
<1> DEFINE Rec(f) == f = [c \in 0 .. n |-> IF c = 0 THEN 0 ELSE f[c - 1] + a[c - 1]]
           sum == CHOOSE f : Rec(f)
<1>1. PICK s : IsSums(s, a, n)
  BY SumsExist
<1>2. Rec(s)
  <2>1. s \in [0 .. n -> Nat] /\ s[0] = 0
    BY <1>1 DEF IsSums
  <2>2. ASSUME NEW c \in 0 .. n, c # 0
        PROVE  s[c] = s[c - 1] + a[c - 1]
    <3>1. c - 1 \in 0 .. n - 1 /\ (c - 1) + 1 = c
      BY <2>2
    <3> QED
      BY <1>1, <3>1 DEF IsSums
  <2> QED
    BY <2>1, <2>2
<1>3. Rec(sum)
  <2> HIDE DEF Rec
  <2> QED
    BY <1>2, Zenon
<1>4. RunningSums(a, n) = sum
  BY Zenon DEF RunningSums
<1> HIDE DEF sum
<1>5. sum = [c \in 0 .. n |-> IF c = 0 THEN 0 ELSE sum[c - 1] + a[c - 1]]
  BY <1>3
<1>6. sum[0] = 0
  BY <1>5
<1>7. ASSUME NEW c \in 0 .. n - 1
      PROVE  sum[c + 1] = sum[c] + a[c]
  <2>1. c + 1 \in 0 .. n /\ c + 1 # 0 /\ (c + 1) - 1 = c
    OBVIOUS
  <2>2. sum[c + 1] = sum[(c + 1) - 1] + a[(c + 1) - 1]
    BY <1>5, <2>1
  <2> QED
    BY <2>1, <2>2
<1>8. ASSUME NEW c \in 0 .. n
      PROVE  sum[c] \in Nat
  <2> DEFINE T == {i \in 0 .. n : sum[i] \notin Nat}
  <2> SUFFICES ASSUME T # {} PROVE FALSE
    OBVIOUS
  <2>1. T \subseteq Nat
    OBVIOUS
  <2>2. PICK x \in T : \A y \in T : x <= y
    BY <2>1, Least
  <2>3. x \in 0 .. n /\ sum[x] \notin Nat /\ x # 0
    BY <1>6
  <2>4. x - 1 \in 0 .. n - 1 /\ x - 1 \notin T /\ (x - 1) + 1 = x
    BY <2>2, <2>3
  <2>5. sum[x - 1] \in Nat /\ a[x - 1] \in Nat
    BY <2>4
  <2>6. sum[x] = sum[x - 1] + a[x - 1]
    BY <1>7, <2>4
  <2> QED
    BY <2>3, <2>5, <2>6
<1>9. sum \in [0 .. n -> Nat]
  <2>1. DOMAIN sum = 0 .. n /\ sum = [c \in 0 .. n |-> sum[c]]
    BY <1>5
  <2> QED
    BY <1>8, <2>1
<1> QED
  BY <1>4, <1>6, <1>7, <1>9 DEF IsSums

(* Numbers that agree before place i have the same running sums up to there. *)
LEMMA RunningSumsAgree ==
  ASSUME NEW n \in Nat, NEW a \in [0 .. n - 1 -> Nat], NEW b \in [0 .. n - 1 -> Nat],
         NEW i \in 0 .. n, \A c \in 0 .. i - 1 : a[c] = b[c],
         NEW j \in 0 .. i
  PROVE  RunningSums(a, n)[j] = RunningSums(b, n)[j]
<1> DEFINE s == RunningSums(a, n)
           r == RunningSums(b, n)
           T == {x \in 0 .. i : s[x] # r[x]}
<1>1. IsSums(s, a, n) /\ IsSums(r, b, n)
  BY RunningSumsAre
<1> HIDE DEF s, r
<1> SUFFICES ASSUME T # {} PROVE FALSE
  BY DEF s, r
<1>2. T \subseteq Nat
  OBVIOUS
<1>3. PICK x \in T : \A y \in T : x <= y
  BY <1>2, Least
<1>4. x \in 0 .. i /\ s[x] # r[x] /\ x # 0
  BY <1>1 DEF IsSums
<1>5. x - 1 \in 0 .. i - 1 /\ x - 1 \in 0 .. n - 1 /\ x - 1 \notin T /\ (x - 1) + 1 = x
  BY <1>3, <1>4
<1>6. s[x - 1] = r[x - 1] /\ a[x - 1] = b[x - 1]
  BY <1>5
<1>7. s[x] = s[x - 1] + a[x - 1] /\ r[x] = r[x - 1] + b[x - 1]
  BY <1>1, <1>5 DEF IsSums
<1> QED
  BY <1>4, <1>6, <1>7

(* A bounded set of numbers that is not empty has a greatest one. *)
LEMMA Greatest ==
  ASSUME NEW n \in Nat, NEW T, T \subseteq 0 .. n - 1, T # {}
  PROVE  \E x \in T : \A y \in T : y <= x
<1> DEFINE M == {n - x : x \in T}
<1>1. M \subseteq Nat /\ M # {}
  <2>1. \A x \in T : x \in 0 .. n - 1
    OBVIOUS
  <2>2. \A x \in T : n - x \in Nat
    BY <2>1
  <2> QED
    BY <2>2
<1>2. PICK z \in M : \A y \in M : z <= y
  BY <1>1, Least
<1>3. PICK x \in T : z = n - x
  BY <1>2
<1>4. ASSUME NEW y \in T
      PROVE  y <= x
  <2>1. n - y \in M
    OBVIOUS
  <2>2. z <= n - y
    BY <1>2, <2>1
  <2>3. x \in Int /\ y \in Int
    OBVIOUS
  <2> QED
    BY <1>3, <2>2, <2>3
<1> QED
  BY <1>4

(***************************************************************************)
(* Ascending, the order of a result.                                       *)
(***************************************************************************)

(* A sorted order exists: the place of an entry is the number of entries that come
   before it. *)
LEMMA AscendingExists ==
  ASSUME NEW n \in Nat, NEW s \in [1 .. n -> Nat]
  PROVE  \E p \in [1 .. n -> 1 .. n] :
           /\ \A j, k \in 1 .. n : p[j] = p[k] => j = k
           /\ \A j, k \in 1 .. n : j < k => s[p[j]] <= s[p[k]]
<1> DEFINE Before(i) == {j \in 1 .. n : s[j] < s[i] \/ (s[j] = s[i] /\ j <= i)}
           rank == [i \in 1 .. n |-> Cardinality(Before(i))]
<1>1. IsFiniteSet(1 .. n) /\ Cardinality(1 .. n) = n
  BY FS_Interval
<1>2. ASSUME NEW i \in 1 .. n
      PROVE  /\ IsFiniteSet(Before(i)) /\ i \in Before(i) /\ Before(i) # {}
             /\ Cardinality(Before(i)) \in Nat /\ Cardinality(Before(i)) <= n
  <2>1. Before(i) \in SUBSET (1 .. n) /\ i \in Before(i)
    OBVIOUS
  <2> HIDE DEF Before
  <2> QED
    BY <1>1, <2>1, FS_Subset, FS_CardinalityType
<1>3. ASSUME NEW i \in 1 .. n
      PROVE  Cardinality(Before(i)) \in 1 .. n
  <2> HIDE DEF Before
  <2>1. Cardinality(Before(i)) # 0
    BY <1>2, FS_EmptySet
  <2> QED
    BY <1>2, <2>1
<1>4. ASSUME NEW i \in 1 .. n, NEW j \in 1 .. n,
             s[i] < s[j] \/ (s[i] = s[j] /\ i < j)
      PROVE  Cardinality(Before(i)) < Cardinality(Before(j))
  <2>0. s[i] \in Nat /\ s[j] \in Nat /\ \A k \in 1 .. n : s[k] \in Nat
    OBVIOUS
  <2>1. Before(i) \subseteq Before(j)
    BY <1>4, <2>0
  <2>2. j \in Before(j) /\ j \notin Before(i)
    BY <1>4, <2>0
  <2>3. IsFiniteSet(Before(j)) /\ Cardinality(Before(j)) \in Nat /\ Cardinality(Before(i)) \in Nat
    BY <1>2
  <2> HIDE DEF Before
  <2>4. Cardinality(Before(i)) <= Cardinality(Before(j)) /\ Before(i) # Before(j)
    BY <2>1, <2>2, <2>3, FS_Subset
  <2>5. Cardinality(Before(i)) # Cardinality(Before(j))
    BY <2>1, <2>3, <2>4, FS_Subset
  <2> QED
    BY <2>3, <2>4, <2>5
<1>5. rank \in [1 .. n -> 1 .. n]
  BY <1>3
<1>6. ASSUME NEW i \in 1 .. n, NEW j \in 1 .. n, rank[i] <= rank[j]
      PROVE  s[i] <= s[j] /\ (rank[i] = rank[j] => i = j)
  <2>1. s[i] \in Nat /\ s[j] \in Nat
    OBVIOUS
  <2>2. rank[i] = Cardinality(Before(i)) /\ rank[j] = Cardinality(Before(j))
    OBVIOUS
  <2>3. rank[i] \in 1 .. n /\ rank[j] \in 1 .. n
    BY <1>5
  <2> HIDE DEF rank, Before
  <2> QED
    BY <1>4, <1>6, <2>1, <2>2, <2>3
<1> HIDE DEF rank, Before
<1>7. rank \in Injection(1 .. n, 1 .. n)
  <2>1. \A i \in 1 .. n : rank[i] \in Nat
    BY <1>5
  <2> QED
    BY <1>5, <1>6, <2>1, SMTT(30) DEF Injection, IsInjective
<1>8. \A k \in 1 .. n : \E i \in 1 .. n : rank[i] = k
  <2>1. rank \in Surjection(1 .. n, 1 .. n)
    BY <1>1, <1>7, FS_Injection
  <2> QED
    BY <2>1 DEF Surjection
<1> DEFINE p == [k \in 1 .. n |-> CHOOSE i \in 1 .. n : rank[i] = k]
<1>9. \A k \in 1 .. n : p[k] \in 1 .. n /\ rank[p[k]] = k
  BY <1>8
<1>10. p \in [1 .. n -> 1 .. n]
  BY <1>9
<1> HIDE DEF p
<1>11. \A j, k \in 1 .. n : p[j] = p[k] => j = k
  BY <1>9
<1>12. \A j, k \in 1 .. n : j < k => s[p[j]] <= s[p[k]]
  <2> TAKE j, k \in 1 .. n
  <2> HAVE j < k
  <2>1. p[j] \in 1 .. n /\ p[k] \in 1 .. n /\ rank[p[j]] <= rank[p[k]]
    BY <1>9
  <2> QED
    BY <1>6, <2>1
<1> QED
  BY <1>10, <1>11, <1>12

(* What std::sort leaves: the same entries, none of them lost, in ascending order. *)
LEMMA AscendingAs ==
  ASSUME NEW S, S \subseteq Nat, NEW s \in Seq(S)
  PROVE  /\ Ascending(s) \in [1 .. Len(s) -> S]
         /\ \E p \in [1 .. Len(s) -> 1 .. Len(s)] :
              /\ \A j, k \in 1 .. Len(s) : p[j] = p[k] => j = k
              /\ \A k \in 1 .. Len(s) : \E j \in 1 .. Len(s) : p[j] = k
              /\ \A k \in 1 .. Len(s) : Ascending(s)[k] = s[p[k]]
              /\ \A j, k \in 1 .. Len(s) : j < k => s[p[j]] <= s[p[k]]
<1> DEFINE n == Len(s)
           IsOrder(p) == /\ \A j, k \in 1 .. n : p[j] = p[k] => j = k
                         /\ \A j, k \in 1 .. n : j < k => s[p[j]] <= s[p[k]]
           place == CHOOSE p \in [1 .. n -> 1 .. n] : IsOrder(p)
<1>1. n \in Nat /\ DOMAIN s = 1 .. n /\ s \in [1 .. n -> S] /\ s \in [1 .. n -> Nat]
  <2>1. Len(s) \in Nat /\ DOMAIN s = 1 .. Len(s) /\ s \in [1 .. Len(s) -> S]
    OBVIOUS
  <2>2. s \in [1 .. Len(s) -> Nat]
    BY <2>1
  <2> QED
    BY <2>1, <2>2
<1>2. Ascending(s) = [k \in 1 .. n |-> s[place[k]]]
  BY <1>1 DEF Ascending
<1>3. \E p \in [1 .. n -> 1 .. n] : IsOrder(p)
  <2> HIDE DEF n
  <2> QED
    BY <1>1, AscendingExists
<1>4. place \in [1 .. n -> 1 .. n] /\ IsOrder(place)
  BY <1>3
<1> HIDE DEF place
<1>5. place \in Surjection(1 .. n, 1 .. n)
  <2>1. place \in Injection(1 .. n, 1 .. n)
    BY <1>4 DEF Injection, IsInjective
  <2>2. IsFiniteSet(1 .. n)
    BY <1>1, FS_Interval
  <2> QED
    BY <2>1, <2>2, FS_Injection
<1>6. \A k \in 1 .. n : \E j \in 1 .. n : place[j] = k
  BY <1>5 DEF Surjection
<1>7. Ascending(s) \in [1 .. n -> S]
  BY <1>1, <1>2, <1>4
<1> QED
  BY <1>2, <1>4, <1>6, <1>7

(* A result that was sorted is a sequence over the same set. *)
LEMMA AscendingType ==
  ASSUME NEW S, S \subseteq Nat, NEW s \in Seq(S)
  PROVE  Ascending(s) \in Seq(S)
<1>1. Ascending(s) \in [1 .. Len(s) -> S]
  BY AscendingAs
<1>2. Len(s) \in Nat
  OBVIOUS
<1> QED
  BY <1>1, <1>2

(* A function on 1 .. l is a sequence. *)
LEMMA FunctionIsSequence ==
  ASSUME NEW S, NEW l \in Nat, NEW z \in [1 .. l -> S]
  PROVE  z \in Seq(S) /\ Len(z) = l /\ DOMAIN z = 1 .. l
OBVIOUS

(* Sorting a sequence without repetition: the same values, in strictly ascending order. *)
LEMMA AscendingDistinct ==
  ASSUME NEW n \in Nat, NEW m \in Seq(0 .. n - 1),
         \A j, k \in 1 .. Len(m) : m[j] = m[k] => j = k
  PROVE  /\ Ascending(m) \in Seq(0 .. n - 1) /\ Len(Ascending(m)) = Len(m)
         /\ DOMAIN Ascending(m) = 1 .. Len(m)
         /\ {Ascending(m)[k] : k \in 1 .. Len(m)} = {m[k] : k \in 1 .. Len(m)}
         /\ \A j, k \in 1 .. Len(m) : j < k => Ascending(m)[j] < Ascending(m)[k]
<1> DEFINE S == 0 .. n - 1
<1>1. S \subseteq Nat /\ m \in Seq(S)
  OBVIOUS
<1> HIDE DEF S
<1>2. /\ Ascending(m) \in [1 .. Len(m) -> S]
      /\ \E p \in [1 .. Len(m) -> 1 .. Len(m)] :
           /\ \A j, k \in 1 .. Len(m) : p[j] = p[k] => j = k
           /\ \A k \in 1 .. Len(m) : \E j \in 1 .. Len(m) : p[j] = k
           /\ \A k \in 1 .. Len(m) : Ascending(m)[k] = m[p[k]]
           /\ \A j, k \in 1 .. Len(m) : j < k => m[p[j]] <= m[p[k]]
  BY <1>1, AscendingAs
<1>3. PICK t \in [1 .. Len(m) -> 1 .. Len(m)] :
        /\ \A j, k \in 1 .. Len(m) : t[j] = t[k] => j = k
        /\ \A k \in 1 .. Len(m) : \E j \in 1 .. Len(m) : t[j] = k
        /\ \A k \in 1 .. Len(m) : Ascending(m)[k] = m[t[k]]
        /\ \A j, k \in 1 .. Len(m) : j < k => m[t[j]] <= m[t[k]]
  BY <1>2
<1>4. Len(m) \in Nat /\ \A k \in 1 .. Len(m) : m[k] \in S
  BY <1>1
<1>5. Ascending(m) \in Seq(S) /\ Len(Ascending(m)) = Len(m) /\ DOMAIN Ascending(m) = 1 .. Len(m)
  <2>1. Len(m) \in Nat /\ Ascending(m) \in [1 .. Len(m) -> S]
    BY <1>2, <1>4
  <2> QED
    BY <2>1, FunctionIsSequence
<1>6. \A k \in 1 .. Len(m) : t[k] \in 1 .. Len(m)
  OBVIOUS
<1>7. {Ascending(m)[k] : k \in 1 .. Len(m)} = {m[k] : k \in 1 .. Len(m)}
  <2>1. ASSUME NEW k \in 1 .. Len(m)
        PROVE  \E l \in 1 .. Len(m) : Ascending(m)[k] = m[l]
    BY <1>3, <1>6
  <2>2. ASSUME NEW l \in 1 .. Len(m)
        PROVE  \E k \in 1 .. Len(m) : m[l] = Ascending(m)[k]
    <3>1. PICK k \in 1 .. Len(m) : t[k] = l
      BY <1>3
    <3> QED
      BY <1>3, <3>1
  <2>3. {Ascending(m)[k] : k \in 1 .. Len(m)} \subseteq {m[k] : k \in 1 .. Len(m)}
    <3>1. ASSUME NEW x \in {Ascending(m)[k] : k \in 1 .. Len(m)}
          PROVE  x \in {m[k] : k \in 1 .. Len(m)}
      <4>1. PICK k \in 1 .. Len(m) : x = Ascending(m)[k]
        OBVIOUS
      <4> QED
        BY <2>1, <4>1
    <3> QED
      BY <3>1
  <2>4. {m[k] : k \in 1 .. Len(m)} \subseteq {Ascending(m)[k] : k \in 1 .. Len(m)}
    <3>1. ASSUME NEW x \in {m[k] : k \in 1 .. Len(m)}
          PROVE  x \in {Ascending(m)[k] : k \in 1 .. Len(m)}
      <4>1. PICK k \in 1 .. Len(m) : x = m[k]
        OBVIOUS
      <4> QED
        BY <2>2, <4>1
    <3> QED
      BY <3>1
  <2> QED
    BY <2>3, <2>4
<1>8. ASSUME NEW j \in 1 .. Len(m), NEW k \in 1 .. Len(m), j < k
      PROVE  Ascending(m)[j] < Ascending(m)[k]
  <2>1. j # k
    BY <1>4, <1>8
  <2>2. t[j] # t[k] /\ t[j] \in 1 .. Len(m) /\ t[k] \in 1 .. Len(m)
    BY <1>3, <1>6, <2>1
  <2>3. m[t[j]] # m[t[k]] /\ m[t[j]] \in S /\ m[t[k]] \in S
    BY <1>4, <2>2
  <2>4. m[t[j]] <= m[t[k]] /\ Ascending(m)[j] = m[t[j]] /\ Ascending(m)[k] = m[t[k]]
    BY <1>3, <1>8
  <2> QED
    BY <2>3, <2>4 DEF S
<1> QED
  BY <1>5, <1>7, <1>8 DEF S

(* The remainder is the only number below w that differs from x by a multiple of w. *)
LEMMA Remainder ==
  ASSUME NEW x \in Int, NEW w \in Nat \ {0}
  PROVE  /\ x \div w \in Int /\ x % w \in 0 .. w - 1
         /\ x = w * (x \div w) + (x % w)
<1>1. x \div w \in Int
  OBVIOUS
<1>2. x % w \in 0 .. w - 1
  OBVIOUS
<1>3. x = w * (x \div w) + (x % w)
  OBVIOUS
<1> QED
  BY <1>1, <1>2, <1>3, Zenon

(* A number below w is its own remainder, whatever multiple of w is added. *)
LEMMA OneRemainder ==
  ASSUME NEW w \in Nat \ {0}, NEW q \in Int, NEW r \in 0 .. w - 1
  PROVE  (w * q + r) % w = r
<1> DEFINE x == w * q + r
           a == x \div w
           b == x % w
<1>1. x \in Int
  OBVIOUS
<1>2. a \in Int /\ b \in 0 .. w - 1 /\ x = w * a + b
  <2> HIDE DEF x
  <2> QED
    BY <1>1, Remainder
<1>3. x = w * q + r
  OBVIOUS
<1> HIDE DEF x, a, b
<1>4. ASSUME a > q PROVE FALSE
  <2>1. w * a >= w * (q + 1)
    BY <1>2, <1>4
  <2>2. w * (q + 1) = w * q + w
    OBVIOUS
  <2>3. w * a \in Int /\ w * q \in Int
    BY <1>2
  <2> QED
    BY <1>2, <1>3, <2>1, <2>2, <2>3
<1>5. ASSUME a < q PROVE FALSE
  <2>1. w * q >= w * (a + 1)
    BY <1>2, <1>5
  <2>2. w * (a + 1) = w * a + w
    BY <1>2
  <2>3. w * a \in Int /\ w * q \in Int
    BY <1>2
  <2> QED
    BY <1>2, <1>3, <2>1, <2>2, <2>3
<1>6. a = q
  BY <1>2, <1>4, <1>5
<1>7. w * a \in Int
  BY <1>2
<1>8. b = r
  BY <1>2, <1>3, <1>6, <1>7
<1> QED
  BY <1>8 DEF x, b

(* Quotient and remainder are the only ones. *)
LEMMA OneQuotient ==
  ASSUME NEW w \in Nat \ {0}, NEW q \in Int, NEW r \in 0 .. w - 1
  PROVE  (w * q + r) \div w = q /\ (w * q + r) % w = r
<1> DEFINE x == w * q + r
           a == x \div w
           b == x % w
<1>1. x \in Int
  OBVIOUS
<1>2. a \in Int /\ b \in 0 .. w - 1 /\ x = w * a + b
  <2> HIDE DEF x
  <2> QED
    BY <1>1, Remainder
<1>3. b = r
  BY OneRemainder
<1>4. x = w * q + r
  OBVIOUS
<1> HIDE DEF x, a, b
<1>5. w * a = w * q
  <2>1. w * a \in Int /\ w * q \in Int
    BY <1>2
  <2> QED
    BY <1>2, <1>3, <1>4, <2>1
<1>6. a = q
  BY <1>2, <1>5
<1> QED
  BY <1>3, <1>6 DEF a, b, x

(* power is a table of the first powers of two. *)
IsPowers(power, n) ==
  /\ power \in [0 .. n -> Nat \ {0}]
  /\ power[0] = 1
  /\ \A c \in 0 .. n - 1 : power[c + 1] = 2 * power[c]

(* There is such a table: the one before the first that is missing could be continued. *)
LEMMA PowersExist ==
  ASSUME NEW n \in Nat
  PROVE  \E power : IsPowers(power, n)
<1> DEFINE Has(i) == \E power : IsPowers(power, i)
           T == {i \in 0 .. n : ~ Has(i)}
<1> SUFFICES ASSUME ~ Has(n) PROVE FALSE
  OBVIOUS
<1>1. T \subseteq Nat /\ T # {}
  <2> HIDE DEF Has
  <2>1. n \in 0 .. n
    OBVIOUS
  <2> QED
    BY <2>1
<1>2. PICK x \in T : \A y \in T : x <= y
  BY <1>1, Least
<1>3. x \in 0 .. n /\ ~ \E power : IsPowers(power, x)
  OBVIOUS
<1>4. CASE x = 0
  <2> DEFINE power == [c \in 0 .. 0 |-> 1]
  <2>1. IsPowers(power, 0)
    BY DEF IsPowers
  <2> QED
    BY <1>3, <1>4, <2>1
<1>5. CASE x > 0
  <2>1. x - 1 \in 0 .. n /\ x - 1 \notin T
    BY <1>2, <1>3, <1>5
  <2>2. PICK old : IsPowers(old, x - 1)
    BY <2>1
  <2> HIDE DEF T
  <2> DEFINE power == [c \in 0 .. x |-> IF c = x THEN 2 * old[x - 1] ELSE old[c]]
  <2>3. /\ old \in [0 .. x - 1 -> Nat \ {0}] /\ old[0] = 1 /\ x \in Nat
        /\ \A c \in 0 .. x - 2 : old[c + 1] = 2 * old[c]
    <3>1. (x - 1) - 1 = x - 2 /\ x \in Nat
      BY <1>3
    <3> QED
      BY <2>2, <3>1 DEF IsPowers
  <2>4. old[x - 1] \in Nat \ {0}
    BY <1>5, <2>3
  <2>5. power \in [0 .. x -> Nat \ {0}] /\ power[0] = 1
    BY <1>5, <2>3, <2>4
  <2>6. ASSUME NEW c \in 0 .. x - 1
        PROVE  power[c + 1] = 2 * power[c]
    <3>1. CASE c = x - 1
      BY <1>5, <2>3, <3>1
    <3>2. CASE c # x - 1
      <4>1. c \in 0 .. x - 2 /\ c # x /\ c + 1 # x /\ c \in 0 .. x /\ c + 1 \in 0 .. x
        BY <2>3, <3>2
      <4> QED
        BY <2>3, <4>1
    <3> QED
      BY <3>1, <3>2
  <2>7. IsPowers(power, x)
    <3> HIDE DEF power
    <3> QED
      BY <2>5, <2>6 DEF IsPowers
  <2> QED
    BY <1>3, <2>7
<1> QED
  BY <1>3, <1>4, <1>5

(* Power takes the last entry of such a table. *)
LEMMA PowerTable ==
  ASSUME NEW n \in Nat
  PROVE  \E power : IsPowers(power, n) /\ Power(n) = power[n]
<1> DEFINE Rec(f) == f = [k \in 0 .. n |-> IF k = 0 THEN 1 ELSE 2 * f[k - 1]]
           power == CHOOSE f : Rec(f)
<1>1. PICK s : IsPowers(s, n)
  BY PowersExist
<1>2. Rec(s)
  <2>1. s \in [0 .. n -> Nat \ {0}] /\ s[0] = 1
    BY <1>1 DEF IsPowers
  <2>2. ASSUME NEW c \in 0 .. n, c # 0
        PROVE  s[c] = 2 * s[c - 1]
    <3>1. c - 1 \in 0 .. n - 1 /\ (c - 1) + 1 = c
      BY <2>2
    <3> QED
      BY <1>1, <3>1 DEF IsPowers
  <2> QED
    BY <2>1, <2>2
<1>3. Rec(power)
  <2> HIDE DEF Rec
  <2> QED
    BY <1>2, Zenon
<1>4. Power(n) = power[n]
  BY Zenon DEF Power
<1> HIDE DEF power
<1>5. power = [k \in 0 .. n |-> IF k = 0 THEN 1 ELSE 2 * power[k - 1]]
  BY <1>3
<1>6. power[0] = 1
  BY <1>5
<1>7. ASSUME NEW c \in 0 .. n - 1
      PROVE  power[c + 1] = 2 * power[c]
  <2>1. c + 1 \in 0 .. n /\ c + 1 # 0 /\ (c + 1) - 1 = c
    OBVIOUS
  <2>2. power[c + 1] = 2 * power[(c + 1) - 1]
    BY <1>5, <2>1
  <2> QED
    BY <2>1, <2>2
<1>8. ASSUME NEW c \in 0 .. n
      PROVE  power[c] \in Nat \ {0}
  <2> DEFINE T == {i \in 0 .. n : power[i] \notin Nat \ {0}}
  <2> SUFFICES ASSUME T # {} PROVE FALSE
    OBVIOUS
  <2>1. T \subseteq Nat
    OBVIOUS
  <2>2. PICK x \in T : \A y \in T : x <= y
    BY <2>1, Least
  <2>3. x \in 0 .. n /\ power[x] \notin Nat \ {0} /\ x # 0
    BY <1>6
  <2>4. x - 1 \in 0 .. n - 1 /\ x - 1 \notin T /\ (x - 1) + 1 = x
    BY <2>2, <2>3
  <2>5. power[x - 1] \in Nat \ {0}
    BY <2>4
  <2>6. power[x] = 2 * power[x - 1]
    BY <1>7, <2>4
  <2> QED
    BY <2>3, <2>5, <2>6
<1>9. IsPowers(power, n)
  <2>1. power \in [0 .. n -> Nat \ {0}]
    BY <1>5, <1>8
  <2> QED
    BY <2>1, <1>6, <1>7 DEF IsPowers
<1> QED
  BY <1>4, <1>9

(* Two tables agree as far as both go: else they differ at a first place. *)
LEMMA PowersAgree ==
  ASSUME NEW m \in Nat, NEW n \in Nat, m <= n,
         NEW f, IsPowers(f, m), NEW g, IsPowers(g, n)
  PROVE  f[m] = g[m]
<1> DEFINE T == {i \in 0 .. m : f[i] # g[i]}
<1> SUFFICES ASSUME T # {} PROVE FALSE
  OBVIOUS
<1>1. T \subseteq Nat
  OBVIOUS
<1>2. PICK x \in T : \A y \in T : x <= y
  BY <1>1, Least
<1>3. f[0] = 1 /\ g[0] = 1
  BY DEF IsPowers
<1>4. x \in 0 .. m /\ f[x] # g[x] /\ x # 0
  BY <1>3
<1>5. x - 1 \in 0 .. m - 1 /\ x - 1 \in 0 .. n - 1 /\ x - 1 \notin T /\ (x - 1) + 1 = x
  BY <1>2, <1>4
<1>6. f[x - 1] = g[x - 1]
  BY <1>5
<1>7. f[(x - 1) + 1] = 2 * f[x - 1] /\ g[(x - 1) + 1] = 2 * g[x - 1]
  BY <1>5 DEF IsPowers
<1> QED
  BY <1>4, <1>5, <1>6, <1>7

(* A shift multiplies and divides by a number, which one more bit doubles. *)
LEMMA PowerPositive ==
  ASSUME NEW n \in Nat
  PROVE  Power(n) \in Nat \ {0}
<1>1. PICK power : IsPowers(power, n) /\ Power(n) = power[n]
  BY PowerTable
<1> QED
  BY <1>1 DEF IsPowers

LEMMA PowerZero == Power(0) = 1
<1>1. PICK power : IsPowers(power, 0) /\ Power(0) = power[0]
  BY PowerTable
<1> QED
  BY <1>1 DEF IsPowers

LEMMA PowerNext ==
  ASSUME NEW n \in Nat
  PROVE  Power(n + 1) = 2 * Power(n)
<1>1. PICK f : IsPowers(f, n) /\ Power(n) = f[n]
  BY PowerTable
<1>2. PICK g : IsPowers(g, n + 1) /\ Power(n + 1) = g[n + 1]
  BY PowerTable
<1>3. f[n] = g[n]
  BY <1>1, <1>2, PowersAgree
<1>4. n \in 0 .. (n + 1) - 1
  OBVIOUS
<1>5. g[n + 1] = 2 * g[n]
  BY <1>2, <1>4 DEF IsPowers
<1> QED
  BY <1>1, <1>2, <1>3, <1>5

(* Shifts add up. *)
LEMMA PowerSum ==
  ASSUME NEW a \in Nat, NEW b \in Nat
  PROVE  Power(a + b) = Power(a) * Power(b)
<1> DEFINE T == {i \in 0 .. b : Power(a + i) # Power(a) * Power(i)}
<1> SUFFICES ASSUME T # {} PROVE FALSE
  OBVIOUS
<1>1. T \subseteq Nat
  OBVIOUS
<1>2. PICK x \in T : \A y \in T : x <= y
  BY <1>1, Least
<1>3. Power(a) \in Nat
  BY PowerPositive
<1>4. x # 0
  <2> SUFFICES ASSUME x = 0 PROVE FALSE
    OBVIOUS
  <2>1. a + x = a /\ Power(x) = 1
    BY PowerZero
  <2>2. Power(a + x) # Power(a) * Power(x)
    OBVIOUS
  <2> QED
    BY <1>3, <2>1, <2>2
<1>5. x \in Nat /\ x - 1 \in 0 .. b /\ x - 1 \notin T /\ (x - 1) + 1 = x /\ (a + (x - 1)) + 1 = a + x
  BY <1>2, <1>4
<1>6. Power(a + (x - 1)) = Power(a) * Power(x - 1)
  BY <1>5
<1>7. Power(x) = 2 * Power(x - 1) /\ Power(x - 1) \in Nat
  BY <1>5, PowerNext, PowerPositive
<1>8. Power(a + x) = 2 * Power(a + (x - 1))
  <2>1. a + (x - 1) \in Nat
    BY <1>5
  <2> QED
    BY <1>5, <2>1, PowerNext
<1>9. Power(a + x) = Power(a) * Power(x)
  <2> DEFINE p == Power(a)
             q == Power(x - 1)
  <2>1. p \in Nat /\ q \in Nat
    BY <1>3, <1>7
  <2>2. Power(a + x) = 2 * (p * q) /\ Power(x) = 2 * q
    BY <1>6, <1>7, <1>8
  <2> HIDE DEF p, q
  <2>3. 2 * (p * q) = p * (2 * q)
    BY <2>1
  <2> QED
    BY <2>2, <2>3 DEF p
<1> QED
  BY <1>9

(* They grow, and faster than the number of bits. *)
LEMMA PowerGrows ==
  ASSUME NEW a \in Nat, NEW b \in Nat, a < b
  PROVE  Power(a) < Power(b) /\ 2 * Power(a) <= Power(b)
<1> DEFINE c == b - a - 1
           p == Power(a)
           q == Power(c)
<1>1. c \in Nat /\ b = (a + c) + 1
  OBVIOUS
<1>2. Power(b) = 2 * Power(a + c)
  <2>1. a + c \in Nat
    BY <1>1
  <2> QED
    BY <1>1, <2>1, PowerNext
<1>3. Power(a + c) = p * q
  BY <1>1, PowerSum
<1>4. p \in Nat \ {0} /\ q \in Nat \ {0}
  BY <1>1, PowerPositive
<1> HIDE DEF p, q
<1>5. p * q >= p
  BY <1>4
<1>6. p * q \in Nat
  BY <1>4
<1> QED
  BY <1>2, <1>3, <1>4, <1>5, <1>6 DEF p

LEMMA PowerAbove ==
  ASSUME NEW n \in Nat
  PROVE  n < Power(n)
<1> DEFINE T == {i \in 0 .. n : ~(i < Power(i))}
<1> SUFFICES ASSUME T # {} PROVE FALSE
  OBVIOUS
<1>1. T \subseteq Nat
  OBVIOUS
<1>2. PICK x \in T : \A y \in T : x <= y
  BY <1>1, Least
<1>3. x # 0
  BY PowerZero
<1>4. x \in Nat /\ x - 1 \in 0 .. n /\ x - 1 \notin T /\ (x - 1) + 1 = x
  BY <1>2, <1>3
<1>5. x - 1 < Power(x - 1)
  BY <1>4
<1>6. Power(x) = 2 * Power(x - 1) /\ Power(x - 1) \in Nat
  BY <1>4, PowerNext, PowerPositive
<1> QED
  BY <1>4, <1>5, <1>6

(* The roundings of a logarithm are numbers. *)
LEMMA LogTypes ==
  ASSUME NEW n \in Nat
  PROVE  ceil_log2(n) \in Nat /\ floor_log2(n) \in Nat
<1> DEFINE m == Lesser(n, 30)
           P == {k \in 0 .. m : Power(k) < n}
           Q == {k \in 1 .. m : Power(k) <= n}
<1>1. IsFiniteSet(0 .. m) /\ IsFiniteSet(1 .. m)
  <2>1. 0 \in Int /\ 1 \in Int /\ m \in Int
    BY DEF Lesser
  <2> QED
    BY <2>1, FS_Interval
<1>2. P \subseteq 0 .. m /\ Q \subseteq 1 .. m
  OBVIOUS
<1>3. Cardinality(P) \in Nat /\ Cardinality(Q) \in Nat
  <2> HIDE DEF m, P, Q
  <2> QED
    BY <1>1, <1>2, FS_Subset, FS_CardinalityType
<1> QED
  BY <1>3 DEF ceil_log2, floor_log2

(* Both logarithms of a power of two are the number of its bits. *)
LEMMA LogOfPower ==
  ASSUME NEW n \in 1 .. 30
  PROVE  ceil_log2(Power(n)) = n /\ floor_log2(Power(n)) = n
<1> DEFINE m == Lesser(Power(n), 30)
           P == {k \in 0 .. m : Power(k) < Power(n)}
           Q == {k \in 1 .. m : Power(k) <= Power(n)}
<1>1. Power(n) \in Nat /\ n < Power(n) /\ Power(n) # 1
  <2>1. n \in Nat
    OBVIOUS
  <2> QED
    BY <2>1, PowerPositive, PowerAbove
<1>2. m \in Nat /\ n <= m
  BY <1>1 DEF Lesser
<1>3. ASSUME NEW k \in 0 .. m
      PROVE  /\ Power(k) < Power(n) <=> k < n
             /\ Power(k) <= Power(n) <=> k <= n
  <2>1. k \in Nat /\ n \in Nat /\ Power(k) \in Nat
    BY <1>2, PowerPositive
  <2>2. CASE k < n
    BY <2>1, <2>2, <1>1, PowerGrows
  <2>3. CASE k = n
    BY <2>3, <1>1
  <2>4. CASE k > n
    <3>1. Power(n) < Power(k)
      BY <2>1, <2>4, PowerGrows
    <3> QED
      BY <2>1, <2>4, <3>1, <1>1
  <2> QED
    BY <2>1, <2>2, <2>3, <2>4
<1>4. P = 0 .. n - 1 /\ Q = 1 .. n
  <2> HIDE DEF m
  <2>1. \A k : k \in P <=> k \in 0 .. n - 1
    BY <1>2, <1>3
  <2>2. \A k : k \in Q <=> k \in 1 .. n
    <3>1. \A k : k \in 1 .. m => k \in 0 .. m
      BY <1>2
    <3> QED
      BY <1>2, <1>3, <3>1
  <2> QED
    BY <2>1, <2>2
<1>5. Cardinality(0 .. n - 1) = n /\ Cardinality(1 .. n) = n
  <2>1. 0 \in Int /\ 1 \in Int /\ n \in Int /\ n - 1 \in Int /\ ~(0 > n - 1) /\ ~(1 > n) /\ (n - 1) - 0 + 1 = n /\ n - 1 + 1 = n
    OBVIOUS
  <2> QED
    BY <2>1, FS_Interval
<1>6. ceil_log2(Power(n)) = Cardinality(P) /\ floor_log2(Power(n)) = Cardinality(Q)
  BY <1>1, Zenon DEF ceil_log2, floor_log2
<1> QED
  BY <1>4, <1>5, <1>6

================================================================================
