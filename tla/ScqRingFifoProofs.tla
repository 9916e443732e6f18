-------------------------- MODULE ScqRingFifoProofs --------------------------
(***************************************************************************)
(* ScqRing implements IndexQueue, for any threads, capacity and            *)
(* interleaving with at most Half + 1 dequeues at a time: CallInv (module  *)
(* ScqRingFifoInv) is inductive, every initial state shows an initial      *)
(* state of IndexQueue and every step a step of it or nothing.             *)
(***************************************************************************)
EXTENDS ScqRingFifoInv, ScqRingReachProofs, SequenceTheorems

-----------------------------------------------------------------------------
(* A finite set of tickets in order.                                       *)

Below(K, y) == {x \in K : x < y}

\* Ranks grow with the tickets.
LEMMA RankOrder ==
  ASSUME NEW K \in SUBSET Nat, IsFiniteSet(K)
  PROVE  /\ Cardinality(K) \in Nat
         /\ \A y \in Nat : Rank(K, y) \in 0 .. Cardinality(K)
         /\ \A y \in K : Rank(K, y) < Cardinality(K)
         /\ \A y \in K, z \in Nat : y < z => Rank(K, y) < Rank(K, z)
  <1>0. Cardinality(K) \in Nat
    BY FS_CardinalityType
  <1>1. ASSUME NEW y \in Nat
        PROVE  /\ IsFiniteSet(Below(K, y)) /\ Rank(K, y) = Cardinality(Below(K, y))
               /\ Rank(K, y) \in Nat /\ Rank(K, y) <= Cardinality(K)
    <2>1. Below(K, y) \in SUBSET K
      BY DEF Below
    <2>2. IsFiniteSet(Below(K, y)) /\ Cardinality(Below(K, y)) <= Cardinality(K)
      BY <2>1, FS_Subset
    <2> QED BY <2>2, FS_CardinalityType DEF Rank, Below
  <1>2. ASSUME NEW y \in K
        PROVE  Cardinality(Below(K, y) \union {y}) = Rank(K, y) + 1
    <2>1. y \in Nat /\ y \notin Below(K, y)
      BY DEF Below
    <2> QED BY <1>1, <2>1, FS_AddElement
  <1>3. ASSUME NEW y \in K PROVE Rank(K, y) < Cardinality(K)
    <2>1. Below(K, y) \union {y} \in SUBSET K
      BY DEF Below
    <2>2. Cardinality(Below(K, y) \union {y}) <= Cardinality(K)
      BY <2>1, FS_Subset
    <2>3. Rank(K, y) \in Nat
      BY <1>1
    <2> QED BY <1>0, <1>2, <2>2, <2>3
  <1>4. ASSUME NEW y \in K, NEW z \in Nat, y < z PROVE Rank(K, y) < Rank(K, z)
    <2>1. Below(K, y) \union {y} \in SUBSET Below(K, z)
      <3>1. \A x \in K : x < y => x < z
        BY <1>4
      <3> QED BY <1>4, <3>1 DEF Below
    <2>2. Cardinality(Below(K, y) \union {y}) <= Cardinality(Below(K, z))
      BY <1>1, <2>1, FS_Subset
    <2>3. y \in Nat
      OBVIOUS
    <2> QED BY <1>1, <1>2, <2>2, <2>3
  <1> QED BY <1>0, <1>1, <1>3, <1>4

\* Every rank is the rank of one ticket.
LEMMA NthOf ==
  ASSUME NEW K \in SUBSET Nat, IsFiniteSet(K)
  PROVE  /\ \A j \in 1 .. Cardinality(K) : Nth(K, j) \in K /\ Rank(K, Nth(K, j)) = j - 1
         /\ \A y \in K : Nth(K, Rank(K, y) + 1) = y
  <1> DEFINE n == Cardinality(K)
             f == [y \in K |-> Rank(K, y) + 1]
  <1>1. n \in Nat /\ \A y \in K : Rank(K, y) \in Nat /\ Rank(K, y) + 1 \in 1 .. n
    BY RankOrder
  <1>2. \A y, z \in K : Rank(K, y) = Rank(K, z) => y = z
    <2>1. \A y, z \in K : y < z => Rank(K, y) < Rank(K, z)
      BY RankOrder
    <2>2. \A y, z \in K : y \in Nat /\ z \in Nat
      OBVIOUS
    <2> QED BY <1>1, <2>1, <2>2
  <1>3. f \in Injection(K, 1 .. n)
    <2>1. f \in [K -> 1 .. n]
      BY <1>1
    <2>2. \A y, z \in K : f[y] = f[z] => y = z
      BY <1>1, <1>2
    <2> QED BY <2>1, <2>2 DEF Injection, IsInjective
  <1>4. f \in Surjection(K, 1 .. n)
    <2>1. IsFiniteSet(1 .. n) /\ Cardinality(1 .. n) = n
      BY <1>1, FS_Interval
    <2> QED BY <1>3, <2>1, FS_Injection
  <1>5. ASSUME NEW j \in 1 .. n PROVE \E y \in K : Rank(K, y) = j - 1
    <2>1. PICK y \in K : f[y] = j
      BY <1>4 DEF Surjection
    <2> QED BY <1>1, <2>1
  <1>6. \A j \in 1 .. n : Nth(K, j) \in K /\ Rank(K, Nth(K, j)) = j - 1
    BY <1>5 DEF Nth
  <1>7. ASSUME NEW y \in K PROVE Nth(K, Rank(K, y) + 1) = y
    <2>1. Rank(K, y) + 1 \in 1 .. n /\ (Rank(K, y) + 1) - 1 = Rank(K, y)
      BY <1>1
    <2> QED BY <1>2, <1>6, <2>1
  <1> QED BY <1>6, <1>7

\* A new ticket leaves the order of the others as it is.
LEMMA NthInsert ==
  ASSUME NEW K \in SUBSET Nat, IsFiniteSet(K), NEW y \in Nat \ K
  PROVE  /\ IsFiniteSet(K \union {y}) /\ Cardinality(K \union {y}) = Cardinality(K) + 1
         /\ Rank(K, y) + 1 \in 1 .. Cardinality(K) + 1
         /\ Nth(K \union {y}, Rank(K, y) + 1) = y
         /\ \A j \in 1 .. Rank(K, y) : Nth(K \union {y}, j) = Nth(K, j) /\ Nth(K, j) < y
         /\ \A j \in Rank(K, y) + 1 .. Cardinality(K) :
              Nth(K \union {y}, j + 1) = Nth(K, j) /\ y < Nth(K, j)
  <1> DEFINE M == K \union {y}
             k == Rank(K, y)
             n == Cardinality(K)
  <1>1. IsFiniteSet(M) /\ Cardinality(M) = n + 1 /\ M \in SUBSET Nat
    BY FS_AddElement
  <1>2. k \in 0 .. n /\ n \in Nat
    BY RankOrder
  <1>3. ASSUME NEW x \in Nat, x <= y PROVE Rank(M, x) = Rank(K, x)
    <2>1. Below(M, x) = Below(K, x)
      BY <1>3 DEF Below
    <2> QED BY <2>1 DEF Below, Rank
  <1>4. ASSUME NEW x \in Nat, y < x PROVE Rank(M, x) = Rank(K, x) + 1
    <2>1. Below(M, x) = Below(K, x) \union {y} /\ y \notin Below(K, x)
      BY <1>4 DEF Below
    <2>2. Below(K, x) \in SUBSET K
      BY DEF Below
    <2>3. IsFiniteSet(Below(K, x))
      BY <2>2, FS_Subset
    <2>4. Cardinality(Below(M, x)) = Cardinality(Below(K, x)) + 1
      BY <2>1, <2>3, FS_AddElement
    <2> QED BY <2>4 DEF Below, Rank
  <1>5. Nth(M, k + 1) = y
    <2>1. Rank(M, y) = k
      BY <1>3
    <2> QED BY <1>1, <2>1, NthOf
  <1>6. ASSUME NEW j \in 1 .. n
        PROVE  /\ Nth(K, j) \in K /\ Nth(K, j) \in Nat /\ Rank(K, Nth(K, j)) = j - 1
               /\ Nth(K, j) < y <=> j <= k
               /\ Nth(K, j) # y
    <2>1. Nth(K, j) \in K /\ Nth(K, j) \in Nat /\ Rank(K, Nth(K, j)) = j - 1
      BY NthOf
    <2>2. CASE Nth(K, j) < y
      <3>1. j - 1 < k
        BY <2>1, <2>2, RankOrder
      <3> QED BY <1>2, <2>1, <2>2, <3>1
    <2>3. CASE y < Nth(K, j)
      <3>1. k <= j - 1
        <4>0. \A x \in K : x < y => x < Nth(K, j)
          BY <2>1, <2>3
        <4>1. Below(K, y) \in SUBSET Below(K, Nth(K, j)) /\ Below(K, Nth(K, j)) \in SUBSET K
          BY <4>0 DEF Below
        <4>2. Cardinality(Below(K, y)) <= Cardinality(Below(K, Nth(K, j)))
          BY <4>1, FS_Subset
        <4> QED BY <2>1, <4>2 DEF Below, Rank
      <3> QED BY <1>2, <2>1, <2>3, <3>1
    <2> QED BY <2>1, <2>2, <2>3
  <1>7. ASSUME NEW j \in 1 .. k PROVE Nth(M, j) = Nth(K, j) /\ Nth(K, j) < y
    <2>1. j \in 1 .. n /\ j <= k
      BY <1>2
    <2>2. Rank(M, Nth(K, j)) = j - 1 /\ Nth(K, j) \in M
      BY <1>3, <1>6, <2>1
    <2>3. Nth(M, Rank(M, Nth(K, j)) + 1) = Nth(K, j)
      <3> HIDE DEF M
      <3> QED BY <1>1, <2>2, NthOf
    <2>4. (j - 1) + 1 = j
      BY <2>1
    <2> QED BY <1>6, <2>1, <2>2, <2>3, <2>4
  <1>8. ASSUME NEW j \in k + 1 .. n PROVE Nth(M, j + 1) = Nth(K, j) /\ y < Nth(K, j)
    <2>1. j \in 1 .. n /\ ~(j <= k) /\ j \in Nat
      BY <1>2
    <2>2. y < Nth(K, j) /\ Rank(K, Nth(K, j)) = j - 1 /\ Nth(K, j) \in M /\ Nth(K, j) \in Nat
      BY <1>6, <2>1
    <2>3. Rank(M, Nth(K, j)) = (j - 1) + 1
      BY <1>4, <2>2
    <2>4. Nth(M, ((j - 1) + 1) + 1) = Nth(K, j)
      BY <1>1, <2>2, <2>3, NthOf
    <2> QED BY <2>1, <2>2, <2>4
  <1> QED BY <1>1, <1>2, <1>5, <1>7, <1>8

\* The places after the insertion: y after the tickets below it, the others one later.
Shifts(K, y) ==
  /\ Nth(K \union {y}, Rank(K, y) + 1) = y
  /\ \A j \in 1 .. Rank(K, y) : Nth(K \union {y}, j) = Nth(K, j)
  /\ \A j \in Rank(K, y) + 1 .. Cardinality(K) : Nth(K \union {y}, j + 1) = Nth(K, j)

LEMMA NthShifts ==
  ASSUME NEW K \in SUBSET Nat, IsFiniteSet(K), NEW y \in Nat \ K
  PROVE  Shifts(K, y)
  BY NthInsert DEF Shifts

\* The values of a function in the order of its tickets.
SeqOf(K, f) == [j \in 1 .. Cardinality(K) |-> f[Nth(K, j)]]

LEMMA SeqOfType ==
  ASSUME NEW K \in SUBSET Nat, IsFiniteSet(K), NEW S, NEW f \in [K -> S]
  PROVE  /\ SeqOf(K, f) \in Seq(S) /\ Len(SeqOf(K, f)) = Cardinality(K)
         /\ DOMAIN SeqOf(K, f) = 1 .. Cardinality(K)
         /\ \A j \in 1 .. Cardinality(K) : SeqOf(K, f)[j] = f[Nth(K, j)] /\ Nth(K, j) \in K
  <1>1. Cardinality(K) \in Nat /\ \A j \in 1 .. Cardinality(K) : Nth(K, j) \in K
    BY NthOf, RankOrder
  <1>2. SeqOf(K, f) \in [1 .. Cardinality(K) -> S]
    BY <1>1 DEF SeqOf
  <1>3. SeqOf(K, f) \in Seq(S)
    BY <1>1, <1>2, SeqDef
  <1>4. DOMAIN SeqOf(K, f) = 1 .. Len(SeqOf(K, f)) /\ Len(SeqOf(K, f)) \in Nat
    BY <1>3, LenProperties
  <1>5. DOMAIN SeqOf(K, f) = 1 .. Cardinality(K)
    BY <1>2
  <1>6. Len(SeqOf(K, f)) = Cardinality(K)
    BY <1>1, <1>4, <1>5
  <1> QED BY <1>1, <1>3, <1>5, <1>6 DEF SeqOf

\* An element more is inserted at its rank.
Extends(K, y, f, g) ==
  SeqOf(K \union {y}, f) = Fifo!InsertAt(SeqOf(K, g), Rank(K, y) + 1, f[y])

LEMMA SeqOfInsert ==
  ASSUME NEW K \in SUBSET Nat, IsFiniteSet(K), NEW y \in Nat \ K, NEW S,
         NEW f \in [K \union {y} -> S], NEW g \in [K -> S], \A x \in K : f[x] = g[x]
  PROVE  Extends(K, y, f, g)
  <1> DEFINE k == Rank(K, y)
             n == Cardinality(K)
             q == SeqOf(K, g)
             r == SeqOf(K \union {y}, f)
             a == SubSeq(q, 1, k)
             b == SubSeq(q, k + 1, n)
             c == a \o <<f[y]>>
  <1>1. /\ IsFiniteSet(K \union {y}) /\ Cardinality(K \union {y}) = n + 1
        /\ K \union {y} \in SUBSET Nat
        /\ k \in 0 .. n /\ n \in Nat /\ k + 1 \in 1 .. n + 1
    BY NthInsert, RankOrder
  <1>2. /\ Nth(K \union {y}, k + 1) = y
        /\ \A j \in 1 .. k : Nth(K \union {y}, j) = Nth(K, j)
        /\ \A j \in k + 1 .. n : Nth(K \union {y}, j + 1) = Nth(K, j)
    BY NthShifts DEF Shifts
  <1>3. /\ q \in Seq(S) /\ Len(q) = n
        /\ \A j \in 1 .. n : q[j] = g[Nth(K, j)] /\ Nth(K, j) \in K /\ q[j] \in S
    <2>1. /\ q \in Seq(S) /\ Len(q) = n
          /\ \A j \in 1 .. n : q[j] = g[Nth(K, j)] /\ Nth(K, j) \in K
      BY SeqOfType
    <2> QED BY <2>1
  <1>4. /\ r \in Seq(S) /\ Len(r) = n + 1
        /\ \A j \in 1 .. n + 1 : r[j] = f[Nth(K \union {y}, j)]
    <2> DEFINE M == K \union {y}
    <2>1. M \in SUBSET Nat /\ IsFiniteSet(M) /\ f \in [M -> S] /\ Cardinality(M) = n + 1
      BY <1>1
    <2> HIDE DEF M
    <2>2. /\ SeqOf(M, f) \in Seq(S) /\ Len(SeqOf(M, f)) = Cardinality(M)
          /\ \A j \in 1 .. Cardinality(M) : SeqOf(M, f)[j] = f[Nth(M, j)] /\ Nth(M, j) \in M
      BY <2>1, SeqOfType
    <2> QED BY <2>1, <2>2 DEF M
  <1>5. f[y] \in S
    OBVIOUS
  <1> HIDE DEF q, r, k, n
  <1>6. /\ a \in Seq(S) /\ Len(a) = k /\ \A j \in 1 .. k : a[j] = q[j]
    <2>1. \A j \in 1 .. k : q[j] \in S
      BY <1>1, <1>3
    <2>2. /\ a \in Seq(S) /\ Len(a) = (IF 1 <= k THEN k - 1 + 1 ELSE 0)
          /\ \A j \in 1 .. k - 1 + 1 : a[j] = q[1 + j - 1]
      BY <1>1, <2>1, SubSeqProperties
    <2> QED BY <1>1, <2>2
  <1>7. /\ b \in Seq(S) /\ Len(b) = n - k /\ \A j \in 1 .. n - k : b[j] = q[k + j]
    <2>1. \A j \in k + 1 .. n : q[j] \in S
      BY <1>1, <1>3
    <2>2. /\ b \in Seq(S) /\ Len(b) = (IF k + 1 <= n THEN n - (k + 1) + 1 ELSE 0)
          /\ \A j \in 1 .. n - (k + 1) + 1 : b[j] = q[(k + 1) + j - 1]
      BY <1>1, <2>1, SubSeqProperties
    <2> QED BY <1>1, <2>2
  <1> HIDE DEF a, b, c
  <1>8. /\ <<f[y]>> \in Seq(S) /\ Len(<<f[y]>>) = 1 /\ <<f[y]>>[1] = f[y]
    BY <1>5
  <1>9. /\ c \in Seq(S) /\ Len(c) = k + 1
        /\ \A j \in 1 .. k : c[j] = a[j]
        /\ c[k + 1] = f[y]
    <2>1. /\ c \in Seq(S) /\ Len(c) = Len(a) + Len(<<f[y]>>)
          /\ \A j \in 1 .. Len(a) + Len(<<f[y]>>) :
               c[j] = IF j <= Len(a) THEN a[j] ELSE <<f[y]>>[j - Len(a)]
      BY <1>6, <1>8, ConcatProperties DEF c
    <2>2. k + 1 - k = 1
      BY <1>1
    <2> QED BY <1>1, <1>6, <1>8, <2>1, <2>2
  <1>10. /\ c \o b \in Seq(S) /\ Len(c \o b) = n + 1
         /\ \A j \in 1 .. n + 1 : (c \o b)[j] = IF j <= k + 1 THEN c[j] ELSE b[j - (k + 1)]
    <2>1. /\ c \o b \in Seq(S) /\ Len(c \o b) = Len(c) + Len(b)
          /\ \A j \in 1 .. Len(c) + Len(b) :
               (c \o b)[j] = IF j <= Len(c) THEN c[j] ELSE b[j - Len(c)]
      <3>1. c \in Seq(S) /\ b \in Seq(S)
        BY <1>7, <1>9
      <3> QED BY <3>1, ConcatProperties
    <2>2. Len(c) = k + 1 /\ (k + 1) + (n - k) = n + 1
      BY <1>1, <1>9
    <2> QED BY <1>7, <2>1, <2>2
  <1>11. ASSUME NEW j \in 1 .. n + 1 PROVE r[j] = (c \o b)[j]
    <2>1. CASE j <= k
      <3>1. j \in 1 .. k /\ j \in 1 .. n /\ j <= k + 1
        BY <1>1, <2>1
      <3>2. (c \o b)[j] = g[Nth(K, j)] /\ Nth(K, j) \in K
        BY <1>3, <1>6, <1>9, <1>10, <3>1
      <3> QED BY <1>2, <1>4, <3>1, <3>2
    <2>2. CASE j = k + 1
      <3>1. k + 1 \in 1 .. n + 1 /\ k + 1 <= k + 1
        BY <1>1
      <3>2. r[k + 1] = f[y]
        BY <1>2, <1>4, <3>1
      <3>3. (c \o b)[k + 1] = f[y]
        BY <1>9, <1>10, <3>1
      <3> QED BY <2>2, <3>2, <3>3
    <2>3. CASE j > k + 1
      <3>1. j - 1 \in k + 1 .. n /\ j - 1 \in 1 .. n /\ (j - 1) + 1 = j /\ ~(j <= k + 1)
            /\ j - (k + 1) \in 1 .. n - k /\ k + (j - (k + 1)) = j - 1
        BY <1>1, <2>3
      <3>2. (c \o b)[j] = q[j - 1]
        BY <1>7, <1>10, <3>1
      <3>3. r[j] = f[Nth(K, j - 1)]
        BY <1>2, <1>4, <3>1
      <3> QED BY <1>3, <3>1, <3>2, <3>3
    <2>4. j <= k \/ j = k + 1 \/ j > k + 1
      <3>1. j \in Int /\ k \in Int
        BY <1>1
      <3> QED BY <3>1
    <2> QED BY <2>1, <2>2, <2>3, <2>4
  <1>12. r = c \o b
    BY <1>4, <1>10, <1>11, SeqEqual
  <1>13. Fifo!InsertAt(q, k + 1, f[y]) = c \o b
    <2>1. (k + 1) - 1 = k /\ Len(q) = n
      BY <1>1, <1>3
    <2>2. Fifo!InsertAt(q, k + 1, f[y])
            = SubSeq(q, 1, (k + 1) - 1) \o <<f[y]>> \o SubSeq(q, k + 1, Len(q))
      BY DEF Fifo!InsertAt
    <2> QED BY <2>1, <2>2 DEF a, b, c
  <1> QED BY <1>12, <1>13 DEF q, r, k, Extends

\* Without its least ticket it loses its first element.
Loses(K, y, f, g) ==
  /\ SeqOf(K, f) # <<>> /\ Head(SeqOf(K, f)) = f[y]
  /\ SeqOf(K \ {y}, g) = Tail(SeqOf(K, f))

LEMMA SeqOfTail ==
  ASSUME NEW K \in SUBSET Nat, IsFiniteSet(K), NEW y \in K, \A x \in K : y <= x, NEW S,
         NEW f \in [K -> S], NEW g \in [K \ {y} -> S], \A x \in K \ {y} : f[x] = g[x]
  PROVE  Loses(K, y, f, g)
  <1> DEFINE M == K \ {y}
             n == Cardinality(M)
  <1>1. /\ M \in SUBSET Nat /\ IsFiniteSet(M) /\ y \in Nat \ M /\ K = M \union {y}
    <2>1. IsFiniteSet(M)
      BY FS_Subset
    <2> QED BY <2>1
  <1>2. n \in Nat /\ Cardinality(K) = n + 1
    BY <1>1, NthInsert, RankOrder
  <1>3. Rank(M, y) = 0
    <2>1. \A x \in M : ~(x < y)
      <3>1. \A x \in M : x \in Nat /\ y \in Nat /\ y <= x
        OBVIOUS
      <3> QED BY <3>1
    <2>2. {x \in M : x < y} = {}
      BY <2>1
    <2>3. Cardinality({}) = 0
      BY FS_EmptySet
    <2> QED BY <2>2, <2>3 DEF Rank
  <1>4. Nth(K, 1) = y /\ \A j \in 1 .. n : Nth(K, j + 1) = Nth(M, j)
    <2> HIDE DEF M
    <2>1. /\ Nth(M \union {y}, Rank(M, y) + 1) = y
          /\ \A j \in Rank(M, y) + 1 .. n :
               Nth(M \union {y}, j + 1) = Nth(M, j) /\ y < Nth(M, j)
      BY <1>1, NthInsert
    <2> QED BY <1>1, <1>3, <2>1
  <1> HIDE DEF M
  <1>5. /\ SeqOf(K, f) \in Seq(S) /\ Len(SeqOf(K, f)) = n + 1
        /\ \A j \in 1 .. n + 1 : SeqOf(K, f)[j] = f[Nth(K, j)]
    <2>1. /\ SeqOf(K, f) \in Seq(S) /\ Len(SeqOf(K, f)) = Cardinality(K)
          /\ \A j \in 1 .. Cardinality(K) : SeqOf(K, f)[j] = f[Nth(K, j)] /\ Nth(K, j) \in K
      BY SeqOfType
    <2> QED BY <1>2, <2>1
  <1>6. g \in [M -> S]
    BY DEF M
  <1>7. /\ SeqOf(M, g) \in Seq(S) /\ Len(SeqOf(M, g)) = n
        /\ \A j \in 1 .. n : SeqOf(M, g)[j] = g[Nth(M, j)] /\ Nth(M, j) \in M
    BY <1>1, <1>6, SeqOfType
  <1>8. SeqOf(K, f) # <<>>
    BY <1>2, <1>5, EmptySeq
  <1>9. /\ Tail(SeqOf(K, f)) \in Seq(S) /\ Len(Tail(SeqOf(K, f))) = n
        /\ \A j \in 1 .. n : Tail(SeqOf(K, f))[j] = SeqOf(K, f)[j + 1]
    <2>1. /\ Tail(SeqOf(K, f)) \in Seq(S) /\ Len(Tail(SeqOf(K, f))) = Len(SeqOf(K, f)) - 1
          /\ \A j \in 1 .. Len(Tail(SeqOf(K, f))) : Tail(SeqOf(K, f))[j] = SeqOf(K, f)[j + 1]
      BY <1>5, <1>8, HeadTailProperties
    <2>2. (n + 1) - 1 = n
      BY <1>2
    <2> QED BY <1>5, <2>1, <2>2
  <1>10. ASSUME NEW j \in 1 .. n PROVE Tail(SeqOf(K, f))[j] = SeqOf(M, g)[j]
    <2>1. j + 1 \in 1 .. n + 1
      BY <1>2
    <2>2. Tail(SeqOf(K, f))[j] = f[Nth(M, j)]
      BY <1>4, <1>5, <1>9, <2>1
    <2>3. SeqOf(M, g)[j] = g[Nth(M, j)] /\ Nth(M, j) \in M
      BY <1>7
    <2> QED BY <2>2, <2>3 DEF M
  <1>11. Tail(SeqOf(K, f)) = SeqOf(M, g)
    BY <1>7, <1>9, <1>10, SeqEqual
  <1>12. Head(SeqOf(K, f)) = f[y]
    <2>1. 1 \in 1 .. n + 1
      BY <1>2
    <2>2. SeqOf(K, f)[1] = f[y]
      BY <1>4, <1>5, <2>1
    <2> QED BY <1>5, <1>8, <2>2
  <1> QED BY <1>8, <1>11, <1>12 DEF M, Loses

-----------------------------------------------------------------------------
(* What the calls in progress know.                                        *)

\* The entries that head has not passed: what the abstract queue shows.
Shown == {p \in Placed : p[1] >= head}

\* The queue and its sets in terms of the indices at tickets.
LEMMA ShownAt ==
  ASSUME IInv
  PROVE  /\ Tickets = {p[1] : p \in Shown}
         /\ IndexOf(Unclaimed) = {p[2] : p \in Shown}
         /\ Settled = {p[2] : p \in {q \in Shown : ~Restoring(q[1])}}
  <1>1. ASSUME NEW p \in Shown
        PROVE  \E s \in Unclaimed : p[1] = TicketOf(s) /\ p[2] = array[s].idx
    <2>1. PICK s \in Slots : IsLive(array[s]) /\ p = <<TicketOf(s), array[s].idx>>
      BY ViewAt DEF Shown
    <2> QED BY <2>1 DEF Shown, Unclaimed
  <1>2. ASSUME NEW s \in Unclaimed
        PROVE  \E p \in Shown : p[1] = TicketOf(s) /\ p[2] = array[s].idx
    <2>1. <<TicketOf(s), array[s].idx>> \in Shown
      BY ViewAt DEF Shown, Unclaimed
    <2> QED BY <2>1
  <1>3. Tickets = {p[1] : p \in Shown}
    <2>1. \A y : y \in Tickets <=> \E p \in Shown : y = p[1]
      BY <1>1, <1>2 DEF Tickets
    <2> QED BY <2>1
  <1>4. IndexOf(Unclaimed) = {p[2] : p \in Shown}
    <2>1. \A i : i \in IndexOf(Unclaimed) <=> \E p \in Shown : i = p[2]
      BY <1>1, <1>2 DEF IndexOf
    <2> QED BY <2>1
  <1>5. Settled = {p[2] : p \in {q \in Shown : ~Restoring(q[1])}}
    <2>1. \A i : i \in Settled <=> \E s \in Unclaimed : ~Restoring(TicketOf(s)) /\ i = array[s].idx
      BY DEF Settled, IndexOf, Unclaimed, Inserting, Restoring
    <2>2. \A i : i \in Settled <=> \E p \in Shown : ~Restoring(p[1]) /\ i = p[2]
      BY <1>1, <1>2, <2>1
    <2> QED BY <2>2
  <1> QED BY <1>3, <1>4, <1>5

\* The index at the ticket of a thread.
LEMMA MineAt ==
  ASSUME IInv, NEW t \in Threads
  PROVE  /\ \A i : <<ticket[t], i>> \in Placed => Mine(t) /\ array[Map(ticket[t])].idx = i
         /\ Mine(t) => <<ticket[t], array[Map(ticket[t])].idx>> \in Placed
  <1>1. Map(ticket[t]) \in Slots /\ ticket[t] \in Nat /\ ticket[t] = TicketAt(Cycle(ticket[t]), Map(ticket[t]))
    BY TicketFacts, SlotOfTicket DEF IInv
  <1>2. ASSUME NEW i, <<ticket[t], i>> \in Placed
        PROVE  Mine(t) /\ array[Map(ticket[t])].idx = i
    <2>1. PICK s \in Slots : IsLive(array[s]) /\ <<ticket[t], i>> = <<TicketOf(s), array[s].idx>>
      BY <1>2, ViewAt
    <2>2. s = Map(ticket[t]) /\ array[s].cyc = Cycle(ticket[t])
      BY <2>1, LiveSlot
    <2> QED BY <2>1, <2>2 DEF Mine
  <1>3. ASSUME Mine(t) PROVE <<ticket[t], array[Map(ticket[t])].idx>> \in Placed
    BY <1>1, <1>3, ViewAt DEF Mine, TicketOf
  <1> QED BY <1>2, <1>3

\* Head and tail only grow, entries go when head has passed them, and the
\* tickets of two enqueues are never the same.
LEMMA TicketSteps ==
  ASSUME IInv, Issued, NEW t \in Threads, Invoke(t) \/ Step(t)
  PROVE  /\ head \in Nat /\ tail \in Nat /\ head' \in Nat /\ tail' \in Nat
         /\ head <= head' /\ tail <= tail'
         /\ \A p \in Placed : p[1] >= head => p \in Placed'
         /\ \A y \in Nat : y < tail /\ ~Held(y) => ~Held(y)'
         /\ EnqCasOk(t) \/ Placed' \subseteq Placed
  <1>1. Changes
    BY ChangesStep
  <1>2. head \in Nat /\ tail \in Nat
    BY DEF IInv, TypeOK
  <1>3. /\ head' = head \/ head' = head + 1
        /\ tail' = tail \/ tail' = tail + 1 \/ tail' \in tail .. head
    BY <1>1 DEF Changes, Still, Takes, Leaves, Inserts, Removes, Claims, Catches
  <1>4. ASSUME NEW p \in Placed, p[1] >= head PROVE p \in Placed'
    <2>1. ASSUME NEW y \in Nat, NEW i \in Indices, Removes(y, i) PROVE p \in Placed'
      BY <1>2, <1>4, <2>1 DEF Removes
    <2>2. (\E y \in Nat, i \in Indices : Removes(y, i)) \/ Placed \subseteq Placed'
      BY <1>1 DEF Changes, Still, Takes, Leaves, Inserts, Claims, Catches
    <2> QED BY <2>1, <2>2
  <1>5. ASSUME NEW y \in Nat, y < tail, ~Held(y), Held(y)' PROVE FALSE
    <2>1. PICK i \in Indices : <<y, i>> \in Brought'
      BY <1>5 DEF Held
    <2>2. <<y, i>> \notin Brought
      BY <1>5 DEF Held
    <2>3. PICK j \in Indices : Takes(j)
      BY <1>1, <2>1, <2>2 DEF Changes, Still, Leaves, Inserts, Removes, Claims, Catches
    <2>4. y = tail
      BY <2>1, <2>2, <2>3 DEF Takes
    <2> QED BY <1>2, <1>5, <2>4
  <1>6. EnqCasOk(t) \/ Placed' \subseteq Placed
    BY PlacedStep
  <1>7. head' \in Nat /\ tail' \in Nat /\ head <= head' /\ tail <= tail'
    BY <1>2, <1>3
  <1> QED BY <1>2, <1>4, <1>5, <1>6, <1>7

\* The compare_exchange of an enqueue is at a ticket that nobody else uses.
LEMMA InsertAlone ==
  ASSUME IInv, Issued, NEW t \in Threads, EnqCasOk(t)
  PROVE  /\ pc[t] = "e_cas" /\ pc'[t] = "e_thr" /\ ticket'[t] = ticket[t] /\ eidx'[t] = eidx[t]
         /\ head' = head /\ tail' = tail
         /\ ticket[t] \in Nat /\ eidx[t] \in Indices /\ ticket[t] < tail
         /\ Held(ticket[t]) /\ ~Held(ticket[t])'
         /\ <<ticket[t], eidx[t]>> \in Brought
         /\ Placed' = Placed \union {<<ticket[t], eidx[t]>>}
         /\ \A p \in Placed : p[1] # ticket[t] /\ p[2] # eidx[t]
  <1>1. /\ pc[t] = "e_cas" /\ pc'[t] = "e_thr" /\ ticket'[t] = ticket[t] /\ eidx'[t] = eidx[t]
        /\ head' = head /\ tail' = tail
    BY DEF EnqCasOk, Goto, local, IInv, TypeOK
  <1>2. ticket[t] \in Nat /\ eidx[t] \in Indices /\ Inserts(ticket[t], eidx[t])
    BY EnqCasView
  <1> DEFINE q == <<ticket[t], eidx[t]>>
  <1>3. q \in Brought /\ Placed' = Placed \union {q} /\ Brought' = Brought \ {q}
    BY <1>2 DEF Inserts
  <1>4. \A p \in Placed \union Brought : (q[1] = p[1] => q = p) /\ p[1] < tail
    BY <1>3 DEF Issued
  <1>5. \A p \in Placed : p # q /\ p[2] # q[2]
    BY <1>3, ViewHolds DEF ViewOK
  <1>6. ~Held(ticket[t])'
    <2>1. SUFFICES ASSUME NEW i \in Indices, <<ticket[t], i>> \in Brought' PROVE FALSE
      BY <1>1 DEF Held
    <2>2. <<ticket[t], i>> \in Brought /\ <<ticket[t], i>> # q
      BY <1>3, <2>1
    <2>3. \A p \in Brought : p[1] = q[1] => p = q
      BY <1>3 DEF Issued
    <2> QED BY <2>2, <2>3
  <1>7. Held(ticket[t])
    BY <1>2, <1>3 DEF Held
  <1> QED BY <1>1, <1>2, <1>3, <1>4, <1>5, <1>6, <1>7

\* OwnTicket is inductive.
LEMMA OwnTicketStep ==
  ASSUME IInv, Issued, OwnTicket, NEW t \in Threads, Invoke(t) \/ Step(t)
  PROVE  OwnTicket'
  <1>0. /\ Others(t) /\ \A u \in Threads : ticket[u] \in Nat
        /\ head \in Nat /\ tail \in Nat /\ head' \in Nat /\ tail' \in Nat
        /\ head <= head' /\ tail <= tail'
    BY TicketSteps, OthersStep DEF IInv, TypeOK
  <1>1. pc[t] \notin EnqAfter /\ pc'[t] \in EnqAfter => EnqCasOk(t)
    BY DEF EnqAfter, Invoke, Step, EnqStep, DeqStep, CatchStep, EnqCall, DeqCall, Finalize, Refill,
           Call, EnqTail, EnqLoad, EnqHead, EnqFin, EnqCasFail, EnqThrLoad, EnqThrStore, DeqThr,
           DeqHead, DeqLoad, DeqOr, DeqCasOk, DeqCasFail, DeqTail, DeqNone, DeqSub, CatchCasOk,
           CatchCasFail, CatchHead, CatchTail, Goto, Return, Insertable, IInv, TypeOK
  <1>2. pc[t] \in EnqAfter /\ pc'[t] \in EnqAfter => ticket'[t] = ticket[t] /\ eidx'[t] = eidx[t]
    BY DEF EnqAfter, Invoke, Step, EnqStep, DeqStep, CatchStep, EnqCall, DeqCall, Finalize, Refill,
           Call, EnqTail, EnqLoad, EnqHead, EnqFin, EnqCasOk, EnqCasFail, EnqThrLoad, EnqThrStore,
           DeqThr, DeqHead, DeqLoad, DeqOr, DeqCasOk, DeqCasFail, DeqTail, DeqNone, DeqSub,
           CatchCasOk, CatchCasFail, CatchHead, CatchTail, Goto, Return, local, IInv, TypeOK
  <1>3. ASSUME NEW u \in Threads, pc'[u] \in EnqAfter
        PROVE  \/ pc[u] \in EnqAfter /\ ticket'[u] = ticket[u] /\ eidx'[u] = eidx[u]
               \/ u = t /\ EnqCasOk(t)
    BY <1>0, <1>1, <1>2, <1>3 DEF Others
  <1>4. ASSUME NEW u \in Threads, pc[u] \in EnqAfter, EnqCasOk(t)
        PROVE  ticket[u] # ticket[t]
    BY <1>4, InsertAlone DEF OwnTicket
  <1>5. ASSUME NEW u \in Threads, pc'[u] \in EnqAfter
        PROVE  /\ ticket'[u] < tail' /\ \A i \in Indices : <<ticket'[u], i>> \notin Brought'
               /\ \A i \in Indices : <<ticket'[u], i>> \in Placed' => i = eidx'[u]
               /\ ticket'[u] >= head' => <<ticket'[u], eidx'[u]>> \in Placed'
               /\ \A v \in Threads : pc'[v] \in EnqAfter /\ ticket'[v] = ticket'[u] => v = u
    <2>1. CASE pc[u] \in EnqAfter /\ ticket'[u] = ticket[u] /\ eidx'[u] = eidx[u]
      <3>1. /\ ticket[u] < tail /\ ~Held(ticket[u])
            /\ \A i \in Indices : <<ticket[u], i>> \in Placed => i = eidx[u]
            /\ ticket[u] >= head => <<ticket[u], eidx[u]>> \in Placed
            /\ \A v \in Threads : pc[v] \in EnqAfter /\ ticket[v] = ticket[u] => v = u
        BY <2>1 DEF OwnTicket
      <3>2. \A i \in Indices : <<ticket[u], i>> \notin Brought'
        <4>1. \A y \in Nat : y < tail /\ ~Held(y) => ~Held(y)'
          BY TicketSteps
        <4> QED BY <1>0, <3>1, <4>1 DEF Held
      <3>3. ASSUME NEW i \in Indices, <<ticket[u], i>> \in Placed' PROVE i = eidx[u]
        <4>1. CASE <<ticket[u], i>> \in Placed
          BY <3>1, <4>1
        <4>2. CASE <<ticket[u], i>> \notin Placed
          <5>1. EnqCasOk(t) /\ ticket[u] = ticket[t]
            BY <3>3, <4>2, PlacedStep
          <5> QED BY <1>4, <2>1, <5>1
        <4> QED BY <4>1, <4>2
      <3>4. ticket[u] >= head' => <<ticket[u], eidx[u]>> \in Placed'
        <4>1. ticket[u] >= head' => ticket[u] >= head
          BY <1>0
        <4> QED BY <3>1, <4>1, TicketSteps
      <3>5. ASSUME NEW v \in Threads, pc'[v] \in EnqAfter, ticket'[v] = ticket'[u] PROVE v = u
        <4>1. CASE pc[v] \in EnqAfter /\ ticket'[v] = ticket[v]
          BY <2>1, <3>1, <3>5, <4>1
        <4>2. CASE v = t /\ EnqCasOk(t)
          BY <1>4, <2>1, <3>5, <4>2, InsertAlone
        <4> QED BY <1>3, <3>5, <4>1, <4>2
      <3>6. ticket[u] < tail'
        BY <1>0, <3>1
      <3> QED BY <2>1, <3>2, <3>3, <3>4, <3>5, <3>6
    <2>2. CASE u = t /\ EnqCasOk(t)
      <3>1. /\ ticket'[t] = ticket[t] /\ eidx'[t] = eidx[t] /\ tail' = tail /\ ticket[t] < tail
            /\ \A i \in Indices : <<ticket[t], i>> \notin Brought'
            /\ Placed' = Placed \union {<<ticket[t], eidx[t]>>}
            /\ \A p \in Placed : p[1] # ticket[t]
        BY <2>2, InsertAlone DEF Held
      <3>2. \A i \in Indices : <<ticket[t], i>> \in Placed' => i = eidx[t]
        BY <3>1
      <3>3. <<ticket[t], eidx[t]>> \in Placed'
        BY <3>1
      <3>4. ASSUME NEW v \in Threads, pc'[v] \in EnqAfter, ticket'[v] = ticket'[t] PROVE v = t
        <4>1. CASE pc[v] \in EnqAfter /\ ticket'[v] = ticket[v]
          BY <1>4, <2>2, <3>1, <3>4, <4>1
        <4> QED BY <1>3, <3>4, <4>1
      <3> QED BY <2>2, <3>1, <3>2, <3>3, <3>4
    <2> QED BY <1>3, <1>5, <2>1, <2>2
  <1> QED BY <1>5 DEF OwnTicket, Held

\* The record of an enqueue is as the call found the queue.
LEMMA RecordEnq ==
  ASSUME Record, NEW u \in Threads
  PROVE  /\ pc'[u] \notin EnqBefore => pre'[u] = {} /\ late'[u] = FALSE
         /\ pc'[u] \in EnqBefore /\ pc[u] = "idle" => pre'[u] = Settled /\ late'[u] = is_finalized
         /\ pc'[u] \in EnqBefore /\ pc[u] # "idle" =>
              pre'[u] = pre[u] \intersect IndexOf(Unclaimed)' /\ late'[u] = late[u]
  <1>1. pre'[u] = CASE pc'[u] \in EnqBefore /\ pc[u] = "idle" -> Settled
                    [] pc'[u] \in EnqBefore /\ pc[u] # "idle" ->
                         pre[u] \intersect IndexOf(Unclaimed)'
                    [] OTHER -> {}
    BY DEF Record
  <1>2. late'[u] = CASE pc'[u] \in EnqBefore /\ pc[u] = "idle" -> is_finalized
                     [] pc'[u] \in EnqBefore /\ pc[u] # "idle" -> late[u]
                     [] OTHER -> FALSE
    BY DEF Record
  <1> QED BY <1>1, <1>2

\* Where an enqueue begins, and where it takes its ticket.
LEMMA EnqSteps ==
  ASSUME TypeOK, NEW t \in Threads, Invoke(t) \/ Step(t), pc'[t] \in EnqBefore
  PROVE  \/ pc[t] = "idle" /\ pc'[t] = "e_tail" /\ \E i \in pool : EnqCall(t, i)
         \/ pc[t] = "e_tail" /\ EnqTail(t) /\ ticket'[t] = tail
         \/ pc[t] \in InHand /\ ticket'[t] = ticket[t]
  <1> USE DEF InHand, EnqBefore, Goto, Return, Call, local, TypeOK
  <1>1. ASSUME NEW i \in pool, EnqCall(t, i)
        PROVE  pc[t] = "idle" /\ pc'[t] = "e_tail"
    BY <1>1 DEF EnqCall
  <1>2. CASE DeqCall(t) \/ Finalize(t) \/ Refill(t)
    BY <1>2 DEF DeqCall, Finalize, Refill
  <1>3. CASE EnqTail(t)
    BY <1>3 DEF EnqTail
  <1>4. CASE EnqLoad(t) \/ EnqHead(t) \/ EnqFin(t)
    BY <1>4 DEF EnqLoad, EnqHead, EnqFin
  <1>5. CASE EnqCasOk(t) \/ EnqCasFail(t) \/ EnqThrLoad(t) \/ EnqThrStore(t)
    BY <1>5 DEF EnqCasOk, EnqCasFail, EnqThrLoad, EnqThrStore
  <1>6. CASE DeqThr(t) \/ DeqHead(t) \/ DeqLoad(t) \/ DeqOr(t) \/ DeqCasOk(t) \/ DeqCasFail(t)
    BY <1>6 DEF DeqThr, DeqHead, DeqLoad, DeqOr, DeqCasOk, DeqCasFail
  <1>7. CASE DeqTail(t) \/ DeqNone(t) \/ DeqSub(t) \/ CatchStep(t)
    BY <1>7
    DEF DeqTail, DeqNone, DeqSub, CatchStep, CatchCasOk, CatchCasFail, CatchHead, CatchTail
  <1> QED
    BY <1>1, <1>2, <1>3, <1>4, <1>5, <1>6, <1>7 DEF Invoke, Step, EnqStep, DeqStep

\* A ticket that tail has passed stays among those behind tail.
LEMMA Within ==
  ASSUME NEW h \in Nat, NEW m \in Nat, NEW n \in Nat, m <= n, NEW y \in Nat, h <= y, y < m
  PROVE  y \in h .. n - 1
  OBVIOUS

\* Overtaken is inductive.
LEMMA OvertakenStep ==
  ASSUME IInv, IInv', Issued, Overtaken, Record, NEW t \in Threads, Invoke(t) \/ Step(t)
  PROVE  Overtaken'
  <1>0. /\ Others(t) /\ \A u \in Threads : ticket[u] \in Nat
        /\ head \in Nat /\ tail \in Nat /\ head' \in Nat /\ tail' \in Nat
        /\ head <= head' /\ tail <= tail'
    BY TicketSteps, OthersStep DEF IInv, TypeOK
  <1>1. ViewOK /\ ViewOK'
    BY ViewHolds, PTL
  <1>2. ASSUME NEW u \in Threads, NEW i \in pre'[u]
        PROVE  /\ pc'[u] \in EnqBefore
               /\ \E y \in head' .. tail' - 1 :
                    <<y, i>> \in Placed' /\ (pc'[u] \in InHand => y < ticket'[u])
    <2>1. pc'[u] \in EnqBefore
      BY <1>2, RecordEnq
    <2>2. CASE pc[u] = "idle"
      <3>1. u = t /\ pc[t] = "idle"
        BY <1>0, <2>1, <2>2 DEF Others, EnqBefore
      <3>2. pc'[t] = "e_tail" /\ \E j \in pool : EnqCall(t, j)
        BY <2>1, <3>1, EnqSteps DEF IInv, InHand, EnqBefore
      <3>3. head' = head /\ array' = array
        BY <3>2 DEF EnqCall, shared
      <3>4. i \in Settled
        BY <1>2, <2>1, <2>2, RecordEnq
      <3>5. PICK p \in Shown : i = p[2]
        BY <3>4, ShownAt
      <3>6. p \in Placed /\ p[1] >= head /\ p[1] < tail /\ p[1] \in Nat /\ p = <<p[1], i>>
        BY <1>1, <3>5 DEF Shown, Issued, ViewOK
      <3>7. <<p[1], i>> \in Placed' /\ p[1] \in head' .. tail' - 1
        BY <1>0, <3>3, <3>6, PlacedSame
      <3> QED BY <2>1, <3>1, <3>2, <3>7 DEF InHand
    <2>3. CASE pc[u] # "idle"
      <3>1. i \in pre[u] /\ i \in IndexOf(Unclaimed)'
        BY <1>2, <2>1, <2>3, RecordEnq
      <3>2. PICK y \in head .. tail - 1 :
                    <<y, i>> \in Placed /\ (pc[u] \in InHand => y < ticket[u])
        BY <3>1 DEF Overtaken
      <3>3. (IndexOf(Unclaimed) = {p[2] : p \in Shown})'
        BY ShownAt, PTL
      <3>4. PICK p \in Placed' : p[1] >= head' /\ p[2] = i
        BY <3>1, <3>3 DEF Shown
      <3>5. y \in Nat /\ y < tail /\ <<y, i>> \in Placed'
        <4>1. y \in Nat /\ y >= head /\ y < tail
          BY <1>0
        <4> QED BY <3>2, <4>1, TicketSteps
      <3>6. p = <<y, i>> /\ p[1] = y
        <4> DEFINE q == <<y, i>>
        <4>1. q \in Placed' /\ q[2] = i /\ q[1] = y
          BY <3>5
        <4> HIDE DEF q
        <4>2. p = q
          BY <1>1, <3>4, <4>1 DEF ViewOK
        <4> QED BY <4>1, <4>2 DEF q
      <3>7. y \in head' .. tail' - 1
        <4>1. y >= head'
          BY <3>4, <3>6
        <4> QED BY <1>0, <3>5, <4>1, Within
      <3>8. pc'[u] \in InHand => y < ticket'[u]
        <4>1. CASE u # t
          BY <1>0, <3>2, <4>1 DEF Others
        <4>2. CASE u = t
          BY <1>0, <2>1, <2>3, <3>2, <3>5, <4>2, EnqSteps DEF IInv
        <4> QED BY <4>1, <4>2
      <3> QED BY <2>1, <3>5, <3>7, <3>8
    <2> QED BY <2>2, <2>3
  <1> QED BY <1>2 DEF Overtaken

\* LateRefused is inductive.
LEMMA LateStep ==
  ASSUME IInv, Near, LateRefused, Record, NEW t \in Threads, Invoke(t) \/ Step(t)
  PROVE  LateRefused'
  <1>0. Others(t) /\ (is_finalized => is_finalized')
    BY OthersStep, FlagStep DEF IInv
  <1>1. ASSUME NEW u \in Threads, late'[u]
        PROVE  is_finalized' /\ pc'[u] \in EnqBefore \ {"e_cas"}
    <2>1. pc'[u] \in EnqBefore /\ is_finalized
      BY <1>1, RecordEnq DEF LateRefused
    <2>2. pc[u] = "idle" \/ pc[u] # "e_cas"
      BY <1>1, <2>1, RecordEnq DEF LateRefused
    <2>3. ASSUME pc'[u] = "e_cas" PROVE FALSE
      <3>1. u = t
        BY <1>0, <2>2, <2>3 DEF Others
      <3>2. ~is_finalized \/ Mode = 0
        BY <2>2, <2>3, <3>1, TryStep
      <3> QED BY <2>1, <3>2 DEF Near
    <2> QED BY <1>0, <2>1, <2>3
  <1> QED BY <1>1 DEF LateRefused

\* The record of a dequeue is whether it has met an empty queue.
LEMMA RecordDeq ==
  ASSUME Record, NEW u \in Threads
  PROVE  /\ mayFail'[u] \in BOOLEAN
         /\ mayFail'[u] <=> pc'[u] \in DeqAll /\ (mayFail[u] \/ Settled' = {})
  BY DEF Record

\* No index is settled if no ticket is due.
LEMMA SettledDue ==
  ASSUME IInv, Due = {}
  PROVE  Settled = {}
  BY UnclaimedDue DEF Settled, IndexOf

\* MetEmpty is inductive.
LEMMA MetEmptyStep ==
  ASSUME IInv, Issued, Near, MetEmpty, Record, NEW t \in Threads, Invoke(t) \/ Step(t)
  PROVE  MetEmpty'
  <1>0. Others(t)
    BY OthersStep DEF IInv
  <1>1. ASSUME NEW u \in Threads, pc'[u] \in Catching \union {"d_none"}
        PROVE  mayFail'[u]
    <2>1. pc'[u] \in DeqAll
      BY <1>1 DEF DeqAll
    <2>2. SUFFICES mayFail[u]
      BY <2>1, RecordDeq
    <2>3. CASE pc[u] \in Catching \union {"d_none"}
      BY <2>3 DEF MetEmpty
    <2>4. CASE pc[u] \notin Catching \union {"d_none"}
      <3>1. u = t
        BY <1>0, <1>1, <2>4 DEF Others
      <3>2. pc[t] \in DeqAll
        BY <1>1, <2>4, <3>1
        DEF Invoke, Step, EnqStep, DeqStep, CatchStep, EnqCall, DeqCall, Finalize, Refill, Call,
            EnqTail, EnqLoad, EnqHead, EnqFin, EnqCasOk, EnqCasFail, EnqThrLoad, EnqThrStore,
            DeqThr, DeqHead, DeqLoad, DeqOr, DeqCasOk, DeqCasFail, DeqTail, DeqNone, DeqSub,
            CatchCasOk, CatchCasFail, CatchHead, CatchTail, Goto, Return, Insertable, Catching,
            DeqAll, DeqSlot, IInv, TypeOK
      <3>3. pc[t] = "d_tail" /\ pc'[t] = "c_cas"
        BY <1>1, <2>4, <3>1, <3>2, CatchSteps DEF IInv
      <3>4. Settled = {}
        BY <3>3, NoneByTail, SettledDue
      <3> QED BY <3>1, <3>2, <3>4 DEF MetEmpty
    <2> QED BY <2>3, <2>4
  <1> QED BY <1>1, RecordDeq DEF MetEmpty

\* A dequeue that answers None has met an empty queue.
LEMMA NoneMet ==
  ASSUME IInv, Enough, MetEmpty, NEW t \in Threads, DeqThr(t) \/ DeqNone(t) \/ DeqSub(t),
         pc'[t] = "idle"
  PROVE  mayFail[t] /\ pc[t] \in {"d_thr", "d_none", "d_sub"}
  <1>1. /\ head \in Nat /\ threshold \in Int /\ IsFiniteSet(Owing) /\ Cardinality(Owing) \in Nat
    BY Sizes DEF Owing, IInv, TypeOK
  <1>2. ASSUME NEW i \in Settled
        PROVE  threshold >= 0 /\ (t \in Owing => threshold > 0)
    <2>1. PICK p \in Shown : ~Restoring(p[1])
      BY <1>2, ShownAt
    <2>2. p \in Placed /\ p[1] >= head /\ p[1] \in Nat
      BY ViewHolds DEF Shown, ViewOK
    <2>3. threshold >= Cardinality(Owing) + p[1] - head
      BY <2>1, <2>2 DEF Enough
    <2>4. t \in Owing => Cardinality(Owing) # 0
      BY <1>1, FS_EmptySet
    <2> QED BY <1>1, <2>2, <2>3, <2>4
  <1>3. CASE DeqThr(t)
    <2>1. pc[t] = "d_thr" /\ threshold < 0
      BY <1>3 DEF DeqThr, Goto, Return, IInv, TypeOK
    <2>2. Settled = {}
      BY <1>1, <1>2, <2>1
    <2> QED BY <2>1, <2>2 DEF MetEmpty, DeqAll
  <1>4. CASE DeqSub(t)
    <2>1. pc[t] = "d_sub" /\ threshold <= 0 /\ t \in Owing
      BY <1>4 DEF DeqSub, Goto, Return, Owing, IInv, TypeOK
    <2>2. Settled = {}
      BY <1>1, <1>2, <2>1
    <2> QED BY <2>1, <2>2 DEF MetEmpty, DeqAll
  <1>5. CASE DeqNone(t)
    BY <1>5 DEF DeqNone, Return, Goto, MetEmpty
  <1> QED BY <1>3, <1>4, <1>5

\* CallInv is inductive.
LEMMA CallStep ==
  ASSUME IInv, IInv', ReachInv, CallInv, [HNext]_<<vars, history>>
  PROVE  CallInv'
  <1>1. CASE UNCHANGED <<vars, history>>
    <2>1. /\ UNCHANGED <<head, tail, is_finalized, array, pc, ticket, eidx>>
          /\ UNCHANGED <<pre, late, mayFail>>
      BY <1>1 DEF vars, shared, local, history
    <2>2. UNCHANGED <<Placed, Brought, Settled>>
      BY <2>1 DEF Placed, Brought, Settled, IndexOf, Unclaimed, Inserting, TicketOf
    <2> QED
      BY <2>1, <2>2 DEF CallInv, OwnTicket, Overtaken, LateRefused, MetEmpty, Held
  <1>2. ASSUME NEW t \in Threads, Invoke(t) \/ Step(t), Record PROVE CallInv'
    <2>1. OwnTicket'
      BY <1>2, OwnTicketStep DEF CallInv, ReachInv
    <2>2. Overtaken'
      BY <1>2, OvertakenStep DEF CallInv, ReachInv
    <2>3. LateRefused'
      BY <1>2, LateStep DEF CallInv, ReachInv
    <2>4. MetEmpty'
      BY <1>2, MetEmptyStep DEF CallInv, ReachInv
    <2> QED BY <2>1, <2>2, <2>3, <2>4 DEF CallInv
  <1> QED BY <1>1, <1>2 DEF HNext, Next

LEMMA InitCall == HInit => CallInv
  <1> SUFFICES ASSUME HInit PROVE CallInv
    OBVIOUS
  <1>1. \A t \in Threads : /\ pc[t] = "idle" /\ pre[t] = {} /\ late[t] = FALSE
                           /\ mayFail[t] = FALSE
    BY DEF HInit, Init
  <1> QED
    BY <1>1
    DEF CallInv, OwnTicket, Overtaken, LateRefused, MetEmpty, EnqAfter, DeqAll, DeqSlot, Catching

\* CallInv holds in every reachable state.
THEOREM CallCorrect ==
  ASSUME FewDequeuers
  PROVE  HSpec => []CallInv
  <1>1. HInit => CallInv
    BY InitCall
  <1>2. IInv /\ IInv' /\ ReachInv /\ CallInv /\ [HNext]_<<vars, history>> => CallInv'
    BY CallStep
  <1> QED BY <1>1, <1>2, HistoryOnly, Invariance, ReachCorrect, PTL DEF HSpec

-----------------------------------------------------------------------------
(* What the ring shows of the abstract queue.                              *)

Reached == IInv /\ ReachInv /\ CallInv

\* The index at each ticket of the queue.
Label == [y \in Tickets |-> array[Map(y)].idx]

ShowsQueue ==
  /\ Tickets \in SUBSET Nat /\ IsFiniteSet(Tickets)
  /\ Tickets = {p[1] : p \in Shown}
  /\ Settled = {p[2] : p \in {q \in Shown : ~Restoring(q[1])}}
  /\ IndexOf(Unclaimed) = {p[2] : p \in Shown}
  /\ Label \in [Tickets -> Indices]
  /\ \A p \in Shown : p = <<p[1], Label[p[1]]>>
  /\ Queue = SeqOf(Tickets, Label)

LEMMA QueueAt ==
  ASSUME Reached
  PROVE  ShowsQueue
  <1>0. /\ IInv /\ Issued /\ ViewOK /\ head \in Nat /\ tail \in Nat
    BY ViewHolds DEF Reached, ReachInv, IInv, TypeOK
  <1>1. /\ Tickets = {p[1] : p \in Shown}
        /\ IndexOf(Unclaimed) = {p[2] : p \in Shown}
        /\ Settled = {p[2] : p \in {q \in Shown : ~Restoring(q[1])}}
    BY <1>0, ShownAt
  <1>2. \A p \in Shown : p \in Nat \X Indices /\ p[1] < tail /\ p[1] >= head
    BY <1>0 DEF Shown, ViewOK, Issued
  <1>3. Tickets \in SUBSET (head .. tail - 1) /\ Tickets \in SUBSET Nat
    <2>1. ASSUME NEW p \in Shown PROVE p[1] \in head .. tail - 1 /\ p[1] \in Nat
      <3>1. p[1] \in Nat /\ head <= p[1] /\ p[1] < tail
        BY <1>2
      <3> QED BY <1>0, <3>1, Within
    <2> QED BY <1>1, <2>1
  <1>4. IsFiniteSet(Tickets)
    <2>1. IsFiniteSet(head .. tail - 1)
      BY <1>0, FS_Interval
    <2> QED BY <1>3, <2>1, FS_Subset
  <1>5. ASSUME NEW p \in Shown
        PROVE  array[Map(p[1])].idx = p[2] /\ p[2] \in Indices /\ p[1] \in Tickets
    <2>1. PICK s \in Slots : IsLive(array[s]) /\ p = <<TicketOf(s), array[s].idx>>
      BY ViewAt DEF Shown
    <2>2. Map(p[1]) = s
      BY <1>0, <2>1, LiveSlot
    <2> QED BY <1>1, <1>2, <2>1, <2>2
  <1>6. Label \in [Tickets -> Indices]
    <2>1. \A y \in Tickets : array[Map(y)].idx \in Indices
      BY <1>1, <1>5
    <2> QED BY <2>1 DEF Label
  <1>7. \A p \in Shown : p = <<p[1], Label[p[1]]>>
    BY <1>2, <1>5 DEF Label
  <1>8. Queue = SeqOf(Tickets, Label)
    <2>1. \A j \in 1 .. Cardinality(Tickets) : Nth(Tickets, j) \in Tickets
      BY <1>3, <1>4, NthOf
    <2>2. \A j \in 1 .. Cardinality(Tickets) :
            Label[Nth(Tickets, j)] = array[Map(Nth(Tickets, j))].idx
      BY <2>1 DEF Label
    <2> QED BY <2>2 DEF Queue, SeqOf
  <1> QED BY <1>1, <1>3, <1>4, <1>6, <1>7, <1>8 DEF ShowsQueue

\* The states of a thread do not overlap.
LEMMA Kinds ==
  /\ "idle" \notin EnqBefore /\ "idle" \notin EnqAfter /\ "idle" \notin DeqAll
  /\ \A x : ~(x \in EnqBefore /\ x \in EnqAfter) /\ ~(x \in EnqBefore /\ x \in DeqAll)
            /\ ~(x \in EnqAfter /\ x \in DeqAll)
  /\ DeqSlot \subseteq DeqAll
  BY DEF EnqBefore, EnqAfter, DeqAll, DeqSlot, Catching

\* The operation that a thread is in.
OpIs(t) ==
  /\ pc[t] = "idle" => Op(t) = Fifo!Idle
  /\ pc[t] \in EnqBefore => Op(t) = Fifo!Enq(eidx[t], pre[t], late[t])
  /\ pc[t] \in EnqAfter /\ ticket[t] >= head => Op(t) = Fifo!Put(eidx[t])
  /\ pc[t] \in EnqAfter /\ ~(ticket[t] >= head) => Op(t) = Fifo!Given
  /\ \A i : pc[t] \in DeqSlot /\ <<ticket[t], i>> \in Placed => Op(t) = Fifo!Got(i)
  /\ pc[t] \in DeqAll /\ (pc[t] \in DeqSlot => \A i : <<ticket[t], i>> \notin Placed) =>
       Op(t) = Fifo!Deq(mayFail[t])

OpsAre == \A t \in Threads : OpIs(t)

LEMMA OpAt ==
  ASSUME Reached
  PROVE  OpsAre
  <1> SUFFICES ASSUME NEW t \in Threads PROVE OpIs(t)
    BY DEF OpsAre
  <1>1. ASSUME pc[t] = "idle" PROVE Op(t) = Fifo!Idle
    <2>1. pc[t] \notin EnqBefore /\ pc[t] \notin EnqAfter /\ pc[t] \notin DeqAll /\ pc[t] \notin DeqSlot
      BY <1>1, Kinds
    <2> QED BY <1>1, <2>1 DEF Op, Fifo!Idle
  <1>2. ASSUME pc[t] \in EnqBefore PROVE Op(t) = Fifo!Enq(eidx[t], pre[t], late[t])
    <2>1. pc[t] # "idle" /\ pc[t] \notin EnqAfter /\ pc[t] \notin DeqAll /\ pc[t] \notin DeqSlot
      BY <1>2, Kinds
    <2> QED BY <1>2, <2>1 DEF Op, Fifo!Enq
  <1>3. ASSUME pc[t] \in EnqAfter, ticket[t] >= head PROVE Op(t) = Fifo!Put(eidx[t])
    <2>1. pc[t] # "idle" /\ pc[t] \notin EnqBefore /\ pc[t] \notin DeqAll /\ pc[t] \notin DeqSlot
      BY <1>3, Kinds
    <2>2. Mine(t)
      BY <1>3, MineAt DEF Reached, CallInv, OwnTicket
    <2> QED BY <1>3, <2>1, <2>2 DEF Op, Fifo!Put
  <1>4. ASSUME pc[t] \in EnqAfter, ~(ticket[t] >= head) PROVE Op(t) = Fifo!Given
    <2>1. pc[t] # "idle" /\ pc[t] \notin EnqBefore /\ pc[t] \notin DeqAll /\ pc[t] \notin DeqSlot
      BY <1>4, Kinds
    <2> QED BY <1>4, <2>1 DEF Op, Fifo!Given
  <1>5. ASSUME NEW i, pc[t] \in DeqSlot, <<ticket[t], i>> \in Placed PROVE Op(t) = Fifo!Got(i)
    <2>1. pc[t] # "idle" /\ pc[t] \notin EnqBefore /\ pc[t] \notin EnqAfter
      BY <1>5, Kinds
    <2>2. Mine(t) /\ array[Map(ticket[t])].idx = i
      BY <1>5, MineAt DEF Reached
    <2> QED BY <1>5, <2>1, <2>2 DEF Op, Fifo!Got
  <1>6. ASSUME pc[t] \in DeqAll, pc[t] \in DeqSlot => \A i : <<ticket[t], i>> \notin Placed
        PROVE  Op(t) = Fifo!Deq(mayFail[t])
    <2>1. pc[t] # "idle" /\ pc[t] \notin EnqBefore /\ pc[t] \notin EnqAfter
      BY <1>6, Kinds
    <2>2. ~(pc[t] \in DeqSlot /\ Mine(t))
      BY <1>6, MineAt DEF Reached
    <2> QED BY <1>6, <2>1, <2>2 DEF Op, Fifo!Deq
  <1> QED BY <1>1, <1>2, <1>3, <1>4, <1>5, <1>6 DEF OpIs

-----------------------------------------------------------------------------
(* What a step leaves as it is.                                            *)

\* A step that leaves the entries before head alone leaves the queue alone.
LEMMA SameQueue ==
  ASSUME Reached, Reached', Shown' = Shown
  PROVE  Queue' = Queue
  <1>1. ShowsQueue /\ ShowsQueue'
    BY QueueAt, PTL
  <1>2. Tickets' = Tickets
    BY <1>1 DEF ShowsQueue
  <1>3. Label' = Label
    <2>1. \A y \in Tickets : Label'[y] = Label[y]
      <3>1. ASSUME NEW y \in Tickets PROVE Label'[y] = Label[y]
        <4>1. PICK p \in Shown : p[1] = y
          BY <1>1 DEF ShowsQueue
        <4>2. p = <<p[1], Label[p[1]]>> /\ p = <<p[1], Label'[p[1]]>>
          BY <1>1 DEF ShowsQueue
        <4> QED BY <4>1, <4>2
      <3> QED BY <3>1
    <2> QED BY <1>1, <1>2, <2>1 DEF ShowsQueue
  <1> QED BY <1>1, <1>2, <1>3 DEF ShowsQueue, SeqOf

LEMMA SameSettled ==
  ASSUME Reached, Reached', Shown' = Shown,
         \A y \in Nat : y >= head => (Restoring(y)' <=> Restoring(y))
  PROVE  Settled' = Settled
  <1>1. ShowsQueue /\ ShowsQueue'
    BY QueueAt, PTL
  <1>2. \A p \in Shown : p[1] \in Nat /\ p[1] >= head
    BY ViewHolds DEF Shown, Reached, ViewOK
  <1>3. \A i : i \in Settled' <=> i \in Settled
    BY <1>1, <1>2 DEF ShowsQueue
  <1> QED BY <1>3

\* An enqueue that goes on keeps its record while nothing is claimed.
LEMMA EnqSame ==
  ASSUME Reached, Reached', Record, NEW t \in Threads, Invoke(t) \/ Step(t),
         \A p \in Shown : p[1] >= head',
         NEW u \in Threads, pc[u] \in EnqBefore, pc'[u] \in EnqBefore
  PROVE  pre'[u] = pre[u] /\ late'[u] = late[u]
  <1>1. pc[u] # "idle"
    BY Kinds
  <1>2. late'[u] = late[u] /\ pre'[u] = pre[u] \intersect IndexOf(Unclaimed)'
    BY <1>1, RecordEnq
  <1>3. ASSUME NEW i \in pre[u] PROVE i \in IndexOf(Unclaimed)'
    <2>1. PICK y \in head .. tail - 1 : <<y, i>> \in Placed
      BY DEF Reached, CallInv, Overtaken
    <2>2. y >= head
      BY DEF Reached, IInv, TypeOK
    <2>3. <<y, i>> \in Placed'
      BY <2>1, <2>2, TicketSteps DEF Reached, ReachInv
    <2>4. <<y, i>> \in Shown
      BY <2>1, <2>2 DEF Shown
    <2>5. y >= head'
      BY <2>4
    <2>6. <<y, i>> \in Shown'
      BY <2>3, <2>5 DEF Shown
    <2>7. ShowsQueue'
      BY QueueAt, PTL
    <2> QED BY <2>6, <2>7 DEF ShowsQueue
  <1> QED BY <1>2, <1>3

\* A step of t is none of another thread, unless it claims, inserts or removes
\* the index that this thread is at.
LEMMA OtherOp ==
  ASSUME Reached, Reached', Record, NEW t \in Threads, Invoke(t) \/ Step(t),
         NEW u \in Threads, u # t, Settled \subseteq Settled', \A p \in Shown : p[1] >= head',
         pc[u] \in DeqSlot => \A i : <<ticket[u], i>> \in Placed' <=> <<ticket[u], i>> \in Placed
  PROVE  Op(u)' = Op(u)
  <1>1. /\ pc'[u] = pc[u] /\ ticket'[u] = ticket[u] /\ eidx'[u] = eidx[u] /\ pc[u] \in PC
        /\ head \in Nat /\ head' \in Nat /\ head <= head' /\ ticket[u] \in Nat
    BY OthersStep, TicketSteps DEF Reached, ReachInv, IInv, TypeOK, Others
  <1>2. OpIs(u) /\ OpIs(u)'
    <2>1. OpsAre /\ OpsAre'
      BY OpAt, PTL
    <2> QED BY <2>1 DEF OpsAre
  <1>3. CASE pc[u] = "idle"
    BY <1>1, <1>2, <1>3 DEF OpIs, Fifo!Idle
  <1>4. CASE pc[u] \in EnqBefore
    <2>1. pre'[u] = pre[u] /\ late'[u] = late[u]
      BY <1>1, <1>4, EnqSame
    <2> QED BY <1>1, <1>2, <1>4, <2>1 DEF OpIs, Fifo!Enq
  <1>5. CASE pc[u] \in EnqAfter
    <2>1. CASE ticket[u] >= head
      <3>1. <<ticket[u], eidx[u]>> \in Placed
        BY <1>5, <2>1 DEF Reached, CallInv, OwnTicket
      <3>2. <<ticket[u], eidx[u]>> \in Shown
        BY <2>1, <3>1 DEF Shown
      <3>3. ticket[u] >= head'
        BY <3>2
      <3> QED BY <1>1, <1>2, <1>5, <2>1, <3>3 DEF OpIs, Fifo!Put
    <2>2. CASE ~(ticket[u] >= head)
      <3>1. ~(ticket[u] >= head')
        BY <1>1, <2>2
      <3> QED BY <1>1, <1>2, <1>5, <2>2, <3>1 DEF OpIs, Fifo!Given
    <2> QED BY <2>1, <2>2
  <1>6. CASE pc[u] \in DeqAll
    <2>1. CASE pc[u] \in DeqSlot /\ \E i : <<ticket[u], i>> \in Placed
      BY <1>1, <1>2, <2>1 DEF OpIs, Fifo!Got
    <2>2. CASE ~(pc[u] \in DeqSlot /\ \E i : <<ticket[u], i>> \in Placed)
      <3>1. mayFail'[u] = mayFail[u]
        BY <1>1, <1>6, RecordDeq DEF Reached, CallInv, MetEmpty
      <3> QED BY <1>1, <1>2, <1>6, <2>2, <3>1 DEF OpIs, Fifo!Deq
    <2> QED BY <2>1, <2>2
  <1> QED BY <1>1, <1>3, <1>4, <1>5, <1>6 DEF PC

\* A step that moves no entry, and begins or ends no insertion, changes at most
\* the operation of its thread.
LEMMA PlainStep ==
  ASSUME Reached, Reached', Record, NEW t \in Threads, Invoke(t) \/ Step(t),
         Placed' = Placed, Shown' = Shown,
         pc[t] \in EnqAfter <=> pc'[t] \in EnqAfter,
         pc[t] \in EnqAfter => ticket'[t] = ticket[t]
  PROVE  /\ Queue' = Queue /\ Settled' = Settled
         /\ \A u \in Threads : u # t => Op(u)' = Op(u)
  <1>1. Others(t)
    BY OthersStep DEF Reached, IInv
  <1>2. \A y : Restoring(y)' <=> Restoring(y)
    BY <1>1 DEF Restoring, Others
  <1>3. Queue' = Queue /\ Settled' = Settled
    BY <1>2, SameQueue, SameSettled
  <1>4. \A p \in Shown : p[1] >= head'
    BY DEF Shown
  <1> QED BY <1>3, <1>4, OtherOp

\* The operations of the threads, but for one, are as they were.
LEMMA OpExcept ==
  ASSUME NEW t \in Threads, NEW v, Op(t)' = v, \A u \in Threads : u # t => Op(u)' = Op(u)
  PROVE  [x \in Threads |-> Op(x)]' = [[x \in Threads |-> Op(x)] EXCEPT ![t] = v]
  OBVIOUS

-----------------------------------------------------------------------------
(* The steps of the abstract queue.                                        *)

\* EnqCall is Enqueue.
LEMMA EnqCallMaps ==
  ASSUME Reached, Reached', Record, NEW t \in Threads, NEW i \in pool, EnqCall(t, i)
  PROVE  Fifo!Enqueue(t)
  <1>1. /\ pc[t] = "idle" /\ pc'[t] = "e_tail" /\ eidx'[t] = i
        /\ UNCHANGED <<head, array, is_finalized>>
    BY DEF EnqCall, Call, Goto, shared, Reached, IInv, TypeOK
  <1>2. Placed' = Placed /\ Shown' = Shown
    BY <1>1, PlacedSame DEF Shown
  <1>3. Invoke(t) \/ Step(t)
    BY DEF Invoke
  <1>4. /\ Queue' = Queue /\ Settled' = Settled
        /\ \A u \in Threads : u # t => Op(u)' = Op(u)
    BY <1>1, <1>2, <1>3, PlainStep DEF EnqAfter
  <1>5. OpsAre /\ OpsAre' /\ ShowsQueue
    BY OpAt, QueueAt, PTL
  <1>6. Op(t) = Fifo!Idle
    BY <1>1, <1>5 DEF OpsAre, OpIs
  <1>7. Op(t)' = Fifo!Enq(i, Settled, is_finalized)
    <2>1. pre'[t] = Settled /\ late'[t] = is_finalized
      BY <1>1, RecordEnq DEF EnqBefore
    <2> QED BY <1>1, <1>5, <2>1 DEF OpsAre, OpIs, EnqBefore
  <1>8. i \in Indices \ Fifo!ToSet(Queue)
    <2>1. i \in Indices /\ i \in Spare
      BY ViewAt DEF Reached, IInv, TypeOK
    <2>2. ASSUME NEW j \in DOMAIN Queue PROVE Queue[j] # i
      <3>1. j \in 1 .. Cardinality(Tickets) /\ Queue[j] = Label[Nth(Tickets, j)]
            /\ Nth(Tickets, j) \in Tickets
        BY <1>5, NthOf DEF ShowsQueue, SeqOf
      <3>2. PICK p \in Shown : p[1] = Nth(Tickets, j)
        BY <1>5, <3>1 DEF ShowsQueue
      <3>3. p = <<p[1], Label[p[1]]>> /\ p \in Placed
        BY <1>5 DEF ShowsQueue, Shown
      <3>4. p[2] \notin Spare
        BY <3>3, ViewHolds DEF Reached, ViewOK
      <3> QED BY <2>1, <3>1, <3>2, <3>3, <3>4
    <2> QED BY <2>1, <2>2 DEF Fifo!ToSet
  <1>9. [x \in Threads |-> Op(x)]'
          = [[x \in Threads |-> Op(x)] EXCEPT ![t] = Fifo!Enq(i, Settled, is_finalized)]
    BY <1>4, <1>7, OpExcept
  <1>10. Fifo!Is(t, "idle")
    BY <1>6 DEF Fifo!Is, Fifo!Idle
  <1> QED BY <1>1, <1>4, <1>8, <1>9, <1>10 DEF Fifo!Enqueue

\* The refusal of an enqueue is Refuse.
LEMMA EnqFinMaps ==
  ASSUME Reached, Reached', Record, NEW t \in Threads, EnqFin(t), pc'[t] = "idle"
  PROVE  Fifo!Refuse(t)
  <1>1. /\ pc[t] = "e_fin" /\ is_finalized /\ UNCHANGED <<head, array, is_finalized>>
    BY DEF EnqFin, Return, Goto, shared, Reached, IInv, TypeOK
  <1>2. Placed' = Placed /\ Shown' = Shown
    BY <1>1, PlacedSame DEF Shown
  <1>3. Invoke(t) \/ Step(t)
    BY DEF Step, EnqStep
  <1>4. /\ Queue' = Queue /\ Settled' = Settled
        /\ \A u \in Threads : u # t => Op(u)' = Op(u)
    BY <1>1, <1>2, <1>3, PlainStep DEF EnqAfter
  <1>5. OpsAre /\ OpsAre'
    BY OpAt, PTL
  <1>6. Op(t) = Fifo!Enq(eidx[t], pre[t], late[t]) /\ Op(t)' = Fifo!Idle
    BY <1>1, <1>5 DEF OpsAre, OpIs, EnqBefore
  <1>7. [x \in Threads |-> Op(x)]' = [[x \in Threads |-> Op(x)] EXCEPT ![t] = Fifo!Idle]
    BY <1>4, <1>6, OpExcept
  <1>8. Fifo!Is(t, "enq")
    BY <1>6 DEF Fifo!Is, Fifo!Enq
  <1> QED BY <1>1, <1>4, <1>7, <1>8 DEF Fifo!Refuse

\* An insertion ends where its thread leaves EnqAfter.
LEMMA RestoreEnds ==
  ASSUME Reached, NEW t \in Threads, Others(t), pc[t] \in EnqAfter, pc'[t] \notin EnqAfter
  PROVE  \A y : Restoring(y)' <=> Restoring(y) /\ y # ticket[t]
  <1>1. \A u \in Threads : pc[u] \in EnqAfter /\ ticket[u] = ticket[t] => u = t
    BY DEF Reached, CallInv, OwnTicket
  <1> QED BY <1>1 DEF Restoring, Others

\* The return of an enqueue that has inserted its index is Done.
LEMMA EnqThrMaps ==
  ASSUME Reached, Reached', Record, NEW t \in Threads, EnqThrLoad(t) \/ EnqThrStore(t),
         pc'[t] = "idle"
  PROVE  Fifo!Done(t)
  <1>1. /\ pc[t] \in EnqAfter /\ pc'[t] \notin EnqAfter
        /\ UNCHANGED <<head, array, is_finalized>>
    BY DEF EnqThrLoad, EnqThrStore, Return, Goto, shared, EnqAfter, Reached, IInv, TypeOK
  <1>2. Placed' = Placed /\ Shown' = Shown
    BY <1>1, PlacedSame DEF Shown
  <1>3. Invoke(t) \/ Step(t)
    BY DEF Step, EnqStep
  <1>4. Queue' = Queue
    BY <1>2, SameQueue
  <1>5. \A y : Restoring(y)' <=> Restoring(y) /\ y # ticket[t]
    BY <1>1, <1>3, OthersStep, RestoreEnds DEF Reached, IInv
  <1>6. ShowsQueue /\ ShowsQueue' /\ OpsAre /\ OpsAre'
    BY QueueAt, OpAt, PTL
  <1>7. Settled \subseteq Settled'
    BY <1>2, <1>5, <1>6 DEF ShowsQueue
  <1>8. \A p \in Shown : p[1] >= head'
    BY <1>2 DEF Shown
  <1>9. \A u \in Threads : u # t => Op(u)' = Op(u)
    BY <1>2, <1>3, <1>7, <1>8, OtherOp
  <1>10. Op(t)' = Fifo!Idle
    BY <1>6 DEF OpsAre, OpIs
  <1>11. [x \in Threads |-> Op(x)]' = [[x \in Threads |-> Op(x)] EXCEPT ![t] = Fifo!Idle]
    BY <1>9, <1>10, OpExcept
  <1>12. CASE ticket[t] >= head
    <2>1. Op(t) = Fifo!Put(eidx[t])
      BY <1>1, <1>6, <1>12 DEF OpsAre, OpIs
    <2>2. <<ticket[t], eidx[t]>> \in Placed
      BY <1>1, <1>12 DEF Reached, CallInv, OwnTicket
    <2>3. <<ticket[t], eidx[t]>> \in Shown
      BY <1>12, <2>2 DEF Shown
    <2>4. ASSUME NEW i \in Settled' PROVE i \in Settled \union {eidx[t]}
      <3>1. PICK p \in Shown : i = p[2] /\ ~Restoring(p[1])'
        BY <1>2, <1>6 DEF ShowsQueue
      <3>2. CASE p[1] # ticket[t]
        BY <1>5, <1>6, <3>1, <3>2 DEF ShowsQueue
      <3>3. CASE p[1] = ticket[t]
        <4>1. p = <<p[1], p[2]>>
          BY <1>6 DEF ShowsQueue
        <4>2. p[2] \in Indices /\ p \in Placed
          BY ViewHolds DEF Shown, Reached, ViewOK
        <4>3. \A j \in Indices : <<ticket[t], j>> \in Placed => j = eidx[t]
          BY <1>1 DEF Reached, CallInv, OwnTicket
        <4>4. <<ticket[t], p[2]>> \in Placed
          BY <3>3, <4>1, <4>2
        <4> QED BY <3>1, <4>2, <4>3, <4>4
      <3> QED BY <3>2, <3>3
    <2>5. eidx[t] \in Settled'
      <3>1. ~Restoring(ticket[t])' \/ ticket'[t] # ticket[t]
        BY <1>5
      <3>2. \A y : y = ticket[t] => ~Restoring(y)'
        BY <1>5
      <3>3. \A p \in Shown : p[1] = ticket[t] => p[2] \in Settled'
        BY <1>2, <1>6, <3>2 DEF ShowsQueue
      <3> QED BY <2>3, <3>3
    <2>6. Settled' = Settled \union {eidx[t]}
      BY <1>7, <2>4, <2>5
    <2>7. [x \in Threads |-> Op(x)][t] = Fifo!Put(eidx[t])
      BY <2>1
    <2> HIDE DEF Op
    <2>8. /\ [x \in Threads |-> Op(x)][t].kind = "put"
          /\ [x \in Threads |-> Op(x)][t].idx = eidx[t]
      BY <2>7 DEF Fifo!Put
    <2> QED BY <1>1, <1>4, <1>11, <2>6, <2>8 DEF Fifo!Done, Fifo!Is
  <1>13. CASE ~(ticket[t] >= head)
    <2>1. Op(t) = Fifo!Given
      BY <1>1, <1>6, <1>13 DEF OpsAre, OpIs
    <2>2. \A y \in Nat : y >= head => (Restoring(y)' <=> Restoring(y))
      BY <1>5, <1>13
    <2>3. Settled' = Settled
      BY <1>2, <2>2, SameSettled
    <2>4. [x \in Threads |-> Op(x)][t].kind = "given"
      BY <2>1 DEF Fifo!Given
    <2> QED BY <1>1, <1>4, <1>11, <2>3, <2>4 DEF Fifo!Done, Fifo!Is
  <1> QED BY <1>12, <1>13

\* DeqCall is Dequeue.
LEMMA DeqCallMaps ==
  ASSUME Reached, Reached', Record, NEW t \in Threads, DeqCall(t)
  PROVE  Fifo!Dequeue(t)
  <1>1. /\ pc[t] = "idle" /\ pc'[t] = "d_thr" /\ UNCHANGED <<head, array, is_finalized>>
    BY DEF DeqCall, Call, Goto, shared, Reached, IInv, TypeOK
  <1>2. Placed' = Placed /\ Shown' = Shown
    BY <1>1, PlacedSame DEF Shown
  <1>3. Invoke(t) \/ Step(t)
    BY DEF Invoke
  <1>4. /\ Queue' = Queue /\ Settled' = Settled
        /\ \A u \in Threads : u # t => Op(u)' = Op(u)
    BY <1>1, <1>2, <1>3, PlainStep DEF EnqAfter
  <1>5. OpsAre /\ OpsAre'
    BY OpAt, PTL
  <1>6. mayFail'[t] = (Settled = {})
    <2>1. pc'[t] \in DeqAll /\ ~mayFail[t]
      BY <1>1, Kinds DEF DeqAll, Reached, CallInv, MetEmpty
    <2> QED BY <1>4, <2>1, RecordDeq
  <1>7. Op(t) = Fifo!Idle /\ Op(t)' = Fifo!Deq(Settled = {})
    BY <1>1, <1>5, <1>6 DEF OpsAre, OpIs, DeqAll, DeqSlot
  <1>8. [x \in Threads |-> Op(x)]'
          = [[x \in Threads |-> Op(x)] EXCEPT ![t] = Fifo!Deq(Settled = {})]
    BY <1>4, <1>7, OpExcept
  <1>9. Fifo!Is(t, "idle")
    BY <1>7 DEF Fifo!Is, Fifo!Idle
  <1> QED BY <1>1, <1>4, <1>8, <1>9 DEF Fifo!Dequeue

\* A return without an index is None.
LEMMA NoneMaps ==
  ASSUME Reached, Reached', Record, NEW t \in Threads, DeqThr(t) \/ DeqNone(t) \/ DeqSub(t),
         pc'[t] = "idle"
  PROVE  Fifo!None(t)
  <1>1. mayFail[t] /\ pc[t] \in {"d_thr", "d_none", "d_sub"}
    BY NoneMet DEF Reached, ReachInv, CallInv
  <1>2. UNCHANGED <<head, array, is_finalized>>
    BY DEF DeqThr, DeqNone, DeqSub, shared
  <1>3. Placed' = Placed /\ Shown' = Shown
    BY <1>2, PlacedSame DEF Shown
  <1>4. Invoke(t) \/ Step(t)
    BY DEF Step, DeqStep
  <1>5. /\ Queue' = Queue /\ Settled' = Settled
        /\ \A u \in Threads : u # t => Op(u)' = Op(u)
    BY <1>1, <1>3, <1>4, PlainStep DEF EnqAfter
  <1>6. OpsAre /\ OpsAre'
    BY OpAt, PTL
  <1>7. Op(t) = Fifo!Deq(mayFail[t]) /\ Op(t)' = Fifo!Idle
    BY <1>1, <1>6 DEF OpsAre, OpIs, DeqAll, DeqSlot
  <1>8. [x \in Threads |-> Op(x)]' = [[x \in Threads |-> Op(x)] EXCEPT ![t] = Fifo!Idle]
    BY <1>5, <1>7, OpExcept
  <1>9. Fifo!Is(t, "deq") /\ [x \in Threads |-> Op(x)][t].mayFail
    BY <1>1, <1>7 DEF Fifo!Is, Fifo!Deq
  <1> QED BY <1>2, <1>5, <1>8, <1>9 DEF Fifo!None

\* Finalize is Close.
LEMMA FinalizeMaps ==
  ASSUME Reached, Reached', Record, NEW t \in Threads, Finalize(t)
  PROVE  Fifo!Close
  <1>1. /\ pc[t] = "idle" /\ pc'[t] = "idle" /\ is_finalized' = TRUE /\ UNCHANGED <<head, array>>
    BY DEF Finalize, Call, Goto, shared, Reached, IInv, TypeOK
  <1>2. Placed' = Placed /\ Shown' = Shown
    BY <1>1, PlacedSame DEF Shown
  <1>3. Invoke(t) \/ Step(t)
    BY DEF Invoke
  <1>4. /\ Queue' = Queue /\ Settled' = Settled
        /\ \A u \in Threads : u # t => Op(u)' = Op(u)
    BY <1>1, <1>2, <1>3, PlainStep DEF EnqAfter
  <1>5. OpsAre /\ OpsAre'
    BY OpAt, PTL
  <1>6. Op(t)' = Op(t)
    BY <1>1, <1>5 DEF OpsAre, OpIs, Fifo!Idle
  <1>7. [x \in Threads |-> Op(x)]' = [x \in Threads |-> Op(x)]
    BY <1>4, <1>6
  <1> QED BY <1>1, <1>4, <1>7 DEF Fifo!Close

\* DeqOr is Some.
LEMMA DeqOrMaps ==
  ASSUME Reached, Reached', Record, NEW t \in Threads, DeqOr(t)
  PROVE  Fifo!Some(t)
  <1>1. /\ pc[t] = "d_or" /\ pc'[t] = "idle" /\ UNCHANGED <<head, is_finalized>>
    BY DEF DeqOr, Return, Goto, Reached, IInv, TypeOK
  <1> DEFINE q == <<ticket[t], entry[t].idx>>
  <1>2. q \in Placed /\ q[1] < head /\ Placed' = Placed \ {q} /\ q[1] = ticket[t]
    BY DeqOrView DEF Reached, Removes
  <1>3. head \in Nat /\ ticket[t] \in Nat
    BY DEF Reached, IInv, TypeOK
  <1>4. Shown' = Shown
    BY <1>1, <1>2, <1>3 DEF Shown
  <1>5. Invoke(t) \/ Step(t)
    BY DEF Step, DeqStep
  <1>6. \A y : Restoring(y)' <=> Restoring(y)
    BY <1>1, <1>5, OthersStep DEF Restoring, Others, EnqAfter, Reached, IInv
  <1>7. Queue' = Queue /\ Settled' = Settled
    BY <1>4, <1>6, SameQueue, SameSettled
  <1>8. ASSUME NEW u \in Threads, u # t PROVE Op(u)' = Op(u)
    <2>1. pc[u] \in DeqSlot => ticket[u] # ticket[t]
      BY <1>1, <1>8 DEF Reached, IInv, TicketsOk, DeqSlot
    <2>2. pc[u] \in DeqSlot => \A i : <<ticket[u], i>> \in Placed' <=> <<ticket[u], i>> \in Placed
      BY <1>2, <2>1
    <2>3. \A p \in Shown : p[1] >= head'
      BY <1>4 DEF Shown
    <2> QED BY <1>5, <1>7, <1>8, <2>2, <2>3, OtherOp
  <1>9. OpsAre /\ OpsAre'
    BY OpAt, PTL
  <1>10. Op(t) = Fifo!Got(entry[t].idx) /\ Op(t)' = Fifo!Idle
    BY <1>1, <1>2, <1>9 DEF OpsAre, OpIs, DeqSlot
  <1>11. [x \in Threads |-> Op(x)]' = [[x \in Threads |-> Op(x)] EXCEPT ![t] = Fifo!Idle]
    BY <1>8, <1>10, OpExcept
  <1>12. Fifo!Is(t, "got")
    BY <1>10 DEF Fifo!Is, Fifo!Got
  <1> QED BY <1>1, <1>7, <1>11, <1>12 DEF Fifo!Some

\* The compare_exchange of an enqueue whose ticket head has not passed is
\* Insert, at the place its ticket gives it.
LEMMA InsertMaps ==
  ASSUME Reached, Reached', Record, NEW t \in Threads, EnqCasOk(t), ticket[t] >= head
  PROVE  Fifo!Insert(t)
  <1> DEFINE y == ticket[t]
             k == Rank(Tickets, y) + 1
  <1>1. /\ pc[t] = "e_cas" /\ pc'[t] = "e_thr" /\ ticket'[t] = y /\ eidx'[t] = eidx[t]
        /\ head' = head /\ is_finalized' = is_finalized
        /\ y \in Nat /\ eidx[t] \in Indices /\ head \in Nat
        /\ Placed' = Placed \union {<<y, eidx[t]>>}
        /\ \A p \in Placed : p[1] # y
    <2>1. is_finalized' = is_finalized /\ head \in Nat
      BY DEF EnqCasOk, Reached, IInv, TypeOK
    <2> QED BY <2>1, InsertAlone DEF Reached, ReachInv
  <1>2. Invoke(t) \/ Step(t)
    BY DEF Step, EnqStep
  <1>3. ShowsQueue /\ ShowsQueue' /\ OpsAre /\ OpsAre'
    BY QueueAt, OpAt, PTL
  <1>4. Shown' = Shown \union {<<y, eidx[t]>>}
    BY <1>1 DEF Shown
  <1>5. Tickets' = Tickets \union {y} /\ y \in Nat \ Tickets
    <2>1. \A p \in Shown : p[1] # y
      BY <1>1 DEF Shown
    <2>2. Tickets = {p[1] : p \in Shown} /\ Tickets' = {p[1] : p \in Shown'}
      BY <1>3 DEF ShowsQueue
    <2>3. \A x \in Tickets' : x \in Tickets \/ x = y
      <3>1. \A p \in Shown' : p \in Shown \/ p = <<y, eidx[t]>>
        BY <1>4
      <3> QED BY <2>2, <3>1
    <2>4. \A x \in Tickets : x \in Tickets'
      BY <1>4, <2>2
    <2>5. y \in Tickets'
      <3>1. <<y, eidx[t]>> \in Shown' /\ <<y, eidx[t]>>[1] = y
        BY <1>4
      <3> QED BY <2>2, <3>1
    <2>6. y \in Nat \ Tickets
      BY <1>1, <2>1, <2>2
    <2> QED BY <2>3, <2>4, <2>5, <2>6
  <1>6. Label' \in [Tickets \union {y} -> Indices] /\ Label'[y] = eidx[t]
        /\ \A x \in Tickets : Label'[x] = Label[x]
    <2>1. <<y, eidx[t]>> \in Shown'
      BY <1>4
    <2>2. Label'[y] = eidx[t]
      BY <1>3, <2>1 DEF ShowsQueue
    <2>3. ASSUME NEW x \in Tickets PROVE Label'[x] = Label[x]
      <3>1. PICK p \in Shown : p[1] = x
        BY <1>3 DEF ShowsQueue
      <3>2. p = <<p[1], Label[p[1]]>> /\ p = <<p[1], Label'[p[1]]>>
        BY <1>3, <1>4 DEF ShowsQueue
      <3> QED BY <3>1, <3>2
    <2> QED BY <1>3, <1>5, <2>2, <2>3 DEF ShowsQueue
  <1>7. Queue' = Fifo!InsertAt(Queue, k, eidx[t])
    <2> DEFINE f == Label'
               K == Tickets
               g == Label
    <2>1. /\ K \in SUBSET Nat /\ IsFiniteSet(K) /\ g \in [K -> Indices]
          /\ Queue = SeqOf(K, g) /\ Queue' = SeqOf(K \union {y}, f)
      BY <1>3, <1>5 DEF ShowsQueue, SeqOf
    <2>2. f \in [K \union {y} -> Indices] /\ f[y] = eidx[t] /\ \A x \in K : f[x] = g[x]
      BY <1>6
    <2>3. y \in Nat \ K
      BY <1>5
    <2> HIDE DEF f, y, K, g
    <2>4. Extends(K, y, f, g)
      BY <2>1, <2>2, <2>3, SeqOfInsert
    <2>5. Rank(K, y) + 1 = k
      BY DEF K
    <2> HIDE DEF k
    <2> QED BY <2>1, <2>2, <2>4, <2>5 DEF Extends
  <1>8. /\ k \in 1 .. Len(Queue) + 1
        /\ \A j \in k .. Len(Queue) : Queue[j] \notin pre[t]
    <2>1. /\ Tickets \in SUBSET Nat /\ IsFiniteSet(Tickets) /\ Label \in [Tickets -> Indices]
          /\ Queue = SeqOf(Tickets, Label)
      BY <1>3 DEF ShowsQueue
    <2> HIDE DEF y
    <2>2. /\ Len(Queue) = Cardinality(Tickets) /\ Cardinality(Tickets) \in Nat
          /\ \A j \in 1 .. Cardinality(Tickets) :
               Queue[j] = Label[Nth(Tickets, j)] /\ Nth(Tickets, j) \in Tickets
      BY <2>1, SeqOfType, RankOrder
    <2>3. /\ k \in 1 .. Cardinality(Tickets) + 1
          /\ \A j \in k .. Cardinality(Tickets) : y < Nth(Tickets, j)
      BY <1>5, <2>1, NthInsert
    <2>4. ASSUME NEW j \in k .. Len(Queue), Queue[j] \in pre[t] PROVE FALSE
      <3>1. j \in 1 .. Cardinality(Tickets) /\ j \in k .. Cardinality(Tickets)
        BY <2>2, <2>3
      <3>2. PICK z \in head .. tail - 1 : <<z, Queue[j]>> \in Placed /\ z < ticket[t]
        BY <1>1, <2>4 DEF Reached, CallInv, Overtaken, InHand, EnqBefore
      <3>3. PICK p \in Shown : p[1] = Nth(Tickets, j)
        BY <1>3, <2>2, <3>1 DEF ShowsQueue
      <3>4. p = <<p[1], Label[p[1]]>> /\ p \in Placed
        BY <1>3 DEF ShowsQueue, Shown
      <3>5. p[2] = Queue[j]
        BY <2>2, <3>1, <3>3, <3>4
      <3> DEFINE q == <<z, Queue[j]>>
      <3>6. q \in Placed /\ q[2] = p[2] /\ q[1] = z
        BY <3>2, <3>5
      <3> HIDE DEF q
      <3>7. p = q
        BY <3>4, <3>6, ViewHolds DEF Reached, ViewOK
      <3>8. y < z /\ z < y /\ z \in Int /\ y \in Int
        <4>1. y < z
          BY <2>3, <3>1, <3>3, <3>6, <3>7
        <4>2. z \in Int /\ y \in Int
          BY <1>1 DEF y, Reached, IInv, TypeOK
        <4> QED BY <3>2, <4>1, <4>2 DEF y
      <3> QED BY <3>8
    <2> QED BY <2>2, <2>3, <2>4
  <1> HIDE DEF k
  <1>9. \A z : z # y => (Restoring(z)' <=> Restoring(z))
    BY <1>1, <1>2, OthersStep DEF Restoring, Others, EnqAfter, Reached, IInv
  <1>10. \A z : z = y => Restoring(z)'
    BY <1>1 DEF Restoring, EnqAfter
  <1>11. Settled' = Settled
    <2>1. ASSUME NEW i \in Settled PROVE i \in Settled'
      <3>1. PICK p \in Shown : i = p[2] /\ ~Restoring(p[1])
        BY <1>3 DEF ShowsQueue
      <3>2. p[1] # y /\ p \in Shown'
        BY <1>1, <1>4 DEF Shown
      <3>3. ~Restoring(p[1])'
        BY <1>9, <3>1, <3>2
      <3> QED BY <1>3, <3>1, <3>2, <3>3 DEF ShowsQueue
    <2>2. ASSUME NEW i \in Settled' PROVE i \in Settled
      <3>1. PICK p \in Shown' : i = p[2] /\ ~Restoring(p[1])'
        BY <1>3 DEF ShowsQueue
      <3>2. p[1] # y
        BY <1>10, <3>1
      <3>3. p \in Shown /\ ~Restoring(p[1])
        BY <1>4, <1>9, <3>1, <3>2
      <3> QED BY <1>3, <3>1, <3>3 DEF ShowsQueue
    <2> QED BY <2>1, <2>2
  <1>12. ASSUME NEW u \in Threads, u # t PROVE Op(u)' = Op(u)
    <2>1. pc[u] \in DeqSlot => ticket[u] # y
      <3>1. pc[u] \in DeqSlot => ticket[u] < head /\ ticket[u] \in Nat
        BY DEF Reached, IInv, TicketsOk, TypeOK
      <3> QED BY <1>1, <3>1
    <2>2. pc[u] \in DeqSlot => \A i : <<ticket[u], i>> \in Placed' <=> <<ticket[u], i>> \in Placed
      BY <1>1, <2>1
    <2>3. \A p \in Shown : p[1] >= head'
      BY <1>1 DEF Shown
    <2> QED BY <1>2, <1>11, <1>12, <2>2, <2>3, OtherOp
  <1>13. Op(t) = Fifo!Enq(eidx[t], pre[t], late[t]) /\ Op(t)' = Fifo!Put(eidx[t])
    <2>1. pc[t] \in EnqBefore /\ pc'[t] \in EnqAfter /\ ticket'[t] >= head'
      BY <1>1 DEF EnqBefore, EnqAfter
    <2> QED BY <1>1, <1>3, <2>1 DEF OpsAre, OpIs
  <1>14. [x \in Threads |-> Op(x)]' = [[x \in Threads |-> Op(x)] EXCEPT ![t] = Fifo!Put(eidx[t])]
    BY <1>12, <1>13, OpExcept
  <1>15. [x \in Threads |-> Op(x)][t] = Fifo!Enq(eidx[t], pre[t], late[t])
    BY <1>13
  <1>16. /\ Fifo!Is(t, "enq")
         /\ [x \in Threads |-> Op(x)][t].idx = eidx[t]
         /\ [x \in Threads |-> Op(x)][t].pre = pre[t]
         /\ [x \in Threads |-> Op(x)][t].late = late[t]
    BY <1>15 DEF Fifo!Is, Fifo!Enq
  <1>17. ~late[t]
    BY <1>1 DEF Reached, CallInv, LateRefused
  <1> QED BY <1>1, <1>7, <1>8, <1>11, <1>14, <1>16, <1>17 DEF Fifo!Insert

\* The insertion of an index that head has passed is the index that its dequeue
\* waits for.
LEMMA InsertFound ==
  ASSUME Reached, Reached', NEW t \in Threads, EnqCasOk(t), ticket[t] < head
  PROVE  \E d \in Threads : d # t /\ pc[d] \in DeqSlot /\ ticket[d] = ticket[t]
  <1>1. /\ Others(t) /\ pc'[t] = "e_thr" /\ head' = head
        /\ <<ticket[t], eidx[t]>> \in Placed'
    BY OthersStep, InsertAlone DEF Reached, ReachInv, IInv, Step, EnqStep
  <1>2. PICK s \in Slots : /\ IsLive(array'[s])
                           /\ <<ticket[t], eidx[t]>> = <<TicketAt(array'[s].cyc, s), array'[s].idx>>
    BY <1>1, ViewAtNext
  <1>3. TicketAt(array'[s].cyc, s) = ticket[t]
    BY <1>2
  <1>4. NoOrphan'
    BY DEF Reached, IInv
  <1>5. PICK d \in Threads : pc'[d] \in DeqSlot /\ ticket'[d] = TicketAt(array'[s].cyc, s)
    BY <1>1, <1>2, <1>3, <1>4 DEF NoOrphan, TicketOf
  <1>6. d # t
    BY <1>1, <1>5 DEF DeqSlot
  <1> QED BY <1>1, <1>3, <1>5, <1>6 DEF Others

\* The operations of the threads, but for two, are as they were.
LEMMA OpExceptTwo ==
  ASSUME NEW t \in Threads, NEW d \in Threads, d # t, NEW v, NEW w, Op(t)' = v, Op(d)' = w,
         \A u \in Threads : u # t /\ u # d => Op(u)' = Op(u)
  PROVE  [x \in Threads |-> Op(x)]' = [[x \in Threads |-> Op(x)] EXCEPT ![t] = v, ![d] = w]
  <1> HIDE DEF Op
  <1>1. [[x \in Threads |-> Op(x)] EXCEPT ![t] = v, ![d] = w]
          = [x \in Threads |-> IF x = d THEN w ELSE IF x = t THEN v ELSE Op(x)]
    OBVIOUS
  <1>2. \A x \in Threads : Op(x)' = IF x = d THEN w ELSE IF x = t THEN v ELSE Op(x)
    OBVIOUS
  <1> QED BY <1>1, <1>2

\* The compare_exchange of an enqueue whose ticket head has passed is HandOver.
LEMMA HandOverMaps ==
  ASSUME Reached, Reached', Record, NEW t \in Threads, EnqCasOk(t), ticket[t] < head
  PROVE  \E d \in Threads : Fifo!HandOver(t, d)
  <1> DEFINE y == ticket[t]
             q == <<y, eidx[t]>>
  <1>1. /\ pc[t] = "e_cas" /\ pc'[t] = "e_thr" /\ ticket'[t] = y /\ eidx'[t] = eidx[t]
        /\ head' = head /\ is_finalized' = is_finalized
        /\ y \in Nat /\ eidx[t] \in Indices /\ head \in Nat
        /\ Placed' = Placed \union {q} /\ q[1] = y
        /\ \A p \in Placed : p[1] # y
    <2>1. is_finalized' = is_finalized /\ head \in Nat
      BY DEF EnqCasOk, Reached, IInv, TypeOK
    <2> QED BY <2>1, InsertAlone DEF Reached, ReachInv
  <1>2. (Invoke(t) \/ Step(t)) /\ Others(t)
    BY OthersStep DEF Step, EnqStep, Reached, IInv
  <1>3. OpsAre /\ OpsAre'
    BY OpAt, PTL
  <1>4. PICK d \in Threads : d # t /\ pc[d] \in DeqSlot /\ ticket[d] = y
    BY InsertFound
  <1>5. Shown' = Shown
    BY <1>1 DEF Shown
  <1>6. \A z \in Nat : z >= head => (Restoring(z)' <=> Restoring(z))
    <2>1. \A z : z # y => (Restoring(z)' <=> Restoring(z))
      BY <1>1, <1>2 DEF Restoring, Others, EnqAfter
    <2>2. \A z \in Nat : z >= head => z # y
      BY <1>1
    <2> QED BY <2>1, <2>2
  <1>7. Queue' = Queue /\ Settled' = Settled
    BY <1>5, <1>6, SameQueue, SameSettled
  <1>8. ASSUME NEW u \in Threads, u # t /\ u # d PROVE Op(u)' = Op(u)
    <2>1. pc[u] \in DeqSlot => ticket[u] # y
      BY <1>4, <1>8 DEF Reached, IInv, TicketsOk
    <2>2. pc[u] \in DeqSlot => \A i : <<ticket[u], i>> \in Placed' <=> <<ticket[u], i>> \in Placed
      BY <1>1, <2>1
    <2>3. \A p \in Shown : p[1] >= head'
      BY <1>1 DEF Shown
    <2> QED BY <1>2, <1>7, <1>8, <2>2, <2>3, OtherOp
  <1>9. Op(t) = Fifo!Enq(eidx[t], pre[t], late[t]) /\ Op(t)' = Fifo!Given
    <2>1. pc[t] \in EnqBefore /\ pc'[t] \in EnqAfter
      BY <1>1 DEF EnqBefore, EnqAfter
    <2>2. ~(ticket'[t] >= head')
      BY <1>1
    <2> QED BY <1>3, <2>1, <2>2 DEF OpsAre, OpIs
  <1>10. Op(d) = Fifo!Deq(mayFail[d]) /\ Op(d)' = Fifo!Got(eidx[t])
    <2>1. \A i : <<ticket[d], i>> \notin Placed
      BY <1>1, <1>4
    <2>2. Op(d) = Fifo!Deq(mayFail[d])
      BY <1>3, <1>4, <2>1, Kinds DEF OpsAre, OpIs
    <2>3. pc'[d] \in DeqSlot /\ ticket'[d] = y /\ <<y, eidx[t]>> \in Placed'
      BY <1>1, <1>2, <1>4 DEF Others
    <2>4. Op(d)' = Fifo!Got(eidx[t])
      BY <1>3, <2>3 DEF OpsAre, OpIs
    <2> QED BY <2>2, <2>4
  <1>11. [x \in Threads |-> Op(x)]'
           = [[x \in Threads |-> Op(x)] EXCEPT ![t] = Fifo!Given, ![d] = Fifo!Got(eidx[t])]
    BY <1>4, <1>8, <1>9, <1>10, OpExceptTwo
  <1>12. pre[t] = {} /\ ~late[t]
    <2>1. ASSUME NEW i \in pre[t] PROVE FALSE
      <3>1. PICK z \in head .. tail - 1 : z < y
        BY <1>1 DEF Reached, CallInv, Overtaken, InHand, EnqBefore
      <3> QED BY <1>1, <3>1 DEF Reached, IInv, TypeOK
    <2> QED BY <1>1, <2>1 DEF Reached, CallInv, LateRefused
  <1>13. [x \in Threads |-> Op(x)][t] = Fifo!Enq(eidx[t], pre[t], late[t])
    BY <1>9
  <1>14. /\ Fifo!Is(t, "enq") /\ Fifo!Is(d, "deq")
         /\ [x \in Threads |-> Op(x)][t].idx = eidx[t]
         /\ [x \in Threads |-> Op(x)][t].pre = pre[t]
         /\ [x \in Threads |-> Op(x)][t].late = late[t]
    BY <1>10, <1>13 DEF Fifo!Is, Fifo!Enq, Fifo!Deq
  <1>15. Fifo!HandOver(t, d)
    BY <1>1, <1>7, <1>11, <1>12, <1>14 DEF Fifo!HandOver
  <1> QED BY <1>15

\* The fetch_add on head takes the first ticket away.
LEMMA ClaimShown ==
  ASSUME Reached, Reached', NEW t \in Threads, DeqHead(t), head \in Tickets
  PROVE  /\ Placed' = Placed /\ head' = head + 1 /\ head \in Nat
         /\ <<head, Label[head]>> \in Shown
         /\ \A p : p \in Shown' <=> p \in Shown /\ p[1] # head
         /\ \A p \in Shown : p[2] = Label[head] <=> p[1] = head
         /\ \A y : Restoring(y)' <=> Restoring(y)
  <1>1. /\ pc[t] = "d_head" /\ pc'[t] = "d_load" /\ head' = head + 1 /\ array' = array /\ head \in Nat
    BY DEF DeqHead, Goto, Reached, IInv, TypeOK
  <1>2. Others(t)
    BY OthersStep DEF Reached, IInv, Step, DeqStep
  <1>3. Placed' = Placed
    BY <1>1, PlacedSame
  <1>4. ShowsQueue
    BY QueueAt
  <1>5. PICK q \in Shown : q[1] = head
    BY <1>4 DEF ShowsQueue
  <1>6. q = <<head, Label[head]>>
    BY <1>4, <1>5 DEF ShowsQueue
  <1>7. \A p \in Placed : p[1] \in Nat
    BY ViewHolds DEF Reached, ViewOK
  <1>8. \A p : p \in Shown' <=> p \in Shown /\ p[1] # head
    BY <1>1, <1>3, <1>7 DEF Shown
  <1>9. ASSUME NEW p \in Shown PROVE p[2] = Label[head] <=> p[1] = head
    <2>1. p \in Placed /\ q \in Placed /\ q[2] = Label[head]
      BY <1>5, <1>6 DEF Shown
    <2>2. p[2] = q[2] => p = q
      BY <2>1, ViewHolds DEF Reached, ViewOK
    <2>3. p = <<p[1], Label[p[1]]>>
      BY <1>4 DEF ShowsQueue
    <2> QED BY <1>5, <2>1, <2>2, <2>3
  <1>10. \A y : Restoring(y)' <=> Restoring(y)
    BY <1>1, <1>2 DEF Restoring, Others, EnqAfter
  <1> QED BY <1>1, <1>3, <1>5, <1>6, <1>8, <1>9, <1>10

\* The queue loses its first index.
LEMMA ClaimQueue ==
  ASSUME Reached, Reached', NEW t \in Threads, DeqHead(t), head \in Tickets
  PROVE  /\ Queue # <<>> /\ Head(Queue) = Label[head] /\ Queue' = Tail(Queue)
         /\ Settled' = Settled \ {Label[head]}
         /\ IndexOf(Unclaimed)' = IndexOf(Unclaimed) \ {Label[head]}
  <1> DEFINE i == Label[head]
  <1>1. ShowsQueue /\ ShowsQueue'
    BY QueueAt, PTL
  <1>2. /\ \A p : p \in Shown' <=> p \in Shown /\ p[1] # head
        /\ \A p \in Shown : p[2] = i <=> p[1] = head
        /\ \A y : Restoring(y)' <=> Restoring(y)
    BY ClaimShown
  <1> HIDE DEF i
  <1>3. \A x : x \in Tickets' <=> x \in Tickets /\ x # head
    BY <1>1, <1>2 DEF ShowsQueue
  <1>4. \A x \in Tickets : head <= x
    BY <1>1 DEF ShowsQueue, Shown
  <1>5. \A x \in Tickets \ {head} : Label[x] = Label'[x]
    <2>1. ASSUME NEW x \in Tickets, x # head PROVE Label'[x] = Label[x]
      <3>1. PICK p \in Shown : p[1] = x
        BY <1>1 DEF ShowsQueue
      <3>2. p \in Shown'
        BY <1>2, <2>1, <3>1
      <3>3. p = <<p[1], Label[p[1]]>> /\ p = <<p[1], Label'[p[1]]>>
        BY <1>1, <3>2 DEF ShowsQueue
      <3> QED BY <3>1, <3>3
    <2> QED BY <2>1
  <1>6. Queue # <<>> /\ Head(Queue) = Label[head] /\ Queue' = Tail(Queue)
    <2> DEFINE K == Tickets
               y == head
               f == Label
               g == Label'
    <2>1. K' = K \ {y}
      BY <1>3
    <2>2. /\ K \in SUBSET Nat /\ IsFiniteSet(K) /\ f \in [K -> Indices] /\ Queue = SeqOf(K, f)
          /\ g \in [K' -> Indices] /\ Queue' = SeqOf(K', g)
      BY <1>1 DEF ShowsQueue, SeqOf
    <2>3. y \in K /\ (\A x \in K : y <= x) /\ \A x \in K \ {y} : f[x] = g[x]
      BY <1>4, <1>5
    <2>4. g \in [K \ {y} -> Indices] /\ Queue' = SeqOf(K \ {y}, g)
      BY <2>1, <2>2
    <2> HIDE DEF K, y, f, g
    <2>5. Loses(K, y, f, g)
      BY <2>2, <2>3, <2>4, SeqOfTail
    <2>6. Queue # <<>> /\ Head(Queue) = f[y] /\ Queue' = Tail(Queue)
      BY <2>2, <2>4, <2>5 DEF Loses
    <2> QED BY <2>6 DEF f, y
  <1>7. \A j : j \in Settled' <=> j \in Settled /\ j # i
    BY <1>1, <1>2 DEF ShowsQueue
  <1>8. \A j : j \in IndexOf(Unclaimed)' <=> j \in IndexOf(Unclaimed) /\ j # i
    BY <1>1, <1>2 DEF ShowsQueue
  <1>9. Settled' = Settled \ {i} /\ IndexOf(Unclaimed)' = IndexOf(Unclaimed) \ {i}
    BY <1>7, <1>8
  <1> QED BY <1>6, <1>9 DEF i

\* The operations of the other threads when an index is claimed.
LEMMA ClaimForgets ==
  ASSUME Reached, Reached', Record, NEW t \in Threads, DeqHead(t), head \in Tickets,
         NEW u \in Threads, u # t
  PROVE  Op(u)' = Fifo!Forget(Op(u), Label[head], Settled')
  <1> DEFINE i == Label[head]
             rest == Settled'
  <1>1. /\ Placed' = Placed /\ head' = head + 1 /\ head \in Nat /\ <<head, i>> \in Placed
        /\ \A p \in Shown : p[2] = i <=> p[1] = head
    BY ClaimShown DEF Shown
  <1>2. IndexOf(Unclaimed)' = IndexOf(Unclaimed) \ {i}
    BY ClaimQueue
  <1>3. /\ pc'[u] = pc[u] /\ ticket'[u] = ticket[u] /\ eidx'[u] = eidx[u] /\ pc[u] \in PC
        /\ ticket[u] \in Nat
    BY OthersStep DEF Reached, IInv, TypeOK, Others, Step, DeqStep
  <1>4. OpIs(u) /\ OpIs(u)'
    <2>1. OpsAre /\ OpsAre'
      BY OpAt, PTL
    <2> QED BY <2>1 DEF OpsAre
  <1> HIDE DEF i, rest
  <1>5. CASE pc[u] = "idle"
    BY <1>3, <1>4, <1>5 DEF OpIs, Fifo!Forget, Fifo!Idle
  <1>6. CASE pc[u] \in EnqBefore
    <2>1. pre'[u] = pre[u] \ {i} /\ late'[u] = late[u]
      <3>1. pre'[u] = pre[u] \intersect IndexOf(Unclaimed)' /\ late'[u] = late[u]
        BY <1>3, <1>6, Kinds, RecordEnq
      <3>2. ASSUME NEW j \in pre[u] PROVE j \in IndexOf(Unclaimed)
        <4>1. PICK y \in head .. tail - 1 : <<y, j>> \in Placed
          BY DEF Reached, CallInv, Overtaken
        <4>2. y >= head
          BY DEF Reached, IInv, TypeOK
        <4>3. <<y, j>> \in Shown
          BY <4>1, <4>2 DEF Shown
        <4> QED BY <4>3, QueueAt DEF ShowsQueue
      <3> QED BY <1>2, <3>1, <3>2
    <2>2. Op(u) = Fifo!Enq(eidx[u], pre[u], late[u])
      BY <1>4, <1>6 DEF OpIs
    <2>3. Op(u)' = Fifo!Enq(eidx[u], pre[u] \ {i}, late[u])
      BY <1>3, <1>4, <1>6, <2>1 DEF OpIs
    <2>4. Fifo!Forget(Fifo!Enq(eidx[u], pre[u], late[u]), i, rest)
            = Fifo!Enq(eidx[u], pre[u] \ {i}, late[u])
      BY DEF Fifo!Forget, Fifo!Enq
    <2>5. Op(u)' = Fifo!Forget(Op(u), i, rest)
      BY <2>2, <2>3, <2>4, Zenon
    <2> QED BY <2>5 DEF i, rest
  <1>7. CASE pc[u] \in EnqAfter
    <2>1. CASE ~(ticket[u] >= head)
      <3>1. ~(ticket'[u] >= head')
        BY <1>1, <1>3, <2>1
      <3>2. Op(u) = Fifo!Given /\ Op(u)' = Fifo!Given
        BY <1>3, <1>4, <1>7, <2>1, <3>1 DEF OpIs
      <3> QED BY <3>2 DEF Fifo!Forget, Fifo!Given
    <2>2. CASE ticket[u] >= head
      <3>1. <<ticket[u], eidx[u]>> \in Shown
        BY <1>7, <2>2 DEF Reached, CallInv, OwnTicket, Shown
      <3>2. eidx[u] = i <=> ticket[u] = head
        BY <1>1, <3>1
      <3>3. Op(u) = Fifo!Put(eidx[u])
        BY <1>4, <1>7, <2>2 DEF OpIs
      <3>4. CASE ticket[u] = head
        <4>1. ~(ticket'[u] >= head')
          BY <1>1, <1>3, <3>4
        <4>2. Op(u)' = Fifo!Given
          BY <1>3, <1>4, <1>7, <4>1 DEF OpIs
        <4>3. Op(u) = Fifo!Put(i)
          BY <3>2, <3>3, <3>4
        <4>4. Op(u)' = Fifo!Forget(Op(u), i, rest)
          BY <4>2, <4>3 DEF Fifo!Forget, Fifo!Put
        <4> QED BY <4>4 DEF i, rest
      <3>5. CASE ticket[u] # head
        <4>1. ticket'[u] >= head'
          BY <1>1, <1>3, <2>2, <3>5
        <4>2. Op(u)' = Fifo!Put(eidx[u]) /\ eidx[u] # i
          BY <1>3, <1>4, <1>7, <3>2, <3>5, <4>1 DEF OpIs
        <4>3. Fifo!Forget(Fifo!Put(eidx[u]), i, rest) = Fifo!Put(eidx[u])
          BY <4>2 DEF Fifo!Forget, Fifo!Put
        <4>4. Op(u)' = Fifo!Forget(Op(u), i, rest)
          BY <3>3, <4>2, <4>3, Zenon
        <4> QED BY <4>4 DEF i, rest
      <3> QED BY <3>4, <3>5
    <2> QED BY <2>1, <2>2
  <1>8. CASE pc[u] \in DeqAll
    <2>1. ASSUME NEW j, pc[u] \in DeqSlot, <<ticket[u], j>> \in Placed
          PROVE  Op(u)' = Fifo!Forget(Op(u), i, rest)
      <3>1. Op(u) = Fifo!Got(j) /\ Op(u)' = Fifo!Got(j)
        BY <1>1, <1>3, <1>4, <2>1 DEF OpIs
      <3>2. Fifo!Forget(Fifo!Got(j), i, rest) = Fifo!Got(j)
        BY DEF Fifo!Forget, Fifo!Got
      <3> QED BY <3>1, <3>2, Zenon
    <2>2. ASSUME pc[u] \in DeqSlot => \A j : <<ticket[u], j>> \notin Placed
          PROVE  Op(u)' = Fifo!Forget(Op(u), i, rest)
      <3>1. mayFail'[u] = (mayFail[u] \/ rest = {})
        BY <1>3, <1>8, RecordDeq DEF Reached, CallInv, MetEmpty, rest
      <3>2. Op(u) = Fifo!Deq(mayFail[u]) /\ Op(u)' = Fifo!Deq(mayFail'[u])
        BY <1>1, <1>3, <1>4, <1>8, <2>2 DEF OpIs
      <3>3. Fifo!Forget(Fifo!Deq(mayFail[u]), i, rest) = Fifo!Deq(mayFail[u] \/ rest = {})
        BY DEF Fifo!Forget, Fifo!Deq
      <3> QED BY <3>1, <3>2, <3>3, Zenon
    <2> QED BY <2>1, <2>2 DEF i, rest
  <1>9. pc[u] = "idle" \/ pc[u] \in EnqBefore \/ pc[u] \in EnqAfter \/ pc[u] \in DeqAll
    BY <1>3 DEF PC
  <1>10. Op(u)' = Fifo!Forget(Op(u), i, rest)
    BY <1>5, <1>6, <1>7, <1>8, <1>9 DEF i, rest
  <1> QED BY <1>10 DEF i, rest

\* The fetch_add on head is Claim if an index was inserted with this ticket.
LEMMA ClaimMaps ==
  ASSUME Reached, Reached', Record, NEW t \in Threads, DeqHead(t), head \in Tickets
  PROVE  Fifo!Claim(t)
  <1> DEFINE i == Label[head]
  <1>1. /\ pc[t] = "d_head" /\ pc'[t] = "d_load" /\ ticket'[t] = head
        /\ is_finalized' = is_finalized
    BY DEF DeqHead, Goto, Reached, IInv, TypeOK
  <1>2. Placed' = Placed /\ <<head, i>> \in Placed
    BY ClaimShown DEF Shown
  <1>3. /\ Queue # <<>> /\ Head(Queue) = i /\ Queue' = Tail(Queue) /\ Settled' = Settled \ {i}
    BY ClaimQueue
  <1>4. OpsAre /\ OpsAre'
    BY OpAt, PTL
  <1>5. Op(t) = Fifo!Deq(mayFail[t]) /\ Op(t)' = Fifo!Got(i)
    BY <1>1, <1>2, <1>4 DEF OpsAre, OpIs, DeqAll, DeqSlot
  <1>6. \A u \in Threads : u # t => Op(u)' = Fifo!Forget(Op(u), i, Settled')
    BY ClaimForgets
  <1> HIDE DEF i, Op
  <1>7. [x \in Threads |-> Op(x)]'
          = [x \in Threads |-> IF x = t THEN Fifo!Got(i) ELSE Fifo!Forget(Op(x), i, Settled')]
    BY <1>5, <1>6
  <1>8. [x \in Threads |-> Op(x)]'
          = [x \in Threads |-> IF x = t THEN Fifo!Got(Head(Queue))
               ELSE Fifo!Forget([y \in Threads |-> Op(y)][x], Head(Queue), Settled')]
    BY <1>3, <1>7
  <1>9. Fifo!Is(t, "deq")
    BY <1>5 DEF Fifo!Is, Fifo!Deq
  <1> QED BY <1>1, <1>3, <1>8, <1>9 DEF Fifo!Claim

\* A step within the call of its thread changes nothing that the queue shows.
Unseen(t) ==
  /\ Placed' = Placed /\ Shown' = Shown /\ is_finalized' = is_finalized
  /\ \/ pc[t] = "idle" /\ pc'[t] = "idle"
     \/ pc[t] \in EnqBefore /\ pc'[t] \in EnqBefore /\ eidx'[t] = eidx[t]
     \/ /\ pc[t] \in EnqAfter /\ pc'[t] \in EnqAfter
        /\ eidx'[t] = eidx[t] /\ ticket'[t] = ticket[t] /\ head' = head
     \/ /\ pc[t] \in DeqAll /\ pc'[t] \in DeqAll
        /\ \A i : pc[t] \in DeqSlot /\ <<ticket[t], i>> \in Placed
                    <=> pc'[t] \in DeqSlot /\ <<ticket'[t], i>> \in Placed

LEMMA UnseenMaps ==
  ASSUME Reached, Reached', Record, NEW t \in Threads, Invoke(t) \/ Step(t), Unseen(t)
  PROVE  UNCHANGED Fifo!vars
  <1>1. /\ Placed' = Placed /\ Shown' = Shown /\ is_finalized' = is_finalized
        /\ pc[t] \in EnqAfter <=> pc'[t] \in EnqAfter
        /\ pc[t] \in EnqAfter => ticket'[t] = ticket[t]
    BY Kinds DEF Unseen
  <1>2. /\ Queue' = Queue /\ Settled' = Settled
        /\ \A u \in Threads : u # t => Op(u)' = Op(u)
    BY <1>1, PlainStep
  <1>3. OpIs(t) /\ OpIs(t)'
    <2>1. OpsAre /\ OpsAre'
      BY OpAt, PTL
    <2> QED BY <2>1 DEF OpsAre
  <1>4. Op(t)' = Op(t)
    <2>1. CASE pc[t] = "idle" /\ pc'[t] = "idle"
      BY <1>3, <2>1 DEF OpIs, Fifo!Idle
    <2>2. CASE pc[t] \in EnqBefore /\ pc'[t] \in EnqBefore /\ eidx'[t] = eidx[t]
      <3>1. \A p \in Shown : p[1] >= head'
        BY <1>1 DEF Shown
      <3>2. pre'[t] = pre[t] /\ late'[t] = late[t]
        BY <2>2, <3>1, EnqSame
      <3> QED BY <1>3, <2>2, <3>2 DEF OpIs, Fifo!Enq
    <2>3. CASE /\ pc[t] \in EnqAfter /\ pc'[t] \in EnqAfter
               /\ eidx'[t] = eidx[t] /\ ticket'[t] = ticket[t] /\ head' = head
      BY <1>3, <2>3 DEF OpIs, Fifo!Put, Fifo!Given
    <2>4. CASE /\ pc[t] \in DeqAll /\ pc'[t] \in DeqAll
               /\ \A i : pc[t] \in DeqSlot /\ <<ticket[t], i>> \in Placed
                           <=> pc'[t] \in DeqSlot /\ <<ticket'[t], i>> \in Placed
      <3>1. CASE \E i : pc[t] \in DeqSlot /\ <<ticket[t], i>> \in Placed
        <4>1. PICK i : pc[t] \in DeqSlot /\ <<ticket[t], i>> \in Placed
          BY <3>1
        <4>2. pc'[t] \in DeqSlot /\ <<ticket'[t], i>> \in Placed'
          BY <1>1, <2>4, <4>1
        <4> QED BY <1>3, <4>1, <4>2 DEF OpIs, Fifo!Got
      <3>2. CASE \A i : ~(pc[t] \in DeqSlot /\ <<ticket[t], i>> \in Placed)
        <4>1. mayFail'[t] = mayFail[t]
          BY <1>2, <2>4, RecordDeq DEF Reached, CallInv, MetEmpty
        <4>2. Op(t) = Fifo!Deq(mayFail[t])
          BY <1>3, <2>4, <3>2 DEF OpIs
        <4>3. pc'[t] \in DeqSlot => \A i : <<ticket'[t], i>> \notin Placed'
          BY <1>1, <2>4, <3>2
        <4>4. Op(t)' = Fifo!Deq(mayFail'[t])
          BY <1>3, <2>4, <4>3 DEF OpIs
        <4> QED BY <4>1, <4>2, <4>4
      <3> QED BY <3>1, <3>2
    <2> QED BY <2>1, <2>2, <2>3, <2>4 DEF Unseen
  <1> HIDE DEF Op
  <1>5. [x \in Threads |-> Op(x)]' = [x \in Threads |-> Op(x)]
    BY <1>2, <1>4
  <1> QED BY <1>1, <1>2, <1>5 DEF Fifo!vars

\* The steps of an enqueue that are unseen.
LEMMA EnqUnseen ==
  ASSUME Reached, NEW t \in Threads, pc'[t] # "idle",
         \/ EnqTail(t) \/ EnqLoad(t) \/ EnqHead(t) \/ EnqFin(t)
         \/ EnqCasFail(t) \/ EnqThrLoad(t) \/ EnqThrStore(t)
  PROVE  Unseen(t)
  <1> USE DEF Goto, Return, Reached, IInv, TypeOK
  <1>1. UNCHANGED <<head, array, is_finalized>>
    BY DEF EnqTail, EnqLoad, EnqHead, EnqFin, EnqCasFail, EnqThrLoad, EnqThrStore, shared
  <1>2. Placed' = Placed /\ Shown' = Shown
    BY <1>1, PlacedSame DEF Shown
  <1>3. CASE EnqTail(t) \/ EnqLoad(t) \/ EnqHead(t) \/ EnqFin(t) \/ EnqCasFail(t)
    <2>1. pc[t] \in EnqBefore /\ pc'[t] \in EnqBefore /\ eidx'[t] = eidx[t]
      BY <1>3
      DEF EnqTail, EnqLoad, EnqHead, EnqFin, EnqCasFail, EnqBefore, Insertable, local
    <2> QED BY <1>1, <1>2, <2>1 DEF Unseen
  <1>4. CASE EnqThrLoad(t) \/ EnqThrStore(t)
    <2>1. pc[t] \in EnqAfter /\ pc'[t] \in EnqAfter /\ eidx'[t] = eidx[t] /\ ticket'[t] = ticket[t]
      BY <1>4 DEF EnqThrLoad, EnqThrStore, EnqAfter, local
    <2> QED BY <1>1, <1>2, <2>1 DEF Unseen
  <1> QED BY <1>3, <1>4

\* Those of a dequeue.
LEMMA DeqUnseen ==
  ASSUME Reached, NEW t \in Threads, pc'[t] # "idle",
         \/ DeqThr(t) \/ DeqLoad(t) \/ DeqCasOk(t) \/ DeqCasFail(t) \/ DeqTail(t) \/ DeqSub(t)
         \/ CatchStep(t) \/ (DeqHead(t) /\ head \notin Tickets)
  PROVE  Unseen(t)
  <1>1. is_finalized' = is_finalized /\ head \in Nat
    BY DEF DeqThr, DeqLoad, DeqCasOk, DeqCasFail, DeqTail, DeqSub, DeqHead, CatchStep, CatchCasOk,
           CatchCasFail, CatchHead, CatchTail, shared, Reached, IInv, TypeOK
  <1>2. Placed' = Placed
    BY PlacedSame, DeqCasView
    DEF DeqThr, DeqLoad, DeqCasFail, DeqTail, DeqSub, DeqHead, CatchStep, CatchCasOk,
        CatchCasFail, CatchHead, CatchTail, shared, Reached, Still
  <1>3. Step(t)
    BY DEF Step, DeqStep
  <1>4. CASE DeqThr(t) \/ DeqTail(t) \/ DeqSub(t) \/ CatchStep(t)
    <2>1. head' = head /\ pc[t] \in DeqAll \ DeqSlot /\ pc'[t] \in DeqAll \ DeqSlot
      BY <1>4
      DEF DeqThr, DeqTail, DeqSub, CatchStep, CatchCasOk, CatchCasFail, CatchHead, CatchTail,
          Goto, Return, shared, DeqAll, DeqSlot, Catching, Reached, IInv, TypeOK
    <2> QED BY <1>1, <1>2, <2>1 DEF Unseen, Shown
  <1>5. CASE DeqLoad(t) \/ DeqCasOk(t) \/ DeqCasFail(t)
    <2>1. /\ head' = head /\ ticket'[t] = ticket[t] /\ pc[t] \in DeqSlot
          /\ pc'[t] \in DeqSlot \/ pc'[t] = "d_tail"
      BY <1>5
      DEF DeqLoad, DeqCasOk, DeqCasFail, Goto, shared, local, DeqSlot, Reached, IInv, TypeOK
    <2>2. ASSUME pc'[t] = "d_tail" PROVE \A i : <<ticket[t], i>> \notin Placed
      <3>1. t \in Owing' /\ ~DeqHead(t)
        BY <2>1, <2>2 DEF Owing, DeqHead, Goto, DeqSlot
      <3>2. t \in Owing
        BY <1>3, <3>1, OwingStep DEF Reached
      <3>3. ~Mine(t)
        BY <2>1, <3>2 DEF Owing, DeqSlot, Catching
      <3> QED BY <3>3, MineAt DEF Reached
    <2>3. /\ pc[t] \in DeqAll /\ pc'[t] \in DeqAll
          /\ \A i : pc[t] \in DeqSlot /\ <<ticket[t], i>> \in Placed
                      <=> pc'[t] \in DeqSlot /\ <<ticket'[t], i>> \in Placed
      BY <2>1, <2>2 DEF DeqAll
    <2> QED BY <1>1, <1>2, <2>1, <2>3 DEF Unseen, Shown
  <1>6. CASE DeqHead(t) /\ head \notin Tickets
    <2>1. /\ pc[t] = "d_head" /\ pc'[t] = "d_load" /\ ticket'[t] = head /\ head' = head + 1
      BY <1>6 DEF DeqHead, Goto, Reached, IInv, TypeOK
    <2>2. \A p \in Shown : p[1] # head
      BY <1>6, QueueAt DEF ShowsQueue
    <2>3. \A p \in Placed : p[1] \in Nat
      BY ViewHolds DEF Reached, ViewOK
    <2>4. Shown' = Shown
      BY <1>1, <1>2, <2>1, <2>2, <2>3 DEF Shown
    <2>5. ASSUME NEW i, <<head, i>> \in Placed PROVE FALSE
      <3>1. <<head, i>> \in Shown
        BY <1>1, <2>5 DEF Shown
      <3> QED BY <2>2, <3>1
    <2>6. /\ pc[t] \in DeqAll /\ pc'[t] \in DeqAll /\ pc[t] \notin DeqSlot
      BY <2>1 DEF DeqAll, DeqSlot
    <2> QED BY <1>1, <1>2, <2>1, <2>4, <2>5, <2>6 DEF Unseen
  <1> QED BY <1>4, <1>5, <1>6

\* Every step of the ring is a step of the queue, or nothing it shows.
LEMMA FifoStep ==
  ASSUME Reached, Reached', Record, NEW t \in Threads, Invoke(t) \/ Step(t)
  PROVE  UNCHANGED Fifo!vars \/ Fifo!Next
  <1>1. CASE \E i \in pool : EnqCall(t, i)
    BY <1>1, EnqCallMaps DEF Fifo!Next
  <1>2. CASE DeqCall(t)
    BY <1>2, DeqCallMaps DEF Fifo!Next
  <1>3. CASE Finalize(t)
    BY <1>3, FinalizeMaps DEF Fifo!Next
  <1>4. CASE Refill(t)
    <2>1. /\ pc[t] = "idle" /\ pc'[t] = "idle" /\ UNCHANGED <<head, array, is_finalized>>
      BY <1>4 DEF Refill, Call, Goto, Reached, IInv, TypeOK
    <2>2. Unseen(t)
      BY <2>1, PlacedSame DEF Unseen, Shown
    <2> QED BY <2>2, UnseenMaps
  <1>5. CASE \/ EnqTail(t) \/ EnqLoad(t) \/ EnqHead(t) \/ EnqFin(t)
             \/ EnqCasFail(t) \/ EnqThrLoad(t) \/ EnqThrStore(t)
    <2>1. CASE pc'[t] # "idle"
      BY <1>5, <2>1, EnqUnseen, UnseenMaps
    <2>2. CASE pc'[t] = "idle"
      <3>1. EnqFin(t) \/ EnqThrLoad(t) \/ EnqThrStore(t)
        BY <1>5, <2>2
        DEF EnqTail, EnqLoad, EnqHead, EnqCasFail, Goto, Insertable, Reached, IInv, TypeOK
      <3> QED BY <2>2, <3>1, EnqFinMaps, EnqThrMaps DEF Fifo!Next
    <2> QED BY <2>1, <2>2
  <1>6. CASE EnqCasOk(t)
    <2>1. ticket[t] \in Nat /\ head \in Nat
      BY DEF Reached, IInv, TypeOK
    <2>2. ticket[t] >= head \/ ticket[t] < head
      BY <2>1
    <2> QED BY <1>6, <2>2, InsertMaps, HandOverMaps DEF Fifo!Next
  <1>7. CASE DeqOr(t)
    BY <1>7, DeqOrMaps DEF Fifo!Next
  <1>8. CASE DeqNone(t)
    <2>1. pc'[t] = "idle"
      BY <1>8 DEF DeqNone, Return, Goto, Reached, IInv, TypeOK
    <2> QED BY <1>8, <2>1, NoneMaps DEF Fifo!Next
  <1>9. CASE DeqHead(t) /\ head \in Tickets
    BY <1>9, ClaimMaps DEF Fifo!Next
  <1>10. CASE \/ DeqThr(t) \/ DeqLoad(t) \/ DeqCasOk(t) \/ DeqCasFail(t) \/ DeqTail(t) \/ DeqSub(t)
              \/ CatchStep(t) \/ (DeqHead(t) /\ head \notin Tickets)
    <2>1. CASE pc'[t] # "idle"
      BY <1>10, <2>1, DeqUnseen, UnseenMaps
    <2>2. CASE pc'[t] = "idle"
      <3>1. DeqThr(t) \/ DeqSub(t)
        BY <1>10, <2>2
        DEF DeqLoad, DeqCasOk, DeqCasFail, DeqTail, DeqHead, CatchStep, CatchCasOk, CatchCasFail,
            CatchHead, CatchTail, Goto, Reached, IInv, TypeOK
      <3> QED BY <2>2, <3>1, NoneMaps DEF Fifo!Next
    <2> QED BY <2>1, <2>2
  <1> QED
    BY <1>1, <1>2, <1>3, <1>4, <1>5, <1>6, <1>7, <1>8, <1>9, <1>10
    DEF Invoke, Step, EnqStep, DeqStep

-----------------------------------------------------------------------------
(* The refinement.                                                         *)

\* A new ring shows a new queue: its indices are settled and no call is made.
LEMMA InitMaps ==
  ASSUME HInit
  PROVE  Fifo!Init
  <1>1. Reached
    BY InitInv, InitReach, InitCall DEF Reached, HInit
  <1>2. ShowsQueue /\ OpsAre
    BY <1>1, QueueAt, OpAt
  <1>3. (\A t \in Threads : pc[t] = "idle") /\ is_finalized = FALSE
    BY DEF HInit, Init
  <1>4. \A y : ~Restoring(y)
    BY <1>3 DEF Restoring, EnqAfter
  <1> DEFINE n == Cardinality(Tickets)
  <1>5. /\ Tickets \in SUBSET Nat /\ IsFiniteSet(Tickets) /\ Label \in [Tickets -> Indices]
        /\ Queue = SeqOf(Tickets, Label)
    BY <1>2 DEF ShowsQueue
  <1>6. /\ Queue \in Seq(Indices) /\ DOMAIN Queue = 1 .. n
        /\ \A j \in 1 .. n : Queue[j] = Label[Nth(Tickets, j)] /\ Nth(Tickets, j) \in Tickets
    BY <1>5, SeqOfType
  <1>7. /\ n \in Nat
        /\ \A j \in 1 .. n : Rank(Tickets, Nth(Tickets, j)) = j - 1
        /\ \A y \in Tickets : /\ Rank(Tickets, y) + 1 \in 1 .. n
                              /\ Nth(Tickets, Rank(Tickets, y) + 1) = y
    <2>1. /\ n \in Nat
          /\ \A y \in Tickets : Rank(Tickets, y) \in 0 .. n /\ Rank(Tickets, y) < n
      BY <1>5, RankOrder
    <2>2. \A y \in Tickets : Rank(Tickets, y) + 1 \in 1 .. n
      BY <2>1
    <2> QED BY <1>5, <2>1, <2>2, NthOf
  <1>8. \A x, y \in Tickets : Label[x] = Label[y] => x = y
    <2>1. SUFFICES ASSUME NEW x \in Tickets, NEW y \in Tickets, Label[x] = Label[y]
                   PROVE  x = y
      OBVIOUS
    <2>2. PICK p \in Shown : p[1] = x
      BY <1>2 DEF ShowsQueue
    <2>3. PICK q \in Shown : q[1] = y
      BY <1>2 DEF ShowsQueue
    <2>4. p = <<p[1], Label[p[1]]>> /\ q = <<q[1], Label[q[1]]>> /\ p \in Placed /\ q \in Placed
      BY <1>2 DEF ShowsQueue, Shown
    <2>5. p[2] = q[2]
      BY <2>1, <2>2, <2>3, <2>4
    <2>6. p = q
      BY <1>1, <2>4, <2>5, ViewHolds DEF Reached, ViewOK
    <2> QED BY <2>2, <2>3, <2>6
  <1>9. Fifo!IsInjective(Queue)
    <2>1. SUFFICES ASSUME NEW j \in 1 .. n, NEW k \in 1 .. n, Queue[j] = Queue[k]
                   PROVE  j = k
      BY <1>6 DEF Fifo!IsInjective
    <2>2. Nth(Tickets, j) = Nth(Tickets, k)
      BY <1>6, <1>8, <2>1
    <2>3. j - 1 = k - 1
      BY <1>7, <2>2
    <2> QED BY <1>7, <2>3
  <1>10. Settled = Fifo!ToSet(Queue)
    <2>1. \A i : i \in Settled <=> \E p \in Shown : i = p[2]
      BY <1>2, <1>4 DEF ShowsQueue
    <2>2. ASSUME NEW i \in Settled PROVE \E j \in 1 .. n : Queue[j] = i
      <3>1. PICK p \in Shown : i = p[2]
        BY <2>1
      <3>2. p[1] \in Tickets /\ i = Label[p[1]]
        BY <1>2, <3>1 DEF ShowsQueue
      <3> DEFINE j == Rank(Tickets, p[1]) + 1
      <3>3. j \in 1 .. n /\ Nth(Tickets, j) = p[1]
        BY <1>7, <3>2
      <3> QED BY <1>6, <3>2, <3>3
    <2>3. ASSUME NEW j \in 1 .. n PROVE Queue[j] \in Settled
      <3>1. PICK p \in Shown : p[1] = Nth(Tickets, j)
        BY <1>2, <1>6 DEF ShowsQueue
      <3>2. p = <<p[1], Label[p[1]]>>
        BY <1>2 DEF ShowsQueue
      <3>3. p[2] = Queue[j]
        BY <1>6, <3>1, <3>2
      <3> QED BY <2>1, <3>3
    <2> QED BY <1>6, <2>2, <2>3 DEF Fifo!ToSet
  <1>11. \A t \in Threads : Op(t) = Fifo!Idle
    BY <1>2, <1>3 DEF OpsAre, OpIs
  <1> HIDE DEF Op
  <1>12. [t \in Threads |-> Op(t)] = [t \in Threads |-> Fifo!Idle]
    BY <1>11
  <1> QED BY <1>3, <1>6, <1>9, <1>10, <1>12 DEF Fifo!Init

\* The ring is a FIFO queue of indices, whatever the threads do and in
\* whatever order their accesses come: the steps of the queue are the three
\* atomic writes that move an index (src/scq.rs:249-299, 340, 357), the calls
\* and the returns.
THEOREM FifoCorrect ==
  ASSUME FewDequeuers
  PROVE  HSpec => FifoSpec
  <1>1. HInit => Fifo!Init
    BY InitMaps
  <1>2. /\ IInv /\ IInv' /\ ReachInv /\ ReachInv' /\ CallInv /\ CallInv'
        /\ [HNext]_<<vars, history>>
        => [UNCHANGED Fifo!vars \/ Fifo!Next]_(Fifo!vars)
    <2> SUFFICES ASSUME IInv, IInv', ReachInv, ReachInv', CallInv, CallInv',
                        [HNext]_<<vars, history>>
                 PROVE  UNCHANGED Fifo!vars \/ Fifo!Next
      OBVIOUS
    <2>1. Reached /\ Reached'
      BY DEF Reached
    <2>2. CASE UNCHANGED <<vars, history>>
      <3>1. /\ UNCHANGED <<head, is_finalized, array, pc, ticket, eidx>>
            /\ UNCHANGED <<pre, late, mayFail>>
        BY <2>2 DEF vars, shared, local, history
      <3>2. UNCHANGED <<Queue, Settled, is_finalized>>
        BY <3>1
        DEF Queue, Settled, IndexOf, Unclaimed, Inserting, Tickets, TicketOf
      <3>3. \A t \in Threads : Op(t)' = Op(t)
        BY <3>1 DEF Op, Mine
      <3> HIDE DEF Op
      <3>4. [t \in Threads |-> Op(t)]' = [t \in Threads |-> Op(t)]
        BY <3>3
      <3> QED BY <3>2, <3>4 DEF Fifo!vars
    <2>3. ASSUME NEW t \in Threads, Invoke(t) \/ Step(t), Record
          PROVE  UNCHANGED Fifo!vars \/ Fifo!Next
      BY <2>1, <2>3, FifoStep
    <2> QED BY <2>2, <2>3 DEF HNext, Next
  <1> QED
    BY <1>1, <1>2, HistoryOnly, Invariance, ReachCorrect, CallCorrect, PTL DEF HSpec, FifoSpec
=============================================================================
