------------------------- MODULE UnboundedFifoProofs -------------------------
(***************************************************************************)
(* UnboundedQueue implements IndexQueue as long as no segment is left open *)
(* behind a new one, for any threads, queue to begin with and              *)
(* interleaving in which no more than capacity + 1 dequeues are made at a  *)
(* time: CallInv (module UnboundedInv) is inductive, every initial state   *)
(* shows an initial state of IndexQueue and every step a step of it or     *)
(* nothing.                                                                *)
(***************************************************************************)
EXTENDS UnboundedProofs

-----------------------------------------------------------------------------
(* A finite set in order.                                                  *)

\* R is a strict total order on the finite set S.
Sorts(S, R) ==
  /\ IsFiniteSet(S)
  /\ \A x \in S : <<x, x>> \notin R
  /\ \A x, y, z \in S : <<x, y>> \in R /\ <<y, z>> \in R => <<x, z>> \in R
  /\ \A x, y \in S : x = y \/ <<x, y>> \in R \/ <<y, x>> \in R

Before(S, R, x) == {y \in S : <<y, x>> \in R}

\* What comes before an element can be counted.
LEMMA RankType ==
  ASSUME NEW S, NEW R, IsFiniteSet(S), NEW x
  PROVE  /\ IsFiniteSet(Before(S, R, x)) /\ Rank(S, R, x) = Cardinality(Before(S, R, x))
         /\ Cardinality(S) \in Nat /\ Rank(S, R, x) \in 0 .. Cardinality(S)
  <1>1. Before(S, R, x) \in SUBSET S
    BY DEF Before
  <1>2. /\ IsFiniteSet(Before(S, R, x)) /\ Cardinality(Before(S, R, x)) <= Cardinality(S)
    BY <1>1, FS_Subset
  <1>3. Cardinality(S) \in Nat /\ Cardinality(Before(S, R, x)) \in Nat
    BY <1>2, FS_CardinalityType
  <1> QED BY <1>2, <1>3 DEF Rank, Before

\* An element adds one to the rank of those it is before.
LEMMA RankNext ==
  ASSUME NEW S, NEW R, Sorts(S, R), NEW x \in S
  PROVE  Cardinality(Before(S, R, x) \union {x}) = Rank(S, R, x) + 1
  <1>1. IsFiniteSet(Before(S, R, x)) /\ Rank(S, R, x) = Cardinality(Before(S, R, x))
    BY RankType DEF Sorts
  <1>2. x \notin Before(S, R, x)
    BY DEF Before, Sorts
  <1> QED BY <1>1, <1>2, FS_AddElement

\* Ranks grow along the order.
LEMMA RankOrder ==
  ASSUME NEW S, NEW R, Sorts(S, R)
  PROVE  /\ Cardinality(S) \in Nat
         /\ \A x \in S : Rank(S, R, x) \in Nat /\ Rank(S, R, x) < Cardinality(S)
         /\ \A x, y \in S : <<x, y>> \in R => Rank(S, R, x) < Rank(S, R, y)
  <1>0. IsFiniteSet(S) /\ Cardinality(S) \in Nat
    BY FS_CardinalityType DEF Sorts
  <1>1. ASSUME NEW x \in S PROVE Rank(S, R, x) \in Nat /\ Rank(S, R, x) < Cardinality(S)
    <2>1. Before(S, R, x) \union {x} \in SUBSET S
      BY DEF Before
    <2>2. Cardinality(Before(S, R, x) \union {x}) <= Cardinality(S)
      BY <1>0, <2>1, FS_Subset
    <2>3. Rank(S, R, x) \in Nat
      BY <1>0, RankType
    <2> QED BY <1>0, <2>2, <2>3, RankNext
  <1>2. ASSUME NEW x \in S, NEW y \in S, <<x, y>> \in R PROVE Rank(S, R, x) < Rank(S, R, y)
    <2>1. Before(S, R, x) \union {x} \in SUBSET Before(S, R, y)
      BY <1>2 DEF Before, Sorts
    <2>2. IsFiniteSet(Before(S, R, y)) /\ Rank(S, R, y) = Cardinality(Before(S, R, y))
      BY <1>0, RankType
    <2>3. Cardinality(Before(S, R, x) \union {x}) <= Cardinality(Before(S, R, y))
      BY <2>1, <2>2, FS_Subset
    <2>4. Rank(S, R, x) \in Nat /\ Rank(S, R, y) \in Nat
      BY <1>1
    <2> QED BY <2>2, <2>3, <2>4, RankNext
  <1> QED BY <1>0, <1>1, <1>2

\* Every rank is the rank of one element.
LEMMA NthOf ==
  ASSUME NEW S, NEW R, Sorts(S, R)
  PROVE  /\ \A j \in 1 .. Cardinality(S) : Nth(S, R, j) \in S /\ Rank(S, R, Nth(S, R, j)) = j - 1
         /\ \A x \in S : Nth(S, R, Rank(S, R, x) + 1) = x
  <1> DEFINE n == Cardinality(S)
             f == [x \in S |-> Rank(S, R, x) + 1]
  <1>1. /\ n \in Nat
        /\ \A x \in S : Rank(S, R, x) \in Nat /\ Rank(S, R, x) + 1 \in 1 .. n
                        /\ (Rank(S, R, x) + 1) - 1 = Rank(S, R, x)
    BY RankOrder
  <1>2. \A x, y \in S : Rank(S, R, x) = Rank(S, R, y) => x = y
    <2>1. \A x, y \in S : <<x, y>> \in R => Rank(S, R, x) < Rank(S, R, y)
      BY RankOrder
    <2>2. ASSUME NEW x \in S, NEW y \in S, x # y PROVE Rank(S, R, x) # Rank(S, R, y)
      <3>1. Rank(S, R, x) < Rank(S, R, y) \/ Rank(S, R, y) < Rank(S, R, x)
        BY <2>1, <2>2 DEF Sorts
      <3>2. Rank(S, R, x) \in Nat /\ Rank(S, R, y) \in Nat
        BY <1>1
      <3> QED BY <3>1, <3>2
    <2> QED BY <2>2
  <1>3. f \in Injection(S, 1 .. n)
    <2>1. f \in [S -> 1 .. n]
      BY <1>1
    <2>2. \A x, y \in S : f[x] = f[y] => x = y
      BY <1>1, <1>2
    <2> QED BY <2>1, <2>2 DEF Injection, IsInjective
  <1>4. f \in Surjection(S, 1 .. n)
    <2>1. IsFiniteSet(1 .. n) /\ Cardinality(1 .. n) = n
      BY <1>1, FS_Interval
    <2> QED BY <1>3, <2>1, FS_Injection
  <1>5. ASSUME NEW j \in 1 .. n PROVE \E x \in S : Rank(S, R, x) = j - 1
    <2>1. PICK x \in S : f[x] = j
      BY <1>4 DEF Surjection
    <2> QED BY <1>1, <2>1
  <1>6. \A j \in 1 .. n : Nth(S, R, j) \in S /\ Rank(S, R, Nth(S, R, j)) = j - 1
    BY <1>5 DEF Nth
  <1>7. ASSUME NEW x \in S PROVE Nth(S, R, Rank(S, R, x) + 1) = x
    <2>1. Rank(S, R, x) + 1 \in 1 .. n /\ (Rank(S, R, x) + 1) - 1 = Rank(S, R, x)
      BY <1>1
    <2> QED BY <1>2, <1>6, <2>1
  <1> QED BY <1>6, <1>7

\* One more element leaves the order of the others as it is.
Shifts(M, Q, R, y) ==
  /\ Sorts(M \ {y}, R) /\ Cardinality(M) = Cardinality(M \ {y}) + 1
  /\ Rank(M, Q, y) \in 0 .. Cardinality(M \ {y})
  /\ Nth(M, Q, Rank(M, Q, y) + 1) = y
  /\ \A j \in 1 .. Rank(M, Q, y) : Nth(M, Q, j) = Nth(M \ {y}, R, j)
  /\ \A j \in Rank(M, Q, y) + 1 .. Cardinality(M \ {y}) :
       Nth(M, Q, j + 1) = Nth(M \ {y}, R, j) /\ <<y, Nth(M \ {y}, R, j)>> \in Q

Agree(S, Q, R) == \A x, z \in S : <<x, z>> \in R <=> <<x, z>> \in Q

LEMMA NthShifts ==
  ASSUME NEW M, NEW Q, NEW R, Sorts(M, Q), NEW y \in M, Agree(M \ {y}, Q, R)
  PROVE  Shifts(M, Q, R, y)
  <1> DEFINE S == M \ {y}
             k == Rank(M, Q, y)
             n == Cardinality(S)
  <1>1. Sorts(S, R)
    <2>1. IsFiniteSet(S)
      BY FS_Subset DEF Sorts
    <2> QED BY <2>1 DEF Sorts, Agree
  <1>2. n \in Nat /\ Cardinality(M) = n + 1 /\ IsFiniteSet(M)
    <2>1. IsFiniteSet(S) /\ y \notin S /\ M = S \union {y}
      BY <1>1 DEF Sorts
    <2>2. n \in Nat
      BY <2>1, FS_CardinalityType
    <2>3. IsFiniteSet(S \union {y}) /\ Cardinality(S \union {y}) = n + 1
      BY <2>1, FS_AddElement
    <2> QED BY <2>1, <2>2, <2>3
  <1>3. k \in 0 .. n /\ k \in Nat
    <2>1. Rank(M, Q, y) \in Nat /\ Rank(M, Q, y) < Cardinality(M)
      BY RankOrder
    <2> QED BY <1>2, <2>1
  <1>4. ASSUME NEW x \in S, <<x, y>> \in Q PROVE Rank(M, Q, x) = Rank(S, R, x)
    <2>1. <<y, x>> \notin Q
      BY <1>4 DEF Sorts
    <2>2. Before(M, Q, x) = Before(S, R, x)
      BY <2>1 DEF Before, Agree
    <2> QED BY <2>2 DEF Before, Rank
  <1>5. ASSUME NEW x \in S, <<y, x>> \in Q PROVE Rank(M, Q, x) = Rank(S, R, x) + 1
    <2>1. Before(M, Q, x) = Before(S, R, x) \union {y} /\ y \notin Before(S, R, x)
      BY <1>5 DEF Before, Agree
    <2>2. IsFiniteSet(Before(S, R, x))
      BY <1>1, RankType DEF Sorts
    <2>3. Cardinality(Before(M, Q, x)) = Cardinality(Before(S, R, x)) + 1
      BY <2>1, <2>2, FS_AddElement
    <2> QED BY <2>3 DEF Before, Rank
  <1>6. Nth(M, Q, k + 1) = y
    BY NthOf
  <1>7. ASSUME NEW j \in 1 .. n
        PROVE  /\ Nth(S, R, j) \in S /\ Rank(S, R, Nth(S, R, j)) = j - 1
               /\ <<Nth(S, R, j), y>> \in Q \/ <<y, Nth(S, R, j)>> \in Q
               /\ <<Nth(S, R, j), y>> \in Q => j <= k
               /\ <<y, Nth(S, R, j)>> \in Q => k < j
    <2>1. Nth(S, R, j) \in S /\ Rank(S, R, Nth(S, R, j)) = j - 1
      BY <1>1, NthOf
    <2>2. <<Nth(S, R, j), y>> \in Q \/ <<y, Nth(S, R, j)>> \in Q
      BY <2>1 DEF Sorts
    <2>3. <<Nth(S, R, j), y>> \in Q => j - 1 < k
      BY <1>4, <2>1, RankOrder
    <2>4. <<y, Nth(S, R, j)>> \in Q => k < (j - 1) + 1
      BY <1>5, <2>1, RankOrder
    <2> QED BY <1>3, <2>1, <2>2, <2>3, <2>4
  <1>8. ASSUME NEW j \in 1 .. k PROVE Nth(M, Q, j) = Nth(S, R, j)
    <2>1. j \in 1 .. n /\ ~(k < j) /\ (j - 1) + 1 = j
      BY <1>2, <1>3
    <2>2. Rank(M, Q, Nth(S, R, j)) = j - 1 /\ Nth(S, R, j) \in M
      BY <1>4, <1>7, <2>1
    <2>3. Nth(M, Q, Rank(M, Q, Nth(S, R, j)) + 1) = Nth(S, R, j)
      BY <2>2, NthOf
    <2> QED BY <2>1, <2>2, <2>3
  <1>9. ASSUME NEW j \in k + 1 .. n
        PROVE  Nth(M, Q, j + 1) = Nth(S, R, j) /\ <<y, Nth(S, R, j)>> \in Q
    <2>1. j \in 1 .. n /\ ~(j <= k) /\ (j - 1) + 1 = j
      BY <1>2, <1>3
    <2>2. /\ Rank(M, Q, Nth(S, R, j)) = (j - 1) + 1 /\ Nth(S, R, j) \in M
          /\ <<y, Nth(S, R, j)>> \in Q
      BY <1>5, <1>7, <2>1
    <2>3. Nth(M, Q, Rank(M, Q, Nth(S, R, j)) + 1) = Nth(S, R, j)
      BY <2>2, NthOf
    <2> QED BY <2>1, <2>2, <2>3
  <1> QED BY <1>1, <1>2, <1>3, <1>6, <1>8, <1>9 DEF Shifts

\* The list of a set is a sequence of its elements, each once.
LEMMA ListedType ==
  ASSUME NEW S, NEW R, Sorts(S, R)
  PROVE  /\ Listed(S, R) \in Seq(S) /\ Len(Listed(S, R)) = Cardinality(S)
         /\ DOMAIN Listed(S, R) = 1 .. Cardinality(S) /\ Cardinality(S) \in Nat
         /\ \A j \in 1 .. Cardinality(S) : Listed(S, R)[j] = Nth(S, R, j)
  <1>1. Cardinality(S) \in Nat /\ \A j \in 1 .. Cardinality(S) : Nth(S, R, j) \in S
    BY NthOf, RankOrder
  <1>2. Listed(S, R) \in [1 .. Cardinality(S) -> S]
    BY <1>1 DEF Listed
  <1>3. Listed(S, R) \in Seq(S)
    BY <1>1, <1>2, SeqDef
  <1>4. DOMAIN Listed(S, R) = 1 .. Len(Listed(S, R)) /\ Len(Listed(S, R)) \in Nat
    BY <1>3, LenProperties
  <1>5. DOMAIN Listed(S, R) = 1 .. Cardinality(S)
    BY <1>2
  <1>6. Len(Listed(S, R)) = Cardinality(S)
    BY <1>1, <1>4, <1>5
  <1> QED BY <1>1, <1>3, <1>5, <1>6 DEF Listed

LEMMA ListedWider ==
  ASSUME NEW S, NEW R, Sorts(S, R), NEW T, S \subseteq T
  PROVE  Listed(S, R) \in Seq(T)
  <1>1. Cardinality(S) \in Nat /\ \A j \in 1 .. Cardinality(S) : Nth(S, R, j) \in S
    BY NthOf, RankOrder
  <1>2. Listed(S, R) \in [1 .. Cardinality(S) -> T]
    BY <1>1 DEF Listed
  <1> QED BY <1>1, <1>2, SeqDef

LEMMA ListedItems ==
  ASSUME NEW S, NEW R, Sorts(S, R)
  PROVE  ToSet(Listed(S, R)) = S /\ Fifo!IsInjective(Listed(S, R))
  <1>1. /\ Listed(S, R) \in Seq(S) /\ DOMAIN Listed(S, R) = 1 .. Cardinality(S)
        /\ Cardinality(S) \in Nat
        /\ \A j \in 1 .. Cardinality(S) : Listed(S, R)[j] = Nth(S, R, j)
    BY ListedType
  <1>2. /\ \A j \in 1 .. Cardinality(S) : Nth(S, R, j) \in S /\ Rank(S, R, Nth(S, R, j)) = j - 1
        /\ \A x \in S : Nth(S, R, Rank(S, R, x) + 1) = x
        /\ \A x \in S : Rank(S, R, x) \in Nat /\ Rank(S, R, x) < Cardinality(S)
    BY NthOf, RankOrder
  <1>3. ASSUME NEW x \in S PROVE x \in ToSet(Listed(S, R))
    <2>1. Rank(S, R, x) + 1 \in 1 .. Cardinality(S)
      BY <1>1, <1>2
    <2> QED BY <1>1, <1>2, <2>1 DEF ToSet
  <1>4. ASSUME NEW x \in ToSet(Listed(S, R)) PROVE x \in S
    BY <1>1, <1>2 DEF ToSet
  <1>5. ASSUME NEW i \in 1 .. Cardinality(S), NEW j \in 1 .. Cardinality(S),
               Listed(S, R)[i] = Listed(S, R)[j]
        PROVE  i = j
    <2>1. i - 1 = j - 1
      BY <1>1, <1>2, <1>5
    <2> QED BY <1>1, <2>1
  <1> QED BY <1>1, <1>3, <1>4, <1>5 DEF Fifo!IsInjective

\* One more element is inserted at its rank.
Inserts(M, Q, R, y) ==
  Listed(M, Q) = Fifo!InsertAt(Listed(M \ {y}, R), Rank(M, Q, y) + 1, y)

LEMMA ListedInsert ==
  ASSUME NEW M, NEW Q, NEW R, Sorts(M, Q), NEW y \in M, Agree(M \ {y}, Q, R)
  PROVE  Inserts(M, Q, R, y)
  <1> DEFINE S == M \ {y}
             k == Rank(M, Q, y)
             n == Cardinality(S)
             q == Listed(S, R)
             r == Listed(M, Q)
             a == SubSeq(q, 1, k)
             b == SubSeq(q, k + 1, n)
             c == a \o <<y>>
  <1>1. /\ Sorts(S, R) /\ Cardinality(M) = n + 1 /\ k \in 0 .. n
        /\ Nth(M, Q, k + 1) = y
        /\ \A j \in 1 .. k : Nth(M, Q, j) = Nth(S, R, j)
        /\ \A j \in k + 1 .. n : Nth(M, Q, j + 1) = Nth(S, R, j)
    <2>1. Shifts(M, Q, R, y)
      BY NthShifts
    <2> QED BY <2>1 DEF Shifts
  <1>2. /\ q \in Seq(S) /\ Len(q) = n /\ n \in Nat
        /\ \A j \in 1 .. n : q[j] = Nth(S, R, j) /\ q[j] \in S
    <2> HIDE DEF S
    <2>1. \A j \in 1 .. n : Nth(S, R, j) \in S
      BY <1>1, NthOf
    <2> QED BY <1>1, <2>1, ListedType
  <1>3. /\ r \in Seq(M) /\ Len(r) = n + 1 /\ \A j \in 1 .. n + 1 : r[j] = Nth(M, Q, j)
    <2>1. /\ r \in Seq(M) /\ Len(r) = Cardinality(M)
          /\ \A j \in 1 .. Cardinality(M) : r[j] = Nth(M, Q, j)
      BY ListedType
    <2> QED BY <1>1, <2>1
  <1>4. /\ q \in Seq(M) /\ \A j \in 1 .. n : q[j] \in M
    <2>1. \A j \in 1 .. n : q[j] \in M
      BY <1>2
    <2> QED BY <1>1, <2>1, ListedWider
  <1> HIDE DEF q, r, k, n
  <1>5. k \in Nat /\ k <= n /\ n \in Nat
    BY <1>1, <1>2
  <1>6. /\ a \in Seq(M) /\ Len(a) = k /\ \A j \in 1 .. k : a[j] = q[j]
    <2>1. \A j \in 1 .. k : q[j] \in M
      BY <1>4, <1>5
    <2>2. /\ a \in Seq(M) /\ Len(a) = (IF 1 <= k THEN k - 1 + 1 ELSE 0)
          /\ \A j \in 1 .. k - 1 + 1 : a[j] = q[1 + j - 1]
      BY <1>2, <1>4, <1>5, <2>1, SubSeqProperties
    <2> QED BY <1>5, <2>2
  <1>7. /\ b \in Seq(M) /\ Len(b) = n - k /\ \A j \in 1 .. n - k : b[j] = q[k + j]
    <2>1. \A j \in k + 1 .. n : q[j] \in M
      BY <1>4, <1>5
    <2>2. /\ b \in Seq(M) /\ Len(b) = (IF k + 1 <= n THEN n - (k + 1) + 1 ELSE 0)
          /\ \A j \in 1 .. n - (k + 1) + 1 : b[j] = q[(k + 1) + j - 1]
      BY <1>2, <1>4, <1>5, <2>1, SubSeqProperties
    <2> QED BY <1>5, <2>2
  <1> HIDE DEF a, b, c
  <1>8. /\ <<y>> \in Seq(M) /\ Len(<<y>>) = 1 /\ <<y>>[1] = y
    OBVIOUS
  <1>9. /\ c \in Seq(M) /\ Len(c) = k + 1
        /\ \A j \in 1 .. k : c[j] = a[j]
        /\ c[k + 1] = y
    <2>1. /\ c \in Seq(M) /\ Len(c) = Len(a) + Len(<<y>>)
          /\ \A j \in 1 .. Len(a) + Len(<<y>>) :
               c[j] = IF j <= Len(a) THEN a[j] ELSE <<y>>[j - Len(a)]
      BY <1>6, <1>8, ConcatProperties DEF c
    <2>2. k + 1 - k = 1
      BY <1>5
    <2> QED BY <1>5, <1>6, <1>8, <2>1, <2>2
  <1>10. /\ c \o b \in Seq(M) /\ Len(c \o b) = n + 1
         /\ \A j \in 1 .. n + 1 : (c \o b)[j] = IF j <= k + 1 THEN c[j] ELSE b[j - (k + 1)]
    <2>1. /\ c \o b \in Seq(M) /\ Len(c \o b) = Len(c) + Len(b)
          /\ \A j \in 1 .. Len(c) + Len(b) :
               (c \o b)[j] = IF j <= Len(c) THEN c[j] ELSE b[j - Len(c)]
      <3>1. c \in Seq(M) /\ b \in Seq(M)
        BY <1>7, <1>9
      <3> QED BY <3>1, ConcatProperties
    <2>2. Len(c) = k + 1 /\ (k + 1) + (n - k) = n + 1
      BY <1>5, <1>9
    <2> QED BY <1>7, <2>1, <2>2
  <1>11. ASSUME NEW j \in 1 .. n + 1 PROVE r[j] = (c \o b)[j]
    <2>1. CASE j <= k
      <3>1. j \in 1 .. k /\ j \in 1 .. n /\ j <= k + 1
        BY <1>5, <2>1
      <3>2. (c \o b)[j] = Nth(S, R, j)
        BY <1>2, <1>6, <1>9, <1>10, <3>1
      <3> QED BY <1>1, <1>3, <3>1, <3>2
    <2>2. CASE j = k + 1
      <3>1. k + 1 \in 1 .. n + 1 /\ k + 1 <= k + 1
        BY <1>5
      <3>2. r[k + 1] = y /\ (c \o b)[k + 1] = y
        BY <1>1, <1>3, <1>9, <1>10, <3>1
      <3> QED BY <2>2, <3>2
    <2>3. CASE j > k + 1
      <3>1. j - 1 \in k + 1 .. n /\ j - 1 \in 1 .. n /\ (j - 1) + 1 = j /\ ~(j <= k + 1)
            /\ j - (k + 1) \in 1 .. n - k /\ k + (j - (k + 1)) = j - 1
        BY <1>5, <2>3
      <3>2. (c \o b)[j] = q[j - 1]
        BY <1>7, <1>10, <3>1
      <3>3. r[j] = Nth(S, R, j - 1)
        BY <1>1, <1>3, <3>1
      <3> QED BY <1>2, <3>1, <3>2, <3>3
    <2>4. j <= k \/ j = k + 1 \/ j > k + 1
      <3>1. j \in Int /\ k \in Int
        BY <1>5
      <3> QED BY <3>1
    <2> QED BY <2>1, <2>2, <2>3, <2>4
  <1>12. r = c \o b
    BY <1>3, <1>10, <1>11, SeqEqual
  <1>13. Fifo!InsertAt(q, k + 1, y) = c \o b
    <2>1. (k + 1) - 1 = k /\ Len(q) = n
      BY <1>2, <1>5
    <2>2. Fifo!InsertAt(q, k + 1, y)
            = SubSeq(q, 1, (k + 1) - 1) \o <<y>> \o SubSeq(q, k + 1, Len(q))
      BY DEF Fifo!InsertAt
    <2> QED BY <2>1, <2>2 DEF a, b, c
  <1> QED BY <1>12, <1>13 DEF q, r, k, Inserts

\* Without the first of its set a list loses its first element.
Drops(M, Q, R, y) ==
  /\ Listed(M, Q) # <<>> /\ Head(Listed(M, Q)) = y
  /\ Listed(M \ {y}, R) = Tail(Listed(M, Q))

LEMMA ListedTail ==
  ASSUME NEW M, NEW Q, NEW R, Sorts(M, Q), NEW y \in M, Agree(M \ {y}, Q, R),
         \A x \in M : <<x, y>> \notin Q
  PROVE  Drops(M, Q, R, y)
  <1> DEFINE S == M \ {y}
             n == Cardinality(S)
             q == Listed(S, R)
             r == Listed(M, Q)
  <1>1. Rank(M, Q, y) = 0
    <2>1. {x \in M : <<x, y>> \in Q} = {}
      OBVIOUS
    <2> QED BY <2>1, FS_EmptySet DEF Rank
  <1>2. /\ Sorts(S, R) /\ Cardinality(M) = n + 1
        /\ Nth(M, Q, 1) = y
        /\ \A j \in 1 .. n : Nth(M, Q, j + 1) = Nth(S, R, j)
    <2>1. Shifts(M, Q, R, y)
      BY NthShifts
    <2>2. Rank(M, Q, y) + 1 = 1
      BY <1>1
    <2> QED BY <2>1, <2>2 DEF Shifts
  <1> HIDE DEF S
  <1>3. q \in Seq(S) /\ Len(q) = n /\ n \in Nat /\ \A j \in 1 .. n : q[j] = Nth(S, R, j)
    BY <1>2, ListedType
  <1>4. /\ r \in Seq(M) /\ Len(r) = n + 1 /\ \A j \in 1 .. n + 1 : r[j] = Nth(M, Q, j)
    <2>1. /\ r \in Seq(M) /\ Len(r) = Cardinality(M)
          /\ \A j \in 1 .. Cardinality(M) : r[j] = Nth(M, Q, j)
      BY ListedType
    <2> QED BY <1>2, <2>1
  <1> HIDE DEF q, r, n
  <1>5. r # <<>>
    BY <1>3, <1>4, EmptySeq
  <1>6. /\ Tail(r) \in Seq(M) /\ Len(Tail(r)) = n
        /\ \A j \in 1 .. n : Tail(r)[j] = r[j + 1]
    <2>1. /\ Tail(r) \in Seq(M) /\ Len(Tail(r)) = Len(r) - 1
          /\ \A j \in 1 .. Len(Tail(r)) : Tail(r)[j] = r[j + 1]
      BY <1>4, <1>5, HeadTailProperties
    <2>2. (n + 1) - 1 = n
      BY <1>3
    <2> QED BY <1>4, <2>1, <2>2
  <1>7. ASSUME NEW j \in 1 .. n PROVE Tail(r)[j] = q[j]
    <2>1. j + 1 \in 1 .. n + 1
      BY <1>3
    <2> QED BY <1>2, <1>3, <1>4, <1>6, <2>1
  <1>8. Tail(r) = q
    BY <1>3, <1>6, <1>7, SeqEqual
  <1>9. Head(r) = y
    <2>1. 1 \in 1 .. n + 1
      BY <1>3
    <2> QED BY <1>2, <1>4, <1>5, <2>1
  <1> QED BY <1>5, <1>8, <1>9 DEF q, r, S, Drops

-----------------------------------------------------------------------------
(* The items of the list in order.                                         *)

ReachableShows ==
  /\ \A i : i \in Reachable <=> \E n \in head .. End : Stored(nodes[n].queue, i)
  /\ Reachable \subseteq 1 .. MaxItem

LEMMA ReachableShown == IInv => ReachableShows
  BY ReachableAt DEF IInv, ReachableShows

\* Item k is before item i.
InSegment(q, k, i) == \E a, b \in DOMAIN q : a < b /\ q[a] = k /\ q[b] = i
Precedes(k, i) ==
  \/ \E n \in head .. End : InSegment(nodes[n].queue, k, i)
  \/ \E m, n \in head .. End :
       m < n /\ Stored(nodes[m].queue, k) /\ Stored(nodes[n].queue, i)

LEMMA WithinAt ==
  ASSUME NEW S, NEW q \in Seq(S), NEW k, NEW i
  PROVE  <<k, i>> \in Within(q) <=> InSegment(q, k, i)
  <1>1. DOMAIN q = 1 .. Len(q) /\ Len(q) \in Nat
    BY LenProperties
  <1>2. <<k, i>> \in Within(q) <=> \E a \in DOMAIN q : \E b \in a + 1 .. Len(q) : q[a] = k /\ q[b] = i
    BY DEF Within
  <1>3. ASSUME NEW a \in DOMAIN q, NEW b \in a + 1 .. Len(q), q[a] = k, q[b] = i
        PROVE  InSegment(q, k, i)
    <2>1. b \in DOMAIN q /\ a < b
      BY <1>1
    <2> QED BY <1>3, <2>1 DEF InSegment
  <1>4. ASSUME NEW a \in DOMAIN q, NEW b \in DOMAIN q, a < b, q[a] = k, q[b] = i
        PROVE  \E c \in DOMAIN q : \E d \in c + 1 .. Len(q) : q[c] = k /\ q[d] = i
    <2>1. b \in a + 1 .. Len(q)
      BY <1>1, <1>4
    <2> QED BY <1>4, <2>1
  <1> QED BY <1>2, <1>3, <1>4 DEF InSegment

OrderShows == \A k, i : <<k, i>> \in Order <=> Precedes(k, i)

LEMMA OrderAt == IInv => OrderShows
  <1> SUFFICES ASSUME IInv, NEW k, NEW i PROVE <<k, i>> \in Order <=> Precedes(k, i)
    BY DEF OrderShows
  <1>1. /\ End \in Nat /\ head \in 1 .. End
        /\ \A n \in head .. End : nodes[n].queue \in Seq(1 .. MaxItem)
    <2>1. LooseType
      BY DEF IInv
    <2>2. End \in Nat /\ head \in 1 .. End
      BY <2>1, NodeFacts DEF LooseType
    <2> QED BY <2>1, <2>2, NodeFacts
  <1>2. \A n : i \in Later(n) <=> \E m \in n + 1 .. End : Stored(nodes[m].queue, i)
    BY DEF Later, Stored, ToSet
  <1>3. \A n : k \in ToSet(nodes[n].queue) <=> Stored(nodes[n].queue, k)
    BY DEF Stored, ToSet
  <1>4. \A n \in head .. End : <<k, i>> \in Within(nodes[n].queue) <=> InSegment(nodes[n].queue, k, i)
    BY <1>1, WithinAt
  <1>5. <<k, i>> \in Order <=>
          \E n \in head .. End :
            \/ <<k, i>> \in Within(nodes[n].queue)
            \/ k \in ToSet(nodes[n].queue) /\ i \in Later(n)
    BY DEF Order
  <1>6. ASSUME NEW n \in head .. End, NEW m \in n + 1 .. End PROVE m \in head .. End /\ n < m
    BY <1>1
  <1>7. ASSUME NEW n \in head .. End, NEW m \in head .. End, n < m PROVE m \in n + 1 .. End
    BY <1>1, <1>7
  <1>8. <<k, i>> \in Order => Precedes(k, i)
    BY <1>2, <1>3, <1>4, <1>5, <1>6 DEF Precedes
  <1>9. ASSUME Precedes(k, i) PROVE <<k, i>> \in Order
    <2>1. CASE \E n \in head .. End : InSegment(nodes[n].queue, k, i)
      BY <1>4, <1>5, <2>1
    <2>2. CASE \E m, n \in head .. End :
                 m < n /\ Stored(nodes[m].queue, k) /\ Stored(nodes[n].queue, i)
      BY <1>2, <1>3, <1>5, <1>7, <2>2
    <2> QED BY <1>9, <2>1, <2>2 DEF Precedes
  <1> QED BY <1>8, <1>9

\* The order of the items is strict and total, and dequeues can reach finitely
\* many.
ItemsSort == Sorts(Reachable, Order)

LEMMA ItemsSorted == IInv => ItemsSort
  <1> SUFFICES ASSUME IInv PROVE Sorts(Reachable, Order)
    BY DEF ItemsSort
  <1>1. /\ LooseType /\ End \in Nat /\ head \in 1 .. End /\ MaxItem \in Nat
        /\ \A n \in head .. End : n \in 1 .. End /\ n \in Int
        /\ \A n \in head .. End : nodes[n].queue \in Seq(1 .. MaxItem)
    <2>1. LooseType
      BY DEF IInv
    <2>2. End \in Nat /\ head \in 1 .. End
      BY <2>1, NodeFacts DEF LooseType
    <2> QED BY <2>1, <2>2, NodeFacts, StartFacts DEF LooseType
  <1>2. /\ \A i : i \in Reachable <=> \E n \in head .. End : Stored(nodes[n].queue, i)
        /\ Reachable \subseteq 1 .. MaxItem
    BY <1>1, ReachableAt
  <1>3. \A x, y : <<x, y>> \in Order <=> Precedes(x, y)
    BY OrderAt DEF OrderShows
  <1>4. /\ \A n \in head .. End : NoRepeat(nodes[n].queue)
        /\ \A m, n \in head .. End : \A i \in Reachable :
             Stored(nodes[m].queue, i) /\ Stored(nodes[n].queue, i) => m = n
    BY <1>1, <1>2 DEF IInv, OneSegment
  <1>5. \A n \in head .. End : \A a \in DOMAIN nodes[n].queue : a \in Int
    BY <1>1, LenProperties
  <1>6. ASSUME NEW x, NEW y, NEW n, InSegment(nodes[n].queue, x, y)
        PROVE  Stored(nodes[n].queue, x) /\ Stored(nodes[n].queue, y)
    BY <1>6 DEF InSegment, Stored
  <1>7. IsFiniteSet(Reachable)
    <2>1. IsFiniteSet(1 .. MaxItem)
      BY <1>1, FS_Interval
    <2> QED BY <1>2, <2>1, FS_Subset
  <1>8. ASSUME NEW x \in Reachable PROVE ~Precedes(x, x)
    <2>1. \A n \in head .. End : ~InSegment(nodes[n].queue, x, x)
      BY <1>4, <1>5 DEF InSegment, NoRepeat
    <2> QED BY <1>1, <1>4, <2>1 DEF Precedes
  <1>9. ASSUME NEW x \in Reachable, NEW y \in Reachable, NEW z \in Reachable,
               Precedes(x, y), Precedes(y, z)
        PROVE  Precedes(x, z)
    <2>1. PICK k, l \in head .. End :
            /\ Stored(nodes[k].queue, x) /\ Stored(nodes[l].queue, y)
            /\ k < l \/ (k = l /\ InSegment(nodes[l].queue, x, y))
      BY <1>6, <1>9 DEF Precedes
    <2>2. PICK m, n \in head .. End :
            /\ Stored(nodes[m].queue, y) /\ Stored(nodes[n].queue, z)
            /\ m < n \/ (m = n /\ InSegment(nodes[m].queue, y, z))
      BY <1>6, <1>9 DEF Precedes
    <2>3. l = m /\ k \in Int /\ l \in Int /\ n \in Int
      BY <1>1, <1>4, <2>1, <2>2
    <2>4. CASE k < n
      BY <2>1, <2>2, <2>4 DEF Precedes
    <2>5. CASE ~(k < n)
      <3>1. k = l /\ m = n /\ InSegment(nodes[l].queue, x, y) /\ InSegment(nodes[l].queue, y, z)
        BY <2>1, <2>2, <2>3, <2>5
      <3>2. PICK a, b \in DOMAIN nodes[l].queue :
              a < b /\ nodes[l].queue[a] = x /\ nodes[l].queue[b] = y
        BY <3>1 DEF InSegment
      <3>3. PICK c, d \in DOMAIN nodes[l].queue :
              c < d /\ nodes[l].queue[c] = y /\ nodes[l].queue[d] = z
        BY <3>1 DEF InSegment
      <3>4. b = c
        BY <1>4, <3>2, <3>3 DEF NoRepeat
      <3>5. a < d
        BY <1>5, <3>2, <3>3, <3>4
      <3> QED BY <3>2, <3>3, <3>5 DEF InSegment, Precedes
    <2> QED BY <2>4, <2>5
  <1>10. ASSUME NEW x \in Reachable, NEW y \in Reachable, x # y
         PROVE  Precedes(x, y) \/ Precedes(y, x)
    <2>1. PICK m \in head .. End : Stored(nodes[m].queue, x)
      BY <1>2
    <2>2. PICK n \in head .. End : Stored(nodes[n].queue, y)
      BY <1>2
    <2>3. m < n \/ n < m \/ m = n
      BY <1>1
    <2>4. CASE m = n
      <3>1. PICK a, b \in DOMAIN nodes[n].queue : nodes[n].queue[a] = x /\ nodes[n].queue[b] = y
        BY <2>1, <2>2, <2>4 DEF Stored
      <3>2. a < b \/ b < a
        BY <1>5, <1>10, <3>1
      <3> QED BY <3>1, <3>2 DEF InSegment, Precedes
    <2> QED BY <2>1, <2>2, <2>3, <2>4 DEF Precedes
  <1> QED BY <1>3, <1>7, <1>8, <1>9, <1>10 DEF Sorts

-----------------------------------------------------------------------------
(* What a step does to the order.                                          *)

\* A list is settled by its set and the order of it.
LEMMA ListedAgree ==
  ASSUME NEW S, NEW Q, NEW R, Sorts(S, Q), Sorts(S, R), Agree(S, Q, R)
  PROVE  Listed(S, Q) = Listed(S, R)
  <1>1. ASSUME NEW x \in S PROVE Rank(S, Q, x) = Rank(S, R, x)
    <2>1. Before(S, Q, x) = Before(S, R, x)
      BY DEF Before, Agree
    <2> QED BY <2>1 DEF Before, Rank
  <1>2. ASSUME NEW j \in 1 .. Cardinality(S) PROVE Nth(S, Q, j) = Nth(S, R, j)
    <2>1. Nth(S, Q, j) \in S /\ Rank(S, Q, Nth(S, Q, j)) = j - 1
      BY NthOf
    <2>2. Nth(S, R, Rank(S, R, Nth(S, Q, j)) + 1) = Nth(S, Q, j)
      BY <2>1, NthOf
    <2>3. Rank(S, R, Nth(S, Q, j)) = j - 1 /\ (j - 1) + 1 = j
      BY <1>1, <2>1, RankOrder
    <2> QED BY <2>2, <2>3
  <1> QED BY <1>2 DEF Listed

SameItems == Reachable' = Reachable /\ Agree(Reachable, Order', Order)

LEMMA SameQueue ==
  ASSUME IInv, IInv', SameItems
  PROVE  Queue' = Queue
  <1>1. ItemsSort /\ ItemsSort'
    BY ItemsSorted, PTL
  <1> DEFINE S == Reachable
             Q == Order'
             R == Order
  <1>2. Sorts(S, Q) /\ Sorts(S, R) /\ Agree(S, Q, R) /\ Queue = Listed(S, R) /\ Queue' = Listed(S, Q)
    BY <1>1 DEF SameItems, Queue, ItemsSort
  <1> HIDE DEF S, Q, R
  <1> QED BY <1>2, ListedAgree

\* Nothing is added to a segment or taken from one, and head leaves no item.
LEMMA RestItems ==
  ASSUME IInv, IInv', End' = End, \A n \in 1 .. End : nodes'[n].queue = nodes[n].queue,
         head' = head \/ (head' = head + 1 /\ nodes[head].queue = <<>>)
  PROVE  SameItems
  <1>1. LooseType /\ LooseType' /\ End \in Nat /\ head \in 1 .. End /\ head' \in 1 .. End
    <2>1. LooseType /\ LooseType'
      BY DEF IInv
    <2>2. head' \in 1 .. End'
      BY <2>1 DEF LooseType
    <2> QED BY <2>1, <2>2, NodeFacts DEF LooseType
  <1>2. ReachableShows /\ ReachableShows'
    BY ReachableShown, PTL
  <1>3. OrderShows /\ OrderShows'
    BY OrderAt, PTL
  <1>4. \A n \in head' .. End : n \in head .. End /\ nodes'[n].queue = nodes[n].queue
    BY <1>1
  <1>5. ASSUME NEW n \in head .. End
        PROVE  n \in head' .. End \/ \A i, k : ~Stored(nodes[n].queue, i)
                                               /\ ~InSegment(nodes[n].queue, i, k)
    <2>1. CASE n = head /\ head' = head + 1
      BY <2>1 DEF Stored, InSegment
    <2>2. CASE ~(n = head /\ head' = head + 1)
      BY <1>1, <2>2
    <2> QED BY <2>1, <2>2
  <1>6. \A i : i \in Reachable' <=> i \in Reachable
    BY <1>2, <1>4, <1>5 DEF ReachableShows
  <1>7. \A k, i : Precedes(k, i)' <=> Precedes(k, i)
    BY <1>4, <1>5 DEF Precedes
  <1>8. Agree(Reachable, Order', Order)
    BY <1>3, <1>7 DEF OrderShows, Agree
  <1> QED BY <1>6, <1>8 DEF SameItems

\* The order in a queue with one more item ...
LEMMA InAppend ==
  ASSUME NEW S, NEW q \in Seq(S), NEW i \in S, ~Stored(q, i)
  PROVE  /\ \A k, l : k # i /\ l # i => (InSegment(Append(q, i), k, l) <=> InSegment(q, k, l))
         /\ \A l : ~InSegment(Append(q, i), i, l)
  <1> DEFINE new == Append(q, i)
  <1>1. /\ new \in Seq(S) /\ Len(new) = Len(q) + 1
        /\ \A j \in 1 .. Len(q) : new[j] = q[j]
        /\ new[Len(q) + 1] = i
    BY AppendProperties
  <1>2. /\ Len(q) \in Nat /\ DOMAIN q = 1 .. Len(q) /\ DOMAIN new = 1 .. Len(q) + 1
    BY <1>1, LenProperties
  <1> HIDE DEF new
  <1>3. ASSUME NEW k, NEW l, k # i, l # i, InSegment(new, k, l) PROVE InSegment(q, k, l)
    <2>1. PICK a, b \in DOMAIN new : a < b /\ new[a] = k /\ new[b] = l
      BY <1>3 DEF InSegment
    <2>2. a \in DOMAIN q /\ b \in DOMAIN q
      BY <1>1, <1>2, <1>3, <2>1
    <2> QED BY <1>1, <1>2, <2>1, <2>2 DEF InSegment
  <1>4. ASSUME NEW k, NEW l, InSegment(q, k, l) PROVE InSegment(new, k, l)
    BY <1>1, <1>2, <1>4 DEF InSegment
  <1>5. ASSUME NEW l PROVE ~InSegment(new, i, l)
    BY <1>1, <1>2 DEF InSegment, Stored
  <1> QED BY <1>3, <1>4, <1>5 DEF new

\* ... and in one without its first.
LEMMA InTail ==
  ASSUME NEW S, NEW q \in Seq(S), q # <<>>, NoRepeat(q)
  PROVE  /\ \A k, l : k # Head(q) /\ l # Head(q) => (InSegment(Tail(q), k, l) <=> InSegment(q, k, l))
         /\ \A k : ~InSegment(q, k, Head(q))
  <1>1. /\ Tail(q) \in Seq(S) /\ Head(q) = q[1] /\ Head(q) \in S
        /\ Len(Tail(q)) = Len(q) - 1
        /\ \A j \in 1 .. Len(Tail(q)) : Tail(q)[j] = q[j + 1]
    BY HeadTailProperties
  <1>2. /\ Len(q) \in Nat /\ Len(q) > 0
        /\ DOMAIN q = 1 .. Len(q) /\ DOMAIN Tail(q) = 1 .. Len(q) - 1
    BY <1>1, EmptySeq, LenProperties
  <1>3. ASSUME NEW k, NEW l, InSegment(Tail(q), k, l) PROVE InSegment(q, k, l)
    <2>1. PICK a, b \in DOMAIN Tail(q) : a < b /\ Tail(q)[a] = k /\ Tail(q)[b] = l
      BY <1>3 DEF InSegment
    <2>2. /\ a + 1 \in DOMAIN q /\ b + 1 \in DOMAIN q /\ a + 1 < b + 1
          /\ q[a + 1] = k /\ q[b + 1] = l
      BY <1>1, <1>2, <2>1
    <2> QED BY <2>2 DEF InSegment
  <1>4. ASSUME NEW k, NEW l, k # Head(q), l # Head(q), InSegment(q, k, l)
        PROVE  InSegment(Tail(q), k, l)
    <2>1. PICK a, b \in DOMAIN q : a < b /\ q[a] = k /\ q[b] = l
      BY <1>4 DEF InSegment
    <2>2. a # 1 /\ b # 1
      BY <1>1, <1>4, <2>1
    <2>3. /\ a - 1 \in DOMAIN Tail(q) /\ b - 1 \in DOMAIN Tail(q) /\ a - 1 < b - 1
          /\ (a - 1) + 1 = a /\ (b - 1) + 1 = b
      BY <1>2, <2>1, <2>2
    <2>4. Tail(q)[a - 1] = k /\ Tail(q)[b - 1] = l
      BY <1>1, <1>2, <2>1, <2>3
    <2> QED BY <2>3, <2>4 DEF InSegment
  <1>5. ASSUME NEW k PROVE ~InSegment(q, k, Head(q))
    <2>1. SUFFICES ASSUME NEW a \in DOMAIN q, NEW b \in DOMAIN q, a < b, q[b] = q[1] PROVE FALSE
      BY <1>1 DEF InSegment
    <2>2. b = 1
      BY <1>2, <2>1 DEF NoRepeat
    <2> QED BY <1>2, <2>1, <2>2
  <1> QED BY <1>3, <1>4, <1>5

\* Item i, which was in no segment, is now the last of segment c.
Arrives(c, i) ==
  /\ head' = head /\ c \in head .. End'
  /\ \A n : n \in head .. End' <=> n \in head .. End \/ n = c
  /\ \A n \in head .. End : n # c => nodes'[n].queue = nodes[n].queue
  /\ \A k : Stored(nodes'[c].queue, k) <=>
       k = i \/ (c \in head .. End /\ Stored(nodes[c].queue, k))
  /\ \A k, l : k # i /\ l # i =>
       (InSegment(nodes'[c].queue, k, l) <=> c \in head .. End /\ InSegment(nodes[c].queue, k, l))
  /\ \A l : ~InSegment(nodes'[c].queue, i, l)

\* It comes after the others, but for those in later segments.
OneMore(c, i) ==
  /\ i \in Reachable' /\ Reachable = Reachable' \ {i}
  /\ Agree(Reachable, Order', Order)
  /\ \A x \in Reachable : <<i, x>> \in Order' =>
       \E m \in head .. End : c < m /\ Stored(nodes[m].queue, x)

LEMMA ItemArrived ==
  ASSUME IInv, IInv', NEW c, NEW i, Arrives(c, i), i \notin Reachable
  PROVE  OneMore(c, i)
  <1>1. ReachableShows /\ ReachableShows' /\ OrderShows /\ OrderShows'
    BY ReachableShown, OrderAt, PTL
  <1>2. \A x : x \in Reachable' <=> x \in Reachable \/ x = i
    BY <1>1 DEF ReachableShows, Arrives
  <1>3. \A n \in head .. End, x \in Reachable :
          Stored(nodes'[n].queue, x) <=> Stored(nodes[n].queue, x)
    BY DEF Arrives
  <1>4. \A n \in head .. End' : \A x \in Reachable : Stored(nodes'[n].queue, x) =>
          n \in head .. End /\ Stored(nodes[n].queue, x)
    BY DEF Arrives
  <1>5. ASSUME NEW x \in Reachable, NEW y \in Reachable
        PROVE  Precedes(x, y)' <=> Precedes(x, y)
    <2>1. \A n \in head .. End : InSegment(nodes'[n].queue, x, y) <=> InSegment(nodes[n].queue, x, y)
      BY DEF Arrives
    <2>2. \A n \in head .. End' : InSegment(nodes'[n].queue, x, y) => n \in head .. End
      BY DEF Arrives
    <2>3. /\ \A n : n \in head .. End => n \in head .. End'
          /\ head' = head
      BY DEF Arrives
    <2>4. Precedes(x, y) => Precedes(x, y)'
      BY <1>3, <2>1, <2>3 DEF Precedes
    <2>5. Precedes(x, y)' => Precedes(x, y)
      BY <1>3, <1>4, <2>1, <2>2, <2>3 DEF Precedes
    <2> QED BY <2>4, <2>5
  <1>6. Agree(Reachable, Order', Order)
    BY <1>1, <1>5 DEF OrderShows, Agree
  <1>7. ASSUME NEW x \in Reachable, Precedes(i, x)'
        PROVE  \E m \in head .. End : c < m /\ Stored(nodes[m].queue, x)
    <2>1. \A n \in head .. End' : Stored(nodes'[n].queue, i) => n = c
      BY <1>1 DEF Arrives, ReachableShows
    <2>2. \A n \in head .. End' : ~InSegment(nodes'[n].queue, i, x)
      <3>1. \A n \in head .. End' : InSegment(nodes'[n].queue, i, x) => Stored(nodes'[n].queue, i)
        BY DEF InSegment, Stored
      <3> QED BY <2>1, <3>1 DEF Arrives
    <2>3. head' = head
      BY DEF Arrives
    <2>4. PICK m, n \in head .. End' :
            m < n /\ Stored(nodes'[m].queue, i) /\ Stored(nodes'[n].queue, x)
      BY <1>7, <2>2, <2>3 DEF Precedes
    <2> QED BY <1>4, <2>1, <2>4
  <1>8. \A x \in Reachable : <<i, x>> \in Order' =>
          \E m \in head .. End : c < m /\ Stored(nodes[m].queue, x)
    BY <1>1, <1>7 DEF OrderShows
  <1> QED BY <1>2, <1>6, <1>8 DEF OneMore

\* The first item of the first segment is taken out.
Departs(i) ==
  /\ head' = head /\ End' = End /\ head \in 1 .. End
  /\ nodes[head].queue \in Seq(1 .. MaxItem) /\ nodes[head].queue # <<>>
  /\ i = Head(nodes[head].queue) /\ nodes'[head].queue = Tail(nodes[head].queue)
  /\ \A n \in head .. End : n # head => nodes'[n].queue = nodes[n].queue

\* It came before the others.
OneLess(i) ==
  /\ i \in Reachable /\ Reachable' = Reachable \ {i}
  /\ Agree(Reachable', Order', Order)
  /\ \A x \in Reachable : <<x, i>> \notin Order

LEMMA ItemDeparted ==
  ASSUME IInv, IInv', NEW i, Departs(i)
  PROVE  OneLess(i)
  <1> DEFINE q == nodes[head].queue
  <1>0. /\ LooseType /\ End \in Nat /\ head \in 1 .. End /\ head' = head /\ End' = End
        /\ head \in head .. End /\ \A n \in head .. End : n \in 1 .. End /\ ~(n < head)
        /\ i = Head(q) /\ nodes'[head].queue = Tail(q) /\ q \in Seq(1 .. MaxItem) /\ q # <<>>
        /\ \A n \in head .. End : n # head => nodes'[n].queue = nodes[n].queue
    BY NodeFacts DEF IInv, Departs
  <1>1. ReachableShows /\ ReachableShows' /\ OrderShows /\ OrderShows'
    BY ReachableShown, OrderAt, PTL
  <1>2. NoRepeat(q)
    BY <1>0 DEF IInv, OneSegment
  <1>3. /\ Stored(q, i) /\ i \in 1 .. MaxItem
        /\ \A k : Stored(Tail(q), k) <=> Stored(q, k) /\ k # i
    BY <1>0, <1>2, StoredTail
  <1>4. /\ \A k, l : k # i /\ l # i => (InSegment(Tail(q), k, l) <=> InSegment(q, k, l))
        /\ \A k : ~InSegment(q, k, i)
    BY <1>0, <1>2, InTail
  <1>5. \A n \in head .. End : Stored(nodes[n].queue, i) => n = head
    BY <1>0, <1>3 DEF IInv, OneSegment
  <1> HIDE DEF q
  <1>6. \A n \in head .. End : \A k : Stored(nodes'[n].queue, k) <=> Stored(nodes[n].queue, k) /\ k # i
    <2>1. \A n \in head .. End : n # head => \A k : Stored(nodes'[n].queue, k) => k # i
      BY <1>0, <1>5
    <2> QED BY <1>0, <1>3, <2>1 DEF q
  <1>7. \A x : x \in Reachable' <=> x \in Reachable /\ x # i
    BY <1>0, <1>1, <1>6 DEF ReachableShows
  <1>8. i \in Reachable
    BY <1>0, <1>1, <1>3 DEF ReachableShows, q
  <1>9. ASSUME NEW x \in Reachable', NEW y \in Reachable'
        PROVE  Precedes(x, y)' <=> Precedes(x, y)
    <2>1. x # i /\ y # i
      BY <1>7
    <2>2. \A n \in head .. End : InSegment(nodes'[n].queue, x, y) <=> InSegment(nodes[n].queue, x, y)
      BY <1>0, <1>4, <2>1 DEF q
    <2> QED BY <1>0, <1>6, <2>1, <2>2 DEF Precedes
  <1>10. Agree(Reachable', Order', Order)
    BY <1>1, <1>9 DEF OrderShows, Agree
  <1>11. ASSUME NEW x \in Reachable PROVE ~Precedes(x, i)
    <2>1. \A n \in head .. End : InSegment(nodes[n].queue, x, i) => Stored(nodes[n].queue, i)
      BY DEF InSegment, Stored
    <2> QED BY <1>0, <1>4, <1>5, <2>1 DEF Precedes, q
  <1> QED BY <1>1, <1>7, <1>8, <1>10, <1>11 DEF OneLess, OrderShows

\* The queue with the item that arrived ...
Inserted(c, i) ==
  \E k \in 1 .. Len(Queue) + 1 :
    /\ Queue' = Fifo!InsertAt(Queue, k, i)
    /\ \A j \in k .. Len(Queue) :
         \E m \in head .. End : c < m /\ Stored(nodes[m].queue, Queue[j])

LEMMA QueueInserted ==
  ASSUME IInv, IInv', NEW c, NEW i, OneMore(c, i)
  PROVE  Inserted(c, i)
  <1>1. ItemsSort /\ ItemsSort'
    BY ItemsSorted, PTL
  <1> DEFINE M == Reachable'
             Q == Order'
             R == Order
  <1>2. /\ Sorts(M, Q) /\ i \in M /\ M \ {i} = Reachable /\ Agree(M \ {i}, Q, R)
        /\ Queue = Listed(M \ {i}, R) /\ Queue' = Listed(M, Q)
    BY <1>1 DEF OneMore, Queue, ItemsSort
  <1> HIDE DEF M, Q, R
  <1>3. Shifts(M, Q, R, i) /\ Inserts(M, Q, R, i)
    BY <1>2, NthShifts, ListedInsert
  <1> DEFINE k == Rank(M, Q, i) + 1
             n == Cardinality(M \ {i})
  <1>4. /\ Len(Queue) = n /\ n \in Nat
        /\ \A j \in 1 .. n : Queue[j] = Nth(M \ {i}, R, j) /\ Queue[j] \in M \ {i}
    <2>1. Sorts(M \ {i}, R)
      BY <1>3 DEF Shifts
    <2> DEFINE S == M \ {i}
    <2> HIDE DEF S
    <2>2. Sorts(S, R) /\ Queue = Listed(S, R)
      BY <1>2, <2>1 DEF S
    <2>3. /\ Len(Queue) = Cardinality(S) /\ Cardinality(S) \in Nat
          /\ \A j \in 1 .. Cardinality(S) : Queue[j] = Nth(S, R, j)
      BY <2>2, ListedType
    <2>4. \A j \in 1 .. Cardinality(S) : Nth(S, R, j) \in S
      BY <2>2, NthOf
    <2> QED BY <2>3, <2>4 DEF S
  <1>5. k \in 1 .. n + 1 /\ Rank(M, Q, i) \in Nat
    BY <1>3, <1>4 DEF Shifts
  <1>6. Queue' = Fifo!InsertAt(Queue, k, i)
    BY <1>2, <1>3 DEF Inserts
  <1>7. ASSUME NEW j \in k .. n
        PROVE  \E m \in head .. End : c < m /\ Stored(nodes[m].queue, Queue[j])
    <2>1. <<i, Nth(M \ {i}, R, j)>> \in Q
      BY <1>3 DEF Shifts
    <2>2. j \in 1 .. n
      BY <1>4, <1>5
    <2>3. Queue[j] \in Reachable /\ <<i, Queue[j]>> \in Order'
      BY <1>2, <1>4, <2>1, <2>2 DEF Q
    <2> QED BY <2>3 DEF OneMore
  <1> HIDE DEF k, n
  <1> QED BY <1>4, <1>5, <1>6, <1>7 DEF Inserted

\* ... and without the one that departed.
LEMMA QueueShortened ==
  ASSUME IInv, IInv', NEW i, OneLess(i)
  PROVE  Queue # <<>> /\ Head(Queue) = i /\ Queue' = Tail(Queue)
  <1>1. ItemsSort /\ ItemsSort'
    BY ItemsSorted, PTL
  <1> DEFINE M == Reachable
             Q == Order
             R == Order'
  <1>2. /\ Sorts(M, Q) /\ i \in M /\ M \ {i} = Reachable' /\ Agree(M \ {i}, Q, R)
        /\ \A x \in M : <<x, i>> \notin Q
        /\ Queue' = Listed(M \ {i}, R) /\ Queue = Listed(M, Q)
    BY <1>1 DEF OneLess, Queue, ItemsSort, Agree
  <1> HIDE DEF M, Q, R
  <1>3. Drops(M, Q, R, i)
    BY <1>2, ListedTail
  <1> QED BY <1>2, <1>3 DEF Drops

\* The queue holds the items that dequeues can reach.
LEMMA QueueItems ==
  ASSUME IInv
  PROVE  /\ Queue \in Seq(Reachable) /\ ToSet(Queue) = Reachable /\ Fifo!IsInjective(Queue)
         /\ Reachable \subseteq 1 .. MaxItem /\ MaxItem \in Nat
  <1>1. Sorts(Reachable, Order)
    BY ItemsSorted DEF ItemsSort
  <1>2. Queue \in Seq(Reachable) /\ ToSet(Queue) = Reachable /\ Fifo!IsInjective(Queue)
    BY <1>1, ListedType, ListedItems DEF Queue
  <1>3. LooseType
    BY DEF IInv
  <1> QED BY <1>2, <1>3, ReachableShown, StartFacts DEF ReachableShows, LooseType

-----------------------------------------------------------------------------
(* What the steps do to the queues of the segments.                        *)

\* An insertion, a new segment, a claim, and every other step.
PutStep(t) ==
  /\ pc[t] = "e_put" /\ pc'[t] = "e_settle" /\ cur[t] \in 1 .. End
  /\ Appended(cur[t], item[t])
  /\ UNCHANGED <<head, tail, item, cur>>

LinkedStep(t) ==
  /\ pc[t] = "e_link" /\ pc'[t] = "e_fix" /\ cur[t] = End
  /\ End' = End + 1 /\ nodes'[End + 1].queue = <<item[t]>>
  /\ \A n \in 1 .. End : nodes'[n].queue = nodes[n].queue
  /\ UNCHANGED <<head, tail, item, cur>>

ClaimStep(t) ==
  /\ pc[t] \in {"d_try", "d_again"} /\ pc'[t] = "d_used" /\ cur[t] \in 1 .. End
  /\ nodes[cur[t]].queue \in Seq(1 .. MaxItem) /\ nodes[cur[t]].queue # <<>>
  /\ item'[t] = Head(nodes[cur[t]].queue)
  /\ End' = End /\ nodes'[cur[t]].queue = Tail(nodes[cur[t]].queue)
  /\ \A n \in 1 .. End : n # cur[t] => nodes'[n].queue = nodes[n].queue
  /\ UNCHANGED <<head, tail, cur>>

QuietStep(t) ==
  /\ End' = End /\ \A n \in 1 .. End : nodes'[n].queue = nodes[n].queue
  /\ head' = head \/ (head' = head + 1 /\ pc[t] = "d_move" /\ cur[t] = head)
  /\ tail' = tail \/ (tail' = tail + 1 /\ tail < End)
  /\ pc[t] = "e_fix" /\ cur[t] = tail => tail' = tail + 1

LEMMA PutWrites ==
  ASSUME IInv, NEW t \in Threads, EnqPut(t)
  PROVE  PutStep(t)
  <1>0. LooseType /\ LocalType /\ Pointers
    BY DEF IInv, LooseType
  <1>1. /\ pc[t] = "e_put" /\ pc'[t] = "e_settle" /\ UNCHANGED <<item, cur>>
        /\ cur[t] \in 1 .. End /\ item[t] # NoItem
    <2>1. pc[t] = "e_put" /\ pc'[t] = "e_settle" /\ UNCHANGED <<item, cur>>
      BY <1>0 DEF EnqPut, Goto, LocalType, local
    <2>2. cur[t] \in 1 .. End
      BY <1>0, <2>1, NodeFacts DEF Pointers
    <2>3. item[t] # NoItem
      BY <2>1 DEF IInv, Numbered, EnqPC, NoItem
    <2> QED BY <2>1, <2>2, <2>3
  <1> QED BY <1>0, <1>1, SegmentWrites DEF Writes, Appended, PutStep

LEMMA LinkWrites ==
  ASSUME IInv, NEW t \in Threads, EnqLink(t), cur[t] = End
  PROVE  LinkedStep(t)
  <1>0. LooseType /\ LocalType /\ Pointers
    BY DEF IInv, LooseType
  <1>1. /\ pc[t] = "e_link" /\ pc'[t] = "e_fix" /\ UNCHANGED <<item, cur, head, tail>>
        /\ nodes' = Append(nodes, NewSegment(<<item[t]>>))
    BY <1>0 DEF EnqLink, Goto, LocalType, local
  <1>2. item[t] \in 1 .. MaxItem
    BY <1>0, <1>1, StartFacts DEF IInv, Numbered, EnqPC, LooseType
  <1> DEFINE i == item[t]
  <1>3. i \in 1 .. MaxItem /\ nodes' = Append(nodes, NewSegment(<<i>>))
    BY <1>1, <1>2
  <1> HIDE DEF i
  <1>4. /\ End' = End + 1 /\ \A m \in 1 .. End : nodes'[m] = nodes[m]
        /\ nodes'[End + 1].queue = <<i>>
    BY <1>0, <1>3, LinkedNode
  <1> QED BY <1>1, <1>4 DEF LinkedStep, i

LEMMA ClaimWrites ==
  ASSUME IInv, NEW t \in Threads, NEW from \in {"d_try", "d_again"}, Claim(t, from)
  PROVE  ClaimStep(t)
  <1>0. LooseType /\ LocalType /\ Pointers
    BY DEF IInv, LooseType
  <1>1. pc[t] = from /\ pc'[t] = "d_used" /\ cur' = cur /\ cur[t] \in 1 .. End
        /\ nodes[cur[t]].queue \in Seq(1 .. MaxItem) /\ nodes[cur[t]].queue # <<>>
    <2>1. pc[t] = from /\ pc'[t] = "d_used" /\ cur' = cur /\ nodes[cur[t]].queue # <<>>
      BY <1>0 DEF Claim, Goto, LocalType
    <2>2. cur[t] \in 1 .. End
      BY <1>0, <2>1, NodeFacts DEF Pointers
    <2> QED BY <1>0, <2>1, <2>2, NodeFacts
  <1>2. item'[t] = Head(nodes[cur[t]].queue)
    <2> DEFINE i == Head(nodes[cur[t]].queue)
    <2>1. item' = [item EXCEPT ![t] = i]
      BY DEF Claim
    <2> HIDE DEF i
    <2>2. item'[t] = i
      BY <1>0, <2>1 DEF LocalType
    <2> QED BY <2>2 DEF i
  <1>3. LET s == nodes[cur[t]]
        IN Writes(t, Tail(s.queue), s.closed, s.refilled, s.used, s.free)
    <2>1. Claim(t, "d_try") \/ Claim(t, "d_again")
      OBVIOUS
    <2> QED BY <1>0, <2>1, SegmentWrites
  <1> QED BY <1>1, <1>2, <1>3 DEF Writes, ClaimStep

Quiets(t) ==
  \/ Invoke(t) \/ EnqTail(t) \/ EnqNext(t) \/ EnqUsed(t) \/ EnqUndo(t) \/ EnqFree(t)
  \/ EnqFlag(t) \/ EnqSettle(t) \/ EnqFinal(t) \/ EnqGiveUsed(t) \/ EnqGiveFree(t)
  \/ (EnqLink(t) /\ cur[t] # End) \/ EnqFix(t) \/ DeqHead(t)
  \/ Miss(t, "d_try", "d_next") \/ Miss(t, "d_again", "d_move")
  \/ DeqNext(t) \/ DeqMove(t) \/ DeqUsed(t) \/ DeqFree(t) \/ DeqLen(t)

LEMMA QuietWrites ==
  ASSUME IInv, NEW t \in Threads, Quiets(t)
  PROVE  QuietStep(t)
  <1>0. LooseType /\ LocalType /\ Pointers /\ End \in Nat /\ tail \in 1 .. End /\ TailLag
    BY NodeFacts DEF IInv, LooseType
  <1>w. ASSUME NEW c, NEW r, NEW u, NEW f, Writes(t, nodes[cur[t]].queue, c, r, u, f),
               pc[t] # "e_fix"
        PROVE  QuietStep(t)
    BY <1>w DEF Writes, QuietStep
  <1>q. ASSUME UNCHANGED <<nodes, head, tail>>, pc[t] # "e_fix"
        PROVE  QuietStep(t)
    BY <1>q DEF QuietStep, End
  <1>1. CASE EnqUsed(t) \/ EnqUndo(t) \/ EnqFree(t) \/ EnqFlag(t) \/ EnqSettle(t) \/ EnqFinal(t)
    <2>1. pc[t] # "e_fix"
      BY <1>1 DEF EnqUsed, EnqUndo, EnqFree, EnqFlag, EnqSettle, EnqFinal, Goto, Return
    <2> QED BY <1>0, <1>1, <1>w, <2>1, SegmentWrites
  <1>2. CASE EnqGiveUsed(t) \/ EnqGiveFree(t) \/ DeqUsed(t) \/ DeqFree(t)
    <2>1. pc[t] # "e_fix"
      BY <1>2 DEF EnqGiveUsed, EnqGiveFree, DeqUsed, DeqFree, Goto
    <2> QED BY <1>0, <1>2, <1>w, <2>1, SegmentWrites
  <1>3. CASE Invoke(t) \/ EnqTail(t) \/ DeqHead(t) \/ DeqLen(t)
    <2>1. UNCHANGED <<nodes, head, tail>> /\ pc[t] # "e_fix"
      BY <1>3 DEF Invoke, EnqCall, DeqCall, Call, EnqTail, DeqHead, DeqLen, Goto, Return, list
    <2> QED BY <1>q, <2>1
  <1>4. CASE EnqLink(t) /\ cur[t] # End
    <2>1. UNCHANGED <<nodes, head, tail>> /\ pc[t] # "e_fix"
      BY <1>4 DEF EnqLink, Goto, list
    <2> QED BY <1>q, <2>1
  <1>5. CASE Miss(t, "d_try", "d_next") \/ Miss(t, "d_again", "d_move")
    <2>1. UNCHANGED <<nodes, head, tail>> /\ pc[t] # "e_fix"
      BY <1>5 DEF Miss, list
    <2> QED BY <1>q, <2>1
  <1>6. CASE DeqNext(t)
    <2>1. pc[t] # "e_fix"
      BY <1>6 DEF DeqNext, Goto, Return
    <2>2. CASE cur[t] # End
      BY <1>0, <1>6, <1>w, <2>1, <2>2, SegmentWrites
    <2>3. CASE cur[t] = End
      <3>1. UNCHANGED <<nodes, head, tail>>
        BY <1>6, <2>3 DEF DeqNext, list
      <3> QED BY <1>q, <2>1, <3>1
    <2> QED BY <2>2, <2>3
  <1>7. CASE DeqMove(t)
    <2>1. /\ pc[t] = "d_move" /\ UNCHANGED <<nodes, tail>>
          /\ head' = head \/ (head' = head + 1 /\ cur[t] = head)
      BY <1>7 DEF DeqMove, Goto
    <2> QED BY <2>1 DEF QuietStep, End
  <1>8. CASE EnqNext(t) \/ EnqFix(t)
    <2>1. /\ UNCHANGED <<nodes, head>>
          /\ tail' = tail \/ (tail = cur[t] /\ tail' = tail + 1)
          /\ pc[t] = "e_fix" /\ cur[t] = tail => tail' = tail + 1
          /\ tail' # tail => cur[t] # End
      BY <1>0, <1>8 DEF EnqNext, EnqFix, Goto, Return, list, Pointers
    <2> QED BY <1>0, <2>1 DEF QuietStep, End
  <1> QED BY <1>1, <1>2, <1>3, <1>4, <1>5, <1>6, <1>7, <1>8 DEF Quiets

\* Every step of a thread is one of the four.
LEMMA StepQueues ==
  ASSUME IInv, NEW t \in Threads, Invoke(t) \/ Step(t)
  PROVE  \/ EnqPut(t) /\ PutStep(t)
         \/ EnqLink(t) /\ LinkedStep(t)
         \/ (DeqTry(t) \/ DeqAgain(t)) /\ ClaimStep(t)
         \/ Quiets(t) /\ QuietStep(t)
  <1>1. EnqPut(t) \/ (EnqLink(t) /\ cur[t] = End) \/ Claim(t, "d_try") \/ Claim(t, "d_again")
        \/ Quiets(t)
    BY DEF Step, Quiets, DeqTry, DeqAgain
  <1> QED BY <1>1, PutWrites, LinkWrites, ClaimWrites, QuietWrites DEF DeqTry, DeqAgain

-----------------------------------------------------------------------------
(* Why the queue is one FIFO queue: CallInv is inductive.                  *)

\* The pointers and the list only grow.
Grows(t) ==
  /\ Others(t) /\ MaxItem' = MaxItem
  /\ head \in Nat /\ tail \in Nat /\ End \in Nat /\ head' \in Nat /\ tail' \in Nat /\ End' \in Nat
  /\ head \in 1 .. End /\ tail \in 1 .. End /\ head' \in 1 .. End' /\ tail' \in 1 .. End'
  /\ head <= head' /\ tail <= tail' /\ End <= End'

LEMMA StepGrows ==
  ASSUME IInv, IInv', NEW t \in Threads, Invoke(t) \/ Step(t)
  PROVE  Grows(t)
  <1>0. LooseType /\ LooseType' /\ LocalType /\ Pointers /\ Numbered
    BY DEF IInv, LooseType
  <1>1. Others(t) /\ MaxItem' = MaxItem
    <2>1. ListStep
      BY <1>0, ListTypeStep
    <2> QED BY <1>0, <2>1, OthersStep, SameStart DEF ListStep
  <1>2. /\ End \in Nat /\ head \in 1 .. End /\ tail \in 1 .. End
        /\ head' \in 1 .. End' /\ tail' \in 1 .. End'
    BY <1>0, NodeFacts DEF LooseType
  <1>3. head <= head' /\ tail <= tail' /\ End' \in {End, End + 1}
    <2>1. PutStep(t) \/ LinkedStep(t) \/ ClaimStep(t) \/ QuietStep(t)
      BY StepQueues
    <2>2. CASE PutStep(t)
      BY <1>2, <2>2 DEF PutStep, Appended
    <2>3. CASE LinkedStep(t)
      BY <1>2, <2>3 DEF LinkedStep
    <2>4. CASE ClaimStep(t)
      BY <1>2, <2>4 DEF ClaimStep
    <2>5. CASE QuietStep(t)
      BY <1>2, <2>5 DEF QuietStep
    <2> QED BY <2>1, <2>2, <2>3, <2>4, <2>5
  <1>4. head \in Nat /\ tail \in Nat /\ head' \in Nat /\ tail' \in Nat /\ End' \in Nat /\ End <= End'
    BY <1>2, <1>3
  <1> QED BY <1>1, <1>2, <1>3, <1>4 DEF Grows

\* What is stored after a step was stored there before, or was brought by it.
StoredSince(t) ==
  \A n \in 1 .. End' : \A i : Stored(nodes'[n].queue, i) =>
    \/ n \in 1 .. End /\ Stored(nodes[n].queue, i)
    \/ PutStep(t) /\ n = cur[t] /\ i = item[t]
    \/ LinkedStep(t) /\ n = End + 1 /\ i = item[t]

LEMMA StepStored ==
  ASSUME IInv, IInv', NEW t \in Threads, Invoke(t) \/ Step(t)
  PROVE  StoredSince(t)
  <1>0. LooseType /\ End \in Nat
    BY NodeFacts DEF IInv
  <1>1. PutStep(t) \/ LinkedStep(t) \/ ClaimStep(t) \/ QuietStep(t)
    BY StepQueues
  <1>2. CASE PutStep(t)
    <2> DEFINE q == nodes[cur[t]].queue
               i == item[t]
    <2>1. item[t] \in 1 .. calls /\ calls \in 0 .. MaxItem /\ MaxItem \in Nat
      BY <1>0, <1>2, StartFacts DEF PutStep, IInv, Numbered, EnqPC, LooseType
    <2>2. i \in 1 .. MaxItem
      BY <2>1
    <2>3. q \in Seq(1 .. MaxItem) /\ nodes'[cur[t]].queue = Append(q, i)
      BY <1>0, <1>2, NodeFacts DEF PutStep, Appended
    <2> HIDE DEF q, i
    <2>4. \A k : Stored(Append(q, i), k) <=> Stored(q, k) \/ k = i
      BY <2>2, <2>3, StoredAppend
    <2> QED BY <1>2, <2>3, <2>4 DEF PutStep, Appended, StoredSince, q, i
  <1>3. CASE LinkedStep(t)
    <2>1. \A k : Stored(nodes'[End + 1].queue, k) <=> k = item[t]
      BY <1>3, StoredOne DEF LinkedStep
    <2>2. \A n \in 1 .. End + 1 : n \in 1 .. End \/ n = End + 1
      BY <1>0
    <2> QED BY <1>3, <2>1, <2>2 DEF LinkedStep, StoredSince
  <1>4. CASE ClaimStep(t)
    <2> DEFINE q == nodes[cur[t]].queue
    <2>1. /\ q \in Seq(1 .. MaxItem) /\ q # <<>> /\ NoRepeat(q)
          /\ nodes'[cur[t]].queue = Tail(q)
      BY <1>4 DEF ClaimStep, IInv, OneSegment
    <2> HIDE DEF q
    <2>2. \A k : Stored(nodes'[cur[t]].queue, k) => Stored(q, k)
      BY <2>1, StoredTail
    <2> QED BY <1>4, <2>2 DEF ClaimStep, StoredSince, q
  <1>5. CASE QuietStep(t)
    BY <1>5 DEF QuietStep, StoredSince
  <1> QED BY <1>1, <1>2, <1>3, <1>4, <1>5

\* An item that stays in the list stays in its segment.
StaysPut ==
  \A m \in 1 .. End, n \in 1 .. End' : \A i \in 1 .. MaxItem :
    Stored(nodes[m].queue, i) /\ Stored(nodes'[n].queue, i) => m = n

LEMMA StepStays ==
  ASSUME IInv, IInv', NEW t \in Threads, Invoke(t) \/ Step(t)
  PROVE  StaysPut
  <1>1. StoredSince(t)
    BY StepStored
  <1>2. PutStep(t) \/ LinkedStep(t) => \A n \in 1 .. End : ~Stored(nodes[n].queue, item[t])
    BY DEF PutStep, LinkedStep, IInv, HeldApart, Holders, EnqBefore, EnqAfter, EnqPC
  <1> QED BY <1>1, <1>2 DEF StoredSince, StaysPut, IInv, OneSegment

\* Where a call of enqueue() begins, and where it loads tail.
EnqPath(t) ==
  \/ pc[t] = "idle" /\ pc'[t] = "e_tail" /\ EnqCall(t) /\ UNCHANGED <<nodes, head, tail>>
  \/ pc[t] # "idle" /\ pc'[t] = "e_tail"
  \/ pc[t] = "e_tail" /\ cur'[t] = tail
  \/ pc[t] \notin {"idle", "e_tail"} /\ cur'[t] = cur[t]

LEMMA EnqSteps ==
  ASSUME LocalType, NEW t \in Threads, Invoke(t) \/ Step(t), pc'[t] \in EnqBefore
  PROVE  EnqPath(t)
  <1> USE DEF LocalType, Goto, Return, local, EnqBefore, EnqAfter, EnqPC, EnqPath
  <1>1. CASE EnqCall(t)
    BY <1>1 DEF EnqCall, Call, list
  <1>2. CASE DeqCall(t) \/ DeqHead(t)
    BY <1>2 DEF DeqCall, Call, DeqHead
  <1>3. CASE EnqTail(t)
    BY <1>3 DEF EnqTail, SafeLoad
  <1>4. CASE EnqNext(t) \/ EnqLink(t) \/ EnqFix(t)
    BY <1>4 DEF EnqNext, EnqLink, EnqFix
  <1>5. CASE EnqUsed(t) \/ EnqUndo(t) \/ EnqFree(t)
    BY <1>5 DEF EnqUsed, EnqUndo, EnqFree
  <1>6. CASE EnqFlag(t) \/ EnqPut(t)
    BY <1>6 DEF EnqFlag, EnqPut
  <1>7. CASE EnqSettle(t) \/ EnqFinal(t) \/ EnqGiveUsed(t) \/ EnqGiveFree(t)
    BY <1>7 DEF EnqSettle, EnqFinal, EnqGiveUsed, EnqGiveFree
  <1>8. CASE DeqNext(t) \/ DeqMove(t) \/ DeqUsed(t) \/ DeqFree(t) \/ DeqLen(t)
    BY <1>8 DEF DeqNext, DeqMove, DeqUsed, DeqFree, DeqLen
  <1>9. ASSUME NEW from, Claim(t, from) PROVE EnqPath(t)
    <2>1. pc'[t] = "d_used"
      BY <1>9 DEF Claim
    <2> QED BY <2>1
  <1>10. ASSUME NEW from, NEW to \in {"d_next", "d_move"}, Miss(t, from, to) PROVE EnqPath(t)
    <2>1. pc'[t] = to
      BY <1>10 DEF Miss
    <2> QED BY <2>1
  <1> QED
    BY <1>1, <1>2, <1>3, <1>4, <1>5, <1>6, <1>7, <1>8, <1>9, <1>10 DEF Invoke, Step, DeqTry, DeqAgain

\* The record of an enqueue is as the call found the queue.
LEMMA RecordEnq ==
  ASSUME Record, NEW u \in Threads
  PROVE  /\ pc'[u] \notin EnqBefore => pre'[u] = {}
         /\ pc'[u] \in EnqBefore /\ pc[u] = "idle" => pre'[u] = Returned
         /\ pc'[u] \in EnqBefore /\ pc[u] # "idle" => pre'[u] = pre[u] \intersect Reachable'
  <1>1. pre'[u] = CASE pc'[u] \in EnqBefore /\ pc[u] = "idle" -> Returned
                    [] pc'[u] \in EnqBefore /\ pc[u] # "idle" -> pre[u] \intersect Reachable'
                    [] OTHER -> {}
    BY DEF Record
  <1> QED BY <1>1

\* The record of a dequeue is whether it has met an empty queue.
LEMMA RecordDeq ==
  ASSUME Record, NEW u \in Threads
  PROVE  /\ mayFail'[u] \in BOOLEAN
         /\ mayFail'[u] <=> pc'[u] \in DeqPC /\ (mayFail[u] \/ Returned' = {})
  <1> DEFINE gone == Returned' = {}
             met == pc'[u] \in DeqPC /\ (mayFail[u] \/ gone)
  <1>1. mayFail'[u] = met
    BY Zenon DEF Record
  <1>2. met \in BOOLEAN
    OBVIOUS
  <1> HIDE DEF met
  <1>3. mayFail'[u] \in BOOLEAN /\ (mayFail'[u] <=> met)
    BY <1>1, <1>2
  <1> QED BY <1>3 DEF met

\* What is beyond the larger is beyond the smaller.
LEMMA Beyond ==
  ASSUME NEW l \in Nat, NEW m \in Nat, l <= m, NEW e \in Nat, NEW n \in m + 1 .. e
  PROVE  n \in 1 .. e /\ n \in Int /\ n > m /\ n > l
  OBVIOUS

\* BehindTail is inductive: whoever links a segment moves tail on before it
\* returns, unless another enqueue has.
LEMMA BehindStep ==
  ASSUME IInv, IInv', BehindTail, NEW t \in Threads, Invoke(t) \/ Step(t)
  PROVE  BehindTail'
  <1>0. Grows(t) /\ StoredSince(t) /\ Pointers /\ TailLag /\ LooseType
    BY StepGrows, StepStored DEF IInv
  <1>1. ASSUME NEW n \in tail' + 1 .. End', NEW i \in 1 .. MaxItem, Stored(nodes'[n].queue, i)
        PROVE  \E u \in Threads : pc'[u] = "e_fix" /\ item'[u] = i /\ cur'[u] = n - 1
    <2>0. tail \in Nat /\ tail' \in Nat /\ End' \in Nat /\ tail <= tail'
      BY <1>0 DEF Grows
    <2>1. n \in 1 .. End' /\ n \in Int /\ n > tail' /\ n > tail
      BY <2>0, Beyond
    <2>2. CASE n \in 1 .. End /\ Stored(nodes[n].queue, i)
      <3>1. n \in tail + 1 .. End
        BY <1>0, <2>1, <2>2 DEF Grows
      <3>2. PICK u \in Threads : pc[u] = "e_fix" /\ item[u] = i /\ cur[u] = n - 1
        BY <2>2, <3>1 DEF BehindTail
      <3>3. CASE u # t
        BY <1>0, <3>2, <3>3 DEF Grows, Others
      <3>4. CASE u = t
        <4>1. QuietStep(t)
          BY <3>2, <3>4, StepQueues DEF PutStep, LinkedStep, ClaimStep
        <4>2. cur[t] = tail
          BY <1>0, <2>1, <2>2, <3>2, <3>4 DEF Grows, TailLag
        <4> QED BY <1>0, <2>1, <3>2, <3>4, <4>1, <4>2 DEF QuietStep, Grows
      <3> QED BY <3>3, <3>4
    <2>3. CASE PutStep(t) /\ n = cur[t]
      BY <1>0, <2>1, <2>3 DEF PutStep, Pointers, EnqPC, Grows
    <2>4. CASE LinkedStep(t) /\ n = End + 1 /\ i = item[t]
      BY <1>0, <2>1, <2>4 DEF LinkedStep, Grows
    <2> QED BY <1>0, <1>1, <2>1, <2>2, <2>3, <2>4 DEF StoredSince
  <1> QED BY <1>0, <1>1 DEF BehindTail, Grows

\* Overtaken is inductive: an item keeps its segment, and an enqueue goes on
\* to a later one only by loading tail again.
LEMMA OvertakenStep ==
  ASSUME IInv, IInv', BehindTail, Overtaken, Record, NEW t \in Threads, Invoke(t) \/ Step(t)
  PROVE  Overtaken'
  <1>0. Grows(t) /\ StaysPut /\ ReachableShows /\ ReachableShows'
    BY StepGrows, StepStays, ReachableShown, PTL
  <1>1. pc'[t] \in EnqBefore => EnqPath(t)
    BY EnqSteps DEF IInv, LooseType
  <1>2. ASSUME NEW u \in Threads, NEW i \in pre'[u]
        PROVE  /\ pc'[u] \in EnqBefore
               /\ \E n \in head' .. tail' :
                    Stored(nodes'[n].queue, i) /\ (pc'[u] # "e_tail" => n <= cur'[u])
    <2>1. pc'[u] \in EnqBefore
      BY <1>2, RecordEnq
    <2>2. CASE pc[u] = "idle"
      <3>1. u = t
        BY <1>0, <2>1, <2>2 DEF Grows, Others, EnqBefore, EnqAfter, EnqPC
      <3>2. pc'[t] = "e_tail" /\ UNCHANGED <<nodes, head, tail>>
        BY <1>1, <2>1, <2>2, <3>1 DEF EnqPath
      <3>3. i \in Returned
        BY <1>2, <2>1, <2>2, RecordEnq
      <3>4. PICK n \in head .. End : Stored(nodes[n].queue, i)
        BY <1>0, <3>3 DEF Returned, ReachableShows
      <3>5. n <= tail
        <4> SUFFICES ASSUME ~(n <= tail) PROVE FALSE
          OBVIOUS
        <4>1. n \in tail + 1 .. End /\ i \in 1 .. MaxItem
          BY <1>0, <3>3 DEF Returned, ReachableShows, Grows
        <4>2. PICK v \in Threads : pc[v] = "e_fix" /\ item[v] = i
          BY <3>4, <4>1 DEF BehindTail
        <4> QED BY <3>3, <4>2 DEF Returned, EnqPC
      <3>6. n \in head' .. tail'
        BY <1>0, <3>2, <3>5 DEF Grows
      <3> QED BY <2>1, <3>1, <3>2, <3>4, <3>6
    <2>3. CASE pc[u] # "idle"
      <3>1. i \in pre[u] /\ i \in Reachable'
        BY <1>2, <2>1, <2>3, RecordEnq
      <3>2. PICK n \in head .. tail :
              Stored(nodes[n].queue, i) /\ (pc[u] # "e_tail" => n <= cur[u])
        BY <3>1 DEF Overtaken
      <3>3. PICK m \in head' .. End' : Stored(nodes'[m].queue, i)
        BY <1>0, <3>1 DEF ReachableShows
      <3>4. i \in 1 .. MaxItem /\ n \in 1 .. End /\ m \in 1 .. End' /\ n <= tail /\ n \in Int
        <4>1. /\ head \in 1 .. End /\ tail \in 1 .. End /\ head' \in 1 .. End'
              /\ End \in Nat /\ End' \in Nat
          BY <1>0 DEF Grows
        <4>2. n \in 1 .. End /\ m \in 1 .. End' /\ n <= tail /\ n \in Int
          BY <4>1
        <4>3. i \in 1 .. MaxItem' /\ MaxItem' = MaxItem
          BY <1>0, <3>1 DEF ReachableShows, Grows
        <4> QED BY <4>2, <4>3
      <3>5. m = n
        BY <1>0, <3>2, <3>3, <3>4 DEF StaysPut
      <3>6. n \in head' .. tail' /\ Stored(nodes'[n].queue, i)
        BY <1>0, <3>3, <3>4, <3>5 DEF Grows
      <3>7. pc'[u] # "e_tail" => n <= cur'[u]
        <4>1. CASE u # t
          BY <1>0, <3>2, <4>1 DEF Grows, Others
        <4>2. CASE u = t
          BY <1>1, <2>1, <2>3, <3>2, <3>4, <4>2 DEF EnqPath
        <4> QED BY <4>1, <4>2
      <3> QED BY <2>1, <3>6, <3>7
    <2> QED BY <2>2, <2>3
  <1> QED BY <1>2 DEF Overtaken

\* Only a miss leads to the look at the next pointer.
LEMMA NextSteps ==
  ASSUME LocalType, NEW t \in Threads, Invoke(t) \/ Step(t), pc'[t] = "d_next"
  PROVE  Miss(t, "d_try", "d_next")
  <1> USE DEF LocalType, Goto, Return
  <1>1. ~(Invoke(t) \/ DeqHead(t) \/ EnqTail(t) \/ EnqNext(t) \/ EnqLink(t) \/ EnqFix(t))
    BY DEF Invoke, EnqCall, DeqCall, Call, DeqHead, EnqTail, EnqNext, EnqLink, EnqFix
  <1>2. ~(EnqUsed(t) \/ EnqUndo(t) \/ EnqFree(t) \/ EnqFlag(t) \/ EnqPut(t))
    BY DEF EnqUsed, EnqUndo, EnqFree, EnqFlag, EnqPut
  <1>3. ~(EnqSettle(t) \/ EnqFinal(t) \/ EnqGiveUsed(t) \/ EnqGiveFree(t))
    BY DEF EnqSettle, EnqFinal, EnqGiveUsed, EnqGiveFree
  <1>4. ~(DeqNext(t) \/ DeqMove(t) \/ DeqUsed(t) \/ DeqFree(t) \/ DeqLen(t))
    BY DEF DeqNext, DeqMove, DeqUsed, DeqFree, DeqLen
  <1>5. ASSUME NEW from PROVE ~Claim(t, from)
    <2>1. Claim(t, from) => pc'[t] = "d_used"
      BY DEF Claim
    <2> QED BY <2>1
  <1>6. ~Miss(t, "d_again", "d_move")
    <2>1. Miss(t, "d_again", "d_move") => pc'[t] = "d_move"
      BY DEF Miss
    <2> QED BY <2>1
  <1> QED BY <1>1, <1>2, <1>3, <1>4, <1>5, <1>6 DEF Step, DeqTry, DeqAgain

\* A dequeue that finds nothing in the only segment has met a queue without
\* an item whose enqueue had returned.
LEMMA MissedAll ==
  ASSUME IInv, IInv', NEW t \in Threads, Miss(t, "d_try", "d_next"), cur[t] = End, ~Crowded
  PROVE  Returned' = {}
  <1>0. /\ LooseType /\ LocalType /\ End \in Nat /\ head \in 1 .. End /\ pc[t] = "d_try"
        /\ UNCHANGED <<nodes, head, item>> /\ End' = End
        /\ \A v \in Threads : pc[v] = "e_settle" => pc'[v] = "e_settle"
    BY NodeFacts DEF IInv, LooseType, LocalType, Miss, list, local, End
  <1>1. head = End
    BY <1>0 DEF IInv, Pointers, DeqPC
  <1>2. ReachableShows'
    BY ReachableShown, PTL
  <1>3. ASSUME NEW i \in Reachable'
        PROVE  \E v \in Threads : pc'[v] \in EnqPC /\ item'[v] = i
    <2>1. PICK n \in head' .. End' : Stored(nodes'[n].queue, i)
      BY <1>2 DEF ReachableShows
    <2>2. n = cur[t] /\ Stored(nodes[n].queue, i)
      BY <1>0, <1>1, <2>1
    <2>3. i \in ToSet(nodes[cur[t]].queue) /\ nodes[cur[t]].queue # <<>>
      BY <2>2 DEF Stored, ToSet
    <2>4. Settled(cur[t]) = {}
      BY <2>3 DEF Miss, MayMiss
    <2>5. PICK v \in Threads : pc[v] = "e_settle" /\ item[v] = i
      BY <2>3, <2>4, Zenon DEF Settled
    <2> QED BY <1>0, <2>5 DEF EnqPC
  <1> QED BY <1>3 DEF Returned

\* MetEmpty is inductive.
LEMMA MetEmptyStep ==
  ASSUME IInv, IInv', MetEmpty, Record, NEW t \in Threads, Invoke(t) \/ Step(t)
  PROVE  MetEmpty'
  <1>0. Grows(t) /\ LocalType /\ \A u \in Threads : cur[u] \in 0 .. End
    BY StepGrows DEF IInv, LooseType, LocalType
  <1>s. Crowded' = Crowded
    <2>1. start' = start
      BY ListTypeStep DEF IInv, ListStep
    <2> QED BY <2>1, SameCrowd
  <1>1. ASSUME NEW u \in Threads, ~Crowded, pc'[u] = "d_next", cur'[u] = End'
        PROVE  mayFail'[u]
    <2>1. CASE u # t
      <3>1. pc[u] = "d_next" /\ cur[u] = End
        BY <1>0, <1>1, <2>1 DEF Grows, Others
      <3> QED BY <1>1, <3>1, RecordDeq DEF MetEmpty, DeqPC
    <2>2. CASE u = t
      <3>1. Miss(t, "d_try", "d_next")
        BY <1>0, <1>1, <2>2, NextSteps
      <3>2. cur[t] = End
        BY <1>1, <2>2, <3>1 DEF Miss, list, local, End
      <3>3. Returned' = {}
        BY <1>1, <3>1, <3>2, MissedAll
      <3> QED BY <1>1, <3>3, RecordDeq DEF DeqPC
    <2> QED BY <2>1, <2>2
  <1> QED BY <1>s, <1>1, RecordDeq DEF MetEmpty

\* What only concerns the memory of the nodes leaves the calls alone.
RestStep == UNCHANGED <<start, nodes, head, tail, pc, item, cur>>

LEMMA RestCall ==
  ASSUME CallInv, RestStep, Record \/ UNCHANGED history
  PROVE  CallInv'
  <1>0. UNCHANGED <<start, nodes, head, tail, pc, item, cur>>
    BY DEF RestStep
  <1>1. End' = End /\ MaxItem' = MaxItem /\ Reachable' = Reachable /\ Returned' = Returned
    BY <1>0 DEF End, MaxItem, Reachable, Returned
  <1>2. \A u \in Threads : pc[u] \in EnqBefore => pc[u] # "idle"
    BY DEF EnqBefore, EnqAfter, EnqPC
  <1>3. \A u \in Threads : \A i \in pre'[u] : i \in pre[u]
    BY <1>0, <1>2, RecordEnq DEF history
  <1>4. \A u \in Threads :
          /\ mayFail'[u] \in BOOLEAN
          /\ mayFail'[u] <=> pc[u] \in DeqPC /\ (mayFail[u] \/ Returned = {})
    <2>1. CASE Record
      BY <1>0, <1>1, <2>1, RecordDeq
    <2>2. CASE UNCHANGED history
      BY <2>2 DEF history, CallInv, MetEmpty
    <2> QED BY <2>1, <2>2
  <1>5. BehindTail'
    BY <1>0, <1>1 DEF CallInv, BehindTail
  <1>6. Overtaken'
    BY <1>0, <1>3 DEF CallInv, Overtaken
  <1>7. MetEmpty'
    <2>1. Crowded' = Crowded
      BY <1>0, SameCrowd
    <2> QED BY <1>0, <1>1, <1>4, <2>1 DEF CallInv, MetEmpty
  <1> QED BY <1>5, <1>6, <1>7 DEF CallInv

\* CallInv is inductive.
LEMMA CallStep ==
  ASSUME IInv, IInv', CallInv, [HNext]_<<vars, history>>
  PROVE  CallInv'
  <1>1. CASE UNCHANGED <<vars, history>>
    <2>1. RestStep /\ UNCHANGED history
      BY <1>1 DEF vars, list, local, RestStep
    <2> QED BY <2>1, RestCall
  <1>2. ASSUME NEW t \in Threads, Invoke(t) \/ Step(t), Record PROVE CallInv'
    BY <1>2, BehindStep, OvertakenStep, MetEmptyStep DEF CallInv
  <1>3. ASSUME DropQueue \/ \E n \in retired : Reclaim(n), Record PROVE CallInv'
    <2>1. RestStep
      BY <1>3 DEF DropQueue, Reclaim, list, local, RestStep
    <2> QED BY <1>3, <2>1, RestCall
  <1> QED BY <1>1, <1>2, <1>3 DEF HNext, Next

LEMMA InitCall ==
  ASSUME HInit
  PROVE  CallInv
  <1>1. /\ \A t \in Threads : pc[t] = "idle" /\ pre[t] = {} /\ mayFail[t] = FALSE
        /\ tail = End
    BY DEF HInit, Init
  <1>2. End \in Nat
    BY InitInv, NodeFacts DEF IInv
  <1>3. BehindTail
    BY <1>1, <1>2 DEF BehindTail
  <1>4. Overtaken /\ MetEmpty
    BY <1>1 DEF Overtaken, MetEmpty, DeqPC
  <1> QED BY <1>3, <1>4 DEF CallInv

\* CallInv holds in every reachable state: an enqueue that returned before
\* another was called put its item into a segment that the other one does not
\* go behind (src/lfstd.rs:193-244), and a dequeue that is about to answer None
\* (src/lfstd.rs:283-289) has met a queue without an item whose enqueue had
\* returned, if no more than capacity + 1 dequeues are made at a time: with more
\* of them the threshold may fall below zero in front of items (src/scq.rs:332).
THEOREM CallCorrect == HSpec => []CallInv
  <1>1. HInit => CallInv
    BY InitCall
  <1>2. IInv /\ IInv' /\ CallInv /\ [HNext]_<<vars, history>> => CallInv'
    BY CallStep
  <1> QED BY <1>1, <1>2, Invariance, PTL DEF HSpec

-----------------------------------------------------------------------------
(* What a step leaves as it is.                                            *)

Reached == IInv /\ CallInv

\* The states of a thread do not overlap.
LEMMA Kinds ==
  /\ "idle" \notin EnqPC /\ "idle" \notin DeqPC
  /\ \A x : ~(x \in EnqBefore /\ x \in EnqAfter) /\ ~(x \in EnqPC /\ x \in DeqPC)
  /\ \A x : x \in EnqPC <=> x \in EnqBefore \/ x \in EnqAfter
  /\ Claimed \subseteq DeqPC
  BY DEF EnqBefore, EnqAfter, EnqPC, DeqPC, Claimed

\* The operation that a thread is in.
OpIs(t) ==
  /\ pc[t] = "idle" => Op(t) = Fifo!Idle
  /\ pc[t] \in EnqBefore => Op(t) = Fifo!Enq(item[t], pre[t], FALSE)
  /\ pc[t] \in EnqAfter /\ item[t] \in Reachable => Op(t) = Fifo!Put(item[t])
  /\ pc[t] \in EnqAfter /\ item[t] \notin Reachable => Op(t) = Fifo!Given
  /\ pc[t] \in Claimed => Op(t) = Fifo!Got(item[t])
  /\ pc[t] \in DeqPC \ Claimed => Op(t) = Fifo!Deq(mayFail[t])

OpsAre == \A t \in Threads : OpIs(t)

LEMMA OpAt == OpsAre
  <1> SUFFICES ASSUME NEW t \in Threads PROVE OpIs(t)
    BY DEF OpsAre
  <1>1. ASSUME pc[t] = "idle" PROVE Op(t) = Fifo!Idle
    <2>1. pc[t] \notin EnqBefore /\ pc[t] \notin EnqAfter /\ pc[t] \notin Claimed
          /\ pc[t] \notin DeqPC
      BY <1>1, Kinds
    <2> QED BY <1>1, <2>1 DEF Op, Fifo!Idle
  <1>2. ASSUME pc[t] \in EnqBefore PROVE Op(t) = Fifo!Enq(item[t], pre[t], FALSE)
    <2>1. pc[t] # "idle" /\ pc[t] \notin EnqAfter /\ pc[t] \notin Claimed /\ pc[t] \notin DeqPC
      BY <1>2, Kinds
    <2> QED BY <1>2, <2>1 DEF Op, Fifo!Enq
  <1>3. ASSUME pc[t] \in EnqAfter, item[t] \in Reachable PROVE Op(t) = Fifo!Put(item[t])
    <2>1. pc[t] # "idle" /\ pc[t] \notin EnqBefore /\ pc[t] \notin Claimed /\ pc[t] \notin DeqPC
      BY <1>3, Kinds
    <2> QED BY <1>3, <2>1 DEF Op, Fifo!Put
  <1>4. ASSUME pc[t] \in EnqAfter, item[t] \notin Reachable PROVE Op(t) = Fifo!Given
    <2>1. pc[t] # "idle" /\ pc[t] \notin EnqBefore /\ pc[t] \notin Claimed /\ pc[t] \notin DeqPC
      BY <1>4, Kinds
    <2> QED BY <1>4, <2>1 DEF Op, Fifo!Given
  <1>5. ASSUME pc[t] \in Claimed PROVE Op(t) = Fifo!Got(item[t])
    <2>1. pc[t] # "idle" /\ pc[t] \notin EnqBefore /\ pc[t] \notin EnqAfter
          /\ pc[t] \notin DeqPC \ Claimed
      BY <1>5, Kinds
    <2> QED BY <1>5, <2>1 DEF Op, Fifo!Got
  <1>6. ASSUME pc[t] \in DeqPC \ Claimed PROVE Op(t) = Fifo!Deq(mayFail[t])
    <2>1. pc[t] # "idle" /\ pc[t] \notin EnqBefore /\ pc[t] \notin EnqAfter
      BY <1>6, Kinds
    <2> QED BY <1>6, <2>1 DEF Op, Fifo!Deq
  <1> QED BY <1>1, <1>2, <1>3, <1>4, <1>5, <1>6 DEF OpIs

\* What had been enqueued when an enqueue was called can be reached.
LEMMA PreReachable ==
  ASSUME Reached, NEW u \in Threads
  PROVE  pre[u] \subseteq Reachable
  <1>1. LooseType /\ End \in Nat /\ head \in 1 .. End /\ tail \in 1 .. End
    BY NodeFacts DEF Reached, IInv, LooseType
  <1>2. ASSUME NEW i \in pre[u] PROVE i \in Reachable
    <2>1. PICK n \in head .. tail : Stored(nodes[n].queue, i)
      BY DEF Reached, CallInv, Overtaken
    <2>2. n \in head .. End
      BY <1>1
    <2> QED BY <2>1, <2>2, ReachableShown DEF Reached, ReachableShows
  <1> QED BY <1>2

\* An enqueue that goes on keeps its record while nothing is claimed.
LEMMA PreSame ==
  ASSUME Reached, Record, NEW u \in Threads, pc[u] \in EnqBefore, pc'[u] \in EnqBefore,
         Reachable \subseteq Reachable'
  PROVE  pre'[u] = pre[u]
  <1>1. pc[u] # "idle"
    BY Kinds
  <1>2. pre'[u] = pre[u] \intersect Reachable'
    BY <1>1, RecordEnq
  <1> QED BY <1>2, PreReachable

\* Of the other threads, none begins or ends an enqueue.
LEMMA OthersKind ==
  ASSUME NEW t, Others(t), NEW u \in Threads, u # t
  PROVE  /\ item'[u] = item[u]
         /\ pc[u] \in EnqPC <=> pc'[u] \in EnqPC
         /\ pc[u] \in EnqBefore <=> pc'[u] \in EnqBefore
         /\ pc[u] \in EnqAfter <=> pc'[u] \in EnqAfter
         /\ pc[u] \in Claimed <=> pc'[u] \in Claimed
         /\ pc[u] \in DeqPC <=> pc'[u] \in DeqPC
         /\ pc[u] = "idle" <=> pc'[u] = "idle"
  BY DEF Others, EnqPC, EnqBefore, EnqAfter, Claimed, DeqPC

\* The items whose enqueue has returned, after a step of t.
LEMMA ReturnedAt ==
  ASSUME NEW t \in Threads, Others(t)
  PROVE  \A i : i \in Returned' <=>
           /\ i \in Reachable'
           /\ \A u \in Threads : u # t => ~(pc[u] \in EnqPC /\ item[u] = i)
           /\ ~(pc'[t] \in EnqPC /\ item'[t] = i)
  <1>1. \A u \in Threads : u # t =>
          item'[u] = item[u] /\ (pc[u] \in EnqPC <=> pc'[u] \in EnqPC)
    BY OthersKind
  <1> QED BY <1>1 DEF Returned

\* A step of t is none of another thread, unless it claims the item that this
\* thread is at, or the last one whose enqueue has returned.
LEMMA OtherOp ==
  ASSUME Reached, Reached', Record, NEW t \in Threads, Invoke(t) \/ Step(t),
         NEW u \in Threads, u # t, Reachable \subseteq Reachable', Returned \subseteq Returned',
         pc[u] \in EnqAfter => (item[u] \in Reachable' <=> item[u] \in Reachable)
  PROVE  Op(u)' = Op(u)
  <1>0. Others(t) /\ LocalType
    BY StepGrows DEF Reached, Grows, IInv, LooseType
  <1>1. /\ item'[u] = item[u]
        /\ pc[u] \in EnqPC <=> pc'[u] \in EnqPC
        /\ pc[u] \in EnqBefore <=> pc'[u] \in EnqBefore
        /\ pc[u] \in EnqAfter <=> pc'[u] \in EnqAfter
        /\ pc[u] \in Claimed <=> pc'[u] \in Claimed
        /\ pc[u] \in DeqPC <=> pc'[u] \in DeqPC
        /\ pc[u] = "idle" <=> pc'[u] = "idle"
    BY <1>0, OthersKind
  <1>2. OpIs(u) /\ OpIs(u)'
    <2>1. OpsAre /\ OpsAre'
      BY OpAt, PTL
    <2> QED BY <2>1 DEF OpsAre
  <1>3. CASE pc[u] = "idle"
    BY <1>1, <1>2, <1>3 DEF OpIs, Fifo!Idle
  <1>4. CASE pc[u] \in EnqBefore
    <2>1. pre'[u] = pre[u]
      BY <1>1, <1>4, PreSame
    <2> QED BY <1>1, <1>2, <1>4, <2>1 DEF OpIs, Fifo!Enq
  <1>5. CASE pc[u] \in EnqAfter
    BY <1>1, <1>2, <1>5 DEF OpIs, Fifo!Put, Fifo!Given
  <1>6. CASE pc[u] \in Claimed
    BY <1>1, <1>2, <1>6 DEF OpIs, Fifo!Got
  <1>7. CASE pc[u] \in DeqPC \ Claimed
    <2>1. mayFail'[u] = mayFail[u]
      BY <1>1, <1>7, RecordDeq DEF Reached, CallInv, MetEmpty
    <2> QED BY <1>1, <1>2, <1>7, <2>1 DEF OpIs, Fifo!Deq
  <1>8. pc[u] = "idle" \/ pc[u] \in EnqPC \/ pc[u] \in DeqPC
    BY <1>0 DEF LocalType
  <1> QED BY <1>3, <1>4, <1>5, <1>6, <1>7, <1>8, Kinds

\* A step that moves no item, and begins or ends no enqueue of one that is in
\* the queue, changes at most the operation of its thread.
LEMMA PlainStep ==
  ASSUME Reached, Reached', Record, NEW t \in Threads, Invoke(t) \/ Step(t), SameItems,
         \A i \in Reachable : pc'[t] \in EnqPC /\ item'[t] = i <=> pc[t] \in EnqPC /\ item[t] = i
  PROVE  /\ Queue' = Queue /\ Returned' = Returned
         /\ \A u \in Threads : u # t => Op(u)' = Op(u)
  <1>1. Others(t)
    BY StepGrows DEF Reached, Grows
  <1>2. Queue' = Queue
    BY SameQueue DEF Reached
  <1>3. Reachable' = Reachable
    BY DEF SameItems
  <1>4. \A i : i \in Returned' <=> i \in Returned
    BY <1>1, <1>3, ReturnedAt DEF Returned
  <1>5. Returned' = Returned
    BY <1>4 DEF Returned
  <1> QED BY <1>2, <1>3, <1>5, OtherOp

\* The operations of the threads, but for one, are as they were.
LEMMA OpExcept ==
  ASSUME NEW t \in Threads, NEW v, Op(t)' = v, \A u \in Threads : u # t => Op(u)' = Op(u)
  PROVE  [x \in Threads |-> Op(x)]' = [[x \in Threads |-> Op(x)] EXCEPT ![t] = v]
  OBVIOUS

\* Unless an item is put into a segment or taken out of one, they all stay.
LEMMA QuietItems ==
  ASSUME Reached, Reached', NEW t \in Threads, QuietStep(t), Promised
  PROVE  SameItems
  <1>1. head' = head \/ (head' = head + 1 /\ nodes[head].queue = <<>>)
    <2>1. CASE head' = head + 1 /\ pc[t] = "d_move" /\ cur[t] = head
      BY <2>1 DEF Reached, IInv, GivenUp, Exhausted
    <2> QED BY <2>1 DEF QuietStep
  <1>2. End' = End /\ \A n \in 1 .. End : nodes'[n].queue = nodes[n].queue
    BY DEF QuietStep
  <1> QED BY <1>1, <1>2, RestItems DEF Reached

-----------------------------------------------------------------------------
(* The steps of the abstract queue.                                        *)

\* The items are among those of all the queues to begin with.
LEMMA ItemsAmong ==
  ASSUME LooseType, NEW i \in 1 .. MaxItem
  PROVE  i \in UNION {1 .. s.filled + s.calls : s \in Starts}
  <1>1. start \in Starts /\ i \in 1 .. start.filled + start.calls
    BY DEF LooseType, MaxItem
  <1> QED BY <1>1

\* EnqCall is Enqueue.
LEMMA EnqCallMaps ==
  ASSUME Reached, Reached', Record, Promised, NEW t \in Threads, EnqCall(t)
  PROVE  Fifo!Enqueue(t)
  <1> DEFINE i == calls + 1
  <1>0. LooseType /\ LooseType' /\ LocalType /\ MaxItem \in Nat /\ calls \in 0 .. MaxItem
    BY StartFacts DEF Reached, IInv, LooseType
  <1>1. /\ pc[t] = "idle" /\ pc'[t] = "e_tail" /\ item'[t] = i /\ i \in 1 .. MaxItem
    BY <1>0 DEF EnqCall, Call, Goto, LocalType
  <1>2. i \notin Reachable
    <2>1. ASSUME NEW n \in 1 .. End, Stored(nodes[n].queue, i) PROVE FALSE
      <3>1. i <= calls
        BY <1>1, <2>1 DEF Reached, IInv, Numbered
      <3> QED BY <1>0, <3>1
    <2>2. \A n \in head .. End : n \in 1 .. End
      BY <1>0, NodeFacts DEF LooseType
    <2> QED BY <2>1, <2>2, ReachableShown DEF Reached, ReachableShows
  <1>3. Invoke(t) \/ Step(t)
    BY DEF Invoke
  <1>4. SameItems
    <2>1. QuietStep(t)
      BY <1>3, QuietWrites DEF Reached, Quiets, Invoke
    <2> QED BY <2>1, QuietItems
  <1> HIDE DEF i
  <1>5. /\ Queue' = Queue /\ Returned' = Returned
        /\ \A u \in Threads : u # t => Op(u)' = Op(u)
    <2>1. pc[t] \notin EnqPC
      BY <1>1, Kinds
    <2> QED BY <1>1, <1>2, <1>3, <1>4, <2>1, PlainStep
  <1>6. OpsAre /\ OpsAre'
    BY OpAt, PTL
  <1>7. Op(t) = Fifo!Idle
    BY <1>1, <1>6 DEF OpsAre, OpIs
  <1>8. Op(t)' = Fifo!Enq(i, Returned, FALSE)
    <2>1. pc'[t] \in EnqBefore
      BY <1>1 DEF EnqBefore, EnqAfter, EnqPC
    <2>2. pre'[t] = Returned
      BY <1>1, <2>1, RecordEnq
    <2> QED BY <1>1, <1>6, <2>1, <2>2 DEF OpsAre, OpIs
  <1>9. i \in (UNION {1 .. s.filled + s.calls : s \in Starts}) \ Fifo!ToSet(Queue)
    <2>1. ToSet(Queue) = Reachable
      BY QueueItems DEF Reached
    <2>2. Fifo!ToSet(Queue) = Reachable
      BY <2>1 DEF ToSet, Fifo!ToSet
    <2> QED BY <1>0, <1>1, <1>2, <2>2, ItemsAmong
  <1>10. [x \in Threads |-> Op(x)]'
           = [[x \in Threads |-> Op(x)] EXCEPT ![t] = Fifo!Enq(i, Returned, FALSE)]
    BY <1>5, <1>8, OpExcept
  <1>11. Fifo!Is(t, "idle")
    BY <1>7 DEF Fifo!Is, Fifo!Idle
  <1> HIDE DEF Op
  <1> QED BY <1>5, <1>9, <1>10, <1>11 DEF Fifo!Enqueue

\* DeqCall is Dequeue.
LEMMA DeqCallMaps ==
  ASSUME Reached, Reached', Record, Promised, NEW t \in Threads, DeqCall(t)
  PROVE  Fifo!Dequeue(t)
  <1>0. LocalType
    BY DEF Reached, IInv, LooseType
  <1>1. pc[t] = "idle" /\ pc'[t] = "d_head"
    BY <1>0 DEF DeqCall, Call, Goto, LocalType
  <1>2. Invoke(t) \/ Step(t)
    BY DEF Invoke
  <1>3. SameItems
    <2>1. QuietStep(t)
      BY <1>2, QuietWrites DEF Reached, Quiets, Invoke
    <2> QED BY <2>1, QuietItems
  <1>4. pc[t] \notin EnqPC /\ pc'[t] \notin EnqPC /\ pc'[t] \in DeqPC \ Claimed
    BY <1>1, Kinds DEF DeqPC, Claimed
  <1>5. /\ Queue' = Queue /\ Returned' = Returned
        /\ \A u \in Threads : u # t => Op(u)' = Op(u)
    BY <1>2, <1>3, <1>4, PlainStep
  <1>6. OpsAre /\ OpsAre'
    BY OpAt, PTL
  <1>7. mayFail'[t] = (Returned = {})
    <2>1. ~mayFail[t]
      BY <1>1, Kinds DEF Reached, CallInv, MetEmpty
    <2> QED BY <1>4, <1>5, <2>1, RecordDeq
  <1>8. Op(t) = Fifo!Idle /\ Op(t)' = Fifo!Deq(Returned = {})
    BY <1>1, <1>4, <1>6, <1>7 DEF OpsAre, OpIs
  <1>9. [x \in Threads |-> Op(x)]'
          = [[x \in Threads |-> Op(x)] EXCEPT ![t] = Fifo!Deq(Returned = {})]
    BY <1>5, <1>8, OpExcept
  <1>10. Fifo!Is(t, "idle")
    BY <1>8 DEF Fifo!Is, Fifo!Idle
  <1> HIDE DEF Op
  <1> QED BY <1>5, <1>9, <1>10 DEF Fifo!Dequeue

\* A dequeue that finds no next segment answers None.
LEMMA NoneMaps ==
  ASSUME Reached, Reached', Record, Promised, NEW t \in Threads, DeqNext(t), cur[t] = End
  PROVE  Fifo!None(t)
  <1>0. LocalType
    BY DEF Reached, IInv, LooseType
  <1>1. pc[t] = "d_next" /\ pc'[t] = "idle"
    BY <1>0 DEF DeqNext, Return, Goto, LocalType
  <1>2. Invoke(t) \/ Step(t)
    BY DEF Step
  <1>3. SameItems
    <2>1. QuietStep(t)
      BY <1>2, QuietWrites DEF Reached, Quiets
    <2> QED BY <2>1, QuietItems
  <1>4. pc[t] \notin EnqPC /\ pc'[t] \notin EnqPC /\ pc[t] \in DeqPC \ Claimed
    BY <1>1, Kinds DEF DeqPC, Claimed
  <1>5. /\ Queue' = Queue /\ Returned' = Returned
        /\ \A u \in Threads : u # t => Op(u)' = Op(u)
    BY <1>2, <1>3, <1>4, PlainStep
  <1>6. OpsAre /\ OpsAre'
    BY OpAt, PTL
  <1>7. mayFail[t]
    BY <1>1 DEF Reached, CallInv, MetEmpty, Promised
  <1>8. Op(t) = Fifo!Deq(mayFail[t]) /\ Op(t)' = Fifo!Idle
    BY <1>1, <1>4, <1>6 DEF OpsAre, OpIs
  <1>9. [x \in Threads |-> Op(x)]' = [[x \in Threads |-> Op(x)] EXCEPT ![t] = Fifo!Idle]
    BY <1>5, <1>8, OpExcept
  <1>10. Fifo!Is(t, "deq") /\ [x \in Threads |-> Op(x)][t].mayFail
    BY <1>7, <1>8 DEF Fifo!Is, Fifo!Deq
  <1> HIDE DEF Op
  <1> QED BY <1>5, <1>9, <1>10 DEF Fifo!None

\* A dequeue that has claimed its item answers Some.
LEMMA SomeMaps ==
  ASSUME Reached, Reached', Record, Promised, NEW t \in Threads, DeqLen(t)
  PROVE  Fifo!Some(t)
  <1>0. LocalType
    BY DEF Reached, IInv, LooseType
  <1>1. pc[t] = "d_len" /\ pc'[t] = "idle"
    BY <1>0 DEF DeqLen, Return, Goto, LocalType
  <1>2. Invoke(t) \/ Step(t)
    BY DEF Step
  <1>3. SameItems
    <2>1. QuietStep(t)
      BY <1>2, QuietWrites DEF Reached, Quiets
    <2> QED BY <2>1, QuietItems
  <1>4. pc[t] \notin EnqPC /\ pc'[t] \notin EnqPC /\ pc[t] \in Claimed
    BY <1>1, Kinds DEF DeqPC, Claimed
  <1>5. /\ Queue' = Queue /\ Returned' = Returned
        /\ \A u \in Threads : u # t => Op(u)' = Op(u)
    BY <1>2, <1>3, <1>4, PlainStep
  <1>6. OpsAre /\ OpsAre'
    BY OpAt, PTL
  <1>7. Op(t) = Fifo!Got(item[t]) /\ Op(t)' = Fifo!Idle
    BY <1>1, <1>4, <1>6 DEF OpsAre, OpIs
  <1>8. [x \in Threads |-> Op(x)]' = [[x \in Threads |-> Op(x)] EXCEPT ![t] = Fifo!Idle]
    BY <1>5, <1>7, OpExcept
  <1>9. Fifo!Is(t, "got")
    BY <1>7 DEF Fifo!Is, Fifo!Got
  <1> HIDE DEF Op
  <1> QED BY <1>5, <1>8, <1>9 DEF Fifo!Some

\* A return of an enqueue that has handed its item over is Done.
Returns(t) ==
  /\ Quiets(t) /\ (Invoke(t) \/ Step(t))
  /\ pc[t] \in EnqAfter /\ pc'[t] = "idle"

LEMMA DoneMaps ==
  ASSUME Reached, Reached', Record, Promised, NEW t \in Threads, Returns(t)
  PROVE  Fifo!Done(t)
  <1> DEFINE i == item[t]
  <1>1. pc[t] \in EnqPC /\ pc'[t] \notin EnqPC /\ pc[t] \in EnqAfter /\ pc'[t] = "idle"
    BY Kinds DEF Returns
  <1>2. Invoke(t) \/ Step(t)
    BY DEF Returns
  <1>3. SameItems
    <2>1. QuietStep(t)
      BY QuietWrites DEF Reached, Returns
    <2> QED BY <2>1, QuietItems
  <1>4. Queue' = Queue /\ Reachable' = Reachable
    BY <1>3, SameQueue DEF Reached, SameItems
  <1>5. Others(t)
    BY <1>2, StepGrows DEF Reached, Grows
  <1>6. \A j : j \in Returned' <=> j \in Returned \/ (j = i /\ i \in Reachable)
    <2>1. ASSUME NEW u \in Threads, u # t, pc[u] \in EnqPC PROVE item[u] # i
      BY <1>1, <2>1 DEF Reached, IInv, Numbered, Enqueuers
    <2>2. \A j : j \in Returned' <=>
            j \in Reachable /\ \A u \in Threads : u # t => ~(pc[u] \in EnqPC /\ item[u] = j)
      BY <1>1, <1>4, <1>5, ReturnedAt
    <2>3. \A j : j \in Returned <=>
            /\ j \in Reachable /\ j # i
            /\ \A u \in Threads : u # t => ~(pc[u] \in EnqPC /\ item[u] = j)
      BY <1>1 DEF Returned
    <2> HIDE DEF i
    <2> QED BY <2>1, <2>2, <2>3
  <1>7. \A u \in Threads : u # t => Op(u)' = Op(u)
    BY <1>2, <1>4, <1>6, OtherOp
  <1>8. OpsAre /\ OpsAre'
    BY OpAt, PTL
  <1>9. Op(t)' = Fifo!Idle
    BY <1>1, <1>8 DEF OpsAre, OpIs
  <1>10. [x \in Threads |-> Op(x)]' = [[x \in Threads |-> Op(x)] EXCEPT ![t] = Fifo!Idle]
    BY <1>7, <1>9, OpExcept
  <1>11. CASE i \in Reachable
    <2>1. Op(t) = Fifo!Put(i)
      BY <1>1, <1>8, <1>11 DEF OpsAre, OpIs
    <2>2. Returned' = Returned \union {i}
      BY <1>6, <1>11
    <2>3. [x \in Threads |-> Op(x)][t] = Fifo!Put(i)
      BY <2>1
    <2> HIDE DEF Op, i
    <2>4. [x \in Threads |-> Op(x)][t].kind = "put" /\ [x \in Threads |-> Op(x)][t].idx = i
      BY <2>3 DEF Fifo!Put
    <2> QED BY <1>4, <1>10, <2>2, <2>4 DEF Fifo!Done, Fifo!Is
  <1>12. CASE i \notin Reachable
    <2>1. Op(t) = Fifo!Given
      BY <1>1, <1>8, <1>12 DEF OpsAre, OpIs
    <2>2. Returned' = Returned
      BY <1>6, <1>12
    <2>3. [x \in Threads |-> Op(x)][t].kind = "given"
      BY <2>1 DEF Fifo!Given
    <2> HIDE DEF Op, i
    <2> QED BY <1>4, <1>10, <2>2, <2>3 DEF Fifo!Done, Fifo!Is
  <1> QED BY <1>11, <1>12

\* What an enqueue has yet to hand over is in no segment.
LEMMA HeldOut ==
  ASSUME Reached, NEW t \in Threads, pc[t] \in EnqBefore
  PROVE  /\ item[t] \in 1 .. MaxItem /\ item[t] \notin Reachable
         /\ \A n \in 1 .. End : ~Stored(nodes[n].queue, item[t])
  <1>1. LooseType /\ End \in Nat /\ head \in 1 .. End /\ MaxItem \in Nat /\ calls \in 0 .. MaxItem
    BY NodeFacts, StartFacts DEF Reached, IInv, LooseType
  <1>2. item[t] \in 1 .. calls
    BY Kinds DEF Reached, IInv, Numbered
  <1>3. \A n \in 1 .. End : ~Stored(nodes[n].queue, item[t])
    BY DEF Reached, IInv, HeldApart, Holders
  <1>4. \A n \in head .. End : n \in 1 .. End
    BY <1>1
  <1> QED BY <1>1, <1>2, <1>3, <1>4, ReachableShown DEF Reached, ReachableShows

\* An enqueue inserts its item behind those that were in the queue when it was
\* called, wherever concurrent ones put theirs.
Hands(t, c) ==
  /\ Invoke(t) \/ Step(t)
  /\ pc[t] \in EnqBefore \ {"e_tail"} /\ pc'[t] \in EnqAfter /\ item'[t] = item[t]
  /\ c \in Int /\ cur[t] <= c /\ Arrives(c, item[t])

LEMMA InsertMaps ==
  ASSUME Reached, Reached', Record, NEW t \in Threads, NEW c, Hands(t, c)
  PROVE  Fifo!Insert(t)
  <1> DEFINE i == item[t]
  <1>0. /\ Grows(t) /\ LooseType /\ \A m \in head .. End : m \in 1 .. End /\ m \in Int
        /\ cur[t] \in Int
    <2>1. Grows(t) /\ LooseType
      BY StepGrows DEF Reached, IInv, Hands
    <2>2. head \in 1 .. End
      BY <2>1 DEF Grows
    <2> QED BY <2>1, <2>2, NodeFacts
  <1>1. /\ Invoke(t) \/ Step(t)
        /\ pc[t] \in EnqBefore /\ pc[t] \in EnqPC /\ pc[t] # "e_tail"
        /\ pc'[t] \in EnqAfter /\ pc'[t] \in EnqPC
        /\ item'[t] = i /\ i \notin Reachable /\ i \in 1 .. MaxItem
        /\ c \in Int /\ cur[t] <= c /\ Arrives(c, i)
    BY HeldOut, Kinds DEF Hands
  <1> HIDE DEF i
  <1>2. OneMore(c, i)
    BY <1>1, ItemArrived DEF Reached
  <1>3. Inserted(c, i)
    BY <1>2, QueueInserted DEF Reached
  <1>4. i \in Reachable' /\ Reachable = Reachable' \ {i}
    BY <1>2 DEF OneMore
  <1>5. Others(t)
    BY <1>0 DEF Grows
  <1>6. \A j : j \in Returned' <=> j \in Returned
    <2>1. pc[t] \in EnqPC /\ item[t] = i
      BY <1>1 DEF i
    <2> QED BY <1>1, <1>4, <1>5, <2>1, ReturnedAt DEF Returned
  <1>7. Returned' = Returned
    BY <1>6
  <1>8. ASSUME NEW u \in Threads, u # t PROVE Op(u)' = Op(u)
    <2>1. pc[u] \in EnqAfter => item[u] # i
      BY <1>1, <1>8, Kinds DEF Reached, IInv, Numbered, Enqueuers, i
    <2> QED BY <1>1, <1>4, <1>7, <1>8, <2>1, OtherOp
  <1>9. OpsAre /\ OpsAre'
    BY OpAt, PTL
  <1>10. Op(t) = Fifo!Enq(i, pre[t], FALSE) /\ Op(t)' = Fifo!Put(i)
    BY <1>1, <1>4, <1>9 DEF OpsAre, OpIs, i
  <1>11. [x \in Threads |-> Op(x)]' = [[x \in Threads |-> Op(x)] EXCEPT ![t] = Fifo!Put(i)]
    BY <1>8, <1>10, OpExcept
  <1>12. PICK k \in 1 .. Len(Queue) + 1 :
           /\ Queue' = Fifo!InsertAt(Queue, k, i)
           /\ \A j \in k .. Len(Queue) :
                \E m \in head .. End : c < m /\ Stored(nodes[m].queue, Queue[j])
    BY <1>3 DEF Inserted
  <1>13. ASSUME NEW j \in k .. Len(Queue) PROVE Queue[j] \notin pre[t]
    <2> DEFINE x == Queue[j]
    <2> HIDE DEF x
    <2>1. PICK m \in head .. End : c < m /\ Stored(nodes[m].queue, x)
      BY <1>12 DEF x
    <2>2. SUFFICES ASSUME x \in pre[t] PROVE FALSE
      BY DEF x
    <2>3. PICK n \in head .. tail : Stored(nodes[n].queue, x) /\ n <= cur[t]
      BY <1>1, <2>2 DEF Reached, CallInv, Overtaken
    <2>4. n \in 1 .. End /\ n \in Int
      <3>1. head \in 1 .. End /\ tail \in 1 .. End /\ End \in Nat
        BY <1>0 DEF Grows
      <3> QED BY <3>1
    <2>5. x \in 1 .. MaxItem
      BY <2>2, PreReachable, ReachableShown DEF Reached, ReachableShows
    <2>6. m = n
      BY <1>0, <2>1, <2>3, <2>4, <2>5 DEF Reached, IInv, OneSegment
    <2>7. m \in Int /\ c < m /\ m <= cur[t] /\ cur[t] <= c /\ cur[t] \in Int /\ c \in Int
      BY <1>0, <1>1, <2>1, <2>3, <2>6
    <2> QED BY <2>7
  <1>14. [x \in Threads |-> Op(x)][t] = Fifo!Enq(i, pre[t], FALSE)
    BY <1>10
  <1> HIDE DEF Op
  <1>15. LET o == [x \in Threads |-> Op(x)][t]
         IN  o.kind = "enq" /\ o.late = FALSE /\ o.pre = pre[t] /\ o.idx = i
    BY <1>14 DEF Fifo!Enq
  <1> QED BY <1>7, <1>11, <1>12, <1>13, <1>15 DEF Fifo!Insert, Fifo!Is

\* An insertion into a segment that head has not left.
LEMMA PutMaps ==
  ASSUME Reached, Reached', Record, Promised, NEW t \in Threads, EnqPut(t)
  PROVE  Fifo!Insert(t)
  <1> DEFINE i == item[t]
             c == cur[t]
             q == nodes[c].queue
  <1>1. PutStep(t) /\ (Invoke(t) \/ Step(t))
    BY PutWrites DEF Reached, Step
  <1>2. /\ LooseType /\ End \in Nat /\ head \in 1 .. End /\ c \in 1 .. End /\ c \in Int
        /\ q \in Seq(1 .. MaxItem) /\ head' = head /\ End' = End
    BY <1>1, NodeFacts DEF Reached, IInv, LooseType, PutStep, Appended
  <1>3. pc[t] \in EnqBefore \ {"e_tail"} /\ pc'[t] \in EnqAfter /\ item'[t] = item[t]
    BY <1>1 DEF PutStep, EnqBefore, EnqAfter, EnqPC
  <1>4. i \in 1 .. MaxItem /\ ~Stored(q, i)
    BY <1>2, <1>3, HeldOut
  <1>5. c \in head .. End
    <2>1. SUFFICES ASSUME c < head PROVE FALSE
      BY <1>2
    <2>2. c \in retired
      BY <1>2, <2>1 DEF Reached, IInv, HeadKept
    <2>3. Exhausted(c)
      BY <2>2 DEF Reached, IInv, GivenUp
    <2>4. t \in At(c, {"e_put"}) /\ t \in At(c, Adding)
      BY <1>1 DEF At, Adding, PutStep
    <2> QED BY <2>3, <2>4 DEF Exhausted
  <1>6. /\ nodes'[c].queue = Append(q, i)
        /\ \A n \in 1 .. End : n # c => nodes'[n].queue = nodes[n].queue
    BY <1>1 DEF PutStep, Appended
  <1> HIDE DEF i, c, q
  <1>7. /\ \A k : Stored(Append(q, i), k) <=> Stored(q, k) \/ k = i
        /\ \A k, l : k # i /\ l # i => (InSegment(Append(q, i), k, l) <=> InSegment(q, k, l))
        /\ \A l : ~InSegment(Append(q, i), i, l)
    BY <1>2, <1>4, StoredAppend, InAppend
  <1>8. \A n \in head .. End : n \in 1 .. End
    BY <1>2
  <1>9. Arrives(c, i)
    BY <1>2, <1>5, <1>6, <1>7, <1>8 DEF Arrives, q
  <1>10. cur[t] <= c
    BY <1>2 DEF c
  <1>11. Hands(t, c)
    BY <1>1, <1>2, <1>3, <1>9, <1>10 DEF Hands, i
  <1> QED BY <1>11, InsertMaps

\* An insertion with a new segment.
LEMMA LinkMaps ==
  ASSUME Reached, Reached', Record, NEW t \in Threads, EnqLink(t), cur[t] = End
  PROVE  Fifo!Insert(t)
  <1> DEFINE i == item[t]
             c == End + 1
  <1>1. LinkedStep(t) /\ (Invoke(t) \/ Step(t))
    BY LinkWrites DEF Reached, Step
  <1>2. /\ LooseType /\ End \in Nat /\ head \in 1 .. End /\ head' = head /\ End' = c
        /\ nodes'[c].queue = <<i>>
        /\ \A n \in 1 .. End : nodes'[n].queue = nodes[n].queue
    BY <1>1, NodeFacts DEF Reached, IInv, LooseType, LinkedStep
  <1>3. pc[t] \in EnqBefore \ {"e_tail"} /\ pc'[t] \in EnqAfter /\ item'[t] = item[t]
    BY <1>1 DEF LinkedStep, EnqBefore, EnqAfter, EnqPC
  <1>4. c \in head .. c /\ c \notin head .. End /\ c \in Int /\ cur[t] <= c
    BY <1>2
  <1>5. \A n : n \in head .. c <=> n \in head .. End \/ n = c
    BY <1>2
  <1>6. \A n \in head .. End : n \in 1 .. End
    BY <1>2
  <1> HIDE DEF i, c
  <1>7. \A k : Stored(<<i>>, k) <=> k = i
    BY StoredOne
  <1>8. \A k, l : ~InSegment(<<i>>, k, l)
    BY DEF InSegment
  <1>9. Arrives(c, i)
    BY <1>2, <1>4, <1>5, <1>6, <1>7, <1>8 DEF Arrives
  <1>10. Hands(t, c)
    BY <1>1, <1>3, <1>4, <1>9 DEF Hands, i
  <1> QED BY <1>10, InsertMaps

\* A dequeue claims the first item of the queue: it works on the segment that
\* head points to, or on one that holds nothing.
Claims(t, i) ==
  /\ Invoke(t) \/ Step(t)
  /\ pc[t] \in DeqPC \ Claimed /\ pc'[t] \in Claimed /\ item'[t] = i
  /\ OneLess(i)

LEMMA ClaimTakes ==
  ASSUME Reached, Reached', Promised, NEW t \in Threads, DeqTry(t) \/ DeqAgain(t), ClaimStep(t)
  PROVE  Claims(t, item'[t])
  <1> DEFINE c == cur[t]
             i == item'[t]
  <1>1. /\ LooseType /\ End \in Nat /\ head \in 1 .. End /\ c \in 1 .. End /\ c \in Int /\ head \in Int
    BY NodeFacts DEF Reached, IInv, LooseType, ClaimStep
  <1>2. c = head
    <2>1. c <= head
      BY DEF ClaimStep, DeqPC, Reached, IInv, Pointers
    <2>2. SUFFICES ASSUME c < head PROVE FALSE
      BY <1>1, <2>1
    <2>3. c \in retired
      BY <1>1, <2>2 DEF Reached, IInv, HeadKept
    <2>4. Exhausted(c)
      BY <2>3 DEF Reached, IInv, GivenUp
    <2> QED BY <2>4 DEF Exhausted, ClaimStep
  <1>3. \A n \in head .. End : n \in 1 .. End
    BY <1>1
  <1>4. Departs(i)
    BY <1>1, <1>2, <1>3 DEF Departs, ClaimStep
  <1> HIDE DEF i
  <1>5. OneLess(i)
    BY <1>4, ItemDeparted DEF Reached
  <1>6. pc[t] \in DeqPC \ Claimed /\ pc'[t] \in Claimed
    BY DEF ClaimStep, DeqPC, Claimed
  <1> QED BY <1>5, <1>6 DEF Claims, i, Step

\* The items that have returned, without the one that was claimed.
LEMMA ClaimReturned ==
  ASSUME Reached, Reached', NEW t \in Threads, NEW i, Claims(t, i)
  PROVE  Returned' = Returned \ {i} /\ Reachable' = Reachable \ {i} /\ i \in Reachable
  <1>1. Others(t)
    BY StepGrows DEF Reached, Grows, Claims
  <1>2. i \in Reachable /\ Reachable' = Reachable \ {i}
    BY DEF Claims, OneLess
  <1>3. pc[t] \notin EnqPC /\ pc'[t] \notin EnqPC
    BY Kinds DEF Claims
  <1>4. \A j : j \in Returned' <=> j \in Returned /\ j # i
    BY <1>1, <1>2, <1>3, ReturnedAt DEF Returned
  <1> QED BY <1>2, <1>4

\* The operations of the other threads when an item is claimed.
LEMMA ClaimForgets ==
  ASSUME Reached, Reached', Record, NEW t \in Threads, NEW i, Claims(t, i),
         NEW u \in Threads, u # t
  PROVE  Op(u)' = Fifo!Forget(Op(u), i, Returned')
  <1> DEFINE rest == Returned'
  <1>0. Others(t) /\ LocalType
    BY StepGrows DEF Reached, Grows, IInv, LooseType, Claims
  <1>1. /\ item'[u] = item[u]
        /\ pc[u] \in EnqBefore <=> pc'[u] \in EnqBefore
        /\ pc[u] \in EnqAfter <=> pc'[u] \in EnqAfter
        /\ pc[u] \in Claimed <=> pc'[u] \in Claimed
        /\ pc[u] \in DeqPC <=> pc'[u] \in DeqPC
        /\ pc[u] = "idle" <=> pc'[u] = "idle"
    BY <1>0, OthersKind
  <1>2. Reachable' = Reachable \ {i} /\ i \in Reachable
    BY ClaimReturned
  <1>3. OpIs(u) /\ OpIs(u)'
    <2>1. OpsAre /\ OpsAre'
      BY OpAt, PTL
    <2> QED BY <2>1 DEF OpsAre
  <1> HIDE DEF rest
  <1>4. CASE pc[u] = "idle"
    BY <1>1, <1>3, <1>4 DEF OpIs, Fifo!Forget, Fifo!Idle
  <1>5. CASE pc[u] \in EnqBefore
    <2>1. pre'[u] = pre[u] \ {i}
      <3>1. pre'[u] = pre[u] \intersect Reachable'
        BY <1>1, <1>5, Kinds, RecordEnq
      <3> QED BY <1>2, <3>1, PreReachable
    <2>2. Op(u) = Fifo!Enq(item[u], pre[u], FALSE)
      BY <1>3, <1>5 DEF OpIs
    <2>3. Op(u)' = Fifo!Enq(item[u], pre[u] \ {i}, FALSE)
      BY <1>1, <1>3, <1>5, <2>1 DEF OpIs
    <2>4. Fifo!Forget(Fifo!Enq(item[u], pre[u], FALSE), i, rest)
            = Fifo!Enq(item[u], pre[u] \ {i}, FALSE)
      BY DEF Fifo!Forget, Fifo!Enq
    <2>5. Op(u)' = Fifo!Forget(Op(u), i, rest)
      BY <2>2, <2>3, <2>4, Zenon
    <2> QED BY <2>5 DEF rest
  <1>6. CASE pc[u] \in EnqAfter
    <2>1. CASE item[u] \notin Reachable
      <3>1. item'[u] \notin Reachable'
        BY <1>1, <1>2, <2>1
      <3>2. Op(u) = Fifo!Given /\ Op(u)' = Fifo!Given
        BY <1>1, <1>3, <1>6, <2>1, <3>1 DEF OpIs
      <3> QED BY <3>2 DEF Fifo!Forget, Fifo!Given
    <2>2. CASE item[u] = i
      <3>1. Op(u) = Fifo!Put(i) /\ Op(u)' = Fifo!Given
        BY <1>1, <1>2, <1>3, <1>6, <2>2 DEF OpIs
      <3>2. Op(u)' = Fifo!Forget(Op(u), i, rest)
        BY <3>1 DEF Fifo!Forget, Fifo!Put
      <3> QED BY <3>2 DEF rest
    <2>3. CASE item[u] \in Reachable /\ item[u] # i
      <3>1. Op(u) = Fifo!Put(item[u]) /\ Op(u)' = Fifo!Put(item[u])
        BY <1>1, <1>2, <1>3, <1>6, <2>3 DEF OpIs
      <3>2. Fifo!Forget(Fifo!Put(item[u]), i, rest) = Fifo!Put(item[u])
        BY <2>3 DEF Fifo!Forget, Fifo!Put
      <3>3. Op(u)' = Fifo!Forget(Op(u), i, rest)
        BY <3>1, <3>2, Zenon
      <3> QED BY <3>3 DEF rest
    <2> QED BY <2>1, <2>2, <2>3
  <1>7. CASE pc[u] \in Claimed
    <2>1. Op(u) = Fifo!Got(item[u]) /\ Op(u)' = Fifo!Got(item[u])
      BY <1>1, <1>3, <1>7 DEF OpIs
    <2>2. Fifo!Forget(Fifo!Got(item[u]), i, rest) = Fifo!Got(item[u])
      BY DEF Fifo!Forget, Fifo!Got
    <2>3. Op(u)' = Fifo!Forget(Op(u), i, rest)
      BY <2>1, <2>2, Zenon
    <2> QED BY <2>3 DEF rest
  <1>8. CASE pc[u] \in DeqPC \ Claimed
    <2>1. mayFail'[u] = (mayFail[u] \/ rest = {})
      BY <1>1, <1>8, RecordDeq DEF Reached, CallInv, MetEmpty, rest
    <2>2. Op(u) = Fifo!Deq(mayFail[u]) /\ Op(u)' = Fifo!Deq(mayFail'[u])
      BY <1>1, <1>3, <1>8 DEF OpIs
    <2>3. Fifo!Forget(Fifo!Deq(mayFail[u]), i, rest) = Fifo!Deq(mayFail[u] \/ rest = {})
      BY DEF Fifo!Forget, Fifo!Deq
    <2>4. Op(u)' = Fifo!Forget(Op(u), i, rest)
      BY <2>1, <2>2, <2>3, Zenon
    <2> QED BY <2>4 DEF rest
  <1>9. pc[u] = "idle" \/ pc[u] \in EnqPC \/ pc[u] \in DeqPC
    BY <1>0 DEF LocalType
  <1>10. pc[u] \in EnqPC => pc[u] \in EnqBefore \/ pc[u] \in EnqAfter
    BY Kinds
  <1>11. Op(u)' = Fifo!Forget(Op(u), i, rest)
    BY <1>4, <1>5, <1>6, <1>7, <1>8, <1>9, <1>10 DEF rest
  <1> QED BY <1>11 DEF rest

\* A claim by a dequeue is Claim.
LEMMA ClaimMaps ==
  ASSUME Reached, Reached', Record, NEW t \in Threads, NEW i, Claims(t, i)
  PROVE  Fifo!Claim(t)
  <1>1. pc[t] \in DeqPC \ Claimed /\ pc'[t] \in Claimed /\ item'[t] = i
    BY DEF Claims
  <1>2. Queue # <<>> /\ Head(Queue) = i /\ Queue' = Tail(Queue)
    BY QueueShortened DEF Reached, Claims
  <1>3. Returned' = Returned \ {i}
    BY ClaimReturned
  <1>4. OpsAre /\ OpsAre'
    BY OpAt, PTL
  <1>5. Op(t) = Fifo!Deq(mayFail[t]) /\ Op(t)' = Fifo!Got(i)
    BY <1>1, <1>4 DEF OpsAre, OpIs
  <1>6. \A u \in Threads : u # t => Op(u)' = Fifo!Forget(Op(u), i, Returned')
    BY ClaimForgets
  <1> HIDE DEF Op
  <1>7. [x \in Threads |-> Op(x)]'
          = [x \in Threads |-> IF x = t THEN Fifo!Got(i) ELSE Fifo!Forget(Op(x), i, Returned')]
    BY <1>5, <1>6
  <1>8. [x \in Threads |-> Op(x)]'
          = [x \in Threads |-> IF x = t THEN Fifo!Got(Head(Queue))
               ELSE Fifo!Forget([y \in Threads |-> Op(y)][x], Head(Queue), Returned')]
    BY <1>2, <1>7
  <1>9. Fifo!Is(t, "deq")
    BY <1>5 DEF Fifo!Is, Fifo!Deq
  <1> QED BY <1>2, <1>3, <1>8, <1>9 DEF Fifo!Claim

\* A step within the call of its thread that moves no item changes nothing
\* that the queue shows.
Unseen(t) ==
  /\ item'[t] = item[t]
  /\ \/ pc[t] \in EnqBefore /\ pc'[t] \in EnqBefore
     \/ pc[t] \in EnqAfter /\ pc'[t] \in EnqAfter
     \/ pc[t] \in Claimed /\ pc'[t] \in Claimed
     \/ pc[t] \in DeqPC \ Claimed /\ pc'[t] \in DeqPC \ Claimed

LEMMA UnseenMaps ==
  ASSUME Reached, Reached', Record, NEW t \in Threads, Invoke(t) \/ Step(t), SameItems, Unseen(t)
  PROVE  UNCHANGED Fifo!vars
  <1>1. item'[t] = item[t] /\ (pc'[t] \in EnqPC <=> pc[t] \in EnqPC)
    BY Kinds DEF Unseen
  <1>2. /\ Queue' = Queue /\ Returned' = Returned
        /\ \A u \in Threads : u # t => Op(u)' = Op(u)
    BY <1>1, PlainStep
  <1>3. OpIs(t) /\ OpIs(t)'
    <2>1. OpsAre /\ OpsAre'
      BY OpAt, PTL
    <2> QED BY <2>1 DEF OpsAre
  <1>4. Reachable' = Reachable
    BY DEF SameItems
  <1>5. Op(t)' = Op(t)
    <2>1. CASE pc[t] \in EnqBefore /\ pc'[t] \in EnqBefore
      <3>1. pre'[t] = pre[t]
        BY <1>4, <2>1, PreSame
      <3> QED BY <1>1, <1>3, <2>1, <3>1 DEF OpIs, Fifo!Enq
    <2>2. CASE pc[t] \in EnqAfter /\ pc'[t] \in EnqAfter
      BY <1>1, <1>3, <1>4, <2>2 DEF OpIs, Fifo!Put, Fifo!Given
    <2>3. CASE pc[t] \in Claimed /\ pc'[t] \in Claimed
      BY <1>1, <1>3, <2>3 DEF OpIs, Fifo!Got
    <2>4. CASE pc[t] \in DeqPC \ Claimed /\ pc'[t] \in DeqPC \ Claimed
      <3>1. mayFail'[t] = mayFail[t]
        BY <1>2, <2>4, RecordDeq DEF Reached, CallInv, MetEmpty
      <3> QED BY <1>3, <2>4, <3>1 DEF OpIs, Fifo!Deq
    <2> QED BY <2>1, <2>2, <2>3, <2>4 DEF Unseen
  <1> HIDE DEF Op
  <1>6. [x \in Threads |-> Op(x)]' = [x \in Threads |-> Op(x)]
    BY <1>2, <1>5
  <1> QED BY <1>2, <1>6 DEF Fifo!vars

\* What a step that moves no item may be to its thread.
Class(t) ==
  \/ EnqCall(t) \/ DeqCall(t) \/ DeqLen(t)
  \/ DeqNext(t) /\ cur[t] = End
  \/ pc[t] \in EnqAfter /\ pc'[t] = "idle"
  \/ Unseen(t)

LEMMA ClassStep ==
  ASSUME LocalType, NEW t \in Threads, Quiets(t)
  PROVE  Class(t)
  <1> USE DEF LocalType, Goto, local
  <1>1. CASE EnqTail(t) \/ EnqNext(t) \/ EnqUsed(t) \/ EnqUndo(t) \/ EnqFree(t)
    <2>1. /\ pc[t] \in {"e_tail", "e_next", "e_used", "e_undo", "e_free"}
          /\ pc'[t] \in {"e_next", "e_tail", "e_used", "e_undo", "e_free", "e_link", "e_flag"}
          /\ item'[t] = item[t]
      BY <1>1 DEF EnqTail, EnqNext, EnqUsed, EnqUndo, EnqFree
    <2> QED BY <2>1 DEF Class, Unseen, EnqBefore, EnqAfter, EnqPC
  <1>2. CASE EnqFlag(t) \/ EnqGiveUsed(t) \/ EnqGiveFree(t) \/ (EnqLink(t) /\ cur[t] # End)
    <2>1. /\ pc[t] \in {"e_flag", "g_used", "g_free", "e_link"}
          /\ pc'[t] \in {"g_used", "e_put", "g_free", "e_link", "e_tail"}
          /\ item'[t] = item[t]
      BY <1>2 DEF EnqFlag, EnqGiveUsed, EnqGiveFree, EnqLink
    <2> QED BY <2>1 DEF Class, Unseen, EnqBefore, EnqAfter, EnqPC
  <1>3. CASE EnqSettle(t) \/ EnqFinal(t) \/ EnqFix(t)
    <2>1. /\ pc[t] \in EnqAfter
          /\ pc'[t] = "idle" \/ (pc'[t] = "e_final" /\ item'[t] = item[t])
      BY <1>3 DEF EnqSettle, EnqFinal, EnqFix, Return, EnqAfter
    <2> QED BY <2>1 DEF Class, Unseen, EnqAfter
  <1>4. CASE DeqHead(t) \/ DeqMove(t) \/ (DeqNext(t) /\ cur[t] # End)
    <2>1. /\ pc[t] \in {"d_head", "d_move", "d_next"} /\ pc'[t] \in {"d_try", "d_head", "d_again"}
          /\ item'[t] = item[t]
      BY <1>4 DEF DeqHead, DeqMove, DeqNext
    <2> QED BY <2>1 DEF Class, Unseen, DeqPC, Claimed
  <1>5. CASE Miss(t, "d_try", "d_next") \/ Miss(t, "d_again", "d_move")
    <2>1. /\ pc[t] \in {"d_try", "d_again"} /\ pc'[t] \in {"d_next", "d_move"}
          /\ item'[t] = item[t]
      BY <1>5 DEF Miss
    <2> QED BY <2>1 DEF Class, Unseen, DeqPC, Claimed
  <1>6. CASE DeqUsed(t) \/ DeqFree(t)
    <2>1. pc[t] \in {"d_used", "d_free"} /\ pc'[t] \in {"d_free", "d_len"} /\ item'[t] = item[t]
      BY <1>6 DEF DeqUsed, DeqFree
    <2> QED BY <2>1 DEF Class, Unseen, Claimed
  <1>7. CASE Invoke(t) \/ DeqLen(t) \/ (DeqNext(t) /\ cur[t] = End)
    BY <1>7 DEF Invoke, Class
  <1> QED BY <1>1, <1>2, <1>3, <1>4, <1>5, <1>6, <1>7 DEF Quiets

\* Every step of a thread is a step of the queue, or nothing it shows.
LEMMA FifoStep ==
  ASSUME Reached, Reached', Record, Promised, NEW t \in Threads, Invoke(t) \/ Step(t)
  PROVE  UNCHANGED Fifo!vars \/ Fifo!Next
  <1>1. \/ EnqPut(t) /\ PutStep(t)
        \/ EnqLink(t) /\ LinkedStep(t)
        \/ (DeqTry(t) \/ DeqAgain(t)) /\ ClaimStep(t)
        \/ Quiets(t) /\ QuietStep(t)
    BY StepQueues DEF Reached
  <1>2. CASE EnqPut(t)
    BY <1>2, PutMaps DEF Fifo!Next
  <1>3. CASE EnqLink(t) /\ LinkedStep(t)
    BY <1>3, LinkMaps DEF Fifo!Next, LinkedStep
  <1>4. CASE (DeqTry(t) \/ DeqAgain(t)) /\ ClaimStep(t)
    <2>1. Claims(t, item'[t])
      BY <1>4, ClaimTakes
    <2> DEFINE i == item'[t]
    <2>2. Claims(t, i)
      BY <2>1
    <2> HIDE DEF i
    <2>3. Fifo!Claim(t)
      BY <2>2, ClaimMaps
    <2> QED BY <2>3 DEF Fifo!Next
  <1>5. CASE Quiets(t) /\ QuietStep(t)
    <2>1. Class(t)
      BY <1>5, ClassStep DEF Reached, IInv, LooseType
    <2>2. CASE EnqCall(t)
      BY <2>2, EnqCallMaps DEF Fifo!Next
    <2>3. CASE DeqCall(t)
      BY <2>3, DeqCallMaps DEF Fifo!Next
    <2>4. CASE DeqLen(t)
      BY <2>4, SomeMaps DEF Fifo!Next
    <2>5. CASE DeqNext(t) /\ cur[t] = End
      BY <2>5, NoneMaps DEF Fifo!Next
    <2>6. CASE pc[t] \in EnqAfter /\ pc'[t] = "idle"
      <3>1. Returns(t)
        BY <1>5, <2>6 DEF Returns
      <3> QED BY <3>1, DoneMaps DEF Fifo!Next
    <2>7. CASE Unseen(t)
      BY <1>5, <2>7, QuietItems, UnseenMaps
    <2> QED BY <2>1, <2>2, <2>3, <2>4, <2>5, <2>6, <2>7 DEF Class
  <1> QED BY <1>1, <1>2, <1>3, <1>4, <1>5

\* What only concerns the memory of the nodes shows nothing either.
LEMMA RestMaps ==
  ASSUME Reached, Reached', RestStep, Record \/ UNCHANGED history
  PROVE  UNCHANGED Fifo!vars
  <1>1. UNCHANGED <<start, nodes, head, tail, pc, item, cur>>
    BY DEF RestStep
  <1>2. Reachable' = Reachable /\ Returned' = Returned
    BY <1>1 DEF End, Reachable, Returned
  <1>3. Queue' = Queue
    BY <1>1, <1>2 DEF Queue, Order, Later, End
  <1>4. ASSUME NEW u \in Threads PROVE Op(u)' = Op(u)
    <2>1. OpIs(u) /\ OpIs(u)'
      <3>1. OpsAre /\ OpsAre'
        BY OpAt, PTL
      <3> QED BY <3>1 DEF OpsAre
    <2>2. CASE pc[u] \in EnqBefore
      <3>1. pre'[u] = pre[u]
        <4>1. CASE Record
          BY <1>1, <1>2, <2>2, <4>1, PreSame
        <4>2. CASE UNCHANGED history
          BY <4>2 DEF history
        <4> QED BY <4>1, <4>2
      <3> QED BY <1>1, <2>1, <2>2, <3>1 DEF OpIs, Fifo!Enq
    <2>3. CASE pc[u] \in DeqPC \ Claimed
      <3>1. mayFail'[u] = mayFail[u]
        <4>1. CASE Record
          BY <1>1, <1>2, <2>3, <4>1, RecordDeq DEF Reached, CallInv, MetEmpty
        <4>2. CASE UNCHANGED history
          BY <4>2 DEF history
        <4> QED BY <4>1, <4>2
      <3> QED BY <1>1, <2>1, <2>3, <3>1 DEF OpIs, Fifo!Deq
    <2>4. CASE pc[u] \in EnqAfter
      BY <1>1, <1>2, <2>1, <2>4 DEF OpIs, Fifo!Put, Fifo!Given
    <2>5. CASE pc[u] = "idle" \/ pc[u] \in Claimed
      BY <1>1, <2>1, <2>5 DEF OpIs, Fifo!Idle, Fifo!Got
    <2>6. pc[u] = "idle" \/ pc[u] \in EnqPC \/ pc[u] \in DeqPC
      BY DEF Reached, IInv, LooseType, LocalType
    <2> QED BY <2>2, <2>3, <2>4, <2>5, <2>6, Kinds
  <1> HIDE DEF Op
  <1>5. [x \in Threads |-> Op(x)]' = [x \in Threads |-> Op(x)]
    BY <1>4
  <1> QED BY <1>2, <1>3, <1>5 DEF Fifo!vars

-----------------------------------------------------------------------------
(* The refinement.                                                         *)

\* A queue to begin with shows a queue whose items are settled, and no call.
LEMMA InitMaps ==
  ASSUME HInit
  PROVE  Fifo!Init
  <1>1. IInv /\ LooseType
    BY InitInv DEF IInv
  <1>2. \A t \in Threads : pc[t] = "idle"
    BY DEF HInit, Init
  <1>3. /\ Queue \in Seq(Reachable) /\ ToSet(Queue) = Reachable /\ Fifo!IsInjective(Queue)
        /\ Reachable \subseteq 1 .. MaxItem
    BY <1>1, QueueItems
  <1>4. Reachable \subseteq UNION {1 .. s.filled + s.calls : s \in Starts}
    BY <1>1, <1>3, ItemsAmong
  <1>5. Queue \in Seq(UNION {1 .. s.filled + s.calls : s \in Starts})
    <2>1. Sorts(Reachable, Order)
      BY <1>1, ItemsSorted DEF ItemsSort
    <2> QED BY <1>4, <2>1, ListedWider DEF Queue
  <1>6. Returned = Fifo!ToSet(Queue)
    <2>1. \A t \in Threads : pc[t] \notin EnqPC
      BY <1>2, Kinds
    <2>2. Returned = Reachable
      BY <2>1 DEF Returned
    <2> QED BY <1>3, <2>2 DEF ToSet, Fifo!ToSet
  <1>7. \A t \in Threads : Op(t) = Fifo!Idle
    BY <1>2, OpAt DEF OpsAre, OpIs
  <1> HIDE DEF Op
  <1>8. [t \in Threads |-> Op(t)] = [t \in Threads |-> Fifo!Idle]
    BY <1>7
  <1> QED BY <1>3, <1>5, <1>6, <1>8 DEF Fifo!Init

\* The list of segments is one FIFO queue of items, for any number of threads
\* and segments and of any size, as long as no segment is left open behind a
\* new one and no more than capacity + 1 dequeues are made at a time, which is
\* what the threshold of a segment withstands: the steps of the queue are the
\* insertion into a segment (src/lfstd.rs:209) or with a new one
\* (src/lfstd.rs:233), the claim of an item of the first segment
\* (src/lfstd.rs:277, 305), the calls and the returns.
THEOREM FifoCorrect == HSpec => QueueFifo
  <1>1. HInit => Fifo!Init
    BY InitMaps
  <1>2. /\ IInv /\ IInv' /\ CallInv /\ CallInv' /\ [HNext]_<<vars, history>>
        => [~Promised \/ Fifo!Next]_<<Fifo!vars>>
    <2> SUFFICES ASSUME IInv, IInv', CallInv, CallInv', [HNext]_<<vars, history>>, Promised
                 PROVE  UNCHANGED Fifo!vars \/ Fifo!Next
      OBVIOUS
    <2>1. Reached /\ Reached'
      BY DEF Reached
    <2>2. CASE UNCHANGED <<vars, history>>
      <3>1. RestStep /\ UNCHANGED history
        BY <2>2 DEF vars, list, local, RestStep
      <3> QED BY <2>1, <3>1, RestMaps
    <2>3. ASSUME NEW t \in Threads, Invoke(t) \/ Step(t), Record
          PROVE  UNCHANGED Fifo!vars \/ Fifo!Next
      BY <2>1, <2>3, FifoStep
    <2>4. ASSUME DropQueue \/ \E n \in retired : Reclaim(n), Record
          PROVE  UNCHANGED Fifo!vars
      <3>1. RestStep
        BY <2>4 DEF DropQueue, Reclaim, list, local, RestStep
      <3> QED BY <2>1, <2>4, <3>1, RestMaps
    <2> QED BY <2>2, <2>3, <2>4 DEF HNext, Next
  <1> QED
    BY <1>1, <1>2, Invariance, CallCorrect, PTL DEF HSpec, QueueFifo

=============================================================================
