--------------------------- MODULE PositionProofs ---------------------------
(***************************************************************************)
(* The positions of a finite set have the ranks 1 to its cardinality, each *)
(* one of them.  And what the proofs need of the natural numbers: a set    *)
(* that has 0 and the successors of its members has them all, and a rule   *)
(* that gives the next value defines a value for each of them.             *)
(***************************************************************************)
EXTENDS Positions, FiniteSetTheorems, WellFoundedInduction, TLAPS

\* The rank of a position in a finite set of positions.
LEMMA RankFacts ==
  ASSUME NEW m \in Nat, NEW K \in SUBSET (1..m)
  PROVE  /\ IsFiniteSet(K) /\ Cardinality(K) \in Nat
         /\ \A i \in K : Rank(K, i) \in 1..Cardinality(K)
         /\ \A i, j \in K : Rank(K, i) = Rank(K, j) => i = j
<1>0. K \subseteq Nat
  OBVIOUS
<1>1. IsFiniteSet(K) /\ Cardinality(K) \in Nat
  <2>1. IsFiniteSet(1..m)
    BY FS_Interval
  <2>2. IsFiniteSet(K)
    BY <2>1, FS_Subset
  <2>3. QED
    BY <2>2, FS_CardinalityType
<1> DEFINE B(i) == {k \in K : k <= i}
<1>2. ASSUME NEW i \in K
      PROVE  /\ IsFiniteSet(B(i)) /\ Cardinality(B(i)) \in Nat
             /\ Cardinality(B(i)) <= Cardinality(K) /\ Cardinality(B(i)) >= 1
  <2>1. B(i) \in SUBSET K /\ i \in B(i)
    OBVIOUS
  <2> HIDE DEF B
  <2>2. IsFiniteSet(B(i)) /\ Cardinality(B(i)) <= Cardinality(K)
    BY <1>1, <2>1, FS_Subset
  <2>3. Cardinality(B(i)) \in Nat /\ Cardinality(B(i)) # 0
    BY <2>1, <2>2, FS_CardinalityType, FS_EmptySet
  <2>4. QED
    BY <2>2, <2>3
<1>3. ASSUME NEW i \in K, NEW j \in K, i < j
      PROVE  Cardinality(B(i)) # Cardinality(B(j))
  <2>1. B(i) \in SUBSET B(j) /\ j \in B(j) /\ j \notin B(i)
    <3>1. i \in Nat /\ j \in Nat
      BY <1>0
    <3>2. ASSUME NEW k \in K, k <= i PROVE k <= j
      <4>1. k \in Nat
        BY <1>0
      <4>2. QED
        BY <1>3, <3>1, <3>2, <4>1
    <3>3. j <= j /\ ~(j <= i)
      BY <1>3, <3>1
    <3>4. QED
      BY <3>2, <3>3
  <2>2. IsFiniteSet(B(j))
    BY <1>2
  <2> HIDE DEF B
  <2>3. QED
    BY <2>1, <2>2, FS_Subset
<1>4. \A i \in K : Rank(K, i) = Cardinality(B(i))
  BY DEF Rank
<1> HIDE DEF B
<1>5. ASSUME NEW i \in K, NEW j \in K, Rank(K, i) = Rank(K, j) PROVE i = j
  <2>1. ~(i < j) /\ ~(j < i)
    BY <1>3, <1>4, <1>5
  <2>2. QED
    BY <2>1
<1>6. \A i \in K : Rank(K, i) \in 1..Cardinality(K)
  BY <1>1, <1>2, <1>4
<1>7. QED
  BY <1>1, <1>5, <1>6

\* Every rank has its position.
LEMMA NthFacts ==
  ASSUME NEW m \in Nat, NEW K \in SUBSET (1..m)
  PROVE  /\ \A n \in 1..Cardinality(K) : Nth(K, n) \in K /\ Rank(K, Nth(K, n)) = n
         /\ \A i \in K : Nth(K, Rank(K, i)) = i
<1> DEFINE N == 1..Cardinality(K)
           r == [i \in K |-> Rank(K, i)]
<1>1. IsFiniteSet(K) /\ Cardinality(K) \in Nat /\ IsFiniteSet(N) /\ Cardinality(N) = Cardinality(K)
  <2> DEFINE c == Cardinality(K)
  <2>1. IsFiniteSet(K) /\ c \in Nat
    BY RankFacts
  <2> HIDE DEF c
  <2>2. IsFiniteSet(1..c) /\ Cardinality(1..c) = IF 1 > c THEN 0 ELSE c - 1 + 1
    BY <2>1, FS_Interval
  <2>3. Cardinality(1..c) = c
    BY <2>1, <2>2
  <2>4. QED
    BY <2>1, <2>2, <2>3 DEF c
<1>2. r \in Injection(K, N)
  BY RankFacts DEF Injection, IsInjective
<1> HIDE DEF N
<1>3. r \in Surjection(K, N)
  BY <1>1, <1>2, FS_Injection
<1>4. ASSUME NEW n \in N PROVE \E i \in K : Rank(K, i) = n
  BY <1>3 DEF Surjection
<1>5. ASSUME NEW n \in N PROVE Nth(K, n) \in K /\ Rank(K, Nth(K, n)) = n
  BY <1>4 DEF Nth
<1>6. ASSUME NEW i \in K PROVE Nth(K, Rank(K, i)) = i
  <2>1. Rank(K, i) \in N
    BY RankFacts DEF N
  <2>2. QED
    BY <1>5, <2>1, RankFacts
<1>7. QED
  BY <1>5, <1>6 DEF N

\* A set of positions that is not empty has a least and a greatest one.
LEMMA FirstFacts ==
  ASSUME NEW m \in Nat, NEW K \in SUBSET (1..m), K # {}
  PROVE  /\ First(K) \in K /\ \A j \in K : First(K) <= j
         /\ \E i \in K : \A j \in K : j <= i
<1> DEFINE c == Cardinality(K)
           B(i) == {k \in K : k <= i}
<1>1. IsFiniteSet(K) /\ c \in Nat /\ c # 0
  BY RankFacts, FS_EmptySet
<1> HIDE DEF c
<1>2. 1 \in 1..c /\ c \in 1..c
  BY <1>1
<1>3. PICK i \in K : Rank(K, i) = 1
  BY <1>2, NthFacts DEF c
<1>4. PICK n \in K : Rank(K, n) = c
  BY <1>2, NthFacts DEF c
<1>5. \A k \in K : Cardinality(B(k)) = Rank(K, k) /\ B(k) \in SUBSET K /\ k \in B(k)
  BY DEF Rank
<1>6. \A k \in K : k \in Nat
  OBVIOUS
<1>7. ASSUME NEW j \in K PROVE i <= j
  <2>1. SUFFICES ASSUME j < i PROVE FALSE
    BY <1>6
  <2>2. ASSUME NEW k \in K, k <= j PROVE k <= i
    BY <1>6, <2>1, <2>2
  <2>3. B(j) \in SUBSET B(i) /\ i \notin B(j)
    <3>1. ~(i <= j)
      BY <1>6, <2>1
    <3>2. QED
      BY <2>2, <3>1
  <2> HIDE DEF B
  <2>4. IsFiniteSet(B(i)) /\ i \in B(i)
    BY <1>1, <1>5, FS_Subset
  <2>5. Cardinality(B(j)) <= Cardinality(B(i)) /\ Cardinality(B(j)) # Cardinality(B(i))
    BY <2>3, <2>4, FS_Subset
  <2>6. Rank(K, j) <= 1 /\ Rank(K, j) # 1 /\ Rank(K, j) \in 1..c
    BY <1>3, <1>5, <2>5, RankFacts DEF c
  <2>7. QED
    BY <1>1, <2>6
<1>8. ASSUME NEW j \in K PROVE j <= n
  <2> HIDE DEF B
  <2>1. B(n) \in SUBSET K /\ Cardinality(B(n)) = Cardinality(K)
    BY <1>4, <1>5 DEF c
  <2>2. B(n) = K
    BY <1>1, <2>1, FS_Subset
  <2>3. QED
    BY <2>2 DEF B
<1>9. First(K) \in K /\ \A j \in K : First(K) <= j
  BY <1>7 DEF First
<1>10. QED
  BY <1>8, <1>9

(***************************************************************************)
(* Natural numbers.                                                        *)
(***************************************************************************)
\* A set of natural numbers that is not empty has a least one.
LEMMA NatLeast ==
  ASSUME NEW T \in SUBSET Nat, T # {}
  PROVE  \E m \in T : \A k \in T : m <= k
<1> DEFINE R == {ss \in Nat \X Nat : ss[1] < ss[2]}
<1>1. IsWellFoundedOn(OpToRel(<, Nat), Nat)
  BY NatLessThanWellFounded
<1>2. OpToRel(<, Nat) = R
  BY DEF OpToRel
<1>3. IsWellFoundedOn(R, Nat)
  BY <1>1, <1>2
<1> HIDE DEF R
<1>4. PICK m \in T : \A k \in T : ~(<<k, m>> \in R)
  BY <1>3, WFMin
<1>5. ASSUME NEW k \in T PROVE m <= k
  <2>1. m \in Nat /\ k \in Nat /\ ~(<<k, m>> \in R)
    BY <1>4
  <2>2. <<k, m>> \in Nat \X Nat
    BY <2>1
  <2>3. ~(k < m)
    BY <2>1, <2>2 DEF R
  <2>4. QED
    BY <2>1, <2>3
<1>6. QED
  BY <1>5

\* Induction, for a property that is given as the set of numbers that have it.
LEMMA SetInduction ==
  ASSUME NEW S, 0 \in S, \A n \in Nat : n \in S => n + 1 \in S
  PROVE  \A n \in Nat : n \in S
<1> DEFINE T == Nat \ S
<1>1. SUFFICES ASSUME T # {} PROVE FALSE
  OBVIOUS
<1>2. PICK m \in T : \A k \in T : m <= k
  BY <1>1, NatLeast
<1>3. m \in Nat /\ m # 0 /\ m \notin S
  OBVIOUS
<1>4. m - 1 \in Nat /\ (m - 1) + 1 = m /\ ~(m <= m - 1)
  BY <1>3
<1>5. m - 1 \in S
  BY <1>2, <1>4
<1>6. QED
  BY <1>3, <1>4, <1>5

\* The first k + 1 values of a sequence that starts with v and goes on by F.
Begins(V, v, F, k) ==
  {f \in [0..k -> V] : f[0] = v /\ \A n \in 0..k : n + 1 <= k => f[n + 1] = F[f[n]]}

\* They exist, and they are the same for every k.
LEMMA BeginsFacts ==
  ASSUME NEW V, NEW v \in V, NEW F \in [V -> V]
  PROVE  /\ \A k \in Nat : Begins(V, v, F, k) # {}
         /\ \A n \in Nat : \A k, l \in Nat :
              n <= k /\ n <= l =>
                \A f \in Begins(V, v, F, k), g \in Begins(V, v, F, l) : f[n] = g[n]
<1> DEFINE B(k) == Begins(V, v, F, k)
           S == {k \in Nat : B(k) # {}}
           Same(n) == \A k, l \in Nat : n <= k /\ n <= l =>
                        \A f \in B(k), g \in B(l) : f[n] = g[n]
           U == {n \in Nat : Same(n)}
<1>1. \A k \in Nat : k \in S
  <2>1. 0 \in S
    <3> DEFINE f == [i \in 0..0 |-> v]
    <3>1. f \in B(0)
      BY DEF Begins
    <3>2. QED
      BY <3>1
  <2>2. ASSUME NEW k \in Nat, k \in S PROVE k + 1 \in S
    <3>1. PICK f \in B(k) : TRUE
      BY <2>2
    <3>2. /\ f \in [0..k -> V] /\ f[0] = v
          /\ \A n \in 0..k : n + 1 <= k => f[n + 1] = F[f[n]]
      BY DEF Begins
    <3> DEFINE g == [i \in 0..(k + 1) |-> IF i = k + 1 THEN F[f[k]] ELSE f[i]]
    <3>3. F[f[k]] \in V
      BY <3>2
    <3>4. g \in [0..(k + 1) -> V] /\ g[0] = v
      BY <3>2, <3>3
    <3>5. ASSUME NEW n \in 0..(k + 1), n + 1 <= k + 1 PROVE g[n + 1] = F[g[n]]
      BY <3>2, <3>5
    <3> HIDE DEF g
    <3>6. g \in B(k + 1)
      BY <3>4, <3>5 DEF Begins
    <3>7. QED
      BY <3>6
  <2> HIDE DEF S
  <2>3. QED
    BY <2>1, <2>2, SetInduction
<1>2. \A n \in Nat : n \in U
  <2>1. 0 \in U
    BY DEF Begins
  <2>2. ASSUME NEW n \in Nat, n \in U PROVE n + 1 \in U
    <3>1. ASSUME NEW k \in Nat, NEW l \in Nat, n + 1 <= k, n + 1 <= l,
                 NEW f \in B(k), NEW g \in B(l)
          PROVE  f[n + 1] = g[n + 1]
      <4>1. n <= k /\ n <= l /\ n \in 0..k /\ n \in 0..l
        BY <3>1
      <4>2. f[n] = g[n]
        BY <2>2, <4>1
      <4>3. f[n + 1] = F[f[n]] /\ g[n + 1] = F[g[n]]
        BY <3>1, <4>1 DEF Begins
      <4>4. QED
        BY <4>2, <4>3
    <3>2. QED
      BY <3>1
  <2> HIDE DEF U
  <2>3. QED
    BY <2>1, <2>2, SetInduction
<1>3. QED
  BY <1>1, <1>2

\* The sequences that start with v and go on by F.
Iterates(V, v, F) ==
  {f \in [Nat -> V] : f[0] = v /\ \A n \in Nat : f[n + 1] = F[f[n]]}

\* A rule F for the next value defines one for every number.
LEMMA Iteration ==
  ASSUME NEW V, NEW v \in V, NEW F \in [V -> V]
  PROVE  Iterates(V, v, F) # {}
<1> DEFINE b == [k \in Nat |-> CHOOSE f \in Begins(V, v, F, k) : TRUE]
           f == [n \in Nat |-> b[n][n]]
<1>1. ASSUME NEW k \in Nat PROVE b[k] \in Begins(V, v, F, k)
  BY BeginsFacts
<1> HIDE DEF b
<1>2. f \in [Nat -> V]
  <2>1. ASSUME NEW k \in Nat PROVE b[k][k] \in V
    BY <1>1 DEF Begins
  <2>2. QED
    BY <2>1
<1>3. f[0] = v
  BY <1>1 DEF Begins
<1>4. ASSUME NEW n \in Nat PROVE f[n + 1] = F[f[n]]
  <2>1. n + 1 \in Nat /\ n <= n + 1 /\ n \in 0..(n + 1)
    OBVIOUS
  <2>2. b[n + 1][n] = b[n][n]
    BY <1>1, <2>1, BeginsFacts
  <2>3. b[n + 1][n + 1] = F[b[n + 1][n]]
    BY <1>1, <2>1 DEF Begins
  <2>4. QED
    BY <2>1, <2>2, <2>3
<1> HIDE DEF f
<1>5. QED
  BY <1>2, <1>3, <1>4 DEF Iterates
=============================================================================
