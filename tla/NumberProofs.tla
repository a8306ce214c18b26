---------------------------- MODULE NumberProofs ----------------------------
(***************************************************************************)
(* Least and largest numbers of a set, its numbers in order, and the       *)
(* members of a sequence at some of its indices.                           *)
(***************************************************************************)
EXTENDS Ranks, FiniteSetTheorems, TLAPS

\* A set of numbers has a least one.
LEMMA LeastNumber ==
    ASSUME NEW T \in SUBSET Nat, T # {}
    PROVE  \E x \in T : \A y \in T : x <= y
<1>1. \E x \in T : \A y \in T : ~(<<y, x>> \in OpToRel(<, Nat))
  BY NatLessThanWellFounded, WFMin, Zenon
<1>2. PICK x \in T : \A y \in T : ~(<<y, x>> \in OpToRel(<, Nat))
  BY <1>1
<1>3. ASSUME NEW y \in T PROVE x <= y
  <2>1. ~(<<y, x>> \in OpToRel(<, Nat))
    BY <1>2
  <2>2. ~(y < x)
    BY <2>1 DEF OpToRel
  <2>. QED  BY <2>2
<1>. QED  BY <1>3

\* A set of numbers up to one has a largest one.
LEMMA LargestNumber ==
    ASSUME NEW n \in Nat, NEW T \in SUBSET (0 .. n), T # {}
    PROVE  \E x \in T : \A y \in T : y <= x
<1>. DEFINE Rest == {n - k : k \in T}
<1>1. Rest \in SUBSET Nat /\ Rest # {}
  <2>1. ASSUME NEW k \in T PROVE n - k \in Nat
    <3>1. k \in 0 .. n
      OBVIOUS
    <3>. QED  BY <3>1
  <2>. QED  BY <2>1
<1>2. PICK r \in Rest : \A y \in Rest : r <= y
  BY <1>1, LeastNumber
<1>3. PICK m \in T : r = n - m
  BY <1>2
<1>4. ASSUME NEW k \in T PROVE k <= m
  <2>1. n - k \in Rest
    OBVIOUS
  <2>2. r <= n - k
    BY <1>2, <2>1
  <2>3. k \in 0 .. n /\ m \in 0 .. n
    OBVIOUS
  <2>. QED  BY <1>3, <2>2, <2>3
<1>. QED  BY <1>4

\* The numbers up to n are n.
LEMMA IntervalSize ==
    ASSUME NEW n \in Nat PROVE IsFiniteSet(1 .. n) /\ Cardinality(1 .. n) = n
BY FS_Interval

-----------------------------------------------------------------------------
\* The ranks of a finite linear order: where below[i] are the members up to i,
\* every rank from 1 to the size of the set is the rank of exactly one member.
LEMMA RankOnto ==
    ASSUME NEW S, IsFiniteSet(S), NEW below,
           \A i \in S : i \in below[i] /\ below[i] \subseteq S,
           \A i, j \in S : below[i] \subseteq below[j] \/ below[j] \subseteq below[i],
           \A i, j \in S : below[i] = below[j] => i = j
    PROVE  /\ Cardinality(S) \in Nat
           /\ \A i \in S : Cardinality(below[i]) \in 1 .. Cardinality(S)
           /\ \A i, j \in S : Cardinality(below[i]) = Cardinality(below[j]) => i = j
           /\ \A k \in 1 .. Cardinality(S) : \E i \in S : Cardinality(below[i]) = k
<1>1. Cardinality(S) \in Nat
  BY FS_CardinalityType
<1>2. \A i \in S : IsFiniteSet(below[i]) /\ Cardinality(below[i]) \in Nat
                   /\ Cardinality(below[i]) <= Cardinality(S)
  BY FS_Subset, FS_CardinalityType
<1>3. \A i \in S : Cardinality(below[i]) # 0
  BY <1>2, FS_EmptySet
<1>4. ASSUME NEW i \in S, NEW j \in S, Cardinality(below[i]) = Cardinality(below[j]) PROVE i = j
  <2>1. CASE below[i] \subseteq below[j]
    BY <1>2, <1>4, <2>1, FS_Subset
  <2>2. CASE below[j] \subseteq below[i]
    BY <1>2, <1>4, <2>2, FS_Subset
  <2>. QED  BY <2>1, <2>2
<1>. DEFINE rank == [i \in S |-> Cardinality(below[i])]
            T == 1 .. Cardinality(S)
<1>5. \A i \in S : rank[i] = Cardinality(below[i]) /\ rank[i] \in T
  BY <1>1, <1>2, <1>3
<1>6. IsFiniteSet(T) /\ Cardinality(T) = Cardinality(S)
  BY <1>1, FS_Interval
<1>7. rank \in Injection(S, T)
  BY <1>4, <1>5 DEF Injection, IsInjective
<1>8. rank \in Surjection(S, T)
  BY <1>6, <1>7, FS_Injection
<1>9. \A k \in T : \E i \in S : rank[i] = k
  BY <1>8 DEF Surjection
<1>. QED  BY <1>1, <1>4, <1>5, <1>9

\* InOrder lists the members of a finite set of indices.
LEMMA InOrderMembers ==
    ASSUME NEW S \in SUBSET Int, IsFiniteSet(S)
    PROVE  /\ InOrder(S) \in Seq(S)
           /\ Len(InOrder(S)) = Cardinality(S)
           /\ \A i \in S : \E k \in DOMAIN InOrder(S) : InOrder(S)[k] = i
           /\ \A k, l \in DOMAIN InOrder(S) : k < l => InOrder(S)[k] < InOrder(S)[l]
<1>. DEFINE below == [i \in S |-> {j \in S : j <= i}]
            Pick(k) == CHOOSE i \in S : Cardinality({j \in S : j <= i}) = k
<1>i. \A i \in S : i \in Int
  OBVIOUS
<1>0. \A i, j \in S : j \in below[i] <=> j <= i
  OBVIOUS
<1>s. \A i \in S : below[i] = {j \in S : j <= i}
  OBVIOUS
<1>u. \A i \in S : below[i] \subseteq S
  BY <1>s
<1>. HIDE DEF below
<1>1. /\ \A i \in S : i \in below[i] /\ below[i] \subseteq S
      /\ \A i, j \in S : below[i] \subseteq below[j] \/ below[j] \subseteq below[i]
      /\ \A i, j \in S : below[i] = below[j] => i = j
  <2>1. \A i \in S : i \in below[i] /\ below[i] \subseteq S
    BY <1>i, <1>0, <1>u
  <2>2. ASSUME NEW i \in S, NEW j \in S, i <= j PROVE below[i] \subseteq below[j]
    <3>1. ASSUME NEW x \in below[i] PROVE x \in below[j]
      <4>1. x \in S
        BY <1>u
      <4>2. x <= j
        BY <1>i, <1>0, <2>2, <4>1
      <4>. QED  BY <1>0, <4>1, <4>2
    <3>. QED  BY <3>1
  <2>3. \A i, j \in S : i <= j \/ j <= i
    BY <1>i
  <2>4. ASSUME NEW i \in S, NEW j \in S, below[i] = below[j] PROVE i = j
    <3>1. i \in below[j] /\ j \in below[i]
      BY <2>1, <2>4
    <3>2. i <= j /\ j <= i
      BY <1>0, <3>1
    <3>. QED  BY <1>i, <3>2
  <2>. QED  BY <2>1, <2>2, <2>3, <2>4, Zenon
<1>2. /\ Cardinality(S) \in Nat
      /\ \A i \in S : Cardinality(below[i]) \in 1 .. Cardinality(S)
      /\ \A i, j \in S : Cardinality(below[i]) = Cardinality(below[j]) => i = j
      /\ \A k \in 1 .. Cardinality(S) : \E i \in S : Cardinality(below[i]) = k
  BY <1>1, RankOnto
<1>3. ASSUME NEW k \in 1 .. Cardinality(S) PROVE Pick(k) \in S /\ Cardinality(below[Pick(k)]) = k
  <2>1. \E i \in S : Cardinality({j \in S : j <= i}) = k
    BY <1>s, <1>2
  <2>. QED  BY <1>s, <2>1
<1>4. InOrder(S) = [k \in 1 .. Cardinality(S) |-> Pick(k)]
  BY DEF InOrder
<1>5. InOrder(S) \in Seq(S) /\ Len(InOrder(S)) = Cardinality(S)
  <2>. HIDE DEF Pick
  <2>. QED  BY <1>2, <1>3, <1>4
<1>6. ASSUME NEW i \in S PROVE \E k \in DOMAIN InOrder(S) : InOrder(S)[k] = i
  <2>. DEFINE k == Cardinality(below[i])
  <2>1. k \in 1 .. Cardinality(S)
    BY <1>2
  <2>. HIDE DEF k, Pick
  <2>2. Cardinality(below[Pick(k)]) = k /\ Pick(k) \in S
    BY <1>3, <2>1
  <2>3. Pick(k) = i
    BY <1>2, <2>2 DEF k
  <2>. QED  BY <1>4, <2>1, <2>3
<1>7. ASSUME NEW k \in DOMAIN InOrder(S), NEW l \in DOMAIN InOrder(S), k < l
      PROVE  InOrder(S)[k] < InOrder(S)[l]
  <2>. DEFINE p == InOrder(S)[k]
              q == InOrder(S)[l]
  <2>1. k \in 1 .. Cardinality(S) /\ l \in 1 .. Cardinality(S)
    BY <1>4
  <2>2. p = Pick(k) /\ q = Pick(l)
    BY <1>4, <2>1
  <2>3. p \in S /\ Cardinality(below[p]) = k /\ q \in S /\ Cardinality(below[q]) = l
    BY <1>3, <2>1, <2>2
  <2>. HIDE DEF p, q
  <2>4. p \in Int /\ q \in Int
    BY <1>i, <2>3
  <2>5. ASSUME q <= p PROVE FALSE
    <3>1. \A x \in S : x <= q => x <= p
      BY <1>i, <2>4, <2>5
    <3>2. below[q] \subseteq below[p]
      BY <1>0, <1>u, <2>3, <3>1
    <3>3. IsFiniteSet(below[p])
      BY <1>u, <2>3, FS_Subset
    <3>4. Cardinality(below[q]) <= Cardinality(below[p])
      BY <3>2, <3>3, FS_Subset
    <3>. QED  BY <1>7, <2>1, <2>3, <3>4
  <2>. QED  BY <2>4, <2>5 DEF p, q
<1>. QED  BY <1>5, <1>6, <1>7

\* What is picked from a sequence are members of it.
LEMMA PickedMembers ==
    ASSUME NEW T, NEW list \in Seq(T), NEW S \in SUBSET DOMAIN list
    PROVE  /\ Picked(list, S) \in Seq(T)
           /\ \A k \in DOMAIN Picked(list, S) : \E i \in S : Picked(list, S)[k] = list[i]
<1>1. DOMAIN list = 1 .. Len(list) /\ Len(list) \in Nat
  OBVIOUS
<1>2. S \in SUBSET Int /\ IsFiniteSet(S)
  <2>1. IsFiniteSet(DOMAIN list)
    BY <1>1, FS_Interval
  <2>. QED  BY <1>1, <2>1, FS_Subset
<1>. DEFINE order == InOrder(S)
<1>3. order \in Seq(S) /\ Len(order) = Cardinality(S) /\ Cardinality(S) \in Nat
  BY <1>2, InOrderMembers, FS_CardinalityType
<1>4. Picked(list, S) = [k \in 1 .. Cardinality(S) |-> list[order[k]]]
  BY DEF Picked
<1>. HIDE DEF order
<1>5. \A k \in 1 .. Cardinality(S) : order[k] \in S
  BY <1>3
<1>6. \A k \in 1 .. Cardinality(S) : list[order[k]] \in T
  BY <1>5
<1>7. DOMAIN Picked(list, S) = 1 .. Cardinality(S)
  BY <1>4
<1>8. \A k \in 1 .. Cardinality(S) : Picked(list, S)[k] = list[order[k]]
  BY <1>4
<1>9. Picked(list, S) \in Seq(T)
  BY <1>3, <1>4, <1>6
<1>. QED  BY <1>5, <1>7, <1>8, <1>9

-----------------------------------------------------------------------------
(* Recursion over the numbers up to one.                                   *)

\* T[i] is the set of the values after i steps.
Steps(step, n, T) == \A i \in 1..n : \A t \in T[i - 1] : step[i][t] \in T[i]

Walk(f, base, step, n, T) ==
    /\ f = [i \in 0..n |-> f[i]]
    /\ \A i \in 0..n : f[i] \in T[i]
    /\ f[0] = base /\ \A i \in 1..n : f[i] = step[i][f[i - 1]]

\* A function is determined, step by step, up to every number.
LEMMA StepByStep ==
    ASSUME NEW T, NEW base, base \in T[0], NEW n, n \in Nat, NEW step, Steps(step, n, T)
    PROVE  \E f : Walk(f, base, step, n, T)
<1> DEFINE Good(m) == \E f : Walk(f, base, step, m, T)
           Bad == {m \in 0..n : ~Good(m)}
<1> SUFFICES ASSUME Bad # {} PROVE FALSE
    OBVIOUS
<1> HIDE DEF Good
<1>0. Bad \in SUBSET Nat /\ \A m \in Bad : m \in 0..n /\ ~Good(m)
    OBVIOUS
<1>1. PICK m \in Bad : \A k \in Bad : m <= k
    <2> HIDE DEF Bad
    <2> QED BY <1>0, LeastNumber
<1>2. CASE m = 0
    <2> DEFINE f == [i \in 0..0 |-> base]
    <2>1. f = [i \in 0..0 |-> f[i]] /\ \A i \in 0..0 : i = 0 /\ f[i] = base
        OBVIOUS
    <2>2. Good(0)
        <3> HIDE DEF f
        <3> QED BY <2>1 DEF Good, Walk
    <2> QED BY <1>0, <1>2, <2>2
<1>3. CASE m # 0
    <2>1. m - 1 \in 0..n /\ Good(m - 1)
        <3>1. m \in 0..n /\ m - 1 \in 0..n /\ ~(m <= m - 1)
            BY <1>0, <1>3
        <3> QED BY <1>1, <3>1
    <2>2. PICK f : Walk(f, base, step, m - 1, T)
        BY <2>1 DEF Good
    <2>a. /\ \A i \in 0..(m - 1) : f[i] \in T[i]
          /\ f[0] = base /\ \A i \in 1..(m - 1) : f[i] = step[i][f[i - 1]]
        BY <2>2 DEF Walk
    <2>3. m \in 1..n /\ f[m - 1] \in T[m - 1] /\ step[m][f[m - 1]] \in T[m]
        BY <1>0, <1>3, <2>a DEF Steps
    <2> DEFINE g == [i \in 0..m |-> IF i = m THEN step[m][f[m - 1]] ELSE f[i]]
    <2>4. /\ g = [i \in 0..m |-> g[i]]
          /\ g[m] = step[m][f[m - 1]] /\ \A i \in 0..(m - 1) : g[i] = f[i]
        BY <2>3
    <2> HIDE DEF g
    <2>b. g[m] = step[m][f[m - 1]] /\ \A i \in 0..(m - 1) : g[i] = f[i]
        BY <2>4
    <2>c. m \in Nat \ {0}
        BY <2>3
    <2>d. /\ \A i \in 0..m : i = m \/ i \in 0..(m - 1)
          /\ \A i \in 1..m : (i = m \/ i \in 1..(m - 1)) /\ i - 1 \in 0..(m - 1)
        BY <2>c
    <2>5. \A i \in 0..m : g[i] \in T[i]
        BY <2>a, <2>b, <2>3, <2>d
    <2>6. \A i \in 1..m : g[i] = step[i][g[i - 1]]
        BY <2>a, <2>b, <2>3, <2>d
    <2>7. g[0] = base
        BY <2>a, <2>b, <2>3, <2>d
    <2>8. Good(m)
        BY <2>4, <2>5, <2>6, <2>7 DEF Good, Walk
    <2> QED BY <1>0, <2>8
<1> QED BY <1>2, <1>3
=============================================================================
