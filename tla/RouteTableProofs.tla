-------------------------- MODULE RouteTableProofs --------------------------
(***************************************************************************)
(* Proofs about RouteTable, for any rules and paths: what its loops        *)
(* compute, and that Match picks the backend that the reference definition *)
(* selects, which has no scores, strings or loops.                         *)
(***************************************************************************)
EXTENDS RouteTable, WellFoundedInduction, FiniteSetTheorems, TLAPS

----------------------------------------------------------------------------
(***************************************************************************)
(* Loops that keep some elements of a list: Kept.                          *)
(***************************************************************************)
Before == OpToRel(<, Nat)

\* A set of numbers that is not empty has a least element: induction over data is
\* done with a least counterexample.
LEMMA LeastElement ==
  ASSUME NEW T, T \subseteq Nat, T # {}
  PROVE  \E m \in T : \A n \in T : m <= n
<1>1. IsWellFoundedOn(Before, Nat)
  BY NatLessThanWellFounded DEF Before
<1>2. PICK m \in T : \A n \in T : ~(<<n, m>> \in Before)
  BY <1>1, WFMin
<1>3. \A a, b \in Nat : a < b => <<a, b>> \in Before
  BY DEF OpToRel, Before
<1>4. ASSUME NEW n \in T PROVE m <= n
  <2>1. ~(n < m)
    BY <1>2, <1>3, <1>4
  <2> QED BY <2>1
<1> QED BY <1>4

\* f lists the set I in ascending order.
Enumerates(f, I) ==
  /\ f \in [1 .. Cardinality(I) -> I]
  /\ \A a, b \in DOMAIN f : a < b => f[a] < f[b]

\* The positions of a sequence can be put in their order.
LEMMA AscendingExists ==
  ASSUME NEW n \in Nat, NEW I, I \subseteq 1 .. n
  PROVE  \E f : Enumerates(f, I)
<1> DEFINE Bad == {m \in Nat : \E J \in SUBSET (1 .. m) : ~\E f : Enumerates(f, J)}
<1>1. SUFFICES Bad = {}
  BY <1>1
<1>2. SUFFICES ASSUME Bad # {} PROVE FALSE
  OBVIOUS
<1>3. PICK m \in Bad : \A k \in Bad : m <= k
  <2>1. Bad \subseteq Nat
    OBVIOUS
  <2> HIDE DEF Bad
  <2> QED BY <1>2, <2>1, LeastElement
<1>4. PICK J \in SUBSET (1 .. m) : ~\E f : Enumerates(f, J)
  BY <1>3
<1>5. m \in Nat /\ J \subseteq 1 .. m
  BY <1>3, <1>4
<1>6. \A k \in Nat : k < m => \A K \in SUBSET (1 .. k) : \E f : Enumerates(f, K)
  <2> SUFFICES ASSUME NEW k \in Nat, k < m, NEW K \in SUBSET (1 .. k)
               PROVE  \E f : Enumerates(f, K)
    OBVIOUS
  <2>1. k \notin Bad
    <3> HIDE DEF Bad
    <3> QED BY <1>3, <1>5
  <2> QED BY <2>1
<1>7. m # 0
  <2>1. SUFFICES ASSUME m = 0 PROVE FALSE
    OBVIOUS
  <2>2. J = {}
    BY <2>1, <1>5
  <2>3. Cardinality(J) = 0
    BY <2>2, FS_EmptySet
  <2>4. Enumerates([k \in 1 .. 0 |-> k], J)
    BY <2>2, <2>3 DEF Enumerates
  <2> QED BY <2>4, <1>4
<1>8. m \in J
  <2>1. SUFFICES ASSUME m \notin J PROVE FALSE
    OBVIOUS
  <2>2. J \in SUBSET (1 .. (m - 1))
    BY <2>1, <1>5, <1>7
  <2> QED BY <2>2, <1>4, <1>5, <1>6, <1>7
<1> DEFINE K == J \ {m}
<1>9. K \in SUBSET (1 .. (m - 1))
  BY <1>5, <1>7
<1>10. PICK f : Enumerates(f, K)
  BY <1>5, <1>6, <1>7, <1>9
<1>11. IsFiniteSet(J)
  <2>1. IsFiniteSet(1 .. m)
    BY <1>5, FS_Interval
  <2> QED BY <1>5, <2>1, FS_Subset
<1>12. /\ Cardinality(K) \in Nat
       /\ Cardinality(J) = Cardinality(K) + 1
  BY <1>8, <1>11, FS_RemoveElement, FS_CardinalityType, FS_Subset
<1> DEFINE c == Cardinality(J)
           g == [k \in 1 .. c |-> IF k = c THEN m ELSE f[k]]
<1>13. f \in [1 .. (c - 1) -> K] /\ \A a, b \in 1 .. (c - 1) : a < b => f[a] < f[b]
  <2>1. c - 1 = Cardinality(K)
    BY <1>12
  <2>2. f \in [1 .. (c - 1) -> K]
    BY <1>10, <2>1 DEF Enumerates
  <2> HIDE DEF c, K
  <2> QED BY <1>10, <2>2 DEF Enumerates
<1>14. c \in Nat /\ c # 0
  BY <1>12
<1>15. \A k \in 1 .. c : g[k] = IF k = c THEN m ELSE f[k]
  OBVIOUS
<1>16. \A k \in 1 .. (c - 1) : f[k] \in J /\ f[k] < m
  <2> SUFFICES ASSUME NEW k \in 1 .. (c - 1) PROVE f[k] \in J /\ f[k] < m
    OBVIOUS
  <2>1. f[k] \in K
    <3> HIDE DEF c, K
    <3> QED BY <1>13
  <2>2. f[k] \in J /\ f[k] \in 1 .. (m - 1)
    BY <1>9, <2>1
  <2> QED BY <1>5, <2>2
<1>17. g \in [1 .. c -> J]
  <2> HIDE DEF c, K
  <2> QED BY <1>8, <1>14, <1>16
<1>18. \A a, b \in 1 .. c : a < b => g[a] < g[b]
  <2> HIDE DEF c, K, g
  <2> SUFFICES ASSUME NEW a \in 1 .. c, NEW b \in 1 .. c, a < b PROVE g[a] < g[b]
    OBVIOUS
  <2>1. a \in 1 .. (c - 1) /\ g[a] = f[a]
    BY <1>14, <1>15
  <2>2. CASE b = c
    BY <2>1, <2>2, <1>15, <1>16
  <2>3. CASE b # c
    <3>1. b \in 1 .. (c - 1) /\ g[b] = f[b]
      BY <2>3, <1>14, <1>15
    <3> QED BY <2>1, <3>1, <1>13
  <2> QED BY <2>2, <2>3
<1>19. Enumerates(g, J)
  BY <1>17, <1>18 DEF Enumerates
<1> QED BY <1>19, <1>4

\* The size of an interval.
LEMMA IntervalSize ==
  ASSUME NEW n \in Nat
  PROVE  Cardinality(1 .. n) = n
<1>1. Cardinality(1 .. n) = IF 1 > n THEN 0 ELSE n - 1 + 1
  BY FS_Interval
<1> QED BY <1>1

\* What Kept returns: a sequence of the elements at the positions, all of them
\* and as many as there are positions.
LEMMA KeptIsSelection ==
  ASSUME NEW S, NEW s \in Seq(S), NEW I, I \subseteq DOMAIN s
  PROVE  /\ Kept(s, I) \in Seq(S)
         /\ \A k \in DOMAIN Kept(s, I) : \E i \in I : Kept(s, I)[k] = s[i]
         /\ \A i \in I : \E k \in DOMAIN Kept(s, I) : Kept(s, I)[k] = s[i]
         /\ Kept(s, I) = <<>> => I = {}
         /\ Len(Kept(s, I)) = Cardinality(I)
<1>1. Len(s) \in Nat /\ I \subseteq 1 .. Len(s)
  OBVIOUS
<1>2. \E f : Enumerates(f, I)
  BY <1>1, AscendingExists
<1>3. Enumerates(Ascending(I), I)
  BY <1>2, Zenon DEF Ascending, Enumerates
<1> DEFINE at == Ascending(I)
<1>4. IsFiniteSet(I)
  BY <1>1, FS_Interval, FS_Subset
<1>5. Cardinality(I) \in Nat /\ (Cardinality(I) = 0 <=> I = {})
  BY <1>4, FS_CardinalityType, FS_EmptySet
<1>6. at \in [1 .. Cardinality(I) -> I]
  BY <1>3 DEF Enumerates
<1>6a. \A i \in I : \E k \in 1 .. Cardinality(I) : at[k] = i
  <2> DEFINE c == Cardinality(I)
  <2>1. \A a, b \in 1 .. c : a < b => at[a] < at[b]
    BY <1>3, <1>6 DEF Enumerates
  <2>2. \A a \in 1 .. c : at[a] \in Nat
    BY <1>1, <1>6
  <2> HIDE DEF at, c
  <2>3. \A a, b \in 1 .. c : at[a] = at[b] => a = b
    <3> SUFFICES ASSUME NEW a \in 1 .. c, NEW b \in 1 .. c, at[a] = at[b], a # b
                 PROVE  FALSE
      OBVIOUS
    <3>1. a < b \/ b < a
      BY <1>5 DEF c
    <3> QED BY <2>1, <2>2, <3>1
  <2>4. at \in Injection(1 .. c, I)
    BY <1>6, <2>3 DEF Injection, IsInjective, c
  <2>5. Cardinality(1 .. c) = Cardinality(I)
    BY <1>5, IntervalSize DEF c
  <2>6. at \in Surjection(1 .. c, I)
    BY <1>4, <2>4, <2>5, FS_Injection
  <2> QED BY <2>6 DEF Surjection, c
<1>7. Kept(s, I) = [k \in 1 .. Cardinality(I) |-> s[at[k]]]
  BY <1>6 DEF Kept
<1> HIDE DEF at
<1>8. \A k \in 1 .. Cardinality(I) : at[k] \in I /\ s[at[k]] \in S
  BY <1>6
<1>9. Kept(s, I) \in Seq(S) /\ Len(Kept(s, I)) = Cardinality(I)
  BY <1>5, <1>7, <1>8
<1>10. \A i \in I : \E k \in DOMAIN Kept(s, I) : Kept(s, I)[k] = s[i]
  <2> SUFFICES ASSUME NEW i \in I PROVE \E k \in DOMAIN Kept(s, I) : Kept(s, I)[k] = s[i]
    OBVIOUS
  <2>1. PICK k \in 1 .. Cardinality(I) : at[k] = i
    BY <1>6a
  <2>2. k \in DOMAIN Kept(s, I) /\ Kept(s, I)[k] = s[i]
    BY <1>7, <2>1
  <2> QED BY <2>2
<1> QED BY <1>5, <1>7, <1>8, <1>9, <1>10

----------------------------------------------------------------------------
\* Only the identity enumerates an interval.
LEMMA AscendingInterval ==
  ASSUME NEW n \in Nat, NEW f, Enumerates(f, 1 .. n)
  PROVE  \A k \in 1 .. n : f[k] = k
<1>1. /\ f \in [1 .. n -> 1 .. n]
      /\ \A a, b \in 1 .. n : a < b => f[a] < f[b]
  <2>1. Cardinality(1 .. n) = n
    BY IntervalSize
  <2> QED BY <2>1 DEF Enumerates
<1>2. \A k \in 1 .. n : f[k] >= k
  <2> DEFINE Low == {k \in 1 .. n : f[k] < k}
  <2> SUFFICES ASSUME Low # {} PROVE FALSE
    BY <1>1
  <2>1. PICK m \in Low : \A k \in Low : m <= k
    <3>1. Low \subseteq Nat
      OBVIOUS
    <3> HIDE DEF Low
    <3> QED BY <3>1, LeastElement
  <2>2. m \in 1 .. n /\ f[m] < m /\ f[m] \in 1 .. n
    BY <1>1, <2>1
  <2>3. m - 1 \in 1 .. n /\ m - 1 < m
    BY <2>2
  <2>4. f[m - 1] < f[m] /\ f[m - 1] \in 1 .. n
    BY <1>1, <2>2, <2>3
  <2>5. m - 1 \in Low
    BY <2>2, <2>3, <2>4
  <2> QED BY <2>1, <2>2, <2>3, <2>5
<1>3. \A k \in 1 .. n : f[k] <= k
  <2> DEFINE High == {d \in 0 .. (n - 1) : f[n - d] > n - d}
  <2>0. SUFFICES ASSUME High # {} PROVE FALSE
    <3> SUFFICES ASSUME NEW k \in 1 .. n, ~(f[k] <= k) PROVE FALSE
      OBVIOUS
    <3>1. n - k \in 0 .. (n - 1) /\ n - (n - k) = k /\ f[k] \in 1 .. n
      BY <1>1
    <3>2. f[n - (n - k)] = f[k] /\ f[k] > k
      BY <3>1
    <3>3. n - k \in High
      BY <3>1, <3>2
    <3> QED BY <3>3, <2>0
  <2>1. PICK d \in High : \A k \in High : d <= k
    <3>1. High \subseteq Nat
      OBVIOUS
    <3> HIDE DEF High
    <3> QED BY <2>0, <3>1, LeastElement
  <2>2. d \in 0 .. (n - 1) /\ n - d \in 1 .. n /\ f[n - d] > n - d
    BY <2>1
  <2>3. f[n - d] \in 1 .. n
    BY <1>1, <2>2
  <2>4. d # 0
    BY <2>2, <2>3
  <2>5. /\ d - 1 \in 0 .. (n - 1) /\ n - (d - 1) \in 1 .. n
        /\ n - (d - 1) = n - d + 1 /\ n - d < n - (d - 1)
    BY <2>2, <2>4
  <2>6. f[n - d] < f[n - (d - 1)] /\ f[n - (d - 1)] \in 1 .. n
    BY <1>1, <2>2, <2>5
  <2>7. d - 1 \in High
    BY <2>2, <2>3, <2>5, <2>6
  <2> QED BY <2>1, <2>2, <2>7
<1> QED
  <2> SUFFICES ASSUME NEW k \in 1 .. n PROVE f[k] = k
    OBVIOUS
  <2> QED BY <1>1, <1>2, <1>3

\* A sequence of some things is a sequence of more.
LEMMA SeqOfRange ==
  ASSUME NEW q, NEW S, q \in Seq(Range(q)), Range(q) \subseteq S
  PROVE  q \in Seq(S)
<1>1. \A i \in 1 .. Len(q) : q[i] \in S
  BY DEF Range
<1> QED BY <1>1

----------------------------------------------------------------------------
(***************************************************************************)
(* Lists put one after another: FlattenSeq.                                *)
(***************************************************************************)

\* f lists what the first lists of q make together.
Accumulates(f, q) ==
  f = [i \in 1 .. Len(q) |-> IF i = 1 THEN q[i] ELSE f[i - 1] \o q[i]]

\* FlattenSeq is the last of them.
LEMMA FlattenIsLast ==
  ASSUME NEW q, Len(q) # 0
  PROVE  FlattenSeq(q) = (CHOOSE f : Accumulates(f, q))[Len(q)]
BY DEF FlattenSeq, Accumulates

\* There is such a list.
LEMMA AccumulationExists ==
  ASSUME NEW q, Len(q) \in Nat
  PROVE  \E f : Accumulates(f, q)
<1> DEFINE P(n) == \E f : f = [i \in 1 .. n |-> IF i = 1 THEN q[i] ELSE f[i - 1] \o q[i]]
           T == {n \in Nat : ~P(n)}
<1>1. P(0)
  <2>1. \A f : 1 .. 0 = {} /\ f = [i \in {} |-> f[i]] =>
          f = [i \in 1 .. 0 |-> IF i = 1 THEN q[i] ELSE f[i - 1] \o q[i]]
    OBVIOUS
  <2> QED BY <2>1
<1>2. ASSUME NEW n \in Nat, n # 0, P(n - 1) PROVE P(n)
  <2>1. PICK f : f = [i \in 1 .. (n - 1) |-> IF i = 1 THEN q[i] ELSE f[i - 1] \o q[i]]
    BY <1>2
  <2> DEFINE g == [i \in 1 .. n |-> IF i < n THEN f[i]
                                    ELSE IF i = 1 THEN q[i] ELSE f[i - 1] \o q[i]]
  <2>2. \A i \in 1 .. n : g[i] = IF i = 1 THEN q[i] ELSE g[i - 1] \o q[i]
    <3> SUFFICES ASSUME NEW i \in 1 .. n
                 PROVE  g[i] = IF i = 1 THEN q[i] ELSE g[i - 1] \o q[i]
      OBVIOUS
    <3>1. i # 1 => i - 1 \in 1 .. n /\ i - 1 < n
      OBVIOUS
    <3>2. i # 1 => g[i - 1] = f[i - 1]
      BY <3>1
    <3>3. CASE i < n
      <4>1. i \in 1 .. (n - 1)
        BY <3>3
      <4>2. f[i] = IF i = 1 THEN q[i] ELSE f[i - 1] \o q[i]
        BY <2>1, <4>1
      <4> QED BY <3>2, <3>3, <4>2
    <3>4. CASE ~(i < n)
      BY <3>2, <3>4
    <3> QED BY <3>3, <3>4
  <2>3. g = [i \in 1 .. n |-> g[i]]
    OBVIOUS
  <2> HIDE DEF g
  <2>4. g = [i \in 1 .. n |-> IF i = 1 THEN q[i] ELSE g[i - 1] \o q[i]]
    BY <2>2, <2>3
  <2> QED BY <2>4
<1> HIDE DEF P
<1>3. T = {}
  <2> SUFFICES ASSUME T # {} PROVE FALSE
    OBVIOUS
  <2>1. PICK m \in T : \A n \in T : m <= n
    BY LeastElement
  <2>2. m \in Nat /\ m # 0
    BY <1>1
  <2>3. m - 1 \in Nat /\ ~(m <= m - 1)
    BY <2>2
  <2>4. P(m - 1)
    BY <2>1, <2>3
  <2> QED BY <1>2, <2>2, <2>4
<1>4. P(Len(q))
  BY <1>3
<1> QED BY <1>4 DEF P, Accumulates

\* What FlattenSeq returns: a sequence of the elements of all lists.
LEMMA FlattenedElements ==
  ASSUME NEW S, NEW q \in Seq(Seq(S))
  PROVE  /\ FlattenSeq(q) \in Seq(S)
         /\ \A i \in DOMAIN q : \A k \in DOMAIN q[i] :
              \E j \in DOMAIN FlattenSeq(q) : FlattenSeq(q)[j] = q[i][k]
<1>1. CASE Len(q) = 0
  <2>1. q = <<>>
    BY <1>1
  <2>2. FlattenSeq(q) = q
    BY <1>1 DEF FlattenSeq
  <2>3. q \in Seq(S) /\ DOMAIN q = {}
    BY <2>1
  <2> QED BY <2>2, <2>3
<1>2. CASE Len(q) # 0
  <2> DEFINE f == CHOOSE f : Accumulates(f, q)
             Has(n) == /\ f[n] \in Seq(S)
                       /\ \A i \in 1 .. n : \A k \in DOMAIN q[i] :
                            \E j \in DOMAIN f[n] : f[n][j] = q[i][k]
             T == {n \in 1 .. Len(q) : ~Has(n)}
  <2>1. Len(q) \in Nat /\ \A i \in 1 .. Len(q) : q[i] \in Seq(S)
    OBVIOUS
  <2>2. Accumulates(f, q)
    BY <2>1, AccumulationExists
  <2>3. FlattenSeq(q) = f[Len(q)]
    BY <1>2, FlattenIsLast
  <2> HIDE DEF f
  <2>4. \A i \in 1 .. Len(q) : f[i] = IF i = 1 THEN q[i] ELSE f[i - 1] \o q[i]
    BY <2>2 DEF Accumulates
  <2>5. Has(1)
    <3>1. 1 \in 1 .. Len(q)
      BY <1>2, <2>1
    <3>2. f[1] = q[1] /\ q[1] \in Seq(S)
      BY <2>1, <2>4, <3>1
    <3>3. \A i \in 1 .. 1 : i = 1
      OBVIOUS
    <3> QED BY <3>2, <3>3
  <2>6. ASSUME NEW n \in 1 .. Len(q), n # 1, Has(n - 1) PROVE Has(n)
    <3>1. n - 1 \in 1 .. Len(q) /\ \A i \in 1 .. n : i = n \/ i \in 1 .. (n - 1)
      BY <2>1, <2>6
    <3>2. f[n] = f[n - 1] \o q[n]
      BY <2>4, <2>6
    <3> DEFINE a == f[n - 1]
               b == q[n]
    <3>3. a \in Seq(S) /\ b \in Seq(S)
      BY <2>1, <2>6
    <3>4. /\ a \o b \in Seq(S)
          /\ \A k \in DOMAIN a : k \in DOMAIN (a \o b) /\ (a \o b)[k] = a[k]
          /\ \A k \in DOMAIN b : Len(a) + k \in DOMAIN (a \o b) /\ (a \o b)[Len(a) + k] = b[k]
      <4> HIDE DEF a, b
      <4>1. /\ a \o b \in Seq(S) /\ Len(a) \in Nat /\ Len(b) \in Nat
            /\ DOMAIN a = 1 .. Len(a) /\ DOMAIN b = 1 .. Len(b)
            /\ DOMAIN (a \o b) = 1 .. (Len(a) + Len(b))
        BY <3>3
      <4>2. ASSUME NEW k \in DOMAIN a PROVE k \in DOMAIN (a \o b) /\ (a \o b)[k] = a[k]
        BY <3>3, <4>1
      <4>3. ASSUME NEW k \in DOMAIN b
            PROVE  Len(a) + k \in DOMAIN (a \o b) /\ (a \o b)[Len(a) + k] = b[k]
        BY <3>3, <4>1
      <4> QED BY <4>1, <4>2, <4>3
    <3>5. ASSUME NEW i \in 1 .. n, NEW k \in DOMAIN q[i]
          PROVE  \E j \in DOMAIN f[n] : f[n][j] = q[i][k]
      <4>1. CASE i = n
        BY <3>2, <3>4, <4>1
      <4>2. CASE i \in 1 .. (n - 1)
        <5>1. PICK j \in DOMAIN a : a[j] = q[i][k]
          BY <2>6, <4>2
        <5> QED BY <3>2, <3>4, <5>1
      <4> QED BY <3>1, <4>1, <4>2
    <3> QED BY <3>2, <3>4, <3>5
  <2> HIDE DEF Has
  <2>7. T = {}
    <3> SUFFICES ASSUME T # {} PROVE FALSE
      OBVIOUS
    <3>0. T \subseteq Nat
      BY <2>1
    <3>1. PICK m \in T : \A n \in T : m <= n
      BY <3>0, LeastElement
    <3>2. m \in 1 .. Len(q) /\ m # 1
      BY <2>5
    <3>3. m - 1 \in 1 .. Len(q) /\ ~(m <= m - 1)
      BY <2>1, <3>2
    <3>4. Has(m - 1)
      BY <3>1, <3>3
    <3> QED BY <2>6, <3>2, <3>4
  <2>8. Has(Len(q))
    <3>1. Len(q) \in 1 .. Len(q)
      BY <1>2, <2>1
    <3> QED BY <2>7, <3>1
  <2>9. DOMAIN q = 1 .. Len(q)
    OBVIOUS
  <2> QED BY <2>3, <2>8, <2>9 DEF Has
<1> QED BY <1>1, <1>2

----------------------------------------------------------------------------
(***************************************************************************)
(* Folds: FoldLeft takes the greatest position of a set of positions last. *)
(***************************************************************************)

\* Induction up to a bound.
LEMMA UpTo ==
  ASSUME NEW n \in Nat, NEW T, 0 \in T, \A k \in 1 .. n : k - 1 \in T => k \in T
  PROVE  \A k \in 0 .. n : k \in T
<1> DEFINE U == {k \in 0 .. n : k \notin T}
<1> SUFFICES ASSUME U # {} PROVE FALSE
  OBVIOUS
<1>1. U \subseteq Nat
  OBVIOUS
<1>2. PICK m \in U : \A k \in U : m <= k
  BY <1>1, LeastElement
<1>3. m \in 1 .. n
  OBVIOUS
<1>4. m - 1 \in 0 .. n /\ ~(m <= m - 1)
  BY <1>3
<1>5. m - 1 \in T
  BY <1>2, <1>4
<1> QED BY <1>2, <1>3, <1>5

\* A bounded set of numbers that is not empty has a greatest element.
LEMMA GreatestElement ==
  ASSUME NEW n \in Nat, NEW T, T \subseteq 1 .. n, T # {}
  PROVE  \E m \in T : \A k \in T : k <= m
<1> DEFINE U == {n - k : k \in T}
<1>1. U \subseteq Nat /\ U # {}
  <2>1. \A k \in T : n - k \in Nat
    OBVIOUS
  <2> QED BY <2>1
<1>2. PICK u \in U : \A v \in U : u <= v
  BY <1>1, LeastElement
<1>3. PICK m \in T : u = n - m
  BY <1>2
<1>4. ASSUME NEW k \in T PROVE k <= m
  <2>1. n - m <= n - k
    BY <1>2, <1>3
  <2> QED BY <2>1
<1> QED BY <1>4

\* The greatest element.
LEMMA MaxIs ==
  ASSUME NEW s, s \subseteq Int, NEW m \in s, \A k \in s : k <= m
  PROVE  Max(s) = m
<1>1. \A k \in s : m >= k
  OBVIOUS
<1>2. \E x \in s : \A y \in s : x >= y
  BY <1>1
<1>3. Max(s) \in s /\ \A y \in s : Max(s) >= y
  BY <1>2 DEF Max
<1>4. Max(s) \in Int /\ m \in Int /\ Max(s) <= m /\ Max(s) >= m
  BY <1>3
<1> QED BY <1>4

\* Every set of positions has one.
LEMMA MaxExists ==
  ASSUME NEW n \in Nat, NEW s \in SUBSET (1 .. n), s # {}
  PROVE  Max(s) \in s
<1>1. PICK m \in s : \A k \in s : k <= m
  BY GreatestElement
<1>2. s \subseteq Int
  OBVIOUS
<1> QED BY <1>1, <1>2, MaxIs

\* The positions up to k without the last.
LEMMA IntervalTop ==
  ASSUME NEW n \in Nat, NEW k \in 1 .. n
  PROVE  /\ 1 .. k \in SUBSET (1 .. n) /\ 1 .. k # {} /\ Max(1 .. k) = k
         /\ (1 .. k) \ {k} = 1 .. (k - 1)
<1>1. k \in 1 .. k /\ 1 .. k \subseteq Int /\ \A i \in 1 .. k : i <= k
  OBVIOUS
<1>2. Max(1 .. k) = k
  BY <1>1, MaxIs
<1>3. (1 .. k) \ {k} = 1 .. (k - 1)
  OBVIOUS
<1> QED BY <1>1, <1>2, <1>3

\* g is the fold with the step op on the values D, for every set of positions.
Folds(g, n, D, base, op) ==
  /\ g \in [SUBSET (1 .. n) -> D]
  /\ \A s \in SUBSET (1 .. n) :
       g[s] = IF s = {} THEN base ELSE op[<<g[s \ {Max(s)}], Max(s)>>]

\* There is one.
LEMMA FoldExists ==
  ASSUME NEW n \in Nat, NEW D, NEW base \in D, NEW op \in [D \X (1 .. n) -> D]
  PROVE  \E g : Folds(g, n, D, base, op)
<1> DEFINE P(m) == \E g \in [SUBSET (1 .. m) -> D] : \A s \in SUBSET (1 .. m) :
                     g[s] = IF s = {} THEN base ELSE op[<<g[s \ {Max(s)}], Max(s)>>]
           T == {m \in 0 .. n : P(m)}
<1>1. P(0)
  <2> DEFINE g == [s \in SUBSET (1 .. 0) |-> base]
  <2>1. \A s \in SUBSET (1 .. 0) : s = {}
    OBVIOUS
  <2>2. g \in [SUBSET (1 .. 0) -> D] /\ \A s \in SUBSET (1 .. 0) : g[s] = base
    OBVIOUS
  <2> HIDE DEF g
  <2> QED BY <2>1, <2>2
<1>2. ASSUME NEW m \in 1 .. n, P(m - 1) PROVE P(m)
  <2>1. PICK g \in [SUBSET (1 .. (m - 1)) -> D] : \A s \in SUBSET (1 .. (m - 1)) :
          g[s] = IF s = {} THEN base ELSE op[<<g[s \ {Max(s)}], Max(s)>>]
    BY <1>2
  <2> DEFINE h == [s \in SUBSET (1 .. m) |-> IF m \in s THEN op[<<g[s \ {m}], m>>] ELSE g[s]]
  <2>2. \A s \in SUBSET (1 .. m) : s \ {m} \in SUBSET (1 .. (m - 1))
    OBVIOUS
  <2>3. \A s \in SUBSET (1 .. m) : m \notin s => s \in SUBSET (1 .. (m - 1))
    OBVIOUS
  <2>4. \A s \in SUBSET (1 .. m) : h[s] = IF m \in s THEN op[<<g[s \ {m}], m>>] ELSE g[s]
    OBVIOUS
  <2>5. h \in [SUBSET (1 .. m) -> D]
    <3>1. \A s \in SUBSET (1 .. m) : m \in s => op[<<g[s \ {m}], m>>] \in D
      BY <2>2
    <3>2. \A s \in SUBSET (1 .. m) : m \notin s => g[s] \in D
      BY <2>3
    <3> QED BY <3>1, <3>2
  <2> HIDE DEF h
  <2>6. ASSUME NEW s \in SUBSET (1 .. m)
        PROVE  h[s] = IF s = {} THEN base ELSE op[<<h[s \ {Max(s)}], Max(s)>>]
    <3>1. CASE m \in s
      <4>1. Max(s) = m
        <5>1. s \subseteq Int /\ \A k \in s : k <= m
          OBVIOUS
        <5> QED BY <3>1, <5>1, MaxIs
      <4>2. s \ {m} \in SUBSET (1 .. m) /\ m \notin s \ {m}
        OBVIOUS
      <4>3. h[s \ {m}] = g[s \ {m}]
        BY <2>4, <4>2
      <4> QED BY <2>4, <3>1, <4>1, <4>3
    <3>2. CASE m \notin s
      <4>1. s \in SUBSET (1 .. (m - 1)) /\ h[s] = g[s]
        BY <2>3, <2>4, <3>2
      <4>2. s \ {Max(s)} \in SUBSET (1 .. m) /\ m \notin s \ {Max(s)}
        BY <3>2
      <4>3. h[s \ {Max(s)}] = g[s \ {Max(s)}]
        BY <2>4, <4>2
      <4> QED BY <2>1, <4>1, <4>3
    <3> QED BY <3>1, <3>2
  <2> QED BY <2>5, <2>6
<1> HIDE DEF P
<1>3. 0 \in T /\ \A m \in 1 .. n : m - 1 \in T => m \in T
  BY <1>1, <1>2
<1>4. n \in T
  <2> HIDE DEF T
  <2>1. n \in 0 .. n
    OBVIOUS
  <2> QED BY <1>3, <2>1, UpTo
<1> QED BY <1>4 DEF P, Folds

----------------------------------------------------------------------------
(***************************************************************************)
(* The length of a path.                                                   *)
(***************************************************************************)
\* StringLength adds up the elements, with a slash each.
LEMMA LengthSums ==
  ASSUME NEW v \in Seq(DOMAIN Length)
  PROVE  \E t \in [0 .. Len(v) -> Nat] :
           /\ t[0] = 0
           /\ \A k \in 1 .. Len(v) : t[k] = t[k - 1] + 1 + Length[v[k]]
           /\ StringLength(v) = t[Len(v)]
<1> DEFINE n == Len(v)
           Sums(f) == f = [s \in SUBSET DOMAIN v |->
                             IF s = {} THEN 0 ELSE f[s \ {Max(s)}] + 1 + Length[v[Max(s)]]]
           F == CHOOSE f : Sums(f)
           op == [x \in Nat \X (1 .. n) |-> x[1] + 1 + Length[v[x[2]]]]
<1>1. n \in Nat /\ DOMAIN v = 1 .. n /\ \A k \in 1 .. n : Length[v[k]] \in Nat
  <2>1. n \in Nat /\ DOMAIN v = 1 .. n /\ \A k \in 1 .. n : v[k] \in DOMAIN Length
    OBVIOUS
  <2> QED BY <2>1, LengthAssumption
<1>2. StringLength(v) = F[DOMAIN v]
  BY DEF StringLength, FoldLeft, MapThenFoldSet
<1>3. \E f : Sums(f)
  <2>1. op \in [Nat \X (1 .. n) -> Nat]
    BY <1>1
  <2>2. \A d \in Nat, k \in 1 .. n : op[<<d, k>>] = d + 1 + Length[v[k]]
    OBVIOUS
  <2> HIDE DEF op
  <2>3. PICK g : Folds(g, n, Nat, 0, op)
    <3> HIDE DEF n
    <3> QED BY <1>1, <2>1, FoldExists
  <2>4. ASSUME NEW s \in SUBSET (1 .. n)
        PROVE  g[s] = IF s = {} THEN 0 ELSE g[s \ {Max(s)}] + 1 + Length[v[Max(s)]]
    <3>1. CASE s = {}
      BY <2>3, <3>1 DEF Folds
    <3>2. CASE s # {}
      <4>1. Max(s) \in 1 .. n
        BY <1>1, <3>2, MaxExists
      <4>2. g[s \ {Max(s)}] \in Nat
        BY <2>3 DEF Folds
      <4> QED BY <2>2, <2>3, <3>2, <4>1, <4>2 DEF Folds
    <3> QED BY <3>1, <3>2
  <2>5. g = [s \in SUBSET (1 .. n) |-> g[s]]
    BY <2>3 DEF Folds
  <2>6. Sums(g)
    BY <1>1, <2>4, <2>5
  <2> QED BY <2>6
<1>4. Sums(F)
  <2> HIDE DEF Sums
  <2> QED BY <1>3
<1>5. \A s \in SUBSET (1 .. n) :
        F[s] = IF s = {} THEN 0 ELSE F[s \ {Max(s)}] + 1 + Length[v[Max(s)]]
  BY <1>1, <1>4
<1> HIDE DEF F, Sums, op
<1> DEFINE t == [k \in 0 .. n |-> F[1 .. k]]
           T == {k \in 0 .. n : t[k] \in Nat}
<1>6. t[0] = 0
  <2>1. 1 .. 0 = {} /\ {} \in SUBSET (1 .. n) /\ 0 \in 0 .. n
    BY <1>1
  <2> QED BY <1>5, <2>1
<1>7. ASSUME NEW k \in 1 .. n PROVE t[k] = t[k - 1] + 1 + Length[v[k]]
  <2>1. /\ 1 .. k \in SUBSET (1 .. n) /\ 1 .. k # {} /\ Max(1 .. k) = k
        /\ (1 .. k) \ {k} = 1 .. (k - 1)
    <3> HIDE DEF n
    <3> QED BY <1>1, IntervalTop
  <2>2. k \in 0 .. n /\ k - 1 \in 0 .. n
    BY <1>1
  <2>3. F[1 .. k] = F[1 .. (k - 1)] + 1 + Length[v[k]]
    BY <1>5, <2>1
  <2> QED BY <2>2, <2>3
<1>8. \A k \in 0 .. n : t[k] \in Nat
  <2>1. 0 \in T /\ \A k \in 1 .. n : k - 1 \in T => k \in T
    <3> HIDE DEF t, n
    <3> QED BY <1>1, <1>6, <1>7
  <2>2. \A k \in 0 .. n : k \in T
    <3> HIDE DEF T, n
    <3> QED BY <1>1, <2>1, UpTo
  <2> QED BY <2>2
<1>9. t \in [0 .. n -> Nat] /\ n \in 0 .. n
  <2>1. t = [k \in 0 .. n |-> t[k]]
    OBVIOUS
  <2> QED BY <1>1, <1>8, <2>1
<1>10. StringLength(v) = t[n]
  BY <1>1, <1>2, <1>9
<1> HIDE DEF t
<1> QED BY <1>6, <1>7, <1>9, <1>10

\* A path that goes on is longer by at least the slashes it adds.
LEMMA LongerPath ==
  ASSUME NEW u \in Seq(DOMAIN Length), NEW v \in Seq(DOMAIN Length), Len(u) <= Len(v),
         \A i \in 1 .. Len(u) : u[i] = v[i]
  PROVE  /\ StringLength(u) \in Nat /\ StringLength(v) \in Nat
         /\ StringLength(v) >= StringLength(u) + (Len(v) - Len(u))
<1> DEFINE m == Len(u)
           n == Len(v)
<1>1. m \in Nat /\ n \in Nat /\ m <= n
  OBVIOUS
<1>2. PICK t \in [0 .. m -> Nat] :
        /\ t[0] = 0 /\ StringLength(u) = t[m]
        /\ \A k \in 1 .. m : t[k] = t[k - 1] + 1 + Length[u[k]]
  BY LengthSums
<1>3. PICK w \in [0 .. n -> Nat] :
        /\ w[0] = 0 /\ StringLength(v) = w[n]
        /\ \A k \in 1 .. n : w[k] = w[k - 1] + 1 + Length[v[k]]
  BY LengthSums
<1>4. \A k \in 1 .. n : Length[v[k]] \in Nat
  <2>1. \A k \in 1 .. n : v[k] \in DOMAIN Length
    OBVIOUS
  <2> QED BY <2>1, LengthAssumption
<1>5. \A k \in 1 .. m : u[k] = v[k] /\ k \in 1 .. n
  BY <1>1
<1> HIDE DEF m, n
<1>6. w[m] = t[m]
  <2> DEFINE T == {k \in 0 .. m : w[k] = t[k]}
  <2>0. 0 \in T
    BY <1>1, <1>2, <1>3
  <2>1. ASSUME NEW k \in 1 .. m, k - 1 \in T PROVE k \in T
    <3>1. t[k] = t[k - 1] + 1 + Length[u[k]] /\ w[k] = w[k - 1] + 1 + Length[v[k]]
      BY <1>2, <1>3, <1>5
    <3>2. w[k - 1] = t[k - 1]
      BY <2>1
    <3>3. u[k] = v[k]
      BY <1>5
    <3>4. k \in 0 .. m
      BY <1>1
    <3>5. w[k] = t[k]
      BY <3>1, <3>2, <3>3
    <3> QED BY <3>4, <3>5
  <2> HIDE DEF T
  <2>2. m \in T
    <3>1. m \in 0 .. m
      BY <1>1
    <3> QED BY <1>1, <2>0, <2>1, <3>1, UpTo
  <2> QED BY <2>2 DEF T
<1>7. w[n] >= w[m] + (n - m)
  <2> DEFINE d == n - m
             T == {k \in 0 .. d : w[m + k] >= w[m] + k}
  <2>1. d \in Nat
    BY <1>1
  <2>2. 0 \in T
    <3>1. w[m] \in Nat /\ m + 0 = m
      BY <1>1
    <3> QED BY <2>1, <3>1
  <2>3. ASSUME NEW k \in 1 .. d, k - 1 \in T PROVE k \in T
    <3>1. m + k \in 1 .. n /\ m + (k - 1) = (m + k) - 1 /\ k \in 0 .. d
      BY <1>1, <2>1
    <3>2. m + k \in 0 .. n /\ (m + k) - 1 \in 0 .. n
      BY <1>1, <3>1
    <3>3. w[m + k] = w[(m + k) - 1] + 1 + Length[v[m + k]]
      BY <1>3, <3>1
    <3>4. w[(m + k) - 1] >= w[m] + (k - 1)
      BY <2>3, <3>1
    <3>5. w[m] \in Nat /\ w[(m + k) - 1] \in Nat /\ Length[v[m + k]] \in Nat /\ k \in Int
      <4>1. m \in 0 .. n
        BY <1>1
      <4>2. w[m] \in Nat /\ w[(m + k) - 1] \in Nat
        BY <3>2, <4>1
      <4>3. Length[v[m + k]] \in Nat
        BY <1>4, <3>1
      <4>4. k \in Int
        BY <2>1
      <4> QED BY <4>2, <4>3, <4>4
    <3>6. w[m + k] >= w[m] + k
      <4> DEFINE a == w[m + k]
                 b == w[(m + k) - 1]
                 c == w[m]
                 l == Length[v[m + k]]
      <4>1. a = b + 1 + l /\ b >= c + (k - 1)
        BY <3>3, <3>4
      <4>2. b \in Nat /\ c \in Nat /\ l \in Nat /\ k \in Int
        BY <3>5
      <4> HIDE DEF a, b, c, l
      <4>3. a >= c + k
        BY <4>1, <4>2
      <4> QED BY <4>3 DEF a, c
    <3> QED BY <3>1, <3>6
  <2> HIDE DEF T
  <2>4. d \in T
    <3>1. d \in 0 .. d
      BY <2>1
    <3> HIDE DEF d
    <3> QED BY <2>1, <2>2, <2>3, <3>1, UpTo
  <2>5. m + d = n
    BY <1>1
  <2> QED BY <2>4, <2>5 DEF T
<1>8. t[m] \in Nat /\ w[n] \in Nat
  BY <1>1
<1> QED BY <1>2, <1>3, <1>6, <1>7, <1>8 DEF m, n

\* A path is a sequence that is not empty, and at least as long as its slashes.
LEMMA PathLength ==
  ASSUME NEW v \in Paths
  PROVE  /\ v \in Seq(DOMAIN Length) /\ Len(v) \in Nat /\ Len(v) # 0
         /\ v = [i \in 1 .. Len(v) |-> v[i]]
         /\ StringLength(v) \in Nat /\ StringLength(v) >= Len(v)
<1>1. v \in Seq(DOMAIN Length) /\ v # <<>>
  BY DEF Paths
<1>2. Len(v) \in Nat /\ Len(v) # 0 /\ v = [i \in 1 .. Len(v) |-> v[i]]
  BY <1>1
<1> DEFINE e == <<>>
<1>3. e \in Seq(DOMAIN Length) /\ Len(e) = 0 /\ \A i \in 1 .. Len(e) : e[i] = v[i]
  OBVIOUS
<1> HIDE DEF e
<1>4. Len(e) <= Len(v)
  BY <1>2, <1>3
<1>5. /\ StringLength(e) \in Nat /\ StringLength(v) \in Nat
      /\ StringLength(v) >= StringLength(e) + (Len(v) - Len(e))
  BY <1>1, <1>3, <1>4, LongerPath
<1>6. StringLength(v) >= Len(v)
  BY <1>2, <1>3, <1>5
<1> QED BY <1>1, <1>2, <1>5, <1>6

\* "/" is shorter than any other path.
LEMMA RootIsShortest ==
  /\ StringLength(Root) = 1
  /\ \A v \in Paths : v # Root => StringLength(v) >= 2
<1>1. "" \in DOMAIN Length
  BY LengthAssumption
<1>2. StringLength(Root) = 1
  <2>1. Root \in Seq(DOMAIN Length)
    <3>1. \A S : \A x \in S : <<x>> \in Seq(S)
      OBVIOUS
    <3> QED BY <1>1, <3>1, Zenon DEF Root
  <2>2. Len(Root) = 1
    BY DEF Root
  <2>3. PICK t \in [0 .. Len(Root) -> Nat] :
          /\ t[0] = 0 /\ StringLength(Root) = t[Len(Root)]
          /\ \A k \in 1 .. Len(Root) : t[k] = t[k - 1] + 1 + Length[Root[k]]
    BY <2>1, LengthSums
  <2>4. 1 \in 1 .. Len(Root) /\ 1 - 1 = 0
    BY <2>2
  <2>5. t[1] = t[0] + 1 + Length[Root[1]]
    BY <2>3, <2>4
  <2>6. Length[Root[1]] = 0
    <3>1. Root[1] = ""
      BY DEF Root
    <3> QED BY <1>1, <3>1, LengthAssumption
  <2>7. StringLength(Root) = t[1] /\ t[0] = 0
    BY <2>2, <2>3
  <2> QED BY <2>5, <2>6, <2>7
<1>3. ASSUME NEW v \in Paths, v # Root PROVE StringLength(v) >= 2
  <2>1. v \in Seq(DOMAIN Length) /\ Len(v) \in Nat /\ Len(v) # 0
        /\ StringLength(v) \in Nat /\ StringLength(v) >= Len(v)
    BY PathLength
  <2>2. CASE Len(v) = 1
    <3>1. v[1] # ""
      <4>1. v = <<v[1]>>
        BY <2>1, <2>2
      <4> QED BY <1>3, <4>1 DEF Root
    <3>2. v[1] \in DOMAIN Length
      BY <2>1, <2>2
    <3>3. Length[v[1]] \in Nat /\ Length[v[1]] # 0
      BY <1>3, <3>1, <3>2, LengthAssumption
    <3>4. PICK t \in [0 .. Len(v) -> Nat] :
            /\ t[0] = 0 /\ StringLength(v) = t[Len(v)]
            /\ \A k \in 1 .. Len(v) : t[k] = t[k - 1] + 1 + Length[v[k]]
      BY <2>1, LengthSums
    <3>5. 1 \in 1 .. Len(v) /\ 1 - 1 = 0
      BY <2>2
    <3>6. t[1] = t[0] + 1 + Length[v[1]]
      BY <3>4, <3>5
    <3> QED BY <2>2, <3>3, <3>4, <3>6
  <2>3. CASE Len(v) # 1
    <3> DEFINE l == Len(v)
               x == StringLength(v)
    <3>1. l \in Nat /\ l # 0 /\ l # 1 /\ x \in Nat /\ x >= l
      BY <2>1, <2>3
    <3> HIDE DEF l, x
    <3>2. x >= 2
      BY <3>1
    <3> QED BY <3>2 DEF x
  <2> QED BY <2>2, <2>3
<1> QED BY <1>2, <1>3

----------------------------------------------------------------------------
(***************************************************************************)
(* One match: pathMatches and pathScore against Applies and Precedes.      *)
(***************************************************************************)
Sound(m) == m.type \in {"Exact", "PathPrefix"} /\ m.value \in Paths

\* A path has a number of elements.
LEMMA DepthIs ==
  ASSUME NEW v \in Paths
  PROVE  /\ Depth(v) \in Nat
         /\ v = Root => Depth(v) = 0
         /\ v # Root => Depth(v) = Len(v) /\ Depth(v) # 0
BY PathLength DEF Depth

\* A prefix other than "/" that applies is the beginning of the path.
LEMMA PrefixBegins ==
  ASSUME NEW v \in Paths, NEW path \in Paths
  PROVE  /\ IsPrefix(v, path) <=> /\ Len(v) <= Len(path)
                                  /\ \A i \in 1 .. Len(v) : v[i] = path[i]
         /\ IsPrefix(v, path) <=> \/ path = v
                                  \/ Len(path) > Len(v) /\ SubSeq(path, 1, Len(v)) = v
<1> DEFINE n == Len(v)
<1>1. /\ v \in Seq(DOMAIN Length) /\ path \in Seq(DOMAIN Length)
      /\ n \in Nat /\ Len(path) \in Nat /\ n # 0
  BY DEF Paths
<1>2. SubSeq(v, 1, n) = v
  BY <1>1
<1>3. n <= Len(path) => /\ SubSeq(path, 1, n) \in Seq(DOMAIN Length)
                        /\ Len(SubSeq(path, 1, n)) = n
                        /\ \A i \in 1 .. n : SubSeq(path, 1, n)[i] = path[i]
  BY <1>1
<1>4. ASSUME n <= Len(path)
      PROVE  SubSeq(path, 1, n) = v <=> \A i \in 1 .. n : v[i] = path[i]
  <2> DEFINE p == SubSeq(path, 1, n)
  <2>1. p = v <=> \A i \in 1 .. n : p[i] = v[i]
    <3>1. p = [i \in 1 .. n |-> p[i]] /\ v = [i \in 1 .. n |-> v[i]]
      BY <1>1, <1>3, <1>4
    <3> HIDE DEF p
    <3> QED BY <3>1
  <2> QED BY <1>3, <1>4, <2>1
<1>5. IsPrefix(v, path) <=> n <= Len(path) /\ SubSeq(path, 1, n) = v
  BY <1>1, <1>2 DEF IsPrefix
<1>6. n = Len(path) => SubSeq(path, 1, n) = path
  BY <1>1
<1>7. IsPrefix(v, path) <=> (path = v \/ (Len(path) > n /\ SubSeq(path, 1, n) = v))
  <2>1. n <= Len(path) <=> n = Len(path) \/ Len(path) > n
    BY <1>1
  <2> QED BY <1>5, <1>6, <2>1
<1> QED BY <1>4, <1>5, <1>7

\* pathMatches accepts the paths to which the match applies.
LEMMA MatchesWhenApplies ==
  ASSUME NEW m, Sound(m), NEW path \in Paths
  PROVE  PathMatches(m, path) <=> Applies(m, path)
<1>1. CASE m.type = "Exact"
  BY <1>1 DEF PathMatches, Applies
<1>2. CASE m.type = "PathPrefix" /\ m.value = Root
  BY <1>2 DEF PathMatches, Applies
<1>3. CASE m.type = "PathPrefix" /\ m.value # Root
  <2>1. m.value \in Paths
    BY DEF Sound
  <2> QED BY <1>3, <2>1, PrefixBegins DEF PathMatches, Applies
<1> QED BY <1>1, <1>2, <1>3 DEF Sound

\* The length of a prefix that applies grows with its elements.
LEMMA PrefixRanks ==
  ASSUME NEW m, Sound(m), m.type = "PathPrefix", NEW n, Sound(n), n.type = "PathPrefix",
         NEW path \in Paths, Applies(m, path), Applies(n, path),
         Depth(m.value) <= Depth(n.value)
  PROVE  /\ StringLength(m.value) \in Nat /\ StringLength(n.value) \in Nat
         /\ Depth(m.value) \in Nat /\ Depth(n.value) \in Nat
         /\ IF Depth(m.value) = Depth(n.value)
            THEN StringLength(m.value) = StringLength(n.value)
            ELSE StringLength(m.value) < StringLength(n.value)
<1> DEFINE u == m.value
           v == n.value
<1>0. u \in Paths /\ v \in Paths
  BY DEF Sound
<1>1. /\ u \in Seq(DOMAIN Length) /\ v \in Seq(DOMAIN Length)
      /\ Len(u) \in Nat /\ Len(v) \in Nat /\ Len(u) # 0 /\ Len(v) # 0
      /\ u = [i \in 1 .. Len(u) |-> u[i]] /\ v = [i \in 1 .. Len(v) |-> v[i]]
      /\ StringLength(u) \in Nat /\ StringLength(v) \in Nat
  BY <1>0, PathLength
<1>2. /\ Depth(u) \in Nat /\ Depth(v) \in Nat
      /\ u = Root => Depth(u) = 0
      /\ u # Root => Depth(u) = Len(u) /\ Depth(u) # 0
      /\ v = Root => Depth(v) = 0
      /\ v # Root => Depth(v) = Len(v) /\ Depth(v) # 0
  BY <1>0, DepthIs
<1>3. StringLength(u) \in Nat /\ StringLength(v) \in Nat
  BY <1>1
<1>4. Depth(u) \in Nat /\ Depth(v) \in Nat
  BY <1>1, <1>2
<1>5. CASE u = Root /\ v = Root
  BY <1>2, <1>3, <1>4, <1>5
<1>6. CASE u = Root /\ v # Root
  <2>1. Depth(u) = 0 /\ Depth(v) # 0
    BY <1>1, <1>2, <1>6
  <2>2. StringLength(u) = 1 /\ StringLength(v) >= 2
    BY <1>0, <1>2, <1>6, RootIsShortest
  <2> QED BY <1>3, <1>4, <2>1, <2>2
<1>7. CASE u # Root /\ v = Root
  <2>1. Depth(u) # 0 /\ Depth(v) = 0 /\ Depth(u) <= Depth(v)
    BY <1>1, <1>2, <1>7
  <2> QED BY <1>4, <2>1
<1>8. CASE u # Root /\ v # Root
  <2>1. IsPrefix(u, path) /\ IsPrefix(v, path) /\ Len(u) <= Len(v)
    <3>1. (path = u \/ IsPrefix(u, path)) /\ (path = v \/ IsPrefix(v, path))
      BY <1>8 DEF Applies
    <3>2. IsPrefix(u, path) /\ IsPrefix(v, path)
      BY <1>0, <3>1, PrefixBegins
    <3> QED BY <1>2, <1>8, <3>2
  <2>2. \A i \in 1 .. Len(u) : u[i] = v[i]
    <3>1. /\ \A i \in 1 .. Len(u) : u[i] = path[i]
          /\ \A i \in 1 .. Len(v) : v[i] = path[i]
      BY <1>0, <2>1, PrefixBegins
    <3>2. \A i \in 1 .. Len(u) : i \in 1 .. Len(v)
      BY <1>1, <2>1
    <3> QED BY <3>1, <3>2
  <2>3. StringLength(v) >= StringLength(u) + (Len(v) - Len(u))
    BY <1>1, <2>1, <2>2, LongerPath
  <2>4. CASE Len(u) = Len(v)
    <3> HIDE DEF u, v
    <3>2. u = v
      BY <1>1, <2>2, <2>4
    <3> QED BY <1>2, <1>3, <1>4, <1>8, <3>2 DEF u, v
  <2>5. CASE Len(u) # Len(v)
    <3>1. StringLength(u) < StringLength(v)
      <4>1. Len(u) \in Nat /\ Len(v) \in Nat /\ Len(u) <= Len(v)
        BY <1>1, <2>1
      <4> HIDE DEF u, v
      <4> QED BY <1>3, <2>3, <2>5, <4>1
    <3> QED BY <1>2, <1>3, <1>4, <1>8, <2>5, <3>1
  <2> QED BY <2>4, <2>5
<1> QED BY <1>5, <1>6, <1>7, <1>8

\* Of two matches that apply, the one with the higher score goes before the other:
\* no bound on the length of paths is needed, since an Exact match that applies
\* is as long as the path.
LEMMA ScoreRanks ==
  ASSUME NEW m, Sound(m), NEW n, Sound(n), NEW path \in Paths,
         Applies(m, path), Applies(n, path)
  PROVE  /\ PathScore(m) \in Nat /\ PathScore(n) \in Nat
         /\ Precedes(m, n) <=> PathScore(m) > PathScore(n)
<1> DEFINE u == m.value
           v == n.value
<1>1. u \in Seq(DOMAIN Length) /\ v \in Seq(DOMAIN Length) /\ u \in Paths /\ v \in Paths
  BY DEF Sound, Paths
<1>2. StringLength(u) \in Nat /\ StringLength(v) \in Nat /\ ExactTier \in Nat /\ ExactTier > 0
  <2>1. StringLength(u) \in Nat /\ StringLength(v) \in Nat
    BY <1>1, LongerPath
  <2>2. ExactTier = 65536
    BY DEF ExactTier
  <2> QED BY <2>1, <2>2
<1>3. PathScore(m) \in Nat /\ PathScore(n) \in Nat
  BY <1>2 DEF PathScore
<1>4. ASSUME NEW a, Sound(a), a.type = "Exact", Applies(a, path),
             NEW b, Sound(b), b.type = "PathPrefix", Applies(b, path)
      PROVE  PathScore(a) > PathScore(b)
  <2>1. a.value = path /\ b.value \in Paths /\ path \in Seq(DOMAIN Length)
    BY <1>4 DEF Applies, Sound, Paths
  <2>2. StringLength(path) >= StringLength(b.value) /\ StringLength(path) \in Nat
        /\ StringLength(b.value) \in Nat
    <3>1. CASE b.value = Root
      <4>1. /\ StringLength(path) \in Nat /\ StringLength(path) >= Len(path)
            /\ Len(path) \in Nat /\ Len(path) # 0
        BY PathLength
      <4>2. StringLength(path) >= 1
        BY <4>1
      <4>3. StringLength(b.value) = 1
        BY <3>1, RootIsShortest
      <4> QED BY <4>1, <4>2, <4>3
    <3>2. CASE b.value # Root
      <4>1. IsPrefix(b.value, path)
        <5>1. path = b.value \/ IsPrefix(b.value, path)
          BY <1>4, <3>2 DEF Applies
        <5> QED BY <2>1, <5>1, PrefixBegins
      <4>2. Len(b.value) <= Len(path) /\ \A i \in 1 .. Len(b.value) : b.value[i] = path[i]
        BY <2>1, <4>1, PrefixBegins
      <4>3. b.value \in Seq(DOMAIN Length) /\ Len(b.value) \in Nat /\ Len(path) \in Nat
        BY <2>1 DEF Paths
      <4>4. /\ StringLength(b.value) \in Nat /\ StringLength(path) \in Nat
            /\ StringLength(path) >= StringLength(b.value) + (Len(path) - Len(b.value))
        BY <2>1, <4>2, <4>3, LongerPath
      <4> QED BY <4>2, <4>3, <4>4
    <3> QED BY <3>1, <3>2
  <2>3. PathScore(a) = ExactTier + StringLength(path) /\ PathScore(b) = StringLength(b.value)
    BY <1>4, <2>1 DEF PathScore
  <2> QED BY <1>2, <2>2, <2>3
<1>5. CASE m.type = "Exact" /\ n.type = "Exact"
  <2>1. u = path /\ v = path
    BY <1>5 DEF Applies
  <2>2. PathScore(m) = PathScore(n) /\ ~Precedes(m, n)
    <3>1. Depth(path) \in Nat
      BY DepthIs
    <3>2. ~(Depth(path) > Depth(path))
      BY <3>1
    <3> QED BY <1>5, <2>1, <3>2 DEF PathScore, Precedes
  <2> QED BY <1>3, <2>2
<1>6. CASE m.type = "Exact" /\ n.type = "PathPrefix"
  BY <1>3, <1>4, <1>6 DEF Precedes
<1>7. CASE m.type = "PathPrefix" /\ n.type = "Exact"
  <2>1. PathScore(n) > PathScore(m) /\ ~Precedes(m, n)
    BY <1>4, <1>7 DEF Precedes
  <2> QED BY <1>3, <2>1
<1>8. CASE m.type = "PathPrefix" /\ n.type = "PathPrefix"
  <2> DEFINE k == Depth(u)
             l == Depth(v)
  <2>1. PathScore(m) = StringLength(u) /\ PathScore(n) = StringLength(v)
        /\ (Precedes(m, n) <=> k > l)
    BY <1>8 DEF PathScore, Precedes
  <2>2. k \in Nat /\ l \in Nat
    <3>1. u \in Paths /\ v \in Paths
      BY <1>1
    <3> HIDE DEF u, v
    <3> QED BY <3>1, DepthIs
  <2>3. CASE k <= l
    <3>1. IF k = l THEN StringLength(u) = StringLength(v) ELSE StringLength(u) < StringLength(v)
      BY <1>8, <2>3, PrefixRanks
    <3> HIDE DEF k, l, u, v
    <3> QED BY <1>2, <1>3, <2>1, <2>2, <2>3, <3>1
  <2>4. CASE ~(k <= l)
    <3>1. l <= k /\ l # k
      BY <2>2, <2>4
    <3>2. StringLength(v) < StringLength(u)
      BY <1>8, <3>1, PrefixRanks
    <3> HIDE DEF k, l, u, v
    <3> QED BY <1>2, <1>3, <2>1, <2>2, <2>4, <3>2
  <2> QED BY <2>3, <2>4
<1> QED BY <1>5, <1>6, <1>7, <1>8 DEF Sound

----------------------------------------------------------------------------
(***************************************************************************)
(* The loops of Match.                                                     *)
(***************************************************************************)
Candidate(rule, k) == [score |-> PathScore(rule.matches[k]), backend |-> Head(rule.backends)]

Unmatched == [score |-> -1, backend |-> NoBackend]

\* One turn of the inner loop.
Better(b, rule, k, path) ==
  IF PathMatches(rule.matches[k], path) /\ PathScore(rule.matches[k]) > b.score
  THEN Candidate(rule, k) ELSE b

\* The inner loop goes through the matches in their order.
LEMMA ConsiderSteps ==
  ASSUME NEW best, NEW rule, NEW path, NEW n \in Nat, DOMAIN rule.matches = 1 .. n,
         rule.backends # <<>>
  PROVE  \E t : /\ t[0] = best
                /\ \A k \in 1 .. n : t[k] = Better(t[k - 1], rule, k, path)
                /\ Consider(best, rule, path) = t[n]
<1> DEFINE Turns(f) == f = [s \in SUBSET DOMAIN rule.matches |->
                              IF s = {} THEN best
                              ELSE Better(f[s \ {Max(s)}], rule, Max(s), path)]
           F == CHOOSE f : Turns(f)
           D == {best} \cup {Candidate(rule, k) : k \in 1 .. n}
           op == [x \in D \X (1 .. n) |-> Better(x[1], rule, x[2], path)]
<1>1. Consider(best, rule, path) = F[DOMAIN rule.matches]
  BY DEF Consider, FoldLeft, MapThenFoldSet, Better, Candidate
<1>2. \E f : Turns(f)
  <2>1. \A d \in D, k \in 1 .. n : Better(d, rule, k, path) \in D
    BY DEF Better
  <2>2. op \in [D \X (1 .. n) -> D]
    <3> HIDE DEF D
    <3> QED BY <2>1
  <2>3. \A d \in D, k \in 1 .. n : op[<<d, k>>] = Better(d, rule, k, path)
    <3> HIDE DEF D
    <3> QED OBVIOUS
  <2>4. best \in D
    OBVIOUS
  <2> HIDE DEF D, op
  <2>5. PICK g : Folds(g, n, D, best, op)
    BY <2>2, <2>4, FoldExists
  <2>6. ASSUME NEW s \in SUBSET (1 .. n)
        PROVE  g[s] = IF s = {} THEN best ELSE Better(g[s \ {Max(s)}], rule, Max(s), path)
    <3>1. CASE s = {}
      BY <2>5, <3>1 DEF Folds
    <3>2. CASE s # {}
      <4>1. Max(s) \in 1 .. n
        BY <3>2, MaxExists
      <4>2. g[s \ {Max(s)}] \in D
        BY <2>5 DEF Folds
      <4> QED BY <2>3, <2>5, <3>2, <4>1, <4>2 DEF Folds
    <3> QED BY <3>1, <3>2
  <2>7. g = [s \in SUBSET (1 .. n) |-> g[s]]
    BY <2>5 DEF Folds
  <2>8. Turns(g)
    BY <2>6, <2>7
  <2> QED BY <2>8
<1>3. Turns(F)
  <2> HIDE DEF Turns
  <2> QED BY <1>2
<1>4. \A s \in SUBSET (1 .. n) :
        F[s] = IF s = {} THEN best ELSE Better(F[s \ {Max(s)}], rule, Max(s), path)
  <2> HIDE DEF F
  <2> QED BY <1>3
<1> HIDE DEF F, Turns, op, D
<1> DEFINE t == [k \in 0 .. n |-> F[1 .. k]]
<1>5. t[0] = best
  <2>1. 1 .. 0 = {} /\ {} \in SUBSET (1 .. n) /\ 0 \in 0 .. n
    OBVIOUS
  <2> QED BY <1>4, <2>1
<1>6. ASSUME NEW k \in 1 .. n PROVE t[k] = Better(t[k - 1], rule, k, path)
  <2>1. /\ 1 .. k \in SUBSET (1 .. n) /\ 1 .. k # {} /\ Max(1 .. k) = k
        /\ (1 .. k) \ {k} = 1 .. (k - 1)
    BY IntervalTop
  <2>2. k \in 0 .. n /\ k - 1 \in 0 .. n
    OBVIOUS
  <2>3. F[1 .. k] = Better(F[1 .. (k - 1)], rule, k, path)
    BY <1>4, <2>1
  <2> QED BY <2>2, <2>3
<1>7. n \in 0 .. n
  OBVIOUS
<1>8. Consider(best, rule, path) = t[n]
  BY <1>1, <1>7
<1> HIDE DEF t
<1> QED BY <1>5, <1>6, <1>8

\* It finds a candidate or keeps what there was.
LEMMA ConsiderFinds ==
  ASSUME NEW best, NEW rule, NEW path, NEW n \in Nat, DOMAIN rule.matches = 1 .. n
  PROVE  Consider(best, rule, path) \in {best} \cup {Candidate(rule, k) : k \in 1 .. n}
<1> DEFINE D == {best} \cup {Candidate(rule, k) : k \in 1 .. n}
<1>1. CASE rule.backends = <<>>
  BY <1>1 DEF Consider
<1>2. CASE rule.backends # <<>>
  <2>1. PICK t : /\ t[0] = best
                 /\ \A k \in 1 .. n : t[k] = Better(t[k - 1], rule, k, path)
                 /\ Consider(best, rule, path) = t[n]
    BY <1>2, ConsiderSteps
  <2> DEFINE T == {k \in 0 .. n : t[k] \in D}
  <2>2. 0 \in T
    BY <2>1
  <2>3. ASSUME NEW k \in 1 .. n, k - 1 \in T PROVE k \in T
    <3>1. t[k] = t[k - 1] \/ t[k] = Candidate(rule, k)
      BY <2>1 DEF Better
    <3>2. k \in 0 .. n
      OBVIOUS
    <3> QED BY <2>3, <3>1, <3>2
  <2> HIDE DEF T
  <2>4. n \in T
    <3>1. n \in 0 .. n
      OBVIOUS
    <3> QED BY <2>2, <2>3, <3>1, UpTo
  <2> QED BY <2>1, <2>4 DEF T
<1> QED BY <1>1, <1>2

\* Rules as the router compiles them.
SoundRules(rules) ==
  /\ Len(rules) \in Nat /\ DOMAIN rules = 1 .. Len(rules)
  /\ \A i \in DOMAIN rules :
       /\ Len(rules[i].matches) \in Nat
       /\ DOMAIN rules[i].matches = 1 .. Len(rules[i].matches)
       /\ \A k \in DOMAIN rules[i].matches : Sound(rules[i].matches[k])

\* The outer loop goes through the rules in their order.
LEMMA MatchSteps ==
  ASSUME NEW rules, SoundRules(rules), NEW path
  PROVE  \E t : /\ t[0] = Unmatched
                /\ \A k \in 1 .. Len(rules) : t[k] = Consider(t[k - 1], rules[k], path)
                /\ Match(rules, path) = t[Len(rules)].backend
<1> DEFINE n == Len(rules)
           Turns(f) == f = [s \in SUBSET DOMAIN rules |->
                              IF s = {} THEN Unmatched
                              ELSE Consider(f[s \ {Max(s)}], rules[Max(s)], path)]
           F == CHOOSE f : Turns(f)
           C(i) == {Candidate(rules[i], k) : k \in DOMAIN rules[i].matches}
           D == {Unmatched} \cup UNION {C(i) : i \in 1 .. n}
           op == [x \in D \X (1 .. n) |-> Consider(x[1], rules[x[2]], path)]
<1>0. n \in Nat /\ DOMAIN rules = 1 .. n
  BY DEF SoundRules
<1>1. Match(rules, path) = F[DOMAIN rules].backend
  BY DEF Match, FoldLeft, MapThenFoldSet, Unmatched
<1>2. \E f : Turns(f)
  <2>1. ASSUME NEW d \in D, NEW i \in 1 .. n PROVE Consider(d, rules[i], path) \in D
    <3>1. Consider(d, rules[i], path) \in {d} \cup C(i)
      BY <1>0, ConsiderFinds DEF SoundRules
    <3> QED BY <2>1, <3>1
  <2>2. op \in [D \X (1 .. n) -> D]
    <3> HIDE DEF D, n
    <3> QED BY <2>1
  <2>3. \A d \in D, i \in 1 .. n : op[<<d, i>>] = Consider(d, rules[i], path)
    <3> HIDE DEF D, n
    <3> QED OBVIOUS
  <2>4. Unmatched \in D
    OBVIOUS
  <2> HIDE DEF D, op, n
  <2>5. PICK g : Folds(g, n, D, Unmatched, op)
    BY <1>0, <2>2, <2>4, FoldExists
  <2>6. ASSUME NEW s \in SUBSET (1 .. n)
        PROVE  g[s] = IF s = {} THEN Unmatched
                      ELSE Consider(g[s \ {Max(s)}], rules[Max(s)], path)
    <3>1. CASE s = {}
      BY <2>5, <3>1 DEF Folds
    <3>2. CASE s # {}
      <4>1. Max(s) \in 1 .. n
        BY <1>0, <3>2, MaxExists
      <4>2. g[s \ {Max(s)}] \in D
        BY <2>5 DEF Folds
      <4> QED BY <2>3, <2>5, <3>2, <4>1, <4>2 DEF Folds
    <3> QED BY <3>1, <3>2
  <2>7. g = [s \in SUBSET (1 .. n) |-> g[s]]
    BY <2>5 DEF Folds
  <2>8. Turns(g)
    BY <1>0, <2>6, <2>7
  <2> QED BY <2>8
<1>3. Turns(F)
  <2> HIDE DEF Turns
  <2> QED BY <1>2
<1>4. \A s \in SUBSET (1 .. n) :
        F[s] = IF s = {} THEN Unmatched ELSE Consider(F[s \ {Max(s)}], rules[Max(s)], path)
  <2> HIDE DEF F, n
  <2> QED BY <1>0, <1>3
<1> HIDE DEF F, Turns, op, D, n
<1> DEFINE t == [k \in 0 .. n |-> F[1 .. k]]
<1>5. t[0] = Unmatched
  <2>1. 1 .. 0 = {} /\ {} \in SUBSET (1 .. n) /\ 0 \in 0 .. n
    BY <1>0
  <2> QED BY <1>4, <2>1
<1>6. ASSUME NEW k \in 1 .. n PROVE t[k] = Consider(t[k - 1], rules[k], path)
  <2>1. /\ 1 .. k \in SUBSET (1 .. n) /\ 1 .. k # {} /\ Max(1 .. k) = k
        /\ (1 .. k) \ {k} = 1 .. (k - 1)
    BY <1>0, IntervalTop
  <2>2. k \in 0 .. n /\ k - 1 \in 0 .. n
    BY <1>0
  <2>3. F[1 .. k] = Consider(F[1 .. (k - 1)], rules[k], path)
    BY <1>4, <2>1
  <2> QED BY <2>2, <2>3
<1>7. n \in 0 .. n
  BY <1>0
<1>8. Match(rules, path) = t[n].backend
  BY <1>0, <1>1, <1>7
<1> HIDE DEF t
<1> QED BY <1>5, <1>6, <1>8 DEF n

----------------------------------------------------------------------------
(***************************************************************************)
(* What the loops have found so far.                                       *)
(***************************************************************************)
ScoreAt(rules, a) == PathScore(rules[a[1]].matches[a[2]])

\* b is the candidate of the first rule with the highest score among the matches A.
Leads(rules, b, A) ==
  IF A = {} THEN b = Unmatched
  ELSE \E a \in A :
         /\ b = Candidate(rules[a[1]], a[2])
         /\ \A c \in A : \/ ScoreAt(rules, c) < ScoreAt(rules, a)
                         \/ ScoreAt(rules, c) = ScoreAt(rules, a) /\ a[1] <= c[1]

\* The next match that applies.
LEMMA LeadsOn ==
  ASSUME NEW rules, NEW b, NEW A, Leads(rules, b, A), NEW a,
         \A c \in A \cup {a} : ScoreAt(rules, c) \in Nat /\ c[1] \in Nat,
         \A c \in A : c[1] <= a[1]
  PROVE  Leads(rules, IF ScoreAt(rules, a) > b.score THEN Candidate(rules[a[1]], a[2]) ELSE b,
               A \cup {a})
<1> DEFINE new == IF ScoreAt(rules, a) > b.score THEN Candidate(rules[a[1]], a[2]) ELSE b
<1>1. CASE A = {}
  <2>1. b.score = -1
    BY <1>1 DEF Leads, Unmatched
  <2>2. new = Candidate(rules[a[1]], a[2])
    BY <2>1
  <2>3. A \cup {a} = {a}
    BY <1>1
  <2>4. a[1] <= a[1]
    OBVIOUS
  <2> HIDE DEF new
  <2>5. Leads(rules, new, {a})
    BY <2>2, <2>4 DEF Leads
  <2> QED BY <2>3, <2>5 DEF new
<1>2. CASE A # {}
  <2>1. PICK l \in A :
          /\ b = Candidate(rules[l[1]], l[2])
          /\ \A c \in A : \/ ScoreAt(rules, c) < ScoreAt(rules, l)
                          \/ ScoreAt(rules, c) = ScoreAt(rules, l) /\ l[1] <= c[1]
    BY <1>2 DEF Leads
  <2>2. b.score = ScoreAt(rules, l)
    BY <2>1 DEF Candidate, ScoreAt
  <2>3. CASE ScoreAt(rules, a) > b.score
    <3>1. ASSUME NEW c \in A \cup {a}
          PROVE  \/ ScoreAt(rules, c) < ScoreAt(rules, a)
                 \/ ScoreAt(rules, c) = ScoreAt(rules, a) /\ a[1] <= c[1]
      BY <2>1, <2>2, <2>3
    <3>2. new = Candidate(rules[a[1]], a[2])
      BY <2>3
    <3> HIDE DEF new
    <3>3. Leads(rules, new, A \cup {a})
      BY <3>1, <3>2 DEF Leads
    <3> QED BY <3>3 DEF new
  <2>4. CASE ~(ScoreAt(rules, a) > b.score)
    <3>1. ASSUME NEW c \in A \cup {a}
          PROVE  \/ ScoreAt(rules, c) < ScoreAt(rules, l)
                 \/ ScoreAt(rules, c) = ScoreAt(rules, l) /\ l[1] <= c[1]
      BY <2>1, <2>2, <2>4
    <3>2. new = b
      BY <2>4
    <3> HIDE DEF new
    <3>3. Leads(rules, new, A \cup {a})
      BY <2>1, <3>1, <3>2 DEF Leads
    <3> QED BY <3>3 DEF new
  <2> QED BY <2>3, <2>4
<1> QED BY <1>1, <1>2

\* The matches of the rules before i, and the first k of rule i.
Upto(rules, path, i, k) ==
  {c \in Applicable(rules, path) : c[1] < i \/ (c[1] = i /\ c[2] <= k)}

\* Members of Applicable.
LEMMA ApplicableAre ==
  ASSUME NEW rules, SoundRules(rules), NEW path \in Paths
  PROVE  /\ \A a \in Applicable(rules, path) :
              /\ a = <<a[1], a[2]>> /\ a[1] \in DOMAIN rules /\ a[1] \in Nat
              /\ a[2] \in DOMAIN rules[a[1]].matches /\ a[2] \in Nat
              /\ rules[a[1]].backends # <<>>
              /\ Sound(rules[a[1]].matches[a[2]])
              /\ Applies(rules[a[1]].matches[a[2]], path)
              /\ ScoreAt(rules, a) \in Nat
         /\ \A i \in DOMAIN rules : \A k \in DOMAIN rules[i].matches :
              <<i, k>> \in Applicable(rules, path) <=>
                rules[i].backends # <<>> /\ Applies(rules[i].matches[k], path)
<1>1. ASSUME NEW a \in Applicable(rules, path)
      PROVE  /\ a = <<a[1], a[2]>> /\ a[1] \in DOMAIN rules /\ a[1] \in Nat
             /\ a[2] \in DOMAIN rules[a[1]].matches /\ a[2] \in Nat
             /\ rules[a[1]].backends # <<>>
             /\ Sound(rules[a[1]].matches[a[2]])
             /\ Applies(rules[a[1]].matches[a[2]], path)
             /\ ScoreAt(rules, a) \in Nat
  <2>1. PICK i \in DOMAIN rules : a \in {i} \X DOMAIN rules[i].matches
    BY DEF Applicable
  <2>2. a = <<a[1], a[2]>> /\ a[1] = i /\ a[2] \in DOMAIN rules[i].matches
    BY <2>1
  <2>3. i \in Nat
    BY DEF SoundRules
  <2>4. a[2] \in Nat
    BY <2>2 DEF SoundRules
  <2>5. rules[a[1]].backends # <<>> /\ Applies(rules[a[1]].matches[a[2]], path)
    BY DEF Applicable
  <2>6. Sound(rules[a[1]].matches[a[2]])
    BY <2>2 DEF SoundRules
  <2>7. ScoreAt(rules, a) \in Nat
    BY <2>5, <2>6, ScoreRanks DEF ScoreAt
  <2> QED BY <2>2, <2>3, <2>4, <2>5, <2>6, <2>7
<1>2. ASSUME NEW i \in DOMAIN rules, NEW k \in DOMAIN rules[i].matches
      PROVE  <<i, k>> \in Applicable(rules, path) <=>
               rules[i].backends # <<>> /\ Applies(rules[i].matches[k], path)
  <2>1. <<i, k>> \in UNION {{j} \X DOMAIN rules[j].matches : j \in DOMAIN rules}
    OBVIOUS
  <2>2. <<i, k>>[1] = i /\ <<i, k>>[2] = k
    OBVIOUS
  <2> QED BY <2>1, <2>2 DEF Applicable
<1> QED BY <1>1, <1>2

\* One rule.
LEMMA ConsiderLeads ==
  ASSUME NEW rules, SoundRules(rules), NEW path \in Paths, NEW i \in DOMAIN rules, NEW b,
         Leads(rules, b, Upto(rules, path, i, 0))
  PROVE  Leads(rules, Consider(b, rules[i], path), Upto(rules, path, i + 1, 0))
<1> DEFINE n == Len(rules[i].matches)
           U(k) == Upto(rules, path, i, k)
<1>1. n \in Nat /\ DOMAIN rules[i].matches = 1 .. n /\ i \in Nat
  BY DEF SoundRules
<1>2. \A a \in Applicable(rules, path) :
        /\ a = <<a[1], a[2]>> /\ a[1] \in DOMAIN rules /\ a[1] \in Nat
        /\ a[2] \in DOMAIN rules[a[1]].matches /\ a[2] \in Nat
        /\ rules[a[1]].backends # <<>> /\ ScoreAt(rules, a) \in Nat
  BY ApplicableAre
<1>3. Upto(rules, path, i + 1, 0) = U(n)
  <2>1. ASSUME NEW a \in Applicable(rules, path)
        PROVE  (a[1] < i + 1 \/ (a[1] = i + 1 /\ a[2] <= 0)) <=>
                 (a[1] < i \/ (a[1] = i /\ a[2] <= n))
    <3>1. a[1] \in DOMAIN rules /\ a[1] \in Nat /\ a[2] \in DOMAIN rules[a[1]].matches
      BY <1>2
    <3>2. a[2] \in Nat /\ a[2] > 0 /\ (a[1] = i => a[2] <= n)
      <4>1. a[2] \in 1 .. Len(rules[a[1]].matches) /\ Len(rules[a[1]].matches) \in Nat
        BY <3>1 DEF SoundRules
      <4> QED BY <4>1
    <3> HIDE DEF n
    <3> QED BY <1>1, <3>1, <3>2
  <2> QED BY <2>1 DEF Upto
<1>4. CASE rules[i].backends = <<>>
  <2>1. U(n) = U(0)
    <3>1. \A a \in Applicable(rules, path) : a[1] # i
      BY <1>2, <1>4
    <3> QED BY <3>1 DEF Upto
  <2> QED BY <1>3, <1>4, <2>1 DEF Consider
<1>5. CASE rules[i].backends # <<>>
  <2>1. PICK t : /\ t[0] = b
                 /\ \A k \in 1 .. n : t[k] = Better(t[k - 1], rules[i], k, path)
                 /\ Consider(b, rules[i], path) = t[n]
    <3> HIDE DEF n
    <3> QED BY <1>1, <1>5, ConsiderSteps
  <2> DEFINE T == {k \in 0 .. n : Leads(rules, t[k], U(k))}
  <2> HIDE DEF n
  <2>2. 0 \in T
    BY <1>1, <2>1
  <2>3. ASSUME NEW k \in 1 .. n, k - 1 \in T PROVE k \in T
    <3> DEFINE m == rules[i].matches[k]
               a == <<i, k>>
    <3>1. t[k] = Better(t[k - 1], rules[i], k, path) /\ Leads(rules, t[k - 1], U(k - 1))
      BY <2>1, <2>3
    <3>2. PathMatches(m, path) <=> Applies(m, path)
      <4>1. Sound(m)
        BY <1>1 DEF SoundRules
      <4> HIDE DEF m
      <4> QED BY <4>1, MatchesWhenApplies
    <3>3. a \in Applicable(rules, path) <=> Applies(m, path)
      BY <1>1, <1>5, ApplicableAre
    <3>4. a[1] = i /\ a[2] = k /\ k \in Nat /\ k \in 0 .. n
      BY <1>1
    <3>5. ASSUME NEW c \in Applicable(rules, path)
          PROVE  (c[1] < i \/ (c[1] = i /\ c[2] <= k)) <=>
                   (c[1] < i \/ (c[1] = i /\ c[2] <= k - 1)) \/ c = a
      <4>1. c = <<c[1], c[2]>> /\ c[1] \in Nat /\ c[2] \in Nat
        BY <1>2
      <4>2. c = a <=> c[1] = i /\ c[2] = k
        BY <3>4, <4>1
      <4>3. c[2] <= k <=> c[2] <= k - 1 \/ c[2] = k
        BY <3>4, <4>1
      <4> QED BY <4>2, <4>3
    <3> HIDE DEF a
    <3>6. CASE Applies(m, path)
      <4>1. U(k) = U(k - 1) \cup {a}
        BY <3>3, <3>4, <3>5, <3>6 DEF Upto
      <4>2. \A c \in U(k - 1) \cup {a} : ScoreAt(rules, c) \in Nat /\ c[1] \in Nat
        BY <1>2, <3>3, <3>6 DEF Upto
      <4>3. \A c \in U(k - 1) : c[1] <= a[1]
        BY <1>1, <1>2, <3>4 DEF Upto
      <4>4. t[k] = IF ScoreAt(rules, a) > t[k - 1].score THEN Candidate(rules[a[1]], a[2])
                                                         ELSE t[k - 1]
        BY <3>1, <3>2, <3>4, <3>6 DEF Better, ScoreAt
      <4> HIDE DEF U
      <4>5. Leads(rules, t[k], U(k - 1) \cup {a})
        BY <3>1, <4>2, <4>3, <4>4, LeadsOn
      <4> QED BY <3>4, <4>1, <4>5
    <3>7. CASE ~Applies(m, path)
      <4>1. U(k) = U(k - 1)
        BY <3>3, <3>5, <3>7 DEF Upto
      <4>2. t[k] = t[k - 1]
        BY <3>1, <3>2, <3>7 DEF Better
      <4> HIDE DEF U
      <4> QED BY <3>1, <3>4, <4>1, <4>2
    <3> QED BY <3>6, <3>7
  <2> HIDE DEF T
  <2>4. n \in T
    <3>1. n \in 0 .. n
      BY <1>1
    <3> QED BY <1>1, <2>2, <2>3, <3>1, UpTo
  <2> QED BY <1>3, <2>1, <2>4 DEF T
<1> QED BY <1>4, <1>5

\* The match that leads all others is the one that Selected picks.
LEMMA LeaderIsSelected ==
  ASSUME NEW rules, SoundRules(rules), NEW path \in Paths, NEW b,
         Leads(rules, b, Applicable(rules, path))
  PROVE  b.backend = Selected(rules, path)
<1> DEFINE A == Applicable(rules, path)
           At(a) == rules[a[1]].matches[a[2]]
           Best == {a \in A : \A c \in A : ~Precedes(At(c), At(a))}
           First == CHOOSE a \in Best : \A c \in Best : a[1] <= c[1]
<1>1. Selected(rules, path) = IF A = {} THEN NoBackend ELSE Head(rules[First[1]].backends)
  BY DEF Selected
<1>2. CASE A = {}
  BY <1>1, <1>2 DEF Leads, Unmatched
<1>3. CASE A # {}
  <2>1. PICK a \in A :
          /\ b = Candidate(rules[a[1]], a[2])
          /\ \A c \in A : \/ ScoreAt(rules, c) < ScoreAt(rules, a)
                          \/ ScoreAt(rules, c) = ScoreAt(rules, a) /\ a[1] <= c[1]
    BY <1>3 DEF Leads
  <2>2. \A c \in A : /\ Sound(At(c)) /\ Applies(At(c), path) /\ c[1] \in Nat
                     /\ ScoreAt(rules, c) = PathScore(At(c)) /\ ScoreAt(rules, c) \in Nat
    BY ApplicableAre DEF ScoreAt
  <2> HIDE DEF A, At
  <2>3. \A c, e \in A : Precedes(At(c), At(e)) <=> ScoreAt(rules, c) > ScoreAt(rules, e)
    BY <2>2, ScoreRanks
  <2>4. a \in Best
    BY <2>1, <2>2, <2>3
  <2>5. \A c \in Best : a[1] <= c[1]
    <3> SUFFICES ASSUME NEW c \in Best PROVE a[1] <= c[1]
      OBVIOUS
    <3>1. ~(ScoreAt(rules, c) < ScoreAt(rules, a))
      BY <2>2, <2>3
    <3> QED BY <2>1, <3>1
  <2>6. First \in Best /\ \A c \in Best : First[1] <= c[1]
    BY <2>4, <2>5
  <2>7. First[1] = a[1]
    <3>1. First[1] <= a[1] /\ a[1] <= First[1]
      BY <2>4, <2>5, <2>6
    <3>2. First[1] \in Nat /\ a[1] \in Nat
      BY <2>2, <2>4, <2>6
    <3> HIDE DEF First
    <3> QED BY <3>1, <3>2
  <2>8. b.backend = Head(rules[a[1]].backends)
    BY <2>1 DEF Candidate
  <2> QED BY <1>1, <1>3, <2>7, <2>8
<1> QED BY <1>2, <1>3

\* For any list of compiled rules and any path, Match's loops, prefix tests and
\* string scores pick the backend that the reference definition selects.
THEOREM MatchSelects ==
  ASSUME NEW rules, SoundRules(rules), NEW path \in Paths
  PROVE  Match(rules, path) = Selected(rules, path)
<1> DEFINE n == Len(rules)
<1>1. n \in Nat /\ DOMAIN rules = 1 .. n
  BY DEF SoundRules
<1>2. PICK t : /\ t[0] = Unmatched
               /\ \A k \in 1 .. n : t[k] = Consider(t[k - 1], rules[k], path)
               /\ Match(rules, path) = t[n].backend
  BY MatchSteps
<1> HIDE DEF n
<1> DEFINE T == {k \in 0 .. n : Leads(rules, t[k], Upto(rules, path, k + 1, 0))}
<1>3. \A a \in Applicable(rules, path) : a[1] \in 1 .. n /\ a[2] \in Nat
  BY <1>1, ApplicableAre
<1>4. 0 \in T
  <2>1. Upto(rules, path, 0 + 1, 0) = {}
    <3>1. \A a \in Applicable(rules, path) : ~(a[1] < 1) /\ ~(a[1] = 1 /\ a[2] <= 0)
      <4> SUFFICES ASSUME NEW a \in Applicable(rules, path)
                   PROVE  ~(a[1] < 1) /\ ~(a[1] = 1 /\ a[2] <= 0)
        OBVIOUS
      <4>1. a[1] \in DOMAIN rules /\ a[2] \in DOMAIN rules[a[1]].matches
        BY ApplicableAre
      <4>2. a[2] \in 1 .. Len(rules[a[1]].matches) /\ Len(rules[a[1]].matches) \in Nat
        BY <4>1 DEF SoundRules
      <4>3. a[1] \in 1 .. n
        BY <1>3
      <4> QED BY <1>1, <4>2, <4>3
    <3> QED BY <3>1 DEF Upto
  <2>2. 0 \in 0 .. n
    BY <1>1
  <2> QED BY <1>2, <2>1, <2>2 DEF Leads
<1>5. ASSUME NEW k \in 1 .. n, k - 1 \in T PROVE k \in T
  <2>1. Leads(rules, t[k - 1], Upto(rules, path, k, 0))
    <3>1. (k - 1) + 1 = k
      OBVIOUS
    <3> QED BY <1>5, <3>1
  <2>2. Leads(rules, Consider(t[k - 1], rules[k], path), Upto(rules, path, k + 1, 0))
    BY <1>1, <2>1, ConsiderLeads
  <2>3. k \in 0 .. n
    BY <1>1
  <2> QED BY <1>2, <2>2, <2>3
<1>6. n \in T
  <2> HIDE DEF T
  <2>1. n \in 0 .. n
    BY <1>1
  <2> QED BY <1>1, <1>4, <1>5, <2>1, UpTo
<1>7. Upto(rules, path, n + 1, 0) = Applicable(rules, path)
  BY <1>1, <1>3 DEF Upto
<1>8. t[n].backend = Selected(rules, path)
  BY <1>6, <1>7, LeaderIsSelected
<1> QED BY <1>2, <1>8
============================================================================
