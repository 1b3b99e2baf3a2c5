--------------------------- MODULE SequenceLemmas ---------------------------
(***************************************************************************)
(* What the proofs about several parts need: induction and recursion over  *)
(* the numbers up to a bound, stated with a set and a function in place of *)
(* a predicate and an operator; the positions of a subsequence; what       *)
(* insertion and removal make of a sequence; how what is counted in        *)
(* sequences, and made of their elements, adds up when they are joined;    *)
(* sequences in two or three parts; and what a sequence of operations,     *)
(* each a relation on states, can make of a state.                         *)
(***************************************************************************)
EXTENDS SequenceParts, Integers, Sequences, FiniteSets, FiniteSetsExt, SequencesExt, Functions,
        FiniteSetTheorems, FunctionTheorems, SequenceTheorems, WellFoundedInduction, TLAPS

-----------------------------------------------------------------------------
(* Numbers.                                                                *)

(* A set of numbers has a smallest one, and Min finds it.                  *)
LEMMA MinOfNumbers ==
  ASSUME NEW S \in SUBSET Nat, S # {}
  PROVE  Min(S) \in S /\ \A x \in S : Min(S) <= x
  <1> DEFINE R == {ss \in Nat \X Nat : ss[1] < ss[2]}
  <1>1. OpToRel(<, Nat) = R
    BY DEF OpToRel
  <1>2. PICK m \in S : \A y \in S : <<y, m>> \notin OpToRel(<, Nat)
    BY NatLessThanWellFounded, WFMin, Zenon
  <1>3. \A y \in S : m <= y
    <2> SUFFICES ASSUME NEW y \in S, y < m PROVE FALSE
      OBVIOUS
    <2>1. <<y, m>> \in R
      OBVIOUS
    <2> QED
      BY <2>1, <1>1, <1>2
  <1> QED
    BY <1>3 DEF Min

(* A set that has 0 and with each number the next has all up to the bound. *)
LEMMA UpTo ==
  ASSUME NEW L \in Nat, NEW S, 0 \in S, \A n \in 1 .. L : n - 1 \in S => n \in S
  PROVE  \A n \in 0 .. L : n \in S
  <1> DEFINE Bad == {n \in 0 .. L : n \notin S}
  <1>1. SUFFICES ASSUME Bad # {} PROVE FALSE
    OBVIOUS
  <1>2. PICK m \in Bad : \A y \in Bad : m <= y
    <2>1. Bad \in SUBSET Nat
      OBVIOUS
    <2> HIDE DEF Bad
    <2> QED
      BY <1>1, <2>1, MinOfNumbers
  <1>3. m \in 1 .. L /\ m \notin S /\ m - 1 \in 0 .. L /\ ~ (m <= m - 1)
    OBVIOUS
  <1>4. m - 1 \in S
    BY <1>2, <1>3
  <1> QED
    BY <1>3, <1>4

(* A start in A and steps within A make a function.                        *)
StepsFrom(f, L, A, first, step) ==
    /\ f \in [0 .. L -> A]
    /\ f[0] = first
    /\ \A n \in 1 .. L : f[n] = step[<<f[n - 1], n>>]

LEMMA StepByStep ==
  ASSUME NEW L \in Nat, NEW A, NEW first \in A, NEW step \in [A \X (1 .. L) -> A]
  PROVE  \E f : StepsFrom(f, L, A, first, step)
  <1> DEFINE Steps(f, k) == f[0] = first /\ \A n \in 1 .. k : f[n] = step[<<f[n - 1], n>>]
             S == {k \in 0 .. L : \E f \in [0 .. k -> A] : Steps(f, k)}
  <1>1. 0 \in S
    <2> DEFINE g == [i \in 0 .. 0 |-> first]
    <2>1. g \in [0 .. 0 -> A] /\ g[0] = first /\ 1 .. 0 = {}
      OBVIOUS
    <2> HIDE DEF g
    <2>2. Steps(g, 0)
      BY <2>1
    <2> QED
      BY <2>1, <2>2
  <1>2. ASSUME NEW k \in 1 .. L, k - 1 \in S PROVE k \in S
    <2>1. PICK f \in [0 .. k - 1 -> A] : Steps(f, k - 1)
      BY <1>2
    <2> DEFINE g == [i \in 0 .. k |-> IF i = k THEN step[<<f[k - 1], k>>] ELSE f[i]]
    <2>2. f[k - 1] \in A /\ <<f[k - 1], k>> \in A \X (1 .. L)
      OBVIOUS
    <2>3. step[<<f[k - 1], k>>] \in A
      BY <2>2
    <2>4. g \in [0 .. k -> A]
      BY <2>3
    <2>5. g[0] = first
      BY <2>1
    <2>6. ASSUME NEW n \in 1 .. k PROVE g[n] = step[<<g[n - 1], n>>]
      <3>1. n - 1 \in 0 .. k /\ n - 1 # k /\ g[n - 1] = f[n - 1]
        OBVIOUS
      <3>2. CASE n = k
        BY <3>1, <3>2
      <3>3. CASE n # k
        <4>1. n \in 1 .. k - 1 /\ g[n] = f[n]
          BY <3>3
        <4>2. f[n] = step[<<f[n - 1], n>>]
          BY <2>1, <4>1
        <4> QED
          BY <3>1, <4>1, <4>2
      <3> QED
        BY <3>2, <3>3
    <2> HIDE DEF g
    <2>7. Steps(g, k)
      BY <2>5, <2>6
    <2> QED
      BY <2>4, <2>7
  <1> HIDE DEF S
  <1>3. L \in S
    BY <1>1, <1>2, UpTo
  <1> QED
    BY <1>3 DEF S, StepsFrom

-----------------------------------------------------------------------------
(* Positions.                                                              *)

(* A set of positions has a first, a second, ... one.                      *)
LEMMA NthOfSet ==
  ASSUME NEW n \in Nat, NEW K \in SUBSET (1 .. n), NEW i \in 1 .. Cardinality(K)
  PROVE  \E m \in K : Cardinality(K \cap 1 .. m) = i
  <1> DEFINE upto == [m \in Nat |-> Cardinality(K \cap 1 .. m)]
             A == {m \in Nat : upto[m] >= i}
  <1>1. IsFiniteSet(K) /\ Cardinality(K) \in Nat
    <2>1. IsFiniteSet(1 .. n)
      BY FS_Interval
    <2> QED
      BY <2>1, FS_Subset, FS_CardinalityType
  <1>2. \A m \in Nat : IsFiniteSet(K \cap 1 .. m) /\ upto[m] \in Nat
    <2> TAKE m \in Nat
    <2>1. IsFiniteSet(K \cap 1 .. m)
      BY <1>1, FS_Subset
    <2> QED
      BY <2>1, FS_CardinalityType
  <1>3. upto[n] = Cardinality(K)
    <2>1. K \cap 1 .. n = K
      OBVIOUS
    <2> QED
      BY <2>1
  <1>4. upto[0] = 0
    <2>1. K \cap 1 .. 0 = {}
      OBVIOUS
    <2> QED
      BY <2>1, FS_EmptySet
  <1>5. \A m \in Nat : m \notin K => K \cap 1 .. m = K \cap 1 .. m - 1
    OBVIOUS
  <1>6. \A m \in Nat \ {0} : m \in K => upto[m] = upto[m - 1] + 1
    <2> TAKE m \in Nat \ {0}
    <2> HAVE m \in K
    <2>1. K \cap 1 .. m = (K \cap 1 .. m - 1) \cup {m}
      OBVIOUS
    <2>2. m \notin K \cap 1 .. m - 1 /\ m - 1 \in Nat
      OBVIOUS
    <2>3. IsFiniteSet(K \cap 1 .. m - 1)
      BY <1>2, <2>2
    <2>4. Cardinality((K \cap 1 .. m - 1) \cup {m}) = Cardinality(K \cap 1 .. m - 1) + 1
      BY <2>2, <2>3, FS_AddElement
    <2> QED
      BY <2>1, <2>4
  <1>7. i \in Nat /\ i > 0 /\ i <= Cardinality(K)
    BY <1>1
  <1>8. \A m \in Nat : m \in K \/ m = 0 \/ upto[m] = upto[m - 1]
    BY <1>5
  <1> HIDE DEF upto
  <1>9. A \in SUBSET Nat /\ n \in A
    BY <1>1, <1>3, <1>7
  <1>10. PICK m \in A : \A k \in A : m <= k
    <2> HIDE DEF A
    <2> QED
      BY <1>9, MinOfNumbers
  <1>11. m \in Nat /\ upto[m] >= i
    OBVIOUS
  <1>12. m # 0
    BY <1>4, <1>7, <1>11
  <1>13. upto[m - 1] < i
    <2>1. m - 1 \in Nat /\ m - 1 \notin A
      BY <1>10, <1>11, <1>12
    <2>2. upto[m - 1] \in Nat
      BY <1>2, <2>1
    <2>3. ~ (upto[m - 1] >= i)
      BY <2>1
    <2> QED
      BY <1>7, <2>2, <2>3
  <1>14. upto[m] \in Nat /\ m - 1 \in Nat /\ upto[m - 1] \in Nat
    <2>1. m - 1 \in Nat
      BY <1>11, <1>12
    <2> QED
      BY <1>2, <1>11, <2>1
  <1>15. m \in K
    <2>1. upto[m] # upto[m - 1]
      BY <1>7, <1>11, <1>13, <1>14
    <2> QED
      BY <1>8, <1>11, <1>12, <2>1
  <1>16. upto[m] = i
    <2>1. upto[m] = upto[m - 1] + 1
      BY <1>6, <1>11, <1>12, <1>15
    <2> QED
      BY <1>7, <1>11, <1>13, <1>14, <2>1
  <1> QED
    BY <1>15, <1>16 DEF upto

(* They follow each other in order.                                        *)
Positioned(K) ==
    [i \in 1 .. Cardinality(K) |-> CHOOSE m \in K : Cardinality(K \cap 1 .. m) = i]

LEMMA PositionsInOrder ==
  ASSUME NEW n \in Nat, NEW K \in SUBSET (1 .. n)
  PROVE  /\ IsFiniteSet(K) /\ Cardinality(K) \in Nat
         /\ Positioned(K) \in Bijection(1 .. Cardinality(K), K)
         /\ \A i, j \in 1 .. Cardinality(K) : i < j => Positioned(K)[i] < Positioned(K)[j]
         /\ \A m \in K : /\ Cardinality(K \cap 1 .. m) \in 1 .. Cardinality(K)
                         /\ Positioned(K)[Cardinality(K \cap 1 .. m)] = m
         /\ \A i \in 1 .. Cardinality(K) : Cardinality(K \cap 1 .. Positioned(K)[i]) = i
  <1> DEFINE c == Cardinality(K)
             pos == Positioned(K)
             upto == [m \in K |-> Cardinality(K \cap 1 .. m)]
  <1>1. IsFiniteSet(K) /\ c \in Nat
    <2>1. IsFiniteSet(1 .. n)
      BY FS_Interval
    <2> QED
      BY <2>1, FS_Subset, FS_CardinalityType
  <1>2. \A m \in K : m \in Nat
    OBVIOUS
  <1>3. ASSUME NEW m \in K PROVE upto[m] \in 1 .. c
    <2>1. K \cap 1 .. m \in SUBSET K /\ {m} \in SUBSET (K \cap 1 .. m)
      OBVIOUS
    <2>2. IsFiniteSet(K \cap 1 .. m) /\ Cardinality(K \cap 1 .. m) <= c
      BY <1>1, <2>1, FS_Subset
    <2>3. Cardinality({m}) <= Cardinality(K \cap 1 .. m)
      BY <2>1, <2>2, FS_Subset
    <2>4. Cardinality({m}) = 1
      BY FS_Singleton
    <2>5. Cardinality(K \cap 1 .. m) \in Nat
      BY <2>2, FS_CardinalityType
    <2> QED
      BY <1>1, <2>2, <2>3, <2>4, <2>5
  <1>4. ASSUME NEW l \in K, NEW m \in K, l < m PROVE upto[l] < upto[m]
    <2>1. K \cap 1 .. l \in SUBSET (K \cap 1 .. m) /\ m \in K \cap 1 .. m /\ m \notin K \cap 1 .. l
      BY <1>4
    <2>2. IsFiniteSet(K \cap 1 .. m)
      BY <1>1, FS_Subset
    <2>3. /\ Cardinality(K \cap 1 .. l) <= Cardinality(K \cap 1 .. m)
          /\ Cardinality(K \cap 1 .. l) # Cardinality(K \cap 1 .. m)
      BY <2>1, <2>2, FS_Subset
    <2>4. upto[l] \in 1 .. c
      BY <1>3
    <2>5. upto[m] \in 1 .. c
      BY <1>3
    <2> QED
      BY <1>1, <2>3, <2>4, <2>5
  <1>5. ASSUME NEW i \in 1 .. c PROVE pos[i] \in K /\ upto[pos[i]] = i
    <2>1. \E m \in K : Cardinality(K \cap 1 .. m) = i
      BY NthOfSet
    <2>2. pos[i] = CHOOSE m \in K : Cardinality(K \cap 1 .. m) = i
      BY DEF Positioned
    <2> HIDE DEF pos
    <2>3. pos[i] \in K /\ Cardinality(K \cap 1 .. pos[i]) = i
      BY <2>1, <2>2
    <2> QED
      BY <2>3
  <1>6. pos = [i \in 1 .. c |-> pos[i]]
    <2> DEFINE nth(i) == CHOOSE m \in K : Cardinality(K \cap 1 .. m) = i
    <2>1. pos = [i \in 1 .. c |-> nth(i)]
      BY DEF Positioned
    <2> HIDE DEF nth, pos, c
    <2> QED
      BY <2>1
  <1> HIDE DEF upto, pos, c
  <1>7. pos \in [1 .. c -> K]
    BY <1>5, <1>6
  <1>8. ASSUME NEW i \in 1 .. c, NEW j \in 1 .. c, i < j PROVE pos[i] < pos[j]
    <2>1. pos[i] \in K /\ pos[j] \in K /\ upto[pos[i]] = i /\ upto[pos[j]] = j
      BY <1>5
    <2>2. pos[i] \in Nat /\ pos[j] \in Nat
      BY <1>2, <2>1
    <2>3. i \in Nat /\ j \in Nat
      BY <1>1
    <2>4. ~ (pos[j] < pos[i])
      <3> SUFFICES ASSUME pos[j] < pos[i] PROVE FALSE
        OBVIOUS
      <3>1. upto[pos[j]] < upto[pos[i]]
        BY <1>4, <2>1
      <3> QED
        BY <1>8, <2>1, <2>3, <3>1
    <2>5. CASE pos[j] = pos[i]
      BY <1>8, <2>1, <2>3, <2>5
    <2> QED
      BY <2>2, <2>4, <2>5
  <1>9. \A i, j \in 1 .. c : pos[i] = pos[j] => i = j
    BY <1>5
  <1>10. ASSUME NEW m \in K PROVE upto[m] \in 1 .. c /\ pos[upto[m]] = m
    <2>1. upto[m] \in 1 .. c
      BY <1>3
    <2>2. pos[upto[m]] \in K /\ upto[pos[upto[m]]] = upto[m]
      BY <1>5, <2>1
    <2>3. pos[upto[m]] \in Nat /\ m \in Nat
      BY <1>2, <2>2
    <2>4. upto[m] \in Nat
      BY <1>1, <2>1
    <2>5. ~ (pos[upto[m]] < m)
      <3> SUFFICES ASSUME pos[upto[m]] < m PROVE FALSE
        OBVIOUS
      <3>1. upto[pos[upto[m]]] < upto[m]
        BY <1>4, <2>2
      <3> QED
        BY <2>2, <2>4, <3>1
    <2>6. ~ (m < pos[upto[m]])
      <3> SUFFICES ASSUME m < pos[upto[m]] PROVE FALSE
        OBVIOUS
      <3>1. upto[m] < upto[pos[upto[m]]]
        BY <1>4, <2>2
      <3> QED
        BY <2>2, <2>4, <3>1
    <2> QED
      BY <2>1, <2>3, <2>5, <2>6
  <1>11. pos \in Bijection(1 .. c, K)
    BY <1>7, <1>9, <1>10, Fun_IsBij
  <1>12. \A m \in K : upto[m] = Cardinality(K \cap 1 .. m)
    BY DEF upto
  <1>13. \A i \in 1 .. c : Cardinality(K \cap 1 .. pos[i]) = i
    BY <1>5, <1>12
  <1>14. \A m \in K : /\ Cardinality(K \cap 1 .. m) \in 1 .. c
                      /\ pos[Cardinality(K \cap 1 .. m)] = m
    BY <1>10, <1>12
  <1> QED
    BY <1>1, <1>8, <1>11, <1>13, <1>14 DEF c, pos

(* Counting on either side of a bijection is the same.                     *)
LEMMA CountedThrough ==
  ASSUME NEW A, NEW B, NEW pos \in Bijection(A, B), IsFiniteSet(A), NEW Q \in SUBSET B,
         NEW P \in SUBSET A, \A a \in A : a \in P <=> pos[a] \in Q
  PROVE  /\ IsFiniteSet(P) /\ IsFiniteSet(Q)
         /\ Cardinality(P) = Cardinality(Q) /\ Cardinality(Q) \in Nat
  <1> DEFINE f == [a \in P |-> pos[a]]
  <1>1. /\ pos \in [A -> B] /\ \A a, b \in A : pos[a] = pos[b] => a = b
        /\ \A b \in B : \E a \in A : pos[a] = b
    BY DEF Bijection, Injection, Surjection, IsInjective
  <1>2. f \in [P -> Q]
    OBVIOUS
  <1>3. \A a, b \in P : f[a] = f[b] => a = b
    BY <1>1
  <1>4. \A q \in Q : \E a \in P : f[a] = q
    BY <1>1
  <1>5. IsFiniteSet(P)
    BY FS_Subset
  <1> HIDE DEF f
  <1>6. f \in Bijection(P, Q)
    BY <1>2, <1>3, <1>4, Fun_IsBij
  <1>7. ExistsBijection(P, Q)
    BY <1>6 DEF ExistsBijection
  <1>8. IsFiniteSet(Q) /\ Cardinality(Q) = Cardinality(P)
    BY <1>5, <1>7, FS_Bijection
  <1>9. Cardinality(Q) \in Nat
    BY <1>8, FS_CardinalityType
  <1> QED
    BY <1>5, <1>8, <1>9

-----------------------------------------------------------------------------
(* Insertion and removal in a sequence.                                    *)

LEMMA InsertAtElements ==
  ASSUME NEW S, NEW s \in Seq(S), NEW k \in 0 .. Len(s), NEW item \in S
  PROVE  /\ InsertAt(s, k + 1, item) \in Seq(S)
         /\ Len(s) \in Nat /\ Len(InsertAt(s, k + 1, item)) = Len(s) + 1
         /\ \A i \in 1 .. Len(s) + 1 :
              InsertAt(s, k + 1, item)[i] = IF i <= k THEN s[i]
                                            ELSE IF i = k + 1 THEN item ELSE s[i - 1]
<1> DEFINE l == Len(s)
           a == SubSeq(s, 1, k)
           b == <<item>>
           c == SubSeq(s, k + 1, l)
<1>1. l \in Nat /\ k \in Nat /\ k <= l /\ \A i \in 1 .. l : s[i] \in S
  BY LenProperties, ElementOfSeq
<1>2. /\ a \in Seq(S) /\ Len(a) = k /\ \A i \in 1 .. k : a[i] = s[i]
  BY <1>1, SubSeqProperties
<1>3. b \in Seq(S) /\ Len(b) = 1 /\ b[1] = item
  OBVIOUS
<1>4. /\ c \in Seq(S) /\ Len(c) = l - k
      /\ \A i \in 1 .. l - k : c[i] = s[k + i]
  BY <1>1, SubSeqProperties
<1>5. InsertAt(s, k + 1, item) = (a \o b) \o c
  <2>1. (k + 1) - 1 = k
    BY <1>1
  <2> QED
    BY <2>1 DEF InsertAt
<1> HIDE DEF a, b, c, l
<1>6. /\ a \o b \in Seq(S) /\ Len(a \o b) = k + 1
      /\ \A i \in 1 .. k + 1 : (a \o b)[i] = IF i <= k THEN a[i] ELSE b[i - k]
  <2>1. /\ a \o b \in Seq(S) /\ Len(a \o b) = Len(a) + Len(b)
        /\ \A i \in 1 .. Len(a) + Len(b) :
             (a \o b)[i] = IF i <= Len(a) THEN a[i] ELSE b[i - Len(a)]
    BY <1>2, <1>3, ConcatProperties
  <2> QED
    BY <1>1, <1>2, <1>3, <2>1
<1>7. /\ (a \o b) \o c \in Seq(S)
      /\ Len((a \o b) \o c) = (k + 1) + (l - k)
      /\ \A i \in 1 .. (k + 1) + (l - k) :
           ((a \o b) \o c)[i] = IF i <= k + 1 THEN (a \o b)[i] ELSE c[i - (k + 1)]
  <2>1. /\ (a \o b) \o c \in Seq(S) /\ Len((a \o b) \o c) = Len((a \o b)) + Len(c)
        /\ \A i \in 1 .. Len((a \o b)) + Len(c) :
             ((a \o b) \o c)[i] = IF i <= Len((a \o b)) THEN (a \o b)[i] ELSE c[i - Len((a \o b))]
    BY <1>4, <1>6, ConcatProperties
  <2> QED
    BY <1>1, <1>4, <1>6, <2>1
<1>8. ASSUME NEW i \in 1 .. l + 1
      PROVE  ((a \o b) \o c)[i] = IF i <= k THEN s[i]
                                  ELSE IF i = k + 1 THEN item ELSE s[i - 1]
  <2>0. i \in 1 .. (k + 1) + (l - k)
    BY <1>1
  <2>1. CASE i <= k
    <3>1. i \in 1 .. k /\ i \in 1 .. k + 1 /\ i <= k + 1
      BY <1>1, <2>1
    <3> QED
      BY <1>2, <1>6, <1>7, <2>0, <2>1, <3>1
  <2>2. CASE i = k + 1
    <3>1. i \in 1 .. k + 1 /\ ~ (i <= k) /\ i - k = 1 /\ i <= k + 1
      BY <1>1, <2>2
    <3> QED
      BY <1>3, <1>6, <1>7, <2>0, <2>2, <3>1
  <2>3. CASE i > k + 1
    <3>1. ~ (i <= k + 1) /\ ~ (i <= k) /\ i # k + 1
      BY <1>1, <2>3
    <3>2. i - (k + 1) \in 1 .. l - k /\ k + (i - (k + 1)) = i - 1
      BY <1>1, <2>3
    <3> QED
      BY <1>4, <1>7, <2>0, <3>1, <3>2
  <2>4. i <= k \/ i = k + 1 \/ i > k + 1
    BY <1>1
  <2> QED
    BY <2>1, <2>2, <2>3, <2>4
<1>9. (k + 1) + (l - k) = l + 1
  BY <1>1
<1> QED
  BY <1>1, <1>5, <1>7, <1>8, <1>9 DEF l

LEMMA RemoveAtElements ==
  ASSUME NEW S, NEW s \in Seq(S), NEW k \in 1 .. Len(s)
  PROVE  /\ RemoveAt(s, k) \in Seq(S)
         /\ Len(s) \in Nat /\ Len(RemoveAt(s, k)) = Len(s) - 1
         /\ \A i \in 1 .. Len(s) - 1 :
              RemoveAt(s, k)[i] = IF i < k THEN s[i] ELSE s[i + 1]
<1> DEFINE l == Len(s)
           a == SubSeq(s, 1, k - 1)
           c == SubSeq(s, k + 1, l)
<1>1. l \in Nat /\ k \in Nat /\ k <= l /\ k > 0 /\ \A i \in 1 .. l : s[i] \in S
  BY LenProperties, ElementOfSeq
<1>2. /\ a \in Seq(S) /\ Len(a) = k - 1 /\ \A i \in 1 .. k - 1 : a[i] = s[i]
  BY <1>1, SubSeqProperties
<1>3. /\ c \in Seq(S) /\ Len(c) = l - k
      /\ \A i \in 1 .. l - k : c[i] = s[k + i]
  BY <1>1, SubSeqProperties
<1>4. RemoveAt(s, k) = a \o c
  BY DEF RemoveAt
<1> HIDE DEF a, c, l
<1>5. /\ a \o c \in Seq(S) /\ Len(a \o c) = (k - 1) + (l - k)
      /\ \A i \in 1 .. (k - 1) + (l - k) :
           (a \o c)[i] = IF i <= k - 1 THEN a[i] ELSE c[i - (k - 1)]
  <2>1. /\ a \o c \in Seq(S) /\ Len(a \o c) = Len(a) + Len(c)
        /\ \A i \in 1 .. Len(a) + Len(c) :
             (a \o c)[i] = IF i <= Len(a) THEN a[i] ELSE c[i - Len(a)]
    BY <1>2, <1>3, ConcatProperties
  <2> QED
    BY <1>1, <1>2, <1>3, <2>1
<1>6. ASSUME NEW i \in 1 .. l - 1
      PROVE  (a \o c)[i] = IF i < k THEN s[i] ELSE s[i + 1]
  <2>0. i \in 1 .. (k - 1) + (l - k)
    BY <1>1
  <2>1. CASE i < k
    <3>1. i \in 1 .. k - 1 /\ i <= k - 1
      BY <1>1, <2>1
    <3> QED
      BY <1>2, <1>5, <2>0, <2>1, <3>1
  <2>2. CASE i >= k
    <3>1. ~ (i <= k - 1) /\ ~ (i < k)
      BY <1>1, <2>2
    <3>2. i - (k - 1) \in 1 .. l - k /\ k + (i - (k - 1)) = i + 1
      BY <1>1, <2>2
    <3> QED
      BY <1>3, <1>5, <2>0, <3>1, <3>2
  <2>3. i < k \/ i >= k
    BY <1>1
  <2> QED
    BY <2>1, <2>2, <2>3
<1>7. (k - 1) + (l - k) = l - 1
  BY <1>1
<1> QED
  BY <1>1, <1>4, <1>5, <1>6, <1>7 DEF l

-----------------------------------------------------------------------------
(* Parts of a sequence, and how much of it is in a set.                    *)

Counted(s, T) == Cardinality({n \in DOMAIN s : s[n] \in T})

LEMMA KeptElements ==
  ASSUME NEW S, NEW s \in Seq(S), NEW I \in SUBSET DOMAIN s
  PROVE  /\ PartAt(s, I) \in Seq(S) /\ IsFiniteSet(I)
         /\ Len(PartAt(s, I)) = Cardinality(I) /\ Cardinality(I) \in Nat
         /\ Positioned(I) \in Bijection(1 .. Cardinality(I), I)
         /\ \A i, j \in 1 .. Cardinality(I) : i < j => Positioned(I)[i] < Positioned(I)[j]
         /\ \A i \in 1 .. Cardinality(I) :
               Positioned(I)[i] \in I /\ PartAt(s, I)[i] = s[Positioned(I)[i]]
         /\ \A n \in I : \E i \in 1 .. Cardinality(I) : Positioned(I)[i] = n
  <1> DEFINE pos == Positioned(I)
             c == Cardinality(I)
  <1>1. Len(s) \in Nat /\ DOMAIN s = 1 .. Len(s) /\ \A n \in 1 .. Len(s) : s[n] \in S
    BY LenProperties, ElementOfSeq
  <1>2. /\ IsFiniteSet(I) /\ c \in Nat /\ pos \in Bijection(1 .. c, I)
        /\ \A i, j \in 1 .. c : i < j => pos[i] < pos[j]
    BY <1>1, PositionsInOrder
  <1>3. PartAt(s, I) = [i \in 1 .. c |-> s[pos[i]]]
    BY DEF PartAt, Positioned
  <1> HIDE DEF pos, c
  <1>4. pos \in [1 .. c -> I] /\ \A n \in I : \E i \in 1 .. c : pos[i] = n
    BY <1>2 DEF Bijection, Injection, Surjection
  <1>5. PartAt(s, I) \in [1 .. c -> S]
    BY <1>1, <1>3, <1>4
  <1>6. PartAt(s, I) \in Seq(S) /\ Len(PartAt(s, I)) = c
    BY <1>2, <1>5
  <1> QED
    BY <1>2, <1>3, <1>4, <1>6 DEF pos, c

LEMMA KeptNothing ==
  ASSUME NEW s
  PROVE  PartAt(s, {}) = <<>>
  <1>1. Cardinality({}) = 0
    BY FS_EmptySet
  <1> QED
    BY <1>1 DEF PartAt

LEMMA CountKnown ==
  ASSUME NEW S, NEW s \in Seq(S), NEW T
  PROVE  /\ DOMAIN s = 1 .. Len(s) /\ Len(s) \in Nat
         /\ IsFiniteSet({n \in DOMAIN s : s[n] \in T})
         /\ Counted(s, T) \in Nat
  <1>1. DOMAIN s = 1 .. Len(s) /\ Len(s) \in Nat /\ IsFiniteSet(1 .. Len(s))
    BY LenProperties, FS_Interval
  <1>2. IsFiniteSet({n \in DOMAIN s : s[n] \in T})
    BY <1>1, FS_Subset
  <1> QED
    BY <1>1, <1>2, FS_CardinalityType DEF Counted

LEMMA CountFew ==
  ASSUME NEW T
  PROVE  /\ Counted(<<>>, T) = 0
         /\ \A x : Counted(<<x>>, T) = IF x \in T THEN 1 ELSE 0
  <1>1. {n \in DOMAIN <<>> : <<>>[n] \in T} = {}
    OBVIOUS
  <1>2. ASSUME NEW x PROVE Counted(<<x>>, T) = IF x \in T THEN 1 ELSE 0
    <2>1. {n \in DOMAIN <<x>> : <<x>>[n] \in T} = IF x \in T THEN {1} ELSE {}
      OBVIOUS
    <2> QED
      BY <2>1, FS_EmptySet, FS_Singleton DEF Counted
  <1> QED
    BY <1>1, <1>2, FS_EmptySet DEF Counted

LEMMA CountBoth ==
  ASSUME NEW S, NEW s \in Seq(S), NEW t \in Seq(S), NEW T
  PROVE  Counted(s \o t, T) = Counted(s, T) + Counted(t, T)
  <1> DEFINE l == Len(s)
             m == Len(t)
             u == s \o t
             A == {n \in 1 .. l : s[n] \in T}
             B == {n \in 1 .. m : t[n] \in T}
             C == {n \in l + 1 .. l + m : u[n] \in T}
             shift == [n \in B |-> n + l]
  <1>1. /\ l \in Nat /\ m \in Nat /\ u \in Seq(S) /\ DOMAIN u = 1 .. l + m
        /\ DOMAIN s = 1 .. l /\ DOMAIN t = 1 .. m
        /\ \A n \in 1 .. l : u[n] = s[n]
        /\ \A n \in 1 .. m : u[n + l] = t[n]
    BY LenProperties, ConcatProperties
  <1>2. IsFiniteSet(A) /\ IsFiniteSet(B) /\ Cardinality(A) \in Nat /\ Cardinality(B) \in Nat
    <2>1. IsFiniteSet(1 .. l) /\ IsFiniteSet(1 .. m)
      BY <1>1, FS_Interval
    <2>2. A \subseteq 1 .. l /\ B \subseteq 1 .. m
      OBVIOUS
    <2> HIDE DEF A, B, l, m
    <2>3. IsFiniteSet(A) /\ IsFiniteSet(B)
      BY <2>1, <2>2, FS_Subset
    <2> QED
      BY <2>3, FS_CardinalityType
  <1>3. shift \in Bijection(B, C)
    <2>1. ASSUME NEW n \in B PROVE n + l \in C
      BY <1>1
    <2>2. ASSUME NEW n \in C PROVE n - l \in B /\ shift[n - l] = n
      <3>1. n - l \in 1 .. m /\ (n - l) + l = n
        BY <1>1
      <3>2. t[n - l] = u[n]
        BY <1>1, <3>1
      <3>3. n - l \in B
        BY <3>1, <3>2
      <3> QED
        BY <3>1, <3>3
    <2>3. \A a, b \in B : shift[a] = shift[b] => a = b
      BY <1>1
    <2>4. shift \in [B -> C]
      BY <2>1
    <2> HIDE DEF B, C, shift
    <2> QED
      BY <2>2, <2>3, <2>4 DEF Bijection, Injection, Surjection, IsInjective
  <1>4. IsFiniteSet(C) /\ Cardinality(C) = Cardinality(B)
    <2> HIDE DEF A, B, C, shift
    <2>1. shift \in Bijection(B, C)
      BY <1>3
    <2> QED
      BY <1>2, <2>1, FS_Bijection DEF ExistsBijection
  <1>5. {n \in DOMAIN u : u[n] \in T} = A \cup C /\ A \cap C = {}
    BY <1>1
  <1>6. Cardinality(A \cup C) = Cardinality(A) + Cardinality(C) - Cardinality(A \cap C)
    <2> HIDE DEF A, C
    <2> QED
      BY <1>2, <1>4, FS_Union
  <1>7. Cardinality(A \cap C) = 0
    BY <1>5, FS_EmptySet
  <1>8. Counted(s, T) = Cardinality(A) /\ Counted(t, T) = Cardinality(B)
        /\ Counted(u, T) = Cardinality(A \cup C)
    BY <1>1, <1>5 DEF Counted
  <1> HIDE DEF A, B, C
  <1> QED
    BY <1>2, <1>4, <1>6, <1>7, <1>8

LEMMA CountDistinct ==
  ASSUME NEW S, NEW s \in Seq(S), \A i, j \in 1 .. Len(s) : s[i] = s[j] => i = j, NEW x
  PROVE  Counted(s, {x}) = IF x \in ToSet(s) THEN 1 ELSE 0
  <1>1. DOMAIN s = 1 .. Len(s)
    BY LenProperties
  <1>2. CASE x \in ToSet(s)
    <2>1. PICK k \in 1 .. Len(s) : s[k] = x
      BY <1>1, <1>2 DEF ToSet
    <2>2. {n \in DOMAIN s : s[n] \in {x}} = {k}
      BY <1>1, <2>1
    <2> QED
      BY <1>2, <2>2, FS_Singleton DEF Counted
  <1>3. CASE x \notin ToSet(s)
    <2>1. {n \in DOMAIN s : s[n] \in {x}} = {}
      BY <1>3 DEF ToSet
    <2> QED
      BY <1>3, <2>1, FS_EmptySet DEF Counted
  <1> QED
    BY <1>2, <1>3

-----------------------------------------------------------------------------
(* Several sequences as one.                                               *)

JoinedBy(upto, ss) ==
    upto = [n \in 0 .. Len(ss) |-> IF n = 0 THEN <<>> ELSE upto[n - 1] \o ss[n]]

LEMMA JoinedSteps ==
  ASSUME NEW S, NEW ss \in Seq(Seq(S))
  PROVE  \E f \in [0 .. Len(ss) -> Seq(S)] : JoinedBy(f, ss) /\ Joined(ss) = f[Len(ss)]
  <1> DEFINE L == Len(ss)
             A == Seq(S)
             step == [an \in A \X (1 .. L) |-> an[1] \o ss[an[2]]]
  <1>1. L \in Nat /\ \A n \in 1 .. L : ss[n] \in A
    BY LenProperties, ElementOfSeq
  <1>2. <<>> \in A /\ \A a, b \in A : a \o b \in A
    BY ConcatProperties
  <1>3. step \in [A \X (1 .. L) -> A]
    BY <1>1, <1>2
  <1>4. \A a \in A, n \in 1 .. L : step[<<a, n>>] = a \o ss[n]
    OBVIOUS
  <1> HIDE DEF L, A, step
  <1>5. PICK f : StepsFrom(f, L, A, <<>>, step)
    BY <1>1, <1>2, <1>3, StepByStep
  <1>6. f \in [0 .. L -> A] /\ f[0] = <<>>
        /\ \A n \in 1 .. L : f[n] = step[<<f[n - 1], n>>]
    BY <1>5 DEF StepsFrom
  <1>7. ASSUME NEW n \in 0 .. L PROVE f[n] = IF n = 0 THEN <<>> ELSE f[n - 1] \o ss[n]
    <2>1. CASE n = 0
      BY <1>6, <2>1
    <2>2. CASE n # 0
      <3>1. n \in 1 .. L /\ n - 1 \in 0 .. L
        BY <1>1, <2>2
      <3> QED
        BY <1>4, <1>6, <2>2, <3>1
    <2> QED
      BY <2>1, <2>2
  <1>8. f = [n \in 0 .. L |-> IF n = 0 THEN <<>> ELSE f[n - 1] \o ss[n]]
    BY <1>6, <1>7
  <1>9. JoinedBy(f, ss)
    BY <1>8 DEF JoinedBy, L
  <1> DEFINE g == CHOOSE upto : JoinedBy(upto, ss)
  <1>10. JoinedBy(g, ss)
    BY <1>9
  <1>11. Joined(ss) = g[L]
    BY DEF Joined, JoinedBy, L
  <1> HIDE DEF g
  <1>12. g = [n \in 0 .. L |-> IF n = 0 THEN <<>> ELSE g[n - 1] \o ss[n]]
    BY <1>10 DEF JoinedBy, L
  <1>13. g[0] = <<>> /\ \A n \in 1 .. L : g[n] = g[n - 1] \o ss[n]
    <2>1. 0 \in 0 .. L /\ \A n \in 1 .. L : n \in 0 .. L /\ n # 0
      BY <1>1
    <2>2. \A n \in 0 .. L : g[n] = IF n = 0 THEN <<>> ELSE g[n - 1] \o ss[n]
      BY <1>12
    <2> QED
      BY <2>1, <2>2
  <1> DEFINE T == {n \in 0 .. L : g[n] \in A}
  <1>14. 0 \in T
    BY <1>1, <1>2, <1>13
  <1>15. ASSUME NEW n \in 1 .. L, n - 1 \in T PROVE n \in T
    <2>1. g[n - 1] \in A /\ ss[n] \in A /\ n \in 0 .. L
      BY <1>1, <1>15
    <2> QED
      BY <1>2, <1>13, <2>1
  <1>16. \A n \in 0 .. L : n \in T
    <2> HIDE DEF T
    <2> QED
      BY <1>1, <1>14, <1>15, UpTo
  <1>17. g \in [0 .. L -> A]
    BY <1>12, <1>16
  <1> QED
    BY <1>10, <1>11, <1>17 DEF L, A

LEMMA JoinedStep ==
  ASSUME NEW ss, NEW f, JoinedBy(f, ss), Len(ss) \in Nat
  PROVE  f[0] = <<>> /\ \A n \in 1 .. Len(ss) : f[n] = f[n - 1] \o ss[n]
  <1> DEFINE L == Len(ss)
  <1>1. f = [n \in 0 .. L |-> IF n = 0 THEN <<>> ELSE f[n - 1] \o ss[n]]
    BY DEF JoinedBy
  <1>2. L \in Nat
    OBVIOUS
  <1> HIDE DEF L
  <1>3. 0 \in 0 .. L /\ \A n \in 1 .. L : n \in 0 .. L /\ n # 0
    BY <1>2
  <1>4. \A n \in 0 .. L : f[n] = IF n = 0 THEN <<>> ELSE f[n - 1] \o ss[n]
    BY <1>1
  <1> QED
    BY <1>3, <1>4 DEF L

(* What is true of <<>> and of two sequences joined is true of many.       *)
LEMMA JoinedIn ==
  ASSUME NEW S, NEW ss \in Seq(Seq(S)), NEW T, <<>> \in T, \A a, b \in T : a \o b \in T,
         \A n \in 1 .. Len(ss) : ss[n] \in T
  PROVE  Joined(ss) \in T
  <1> DEFINE L == Len(ss)
  <1>1. PICK f : JoinedBy(f, ss) /\ Joined(ss) = f[L]
    BY JoinedSteps
  <1>2. L \in Nat
    BY LenProperties
  <1>3. f[0] = <<>> /\ \A n \in 1 .. L : f[n] = f[n - 1] \o ss[n]
    BY <1>1, <1>2, JoinedStep
  <1> HIDE DEF L
  <1> DEFINE U == {n \in 0 .. L : f[n] \in T}
  <1>4. 0 \in U
    BY <1>2, <1>3
  <1>5. \A n \in 1 .. L : n - 1 \in U => n \in U
    <2> SUFFICES ASSUME NEW n \in 1 .. L, n - 1 \in U PROVE n \in U
      OBVIOUS
    <2>1. n \in 0 .. L /\ ss[n] \in T /\ f[n - 1] \in T
      BY <1>2 DEF L
    <2> QED
      BY <1>3, <2>1
  <1>6. \A n \in 0 .. L : n \in U
    <2> HIDE DEF U
    <2> QED
      BY <1>2, <1>4, <1>5, UpTo
  <1> QED
    BY <1>1, <1>2, <1>6

LEMMA JoinedBoth ==
  ASSUME NEW S, NEW ss \in Seq(Seq(S)), NEW tt \in Seq(Seq(S))
  PROVE  /\ Joined(ss) \in Seq(S) /\ Joined(tt) \in Seq(S)
         /\ Joined(ss \o tt) = Joined(ss) \o Joined(tt)
  <1> DEFINE A == Seq(S)
             L == Len(ss)
             M == Len(tt)
             uu == ss \o tt
  <1>1. /\ L \in Nat /\ M \in Nat /\ uu \in Seq(A) /\ Len(uu) = L + M
        /\ \A n \in 1 .. L : uu[n] = ss[n] /\ ss[n] \in A
        /\ \A n \in 1 .. M : uu[n + L] = tt[n] /\ tt[n] \in A
    BY LenProperties, ConcatProperties, ElementOfSeq
  <1>2. PICK f \in [0 .. L -> A] : JoinedBy(f, ss) /\ Joined(ss) = f[L]
    BY JoinedSteps
  <1>3. PICK g \in [0 .. M -> A] : JoinedBy(g, tt) /\ Joined(tt) = g[M]
    BY JoinedSteps
  <1> HIDE DEF L, M, uu
  <1>4. PICK h \in [0 .. L + M -> A] : JoinedBy(h, uu) /\ Joined(uu) = h[L + M]
    <2> HIDE DEF A
    <2>1. uu \in Seq(Seq(S))
      BY <1>1 DEF A
    <2>2. \E h \in [0 .. Len(uu) -> Seq(S)] : JoinedBy(h, uu) /\ Joined(uu) = h[Len(uu)]
      BY <2>1, JoinedSteps
    <2> QED
      BY <1>1, <2>2 DEF A
  <1>5. /\ f[0] = <<>> /\ \A n \in 1 .. L : f[n] = f[n - 1] \o ss[n]
        /\ g[0] = <<>> /\ \A n \in 1 .. M : g[n] = g[n - 1] \o tt[n]
        /\ h[0] = <<>> /\ \A n \in 1 .. L + M : h[n] = h[n - 1] \o uu[n]
    <2>1. f[0] = <<>> /\ \A n \in 1 .. L : f[n] = f[n - 1] \o ss[n]
      BY <1>1, <1>2, JoinedStep DEF L
    <2>2. g[0] = <<>> /\ \A n \in 1 .. M : g[n] = g[n - 1] \o tt[n]
      BY <1>1, <1>3, JoinedStep DEF M
    <2>3. L + M \in Nat
      BY <1>1
    <2>4. h[0] = <<>> /\ \A n \in 1 .. Len(uu) : h[n] = h[n - 1] \o uu[n]
      BY <1>1, <1>4, <2>3, JoinedStep
    <2> QED
      BY <1>1, <2>1, <2>2, <2>4
  <1>11. \A a, b, c \in Seq(S) : (a \o b) \o c = a \o (b \o c)
    BY ConcatAssociative, SMTT(30)
  <1> DEFINE U == {n \in 0 .. L : h[n] = f[n]}
             V == {n \in 0 .. M : h[n + L] = f[L] \o g[n]}
  <1>6. 0 \in U /\ \A n \in 1 .. L : n - 1 \in U => n \in U
    <2>1. ASSUME NEW n \in 1 .. L, n - 1 \in U PROVE n \in U
      <3>1. n \in 1 .. L + M /\ n \in 0 .. L /\ h[n - 1] = f[n - 1] /\ uu[n] = ss[n]
        BY <1>1, <2>1
      <3> QED
        BY <1>5, <3>1
    <2> QED
      BY <1>1, <1>5, <2>1
  <1>7. h[L] = f[L]
    <2>1. \A n \in 0 .. L : n \in U
      <3> HIDE DEF U
      <3> QED
        BY <1>1, <1>6, UpTo
    <2> QED
      BY <1>1, <2>1
  <1>8. 0 \in V /\ \A n \in 1 .. M : n - 1 \in V => n \in V
    <2>0. f[L] \in A /\ \A n \in 0 .. M : g[n] \in A
      BY <1>1, <1>2, <1>3
    <2>1. 0 \in V
      <3>1. f[L] \o <<>> = f[L]
        BY <2>0, ConcatEmptySeq
      <3>2. 0 + L = L /\ 0 \in 0 .. M
        BY <1>1
      <3> QED
        BY <1>5, <1>7, <3>1, <3>2
    <2>2. ASSUME NEW n \in 1 .. M, n - 1 \in V PROVE n \in V
      <3>1. /\ n + L \in 1 .. L + M /\ (n + L) - 1 = (n - 1) + L
            /\ n \in 0 .. M /\ n - 1 \in 0 .. M
        BY <1>1
      <3>2. h[n + L] = h[(n - 1) + L] \o tt[n]
        BY <1>1, <1>5, <3>1
      <3>3. h[(n - 1) + L] = f[L] \o g[n - 1]
        BY <2>2
      <3>4. f[L] \in A /\ g[n - 1] \in A /\ tt[n] \in A
        BY <1>1, <2>0, <3>1
      <3>5. (f[L] \o g[n - 1]) \o tt[n] = f[L] \o (g[n - 1] \o tt[n])
        <4> DEFINE a == f[L]
                   b == g[n - 1]
                   c == tt[n]
        <4>1. a \in Seq(S) /\ b \in Seq(S) /\ c \in Seq(S)
          BY <3>4
        <4> HIDE DEF a, b, c
        <4> HIDE DEF A, U, V
        <4>2. (a \o b) \o c = a \o (b \o c)
          BY <1>11, <4>1
        <4> QED
          BY <4>2 DEF a, b, c
      <3> QED
        BY <1>5, <3>1, <3>2, <3>3, <3>5
    <2> QED
      BY <2>1, <2>2
  <1>9. h[M + L] = f[L] \o g[M]
    <2>1. \A n \in 0 .. M : n \in V
      <3> HIDE DEF V
      <3> QED
        BY <1>1, <1>8, UpTo
    <2>2. M \in V
      <3> HIDE DEF V
      <3>1. M \in 0 .. M
        BY <1>1
      <3> QED
        BY <2>1, <3>1
    <2> QED
      BY <2>2
  <1>10. M + L = L + M /\ L \in 0 .. L /\ M \in 0 .. M
    BY <1>1
  <1> QED
    BY <1>2, <1>3, <1>4, <1>9, <1>10 DEF uu, A

(* What a loop over s makes of its elements, F[x] of x.                    *)
Over(F, s) == Joined([n \in DOMAIN s |-> F[s[n]]])

LEMMA OverKnown ==
  ASSUME NEW A, NEW S, NEW F \in [A -> Seq(S)], NEW s \in Seq(A)
  PROVE  /\ [n \in DOMAIN s |-> F[s[n]]] \in Seq(Seq(S))
         /\ Len([n \in DOMAIN s |-> F[s[n]]]) = Len(s)
         /\ Over(F, s) \in Seq(S)
  <1> DEFINE ss == [n \in DOMAIN s |-> F[s[n]]]
  <1>1. Len(s) \in Nat /\ DOMAIN s = 1 .. Len(s) /\ \A n \in 1 .. Len(s) : s[n] \in A
    BY LenProperties, ElementOfSeq
  <1>2. ss \in [1 .. Len(s) -> Seq(S)]
    BY <1>1
  <1> HIDE DEF ss
  <1>3. ss \in Seq(Seq(S)) /\ Len(ss) = Len(s)
    <2> DEFINE B == Seq(S)
               l == Len(s)
    <2>1. l \in Nat /\ ss \in [1 .. l -> B]
      BY <1>1, <1>2
    <2> HIDE DEF B, l
    <2>2. ss \in Seq(B) /\ Len(ss) = l
      BY <2>1
    <2> QED
      BY <2>2 DEF B, l
  <1>4. Joined(ss) \in Seq(S)
    <2>1. PICK f \in [0 .. Len(ss) -> Seq(S)] : JoinedBy(f, ss) /\ Joined(ss) = f[Len(ss)]
      BY <1>3, JoinedSteps
    <2>2. Len(ss) \in 0 .. Len(ss)
      BY <1>1, <1>3
    <2> QED
      BY <2>1, <2>2
  <1> QED
    BY <1>3, <1>4 DEF ss, Over

LEMMA OverFew ==
  ASSUME NEW A, NEW S, NEW F \in [A -> Seq(S)]
  PROVE  /\ Over(F, <<>>) = <<>>
         /\ \A x \in A : Over(F, <<x>>) = F[x]
  <1>1. ASSUME NEW s \in Seq(A), Len(s) = 0 PROVE Over(F, s) = <<>>
    <2> DEFINE ss == [n \in DOMAIN s |-> F[s[n]]]
    <2>1. ss \in Seq(Seq(S)) /\ Len(ss) = 0
      BY <1>1, OverKnown
    <2> HIDE DEF ss
    <2>2. PICK f \in [0 .. Len(ss) -> Seq(S)] : JoinedBy(f, ss) /\ Joined(ss) = f[Len(ss)]
      BY <2>1, JoinedSteps
    <2>3. f[0] = <<>>
      <3>1. JoinedBy(f, ss) /\ Len(ss) \in Nat
        BY <2>1, <2>2
      <3> QED
        BY <3>1, JoinedStep
    <2> QED
      BY <2>1, <2>2, <2>3 DEF Over, ss
  <1>2. ASSUME NEW x \in A PROVE Over(F, <<x>>) = F[x]
    <2> DEFINE s == <<x>>
               ss == [n \in DOMAIN s |-> F[s[n]]]
    <2>1. s \in Seq(A) /\ Len(s) = 1 /\ s[1] = x /\ DOMAIN s = 1 .. 1
      OBVIOUS
    <2>2. ss[1] = F[x]
      BY <2>1
    <2> HIDE DEF s
    <2>3. ss \in Seq(Seq(S)) /\ Len(ss) = 1
      BY <2>1, OverKnown
    <2> HIDE DEF ss
    <2>4. PICK f \in [0 .. Len(ss) -> Seq(S)] : JoinedBy(f, ss) /\ Joined(ss) = f[Len(ss)]
      BY <2>3, JoinedSteps
    <2>5. f[0] = <<>> /\ f[1] = f[1 - 1] \o ss[1]
      <3>1. JoinedBy(f, ss) /\ Len(ss) \in Nat
        BY <2>3, <2>4
      <3>2. f[0] = <<>> /\ \A n \in 1 .. Len(ss) : f[n] = f[n - 1] \o ss[n]
        BY <3>1, JoinedStep
      <3>3. 1 \in 1 .. Len(ss)
        BY <2>3
      <3> QED
        BY <3>2, <3>3
    <2>6. <<>> \o F[x] = F[x]
      BY ConcatEmptySeq
    <2>7. f[1] = F[x]
      BY <2>2, <2>5, <2>6
    <2> QED
      BY <2>3, <2>4, <2>7 DEF Over, ss, s
  <1>3. <<>> \in Seq(A) /\ Len(<<>>) = 0
    OBVIOUS
  <1> QED
    BY <1>1, <1>2, <1>3

LEMMA OverBoth ==
  ASSUME NEW A, NEW S, NEW F \in [A -> Seq(S)]
  PROVE  \A s, t \in Seq(A) : Over(F, s \o t) = Over(F, s) \o Over(F, t)
  <1> SUFFICES ASSUME NEW s \in Seq(A), NEW t \in Seq(A)
               PROVE  Over(F, s \o t) = Over(F, s) \o Over(F, t)
    OBVIOUS
  <1> DEFINE u == s \o t
             ss == [n \in DOMAIN s |-> F[s[n]]]
             tt == [n \in DOMAIN t |-> F[t[n]]]
             uu == [n \in DOMAIN u |-> F[u[n]]]
             l == Len(s)
             m == Len(t)
  <1>1. /\ l \in Nat /\ m \in Nat /\ u \in Seq(A) /\ Len(u) = l + m
        /\ DOMAIN s = 1 .. l /\ DOMAIN t = 1 .. m /\ DOMAIN u = 1 .. l + m
        /\ \A n \in 1 .. l : u[n] = s[n]
        /\ \A n \in 1 .. m : u[n + l] = t[n]
    BY LenProperties, ConcatProperties
  <1>2. /\ ss \in Seq(Seq(S)) /\ Len(ss) = l /\ tt \in Seq(Seq(S)) /\ Len(tt) = m
        /\ uu \in Seq(Seq(S)) /\ Len(uu) = l + m
    <2> HIDE DEF u
    <2> QED
      BY <1>1, OverKnown
  <1>3. /\ \A n \in 1 .. l : ss[n] = F[s[n]]
        /\ \A n \in 1 .. m : tt[n] = F[t[n]]
        /\ \A n \in 1 .. l + m : uu[n] = F[u[n]]
    BY <1>1
  <1> HIDE DEF u, ss, tt, uu, l, m
  <1>4. /\ ss \o tt \in Seq(Seq(S)) /\ Len(ss \o tt) = l + m
        /\ \A n \in 1 .. l + m : (ss \o tt)[n] = IF n <= l THEN ss[n] ELSE tt[n - l]
    BY <1>2, ConcatProperties
  <1>5. \A n \in 1 .. l + m : (ss \o tt)[n] = uu[n]
    <2> SUFFICES ASSUME NEW n \in 1 .. l + m PROVE (ss \o tt)[n] = uu[n]
      OBVIOUS
    <2>1. CASE n <= l
      <3>1. n \in 1 .. l
        BY <1>1, <2>1
      <3> QED
        BY <1>1, <1>3, <1>4, <2>1, <3>1
    <2>2. CASE ~(n <= l)
      <3>1. n - l \in 1 .. m /\ (n - l) + l = n
        BY <1>1, <2>2
      <3> QED
        BY <1>1, <1>3, <1>4, <2>2, <3>1
    <2> QED
      BY <2>1, <2>2
  <1>6. ss \o tt = uu
    BY <1>2, <1>4, <1>5, SeqEqual
  <1>7. /\ Joined(ss) \in Seq(S) /\ Joined(tt) \in Seq(S)
        /\ Joined(ss \o tt) = Joined(ss) \o Joined(tt)
    BY <1>2, JoinedBoth
  <1> QED
    BY <1>6, <1>7 DEF Over, ss, tt, uu, u

-----------------------------------------------------------------------------
(* The first element and the rest.                                         *)

LEMMA FirstAndRest ==
  ASSUME NEW S, NEW s \in Seq(S), s # <<>>
  PROVE  /\ Head(s) = s[1] /\ Head(s) \in S /\ 1 \in DOMAIN s
         /\ Tail(s) \in Seq(S) /\ Len(Tail(s)) = Len(s) - 1 /\ Len(s) \in Nat /\ Len(s) > 0
         /\ \A n \in 1 .. Len(s) - 1 : Tail(s)[n] = s[n + 1]
         /\ s = <<Head(s)>> \o Tail(s) /\ <<Head(s)>> \in Seq(S)
         /\ ToSet(s) = {Head(s)} \cup ToSet(Tail(s))
  <1> DEFINE l == Len(s)
             t == Tail(s)
             h == <<Head(s)>>
             u == h \o t
  <1>1. /\ l \in Nat /\ l > 0 /\ DOMAIN s = 1 .. l
        /\ Head(s) = s[1] /\ s[1] \in S
        /\ \A n \in 1 .. l : s[n] \in S
    BY LenProperties, ElementOfSeq, EmptySeq
  <1>2. t \in Seq(S) /\ Len(t) = l - 1 /\ \A n \in 1 .. l - 1 : t[n] = s[n + 1]
    BY <1>1, HeadTailProperties
  <1>3. h \in Seq(S) /\ Len(h) = 1 /\ h[1] = s[1]
    BY <1>1
  <1> HIDE DEF t, h, l
  <1>4. u \in Seq(S) /\ Len(u) = 1 + (l - 1)
        /\ \A n \in 1 .. 1 + (l - 1) : u[n] = IF n <= 1 THEN h[n] ELSE t[n - 1]
    <2> HIDE DEF u
    <2>0. ASSUME NEW a \in Seq(S), NEW b \in Seq(S)
          PROVE  /\ a \o b \in Seq(S) /\ Len(a \o b) = Len(a) + Len(b)
                 /\ \A n \in 1 .. Len(a) + Len(b) :
                       (a \o b)[n] = IF n <= Len(a) THEN a[n] ELSE b[n - Len(a)]
      BY ConcatProperties
    <2>1. /\ h \o t \in Seq(S) /\ Len(h \o t) = Len(h) + Len(t)
          /\ \A n \in 1 .. Len(h) + Len(t) :
                (h \o t)[n] = IF n <= Len(h) THEN h[n] ELSE t[n - Len(h)]
      BY <1>2, <1>3, <2>0
    <2> QED
      BY <1>2, <1>3, <2>1 DEF u
  <1>5. \A n \in 1 .. l : u[n] = s[n]
    <2> SUFFICES ASSUME NEW n \in 1 .. l PROVE u[n] = s[n]
      OBVIOUS
    <2> HIDE DEF u
    <2>1. CASE n = 1
      BY <1>1, <1>3, <1>4, <2>1
    <2>2. CASE n # 1
      <3>1. n - 1 \in 1 .. l - 1 /\ n \in 1 .. 1 + (l - 1) /\ ~(n <= 1) /\ (n - 1) + 1 = n
        BY <1>1, <2>2
      <3> QED
        BY <1>2, <1>4, <3>1
    <2> QED
      BY <2>1, <2>2
  <1>6. 1 + (l - 1) = l
    BY <1>1
  <1>7. s = u
    <2> HIDE DEF u
    <2> QED
      BY <1>4, <1>5, <1>6, SeqEqual DEF l
  <1>8. ToSet(s) = {Head(s)} \cup ToSet(t)
    <2>1. DOMAIN t = 1 .. l - 1
      BY <1>2, LenProperties
    <2>2. ToSet(s) = {s[n] : n \in 1 .. l} /\ ToSet(t) = {t[n] : n \in 1 .. l - 1}
      BY <1>1, <2>1 DEF ToSet
    <2>3. \A n \in 1 .. l : n = 1 \/ (n - 1 \in 1 .. l - 1 /\ s[n] = t[n - 1])
      <3> SUFFICES ASSUME NEW n \in 1 .. l, n # 1
                   PROVE  n - 1 \in 1 .. l - 1 /\ s[n] = t[n - 1]
        OBVIOUS
      <3>1. n - 1 \in 1 .. l - 1 /\ (n - 1) + 1 = n
        BY <1>1
      <3> QED
        BY <1>2, <3>1
    <2>4. \A n \in 1 .. l - 1 : n + 1 \in 1 .. l /\ t[n] = s[n + 1]
      BY <1>1, <1>2
    <2>5. 1 \in 1 .. l
      BY <1>1
    <2> QED
      BY <1>1, <2>2, <2>3, <2>4, <2>5
  <1> QED
    BY <1>1, <1>2, <1>3, <1>7, <1>8 DEF l, t, h, u

LEMMA SetOfBoth ==
  ASSUME NEW S, NEW s \in Seq(S), NEW t \in Seq(S)
  PROVE  ToSet(s \o t) = ToSet(s) \cup ToSet(t)
  <1> DEFINE l == Len(s)
             m == Len(t)
             u == s \o t
  <1>1. /\ l \in Nat /\ m \in Nat /\ DOMAIN u = 1 .. l + m
        /\ DOMAIN s = 1 .. l /\ DOMAIN t = 1 .. m
        /\ \A n \in 1 .. l : u[n] = s[n]
        /\ \A n \in 1 .. m : u[n + l] = t[n]
    BY LenProperties, ConcatProperties
  <1> HIDE DEF l, m, u
  <1>2. /\ ToSet(u) = {u[n] : n \in 1 .. l + m} /\ ToSet(s) = {s[n] : n \in 1 .. l}
        /\ ToSet(t) = {t[n] : n \in 1 .. m}
    BY <1>1 DEF ToSet
  <1>3. \A n \in 1 .. l + m : n \in 1 .. l \/ (n - l \in 1 .. m /\ (n - l) + l = n)
    BY <1>1
  <1>4. (\A n \in 1 .. l : n \in 1 .. l + m) /\ (\A n \in 1 .. m : n + l \in 1 .. l + m)
    BY <1>1
  <1>5. ASSUME NEW x \in ToSet(u) PROVE x \in ToSet(s) \cup ToSet(t)
    <2>1. PICK n \in 1 .. l + m : x = u[n]
      BY <1>2
    <2>2. CASE n \in 1 .. l
      BY <1>1, <1>2, <2>1, <2>2
    <2>3. CASE n - l \in 1 .. m /\ (n - l) + l = n
      <3>1. x = t[n - l]
        BY <1>1, <2>1, <2>3
      <3> QED
        BY <1>2, <2>3, <3>1
    <2> QED
      BY <1>3, <2>2, <2>3
  <1>6. ASSUME NEW x \in ToSet(s) \cup ToSet(t) PROVE x \in ToSet(u)
    BY <1>1, <1>2, <1>4
  <1> QED
    BY <1>5, <1>6 DEF u

LEMMA JoinedOnes ==
  ASSUME NEW S, NEW a \in S, NEW b \in S, NEW c \in S
  PROVE  /\ <<a>> \o <<b>> = <<a, b>>
         /\ (<<a>> \o <<b>>) \o <<c>> = <<a, b, c>>
         /\ <<a>> \o (<<b>> \o <<c>>) = <<a, b, c>>
  <1>1. \A x, y \in S : <<x>> \o <<y>> = <<x, y>>
    <2> TAKE x, y \in S
    <2> DEFINE s == <<x>>
               t == <<y>>
               v == s \o t
               w == <<x, y>>
    <2>1. /\ s \in Seq(S) /\ t \in Seq(S) /\ w \in Seq(S)
          /\ Len(s) = 1 /\ Len(t) = 1 /\ Len(w) = 2
          /\ s[1] = x /\ t[1] = y /\ w[1] = x /\ w[2] = y
      OBVIOUS
    <2> HIDE DEF s, t, w
    <2>2. /\ v \in Seq(S) /\ Len(v) = 1 + 1 /\ v[1] = s[1] /\ v[1 + 1] = t[1]
      BY <2>1, ConcatProperties
    <2> HIDE DEF v
    <2>3. \A n \in 1 .. Len(v) : v[n] = w[n]
      BY <2>1, <2>2
    <2>4. v = w
      BY <2>1, <2>2, <2>3, SeqEqual
    <2> QED
      BY <2>4 DEF v, s, t, w
  <1>2. \A x, y, z \in S : <<x, y>> \o <<z>> = <<x, y, z>>
    <2> TAKE x, y, z \in S
    <2> DEFINE s == <<x, y>>
               t == <<z>>
               v == s \o t
               w == <<x, y, z>>
    <2>1. /\ s \in Seq(S) /\ t \in Seq(S) /\ w \in Seq(S)
          /\ Len(s) = 2 /\ Len(t) = 1 /\ Len(w) = 3
          /\ s[1] = x /\ s[2] = y /\ t[1] = z /\ w[1] = x /\ w[2] = y /\ w[3] = z
      OBVIOUS
    <2> HIDE DEF s, t, w
    <2>2. /\ v \in Seq(S) /\ Len(v) = Len(s) + Len(t)
          /\ \A n \in 1 .. Len(s) : v[n] = s[n]
          /\ \A n \in 1 .. Len(t) : v[Len(s) + n] = t[n]
      <3>1. s \in Seq(S) /\ t \in Seq(S)
        BY <2>1
      <3> QED
        BY <3>1, ConcatProperties
    <2> HIDE DEF v
    <2>3. \A n \in 1 .. Len(v) : v[n] = w[n]
      BY <2>1, <2>2
    <2>4. v = w
      BY <2>1, <2>2, <2>3, SeqEqual
    <2> QED
      BY <2>4 DEF v, s, t, w
  <1>3. \A x, y, z \in S : <<x>> \o <<y, z>> = <<x, y, z>>
    <2> TAKE x, y, z \in S
    <2> DEFINE s == <<x>>
               t == <<y, z>>
               v == s \o t
               w == <<x, y, z>>
    <2>1. /\ s \in Seq(S) /\ t \in Seq(S) /\ w \in Seq(S)
          /\ Len(s) = 1 /\ Len(t) = 2 /\ Len(w) = 3
          /\ s[1] = x /\ t[1] = y /\ t[2] = z /\ w[1] = x /\ w[2] = y /\ w[3] = z
      OBVIOUS
    <2> HIDE DEF s, t, w
    <2>2. /\ v \in Seq(S) /\ Len(v) = Len(s) + Len(t)
          /\ \A n \in 1 .. Len(s) : v[n] = s[n]
          /\ \A n \in 1 .. Len(t) : v[Len(s) + n] = t[n]
      <3>1. s \in Seq(S) /\ t \in Seq(S)
        BY <2>1
      <3> QED
        BY <3>1, ConcatProperties
    <2> HIDE DEF v
    <2>3. \A n \in 1 .. Len(v) : v[n] = w[n]
      BY <2>1, <2>2
    <2>4. v = w
      BY <2>1, <2>2, <2>3, SeqEqual, SMTT(30)
    <2> QED
      BY <2>4 DEF v, s, t, w
  <1>4. <<a>> \o <<b>> = <<a, b>> /\ <<b>> \o <<c>> = <<b, c>>
    BY <1>1
  <1>5. <<a, b>> \o <<c>> = <<a, b, c>> /\ <<a>> \o <<b, c>> = <<a, b, c>>
    BY <1>2, <1>3
  <1> QED
    BY <1>4, <1>5

-----------------------------------------------------------------------------
(* Sequences in two and in three parts.                                    *)

(* Named, so that the provers take them as they are. *)
One(x)        == <<x>>
Then(u, v)    == u \o v
With(u, x, v) == (u \o <<x>>) \o v

LEMMA OneKnown ==
  ASSUME NEW A, NEW x \in A
  PROVE  One(x) \in Seq(A) /\ Len(One(x)) = 1 /\ One(x)[1] = x /\ ToSet(One(x)) = {x}
  BY DEF One, ToSet

LEMMA ByPrefix ==
  ASSUME NEW A, NEW T, <<>> \in T, \A s \in Seq(A), x \in A : s \in T => Then(s, One(x)) \in T
  PROVE  \A s \in Seq(A) : s \in T
<1> SUFFICES ASSUME NEW s \in Seq(A) PROVE s \in T
  OBVIOUS
<1> DEFINE l == Len(s)
           U == {n \in 0 .. l : SubSeq(s, 1, n) \in T}
<1>1. l \in Nat /\ \A n \in 1 .. l : s[n] \in A
  BY LenProperties, ElementOfSeq
<1>2. 0 \in U
  <2>1. SubSeq(s, 1, 0) = <<>>
    BY SubSeqEmpty
  <2>2. 0 \in 0 .. l
    BY <1>1
  <2>3. SubSeq(s, 1, 0) \in T
    BY <2>1, Zenon
  <2> QED
    BY <2>2, <2>3
<1>3. ASSUME NEW n \in 1 .. l, n - 1 \in U PROVE n \in U
  <2>1. n \in 0 .. l /\ n - 1 \in 0 .. l /\ 1 \in 1 .. l /\ n \in 1 .. Len(s)
    BY <1>1
  <2>2. SubSeq(s, 1, n) = Then(SubSeq(s, 1, n - 1), One(s[n]))
    BY <2>1, SubSeqRecursiveSecond DEF One, Then
  <2>3. SubSeq(s, 1, n - 1) \in Seq(A)
    <3>1. \A i \in 1 .. n - 1 : s[i] \in A
      BY <1>1
    <3>2. n - 1 \in Int
      BY <2>1
    <3> QED
      BY <3>1, <3>2, SubSeqProperties
  <2>4. SubSeq(s, 1, n - 1) \in T /\ s[n] \in A
    BY <1>1, <1>3
  <2> QED
    BY <2>1, <2>2, <2>3, <2>4
<1>4. l \in U
  <2>1. \A n \in 0 .. l : n \in U
    <3> HIDE DEF U, l
    <3> QED
      BY <1>1, <1>2, <1>3, UpTo
  <2>2. l \in 0 .. l
    BY <1>1
  <2> QED
    BY <2>1, <2>2
<1> QED
  BY <1>4, SubSeqFull, ZenonT(40)

LEMMA Two ==
  ASSUME NEW A, NEW u \in Seq(A), NEW v \in Seq(A)
  PROVE  /\ Then(u, v) \in Seq(A) /\ Len(u) \in Nat /\ Len(v) \in Nat
         /\ Len(Then(u, v)) = Len(u) + Len(v)
         /\ \A i \in 1 .. Len(u) + Len(v) :
              Then(u, v)[i] = IF i <= Len(u) THEN u[i] ELSE v[i - Len(u)]
         /\ ToSet(Then(u, v)) = ToSet(u) \cup ToSet(v)
  BY ConcatProperties, LenProperties, SetOfBoth DEF Then

(* The elements of u, x, and those of v.                                   *)
LEMMA Three ==
  ASSUME NEW A, NEW u \in Seq(A), NEW x \in A, NEW v \in Seq(A)
  PROVE  /\ With(u, x, v) \in Seq(A) /\ Then(u, One(x)) \in Seq(A) /\ Then(u, v) \in Seq(A)
         /\ Len(u) \in Nat /\ Len(v) \in Nat
         /\ Len(With(u, x, v)) = Len(u) + 1 + Len(v)
         /\ \A i \in 1 .. Len(u) + 1 + Len(v) :
              With(u, x, v)[i] = IF i <= Len(u) THEN u[i]
                                     ELSE IF i = Len(u) + 1 THEN x ELSE v[i - (Len(u) + 1)]
         /\ ToSet(With(u, x, v)) = ToSet(u) \cup {x} \cup ToSet(v)
         /\ ToSet(Then(u, One(x))) = ToSet(u) \cup {x}
         /\ ToSet(Then(u, v)) = ToSet(u) \cup ToSet(v)
<1> DEFINE m == One(x)
           a == Then(u, m)
           w == Then(a, v)
<1>1. m \in Seq(A) /\ Len(m) = 1 /\ m[1] = x /\ ToSet(m) = {x}
  BY OneKnown
<1>2. Len(u) \in Nat /\ Len(v) \in Nat
  BY LenProperties
<1> HIDE DEF m
<1>3. /\ a \in Seq(A) /\ Len(a) = Len(u) + 1 /\ ToSet(a) = ToSet(u) \cup {x}
      /\ \A i \in 1 .. Len(u) + 1 : a[i] = IF i <= Len(u) THEN u[i] ELSE m[i - Len(u)]
  <2>1. /\ a \in Seq(A) /\ Len(a) = Len(u) + Len(m) /\ ToSet(a) = ToSet(u) \cup ToSet(m)
        /\ \A i \in 1 .. Len(u) + Len(m) : a[i] = IF i <= Len(u) THEN u[i] ELSE m[i - Len(u)]
    <3>1. PICK n \in Seq(A) : n = m
      BY <1>1
    <3>2. /\ Then(u, n) \in Seq(A) /\ Len(Then(u, n)) = Len(u) + Len(n)
          /\ ToSet(Then(u, n)) = ToSet(u) \cup ToSet(n)
          /\ \A i \in 1 .. Len(u) + Len(n) :
               Then(u, n)[i] = IF i <= Len(u) THEN u[i] ELSE n[i - Len(u)]
      BY Two, ZenonT(40)
    <3> QED
      BY <3>1, <3>2
  <2> HIDE DEF a
  <2> QED
    BY <1>1, <2>1
<1>4. \A i \in 1 .. Len(u) + 1 : a[i] = IF i <= Len(u) THEN u[i] ELSE x
  <2> TAKE i \in 1 .. Len(u) + 1
  <2>1. CASE i <= Len(u)
    BY <1>3, <2>1
  <2>2. CASE i = Len(u) + 1
    BY <1>1, <1>2, <1>3, <2>2
  <2>3. i <= Len(u) \/ i = Len(u) + 1
    BY <1>2
  <2> QED
    BY <1>2, <2>1, <2>2, <2>3
<1> HIDE DEF a
<1>5. /\ w \in Seq(A) /\ Len(w) = Len(a) + Len(v) /\ ToSet(w) = ToSet(a) \cup ToSet(v)
      /\ \A i \in 1 .. Len(a) + Len(v) : w[i] = IF i <= Len(a) THEN a[i] ELSE v[i - Len(a)]
  <2>1. a \in Seq(A)
    BY <1>3
  <2> QED
    BY <2>1, Two, ZenonT(40)
<1> HIDE DEF w
<1>6. \A i \in 1 .. Len(u) + 1 + Len(v) :
         w[i] = IF i <= Len(u) THEN u[i]
                ELSE IF i = Len(u) + 1 THEN x ELSE v[i - (Len(u) + 1)]
  <2> TAKE i \in 1 .. Len(u) + 1 + Len(v)
  <2>1. CASE i <= Len(u) + 1
    <3>1. i \in 1 .. Len(u) + 1
      BY <1>2, <2>1
    <3>2. w[i] = a[i]
      BY <1>2, <1>3, <1>5, <2>1
    <3> QED
      BY <1>2, <1>4, <2>1, <3>1, <3>2
  <2>2. CASE ~(i <= Len(u) + 1)
    BY <1>2, <1>3, <1>5, <2>2
  <2> QED
    BY <2>1, <2>2
<1>7. Then(u, v) \in Seq(A) /\ ToSet(Then(u, v)) = ToSet(u) \cup ToSet(v)
  BY Two
<1>8. w = With(u, x, v)
  BY DEF w, a, m, One, Then, With
<1> QED
  BY <1>2, <1>3, <1>5, <1>6, <1>7, <1>8 DEF a, m

(* Cut before position k + 1.                                              *)
LEMMA CutAt ==
  ASSUME NEW A, NEW s \in Seq(A), NEW k \in 0 .. Len(s)
  PROVE  \E u, v \in Seq(A) : s = Then(u, v) /\ Len(u) = k
<1> DEFINE u == SubSeq(s, 1, k)
           v == SubSeq(s, k + 1, Len(s))
<1>1. Len(s) \in Nat /\ k \in Nat /\ \A n \in 1 .. Len(s) : s[n] \in A
  BY LenProperties, ElementOfSeq
<1>2. u \in Seq(A) /\ Len(u) = k
  <2>1. \A i \in 1 .. k : s[i] \in A
    BY <1>1
  <2>2. /\ SubSeq(s, 1, k) \in Seq(A)
        /\ Len(SubSeq(s, 1, k)) = IF 1 <= k THEN k - 1 + 1 ELSE 0
    BY <1>1, <2>1, SubSeqProperties
  <2> QED
    BY <1>1, <2>2
<1>3. v \in Seq(A)
  <2>1. \A i \in k + 1 .. Len(s) : s[i] \in A
    BY <1>1
  <2>2. k + 1 \in Int /\ Len(s) \in Int
    BY <1>1
  <2> QED
    BY <2>1, <2>2, SubSeqProperties
<1>4. s = Then(u, v)
  <2>1. 1 \in 1 .. Len(s) + 1 /\ k \in 1 - 1 .. Len(s) /\ Len(s) \in k .. Len(s)
    BY <1>1
  <2>2. Then(u, v) = SubSeq(s, 1, Len(s))
    BY <2>1, ConcatAdjacentSubSeq DEF Then
  <2> QED
    BY <2>2, SubSeqFull
<1> QED
  BY <1>2, <1>3, <1>4

LEMMA PartedAt ==
  ASSUME NEW A, NEW s \in Seq(A), NEW k \in 1 .. Len(s)
  PROVE  \E u, v \in Seq(A) : s = With(u, s[k], v) /\ Len(u) = k - 1
<1>1. Len(s) \in Nat /\ k \in 0 .. Len(s) /\ k - 1 \in Nat /\ s[k] \in A
  BY LenProperties, ElementOfSeq
<1>2. PICK a \in Seq(A), v \in Seq(A) : s = Then(a, v) /\ Len(a) = k
  BY <1>1, CutAt
<1>3. k - 1 \in 0 .. Len(a)
  BY <1>1, <1>2
<1>4. PICK u \in Seq(A), m \in Seq(A) : a = Then(u, m) /\ Len(u) = k - 1
  BY <1>3, CutAt, ZenonT(40)
<1>5. Len(m) = 1
  <2> DEFINE lm == Len(m)
             lu == Len(u)
             w == Then(u, m)
  <2>1. Len(w) = lu + lm /\ lm \in Nat
    BY Two
  <2>2. Len(w) = k /\ lu = k - 1
    BY <1>2, <1>4
  <2>3. k \in Nat
    BY <1>1
  <2> HIDE DEF lm, lu, w
  <2>4. lm = 1
    BY <2>1, <2>2, <2>3
  <2> QED
    BY <2>4 DEF lm
<1>6. s[k] = m[1]
  <2>1. Then(a, v)[k] = a[k]
    <3>1. k <= Len(a) /\ k \in 1 .. Len(a) + Len(v)
      <4>1. Len(v) \in Nat
        BY Two
      <4> QED
        BY <1>1, <1>2, <4>1
    <3> QED
      BY <3>1, Two
  <2>2. Then(u, m)[k] = m[1]
    <3>1. ~(k <= Len(u)) /\ k \in 1 .. Len(u) + Len(m) /\ k - Len(u) = 1
      BY <1>1, <1>4, <1>5
    <3>2. \A i \in 1 .. Len(u) + Len(m) :
             Then(u, m)[i] = IF i <= Len(u) THEN u[i] ELSE m[i - Len(u)]
      BY Two
    <3> QED
      BY <3>1, <3>2
  <2> QED
    BY <1>2, <1>4, <2>1, <2>2
<1>8. With(u, s[k], v) = Then(Then(u, One(s[k])), v)
  BY DEF With, Then, One
<1>7. m = One(s[k])
  <2> DEFINE n == One(s[k])
  <2>1. n \in Seq(A) /\ Len(n) = 1 /\ n[1] = s[k]
    BY <1>1, OneKnown
  <2> HIDE DEF n
  <2>2. \A i \in 1 .. Len(m) : m[i] = n[i]
    BY <1>5, <1>6, <2>1
  <2>3. m = n
    BY <1>5, <2>1, <2>2, SeqEqual
  <2> QED
    BY <2>3 DEF n
<1> QED
  BY <1>2, <1>4, <1>7, <1>8

LEMMA Parted ==
  ASSUME NEW A, NEW s \in Seq(A), NEW x \in ToSet(s)
  PROVE  \E u, v \in Seq(A) : s = With(u, x, v)
<1>1. PICK k \in 1 .. Len(s) : s[k] = x
  BY LenProperties DEF ToSet
<1>2. PICK u \in Seq(A), v \in Seq(A) : s = With(u, s[k], v) /\ Len(u) = k - 1
  BY PartedAt
<1> QED
  BY <1>1, <1>2

LEMMA SameLength ==
  ASSUME NEW A, NEW u \in Seq(A), NEW v \in Seq(A), NEW a \in Seq(A), NEW b \in Seq(A),
         Then(u, v) = Then(a, b), Len(u) = Len(a)
  PROVE  u = a /\ v = b
<1> DEFINE w == Then(u, v)
           y == Then(a, b)
<1>1. /\ Len(u) \in Nat /\ Len(v) \in Nat
      /\ \A i \in 1 .. Len(u) + Len(v) : w[i] = IF i <= Len(u) THEN u[i] ELSE v[i - Len(u)]
  BY Two
<1>2. /\ Len(b) \in Nat
      /\ \A i \in 1 .. Len(a) + Len(b) : y[i] = IF i <= Len(a) THEN a[i] ELSE b[i - Len(a)]
  BY Two
<1>3. w = y
  OBVIOUS
<1> HIDE DEF w, y
<1>4. \A i \in 1 .. Len(u) : u[i] = a[i]
  <2> TAKE i \in 1 .. Len(u)
  <2>1. i <= Len(u) /\ i \in 1 .. Len(u) + Len(v) /\ i <= Len(a) /\ i \in 1 .. Len(a) + Len(b)
    BY <1>1, <1>2
  <2>2. w[i] = u[i]
    BY <1>1, <2>1
  <2>3. y[i] = a[i]
    BY <1>2, <2>1
  <2> QED
    BY <1>3, <2>2, <2>3
<1>5. u = a
  BY <1>4, SeqEqual
<1>6. Then(u, v) = Then(u, b)
  BY <1>5
<1>7. v = b
  BY <1>6, ConcatSimplifications DEF Then
<1> QED
  BY <1>5, <1>7

(* Element by element: u, then x, then v. *)
PartsOf(w, u, x, v) ==
    /\ Len(u) \in Nat /\ Len(v) \in Nat /\ Len(w) = Len(u) + 1 + Len(v)
    /\ \A i \in 1 .. Len(u) + 1 + Len(v) :
          w[i] = IF i <= Len(u) THEN u[i]
                 ELSE IF i = Len(u) + 1 THEN x ELSE v[i - (Len(u) + 1)]

LEMMA PartsKnown ==
  ASSUME NEW A, NEW u \in Seq(A), NEW x \in A, NEW v \in Seq(A)
  PROVE  /\ With(u, x, v) \in Seq(A) /\ Then(u, One(x)) \in Seq(A)
         /\ PartsOf(With(u, x, v), u, x, v)
  BY Three DEF PartsOf

-----------------------------------------------------------------------------
(* Paths: what a sequence of operations makes of a state.  In state a, c   *)
(* may lead to the states R[c][a].                                         *)

(* f[n] is the state after the first n of s. *)
PathBy(f, R, W, s, a, b) ==
    /\ f \in [0 .. Len(s) -> W] /\ f[0] = a /\ f[Len(s)] = b
    /\ \A n \in 1 .. Len(s) : f[n] \in R[s[n]][f[n - 1]]

Path(R, W, s, a, b) == \E f : PathBy(f, R, W, s, a, b)

LEMMA PathEnds ==
  ASSUME NEW A, NEW R, NEW W, NEW s \in Seq(A), NEW a, NEW b, Path(R, W, s, a, b)
  PROVE  a \in W /\ b \in W
<1>1. PICK f : PathBy(f, R, W, s, a, b)
  BY DEF Path
<1>2. Len(s) \in Nat
  BY LenProperties
<1>3. 0 \in 0 .. Len(s) /\ Len(s) \in 0 .. Len(s)
  BY <1>2
<1> QED
  BY <1>1, <1>3 DEF PathBy

LEMMA PathNone ==
  ASSUME NEW R, NEW W, NEW a \in W, NEW b \in W
  PROVE  Path(R, W, <<>>, a, b) <=> a = b
<1> DEFINE l == Len(<<>>)
<1>1. l = 0
  OBVIOUS
<1>2. ASSUME a = b PROVE Path(R, W, <<>>, a, b)
  <2> DEFINE f == [n \in 0 .. l |-> a]
  <2>1. f \in [0 .. l -> W] /\ f[0] = a /\ f[l] = a /\ 1 .. l = {}
    BY <1>1
  <2> HIDE DEF f
  <2>2. PathBy(f, R, W, <<>>, a, b)
    BY <1>2, <2>1 DEF PathBy
  <2> QED
    BY <2>2 DEF Path
<1>3. ASSUME Path(R, W, <<>>, a, b) PROVE a = b
  <2>1. PICK f : PathBy(f, R, W, <<>>, a, b)
    BY <1>3 DEF Path
  <2>2. f[0] = a /\ f[l] = b
    BY <2>1 DEF PathBy
  <2> QED
    BY <1>1, <2>2
<1> QED
  BY <1>2, <1>3

LEMMA PathOne ==
  ASSUME NEW A, NEW R, NEW W, NEW c \in A, NEW a \in W, NEW b \in W
  PROVE  Path(R, W, One(c), a, b) <=> b \in R[c][a]
<1>1. PICK s \in Seq(A) : s = One(c)
  BY OneKnown
<1>2. Len(s) = 1 /\ s[1] = c
  BY <1>1, OneKnown
<1>3. ASSUME b \in R[c][a] PROVE Path(R, W, s, a, b)
  <2> DEFINE f == [n \in 0 .. 1 |-> IF n = 0 THEN a ELSE b]
  <2>1. f \in [0 .. 1 -> W] /\ f[0] = a /\ f[1] = b
    OBVIOUS
  <2> HIDE DEF f
  <2>2. \A n \in 1 .. 1 : f[n] \in R[s[n]][f[n - 1]]
    <3> TAKE n \in 1 .. 1
    <3>1. n = 1 /\ n - 1 = 0
      OBVIOUS
    <3> QED
      BY <1>2, <1>3, <2>1, <3>1
  <2>3. PathBy(f, R, W, s, a, b)
    BY <1>2, <2>1, <2>2 DEF PathBy
  <2> QED
    BY <2>3 DEF Path
<1>4. ASSUME Path(R, W, s, a, b) PROVE b \in R[c][a]
  <2>1. PICK f : PathBy(f, R, W, s, a, b)
    BY <1>4 DEF Path
  <2>2. f[0] = a /\ f[1] = b /\ \A n \in 1 .. 1 : f[n] \in R[s[n]][f[n - 1]]
    BY <1>2, <2>1 DEF PathBy
  <2>3. 1 \in 1 .. 1 /\ 1 - 1 = 0
    OBVIOUS
  <2>4. f[1] \in R[s[1]][f[0]]
    BY <2>2, <2>3
  <2> QED
    BY <1>2, <2>2, <2>4
<1> QED
  BY <1>1, <1>3, <1>4

LEMMA PathSplit ==
  ASSUME NEW A, NEW R, NEW W, NEW s \in Seq(A), NEW t \in Seq(A), NEW a, NEW c,
         Path(R, W, Then(s, t), a, c)
  PROVE  \E b \in W : Path(R, W, s, a, b) /\ Path(R, W, t, b, c)
<1> DEFINE l == Len(s)
           m == Len(t)
           w == Then(s, t)
<1>1. /\ l \in Nat /\ m \in Nat /\ Len(w) = l + m
      /\ \A i \in 1 .. l + m : w[i] = IF i <= l THEN s[i] ELSE t[i - l]
  BY Two
<1>2. PICK f : PathBy(f, R, W, w, a, c)
  BY DEF Path
<1> HIDE DEF l, m, w
<1>3. /\ f \in [0 .. l + m -> W] /\ f[0] = a /\ f[l + m] = c
      /\ \A n \in 1 .. l + m : f[n] \in R[w[n]][f[n - 1]]
  BY <1>1, <1>2 DEF PathBy
<1> DEFINE g == [n \in 0 .. l |-> f[n]]
           h == [n \in 0 .. m |-> f[l + n]]
<1>4. g \in [0 .. l -> W] /\ g[0] = a /\ g[l] = f[l]
  <2>1. \A n \in 0 .. l : n \in 0 .. l + m
    BY <1>1
  <2>2. 0 \in 0 .. l /\ l \in 0 .. l
    BY <1>1
  <2> QED
    BY <1>3, <2>1, <2>2
<1>5. h \in [0 .. m -> W] /\ h[0] = f[l] /\ h[m] = c
  <2>1. \A n \in 0 .. m : l + n \in 0 .. l + m
    BY <1>1
  <2>2. 0 \in 0 .. m /\ m \in 0 .. m /\ l + 0 = l
    BY <1>1
  <2> QED
    BY <1>3, <2>1, <2>2
<1>6. ASSUME NEW n \in 1 .. l PROVE g[n] \in R[s[n]][g[n - 1]]
  <2>1. n \in 0 .. l /\ n - 1 \in 0 .. l /\ n \in 1 .. l + m /\ n <= l
    BY <1>1
  <2>2. f[n] \in R[w[n]][f[n - 1]] /\ w[n] = s[n]
    BY <1>1, <1>3, <2>1
  <2>3. g[n] = f[n] /\ g[n - 1] = f[n - 1]
    BY <2>1
  <2> QED
    BY <2>2, <2>3
<1>7. ASSUME NEW n \in 1 .. m PROVE h[n] \in R[t[n]][h[n - 1]]
  <2>1. /\ n \in 0 .. m /\ n - 1 \in 0 .. m /\ l + n \in 1 .. l + m /\ ~(l + n <= l)
        /\ (l + n) - l = n /\ (l + n) - 1 = l + (n - 1)
    BY <1>1
  <2>2. f[l + n] \in R[w[l + n]][f[(l + n) - 1]] /\ w[l + n] = t[n]
    BY <1>1, <1>3, <2>1
  <2>3. h[n] = f[l + n] /\ h[n - 1] = f[l + (n - 1)]
    BY <2>1
  <2> QED
    BY <2>1, <2>2, <2>3
<1>8. f[l] \in W
  <2>1. l \in 0 .. l + m
    BY <1>1
  <2> QED
    BY <1>3, <2>1
<1> HIDE DEF g, h
<1>9. PathBy(g, R, W, s, a, f[l])
  BY <1>4, <1>6 DEF PathBy, l
<1>10. PathBy(h, R, W, t, f[l], c)
  BY <1>5, <1>7 DEF PathBy, m
<1> QED
  BY <1>8, <1>9, <1>10 DEF Path

LEMMA PathBoth ==
  ASSUME NEW A, NEW R, NEW W, NEW s \in Seq(A), NEW t \in Seq(A), NEW a, NEW b, NEW c,
         Path(R, W, s, a, b), Path(R, W, t, b, c)
  PROVE  Path(R, W, Then(s, t), a, c)
<1> DEFINE l == Len(s)
           m == Len(t)
           w == Then(s, t)
<1>1. /\ l \in Nat /\ m \in Nat /\ Len(w) = l + m
      /\ \A i \in 1 .. l + m : w[i] = IF i <= l THEN s[i] ELSE t[i - l]
  BY Two
<1>2. PICK g : PathBy(g, R, W, s, a, b)
  BY DEF Path
<1>3. PICK h : PathBy(h, R, W, t, b, c)
  BY DEF Path
<1>4. /\ g \in [0 .. l -> W] /\ g[0] = a /\ g[l] = b
      /\ \A n \in 1 .. l : g[n] \in R[s[n]][g[n - 1]]
  BY <1>2 DEF PathBy
<1>5. /\ h \in [0 .. m -> W] /\ h[0] = b /\ h[m] = c
      /\ \A n \in 1 .. m : h[n] \in R[t[n]][h[n - 1]]
  BY <1>3 DEF PathBy
<1> HIDE DEF l, m, w
<1> DEFINE f == [n \in 0 .. l + m |-> IF n <= l THEN g[n] ELSE h[n - l]]
<1>6. ASSUME NEW n \in 0 .. l + m PROVE (IF n <= l THEN g[n] ELSE h[n - l]) \in W
  <2>1. CASE n <= l
    <3>1. n \in 0 .. l
      BY <1>1, <2>1
    <3> QED
      BY <1>4, <2>1, <3>1
  <2>2. CASE ~(n <= l)
    <3>1. n - l \in 0 .. m
      BY <1>1, <2>2
    <3> QED
      BY <1>5, <2>2, <3>1
  <2> QED
    BY <2>1, <2>2
<1>7. f \in [0 .. l + m -> W]
  BY <1>6
<1>8. \A n \in 0 .. l : f[n] = g[n]
  <2> TAKE n \in 0 .. l
  <2>1. n \in 0 .. l + m /\ n <= l
    BY <1>1
  <2> QED
    BY <2>1
<1>9. \A n \in 0 .. m : f[l + n] = h[n]
  <2> TAKE n \in 0 .. m
  <2>1. l + n \in 0 .. l + m /\ (l + n) - l = n
    BY <1>1
  <2>2. f[l + n] = IF l + n <= l THEN g[l + n] ELSE h[n]
    BY <2>1
  <2>3. CASE n = 0
    <3>1. l + n = l /\ l + n <= l
      BY <1>1, <2>3
    <3> QED
      BY <1>4, <1>5, <2>2, <2>3, <3>1
  <2>4. CASE n # 0
    <3>1. ~(l + n <= l)
      BY <1>1, <2>4
    <3> QED
      BY <2>2, <3>1
  <2> QED
    BY <2>3, <2>4
<1> HIDE DEF f
<1>10. f[0] = a /\ f[l + m] = c
  <2>1. 0 \in 0 .. l /\ m \in 0 .. m
    BY <1>1
  <2> QED
    BY <1>4, <1>5, <1>8, <1>9, <2>1
<1>11. ASSUME NEW n \in 1 .. l + m PROVE f[n] \in R[w[n]][f[n - 1]]
  <2>1. CASE n <= l
    <3>1. n \in 0 .. l /\ n - 1 \in 0 .. l /\ n \in 1 .. l
      BY <1>1, <2>1
    <3>2. w[n] = s[n]
      BY <1>1, <2>1
    <3>3. f[n] = g[n] /\ f[n - 1] = g[n - 1]
      BY <1>8, <3>1
    <3> QED
      BY <1>4, <3>1, <3>2, <3>3
  <2>2. CASE ~(n <= l)
    <3> DEFINE k == n - l
    <3>1. k \in 1 .. m /\ k \in 0 .. m /\ k - 1 \in 0 .. m /\ l + k = n /\ l + (k - 1) = n - 1
      BY <1>1, <2>2
    <3>2. w[n] = t[k]
      BY <1>1, <2>2
    <3> HIDE DEF k
    <3>3. f[l + k] = h[k] /\ f[l + (k - 1)] = h[k - 1]
      BY <1>9, <3>1
    <3>4. f[n] = h[k] /\ f[n - 1] = h[k - 1]
      BY <3>1, <3>3
    <3> QED
      BY <1>5, <3>1, <3>2, <3>4
  <2> QED
    BY <2>1, <2>2
<1>12. PathBy(f, R, W, w, a, c)
  BY <1>1, <1>7, <1>10, <1>11 DEF PathBy
<1> QED
  BY <1>12 DEF Path, w

LEMMA FirstThenRest ==
  ASSUME NEW A, NEW s \in Seq(A), s # <<>>
  PROVE  s = Then(One(Head(s)), Tail(s)) /\ Head(s) \in A /\ Tail(s) \in Seq(A)
         /\ One(Head(s)) \in Seq(A)
  BY FirstAndRest DEF Then, One

LEMMA PathFirst ==
  ASSUME NEW A, NEW R, NEW W, NEW s \in Seq(A), s # <<>>, NEW a, NEW c, Path(R, W, s, a, c)
  PROVE  \E b \in W : b \in R[Head(s)][a] /\ Path(R, W, Tail(s), b, c)
<1>1. PICK h \in A : h = Head(s)
  BY FirstThenRest
<1>2. PICK t \in Seq(A) : t = Tail(s)
  BY FirstThenRest
<1>3. PICK o \in Seq(A) : o = One(h)
  BY OneKnown
<1>4. s = Then(o, t)
  BY <1>1, <1>2, <1>3, FirstThenRest
<1>5. PICK b \in W : Path(R, W, o, a, b) /\ Path(R, W, t, b, c)
  BY <1>4, PathSplit
<1>6. a \in W
  BY PathEnds
<1>7. b \in R[h][a]
  BY <1>3, <1>5, <1>6, PathOne
<1> QED
  BY <1>1, <1>2, <1>5, <1>7

LEMMA PathMore ==
  ASSUME NEW R, NEW Q, NEW W, NEW s, NEW a, NEW b, Path(R, W, s, a, b),
         Len(s) \in Nat,
         \A n \in 1 .. Len(s) : \A w \in W : R[s[n]][w] \subseteq Q[s[n]][w]
  PROVE  Path(Q, W, s, a, b)
<1>1. PICK f : PathBy(f, R, W, s, a, b)
  BY DEF Path
<1>2. ASSUME NEW n \in 1 .. Len(s) PROVE f[n] \in Q[s[n]][f[n - 1]]
  <2>1. n - 1 \in 0 .. Len(s)
    OBVIOUS
  <2>2. f[n - 1] \in W /\ f[n] \in R[s[n]][f[n - 1]]
    BY <1>1, <2>1 DEF PathBy
  <2> QED
    BY <2>2
<1>3. PathBy(f, Q, W, s, a, b)
  BY <1>1, <1>2 DEF PathBy
<1> QED
  BY <1>3 DEF Path

LEMMA PathStill ==
  ASSUME NEW R, NEW W, NEW s, NEW a \in W, Len(s) \in Nat,
         \A n \in 1 .. Len(s) : a \in R[s[n]][a]
  PROVE  Path(R, W, s, a, a)
<1> DEFINE f == [n \in 0 .. Len(s) |-> a]
<1>1. f \in [0 .. Len(s) -> W] /\ \A n \in 0 .. Len(s) : f[n] = a
  OBVIOUS
<1>2. 0 \in 0 .. Len(s) /\ Len(s) \in 0 .. Len(s)
  OBVIOUS
<1>3. \A n \in 1 .. Len(s) : n \in 0 .. Len(s) /\ n - 1 \in 0 .. Len(s)
  OBVIOUS
<1> HIDE DEF f
<1>4. PathBy(f, R, W, s, a, a)
  BY <1>1, <1>2, <1>3 DEF PathBy
<1> QED
  BY <1>4 DEF Path

(* From state to state over the parts of a joined sequence.                *)
LEMMA PathJoined ==
  ASSUME NEW A, NEW R, NEW W, NEW ss \in Seq(Seq(A)), NEW g \in [0 .. Len(ss) -> W],
         \A n \in 1 .. Len(ss) : Path(R, W, ss[n], g[n - 1], g[n])
  PROVE  Path(R, W, Joined(ss), g[0], g[Len(ss)])
<1>1. PICK f \in [0 .. Len(ss) -> Seq(A)] : JoinedBy(f, ss) /\ Joined(ss) = f[Len(ss)]
  BY JoinedSteps
<1>2. Len(ss) \in Nat /\ \A n \in 1 .. Len(ss) : ss[n] \in Seq(A)
  BY LenProperties, ElementOfSeq
<1> DEFINE l == Len(ss)
           U == {n \in 0 .. l : Path(R, W, f[n], g[0], g[n])}
<1>3. f[0] = <<>> /\ \A n \in 1 .. l : f[n] = f[n - 1] \o ss[n]
  BY <1>1, <1>2, JoinedStep
<1> HIDE DEF l
<1>4. l \in Nat /\ f \in [0 .. l -> Seq(A)] /\ g \in [0 .. l -> W]
  BY <1>1, <1>2 DEF l
<1>5. 0 \in U
  <2>1. 0 \in 0 .. l
    BY <1>4
  <2>2. g[0] \in W
    BY <1>4, <2>1
  <2>3. Path(R, W, <<>>, g[0], g[0])
    BY <2>2, PathNone
  <2> QED
    BY <1>3, <2>1, <2>3
<1>6. ASSUME NEW n \in 1 .. l, n - 1 \in U PROVE n \in U
  <2>1. n \in 0 .. l /\ n - 1 \in 0 .. l /\ n \in 1 .. Len(ss)
    BY <1>4 DEF l
  <2>2. PICK s \in Seq(A) : s = f[n - 1]
    BY <1>4, <2>1
  <2>3. PICK t \in Seq(A) : t = ss[n]
    BY <1>2, <2>1
  <2>4. Path(R, W, s, g[0], g[n - 1])
    BY <1>6, <2>2
  <2>5. Path(R, W, t, g[n - 1], g[n])
    BY <2>1, <2>3
  <2>6. f[n] = Then(s, t)
    BY <1>3, <2>2, <2>3 DEF Then
  <2>7. Path(R, W, Then(s, t), g[0], g[n])
    BY <2>4, <2>5, PathBoth
  <2> QED
    BY <2>1, <2>6, <2>7
<1>7. l \in U
  <2>1. \A n \in 0 .. l : n \in U
    <3> HIDE DEF U
    <3> QED
      BY <1>4, <1>5, <1>6, UpTo
  <2>2. l \in 0 .. l
    BY <1>4
  <2> QED
    BY <2>1, <2>2
<1> QED
  BY <1>1, <1>7 DEF l

=============================================================================
