--------------------------- MODULE Playlist_proofs ---------------------------
(***************************************************************************)
(* Proofs about module Playlist, for any number of items and lists.        *)
(*                                                                         *)
(* First, what plt_insert_item and plt_remove_item do: a list that is      *)
(* linked as a sequence is read as that sequence from either end (Chain),  *)
(* and they change the sequence and nothing else.                          *)
(*                                                                         *)
(* Then the whole specification.  The inductive invariant is State: the    *)
(* lists are linked as sequences, those that plt_clear has yet to forget   *)
(* too; the program is one that an operation can leave behind; and each    *)
(* reference to an item is accounted for.  One lemma for each action says  *)
(* that it keeps State, the calls of plt_insert_item and plt_remove_item   *)
(* if they fit (CallsFit).                                                 *)
(*                                                                         *)
(* Last, what PlaylistHistory_proofs rests on: the lists as values, with a *)
(* recorded operation as a relation on values (Effect) and a call of the   *)
(* program as another (Done), and how executing an operation, which is a   *)
(* number of calls, is the one and the other.                              *)
(***************************************************************************)
EXTENDS Playlist, SequenceLemmas

LEMMA Constants ==
  /\ IsFiniteSet(Items) /\ NULL \notin Items
  /\ Incoming \notin Lists
  BY PlaylistAssumption

-----------------------------------------------------------------------------
(* Lists as sequences.                                                     *)

Distinct(s) == \A i, j \in 1 .. Len(s) : s[i] = s[j] => i = j

(* The items of s follow each other by link, and x is the first one.       *)
Chained(link, s, x) ==
    /\ x = IF Len(s) = 0 THEN NULL ELSE s[1]
    /\ \A i \in 1 .. Len(s) : link[s[i]] = IF i = Len(s) THEN NULL ELSE s[i + 1]

(* The same from the other end.                                            *)
ChainedBack(link, s, x) ==
    /\ x = IF Len(s) = 0 THEN NULL ELSE s[Len(s)]
    /\ \A i \in 1 .. Len(s) : link[s[i]] = IF i = 1 THEN NULL ELSE s[i - 1]

(* A walk along the links, as Chain takes it.                              *)
Walks(link, x, met) ==
    met = [n \in Nat |->
             IF n = 0 THEN <<x>>
             ELSE LET s == met[n - 1]
                  IN  IF link[Last(s)] = NULL THEN s ELSE Append(s, link[Last(s)])]

LEMMA WalkedOnce ==
  ASSUME NEW link, NEW x, NEW a, NEW b, Walks(link, x, a), Walks(link, x, b)
  PROVE  a = b
<1> DEFINE Bad == {n \in Nat : a[n] # b[n]}
           R == {ss \in Nat \X Nat : ss[1] < ss[2]}
<1>1. /\ a = [n \in Nat |-> a[n]]
      /\ b = [n \in Nat |-> b[n]]
  BY DEF Walks
<1>2. Bad = {}
  <2> SUFFICES ASSUME Bad # {} PROVE FALSE
    OBVIOUS
  <2>1. OpToRel(<, Nat) = R
    BY DEF OpToRel
  <2>2. PICK m \in Bad : \A y \in Bad : <<y, m>> \notin OpToRel(<, Nat)
    <3>1. Bad \subseteq Nat
      OBVIOUS
    <3> HIDE DEF Bad
    <3> QED
      BY <3>1, NatLessThanWellFounded, WFMin, Zenon
  <2>3. m \in Nat /\ a[m] # b[m]
    OBVIOUS
  <2>4. m # 0
    BY <2>3 DEF Walks
  <2>5. m - 1 \in Nat /\ m - 1 < m
    BY <2>3, <2>4
  <2>6. a[m - 1] = b[m - 1]
    <3> SUFFICES ASSUME a[m - 1] # b[m - 1] PROVE FALSE
      OBVIOUS
    <3>1. m - 1 \in Bad
      BY <2>5
    <3>2. <<m - 1, m>> \in R
      BY <2>3, <2>5
    <3> QED
      BY <2>1, <2>2, <3>1, <3>2
  <2>7. \A c : Walks(link, x, c)
          => c[m] = LET s == c[m - 1]
                    IN  IF link[Last(s)] = NULL THEN s ELSE Append(s, link[Last(s)])
    BY <2>3, <2>4 DEF Walks
  <2> QED
    BY <2>3, <2>6, <2>7
<1>3. \A n \in Nat : a[n] = b[n]
  BY <1>2
<1> QED
  BY <1>1, <1>3

(* What is met after n links of s.                                         *)
Shorter(m, n) == IF m < n THEN m ELSE n
Met(s) == [n \in Nat |-> SubSeq(s, 1, Shorter(n + 1, Len(s)))]

LEMMA MetWalks ==
  ASSUME NEW link, NEW x, NEW s \in Seq(Items), Len(s) > 0, Chained(link, s, x)
  PROVE  Walks(link, x, Met(s))
<1> DEFINE l == Len(s)
           met == Met(s)
<1>1. l \in Nat /\ l > 0 /\ \A i \in 1 .. l : s[i] \in Items /\ s[i] # NULL
  BY LenProperties, ElementOfSeq, Constants
<1>2. ASSUME NEW k \in 1 .. l
      PROVE  /\ SubSeq(s, 1, k) \in Seq(Items)
             /\ Len(SubSeq(s, 1, k)) = k
             /\ \A i \in 1 .. k : SubSeq(s, 1, k)[i] = s[i]
             /\ Last(SubSeq(s, 1, k)) = s[k]
  <2>1. /\ SubSeq(s, 1, k) \in Seq(Items)
        /\ Len(SubSeq(s, 1, k)) = k
        /\ \A i \in 1 .. k : SubSeq(s, 1, k)[i] = s[i]
    BY <1>1, SubSeqProperties
  <2> QED
    BY <1>1, <2>1 DEF Last
<1>3. ASSUME NEW n \in Nat
      PROVE  met[n] = IF n = 0 THEN <<x>>
                      ELSE IF link[Last(met[n - 1])] = NULL THEN met[n - 1]
                           ELSE Append(met[n - 1], link[Last(met[n - 1])])
  <2>1. met[n] = SubSeq(s, 1, Shorter(n + 1, l))
    BY DEF Met
  <2>2. CASE n = 0
    <3>1. Shorter(n + 1, l) = 1 /\ x = s[1]
      <4>1. Shorter(n + 1, l) = 1
        <5>1. l \in Nat /\ l > 0
          BY <1>1
        <5> HIDE DEF l
        <5> QED
          BY <2>2, <5>1 DEF Shorter
      <4>2. x = s[1]
        BY DEF Chained
      <4> QED
        BY <4>1, <4>2
    <3>2. SubSeq(s, 1, 1) = <<s[1]>>
      <4>1. <<s[1]>> \in Seq(Items) /\ Len(<<s[1]>>) = 1 /\ <<s[1]>>[1] = s[1]
        BY <1>1
      <4>2. 1 \in 1 .. l
        BY <1>1
      <4>3. /\ SubSeq(s, 1, 1) \in Seq(Items) /\ Len(SubSeq(s, 1, 1)) = 1
            /\ \A i \in 1 .. 1 : SubSeq(s, 1, 1)[i] = s[i]
        BY <1>2, <4>2
      <4>4. \A i \in 1 .. 1 : SubSeq(s, 1, 1)[i] = <<s[1]>>[i]
        BY <4>3
      <4> QED
        BY <4>1, <4>3, <4>4, SeqEqual
    <3> QED
      BY <2>1, <2>2, <3>1, <3>2
  <2>3. CASE n > 0 /\ n < l
    <3>1. /\ met[n - 1] = SubSeq(s, 1, n) /\ met[n] = SubSeq(s, 1, n + 1)
          /\ n \in 1 .. l /\ n + 1 \in 1 .. l /\ n # l
      <4>1. Shorter(n + 1, l) = n + 1 /\ Shorter((n - 1) + 1, l) = n /\ n - 1 \in Nat
        BY <1>1, <2>3 DEF Shorter
      <4> QED
        BY <1>1, <2>1, <2>3, <4>1 DEF Met
    <3>2. link[Last(met[n - 1])] = s[n + 1] /\ s[n + 1] # NULL
      BY <1>1, <1>2, <3>1 DEF Chained
    <3>3. Append(met[n - 1], s[n + 1]) = met[n]
      <4> DEFINE a == SubSeq(s, 1, n)
                 b == SubSeq(s, 1, n + 1)
      <4>1. /\ a \in Seq(Items) /\ Len(a) = n /\ \A i \in 1 .. n : a[i] = s[i]
            /\ b \in Seq(Items) /\ Len(b) = n + 1 /\ \A i \in 1 .. n + 1 : b[i] = s[i]
            /\ s[n + 1] \in Items
        BY <1>1, <1>2, <3>1
      <4> HIDE DEF a, b
      <4>2. /\ Append(a, s[n + 1]) \in Seq(Items)
            /\ Len(Append(a, s[n + 1])) = n + 1
            /\ \A i \in 1 .. n : Append(a, s[n + 1])[i] = a[i]
            /\ Append(a, s[n + 1])[n + 1] = s[n + 1]
        BY <4>1, AppendProperties
      <4>3. \A i \in 1 .. n + 1 : Append(a, s[n + 1])[i] = b[i]
        <5>1. \A i \in 1 .. n + 1 : i \in 1 .. n \/ i = n + 1
          OBVIOUS
        <5> QED
          BY <4>1, <4>2, <5>1
      <4>4. Append(a, s[n + 1]) = b
        BY <4>1, <4>2, <4>3, SeqEqual
      <4> QED
        BY <3>1, <4>4 DEF a, b
    <3> QED
      BY <2>3, <3>2, <3>3
  <2>4. CASE n >= l
    <3>1. met[n - 1] = SubSeq(s, 1, l) /\ met[n] = SubSeq(s, 1, l)
      <4>1. Shorter(n + 1, l) = l /\ Shorter((n - 1) + 1, l) = l /\ n - 1 \in Nat
        BY <1>1, <2>4 DEF Shorter
      <4> QED
        BY <2>1, <4>1 DEF Met
    <3>2. link[Last(met[n - 1])] = NULL
      BY <1>1, <1>2, <3>1 DEF Chained
    <3> QED
      BY <1>1, <2>4, <3>1, <3>2
  <2> QED
    BY <1>1, <2>2, <2>3, <2>4
<1> QED
  BY <1>3 DEF Walks, Met

(* A list has no more items than there are.                                *)
LEMMA DistinctBounded ==
  ASSUME NEW s \in Seq(Items), Distinct(s)
  PROVE  Len(s) \in Nat /\ Cardinality(Items) \in Nat /\ Len(s) <= Cardinality(Items)
<1>1. Len(s) \in Nat /\ s \in [1 .. Len(s) -> Items]
  BY LenProperties
<1>2. s \in Injection(1 .. Len(s), Items)
  BY <1>1 DEF Distinct, Injection, IsInjective
<1>3. IsFiniteSet(1 .. Len(s)) /\ Cardinality(1 .. Len(s)) = Len(s)
  BY <1>1, FS_Interval
<1>4. Cardinality(1 .. Len(s)) <= Cardinality(Items)
  BY <1>2, Constants, FS_Injection
<1> QED
  BY <1>1, <1>3, <1>4, Constants, FS_CardinalityType

(* Chain reads the sequence that the links chain.                          *)
LEMMA ChainRead ==
  ASSUME NEW link, NEW x, NEW s \in Seq(Items), Distinct(s), Chained(link, s, x)
  PROVE  Chain(link, x) = s
<1>1. Len(s) \in Nat /\ Cardinality(Items) \in Nat /\ Len(s) <= Cardinality(Items)
  BY DistinctBounded
<1>2. CASE Len(s) = 0
  <2>1. s = <<>>
    BY <1>2, EmptySeq
  <2> QED
    BY <1>2, <2>1 DEF Chain, Chained
<1>3. CASE Len(s) > 0
  <2>1. x # NULL
    <3>1. x = s[1] /\ 1 \in 1 .. Len(s)
      BY <1>1, <1>3 DEF Chained
    <3> QED
      BY <3>1, ElementOfSeq, Constants
  <2>2. Walks(link, x, CHOOSE met : Walks(link, x, met))
    BY <1>3, MetWalks
  <2>3. Met(s) = CHOOSE met : Walks(link, x, met)
    BY <1>3, <2>2, MetWalks, WalkedOnce
  <2>4. Chain(link, x) = (CHOOSE met : Walks(link, x, met))[Cardinality(Items)]
    BY <2>1 DEF Chain, Walks
  <2>5. Met(s)[Cardinality(Items)] = SubSeq(s, 1, Len(s))
    <3>1. Shorter(Cardinality(Items) + 1, Len(s)) = Len(s)
      BY <1>1 DEF Shorter
    <3> QED
      BY <1>1, <3>1 DEF Met
  <2> QED
    BY <2>3, <2>4, <2>5, SubSeqFull
<1> QED
  BY <1>1, <1>2, <1>3

(* From the other end the same sequence is read in reverse.                *)
LEMMA ReverseChained ==
  ASSUME NEW link, NEW x, NEW s \in Seq(Items), Distinct(s), ChainedBack(link, s, x)
  PROVE  Chain(link, x) = Reverse(s) /\ s = Reverse(Chain(link, x))
<1> DEFINE l == Len(s)
           r == Reverse(s)
<1>1. l \in Nat /\ \A i \in 1 .. l : s[i] \in Items
  BY LenProperties, ElementOfSeq
<1>2. \A i \in 1 .. l : (l - i) + 1 \in 1 .. l /\ l - ((l - i) + 1) + 1 = i
  BY <1>1
<1>3. /\ r \in Seq(Items) /\ Len(r) = l
      /\ \A i \in 1 .. l : r[i] = s[(l - i) + 1]
  <2>1. r = [i \in 1 .. l |-> s[(l - i) + 1]]
    BY DEF Reverse
  <2>2. r \in [1 .. l -> Items]
    BY <1>1, <1>2, <2>1
  <2> QED
    BY <1>1, <2>1, <2>2
<1> HIDE DEF l, r
<1>4. Distinct(r)
  <2> SUFFICES ASSUME NEW i \in 1 .. l, NEW j \in 1 .. l, r[i] = r[j]
               PROVE  i = j
    BY <1>3 DEF Distinct
  <2>1. (l - i) + 1 = (l - j) + 1
    BY <1>2, <1>3, ZenonT(40) DEF Distinct, l
  <2> QED
    BY <1>1, <2>1
<1>5. Chained(link, r, x)
  <2>1. x = IF Len(r) = 0 THEN NULL ELSE r[1]
    <3>1. CASE l = 0
      BY <1>3, <3>1 DEF ChainedBack, l
    <3>2. CASE l # 0
      <4>1. 1 \in 1 .. l /\ (l - 1) + 1 = l
        BY <1>1, <3>2
      <4> QED
        BY <1>3, <3>2, <4>1 DEF ChainedBack, l
    <3> QED
      BY <3>1, <3>2
  <2>2. ASSUME NEW i \in 1 .. l
        PROVE  link[r[i]] = IF i = l THEN NULL ELSE r[i + 1]
    <3> DEFINE j == (l - i) + 1
    <3>1. j \in 1 .. l /\ r[i] = s[j] /\ (i = l <=> j = 1)
      BY <1>1, <1>2, <1>3
    <3>2. link[s[j]] = IF j = 1 THEN NULL ELSE s[j - 1]
      BY <3>1 DEF ChainedBack, l
    <3>3. i # l => r[i + 1] = s[j - 1]
      <4> SUFFICES ASSUME i # l PROVE r[i + 1] = s[j - 1]
        OBVIOUS
      <4>1. i + 1 \in 1 .. l /\ (l - (i + 1)) + 1 = j - 1
        BY <1>1
      <4> QED
        BY <1>3, <4>1
    <3> QED
      BY <3>1, <3>2, <3>3
  <2> QED
    BY <1>3, <2>1, <2>2 DEF Chained
<1>6. Chain(link, x) = r
  BY <1>3, <1>4, <1>5, ChainRead
<1>7. s = Reverse(r)
  <2>1. Reverse(r) = [i \in 1 .. l |-> r[(l - i) + 1]]
    BY <1>3 DEF Reverse
  <2>2. \A i \in 1 .. l : r[(l - i) + 1] = s[i]
    BY <1>2, <1>3
  <2>3. s = [i \in 1 .. l |-> s[i]]
    BY LenProperties DEF l
  <2> QED
    BY <2>1, <2>2, <2>3
<1> QED
  BY <1>6, <1>7 DEF r

-----------------------------------------------------------------------------
(* All lists at once: they are linked as these sequences, an item is in    *)
(* one of them at most, and an item in none has no neighbours.  The items  *)
(* that plt_clear has yet to forget are linked as the sequence gone.       *)
LinkTypes ==
    /\ head \in [AllLists -> Pointer] /\ tail \in [AllLists -> Pointer]
    /\ count \in [AllLists -> Nat]
    /\ next \in [Items -> Pointer] /\ prev \in [Items -> Pointer]

Forgetting(lists, gone) ==
    /\ gone \in Seq(Items) /\ Distinct(gone)
    /\ gone # <<>> => Chained(next, gone, gone[1]) /\ ChainedBack(prev, gone, gone[Len(gone)])
    /\ \A p \in AllLists : ToSet(lists[p]) \cap ToSet(gone) = {}

LinkedAs(lists, gone) ==
    /\ LinkTypes
    /\ Forgetting(lists, gone)
    /\ lists \in [AllLists -> Seq(Items)]
    /\ \A p \in AllLists :
        /\ Distinct(lists[p])
        /\ Chained(next, lists[p], head[p])
        /\ ChainedBack(prev, lists[p], tail[p])
        /\ count[p] = Len(lists[p])
    /\ \A p, q \in AllLists :
        p # q => ToSet(lists[p]) \cap ToSet(lists[q]) = {}
    /\ \A i \in Items :
        (\A p \in AllLists : i \notin ToSet(lists[p])) /\ i \notin ToSet(gone)
        => next[i] = NULL /\ prev[i] = NULL

(* Lists that are linked as sequences are sound: they read the same from   *)
(* head and tail and are as long as they are counted (plt_insert_item,     *)
(* plt_remove_item).                                                       *)
LEMMA LinkedIsSound ==
  ASSUME NEW lists, NEW gone, LinkedAs(lists, gone), ToSet(gone) \subseteq Forgotten, ~failed
  PROVE  /\ ListsSound
         /\ \A p \in AllLists : Tracks(p) = lists[p]
<1>1. ASSUME NEW p \in AllLists
      PROVE  Tracks(p) = lists[p] /\ Tracks(p) = Reverse(Chain(prev, tail[p]))
  <2>1. /\ lists[p] \in Seq(Items) /\ Distinct(lists[p])
        /\ Chained(next, lists[p], head[p]) /\ ChainedBack(prev, lists[p], tail[p])
    BY DEF LinkedAs
  <2> QED
    BY <2>1, ChainRead, ReverseChained DEF Tracks
<1>2. \A p \in AllLists : Len(Tracks(p)) = count[p]
  BY <1>1 DEF LinkedAs
<1>3. \A p, q \in AllLists : p # q => ToSet(Tracks(p)) \cap ToSet(Tracks(q)) = {}
  BY <1>1 DEF LinkedAs
<1>4. \A i \in Items : \/ \E p \in AllLists : i \in ToSet(Tracks(p))
                       \/ i \in Forgotten
                       \/ next[i] = NULL /\ prev[i] = NULL
  BY <1>1 DEF LinkedAs
<1> QED
  BY <1>1, <1>2, <1>3, <1>4 DEF ListsSound

-----------------------------------------------------------------------------
(* plt_insert_item and plt_remove_item.                                    *)

(* The list itself: s is linked, and item comes after the first k items.   *)
LEMMA ItemLinked ==
  ASSUME NEW s \in Seq(Items), Distinct(s), NEW k \in 0 .. Len(s),
         NEW item \in Items \ ToSet(s), NEW nx, NEW pv, NEW h, NEW l,
         NEW n2, NEW p2, NEW h2, NEW l2, NEW after, NEW follower,
         Chained(nx, s, h), ChainedBack(pv, s, l),
         after = (IF k = 0 THEN NULL ELSE s[k]),
         follower = (IF k = Len(s) THEN NULL ELSE s[k + 1]),
         \A i \in Items : n2[i] = IF i = item THEN follower
                                  ELSE IF i = after THEN item ELSE nx[i],
         \A i \in Items : p2[i] = IF i = item THEN after
                                  ELSE IF i = follower THEN item ELSE pv[i],
         h2 = (IF k = 0 THEN item ELSE h),
         l2 = (IF k = Len(s) THEN item ELSE l)
  PROVE  /\ Distinct(InsertAt(s, k + 1, item))
         /\ Chained(n2, InsertAt(s, k + 1, item), h2)
         /\ ChainedBack(p2, InsertAt(s, k + 1, item), l2)
<1> DEFINE t == InsertAt(s, k + 1, item)
           m == Len(s)
<1>1. /\ m \in Nat /\ t \in Seq(Items) /\ Len(t) = m + 1
      /\ \A i \in 1 .. m + 1 : t[i] = IF i <= k THEN s[i]
                                     ELSE IF i = k + 1 THEN item ELSE s[i - 1]
  BY InsertAtElements
<1>2. /\ \A i \in 1 .. m : s[i] \in Items /\ s[i] # item /\ s[i] # NULL
      /\ k \in Nat /\ k <= m
  <2>1. \A i \in 1 .. m : s[i] \in Items /\ i \in DOMAIN s
    BY LenProperties, ElementOfSeq
  <2> QED
    BY <1>1, <2>1, Constants DEF ToSet
<1>3. /\ \A i \in 1 .. m : nx[s[i]] = IF i = m THEN NULL ELSE s[i + 1]
      /\ \A i \in 1 .. m : pv[s[i]] = IF i = 1 THEN NULL ELSE s[i - 1]
      /\ h = IF m = 0 THEN NULL ELSE s[1]
      /\ l = IF m = 0 THEN NULL ELSE s[m]
  BY DEF Chained, ChainedBack
<1>4. \A i, j \in 1 .. m : s[i] = s[j] => i = j
  BY DEF Distinct
<1>5. follower = (IF k = m THEN NULL ELSE s[k + 1]) /\ l2 = (IF k = m THEN item ELSE l)
  OBVIOUS
<1> HIDE DEF t, m
<1>6. ASSUME NEW i \in 1 .. m + 1
      PROVE  \/ i \in 1 .. m /\ i <= k /\ t[i] = s[i]
             \/ i = k + 1 /\ t[i] = item
             \/ i > k + 1 /\ i - 1 \in 1 .. m /\ i - 1 > k /\ t[i] = s[i - 1]
  BY <1>1, <1>2
<1>7. Distinct(t)
  <2> SUFFICES ASSUME NEW i \in 1 .. m + 1, NEW j \in 1 .. m + 1, t[i] = t[j]
               PROVE  i = j
    BY <1>1 DEF Distinct
  <2>1. CASE i <= k
    BY <1>1, <1>2, <1>4, <1>6, <2>1
  <2>2. CASE i = k + 1
    BY <1>1, <1>2, <1>4, <1>6, <2>2
  <2>3. CASE i > k + 1
    <3>1. i - 1 \in 1 .. m /\ i - 1 > k /\ t[i] = s[i - 1] /\ s[i - 1] # item
      BY <1>2, <1>6, <2>3
    <3>2. CASE j \in 1 .. m /\ j <= k /\ t[j] = s[j]
      <4>1. i - 1 = j
        BY <1>4, <3>1, <3>2, ZenonT(30)
      <4> QED
        BY <1>2, <3>1, <3>2, <4>1
    <3>3. CASE j = k + 1 /\ t[j] = item
      BY <3>1, <3>3
    <3>4. CASE j > k + 1 /\ j - 1 \in 1 .. m /\ t[j] = s[j - 1]
      <4> DEFINE a == i - 1
                 b == j - 1
      <4>1. a \in 1 .. m /\ b \in 1 .. m /\ s[a] = s[b]
        BY <3>1, <3>4
      <4> HIDE DEF a, b
      <4>2. a = b
        BY <1>4, <4>1
      <4> QED
        BY <4>2 DEF a, b
    <3> QED
      BY <1>6, <3>2, <3>3, <3>4
  <2>4. i <= k \/ i = k + 1 \/ i > k + 1
    BY <1>2
  <2> QED
    BY <2>1, <2>2, <2>3, <2>4
<1>8. Chained(n2, t, h2)
  <2>1. h2 = t[1] /\ Len(t) # 0
    <3>1. CASE k = 0
      BY <1>1, <3>1
    <3>2. CASE k # 0
      BY <1>1, <1>2, <1>3, <3>2
    <3> QED
      BY <3>1, <3>2
  <2>2. ASSUME NEW i \in 1 .. m + 1
        PROVE  n2[t[i]] = IF i = m + 1 THEN NULL ELSE t[i + 1]
    <3>1. CASE i < k
      <4>1. /\ i \in 1 .. m /\ i + 1 \in 1 .. m + 1 /\ i + 1 <= k /\ k \in 1 .. m
            /\ i # m /\ i # m + 1 /\ i # k
        BY <1>1, <1>2, <3>1
      <4>2. t[i] = s[i] /\ t[i + 1] = s[i + 1] /\ s[i] # s[k]
        BY <1>1, <1>4, <3>1, <4>1
      <4> QED
        BY <1>2, <1>3, <4>1, <4>2
    <3>2. CASE i = k
      <4>1. i \in 1 .. m /\ i + 1 \in 1 .. m + 1 /\ i # m + 1
        BY <1>1, <1>2, <3>2
      <4>2. t[i] = s[k] /\ t[i + 1] = item
        BY <1>1, <1>2, <3>2, <4>1
      <4> QED
        BY <1>2, <3>2, <4>1, <4>2
    <3>3. CASE i = k + 1
      <4>1. t[i] = item /\ n2[t[i]] = follower
        BY <1>1, <1>2, <3>3
      <4>2. k # m => t[i + 1] = s[k + 1]
        BY <1>1, <1>2, <3>3
      <4> QED
        BY <1>1, <1>2, <1>5, <3>3, <4>1, <4>2
    <3>4. CASE i > k + 1
      <4>1. /\ i - 1 \in 1 .. m /\ i - 1 # k /\ t[i] = s[i - 1]
            /\ i - 1 = m <=> i = m + 1
        BY <1>1, <1>2, <3>4
      <4>2. s[i - 1] # after /\ s[i - 1] # item
        BY <1>2, <1>4, <4>1
      <4>3. n2[t[i]] = nx[s[i - 1]]
        BY <1>2, <4>1, <4>2
      <4>4. i # m + 1 => t[i + 1] = s[(i - 1) + 1]
        BY <1>1, <1>2, <3>4
      <4> QED
        BY <1>3, <4>1, <4>3, <4>4
    <3>5. i < k \/ i = k \/ i = k + 1 \/ i > k + 1
      BY <1>2
    <3> QED
      BY <3>1, <3>2, <3>3, <3>4, <3>5
  <2> QED
    BY <1>1, <2>1, <2>2 DEF Chained
<1>9. ChainedBack(p2, t, l2)
  <2>1. l2 = t[m + 1] /\ Len(t) # 0
    <3>1. CASE k = m
      BY <1>1, <1>5, <3>1
    <3>2. CASE k # m
      BY <1>1, <1>2, <1>3, <1>5, <3>2
    <3> QED
      BY <3>1, <3>2
  <2>2. ASSUME NEW i \in 1 .. m + 1
        PROVE  p2[t[i]] = IF i = 1 THEN NULL ELSE t[i - 1]
    <3>1. CASE i <= k
      <4>1. i \in 1 .. m /\ t[i] = s[i] /\ (i # 1 => t[i - 1] = s[i - 1]) /\ i # k + 1
        BY <1>1, <1>2, <3>1
      <4>2. s[i] # follower
        <5>1. CASE k = m
          BY <1>2, <1>5, <4>1, <5>1
        <5>2. CASE k # m
          <6>1. k + 1 \in 1 .. m
            BY <1>1, <1>2, <5>2
          <6> QED
            BY <1>4, <1>5, <4>1, <5>2, <6>1
        <5> QED
          BY <5>1, <5>2
      <4> QED
        BY <1>2, <1>3, <4>1, <4>2
    <3>2. CASE i = k + 1
      <4>1. t[i] = item /\ p2[t[i]] = after
        BY <1>1, <1>2, <3>2
      <4>2. k # 0 => t[i - 1] = s[k]
        BY <1>1, <1>2, <3>2
      <4>3. i = 1 <=> k = 0
        BY <1>2, <3>2
      <4> QED
        BY <4>1, <4>2, <4>3
    <3>3. CASE i = k + 2
      <4>1. i - 1 = k + 1 /\ k + 1 \in 1 .. m /\ k # m /\ i # 1
        BY <1>1, <1>2, <3>3
      <4>2. t[i] = s[k + 1] /\ t[i - 1] = item
        BY <1>1, <1>2, <3>3, <4>1
      <4> QED
        BY <1>2, <1>5, <4>1, <4>2
    <3>4. CASE i > k + 2
      <4>1. /\ i - 1 \in 1 .. m /\ i - 1 # k + 1 /\ i - 1 # 1 /\ i # 1
            /\ i - 1 \in 1 .. m + 1 /\ i - 1 > k + 1 /\ i > k + 1
            /\ ~(i <= k) /\ i # k + 1 /\ ~(i - 1 <= k)
        BY <1>1, <3>4
      <4>a. t[i] = s[i - 1]
        BY <1>1, <4>1
      <4>b. t[i - 1] = s[(i - 1) - 1]
        BY <1>1, <4>1
      <4>2. s[i - 1] # follower
        <5>1. CASE k = m
          BY <1>2, <1>5, <4>1, <5>1
        <5>2. CASE k # m
          <6>1. k + 1 \in 1 .. m
            BY <1>1, <1>2, <5>2
          <6> QED
            BY <1>4, <1>5, <4>1, <5>2, <6>1
        <5> QED
          BY <5>1, <5>2
      <4> QED
        BY <1>2, <1>3, <4>1, <4>2, <4>a, <4>b
    <3>5. i <= k \/ i = k + 1 \/ i = k + 2 \/ i > k + 2
      BY <1>2
    <3> QED
      BY <3>1, <3>2, <3>3, <3>4, <3>5
  <2> QED
    BY <1>1, <2>1, <2>2 DEF ChainedBack
<1> QED
  BY <1>7, <1>8, <1>9 DEF t

(* The k-th item is taken out of s.                                        *)
LEMMA ItemUnlinked ==
  ASSUME NEW s \in Seq(Items), Distinct(s), NEW k \in 1 .. Len(s),
         NEW nx, NEW pv, NEW h, NEW l,
         NEW n2, NEW p2, NEW h2, NEW l2, NEW before, NEW follower,
         Chained(nx, s, h), ChainedBack(pv, s, l),
         before = (IF k = 1 THEN NULL ELSE s[k - 1]),
         follower = (IF k = Len(s) THEN NULL ELSE s[k + 1]),
         \A i \in Items : n2[i] = IF i = s[k] THEN NULL
                                  ELSE IF i = before THEN follower ELSE nx[i],
         \A i \in Items : p2[i] = IF i = s[k] THEN NULL
                                  ELSE IF i = follower THEN before ELSE pv[i],
         h2 = (IF before = NULL THEN follower ELSE h),
         l2 = (IF follower = NULL THEN before ELSE l)
  PROVE  /\ Distinct(RemoveAt(s, k))
         /\ Chained(n2, RemoveAt(s, k), h2)
         /\ ChainedBack(p2, RemoveAt(s, k), l2)
<1> DEFINE t == RemoveAt(s, k)
           m == Len(s)
<1>1. /\ m \in Nat /\ t \in Seq(Items) /\ Len(t) = m - 1
      /\ \A i \in 1 .. m - 1 : t[i] = IF i < k THEN s[i] ELSE s[i + 1]
  BY RemoveAtElements
<1>2. /\ \A i \in 1 .. m : s[i] \in Items /\ s[i] # NULL
      /\ k \in 1 .. m
  BY LenProperties, ElementOfSeq, Constants
<1>3. /\ \A i \in 1 .. m : nx[s[i]] = IF i = m THEN NULL ELSE s[i + 1]
      /\ \A i \in 1 .. m : pv[s[i]] = IF i = 1 THEN NULL ELSE s[i - 1]
      /\ h = IF m = 0 THEN NULL ELSE s[1]
      /\ l = IF m = 0 THEN NULL ELSE s[m]
  BY DEF Chained, ChainedBack
<1>4. \A i, j \in 1 .. m : s[i] = s[j] => i = j
  BY DEF Distinct
<1>5. follower = (IF k = m THEN NULL ELSE s[k + 1])
  OBVIOUS
<1> HIDE DEF t, m
<1>6. ASSUME NEW i \in 1 .. m - 1
      PROVE  \/ i < k /\ i \in 1 .. m /\ t[i] = s[i]
             \/ i >= k /\ i + 1 \in 1 .. m /\ t[i] = s[i + 1]
  BY <1>1, <1>2
<1>7. Distinct(t)
  <2> SUFFICES ASSUME NEW i \in 1 .. m - 1, NEW j \in 1 .. m - 1, t[i] = t[j]
               PROVE  i = j
    BY <1>1 DEF Distinct
  <2>1. CASE i < k
    BY <1>1, <1>2, <1>4, <1>6, <2>1, SMTT(30)
  <2>2. CASE i >= k
    BY <1>1, <1>2, <1>4, <1>6, <2>2
  <2> QED
    BY <1>1, <1>2, <2>1, <2>2
<1>8. Chained(n2, t, h2)
  <2>1. h2 = IF m - 1 = 0 THEN NULL ELSE t[1]
    <3>1. CASE k = 1
      <4>1. before = NULL /\ h2 = follower
        BY <3>1
      <4>2. CASE m = 1
        BY <1>5, <3>1, <4>1, <4>2
      <4>3. CASE m # 1
        <5>1. 1 \in 1 .. m - 1 /\ ~(1 < k) /\ k # m /\ m - 1 # 0
          BY <1>1, <1>2, <3>1, <4>3
        <5> QED
          BY <1>1, <1>5, <3>1, <4>1, <5>1
      <4> QED
        BY <4>2, <4>3
    <3>2. CASE k # 1
      <4>1. /\ k - 1 \in 1 .. m /\ 1 \in 1 .. m - 1 /\ 1 < k /\ m - 1 # 0
            /\ m # 0
        BY <1>1, <1>2, <3>2
      <4>2. before = s[k - 1] /\ before # NULL
        BY <1>2, <3>2, <4>1
      <4> QED
        BY <1>1, <1>3, <4>1, <4>2
    <3> QED
      BY <3>1, <3>2
  <2>2. ASSUME NEW i \in 1 .. m - 1
        PROVE  n2[t[i]] = IF i = m - 1 THEN NULL ELSE t[i + 1]
    <3>1. CASE i + 1 < k
      <4>1. /\ i \in 1 .. m /\ i < k /\ i # k /\ i # k - 1 /\ i # m - 1 /\ i # m
            /\ i + 1 \in 1 .. m - 1
        BY <1>1, <1>2, <3>1
      <4>2. t[i] = s[i] /\ t[i + 1] = s[i + 1]
        BY <1>1, <3>1, <4>1
      <4>3. s[i] # s[k] /\ s[i] # before
        <5>1. k - 1 \in 1 .. m /\ k # 1
          BY <1>1, <1>2, <3>1
        <5> QED
          BY <1>2, <1>4, <4>1, <5>1
      <4> QED
        BY <1>2, <1>3, <4>1, <4>2, <4>3
    <3>2. CASE i + 1 = k
      <4>1. i \in 1 .. m /\ i < k /\ i # k /\ k # 1 /\ k - 1 = i
        BY <1>1, <1>2, <3>2
      <4>2. t[i] = s[i] /\ s[i] = before /\ s[i] # s[k]
        BY <1>1, <1>2, <1>4, <4>1
      <4>3. n2[t[i]] = follower
        BY <1>2, <4>1, <4>2
      <4>4. i = m - 1 <=> k = m
        BY <1>1, <1>2, <3>2
      <4>5. i # m - 1 => t[i + 1] = s[k + 1]
        <5> SUFFICES ASSUME i # m - 1 PROVE t[i + 1] = s[k + 1]
          OBVIOUS
        <5>1. k \in 1 .. m - 1 /\ ~(k < k)
          BY <1>1, <1>2, <4>4
        <5> QED
          BY <1>1, <3>2, <5>1
      <4> QED
        BY <1>5, <4>3, <4>4, <4>5
    <3>3. CASE i + 1 > k
      <4>1. /\ i + 1 \in 1 .. m /\ ~(i < k) /\ i + 1 # k /\ i + 1 # k - 1
            /\ (i + 1 = m <=> i = m - 1)
        BY <1>1, <1>2, <3>3
      <4>2. t[i] = s[i + 1]
        BY <1>1, <4>1
      <4>3. s[i + 1] # s[k] /\ s[i + 1] # before
        <5>1. k # 1 => k - 1 \in 1 .. m
          BY <1>1, <1>2
        <5> QED
          BY <1>2, <1>4, <4>1, <5>1
      <4>4. n2[t[i]] = nx[s[i + 1]]
        BY <1>2, <4>1, <4>2, <4>3
      <4>5. i # m - 1 => t[i + 1] = s[(i + 1) + 1]
        <5> SUFFICES ASSUME i # m - 1 PROVE t[i + 1] = s[(i + 1) + 1]
          OBVIOUS
        <5>1. i + 1 \in 1 .. m - 1 /\ ~(i + 1 < k)
          BY <1>1, <1>2, <3>3
        <5> QED
          BY <1>1, <5>1
      <4> QED
        BY <1>3, <4>1, <4>4, <4>5
    <3>4. i + 1 < k \/ i + 1 = k \/ i + 1 > k
      BY <1>2
    <3> QED
      BY <3>1, <3>2, <3>3, <3>4
  <2> QED
    BY <1>1, <2>1, <2>2 DEF Chained
<1>9. ChainedBack(p2, t, l2)
  <2>1. l2 = IF m - 1 = 0 THEN NULL ELSE t[m - 1]
    <3>1. CASE k = m
      <4>1. l2 = before
        BY <1>5, <3>1
      <4>2. CASE m = 1
        BY <3>1, <4>1, <4>2
      <4>3. CASE m # 1
        <5>1. m - 1 \in 1 .. m - 1 /\ m - 1 < k /\ k # 1 /\ m - 1 # 0
          BY <1>1, <1>2, <3>1, <4>3
        <5> QED
          BY <1>1, <3>1, <4>1, <5>1
      <4> QED
        BY <4>2, <4>3
    <3>2. CASE k # m
      <4>1. /\ k + 1 \in 1 .. m /\ m - 1 \in 1 .. m - 1 /\ ~(m - 1 < k)
            /\ m - 1 # 0 /\ m # 0 /\ (m - 1) + 1 = m
        BY <1>1, <1>2, <3>2
      <4>2. follower # NULL /\ l2 = l
        BY <1>2, <1>5, <3>2, <4>1
      <4>3. t[m - 1] = s[m]
        BY <1>1, <4>1
      <4> QED
        BY <1>3, <4>1, <4>2, <4>3
    <3> QED
      BY <3>1, <3>2
  <2>2. ASSUME NEW i \in 1 .. m - 1
        PROVE  p2[t[i]] = IF i = 1 THEN NULL ELSE t[i - 1]
    <3>1. CASE i < k
      <4>1. i \in 1 .. m /\ i # k /\ i # k + 1
        BY <1>1, <1>2, <3>1
      <4>2. t[i] = s[i]
        BY <1>1, <3>1
      <4>3. s[i] # s[k] /\ s[i] # follower
        <5>1. k # m => k + 1 \in 1 .. m
          BY <1>1, <1>2
        <5> QED
          BY <1>2, <1>4, <1>5, <4>1, <5>1
      <4>4. i # 1 => t[i - 1] = s[i - 1]
        <5> SUFFICES ASSUME i # 1 PROVE t[i - 1] = s[i - 1]
          OBVIOUS
        <5>1. i - 1 \in 1 .. m - 1 /\ i - 1 < k
          BY <1>1, <1>2, <3>1
        <5> QED
          BY <1>1, <5>1
      <4> QED
        BY <1>2, <1>3, <4>1, <4>2, <4>3, <4>4
    <3>2. CASE i = k
      <4>1. /\ k + 1 \in 1 .. m /\ k # m /\ ~(i < k) /\ k + 1 # k
        BY <1>1, <1>2, <3>2
      <4>2. t[i] = s[k + 1] /\ s[k + 1] = follower /\ s[k + 1] # s[k]
        BY <1>1, <1>2, <1>4, <1>5, <3>2, <4>1
      <4>3. p2[t[i]] = before
        BY <1>2, <4>1, <4>2
      <4>4. i # 1 => t[i - 1] = s[k - 1]
        <5> SUFFICES ASSUME i # 1 PROVE t[i - 1] = s[k - 1]
          OBVIOUS
        <5>1. i - 1 \in 1 .. m - 1 /\ i - 1 < k
          BY <1>1, <1>2, <3>2
        <5> QED
          BY <1>1, <3>2, <5>1
      <4> QED
        BY <3>2, <4>3, <4>4
    <3>3. CASE i > k
      <4>1. /\ i + 1 \in 1 .. m /\ ~(i < k) /\ i + 1 # k /\ i + 1 # k + 1
            /\ i + 1 # 1 /\ (i + 1) - 1 = i /\ i # 1
        BY <1>1, <1>2, <3>3
      <4>2. t[i] = s[i + 1]
        BY <1>1, <4>1
      <4>3. s[i + 1] # s[k] /\ s[i + 1] # follower
        <5>1. k # m => k + 1 \in 1 .. m
          BY <1>1, <1>2
        <5> QED
          BY <1>2, <1>4, <1>5, <4>1, <5>1
      <4>4. t[i - 1] = s[i]
        <5>1. i - 1 \in 1 .. m - 1 /\ ~(i - 1 < k) /\ (i - 1) + 1 = i
          BY <1>1, <1>2, <3>3
        <5> QED
          BY <1>1, <5>1
      <4>5. pv[s[i + 1]] = s[i]
        BY <1>3, <4>1
      <4> QED
        BY <1>2, <4>1, <4>2, <4>3, <4>4, <4>5
    <3>4. i < k \/ i = k \/ i > k
      BY <1>2
    <3> QED
      BY <3>1, <3>2, <3>3, <3>4
  <2> QED
    BY <1>1, <2>1, <2>2 DEF ChainedBack
<1> QED
  BY <1>7, <1>8, <1>9 DEF t

LEMMA InsertAtSet ==
  ASSUME NEW s \in Seq(Items), NEW k \in 0 .. Len(s), NEW item \in Items
  PROVE  ToSet(InsertAt(s, k + 1, item)) = ToSet(s) \cup {item}
<1> DEFINE t == InsertAt(s, k + 1, item)
           m == Len(s)
<1>1. /\ m \in Nat /\ t \in Seq(Items) /\ Len(t) = m + 1 /\ k \in Nat /\ k <= m
      /\ \A i \in 1 .. m + 1 : t[i] = IF i <= k THEN s[i]
                                     ELSE IF i = k + 1 THEN item ELSE s[i - 1]
  <2>1. /\ m \in Nat /\ t \in Seq(Items) /\ Len(t) = m + 1
        /\ \A i \in 1 .. m + 1 : t[i] = IF i <= k THEN s[i]
                                       ELSE IF i = k + 1 THEN item ELSE s[i - 1]
    BY InsertAtElements
  <2> QED
    BY <2>1
<1>2. ToSet(s) = {s[i] : i \in 1 .. m} /\ ToSet(t) = {t[i] : i \in 1 .. m + 1}
  BY <1>1, LenProperties DEF ToSet
<1> HIDE DEF t, m
<1>3. ASSUME NEW i \in 1 .. m PROVE s[i] \in ToSet(t)
  <2>1. CASE i <= k
    <3>1. i \in 1 .. m + 1
      BY <1>1
    <3> QED
      BY <1>1, <1>2, <2>1, <3>1
  <2>2. CASE i > k
    <3>1. /\ i + 1 \in 1 .. m + 1 /\ ~(i + 1 <= k) /\ i + 1 # k + 1
          /\ (i + 1) - 1 = i
      BY <1>1, <2>2
    <3>2. t[i + 1] = s[i]
      BY <1>1, <3>1
    <3> QED
      BY <1>2, <3>1, <3>2
  <2> QED
    BY <1>1, <2>1, <2>2
<1>4. item \in ToSet(t)
  <2>1. k + 1 \in 1 .. m + 1 /\ ~(k + 1 <= k)
    BY <1>1
  <2>2. t[k + 1] = item
    BY <1>1, <2>1
  <2> QED
    BY <1>2, <2>1, <2>2
<1>5. ASSUME NEW i \in 1 .. m + 1 PROVE t[i] \in ToSet(s) \cup {item}
  <2>1. CASE i <= k
    <3>1. i \in 1 .. m
      BY <1>1, <2>1
    <3> QED
      BY <1>1, <1>2, <2>1, <3>1
  <2>2. CASE i = k + 1
    <3>1. ~(i <= k)
      BY <1>1, <2>2
    <3> QED
      BY <1>1, <2>2, <3>1
  <2>3. CASE i > k + 1
    <3>1. i - 1 \in 1 .. m /\ ~(i <= k) /\ i # k + 1
      BY <1>1, <2>3
    <3> QED
      BY <1>1, <1>2, <3>1
  <2> QED
    BY <1>1, <2>1, <2>2, <2>3
<1> QED
  BY <1>2, <1>3, <1>4, <1>5 DEF t

LEMMA RemoveAtSet ==
  ASSUME NEW s \in Seq(Items), Distinct(s), NEW k \in 1 .. Len(s)
  PROVE  ToSet(RemoveAt(s, k)) = ToSet(s) \ {s[k]}
<1> DEFINE t == RemoveAt(s, k)
           m == Len(s)
<1>1. /\ m \in Nat /\ t \in Seq(Items) /\ Len(t) = m - 1 /\ k \in 1 .. m
      /\ \A i \in 1 .. m - 1 : t[i] = IF i < k THEN s[i] ELSE s[i + 1]
  BY RemoveAtElements
<1>2. ToSet(s) = {s[i] : i \in 1 .. m} /\ ToSet(t) = {t[i] : i \in 1 .. m - 1}
  BY <1>1, LenProperties DEF ToSet
<1>3. \A i, j \in 1 .. m : s[i] = s[j] => i = j
  BY DEF Distinct
<1> HIDE DEF t, m
<1>4. ASSUME NEW i \in 1 .. m, i # k PROVE s[i] \in ToSet(t)
  <2>1. CASE i < k
    <3>1. i \in 1 .. m - 1
      BY <1>1, <2>1
    <3>2. t[i] = s[i]
      BY <1>1, <2>1, <3>1
    <3> QED
      BY <1>2, <3>1, <3>2
  <2>2. CASE i > k
    <3>1. i - 1 \in 1 .. m - 1 /\ ~(i - 1 < k) /\ (i - 1) + 1 = i
      BY <1>1, <2>2
    <3>2. t[i - 1] = s[i]
      BY <1>1, <3>1
    <3> QED
      BY <1>2, <3>1, <3>2
  <2> QED
    BY <1>1, <1>4, <2>1, <2>2
<1>5. ASSUME NEW i \in 1 .. m - 1 PROVE t[i] \in ToSet(s) /\ t[i] # s[k]
  <2>1. CASE i < k
    <3>1. i \in 1 .. m /\ i # k
      BY <1>1, <2>1
    <3> QED
      BY <1>1, <1>2, <1>3, <2>1, <3>1
  <2>2. CASE i >= k
    <3>1. i + 1 \in 1 .. m /\ i + 1 # k /\ ~(i < k)
      BY <1>1, <2>2
    <3> QED
      BY <1>1, <1>2, <1>3, <3>1
  <2> QED
    BY <1>1, <2>1, <2>2
<1>6. ToSet(s) \ {s[k]} \subseteq ToSet(t)
  BY <1>2, <1>4
<1>7. ToSet(t) \subseteq ToSet(s) \ {s[k]}
  BY <1>2, <1>5
<1> QED
  BY <1>6, <1>7 DEF t

(* The links of a list are those of its items alone.                       *)
LEMMA OthersLinked ==
  ASSUME NEW s \in Seq(Items), NEW nx, NEW pv, NEW h, NEW l, NEW n2, NEW p2,
         Chained(nx, s, h), ChainedBack(pv, s, l),
         \A i \in ToSet(s) : n2[i] = nx[i] /\ p2[i] = pv[i]
  PROVE  Chained(n2, s, h) /\ ChainedBack(p2, s, l)
<1>1. \A i \in 1 .. Len(s) : s[i] \in ToSet(s)
  BY LenProperties DEF ToSet
<1> QED
  BY <1>1 DEF Chained, ChainedBack

(* plt_insert_item puts the item where it was asked to, at the start or    *)
(* after one of the list, and every other list is as it was: the lists are *)
(* linked as before with the item in its place.                            *)
THEOREM InsertionKeepsLists ==
  ASSUME NEW lists, NEW gone, LinkedAs(lists, gone),
         NEW p \in AllLists, NEW k \in 0 .. Len(lists[p]),
         NEW item \in Items \ ToSet(gone), \A q \in AllLists : item \notin ToSet(lists[q]),
         NEW release,
         Inserted(p, IF k = 0 THEN NULL ELSE lists[p][k], item, release)
  PROVE  LinkedAs([lists EXCEPT ![p] = InsertAt(lists[p], k + 1, item)], gone)'
<1> DEFINE s == lists[p]
           after == IF k = 0 THEN NULL ELSE s[k]
           follower == IF k = Len(s) THEN NULL ELSE s[k + 1]
           new == [lists EXCEPT ![p] = InsertAt(lists[p], k + 1, item)]
<1>1. /\ s \in Seq(Items) /\ Distinct(s)
      /\ Chained(next, s, head[p]) /\ ChainedBack(prev, s, tail[p])
      /\ count[p] = Len(s) /\ Len(s) \in Nat
  BY LenProperties DEF LinkedAs
<1>2. \A i \in 1 .. Len(s) : s[i] \in Items /\ s[i] # NULL /\ s[i] \in ToSet(s)
  BY <1>1, LenProperties, ElementOfSeq, Constants DEF ToSet
<1>3. after = NULL <=> k = 0
  <2>1. k # 0 => k \in 1 .. Len(s)
    BY <1>1
  <2> QED
    BY <1>2, <2>1
<1>4. (IF after = NULL THEN head[p] ELSE next[after]) = follower
  <2>1. CASE k = 0
    <3>1. head[p] = IF Len(s) = 0 THEN NULL ELSE s[1]
      BY <1>1 DEF Chained
    <3> QED
      BY <1>1, <2>1, <3>1
  <2>2. CASE k # 0
    <3>1. k \in 1 .. Len(s)
      BY <1>1, <2>2
    <3>2. next[s[k]] = IF k = Len(s) THEN NULL ELSE s[k + 1]
      BY <1>1, <3>1 DEF Chained
    <3> QED
      BY <1>3, <2>2, <3>2
  <2> QED
    BY <2>1, <2>2
<1>5. (IF after = NULL THEN head[p] = NULL ELSE after = tail[p]) <=> k = Len(s)
  <2>1. CASE k = 0
    <3>1. head[p] = IF Len(s) = 0 THEN NULL ELSE s[1]
      BY <1>1 DEF Chained
    <3>2. Len(s) # 0 => 1 \in 1 .. Len(s)
      BY <1>1
    <3> QED
      BY <1>2, <2>1, <3>1, <3>2
  <2>2. CASE k # 0
    <3>1. k \in 1 .. Len(s) /\ Len(s) \in 1 .. Len(s) /\ Len(s) # 0
      BY <1>1, <2>2
    <3>2. tail[p] = s[Len(s)]
      BY <1>1, <3>1 DEF ChainedBack
    <3> QED
      BY <1>1, <1>3, <2>2, <3>1, <3>2 DEF Distinct
  <2> QED
    BY <2>1, <2>2
<1>6. /\ \A i \in Items : next'[i] = IF i = item THEN follower
                                     ELSE IF i = after THEN item ELSE next[i]
      /\ \A i \in Items : prev'[i] = IF i = item THEN after
                                     ELSE IF i = follower THEN item ELSE prev[i]
      /\ head' = IF after = NULL THEN [head EXCEPT ![p] = item] ELSE head
      /\ tail' = IF k = Len(s) THEN [tail EXCEPT ![p] = item] ELSE tail
      /\ count' = [count EXCEPT ![p] = @ + 1]
  <2> HIDE DEF after, follower
  <2>1. Inserted(p, after, item, release)
    BY DEF after
  <2> QED
    BY <1>4, <1>5, <2>1 DEF Inserted
<1>7. /\ head'[p] = (IF k = 0 THEN item ELSE head[p])
      /\ tail'[p] = (IF k = Len(s) THEN item ELSE tail[p])
      /\ count'[p] = Len(s) + 1
      /\ \A q \in AllLists : q # p => /\ head'[q] = head[q] /\ tail'[q] = tail[q]
                                      /\ count'[q] = count[q]
  BY <1>1, <1>3, <1>6 DEF LinkedAs, LinkTypes
<1> DEFINE t == InsertAt(s, k + 1, item)
<1>8. /\ Distinct(t) /\ Chained(next', t, head'[p])
      /\ ChainedBack(prev', t, tail'[p])
  <2>1. item \in Items \ ToSet(s)
    OBVIOUS
  <2>2. after = (IF k = 0 THEN NULL ELSE s[k]) /\ follower = (IF k = Len(s) THEN NULL ELSE s[k + 1])
    OBVIOUS
  <2>3. k \in 0 .. Len(s)
    OBVIOUS
  <2> HIDE DEF after, follower, s
  <2> QED
    BY <1>1, <1>6, <1>7, <2>1, <2>2, <2>3, ItemLinked
<1>9. t \in Seq(Items) /\ Len(t) = Len(s) + 1 /\ ToSet(t) = ToSet(s) \cup {item}
  <2>1. k \in 0 .. Len(s)
    OBVIOUS
  <2> HIDE DEF s
  <2>2. t \in Seq(Items) /\ Len(t) = Len(s) + 1
    BY <1>1, <2>1, InsertAtElements
  <2> QED
    BY <1>1, <2>1, <2>2, InsertAtSet
<1>10. /\ new \in [AllLists -> Seq(Items)] /\ new[p] = t
       /\ \A q \in AllLists : q # p => new[q] = lists[q]
  BY <1>9 DEF LinkedAs
<1>11. after \in ToSet(s) \cup {NULL} /\ follower \in ToSet(s) \cup {NULL}
  <2>1. (k # 0 => k \in 1 .. Len(s)) /\ (k # Len(s) => k + 1 \in 1 .. Len(s))
    BY <1>1
  <2> QED
    BY <1>2, <2>1
<1> HIDE DEF t, s, after, follower, new
<1>12. ASSUME NEW q \in AllLists, q # p
       PROVE  /\ Distinct(new[q]) /\ Chained(next', new[q], head'[q])
              /\ ChainedBack(prev', new[q], tail'[q])
              /\ count'[q] = Len(new[q])
  <2>1. /\ lists[q] \in Seq(Items) /\ Distinct(lists[q])
        /\ Chained(next, lists[q], head[q]) /\ ChainedBack(prev, lists[q], tail[q])
        /\ count[q] = Len(lists[q])
        /\ ToSet(lists[q]) \cap ToSet(s) = {}
    BY <1>12 DEF LinkedAs, s
  <2>2. ToSet(lists[q]) \subseteq Items /\ NULL \notin ToSet(lists[q])
    BY <2>1, LenProperties, Constants DEF ToSet
  <2>3. \A i \in ToSet(lists[q]) : next'[i] = next[i] /\ prev'[i] = prev[i]
    BY <1>6, <1>11, <2>1, <2>2
  <2>4. Chained(next', lists[q], head[q]) /\ ChainedBack(prev', lists[q], tail[q])
    BY <2>1, <2>3, OthersLinked
  <2> QED
    BY <1>7, <1>10, <1>12, <2>1, <2>4
<1>13. ASSUME NEW q \in AllLists, NEW r \in AllLists, q # r
       PROVE  ToSet(new[q]) \cap ToSet(new[r]) = {}
  <2>1. ToSet(lists[q]) \cap ToSet(lists[r]) = {}
    BY <1>13 DEF LinkedAs
  <2> QED
    BY <1>9, <1>10, <1>13, <2>1 DEF s
<1>14. ASSUME NEW i \in Items, \A q \in AllLists : i \notin ToSet(new[q]), i \notin ToSet(gone)
       PROVE  next'[i] = NULL /\ prev'[i] = NULL
  <2>1. i # item /\ i \notin ToSet(s)
    BY <1>9, <1>10, <1>14
  <2>2. \A q \in AllLists : i \notin ToSet(lists[q])
    BY <1>10, <1>14, <2>1 DEF s
  <2>3. next[i] = NULL /\ prev[i] = NULL
    BY <1>14, <2>2 DEF LinkedAs
  <2> QED
    BY <1>6, <1>11, <2>1, <2>3, Constants
<1>15. Forgetting(new, gone)'
  <2>1. /\ gone \in Seq(Items) /\ Distinct(gone)
        /\ gone # <<>> => Chained(next, gone, gone[1]) /\ ChainedBack(prev, gone, gone[Len(gone)])
        /\ \A q \in AllLists : ToSet(lists[q]) \cap ToSet(gone) = {}
    BY DEF LinkedAs, Forgetting
  <2>2. ToSet(gone) \subseteq Items /\ NULL \notin ToSet(gone) /\ item \notin ToSet(gone)
    BY <2>1, LenProperties, Constants DEF ToSet
  <2>3. \A i \in ToSet(gone) : next'[i] = next[i] /\ prev'[i] = prev[i]
    BY <1>6, <1>11, <2>1, <2>2 DEF s
  <2>4. gone # <<>> => Chained(next', gone, gone[1]) /\ ChainedBack(prev', gone, gone[Len(gone)])
    BY <2>1, <2>3, OthersLinked
  <2>5. \A q \in AllLists : ToSet(new[q]) \cap ToSet(gone) = {}
    BY <1>9, <1>10, <2>1, <2>2 DEF s
  <2> QED
    BY <2>1, <2>4, <2>5 DEF Forgetting, new
<1>17. LinkTypes'
  <2>1. after \in Pointer /\ follower \in Pointer /\ item \in Pointer
    <3>1. ToSet(s) \subseteq Items
      BY <1>1, LenProperties DEF ToSet
    <3> QED
      BY <1>11, <3>1 DEF Pointer
  <2>2. LinkTypes /\ Inserted(p, after, item, release)
    BY DEF LinkedAs, after, s
  <2>3. next' \in [Items -> Pointer] /\ prev' \in [Items -> Pointer]
    <3>1. /\ next' = [i \in Items |-> next'[i]]
          /\ prev' = [i \in Items |-> prev'[i]]
      BY <2>2 DEF Inserted
    <3>2. \A i \in Items : next'[i] \in Pointer /\ prev'[i] \in Pointer
      BY <1>6, <2>1, <2>2 DEF LinkTypes
    <3> QED
      BY <3>1, <3>2
  <2>4. head' \in [AllLists -> Pointer] /\ tail' \in [AllLists -> Pointer]
    BY <1>6, <2>1, <2>2 DEF LinkTypes
  <2>5. count' \in [AllLists -> Nat]
    BY <1>6, <2>2 DEF LinkTypes
  <2> QED
    BY <2>3, <2>4, <2>5 DEF LinkTypes
<1>16. \A q \in AllLists : /\ Distinct(new[q]) /\ Chained(next', new[q], head'[q])
                           /\ ChainedBack(prev', new[q], tail'[q])
                           /\ count'[q] = Len(new[q])
  BY <1>7, <1>8, <1>9, <1>10, <1>12
<1> QED
  BY <1>10, <1>13, <1>14, <1>15, <1>16, <1>17 DEF LinkedAs, new

(* plt_remove_item takes the item out of the list it is in and leaves it   *)
(* without neighbours, and every other list is as it was.                  *)
THEOREM RemovalKeepsLists ==
  ASSUME NEW lists, LinkedAs(lists, <<>>),
         NEW p \in AllLists, NEW k \in 1 .. Len(lists[p]), NEW hold,
         Removed(p, lists[p][k], hold)
  PROVE  LinkedAs([lists EXCEPT ![p] = RemoveAt(lists[p], k)], <<>>)'
<1> DEFINE s == lists[p]
           item == s[k]
           before == IF k = 1 THEN NULL ELSE s[k - 1]
           follower == IF k = Len(s) THEN NULL ELSE s[k + 1]
           new == [lists EXCEPT ![p] = RemoveAt(lists[p], k)]
           t == RemoveAt(s, k)
<1>1. /\ s \in Seq(Items) /\ Distinct(s)
      /\ Chained(next, s, head[p]) /\ ChainedBack(prev, s, tail[p])
      /\ count[p] = Len(s) /\ Len(s) \in Nat
  BY LenProperties DEF LinkedAs
<1>2. \A i \in 1 .. Len(s) : s[i] \in Items /\ s[i] # NULL /\ s[i] \in ToSet(s)
  BY <1>1, LenProperties, ElementOfSeq, Constants DEF ToSet
<1>3. next[item] = follower /\ prev[item] = before
  BY <1>1 DEF Chained, ChainedBack
<1>4. next[item] # NULL \/ prev[item] # NULL \/ head[p] = item \/ tail[p] = item
  <2>1. CASE k = 1
    <3>1. Len(s) # 0 /\ head[p] = s[1]
      BY <1>1, <2>1 DEF Chained
    <3> QED
      BY <2>1, <3>1
  <2>2. CASE k # 1
    <3>1. k - 1 \in 1 .. Len(s)
      BY <1>1, <2>2
    <3> QED
      BY <1>2, <1>3, <2>2, <3>1
  <2> QED
    BY <2>1, <2>2
<1> HIDE DEF before, follower
<1>5. /\ \A i \in Items : next'[i] = IF i = item THEN NULL
                                     ELSE IF i = before THEN follower ELSE next[i]
      /\ \A i \in Items : prev'[i] = IF i = item THEN NULL
                                     ELSE IF i = follower THEN before ELSE prev[i]
      /\ head' = IF before = NULL THEN [head EXCEPT ![p] = follower] ELSE head
      /\ tail' = IF follower = NULL THEN [tail EXCEPT ![p] = before] ELSE tail
      /\ count' = [count EXCEPT ![p] = @ - 1]
  <2>1. Removed(p, item, hold)
    OBVIOUS
  <2> HIDE DEF item, s, new, t
  <2>2. /\ next' = [i \in Items |-> IF i = item THEN NULL
                        ELSE IF i = prev[item] THEN next[item] ELSE next[i]]
        /\ prev' = [i \in Items |-> IF i = item THEN NULL
                        ELSE IF i = next[item] THEN prev[item] ELSE prev[i]]
    BY <2>1 DEF Removed
  <2>3. /\ head' = IF prev[item] = NULL THEN [head EXCEPT ![p] = next[item]] ELSE head
        /\ tail' = IF next[item] = NULL THEN [tail EXCEPT ![p] = prev[item]] ELSE tail
    BY <2>1, Zenon DEF Removed
  <2>4. count' = [count EXCEPT ![p] = @ - 1]
    BY <1>4, <2>1, Zenon DEF Removed
  <2> QED
    BY <1>3, <2>2, <2>3, <2>4
<1>6. /\ head'[p] = (IF before = NULL THEN follower ELSE head[p])
      /\ tail'[p] = (IF follower = NULL THEN before ELSE tail[p])
      /\ count'[p] = Len(s) - 1
      /\ \A q \in AllLists : q # p => /\ head'[q] = head[q] /\ tail'[q] = tail[q]
                                      /\ count'[q] = count[q]
  BY <1>1, <1>5 DEF LinkedAs, LinkTypes
<1>7. /\ Distinct(t) /\ Chained(next', t, head'[p])
      /\ ChainedBack(prev', t, tail'[p])
  <2>1. /\ before = (IF k = 1 THEN NULL ELSE s[k - 1])
        /\ follower = (IF k = Len(s) THEN NULL ELSE s[k + 1])
        /\ k \in 1 .. Len(s)
    BY DEF before, follower
  <2> HIDE DEF s
  <2> QED
    BY <1>1, <1>5, <1>6, <2>1, ItemUnlinked
<1>8. t \in Seq(Items) /\ Len(t) = Len(s) - 1 /\ ToSet(t) = ToSet(s) \ {item}
  BY <1>1, RemoveAtElements, RemoveAtSet
<1>9. /\ new \in [AllLists -> Seq(Items)] /\ new[p] = t
      /\ \A q \in AllLists : q # p => new[q] = lists[q]
  BY <1>8 DEF LinkedAs
<1>10. /\ before \in ToSet(s) \cup {NULL} /\ follower \in ToSet(s) \cup {NULL}
       /\ item \in ToSet(s) /\ item \in Items
  <2>1. (k # 1 => k - 1 \in 1 .. Len(s)) /\ (k # Len(s) => k + 1 \in 1 .. Len(s))
    BY <1>1
  <2> QED
    BY <1>2, <2>1 DEF before, follower
<1>11. /\ before \in ToSet(s) => before \in ToSet(t)
       /\ follower \in ToSet(s) => follower \in ToSet(t)
  <2>1. /\ k # 1 => k - 1 \in 1 .. Len(s) /\ k - 1 # k
        /\ k # Len(s) => k + 1 \in 1 .. Len(s) /\ k + 1 # k
        /\ k \in 1 .. Len(s)
    BY <1>1
  <2>2. before # item /\ follower # item
    <3>1. item # NULL
      BY <1>2
    <3>2. before # item
      BY <1>1, <2>1, <3>1 DEF before, Distinct
    <3>3. follower # item
      BY <1>1, <2>1, <3>1 DEF follower, Distinct
    <3> QED
      BY <3>2, <3>3
  <2> QED
    BY <1>8, <2>2
<1> HIDE DEF t, s, item, new
<1>12. ASSUME NEW q \in AllLists, q # p
       PROVE  /\ Distinct(new[q]) /\ Chained(next', new[q], head'[q])
              /\ ChainedBack(prev', new[q], tail'[q])
              /\ count'[q] = Len(new[q])
  <2>1. /\ lists[q] \in Seq(Items) /\ Distinct(lists[q])
        /\ Chained(next, lists[q], head[q]) /\ ChainedBack(prev, lists[q], tail[q])
        /\ count[q] = Len(lists[q])
        /\ ToSet(lists[q]) \cap ToSet(s) = {}
    BY <1>12 DEF LinkedAs, s
  <2>2. ToSet(lists[q]) \subseteq Items /\ NULL \notin ToSet(lists[q])
    BY <2>1, LenProperties, Constants DEF ToSet
  <2>3. \A i \in ToSet(lists[q]) : next'[i] = next[i] /\ prev'[i] = prev[i]
    BY <1>5, <1>10, <2>1, <2>2
  <2>4. Chained(next', lists[q], head[q]) /\ ChainedBack(prev', lists[q], tail[q])
    BY <2>1, <2>3, OthersLinked
  <2> QED
    BY <1>6, <1>9, <1>12, <2>1, <2>4
<1>13. ASSUME NEW q \in AllLists, NEW r \in AllLists, q # r
       PROVE  ToSet(new[q]) \cap ToSet(new[r]) = {}
  <2>1. ToSet(lists[q]) \cap ToSet(lists[r]) = {}
    BY <1>13 DEF LinkedAs
  <2> QED
    BY <1>8, <1>9, <1>13, <2>1 DEF s
<1>14. ASSUME NEW i \in Items, \A q \in AllLists : i \notin ToSet(new[q]), i \notin ToSet(<<>>)
       PROVE  next'[i] = NULL /\ prev'[i] = NULL
  <2>1. CASE i = item
    BY <1>5, <1>10, <2>1
  <2>2. CASE i # item
    <3>1. \A q \in AllLists : i \notin ToSet(lists[q])
      BY <1>8, <1>9, <1>14, <2>2 DEF s
    <3>2. next[i] = NULL /\ prev[i] = NULL
      BY <1>14, <3>1 DEF LinkedAs
    <3>3. i \notin ToSet(s)
      BY <3>1 DEF s
    <3> QED
      BY <1>5, <1>10, <2>2, <3>2, <3>3, Constants
  <2> QED
    BY <2>1, <2>2
<1>15. \A q \in AllLists : /\ Distinct(new[q]) /\ Chained(next', new[q], head'[q])
                           /\ ChainedBack(prev', new[q], tail'[q])
                           /\ count'[q] = Len(new[q])
  BY <1>6, <1>7, <1>8, <1>9, <1>12
<1>16. Forgetting(new, <<>>)'
  BY DEF Forgetting, LinkedAs, ToSet
<1>17. LinkTypes'
  <2>1. before \in Pointer /\ follower \in Pointer
    <3>1. ToSet(s) \subseteq Items
      BY <1>1, LenProperties DEF ToSet
    <3> QED
      BY <1>10, <3>1 DEF Pointer
  <2>2. LinkTypes /\ Removed(p, item, hold)
    BY DEF LinkedAs, item, s
  <2>3. next' \in [Items -> Pointer] /\ prev' \in [Items -> Pointer]
    <3>1. /\ next' = [i \in Items |-> next'[i]]
          /\ prev' = [i \in Items |-> prev'[i]]
      BY <2>2 DEF Removed
    <3>2. \A i \in Items : next'[i] \in Pointer /\ prev'[i] \in Pointer
      BY <1>5, <2>1, <2>2 DEF LinkTypes, Pointer
    <3> QED
      BY <3>1, <3>2
  <2>4. head' \in [AllLists -> Pointer] /\ tail' \in [AllLists -> Pointer]
    BY <1>5, <2>1, <2>2 DEF LinkTypes
  <2>5. count' \in [AllLists -> Nat]
    <3>1. Len(s) - 1 \in Nat
      BY <1>1, <1>8, LenProperties
    <3> QED
      BY <1>5, <1>6, <2>2, <3>1 DEF LinkTypes
  <2> QED
    BY <2>3, <2>4, <2>5 DEF LinkTypes
<1> QED
  BY <1>9, <1>13, <1>14, <1>15, <1>16, <1>17 DEF LinkedAs, new

-----------------------------------------------------------------------------
(* What the undo buffer, the stacks and the program consist of.            *)

OpT == [perform : {"insert", "remove"}, plt : Lists, items : Seq(Items) \ {<<>>},
        position : Pointer]
EntryT == [operations : Seq(OpT), before : [Lists -> Seq(Items)]]

GroupT  == [do : {"group"}, plt : Lists \cup {NULL}]
RemoveT == [do : {"remove"}, plt : AllLists, item : Items, hold : {-1, 0, 1}]
InsertT == [do : {"insert"}, plt : AllLists, after : Pointer, item : Items, release : {0, 1}]
ForgetT == [do : {"forget"}, plt : AllLists, item : Items]
MoveT   == [do : {"move"}, to : AllLists, from : AllLists, it : Pointer, idx : Nat,
            indexes : Seq(Nat), drop_after : Pointer]
UnlockT == [do : {"unlock"}, plt : AllLists, goal : Seq(Items)]
SimpleT == [do : {"end_group", "changed", "files_end"}]
FinishT == [do : {"finish"}, type : {"undo", "redo"}, operations : Seq(OpT),
            before : [Lists -> Seq(Items)]]
CallT   == GroupT \cup RemoveT \cup InsertT \cup ForgetT \cup MoveT \cup UnlockT
           \cup SimpleT \cup FinishT

LEMMA Kinds ==
  ASSUME NEW c \in CallT
  PROVE  /\ c.do = "group" => c \in GroupT
         /\ c.do = "remove" => c \in RemoveT
         /\ c.do = "insert" => c \in InsertT
         /\ c.do = "forget" => c \in ForgetT
         /\ c.do = "move" => c \in MoveT
         /\ c.do = "unlock" => c \in UnlockT
         /\ c.do = "finish" => c \in FinishT
  BY DEF CallT, GroupT, RemoveT, InsertT, ForgetT, MoveT, UnlockT, SimpleT, FinishT

LEMMA CallsMade ==
  /\ \A p \in Lists \cup {NULL} : Group(p) \in CallT /\ Group(p).do = "group"
  /\ EndGroup \in CallT /\ EndGroup.do = "end_group"
  /\ Changed \in CallT /\ Changed.do = "changed"
  /\ FilesEnd \in CallT /\ FilesEnd.do = "files_end"
  /\ \A p \in AllLists, i \in Items, h \in {-1, 0, 1} :
        /\ RemoveCall(p, i, h) \in CallT /\ RemoveCall(p, i, h).do = "remove"
        /\ RemoveCall(p, i, h).item = i /\ RemoveCall(p, i, h).hold = h
  /\ \A p \in AllLists, i \in Items, a \in Pointer, r \in {0, 1} :
        /\ InsertCall(p, a, i, r) \in CallT /\ InsertCall(p, a, i, r).do = "insert"
        /\ InsertCall(p, a, i, r).item = i /\ InsertCall(p, a, i, r).release = r
  /\ \A p \in AllLists, i \in Items :
        /\ ForgetCall(p, i) \in CallT /\ ForgetCall(p, i).do = "forget"
        /\ ForgetCall(p, i).item = i
  /\ \A p \in AllLists, s \in Seq(Items) :
        UnlockCall(p, s) \in CallT /\ UnlockCall(p, s).do = "unlock"
<1>1. \A p \in Lists \cup {NULL} : Group(p) \in CallT /\ Group(p).do = "group"
  BY DEF Group, CallT, GroupT
<1>2. /\ EndGroup \in CallT /\ EndGroup.do = "end_group"
      /\ Changed \in CallT /\ Changed.do = "changed"
      /\ FilesEnd \in CallT /\ FilesEnd.do = "files_end"
  BY DEF EndGroup, Changed, FilesEnd, CallT, SimpleT
<1>3. ASSUME NEW p \in AllLists, NEW i \in Items, NEW h \in {-1, 0, 1}
      PROVE  /\ RemoveCall(p, i, h) \in CallT /\ RemoveCall(p, i, h).do = "remove"
             /\ RemoveCall(p, i, h).item = i /\ RemoveCall(p, i, h).hold = h
  BY DEF RemoveCall, CallT, RemoveT
<1>4. ASSUME NEW p \in AllLists, NEW i \in Items, NEW a \in Pointer, NEW r \in {0, 1}
      PROVE  /\ InsertCall(p, a, i, r) \in CallT /\ InsertCall(p, a, i, r).do = "insert"
             /\ InsertCall(p, a, i, r).item = i /\ InsertCall(p, a, i, r).release = r
  BY DEF InsertCall, CallT, InsertT
<1>5. ASSUME NEW p \in AllLists, NEW i \in Items
      PROVE  /\ ForgetCall(p, i) \in CallT /\ ForgetCall(p, i).do = "forget"
             /\ ForgetCall(p, i).item = i
  BY DEF ForgetCall, CallT, ForgetT
<1>6. ASSUME NEW p \in AllLists, NEW s \in Seq(Items)
      PROVE  UnlockCall(p, s) \in CallT /\ UnlockCall(p, s).do = "unlock"
  BY DEF UnlockCall, CallT, UnlockT
<1> QED
  BY <1>1, <1>2, <1>3, <1>4, <1>5, <1>6

LEMMA MoveMade ==
  ASSUME NEW to \in AllLists, NEW from \in AllLists, NEW it \in Pointer, NEW idx \in Nat,
         NEW indexes \in Seq(Nat), NEW drop_after \in Pointer
  PROVE  /\ MoveCall(to, from, it, idx, indexes, drop_after) \in CallT
         /\ MoveCall(to, from, it, idx, indexes, drop_after).do = "move"
  BY DEF MoveCall, CallT, MoveT

LEMMA FinishMade ==
  ASSUME NEW type \in {"undo", "redo"}, NEW entry \in EntryT
  PROVE  /\ Finish(type, entry) \in FinishT /\ Finish(type, entry) \in CallT
         /\ Finish(type, entry).do = "finish" /\ Finish(type, entry).type = type
         /\ Finish(type, entry).operations = entry.operations
         /\ entry.operations \in Seq(OpT) /\ entry.before \in [Lists -> Seq(Items)]
  BY DEF Finish, CallT, FinishT, EntryT

-----------------------------------------------------------------------------
(* The references that operations hold.                                    *)

Refd == [o \in OpT |-> <<o.position>> \o o.items]

LEMMA RefdKnown ==
  /\ Refd \in [OpT -> Seq(Pointer)]
  /\ \A o \in OpT : /\ Refd[o] = <<o.position>> \o o.items
                    /\ <<o.position>> \in Seq(Pointer) /\ o.items \in Seq(Pointer)
                    /\ o.items \in Seq(Items) /\ o.items # <<>>
                    /\ o.position \in Pointer /\ o.plt \in Lists
<1>1. ASSUME NEW o \in OpT
      PROVE  /\ Refd[o] = <<o.position>> \o o.items /\ Refd[o] \in Seq(Pointer)
             /\ <<o.position>> \in Seq(Pointer) /\ o.items \in Seq(Pointer)
             /\ o.items \in Seq(Items) /\ o.items # <<>>
             /\ o.position \in Pointer /\ o.plt \in Lists
  <2>1. o.items \in Seq(Items) /\ o.items # <<>> /\ o.position \in Pointer /\ o.plt \in Lists
    BY DEF OpT
  <2>2. <<o.position>> \in Seq(Pointer) /\ o.items \in Seq(Pointer)
    BY <2>1 DEF Pointer
  <2>3. <<o.position>> \o o.items \in Seq(Pointer)
    BY <2>2, ConcatProperties
  <2> QED
    BY <2>1, <2>2, <2>3 DEF Refd
<1> QED
  BY <1>1 DEF Refd

LEMMA HeldOver ==
  ASSUME NEW ops \in Seq(OpT), NEW i
  PROVE  /\ Held(ops, i) = Counted(Over(Refd, ops), {i})
         /\ Over(Refd, ops) \in Seq(Pointer) /\ Held(ops, i) \in Nat
<1>1. DOMAIN ops = 1 .. Len(ops) /\ \A n \in 1 .. Len(ops) : ops[n] \in OpT
  BY LenProperties, ElementOfSeq
<1>2. Referenced(ops) = Over(Refd, ops)
  <2>1. [n \in DOMAIN ops |-> <<ops[n].position>> \o ops[n].items]
          = [n \in DOMAIN ops |-> Refd[ops[n]]]
    BY <1>1, RefdKnown
  <2> QED
    BY <2>1 DEF Referenced, Over
<1>3. Over(Refd, ops) \in Seq(Pointer)
  BY RefdKnown, OverKnown
<1>4. Held(ops, i) = Counted(Over(Refd, ops), {i})
  BY <1>2 DEF Held, Counted
<1>5. Counted(Over(Refd, ops), {i}) \in Nat
  BY <1>3, CountKnown
<1> QED
  BY <1>3, <1>4, <1>5

LEMMA HeldBoth ==
  ASSUME NEW a \in Seq(OpT), NEW b \in Seq(OpT), NEW i
  PROVE  /\ a \o b \in Seq(OpT) /\ Held(a \o b, i) = Held(a, i) + Held(b, i)
         /\ Held(a, i) \in Nat /\ Held(b, i) \in Nat
<1>1. a \o b \in Seq(OpT)
  BY ConcatProperties
<1>2. /\ Over(Refd, a) \in Seq(Pointer) /\ Over(Refd, b) \in Seq(Pointer)
      /\ Over(Refd, a \o b) = Over(Refd, a) \o Over(Refd, b)
  <2>1. Refd \in [OpT -> Seq(Pointer)]
    BY RefdKnown
  <2>2. Over(Refd, a) \in Seq(Pointer) /\ Over(Refd, b) \in Seq(Pointer)
    BY <2>1, OverKnown
  <2>3. Over(Refd, a \o b) = Over(Refd, a) \o Over(Refd, b)
    BY <2>1, OverBoth
  <2> QED
    BY <2>2, <2>3
<1>3. Counted(Over(Refd, a) \o Over(Refd, b), {i})
        = Counted(Over(Refd, a), {i}) + Counted(Over(Refd, b), {i})
  BY <1>2, CountBoth
<1> QED
  BY <1>1, <1>2, <1>3, HeldOver

LEMMA HeldFew ==
  ASSUME NEW i
  PROVE  /\ Held(<<>>, i) = 0
         /\ \A o \in OpT : /\ <<o>> \in Seq(OpT)
                           /\ Held(<<o>>, i) = (IF o.position = i THEN 1 ELSE 0)
                                               + Counted(o.items, {i})
                           /\ Counted(o.items, {i}) \in Nat
<1>1. Held(<<>>, i) = 0
  <2>1. <<>> \in Seq(OpT)
    OBVIOUS
  <2>2. Over(Refd, <<>>) = <<>>
    BY RefdKnown, OverFew
  <2>3. Held(<<>>, i) = Counted(Over(Refd, <<>>), {i})
    BY <2>1, HeldOver
  <2> QED
    BY <2>2, <2>3, CountFew
<1>2. ASSUME NEW o \in OpT
      PROVE  /\ <<o>> \in Seq(OpT)
             /\ Held(<<o>>, i) = (IF o.position = i THEN 1 ELSE 0) + Counted(o.items, {i})
             /\ Counted(o.items, {i}) \in Nat
  <2>1. <<o>> \in Seq(OpT)
    OBVIOUS
  <2>2. Over(Refd, <<o>>) = <<o.position>> \o o.items
    BY RefdKnown, OverFew
  <2>3. <<o.position>> \in Seq(Pointer) /\ o.items \in Seq(Pointer)
    BY RefdKnown
  <2>4. Counted(<<o.position>> \o o.items, {i})
          = Counted(<<o.position>>, {i}) + Counted(o.items, {i})
    <3> DEFINE a == <<o.position>>
               b == o.items
    <3>1. a \in Seq(Pointer) /\ b \in Seq(Pointer)
      BY <2>3
    <3> HIDE DEF a, b
    <3>2. Counted(a \o b, {i}) = Counted(a, {i}) + Counted(b, {i})
      BY <3>1, CountBoth
    <3> QED
      BY <3>2 DEF a, b
  <2>5. Counted(<<o.position>>, {i}) = IF o.position \in {i} THEN 1 ELSE 0
    BY CountFew
  <2>6. Counted(o.items, {i}) \in Nat
    BY <2>3, CountKnown
  <2> QED
    BY <2>1, <2>2, <2>4, <2>5, <2>6, HeldOver
<1> QED
  BY <1>1, <1>2

(* The operations of a stack, and of the call that ends an undo.           *)
BearT == EntryT \cup FinishT

OpsOf == [e \in BearT |-> e.operations]

LEMMA OpsOfKnown ==
  /\ OpsOf \in [BearT -> Seq(OpT)]
  /\ \A e \in BearT : OpsOf[e] = e.operations /\ e.operations \in Seq(OpT)
<1>1. \A e \in BearT : e.operations \in Seq(OpT)
  BY DEF BearT, EntryT, FinishT
<1> QED
  BY <1>1 DEF OpsOf

LEMMA OperationsOver ==
  ASSUME NEW s \in Seq(BearT)
  PROVE  OperationsOf(s) = Over(OpsOf, s) /\ OperationsOf(s) \in Seq(OpT)
<1>1. DOMAIN s = 1 .. Len(s) /\ \A n \in 1 .. Len(s) : s[n] \in BearT
  BY LenProperties, ElementOfSeq
<1>2. [n \in DOMAIN s |-> s[n].operations] = [n \in DOMAIN s |-> OpsOf[s[n]]]
  BY <1>1, OpsOfKnown
<1>3. OperationsOf(s) = Over(OpsOf, s)
  BY <1>2 DEF OperationsOf, Over
<1>4. OpsOf \in [BearT -> Seq(OpT)]
  BY OpsOfKnown
<1>5. Over(OpsOf, s) \in Seq(OpT)
  <2> DEFINE F == OpsOf
             B == BearT
  <2>1. F \in [B -> Seq(OpT)] /\ s \in Seq(B)
    BY <1>4
  <2> HIDE DEF F, B
  <2>2. Over(F, s) \in Seq(OpT)
    BY <2>1, OverKnown
  <2> QED
    BY <2>2 DEF F
<1> QED
  BY <1>3, <1>5

LEMMA OperationsFew ==
  /\ OperationsOf(<<>>) = <<>>
  /\ \A e \in BearT : OperationsOf(<<e>>) = e.operations
<1>1. <<>> \in Seq(BearT) /\ \A e \in BearT : <<e>> \in Seq(BearT)
  OBVIOUS
<1>2. Over(OpsOf, <<>>) = <<>> /\ \A e \in BearT : Over(OpsOf, <<e>>) = OpsOf[e]
  BY OpsOfKnown, OverFew
<1> QED
  BY <1>1, <1>2, OperationsOver, OpsOfKnown

LEMMA OperationsBoth ==
  ASSUME NEW a \in Seq(BearT), NEW b \in Seq(BearT)
  PROVE  OperationsOf(a \o b) = OperationsOf(a) \o OperationsOf(b)
<1>1. OpsOf \in [BearT -> Seq(OpT)]
  BY OpsOfKnown
<1>2. Over(OpsOf, a \o b) = Over(OpsOf, a) \o Over(OpsOf, b)
  BY <1>1, OverBoth
<1>3. a \o b \in Seq(BearT)
  BY ConcatProperties
<1> QED
  BY <1>2, <1>3, OperationsOver

LEMMA StackPushed ==
  ASSUME NEW s \in Seq(EntryT), NEW e \in EntryT, NEW i
  PROVE  /\ Append(s, e) \in Seq(EntryT)
         /\ OperationsOf(s) \in Seq(OpT) /\ OperationsOf(Append(s, e)) \in Seq(OpT)
         /\ e.operations \in Seq(OpT)
         /\ Held(OperationsOf(Append(s, e)), i) = Held(OperationsOf(s), i) + Held(e.operations, i)
<1>1. s \in Seq(BearT) /\ <<e>> \in Seq(BearT) /\ e \in BearT
  BY DEF BearT
<1>2. Append(s, e) = s \o <<e>> /\ Append(s, e) \in Seq(EntryT) /\ Append(s, e) \in Seq(BearT)
  BY <1>1
<1>3. /\ OperationsOf(s \o <<e>>) = OperationsOf(s) \o OperationsOf(<<e>>)
      /\ OperationsOf(<<e>>) = e.operations
      /\ OperationsOf(s) \in Seq(OpT) /\ OperationsOf(Append(s, e)) \in Seq(OpT)
      /\ OperationsOf(<<e>>) \in Seq(OpT)
  BY <1>1, <1>2, OperationsOver, OperationsFew, OperationsBoth
<1>4. OperationsOf(s) \in Seq(OpT) /\ e.operations \in Seq(OpT)
  BY <1>3
<1>5. Held(OperationsOf(s) \o e.operations, i) = Held(OperationsOf(s), i) + Held(e.operations, i)
  BY <1>4, HeldBoth
<1> QED
  BY <1>2, <1>3, <1>4, <1>5

LEMMA StackPopped ==
  ASSUME NEW s \in Seq(EntryT), s # <<>>, NEW i
  PROVE  /\ Front(s) \in Seq(EntryT) /\ Last(s) \in EntryT
         /\ OperationsOf(s) \in Seq(OpT) /\ OperationsOf(Front(s)) \in Seq(OpT)
         /\ Last(s).operations \in Seq(OpT)
         /\ Held(OperationsOf(s), i)
              = Held(OperationsOf(Front(s)), i) + Held(Last(s).operations, i)
<1>1. Front(s) \in Seq(EntryT) /\ Last(s) \in EntryT /\ s = Append(Front(s), Last(s))
  <2> DEFINE l == Len(s)
  <2>1. l \in Nat /\ l # 0 /\ \A n \in 1 .. l : s[n] \in EntryT
    BY LenProperties, ElementOfSeq, EmptySeq
  <2>2. SubSeq(s, 1, l - 1) \in Seq(EntryT) /\ Len(SubSeq(s, 1, l - 1)) = l - 1
        /\ \A n \in 1 .. l - 1 : SubSeq(s, 1, l - 1)[n] = s[n]
    <3> DEFINE m == l - 1
    <3>1. m \in Nat /\ m \in 0 .. Len(s) /\ 1 \in 1 .. Len(s) + 1
      BY <2>1
    <3>2. \A n \in 1 .. m : n \in 1 .. Len(s)
      BY <2>1
    <3> HIDE DEF m
    <3>3. /\ SubSeq(s, 1, m) \in Seq(EntryT) /\ Len(SubSeq(s, 1, m)) = m
          /\ \A n \in 1 .. m : SubSeq(s, 1, m)[n] = s[n]
      BY <3>1, <3>2
    <3> QED
      BY <3>3 DEF m
  <2>3. Last(s) = s[l] /\ s[l] \in EntryT /\ Front(s) = SubSeq(s, 1, l - 1)
    BY <2>1 DEF Last, Front
  <2> HIDE DEF l
  <2> DEFINE f == SubSeq(s, 1, l - 1)
             t == Append(f, s[l])
  <2>4. t \in Seq(EntryT) /\ Len(t) = l /\ \A n \in 1 .. l : t[n] = s[n]
    <3> HIDE DEF f
    <3>1. f \in Seq(EntryT) /\ Len(f) = l - 1 /\ \A n \in 1 .. l - 1 : f[n] = s[n]
      BY <2>2 DEF f
    <3>2. /\ t \in Seq(EntryT) /\ Len(t) = (l - 1) + 1
          /\ \A n \in 1 .. Len(f) : t[n] = f[n] /\ t[Len(f) + 1] = s[l]
      BY <2>3, <3>1, AppendProperties
    <3>3. (l - 1) + 1 = l /\ \A n \in 1 .. l : n \in 1 .. l - 1 \/ n = l
      BY <2>1
    <3>4. t[l] = s[l]
      BY <2>1, <2>3, <3>1, <3>3, AppendProperties
    <3> QED
      BY <3>1, <3>2, <3>3, <3>4
  <2>5. s = t
    <3> HIDE DEF t
    <3> QED
      BY <2>4, SeqEqual DEF l
  <2> QED
    BY <2>2, <2>3, <2>5
<1>2. /\ OperationsOf(Append(Front(s), Last(s))) \in Seq(OpT)
      /\ OperationsOf(Front(s)) \in Seq(OpT) /\ Last(s).operations \in Seq(OpT)
      /\ Held(OperationsOf(Append(Front(s), Last(s))), i)
           = Held(OperationsOf(Front(s)), i) + Held(Last(s).operations, i)
  <2> HIDE DEF Front, Last
  <2> QED
    BY <1>1, StackPushed
<1> QED
  BY <1>1, <1>2

-----------------------------------------------------------------------------
(* Recording a removal or an insertion takes the references that the code  *)
(* counts (undo_remove_items, undo_insert_items).                          *)

(* The newest operation, with more items.                                  *)
LEMMA ExtendedFirst ==
  ASSUME operations \in Seq(OpT), operations # <<>>, NEW items \in Seq(Items)
  PROVE  LET o == operations[1]
             n == [o EXCEPT !.items = @ \o items]
             t == Tail(operations)
         IN  /\ Head(operations) = o /\ o \in OpT /\ t \in Seq(OpT)
             /\ operations = <<o>> \o t /\ <<o>> \in Seq(OpT)
             /\ o.items \in Seq(Items)
             /\ n \in OpT /\ n.items = o.items \o items /\ n.position = o.position
             /\ n.perform = o.perform /\ n.plt = o.plt
             /\ Extended(items) = <<n>> \o t
<1> DEFINE o == operations[1]
           n == [o EXCEPT !.items = @ \o items]
           t == Tail(operations)
<1>1. /\ Head(operations) = o /\ o \in OpT /\ t \in Seq(OpT) /\ 1 \in DOMAIN operations
      /\ operations = <<o>> \o t /\ <<o>> \in Seq(OpT)
      /\ Len(operations) \in Nat /\ Len(operations) > 0 /\ Len(t) = Len(operations) - 1
      /\ \A k \in 1 .. Len(operations) - 1 : t[k] = operations[k + 1]
  BY FirstAndRest
<1>2. o.items \in Seq(Items) /\ o.items # <<>>
  BY <1>1, RefdKnown
<1>3. o.items \o items \in Seq(Items) /\ o.items \o items # <<>>
  BY <1>2, ConcatProperties, ConcatEqualIffEmpty
<1>4. n \in OpT /\ n.items = o.items \o items /\ n.position = o.position
      /\ n.perform = o.perform /\ n.plt = o.plt
  <2> HIDE DEF o
  <2> QED
    BY <1>1, <1>3 DEF OpT
<1>5. Extended(items) = <<n>> \o t
  <2> DEFINE e == Extended(items)
             l == Len(operations)
             u == <<n>> \o t
  <2>1. e = [operations EXCEPT ![1] = n]
    BY DEF Extended
  <2>2. /\ l \in Nat /\ l > 0 /\ DOMAIN operations = 1 .. l
        /\ \A k \in 1 .. l : operations[k] \in OpT
    BY <1>1, LenProperties, ElementOfSeq
  <2> HIDE DEF o, n, t, e, l
  <2>3. e \in Seq(OpT) /\ Len(e) = l /\ \A k \in 1 .. l : e[k] = IF k = 1 THEN n ELSE operations[k]
    <3>1. e \in [1 .. l -> OpT]
      BY <1>4, <2>1, <2>2
    <3>2. \A k \in 1 .. l : e[k] = IF k = 1 THEN n ELSE operations[k]
      BY <2>1, <2>2
    <3> QED
      BY <2>2, <3>1, <3>2
  <2>4. <<n>> \in Seq(OpT) /\ Len(<<n>>) = 1 /\ <<n>>[1] = n
    BY <1>4
  <2>5. /\ u \in Seq(OpT) /\ Len(u) = 1 + (l - 1)
        /\ \A k \in 1 .. 1 + (l - 1) : u[k] = IF k <= 1 THEN <<n>>[k] ELSE t[k - 1]
    BY <1>1, <2>4, ConcatProperties DEF l
  <2>6. 1 + (l - 1) = l
    BY <2>2
  <2> HIDE DEF u
  <2>7. ASSUME NEW k \in 1 .. l PROVE u[k] = e[k]
    <3>1. CASE k = 1
      BY <2>3, <2>4, <2>5, <2>6, <3>1
    <3>2. CASE k # 1
      <4>1. k - 1 \in 1 .. l - 1 /\ ~(k <= 1) /\ (k - 1) + 1 = k
        BY <2>2, <3>2
      <4>2. t[k - 1] = operations[k]
        BY <1>1, <4>1 DEF l
      <4> QED
        BY <2>3, <2>5, <2>6, <3>2, <4>1, <4>2
    <3> QED
      BY <3>1, <3>2
  <2>8. u = e
    <3>1. /\ u \in Seq(OpT) /\ e \in Seq(OpT) /\ Len(u) = Len(e)
          /\ \A k \in 1 .. Len(u) : u[k] = e[k]
      BY <2>3, <2>5, <2>6, <2>7
    <3> QED
      BY <3>1, SeqEqual
  <2> QED
    BY <2>8 DEF u, e
<1> HIDE DEF n, t, o
<1> QED
  BY <1>1, <1>2, <1>4, <1>5 DEF n, t, o

LEMMA Lengthened ==
  ASSUME operations \in Seq(OpT), operations # <<>>, NEW items \in Seq(Items), NEW i
  PROVE  /\ Extended(items) \in Seq(OpT)
         /\ Held(Extended(items), i) = Held(operations, i) + Counted(items, {i})
         /\ Counted(items, {i}) \in Nat
<1> DEFINE o == operations[1]
           n == [o EXCEPT !.items = @ \o items]
           t == Tail(operations)
<1>1. /\ o \in OpT /\ t \in Seq(OpT) /\ operations = <<o>> \o t /\ <<o>> \in Seq(OpT)
      /\ n \in OpT /\ n.items = o.items \o items /\ n.position = o.position
      /\ o.items \in Seq(Items) /\ Extended(items) = <<n>> \o t
  BY ExtendedFirst
<1>6. Counted(o.items \o items, {i}) = Counted(o.items, {i}) + Counted(items, {i})
  BY <1>1, CountBoth
<1>7. Counted(items, {i}) \in Nat
  BY CountKnown
<1>8. /\ Held(<<o>>, i) = (IF o.position = i THEN 1 ELSE 0) + Counted(o.items, {i})
      /\ Held(<<n>>, i) = (IF n.position = i THEN 1 ELSE 0) + Counted(n.items, {i})
      /\ Counted(o.items, {i}) \in Nat /\ <<n>> \in Seq(OpT)
  <2> HIDE DEF o, n
  <2> QED
    BY <1>1, HeldFew
<1>9. /\ Held(operations, i) = Held(<<o>>, i) + Held(t, i)
      /\ Held(<<n>> \o t, i) = Held(<<n>>, i) + Held(t, i)
      /\ Held(t, i) \in Nat /\ <<n>> \o t \in Seq(OpT)
  <2> DEFINE a == <<o>>
             b == <<n>>
  <2>1. a \in Seq(OpT) /\ b \in Seq(OpT) /\ t \in Seq(OpT) /\ operations = a \o t
    BY <1>1, <1>8
  <2> HIDE DEF a, b, t
  <2>2. Held(a \o t, i) = Held(a, i) + Held(t, i)
    BY <2>1, HeldBoth
  <2>3. Held(b \o t, i) = Held(b, i) + Held(t, i) /\ Held(t, i) \in Nat
        /\ b \o t \in Seq(OpT)
    BY <2>1, HeldBoth
  <2> QED
    BY <2>1, <2>2, <2>3 DEF a, b
<1> DEFINE e == Extended(items)
           a == <<o>>
           b == <<n>>
           u == <<n>> \o t
<1>10. /\ e = u /\ Held(operations, i) = Held(a, i) + Held(t, i)
       /\ Held(u, i) = Held(b, i) + Held(t, i) /\ Held(t, i) \in Nat /\ u \in Seq(OpT)
  BY <1>1, <1>9
<1>11. /\ Held(a, i) = (IF o.position = i THEN 1 ELSE 0) + Counted(o.items, {i})
       /\ Held(b, i) = (IF o.position = i THEN 1 ELSE 0)
                       + (Counted(o.items, {i}) + Counted(items, {i}))
       /\ Counted(o.items, {i}) \in Nat
  BY <1>1, <1>6, <1>8
<1> HIDE DEF o, n, t, e, a, b, u
<1>12. e \in Seq(OpT) /\ Held(e, i) = Held(operations, i) + Counted(items, {i})
  BY <1>7, <1>10, <1>11
<1> QED
  BY <1>7, <1>12 DEF e

(* One more operation, the newest.                                         *)
LEMMA Recorded ==
  ASSUME operations \in Seq(OpT), NEW perform \in {"insert", "remove"}, NEW p \in Lists,
         NEW items \in Seq(Items), items # <<>>, NEW position \in Pointer, NEW i
  PROVE  /\ <<Operation(perform, p, items, position)>> \o operations \in Seq(OpT)
         /\ Held(<<Operation(perform, p, items, position)>> \o operations, i)
              = Held(operations, i) + (IF position = i THEN 1 ELSE 0) + Counted(items, {i})
         /\ Held(operations, i) \in Nat /\ Counted(items, {i}) \in Nat
<1> DEFINE o == Operation(perform, p, items, position)
<1>1. o \in OpT /\ o.position = position /\ o.items = items
  BY DEF Operation, OpT
<1> HIDE DEF o
<1>2. /\ <<o>> \in Seq(OpT)
      /\ Held(<<o>>, i) = (IF o.position = i THEN 1 ELSE 0) + Counted(o.items, {i})
      /\ Counted(o.items, {i}) \in Nat
  BY <1>1, HeldFew
<1>3. /\ <<o>> \o operations \in Seq(OpT)
      /\ Held(<<o>> \o operations, i) = Held(<<o>>, i) + Held(operations, i)
      /\ Held(operations, i) \in Nat
  BY <1>2, HeldBoth
<1> QED
  BY <1>1, <1>2, <1>3 DEF o

LEMMA RemovalHeld ==
  ASSUME operations \in Seq(OpT), prev \in [Items -> Pointer], NEW p \in AllLists,
         NEW items \in Seq(Items), items # <<>>, Distinct(items), NEW i \in Items
  PROVE  /\ RemovalRecorded(p, items) \in Seq(OpT)
         /\ Held(RemovalRecorded(p, items), i) = Held(operations, i) + RemovalRefs(p, items, i)
         /\ Held(operations, i) \in Nat /\ RemovalRefs(p, items, i) \in Nat
<1>1. Counted(items, {i}) = IF i \in ToSet(items) THEN 1 ELSE 0
  BY CountDistinct DEF Distinct
<1>2. items[1] \in Items /\ prev[items[1]] \in Pointer
  BY FirstAndRest
<1>3. Held(operations, i) \in Nat
  BY HeldOver
<1>4. CASE p \notin Lists
  BY <1>3, <1>4 DEF RemovalRecorded, RemovalRefs
<1>5. CASE p \in Lists /\ BatchesRemoval(items)
  <2>1. operations # <<>>
    BY <1>5 DEF BatchesRemoval, Batches
  <2>2. /\ Extended(items) \in Seq(OpT)
        /\ Held(Extended(items), i) = Held(operations, i) + Counted(items, {i})
    BY <2>1, Lengthened
  <2>3. RemovalRecorded(p, items) = Extended(items)
    BY <1>5 DEF RemovalRecorded
  <2>4. RemovalRefs(p, items, i) = Counted(items, {i}) /\ Counted(items, {i}) \in Nat
    BY <1>1, <1>5 DEF RemovalRefs
  <2> QED
    BY <1>3, <2>2, <2>3, <2>4
<1>6. CASE p \in Lists /\ ~BatchesRemoval(items)
  <2> DEFINE position == prev[items[1]]
  <2>1. RemovalRecorded(p, items) = <<Operation("insert", p, items, position)>> \o operations
    BY <1>6 DEF RemovalRecorded
  <2>2. RemovalRefs(p, items, i) = Counted(items, {i}) + (IF position = i THEN 1 ELSE 0)
        /\ Counted(items, {i}) \in Nat
    BY <1>1, <1>6 DEF RemovalRefs
  <2>3. position \in Pointer
    BY <1>2
  <2> HIDE DEF position
  <2> DEFINE new == <<Operation("insert", p, items, position)>> \o operations
  <2>4. /\ new \in Seq(OpT)
        /\ Held(new, i)
             = Held(operations, i) + (IF position = i THEN 1 ELSE 0) + Counted(items, {i})
    BY <1>6, <2>3, Recorded
  <2>5. RemovalRecorded(p, items) = new
    BY <2>1
  <2> HIDE DEF new
  <2> QED
    BY <1>3, <2>2, <2>4, <2>5, SMTT(30)
<1> QED
  BY <1>4, <1>5, <1>6

LEMMA InsertionHeld ==
  ASSUME operations \in Seq(OpT), NEW p \in AllLists,
         NEW items \in Seq(Items), items # <<>>, Distinct(items), NEW i \in Items
  PROVE  /\ InsertionRecorded(p, items) \in Seq(OpT)
         /\ Held(InsertionRecorded(p, items), i) = Held(operations, i) + InsertionRefs(p, items, i)
         /\ Held(operations, i) \in Nat /\ InsertionRefs(p, items, i) \in Nat
<1>1. Counted(items, {i}) = IF i \in ToSet(items) THEN 1 ELSE 0
  BY CountDistinct DEF Distinct
<1>2. Held(operations, i) \in Nat
  BY HeldOver
<1>3. CASE p \notin Lists
  BY <1>2, <1>3 DEF InsertionRecorded, InsertionRefs
<1>4. CASE p \in Lists /\ Batches("remove")
  <2>1. operations # <<>>
    BY <1>4 DEF Batches
  <2>2. /\ Extended(items) \in Seq(OpT)
        /\ Held(Extended(items), i) = Held(operations, i) + Counted(items, {i})
    BY <2>1, Lengthened
  <2>3. InsertionRecorded(p, items) = Extended(items)
    BY <1>4 DEF InsertionRecorded
  <2>4. InsertionRefs(p, items, i) = Counted(items, {i}) /\ Counted(items, {i}) \in Nat
    BY <1>1, <1>4 DEF InsertionRefs
  <2> QED
    BY <1>2, <2>2, <2>3, <2>4
<1>5. CASE p \in Lists /\ ~Batches("remove")
  <2>1. InsertionRecorded(p, items) = <<Operation("remove", p, items, NULL)>> \o operations
    BY <1>5 DEF InsertionRecorded
  <2>2. InsertionRefs(p, items, i) = Counted(items, {i}) /\ Counted(items, {i}) \in Nat
    BY <1>1, <1>5 DEF InsertionRefs
  <2>3. NULL \in Pointer /\ NULL # i
    BY Constants DEF Pointer
  <2>4. /\ <<Operation("remove", p, items, NULL)>> \o operations \in Seq(OpT)
        /\ Held(<<Operation("remove", p, items, NULL)>> \o operations, i)
             = Held(operations, i) + (IF NULL = i THEN 1 ELSE 0) + Counted(items, {i})
    BY <1>5, <2>3, Recorded
  <2> QED
    BY <1>2, <2>1, <2>2, <2>3, <2>4
<1> QED
  BY <1>3, <1>4, <1>5

-----------------------------------------------------------------------------
(* The references that the calls to come give back.                        *)

Drops(i)    == {c \in CallT : c.do = "remove" /\ c.item = i /\ c.hold = -1}
Releases(i) == {c \in CallT : c.do = "insert" /\ c.item = i /\ c.release = 1}
Holds(i)    == {c \in CallT : c.do = "remove" /\ c.item = i /\ c.hold = 1}

Gives(s, i) == Counted(s, Drops(i)) + Counted(s, Releases(i)) - Counted(s, Holds(i))

Give(c, i) == IF c.do = "remove" /\ c.item = i THEN -c.hold
              ELSE IF c.do = "insert" /\ c.item = i THEN c.release ELSE 0

LEMMA GivesKnown ==
  ASSUME NEW s \in Seq(CallT), NEW i
  PROVE  /\ Gives(s, i) \in Int
         /\ Gives(s, i)
              = Cardinality({n \in DOMAIN s :
                    s[n].do = "remove" /\ s[n].item = i /\ s[n].hold = -1})
                + Cardinality({n \in DOMAIN s :
                    s[n].do = "insert" /\ s[n].item = i /\ s[n].release = 1})
                - Cardinality({n \in DOMAIN s :
                    s[n].do = "remove" /\ s[n].item = i /\ s[n].hold = 1})
<1>1. \A n \in DOMAIN s : s[n] \in CallT
  BY LenProperties, ElementOfSeq
<1>2. /\ {n \in DOMAIN s : s[n] \in Drops(i)}
           = {n \in DOMAIN s : s[n].do = "remove" /\ s[n].item = i /\ s[n].hold = -1}
      /\ {n \in DOMAIN s : s[n] \in Releases(i)}
           = {n \in DOMAIN s : s[n].do = "insert" /\ s[n].item = i /\ s[n].release = 1}
      /\ {n \in DOMAIN s : s[n] \in Holds(i)}
           = {n \in DOMAIN s : s[n].do = "remove" /\ s[n].item = i /\ s[n].hold = 1}
  BY <1>1 DEF Drops, Releases, Holds
<1>3. Counted(s, Drops(i)) \in Nat /\ Counted(s, Releases(i)) \in Nat /\ Counted(s, Holds(i)) \in Nat
  BY CountKnown
<1>4. /\ Counted(s, Drops(i)) = Cardinality({n \in DOMAIN s :
                    s[n].do = "remove" /\ s[n].item = i /\ s[n].hold = -1})
      /\ Counted(s, Releases(i)) = Cardinality({n \in DOMAIN s :
                    s[n].do = "insert" /\ s[n].item = i /\ s[n].release = 1})
      /\ Counted(s, Holds(i)) = Cardinality({n \in DOMAIN s :
                    s[n].do = "remove" /\ s[n].item = i /\ s[n].hold = 1})
  BY <1>2, Zenon DEF Counted
<1>5. Gives(s, i) \in Int
  BY <1>3 DEF Gives
<1> QED
  BY <1>4, <1>5, Zenon DEF Gives

LEMMA GivesFew ==
  ASSUME NEW i
  PROVE  /\ Gives(<<>>, i) = 0
         /\ \A c \in CallT : Gives(<<c>>, i) = Give(c, i) /\ Give(c, i) \in {-1, 0, 1}
<1>1. ASSUME NEW c \in CallT
      PROVE  Gives(<<c>>, i) = Give(c, i) /\ Give(c, i) \in {-1, 0, 1}
  <2>1. /\ Counted(<<c>>, Drops(i)) = IF c \in Drops(i) THEN 1 ELSE 0
        /\ Counted(<<c>>, Releases(i)) = IF c \in Releases(i) THEN 1 ELSE 0
        /\ Counted(<<c>>, Holds(i)) = IF c \in Holds(i) THEN 1 ELSE 0
    BY CountFew
  <2>2. CASE c.do = "remove"
    <3>1. c.hold \in {-1, 0, 1} /\ c.do # "insert"
      BY <2>2, Kinds DEF RemoveT
    <3>2. /\ c \in Drops(i) <=> c.item = i /\ c.hold = -1
          /\ c \notin Releases(i)
          /\ c \in Holds(i) <=> c.item = i /\ c.hold = 1
      BY <2>2, <3>1 DEF Drops, Releases, Holds
    <3> QED
      BY <2>1, <2>2, <3>1, <3>2 DEF Gives, Give
  <2>3. CASE c.do # "remove"
    <3>1. c.do = "insert" => c.release \in {0, 1}
      BY Kinds DEF InsertT
    <3>2. /\ c \notin Drops(i) /\ c \notin Holds(i)
          /\ c \in Releases(i) <=> c.do = "insert" /\ c.item = i /\ c.release = 1
      BY <2>3 DEF Drops, Releases, Holds
    <3> QED
      BY <2>1, <2>3, <3>1, <3>2 DEF Gives, Give
  <2> QED
    BY <2>2, <2>3
<1>2. Gives(<<>>, i) = 0
  BY CountFew DEF Gives
<1> QED
  BY <1>1, <1>2

LEMMA GivesOne ==
  ASSUME NEW c \in CallT, NEW i
  PROVE  <<c>> \in Seq(CallT) /\ Gives(<<c>>, i) = Give(c, i) /\ Give(c, i) \in {-1, 0, 1}
<1>1. \A q \in CallT : Gives(<<q>>, i) = Give(q, i) /\ Give(q, i) \in {-1, 0, 1}
  BY GivesFew
<1>2. <<c>> \in Seq(CallT)
  OBVIOUS
<1> QED
  BY <1>1, <1>2

LEMMA GivesBoth ==
  ASSUME NEW s \in Seq(CallT), NEW t \in Seq(CallT), NEW i
  PROVE  /\ Gives(s \o t, i) = Gives(s, i) + Gives(t, i)
         /\ s \o t \in Seq(CallT) /\ Gives(s, i) \in Int /\ Gives(t, i) \in Int
<1>1. ASSUME NEW T
      PROVE  /\ Counted(s \o t, T) = Counted(s, T) + Counted(t, T)
             /\ Counted(s, T) \in Nat /\ Counted(t, T) \in Nat
  BY CountBoth, CountKnown
<1>2. s \o t \in Seq(CallT)
  BY ConcatProperties
<1> QED
  BY <1>1, <1>2, SMTT(30) DEF Gives

LEMMA GivesFirst ==
  ASSUME NEW s \in Seq(CallT), s # <<>>, NEW i
  PROVE  /\ Gives(s, i) = Give(Head(s), i) + Gives(Tail(s), i)
         /\ Head(s) \in CallT /\ Tail(s) \in Seq(CallT)
         /\ Give(Head(s), i) \in Int /\ Gives(Tail(s), i) \in Int
<1>1. /\ Head(s) \in CallT /\ Tail(s) \in Seq(CallT)
      /\ s = <<Head(s)>> \o Tail(s) /\ <<Head(s)>> \in Seq(CallT)
  BY FirstAndRest
<1> DEFINE a == <<Head(s)>>
           t == Tail(s)
<1>2. Gives(a, i) = Give(Head(s), i) /\ Give(Head(s), i) \in Int
  <2> DEFINE c == Head(s)
  <2>1. c \in CallT
    BY <1>1
  <2> HIDE DEF c
  <2>2. Gives(<<c>>, i) = Give(c, i) /\ Give(c, i) \in Int
    <3>1. \A x \in CallT : Gives(<<x>>, i) = Give(x, i) /\ Give(x, i) \in {-1, 0, 1}
      BY GivesFew
    <3> QED
      BY <2>1, <3>1
  <2> QED
    BY <2>2 DEF c
<1>3. a \in Seq(CallT) /\ t \in Seq(CallT) /\ s = a \o t
  BY <1>1
<1> HIDE DEF a, t
<1>4. Gives(a \o t, i) = Gives(a, i) + Gives(t, i) /\ Gives(t, i) \in Int
  BY <1>3, GivesBoth
<1> QED
  BY <1>1, <1>2, <1>3, <1>4 DEF t

(* Who takes a reference when removing an item inserts it next.            *)
HoldsReleased(s) ==
    \A n \in 1 .. Len(s) : s[n].do = "remove" /\ s[n].hold = 1 =>
        /\ n + 1 \in 1 .. Len(s)
        /\ s[n + 1].do = "insert" /\ s[n + 1].item = s[n].item /\ s[n + 1].release = 1

LEMMA GivesEnough ==
  ASSUME NEW s \in Seq(CallT), HoldsReleased(s), NEW i
  PROVE  Gives(s, i) \in Nat
<1> DEFINE H == {n \in DOMAIN s : s[n] \in Holds(i)}
           R == {n \in DOMAIN s : s[n] \in Releases(i)}
           f == [n \in H |-> n + 1]
<1>1. DOMAIN s = 1 .. Len(s) /\ Len(s) \in Nat /\ \A n \in 1 .. Len(s) : s[n] \in CallT
  BY LenProperties, ElementOfSeq
<1>2. IsFiniteSet(H) /\ IsFiniteSet(R)
  BY CountKnown
<1>3. ASSUME NEW n \in H PROVE n + 1 \in R /\ n \in Nat
  <2>1. n \in 1 .. Len(s) /\ s[n].do = "remove" /\ s[n].item = i /\ s[n].hold = 1
    BY <1>1 DEF Holds
  <2>2. /\ n + 1 \in 1 .. Len(s)
        /\ s[n + 1].do = "insert" /\ s[n + 1].item = i /\ s[n + 1].release = 1
    BY <2>1 DEF HoldsReleased
  <2> QED
    BY <1>1, <2>1, <2>2 DEF Releases
<1>4. f \in Injection(H, R)
  <2> HIDE DEF H, R
  <2>1. f \in [H -> R]
    BY <1>3
  <2>2. \A a, b \in H : f[a] = f[b] => a = b
    BY <1>3
  <2> QED
    BY <2>1, <2>2 DEF Injection, IsInjective
<1>5. Cardinality(H) <= Cardinality(R)
  <2> HIDE DEF H, R, f
  <2> QED
    BY <1>2, <1>4, FS_Injection
<1>6. Counted(s, Holds(i)) <= Counted(s, Releases(i))
  BY <1>5 DEF Counted
<1>7. Counted(s, Drops(i)) \in Nat /\ Counted(s, Releases(i)) \in Nat /\ Counted(s, Holds(i)) \in Nat
  BY CountKnown
<1> QED
  BY <1>6, <1>7 DEF Gives

LEMMA ReleasedBoth ==
  ASSUME NEW s \in Seq(CallT), HoldsReleased(s), NEW t \in Seq(CallT), HoldsReleased(t)
  PROVE  HoldsReleased(s \o t)
<1> DEFINE l == Len(s)
           m == Len(t)
           u == s \o t
<1>1. /\ l \in Nat /\ m \in Nat /\ Len(u) = l + m
      /\ \A n \in 1 .. l : u[n] = s[n]
      /\ \A n \in 1 .. m : u[n + l] = t[n]
  BY LenProperties, ConcatProperties
<1> HIDE DEF u
<1> SUFFICES ASSUME NEW n \in 1 .. l + m, u[n].do = "remove", u[n].hold = 1
             PROVE  /\ n + 1 \in 1 .. l + m
                    /\ u[n + 1].do = "insert" /\ u[n + 1].item = u[n].item
                    /\ u[n + 1].release = 1
  BY <1>1 DEF HoldsReleased, u
<1>2. CASE n \in 1 .. l
  <2>1. /\ n + 1 \in 1 .. l
        /\ s[n + 1].do = "insert" /\ s[n + 1].item = s[n].item /\ s[n + 1].release = 1
    BY <1>1, <1>2 DEF HoldsReleased
  <2> QED
    BY <1>1, <1>2, <2>1
<1>3. CASE n \notin 1 .. l
  <2> DEFINE k == n - l
  <2>1. k \in 1 .. m /\ k + l = n /\ (k + 1) + l = n + 1
    BY <1>1, <1>3
  <2> HIDE DEF l, m, k
  <2>2. t[k].do = "remove" /\ t[k].hold = 1
    BY <1>1, <2>1
  <2>3. /\ k + 1 \in 1 .. m
        /\ t[k + 1].do = "insert" /\ t[k + 1].item = t[k].item /\ t[k + 1].release = 1
    BY <2>1, <2>2 DEF HoldsReleased, m
  <2>4. u[n + 1] = t[k + 1] /\ u[n] = t[k] /\ n + 1 \in 1 .. l + m
    BY <1>1, <2>1, <2>3, SMTT(30)
  <2> QED
    BY <2>3, <2>4
<1> QED
  BY <1>2, <1>3

-----------------------------------------------------------------------------
(* The programs of the interface thread.                                   *)

(* plt_clear forgets in the second place at most, what ends an undo comes  *)
(* before the last call, and files are no longer added after the last one. *)
ProgramFits(s) ==
    /\ s \in Seq(CallT)
    /\ HoldsReleased(s)
    /\ \A n \in 1 .. Len(s) : s[n].do = "forget" => n = 1 \/ (n = 2 /\ s[1].do = "group")
    /\ \A n \in 1 .. Len(s) : s[n].do = "finish" => n = Len(s) - 1
    /\ \A n \in 1 .. Len(s) : s[n].do = "files_end" => n = Len(s)

LEMMA RestFits ==
  ASSUME NEW s, ProgramFits(s), s # <<>>
  PROVE  /\ ProgramFits(Tail(s)) /\ Head(s) \in CallT /\ Head(s) = s[1]
         /\ Tail(s) \in Seq(CallT) /\ ToSet(s) = {Head(s)} \cup ToSet(Tail(s))
         /\ Head(s).do # "group" => \A n \in 1 .. Len(Tail(s)) : Tail(s)[n].do # "forget"
         /\ Head(s).do = "finish" => \A n \in 1 .. Len(Tail(s)) : Tail(s)[n].do # "finish"
         /\ Head(s).do = "files_end" => Tail(s) = <<>>
<1> DEFINE t == Tail(s)
           l == Len(s)
<1>1. /\ s \in Seq(CallT) /\ l \in Nat /\ l > 0 /\ Head(s) = s[1] /\ Head(s) \in CallT
      /\ t \in Seq(CallT) /\ Len(t) = l - 1
      /\ \A n \in 1 .. l - 1 : t[n] = s[n + 1]
      /\ ToSet(s) = {Head(s)} \cup ToSet(t)
  BY FirstAndRest DEF ProgramFits
<1>2. \A n \in 1 .. l - 1 : n + 1 \in 1 .. l /\ n + 1 # 1 /\ (n + 1 = 2 => n = 1)
  BY <1>1
<1>3. /\ HoldsReleased(s)
      /\ \A n \in 1 .. l : s[n].do = "forget" => n = 1 \/ (n = 2 /\ s[1].do = "group")
      /\ \A n \in 1 .. l : s[n].do = "finish" => n = l - 1
      /\ \A n \in 1 .. l : s[n].do = "files_end" => n = l
  BY DEF ProgramFits
<1> HIDE DEF t, l
<1>4. HoldsReleased(t)
  <2> SUFFICES ASSUME NEW n \in 1 .. l - 1, t[n].do = "remove", t[n].hold = 1
               PROVE  /\ n + 1 \in 1 .. l - 1
                      /\ t[n + 1].do = "insert" /\ t[n + 1].item = t[n].item
                      /\ t[n + 1].release = 1
    BY <1>1 DEF HoldsReleased
  <2>1. /\ (n + 1) + 1 \in 1 .. l
        /\ s[(n + 1) + 1].do = "insert" /\ s[(n + 1) + 1].item = s[n + 1].item
        /\ s[(n + 1) + 1].release = 1
    BY <1>1, <1>2, <1>3 DEF HoldsReleased, l
  <2>2. n + 1 \in 1 .. l - 1
    BY <1>1, <2>1
  <2> QED
    BY <1>1, <2>1, <2>2
<1>5. ASSUME NEW n \in 1 .. l - 1, t[n].do = "forget" PROVE n = 1 /\ s[1].do = "group"
  <2>1. n + 1 \in 1 .. l /\ n + 1 # 1 /\ s[n + 1].do = "forget"
    BY <1>1, <1>2, <1>5
  <2>2. n + 1 = 2 /\ s[1].do = "group"
    BY <1>3, <2>1
  <2> QED
    BY <1>2, <2>2
<1>6. ASSUME NEW n \in 1 .. l - 1, t[n].do = "finish" PROVE n = (l - 1) - 1
  <2>1. n + 1 \in 1 .. l /\ s[n + 1].do = "finish"
    BY <1>1, <1>2, <1>6
  <2>2. n + 1 = l - 1
    BY <1>3, <2>1
  <2> QED
    BY <1>1, <2>2
<1>7. s[1].do = "finish" => \A n \in 1 .. l - 1 : t[n].do # "finish"
  <2>1. s[1].do = "finish" => l = 2
    BY <1>1, <1>3
  <2> QED
    BY <1>1, <1>6, <2>1
<1>8. ASSUME NEW n \in 1 .. l - 1, t[n].do = "files_end" PROVE n = l - 1
  <2>1. n + 1 \in 1 .. l /\ s[n + 1].do = "files_end"
    BY <1>1, <1>2, <1>8
  <2>2. n + 1 = l
    BY <1>3, <2>1
  <2> QED
    BY <1>1, <2>2
<1>9. s[1].do = "files_end" => t = <<>>
  <2>1. s[1].do = "files_end" => l = 1
    BY <1>1, <1>3
  <2> QED
    BY <1>1, <2>1, EmptySeq
<1>10. ProgramFits(t)
  BY <1>1, <1>4, <1>5, <1>6, <1>8 DEF ProgramFits
<1> QED
  BY <1>1, <1>5, <1>7, <1>9, <1>10 DEF t

(* Calls put in front of others.                                           *)
LEMMA BothFit ==
  ASSUME NEW u \in Seq(CallT), HoldsReleased(u), NEW t, ProgramFits(t),
         \A n \in 1 .. Len(u) : u[n].do \notin {"finish", "files_end"},
         \/ \A n \in 1 .. Len(t) : t[n].do # "forget",
         \A n \in 1 .. Len(u) : u[n].do = "forget" => n = 1 \/ (n = 2 /\ u[1].do = "group")
  PROVE  ProgramFits(u \o t)
<1> DEFINE l == Len(u)
           m == Len(t)
           v == u \o t
<1>1. /\ t \in Seq(CallT) /\ HoldsReleased(t)
      /\ \A n \in 1 .. m : t[n].do = "finish" => n = m - 1
      /\ \A n \in 1 .. m : t[n].do = "files_end" => n = m
  BY DEF ProgramFits
<1>2. /\ l \in Nat /\ m \in Nat /\ v \in Seq(CallT) /\ Len(v) = l + m
      /\ \A n \in 1 .. l : v[n] = u[n]
      /\ \A n \in 1 .. m : v[n + l] = t[n]
  BY <1>1, LenProperties, ConcatProperties
<1>3. HoldsReleased(v)
  BY <1>1, ReleasedBoth
<1> HIDE DEF v
<1>4. ASSUME NEW n \in 1 .. l + m
      PROVE  /\ v[n].do = "forget" => n = 1 \/ (n = 2 /\ v[1].do = "group")
             /\ v[n].do = "finish" => n = (l + m) - 1
             /\ v[n].do = "files_end" => n = l + m
  <2>1. CASE n \in 1 .. l
    <3>1. v[n] = u[n] /\ v[1] = u[1]
      BY <1>2, <2>1
    <3> QED
      BY <2>1, <3>1
  <2>2. CASE n \notin 1 .. l
    <3> DEFINE k == n - l
    <3>1. k \in 1 .. m /\ k + l = n
      BY <1>2, <2>2
    <3> HIDE DEF k
    <3>2. v[n] = t[k]
      BY <1>2, <3>1
    <3>3. /\ v[n].do # "forget" /\ (v[n].do = "finish" => k = m - 1)
          /\ v[n].do = "files_end" => k = m
      BY <1>1, <3>1, <3>2
    <3> QED
      BY <1>2, <3>1, <3>3
  <2> QED
    BY <2>1, <2>2
<1> QED
  BY <1>2, <1>3, <1>4 DEF ProgramFits, v

(* Calls that take no reference, forget nothing and end nothing.           *)
QuietT == {c \in CallT : c.do \notin {"forget", "finish", "files_end"} /\ ~(c.do = "remove" /\ c.hold = 1)}

LEMMA QuietFits ==
  ASSUME NEW s \in Seq(QuietT)
  PROVE  /\ ProgramFits(s) /\ s \in Seq(CallT) /\ HoldsReleased(s)
         /\ \A n \in 1 .. Len(s) : s[n].do \notin {"forget", "finish", "files_end"}
<1>1. \A n \in 1 .. Len(s) : s[n] \in QuietT
  BY ElementOfSeq
<1>2. s \in Seq(CallT)
  BY DEF QuietT
<1> QED
  BY <1>1, <1>2 DEF QuietT, ProgramFits, HoldsReleased

-----------------------------------------------------------------------------
(* The references of the operations that are being undone.                 *)

FinishesOf(s) == {c \in ToSet(s) : c.do = "finish"}

ExecutingIn(s, type) ==
    LET finish == {call \in ToSet(s) : call.do = "finish" /\ call.type = type}
    IN  IF finish = {} THEN <<>> ELSE <<CHOOSE call \in finish : TRUE>>

Running(s, i) ==
    Held(OperationsOf(ExecutingIn(s, "undo")), i) + Held(OperationsOf(ExecutingIn(s, "redo")), i)

LEMMA ExecutingSame ==
  ASSUME NEW s, NEW t, FinishesOf(s) = FinishesOf(t), NEW type
  PROVE  ExecutingIn(s, type) = ExecutingIn(t, type)
<1> DEFINE A == {call \in ToSet(s) : call.do = "finish" /\ call.type = type}
           B == {call \in ToSet(t) : call.do = "finish" /\ call.type = type}
<1>1. A = B
  BY DEF FinishesOf
<1>2. /\ ExecutingIn(s, type) = IF A = {} THEN <<>> ELSE <<CHOOSE call \in A : TRUE>>
      /\ ExecutingIn(t, type) = IF B = {} THEN <<>> ELSE <<CHOOSE call \in B : TRUE>>
  BY DEF ExecutingIn
<1> HIDE DEF A, B
<1> QED
  BY <1>1, <1>2

LEMMA ExecutingOne ==
  ASSUME NEW s, NEW c \in FinishT, FinishesOf(s) = {c}, NEW type
  PROVE  ExecutingIn(s, type) = IF c.type = type THEN <<c>> ELSE <<>>
<1>1. {call \in ToSet(s) : call.do = "finish" /\ call.type = type} = {call \in {c} : call.type = type}
  BY DEF FinishesOf
<1>2. CASE c.type = type
  <2>1. {call \in {c} : call.type = type} = {c} /\ (CHOOSE call \in {c} : TRUE) = c
    BY <1>2
  <2> QED
    BY <1>1, <1>2, <2>1 DEF ExecutingIn
<1>3. CASE c.type # type
  <2>1. {call \in {c} : call.type = type} = {}
    BY <1>3
  <2> QED
    BY <1>1, <1>3, <2>1 DEF ExecutingIn
<1> QED
  BY <1>2, <1>3

LEMMA ExecutingNone ==
  ASSUME NEW s, FinishesOf(s) = {}, NEW type
  PROVE  ExecutingIn(s, type) = <<>>
<1>1. {call \in ToSet(s) : call.do = "finish" /\ call.type = type} = {}
  BY DEF FinishesOf
<1> QED
  BY <1>1 DEF ExecutingIn

LEMMA RunningSame ==
  ASSUME NEW s, NEW t, FinishesOf(s) = FinishesOf(t), NEW i
  PROVE  Running(s, i) = Running(t, i)
<1>1. /\ ExecutingIn(s, "undo") = ExecutingIn(t, "undo")
      /\ ExecutingIn(s, "redo") = ExecutingIn(t, "redo")
  BY ExecutingSame
<1> QED
  BY <1>1 DEF Running

LEMMA RunningNone ==
  ASSUME NEW s, FinishesOf(s) = {}, NEW i
  PROVE  Running(s, i) = 0
<1>2. ExecutingIn(s, "undo") = <<>> /\ ExecutingIn(s, "redo") = <<>>
  BY ExecutingNone
<1>3. Held(OperationsOf(<<>>), i) = 0
  BY OperationsFew, HeldFew
<1> QED
  BY <1>2, <1>3 DEF Running

LEMMA RunningOne ==
  ASSUME NEW s, NEW c \in FinishT, FinishesOf(s) = {c}, NEW i
  PROVE  /\ Running(s, i) = Held(c.operations, i) /\ Held(c.operations, i) \in Nat
         /\ OperationsOf(<<c>>) = c.operations
<1>1. c.do = "finish" /\ c.type \in {"undo", "redo"} /\ c.operations \in Seq(OpT)
  BY DEF FinishT
<1>3. /\ ExecutingIn(s, "undo") = IF c.type = "undo" THEN <<c>> ELSE <<>>
      /\ ExecutingIn(s, "redo") = IF c.type = "redo" THEN <<c>> ELSE <<>>
  BY ExecutingOne
<1>4. OperationsOf(<<>>) = <<>> /\ OperationsOf(<<c>>) = c.operations
  BY OperationsFew DEF BearT
<1>5. Held(<<>>, i) = 0 /\ Held(c.operations, i) \in Nat
  BY <1>1, HeldFew, HeldOver
<1>6. CASE c.type = "undo"
  <2>1. ExecutingIn(s, "undo") = <<c>> /\ ExecutingIn(s, "redo") = <<>>
    BY <1>3, <1>6
  <2> QED
    BY <1>4, <1>5, <2>1 DEF Running
<1>7. CASE c.type = "redo"
  <2>1. ExecutingIn(s, "undo") = <<>> /\ ExecutingIn(s, "redo") = <<c>>
    BY <1>3, <1>7
  <2> QED
    BY <1>4, <1>5, <2>1 DEF Running
<1> QED
  BY <1>1, <1>4, <1>5, <1>6, <1>7

LEMMA FinishesFit ==
  ASSUME NEW s, ProgramFits(s)
  PROVE  FinishesOf(s) = {} \/ \E c \in FinishT : FinishesOf(s) = {c}
<1>1. /\ s \in Seq(CallT) /\ DOMAIN s = 1 .. Len(s)
      /\ \A n \in 1 .. Len(s) : s[n].do = "finish" => n = Len(s) - 1
      /\ \A n \in 1 .. Len(s) : s[n] \in CallT
  BY LenProperties, ElementOfSeq DEF ProgramFits
<1>2. ASSUME NEW c \in FinishesOf(s) PROVE c \in FinishT /\ FinishesOf(s) = {c}
  <2>1. c = s[Len(s) - 1] /\ c \in CallT /\ c.do = "finish"
    BY <1>1, ZenonT(40) DEF FinishesOf, ToSet
  <2>2. \A d \in FinishesOf(s) : d = s[Len(s) - 1]
    BY <1>1 DEF FinishesOf, ToSet
  <2>3. c \in FinishT
    BY <2>1, Kinds
  <2> QED
    BY <2>1, <2>2, <2>3, SMTT(30)
<1> QED
  BY <1>2

LEMMA RunningKnown ==
  ASSUME NEW s, ProgramFits(s), NEW i
  PROVE  Running(s, i) \in Nat
<1>1. CASE FinishesOf(s) = {}
  BY <1>1, RunningNone
<1>2. CASE \E c \in FinishT : FinishesOf(s) = {c}
  BY <1>2, RunningOne
<1> QED
  BY <1>1, <1>2, FinishesFit

-----------------------------------------------------------------------------
(* The invariant: the lists are linked as sequences, the program is one    *)
(* that an operation can leave, and every reference is accounted for.      *)

Typed ==
    /\ refs \in [Items -> Int]
    /\ current \in Lists /\ adding \in Lists \cup {NULL}
    /\ adder \in [after : Pointer, left : 0 .. CLI_FILES]
    /\ operations \in Seq(OpT)
    /\ undo_stack \in Seq(EntryT) /\ redo_stack \in Seq(EntryT)
    /\ base \in [Lists -> Seq(Items)]
    /\ grouping \in BOOLEAN /\ pending \in BOOLEAN /\ failed = FALSE
    /\ budget \in 0 .. BUDGET

(* Who adds files.                                                         *)
Adding ==
    /\ adder.left > 0 => adding \in Lists
    /\ (\E c \in ToSet(program) : c.do = "files_end") => adder = NoAdder /\ adding # NULL

(* gone is what the program has yet to forget.                             *)
Forgets(gone) ==
    /\ \A c \in ToSet(program) : c.do = "forget" => gone # <<>> /\ c.item = gone[1]
    /\ gone # <<>> => \E c \in ToSet(program) : c.do = "forget"

Where(lists, gone, i) ==
    IF (\E p \in AllLists : i \in ToSet(lists[p])) \/ i \in ToSet(gone) THEN 1 ELSE 0

HeldByUndo(i) ==
    Held(operations, i) + Held(OperationsOf(undo_stack), i) + Held(OperationsOf(redo_stack), i)

Balanced(lists, gone) ==
    \A i \in Items : refs[i] = Where(lists, gone, i) + HeldByUndo(i) + Running(program, i)
                               + Gives(program, i)

State(lists, gone) ==
    /\ Typed
    /\ ProgramFits(program)
    /\ LinkedAs(lists, gone)
    /\ Adding
    /\ Forgets(gone)
    /\ Balanced(lists, gone)

PlaylistInv == \E lists, gone : State(lists, gone)

LEMMA ForgottenIsGone ==
  ASSUME NEW lists, NEW gone, LinkedAs(lists, gone), Forgets(gone), ProgramFits(program)
  PROVE  Forgotten = ToSet(gone)
<1>1. /\ DOMAIN program = 1 .. Len(program)
      /\ \A n \in DOMAIN program : program[n] \in ToSet(program)
      /\ \A c \in ToSet(program) : \E n \in DOMAIN program : program[n] = c
  BY LenProperties DEF ToSet, ProgramFits
<1>2. gone # <<>> => Chain(next, gone[1]) = gone
  BY ChainRead DEF LinkedAs, Forgetting
<1>3. ASSUME NEW i \in Forgotten PROVE i \in ToSet(gone)
  <2>1. PICK n \in DOMAIN program : /\ program[n].do = "forget"
                                    /\ i \in ToSet(Chain(next, program[n].item))
    BY DEF Forgotten
  <2> QED
    BY <1>1, <1>2, <2>1 DEF Forgets
<1>4. ASSUME NEW i \in ToSet(gone) PROVE i \in Forgotten
  <2>1. gone # <<>>
    BY DEF ToSet
  <2>2. PICK n \in DOMAIN program : program[n].do = "forget"
    BY <1>1, <2>1 DEF Forgets
  <2>3. program[n].item = gone[1]
    BY <1>1, <2>2 DEF Forgets
  <2>4. i \in ToSet(Chain(next, program[n].item))
    BY <1>2, <2>1, <2>3
  <2> QED
    BY <2>2, <2>4 DEF Forgotten
<1> QED
  BY <1>3, <1>4

LEMMA ListOfItem ==
  ASSUME NEW lists, NEW gone, LinkedAs(lists, gone), NEW i \in Items
  PROVE  Cardinality({p \in AllLists : i \in ToSet(lists[p])}) + (IF i \in ToSet(gone) THEN 1 ELSE 0)
           = Where(lists, gone, i)
<1> DEFINE P == {p \in AllLists : i \in ToSet(lists[p])}
           g == IF i \in ToSet(gone) THEN 1 ELSE 0
<1>1. CASE \E p \in AllLists : i \in ToSet(lists[p])
  <2>1. PICK p \in AllLists : i \in ToSet(lists[p])
    BY <1>1
  <2>2. P = {p}
    BY <2>1 DEF LinkedAs
  <2>3. g = 0
    BY <2>1 DEF LinkedAs, Forgetting
  <2>4. Where(lists, gone, i) = 1
    BY <1>1 DEF Where
  <2> HIDE DEF P, g
  <2>5. Cardinality(P) = 1
    BY <2>2, FS_Singleton, Zenon
  <2>6. Cardinality(P) + g = Where(lists, gone, i)
    BY <2>3, <2>4, <2>5
  <2> QED
    BY <2>6 DEF P, g
<1>2. CASE ~\E p \in AllLists : i \in ToSet(lists[p])
  <2>1. P = {}
    BY <1>2
  <2>2. Where(lists, gone, i) = g /\ g \in Nat
    BY <1>2 DEF Where
  <2> HIDE DEF P, g
  <2>3. Cardinality(P) = 0
    BY <2>1, FS_EmptySet, Zenon
  <2>4. Cardinality(P) + g = Where(lists, gone, i)
    BY <2>2, <2>3
  <2> QED
    BY <2>4 DEF P, g
<1> QED
  BY <1>1, <1>2

LEMMA StateCounts ==
  ASSUME NEW lists, NEW gone, State(lists, gone), NEW i
  PROVE  /\ Where(lists, gone, i) \in {0, 1}
         /\ Held(operations, i) \in Nat /\ Held(OperationsOf(undo_stack), i) \in Nat
         /\ Held(OperationsOf(redo_stack), i) \in Nat /\ HeldByUndo(i) \in Nat
         /\ Running(program, i) \in Nat /\ Gives(program, i) \in Nat
<1>1. undo_stack \in Seq(BearT) /\ redo_stack \in Seq(BearT) /\ operations \in Seq(OpT)
  BY DEF State, Typed, BearT
<1>2. OperationsOf(undo_stack) \in Seq(OpT) /\ OperationsOf(redo_stack) \in Seq(OpT)
  BY <1>1, OperationsOver
<1>3. /\ Held(operations, i) \in Nat /\ Held(OperationsOf(undo_stack), i) \in Nat
      /\ Held(OperationsOf(redo_stack), i) \in Nat
  BY <1>1, <1>2, HeldOver
<1>4. HeldByUndo(i) \in Nat
  BY <1>3 DEF HeldByUndo
<1>5. Running(program, i) \in Nat /\ Gives(program, i) \in Nat
  BY RunningKnown, GivesEnough DEF State, ProgramFits
<1>6. Where(lists, gone, i) \in {0, 1}
  BY DEF Where
<1> QED
  BY <1>3, <1>4, <1>5, <1>6

LEMMA StateSound ==
  ASSUME NEW lists, NEW gone, State(lists, gone)
  PROVE  /\ TypeOK /\ ListsSound /\ RefsBalanced
         /\ \A p \in AllLists : Tracks(p) = lists[p]
         /\ Forgotten = ToSet(gone)
         /\ refs \in [Items -> Nat]
<1>1. Forgotten = ToSet(gone)
  BY ForgottenIsGone DEF State
<1>2. ListsSound /\ \A p \in AllLists : Tracks(p) = lists[p]
  BY <1>1, LinkedIsSound DEF State, Typed
<1>3. \A i \in Items : refs[i] \in Nat
  BY StateCounts DEF State, Balanced
<1>4. refs \in [Items -> Nat]
  BY <1>3 DEF State, Typed
<1>5. TypeOK
  <2>1. \A o \in OpT : OperationType(o)
    BY LenProperties, RefdKnown DEF OperationType, OpT, ToSet
  <2>2. \A n \in DOMAIN operations : OperationType(operations[n])
    BY <2>1, LenProperties, ElementOfSeq DEF State, Typed
  <2>3. ASSUME NEW stack \in {undo_stack, redo_stack}, NEW e \in ToSet(stack),
               NEW n \in DOMAIN e.operations
        PROVE  OperationType(e.operations[n])
    <3>1. stack \in Seq(EntryT)
      BY DEF State, Typed
    <3>2. e \in EntryT
      BY <3>1, LenProperties, ElementOfSeq DEF ToSet
    <3>3. e.operations \in Seq(OpT)
      BY <3>2 DEF EntryT
    <3>4. e.operations[n] \in OpT
      BY <3>3, LenProperties, ElementOfSeq
    <3> QED
      BY <2>1, <3>4
  <2>4. LinkTypes /\ Typed
    BY DEF State, LinkedAs
  <2>5. /\ head \in [AllLists -> Pointer] /\ tail \in [AllLists -> Pointer]
        /\ count \in [AllLists -> Nat]
        /\ next \in [Items -> Pointer] /\ prev \in [Items -> Pointer]
    BY <2>4 DEF LinkTypes
  <2>6. /\ current \in Lists /\ adding \in Lists \cup {NULL}
        /\ adder.after \in Pointer /\ adder.left \in 0 .. CLI_FILES
        /\ {grouping, pending, failed} \subseteq BOOLEAN
        /\ budget \in 0 .. BUDGET
    BY <2>4 DEF Typed
  <2> QED
    BY <1>4, <2>2, <2>3, <2>5, <2>6 DEF TypeOK
<1>6. RefsBalanced
  <2> SUFFICES ASSUME NEW i \in Items
               PROVE  refs[i] = Cardinality({p \in AllLists : i \in ToSet(Tracks(p))})
                                + (IF i \in Forgotten THEN 1 ELSE 0)
                                + Held(operations, i)
                                + Held(OperationsOf(undo_stack), i)
                                + Held(OperationsOf(redo_stack), i)
                                + Held(OperationsOf(Executing("undo")), i)
                                + Held(OperationsOf(Executing("redo")), i)
                                + HeldByProgram(i)
    BY DEF RefsBalanced
  <2>1. {p \in AllLists : i \in ToSet(Tracks(p))} = {p \in AllLists : i \in ToSet(lists[p])}
    BY <1>2
  <2>2. Cardinality({p \in AllLists : i \in ToSet(Tracks(p))})
          + (IF i \in Forgotten THEN 1 ELSE 0) = Where(lists, gone, i)
    BY <1>1, <2>1, ListOfItem DEF State
  <2>3. HeldByProgram(i) = Gives(program, i)
    BY GivesKnown DEF HeldByProgram, State, ProgramFits
  <2>4. Executing("undo") = ExecutingIn(program, "undo") /\ Executing("redo") = ExecutingIn(program, "redo")
    BY DEF Executing, ExecutingIn
  <2>5. /\ ExecutingIn(program, "undo") \in Seq(FinishT)
        /\ ExecutingIn(program, "redo") \in Seq(FinishT)
    <3>1. ASSUME NEW type
          PROVE  ExecutingIn(program, type) \in Seq(FinishT)
      <4> DEFINE F == {call \in ToSet(program) : call.do = "finish" /\ call.type = type}
      <4>1. F \subseteq FinishT
        BY Kinds, LenProperties, ElementOfSeq DEF State, ProgramFits, ToSet
      <4>2. ExecutingIn(program, type) = IF F = {} THEN <<>> ELSE <<CHOOSE call \in F : TRUE>>
        BY DEF ExecutingIn
      <4> HIDE DEF F
      <4>3. F # {} => (CHOOSE call \in F : TRUE) \in F
        OBVIOUS
      <4> QED
        BY <4>1, <4>2, <4>3
    <3> QED
      BY <3>1
  <2>6. /\ Held(OperationsOf(ExecutingIn(program, "undo")), i) \in Nat
        /\ Held(OperationsOf(ExecutingIn(program, "redo")), i) \in Nat
    <3>1. \A s \in Seq(FinishT) : s \in Seq(BearT)
      BY DEF BearT
    <3> QED
      BY <2>5, <3>1, OperationsOver, HeldOver
  <2>7. /\ Held(operations, i) \in Nat /\ Held(OperationsOf(undo_stack), i) \in Nat
        /\ Held(OperationsOf(redo_stack), i) \in Nat /\ Gives(program, i) \in Nat
    BY StateCounts
  <2>8. refs[i] = Where(lists, gone, i) + HeldByUndo(i) + Running(program, i) + Gives(program, i)
    BY DEF State, Balanced
  <2> DEFINE a == Cardinality({p \in AllLists : i \in ToSet(Tracks(p))})
             b == IF i \in Forgotten THEN 1 ELSE 0
             w == Where(lists, gone, i)
             h == Held(operations, i)
             u == Held(OperationsOf(undo_stack), i)
             r == Held(OperationsOf(redo_stack), i)
             x == Held(OperationsOf(ExecutingIn(program, "undo")), i)
             y == Held(OperationsOf(ExecutingIn(program, "redo")), i)
             v == Gives(program, i)
             n == refs[i]
  <2>9. a + b = w
    BY <2>2
  <2>10. n = w + (h + u + r) + (x + y) + v
    BY <2>8 DEF HeldByUndo, Running
  <2>11. /\ h \in Nat /\ u \in Nat /\ r \in Nat /\ x \in Nat /\ y \in Nat /\ v \in Nat
         /\ w \in {0, 1}
    BY <2>6, <2>7, StateCounts
  <2> HIDE DEF a, b, w, h, u, r, x, y, v, n
  <2>12. n = a + b + h + u + r + x + y + v
    BY <2>9, <2>10, <2>11
  <2>13. /\ Held(OperationsOf(Executing("undo")), i) = x
         /\ Held(OperationsOf(Executing("redo")), i) = y
         /\ HeldByProgram(i) = v
    BY <2>3, <2>4 DEF x, y, v
  <2> QED
    BY <2>12, <2>13 DEF a, b, h, u, r, n
<1> QED
  BY <1>1, <1>2, <1>4, <1>5, <1>6

-----------------------------------------------------------------------------
(* A step keeps the invariant.                                             *)

(* The state after a step, part by part.                                   *)
LEMMA Assembled ==
  ASSUME NEW lists, NEW gone, Typed', ProgramFits(program'), LinkedAs(lists, gone)',
         Adding', Forgets(gone)',
         \A i \in Items : refs'[i] = Where(lists, gone, i)
            + (Held(operations', i) + Held(OperationsOf(undo_stack'), i)
               + Held(OperationsOf(redo_stack'), i))
            + Running(program', i) + Gives(program', i)
  PROVE  State(lists, gone)'
  BY DEF State, Balanced, HeldByUndo

LEMMA LinksKept ==
  ASSUME NEW lists, NEW gone, LinkedAs(lists, gone), UNCHANGED links
  PROVE  LinkedAs(lists, gone)'
<1>1. head' = head /\ tail' = tail /\ count' = count /\ next' = next /\ prev' = prev
  BY DEF links
<1>2. LinkTypes'
  BY <1>1 DEF LinkedAs, LinkTypes
<1>3. Forgetting(lists, gone)'
  BY <1>1 DEF LinkedAs, Forgetting
<1> QED
  BY <1>1, <1>2, <1>3 DEF LinkedAs

(* The first call is made, and the others remain.                          *)
LEMMA Popped ==
  ASSUME NEW lists, NEW gone, State(lists, gone), program # <<>>,
         Head(program).do \notin {"forget", "finish"}, program' = Tail(program)
  PROVE  /\ ProgramFits(program') /\ Head(program) \in CallT
         /\ \A i : Running(program', i) = Running(program, i)
         /\ \A i : /\ Gives(program, i) = Give(Head(program), i) + Gives(program', i)
                   /\ Give(Head(program), i) \in Int /\ Gives(program', i) \in Int
         /\ Forgets(gone)'
         /\ ToSet(program') \subseteq ToSet(program)
         /\ Head(program).do # "group" => gone = <<>>
<1>1. ProgramFits(program)
  BY DEF State
<1>2. /\ ProgramFits(program') /\ Head(program) \in CallT
      /\ ToSet(program) = {Head(program)} \cup ToSet(program')
      /\ Head(program).do # "group" => \A n \in 1 .. Len(program') : program'[n].do # "forget"
  BY <1>1, RestFits
<1>3. FinishesOf(program) = FinishesOf(program')
  BY <1>2 DEF FinishesOf
<1>4. \A i : Running(program', i) = Running(program, i)
  BY <1>3, RunningSame
<1>5. \A i : /\ Gives(program, i) = Give(Head(program), i) + Gives(program', i)
             /\ Give(Head(program), i) \in Int /\ Gives(program', i) \in Int
  BY <1>1, GivesFirst DEF ProgramFits
<1>6. Forgets(gone)'
  BY <1>2 DEF State, Forgets
<1>7. Head(program).do # "group" => gone = <<>>
  <2> SUFFICES ASSUME Head(program).do # "group", gone # <<>> PROVE FALSE
    OBVIOUS
  <2>1. PICK c \in ToSet(program) : c.do = "forget"
    BY DEF State, Forgets
  <2>2. c \in ToSet(program')
    BY <1>2, <2>1
  <2>3. DOMAIN program' = 1 .. Len(program')
    BY <1>2, LenProperties DEF ProgramFits
  <2> QED
    BY <1>2, <2>1, <2>2, <2>3 DEF ToSet
<1> QED
  BY <1>2, <1>4, <1>5, <1>6, <1>7

-----------------------------------------------------------------------------
(* Calls that only unlock, announce or group.                              *)

LEMMA QuietCall ==
  ASSUME NEW lists, NEW gone, State(lists, gone), program # <<>>,
         Head(program).do \notin {"forget", "finish", "remove", "insert"},
         program' = Tail(program), UNCHANGED <<links, refs, operations, stacks>>,
         Typed', Adding'
  PROVE  State(lists, gone)'
<1>1. /\ ProgramFits(program') /\ Forgets(gone)'
      /\ \A i : Running(program', i) = Running(program, i)
      /\ \A i : /\ Gives(program, i) = Give(Head(program), i) + Gives(program', i)
                /\ Gives(program', i) \in Int
  BY Popped
<1>2. LinkedAs(lists, gone)'
  BY LinksKept DEF State
<1>3. \A i : Gives(program, i) = Gives(program', i)
  BY <1>1 DEF Give
<1>4. \A i \in Items : refs'[i] = Where(lists, gone, i)
            + (Held(operations', i) + Held(OperationsOf(undo_stack'), i)
               + Held(OperationsOf(redo_stack'), i))
            + Running(program', i) + Gives(program', i)
  BY <1>1, <1>3 DEF State, Balanced, HeldByUndo, stacks
<1> QED
  BY <1>1, <1>2, <1>4, Assembled

LEMMA AddingKept ==
  ASSUME Adding, adding' = adding, adder' = adder, ToSet(program') \subseteq ToSet(program)
  PROVE  Adding'
  BY DEF Adding

LEMMA GroupStep ==
  ASSUME NEW lists, NEW gone, State(lists, gone), DoGroup \/ DoEndGroup \/ DoUnlock \/ DoChanged
  PROVE  State(lists, gone)'
<1>1. /\ program # <<>> /\ program' = Tail(program)
      /\ Head(program).do \notin {"forget", "finish", "remove", "insert"}
      /\ UNCHANGED <<links, refs, operations, stacks, adding, adder>>
  BY DEF DoGroup, DoEndGroup, DoUnlock, DoChanged, Call
<1>2. Adding'
  BY <1>1, Popped, AddingKept DEF State
<1>3. Typed'
  <2>1. Head(program) \in CallT
    BY <1>1, Popped
  <2>2. DoGroup => Head(program).plt \in Lists \cup {NULL}
    BY <2>1, Kinds DEF DoGroup, Call, GroupT
  <2>3. /\ UNCHANGED <<base, failed, budget>>
        /\ current' \in Lists /\ grouping' \in BOOLEAN /\ pending' \in BOOLEAN
    BY <2>2 DEF State, Typed, DoGroup, DoEndGroup, DoUnlock, DoChanged
  <2> QED
    BY <1>1, <2>3 DEF State, Typed, stacks
<1> QED
  BY <1>1, <1>2, <1>3, QuietCall

LEMMA FilesEndStep ==
  ASSUME NEW lists, NEW gone, State(lists, gone), DoFilesEnd
  PROVE  State(lists, gone)'
<1>1. /\ program # <<>> /\ program' = Tail(program) /\ Head(program).do = "files_end"
      /\ UNCHANGED <<links, refs, operations, stacks, adder, current, grouping, base, failed, budget>>
      /\ adding' = NULL /\ pending' = TRUE
  BY DEF DoFilesEnd, Call
<1>2. program' = <<>> /\ Head(program) \in ToSet(program)
  BY <1>1, RestFits DEF State
<1>3. Adding'
  <2>1. adder = NoAdder
    BY <1>1, <1>2 DEF State, Adding
  <2>2. ToSet(program') = {}
    BY <1>2 DEF ToSet
  <2>3. adder'.left = 0
    BY <1>1, <2>1 DEF NoAdder
  <2> QED
    BY <2>2, <2>3 DEF Adding
<1>4. Typed'
  BY <1>1 DEF State, Typed, stacks
<1> QED
  BY <1>1, <1>3, <1>4, QuietCall

-----------------------------------------------------------------------------
(* plt_remove_item and plt_insert_item.                                    *)

LEMMA ListPosition ==
  ASSUME NEW s \in Seq(Items), NEW x \in ToSet(s)
  PROVE  \E k \in 1 .. Len(s) : s[k] = x
  BY LenProperties DEF ToSet

LEMMA WhereRemoved ==
  ASSUME NEW lists, LinkedAs(lists, <<>>), NEW p \in AllLists, NEW k \in 1 .. Len(lists[p]), NEW i
  PROVE  Where([lists EXCEPT ![p] = RemoveAt(lists[p], k)], <<>>, i)
           = Where(lists, <<>>, i) - (IF i = lists[p][k] THEN 1 ELSE 0)
<1> DEFINE s == lists[p]
           t == RemoveAt(s, k)
           new == [lists EXCEPT ![p] = t]
<1>1. /\ s \in Seq(Items) /\ Distinct(s) /\ lists \in [AllLists -> Seq(Items)]
      /\ \A q \in AllLists : q # p => ToSet(lists[q]) \cap ToSet(s) = {}
  BY DEF LinkedAs
<1>2. ToSet(t) = ToSet(s) \ {s[k]} /\ s[k] \in ToSet(s)
  <2> HIDE DEF s
  <2>1. k \in 1 .. Len(s)
    BY DEF s
  <2> QED
    BY <1>1, <2>1, RemoveAtSet, LenProperties DEF ToSet
<1>3. new[p] = t /\ \A q \in AllLists : q # p => new[q] = lists[q]
  BY <1>1
<1>4. ToSet(<<>>) = {}
  BY DEF ToSet
<1> HIDE DEF t, new
<1>5. CASE i = s[k]
  <2>1. \A q \in AllLists : i \notin ToSet(new[q])
    BY <1>1, <1>2, <1>3, <1>5
  <2>2. Where(new, <<>>, i) = 0
    BY <1>4, <2>1 DEF Where
  <2>3. Where(lists, <<>>, i) = 1
    BY <1>2, <1>5 DEF Where
  <2> QED
    BY <1>5, <2>2, <2>3 DEF new, t
<1>6. CASE i # s[k]
  <2>1. \A q \in AllLists : i \in ToSet(new[q]) <=> i \in ToSet(lists[q])
    BY <1>1, <1>2, <1>3, <1>6
  <2>2. Where(new, <<>>, i) = Where(lists, <<>>, i)
    BY <2>1 DEF Where
  <2>3. Where(lists, <<>>, i) \in {0, 1}
    BY DEF Where
  <2> QED
    BY <1>6, <2>2, <2>3 DEF new, t
<1> QED
  BY <1>5, <1>6

LEMMA WhereInserted ==
  ASSUME NEW lists, NEW gone, LinkedAs(lists, gone), NEW p \in AllLists,
         NEW k \in 0 .. Len(lists[p]), NEW item \in Items \ ToSet(gone),
         \A q \in AllLists : item \notin ToSet(lists[q]), NEW i
  PROVE  Where([lists EXCEPT ![p] = InsertAt(lists[p], k + 1, item)], gone, i)
           = Where(lists, gone, i) + (IF i = item THEN 1 ELSE 0)
<1> DEFINE s == lists[p]
           t == InsertAt(s, k + 1, item)
           new == [lists EXCEPT ![p] = t]
<1>1. s \in Seq(Items) /\ lists \in [AllLists -> Seq(Items)]
  BY DEF LinkedAs
<1>2. ToSet(t) = ToSet(s) \cup {item}
  <2> HIDE DEF s
  <2>1. k \in 0 .. Len(s)
    BY DEF s
  <2> QED
    BY <1>1, <2>1, InsertAtSet
<1>3. new[p] = t /\ \A q \in AllLists : q # p => new[q] = lists[q]
  BY <1>1
<1> HIDE DEF t, new
<1>4. CASE i = item
  <2>1. Where(new, gone, i) = 1
    BY <1>2, <1>3, <1>4 DEF Where
  <2>2. Where(lists, gone, i) = 0
    BY <1>4 DEF Where
  <2> QED
    BY <1>4, <2>1, <2>2 DEF new, t
<1>5. CASE i # item
  <2>1. \A q \in AllLists : i \in ToSet(new[q]) <=> i \in ToSet(lists[q])
    BY <1>2, <1>3, <1>5
  <2>2. Where(new, gone, i) = Where(lists, gone, i)
    BY <2>1 DEF Where
  <2>3. Where(lists, gone, i) \in {0, 1}
    BY DEF Where
  <2> QED
    BY <1>5, <2>2, <2>3 DEF new, t
<1> QED
  BY <1>4, <1>5

LEMMA OneItem ==
  ASSUME NEW item \in Items
  PROVE  <<item>> \in Seq(Items) /\ <<item>> # <<>> /\ Distinct(<<item>>) /\ ToSet(<<item>>) = {item}
  BY DEF Distinct, ToSet

LEMMA RemoveStep ==
  ASSUME NEW lists, NEW gone, State(lists, gone), DoRemove, CallsFit
  PROVE  \E p \in AllLists, item \in Items : \E k \in 1 .. Len(lists[p]) : \E l2 :
            /\ Head(program).plt = p /\ Head(program).item = item /\ lists[p][k] = item
            /\ l2 = [lists EXCEPT ![p] = RemoveAt(lists[p], k)] /\ gone = <<>>
            /\ operations' = RemovalRecorded(p, <<item>>)
            /\ State(l2, <<>>)'
<1> DEFINE c == Head(program)
<1>1. /\ program # <<>> /\ c.do = "remove" /\ program' = Tail(program)
      /\ Removed(c.plt, c.item, c.hold)
      /\ UNCHANGED <<current, adding, adder, grouping, stacks, pending, base, failed, budget>>
  BY DEF DoRemove, Call
<1>2. /\ ProgramFits(program') /\ c \in CallT /\ Forgets(gone)'
      /\ \A i : Running(program', i) = Running(program, i)
      /\ \A i : /\ Gives(program, i) = Give(c, i) + Gives(program', i)
                /\ Give(c, i) \in Int /\ Gives(program', i) \in Int
      /\ ToSet(program') \subseteq ToSet(program)
      /\ gone = <<>>
  BY <1>1, Popped
<1>3. PICK p \in AllLists, item \in Items, hold \in {-1, 0, 1} :
         c.plt = p /\ c.item = item /\ c.hold = hold
  BY <1>1, <1>2, Kinds DEF RemoveT
<1>4. item \in ToSet(lists[p])
  <2>1. item \in ToSet(Tracks(p))
    BY <1>1, <1>3 DEF CallsFit, Call
  <2> QED
    BY <1>3, <2>1, StateSound
<1>5. /\ LinkedAs(lists, <<>>) /\ lists[p] \in Seq(Items) /\ Typed
      /\ prev \in [Items -> Pointer]
  BY <1>2, <1>3 DEF State, LinkedAs, LinkTypes
<1> HIDE DEF c
<1>6. PICK k \in 1 .. Len(lists[p]) : lists[p][k] = item
  BY <1>4, <1>5, ListPosition
<1> DEFINE new == [lists EXCEPT ![p] = RemoveAt(lists[p], k)]
<1>7. LinkedAs(new, <<>>)'
  <2>1. Removed(p, lists[p][k], hold)
    BY <1>1, <1>3, <1>6
  <2> QED
    BY <1>3, <1>5, <2>1, RemovalKeepsLists
<1>8. \A i : Where(new, <<>>, i) = Where(lists, <<>>, i) - (IF i = item THEN 1 ELSE 0)
  BY <1>3, <1>5, <1>6, WhereRemoved
<1> HIDE DEF new
<1>9. /\ operations' = RemovalRecorded(p, <<item>>)
      /\ refs' = [i \in Items |-> refs[i] + RemovalRefs(p, <<item>>, i)
                                  + (IF i = item THEN hold - 1 ELSE 0)]
  BY <1>1, <1>3 DEF Removed
<1>10. ASSUME NEW i \in Items
       PROVE  /\ operations' \in Seq(OpT)
              /\ Held(operations', i) = Held(operations, i) + RemovalRefs(p, <<item>>, i)
              /\ Held(operations, i) \in Nat /\ RemovalRefs(p, <<item>>, i) \in Nat
  BY <1>3, <1>5, <1>9, OneItem, RemovalHeld DEF Typed
<1>11. refs' \in [Items -> Int]
  <2>1. ASSUME NEW i \in Items
        PROVE  refs[i] + RemovalRefs(p, <<item>>, i) + (IF i = item THEN hold - 1 ELSE 0) \in Int
    <3>0. refs \in [Items -> Int]
      BY <1>5 DEF Typed
    <3>1. refs[i] \in Int /\ RemovalRefs(p, <<item>>, i) \in Int
      <4> DEFINE r == RemovalRefs(p, <<item>>, i)
      <4>1. r \in Nat
        BY <1>10
      <4> HIDE DEF r
      <4>2. r \in Int
        BY <4>1
      <4> QED
        BY <3>0, <4>2 DEF r
    <3>2. (IF i = item THEN hold - 1 ELSE 0) \in Int
      OBVIOUS
    <3> QED
      BY <3>1, <3>2
  <2> QED
    BY <1>9, <2>1
<1>12. Typed'
  BY <1>1, <1>3, <1>5, <1>10, <1>11 DEF Typed, stacks
<1>13. Adding'
  BY <1>1, <1>2, AddingKept DEF State
<1>14. ASSUME NEW i \in Items
       PROVE  refs'[i] = Where(new, <<>>, i)
                + (Held(operations', i) + Held(OperationsOf(undo_stack'), i)
                   + Held(OperationsOf(redo_stack'), i))
                + Running(program', i) + Gives(program', i)
  <2> DEFINE r == RemovalRefs(p, <<item>>, i)
             h == Held(operations, i)
             u == Held(OperationsOf(undo_stack), i)
             d == Held(OperationsOf(redo_stack), i)
             x == Running(program, i)
             g == Gives(program, i)
             g2 == Gives(program', i)
             w == Where(lists, <<>>, i)
             n == refs[i]
  <2>1. /\ h \in Nat /\ u \in Nat /\ d \in Nat /\ x \in Nat /\ g \in Nat /\ w \in {0, 1}
        /\ r \in Nat /\ g2 \in Int /\ hold \in {-1, 0, 1}
    BY <1>2, <1>3, <1>10, StateCounts
  <2>2. n = w + (h + u + d) + x + g
    BY <1>2 DEF State, Balanced, HeldByUndo
  <2>3. g = (IF i = item THEN -hold ELSE 0) + g2
    BY <1>1, <1>2, <1>3 DEF Give
  <2>4. /\ refs'[i] = n + r + (IF i = item THEN hold - 1 ELSE 0)
        /\ Where(new, <<>>, i) = w - (IF i = item THEN 1 ELSE 0)
        /\ Held(operations', i) = h + r
        /\ Held(OperationsOf(undo_stack'), i) = u
        /\ Held(OperationsOf(redo_stack'), i) = d
        /\ Running(program', i) = x
    BY <1>1, <1>2, <1>8, <1>9, <1>10 DEF stacks
  <2> HIDE DEF r, h, u, d, x, g, g2, w, n
  <2>5. n + r + (IF i = item THEN hold - 1 ELSE 0)
          = (w - (IF i = item THEN 1 ELSE 0)) + (h + r + u + d) + x + g2
    BY <2>1, <2>2, <2>3
  <2> QED
    BY <2>4, <2>5 DEF g2
<1>15. State(new, <<>>)'
  BY <1>2, <1>7, <1>12, <1>13, <1>14, Assembled
<1>16. c.plt = p /\ c.item = item /\ lists[p][k] = item /\ new = [lists EXCEPT ![p] = RemoveAt(lists[p], k)]
  BY <1>3, <1>6 DEF new
<1> QED
  BY <1>2, <1>9, <1>15, <1>16 DEF c

(* An item that was in no list is inserted.                                *)
LEMMA InsertedState ==
  ASSUME NEW lists, NEW gone, State(lists, gone), NEW p \in AllLists,
         NEW item \in Items, item \notin ToSet(gone), \A q \in AllLists : item \notin ToSet(lists[q]),
         NEW after \in ToSet(lists[p]) \cup {NULL}, NEW release \in {0, 1},
         Inserted(p, after, item, release),
         UNCHANGED <<current, adding, grouping, stacks, base, failed>>,
         pending' = pending \/ pending' \in BOOLEAN,
         adder' \in [after : Pointer, left : 0 .. CLI_FILES], budget' \in 0 .. BUDGET,
         ProgramFits(program'), Forgets(gone)', Adding',
         \A i : Running(program', i) = Running(program, i),
         \A i : Gives(program, i) = (IF i = item THEN release ELSE 0) + Gives(program', i)
  PROVE  \E k \in 0 .. Len(lists[p]) : \E l2 :
            /\ after = IF k = 0 THEN NULL ELSE lists[p][k]
            /\ l2 = [lists EXCEPT ![p] = InsertAt(lists[p], k + 1, item)]
            /\ State(l2, gone)'
<1>1. /\ LinkedAs(lists, gone) /\ lists[p] \in Seq(Items) /\ Typed
  BY DEF State, LinkedAs
<1>2. PICK k \in 0 .. Len(lists[p]) : after = IF k = 0 THEN NULL ELSE lists[p][k]
  <2>0. Len(lists[p]) \in Nat
    BY <1>1, LenProperties
  <2>1. CASE after = NULL
    <3>1. 0 \in 0 .. Len(lists[p])
      BY <2>0
    <3> QED
      BY <2>1, <3>1
  <2>2. CASE after # NULL
    <3>1. PICK k \in 1 .. Len(lists[p]) : lists[p][k] = after
      BY <1>1, <2>2, ListPosition
    <3>2. k \in 0 .. Len(lists[p]) /\ k # 0
      BY <2>0
    <3> QED
      BY <3>1, <3>2
  <2> QED
    BY <2>1, <2>2
<1> DEFINE new == [lists EXCEPT ![p] = InsertAt(lists[p], k + 1, item)]
<1>3. LinkedAs(new, gone)'
  <2>1. Inserted(p, IF k = 0 THEN NULL ELSE lists[p][k], item, release)
    BY <1>2
  <2> QED
    BY <1>1, <2>1, InsertionKeepsLists
<1>4. \A i : Where(new, gone, i) = Where(lists, gone, i) + (IF i = item THEN 1 ELSE 0)
  BY <1>1, <1>2, WhereInserted
<1> HIDE DEF new
<1>5. /\ operations' = InsertionRecorded(p, <<item>>)
      /\ refs' = [i \in Items |-> refs[i] + InsertionRefs(p, <<item>>, i)
                                  + (IF i = item THEN 1 - release ELSE 0)]
  BY DEF Inserted
<1>6. ASSUME NEW i \in Items
      PROVE  /\ operations' \in Seq(OpT)
             /\ Held(operations', i) = Held(operations, i) + InsertionRefs(p, <<item>>, i)
             /\ Held(operations, i) \in Nat /\ InsertionRefs(p, <<item>>, i) \in Nat
  BY <1>1, <1>5, OneItem, InsertionHeld DEF Typed
<1>7. refs' \in [Items -> Int]
  <2>1. ASSUME NEW i \in Items
        PROVE  refs[i] + InsertionRefs(p, <<item>>, i) + (IF i = item THEN 1 - release ELSE 0) \in Int
    <3>0. refs \in [Items -> Int]
      BY <1>1 DEF Typed
    <3>1. refs[i] \in Int /\ InsertionRefs(p, <<item>>, i) \in Int
      <4> DEFINE r == InsertionRefs(p, <<item>>, i)
      <4>1. r \in Nat
        BY <1>6
      <4> HIDE DEF r
      <4>2. r \in Int
        BY <4>1
      <4> QED
        BY <3>0, <4>2 DEF r
    <3>2. (IF i = item THEN 1 - release ELSE 0) \in Int
      OBVIOUS
    <3> QED
      BY <3>1, <3>2
  <2> QED
    BY <1>5, <2>1
<1>8. Typed'
  BY <1>1, <1>6, <1>7 DEF Typed, stacks
<1>9. ASSUME NEW i \in Items
      PROVE  refs'[i] = Where(new, gone, i)
                + (Held(operations', i) + Held(OperationsOf(undo_stack'), i)
                   + Held(OperationsOf(redo_stack'), i))
                + Running(program', i) + Gives(program', i)
  <2> DEFINE r == InsertionRefs(p, <<item>>, i)
             h == Held(operations, i)
             u == Held(OperationsOf(undo_stack), i)
             d == Held(OperationsOf(redo_stack), i)
             x == Running(program, i)
             g == Gives(program, i)
             g2 == Gives(program', i)
             w == Where(lists, gone, i)
             n == refs[i]
  <2>1. /\ h \in Nat /\ u \in Nat /\ d \in Nat /\ x \in Nat /\ g \in Nat /\ w \in {0, 1}
        /\ r \in Nat /\ g2 \in Int
    BY <1>6, StateCounts, GivesKnown DEF ProgramFits
  <2>2. n = w + (h + u + d) + x + g
    BY DEF State, Balanced, HeldByUndo
  <2>3. g = (IF i = item THEN release ELSE 0) + g2
    OBVIOUS
  <2>4. /\ refs'[i] = n + r + (IF i = item THEN 1 - release ELSE 0)
        /\ Where(new, gone, i) = w + (IF i = item THEN 1 ELSE 0)
        /\ Held(operations', i) = h + r
        /\ Held(OperationsOf(undo_stack'), i) = u
        /\ Held(OperationsOf(redo_stack'), i) = d
        /\ Running(program', i) = x
    BY <1>4, <1>5, <1>6 DEF stacks
  <2> HIDE DEF r, h, u, d, x, g, g2, w, n
  <2>5. n + r + (IF i = item THEN 1 - release ELSE 0)
          = (w + (IF i = item THEN 1 ELSE 0)) + (h + r + u + d) + x + g2
    BY <2>1, <2>2, <2>3
  <2> QED
    BY <2>4, <2>5 DEF g2
<1>10. State(new, gone)'
  BY <1>3, <1>8, <1>9, Assembled
<1>11. new = [lists EXCEPT ![p] = InsertAt(lists[p], k + 1, item)]
  BY DEF new
<1> QED
  BY <1>2, <1>10, <1>11

LEMMA InsertStep ==
  ASSUME NEW lists, NEW gone, State(lists, gone), DoInsert, CallsFit
  PROVE  \E p \in AllLists, item \in Items :
         \E after \in ToSet(lists[p]) \cup {NULL}, k \in 0 .. Len(lists[p]) : \E l2 :
            /\ Head(program).plt = p /\ Head(program).item = item /\ Head(program).after = after
            /\ item \notin ToSet(gone) /\ \A q \in AllLists : item \notin ToSet(lists[q])
            /\ after = IF k = 0 THEN NULL ELSE lists[p][k]
            /\ l2 = [lists EXCEPT ![p] = InsertAt(lists[p], k + 1, item)]
            /\ operations' = InsertionRecorded(p, <<item>>)
            /\ failed' = failed
            /\ State(l2, gone)'
<1> DEFINE c == Head(program)
<1>1. /\ program # <<>> /\ c.do = "insert" /\ program' = Tail(program)
      /\ UNCHANGED <<current, adding, adder, grouping, stacks, pending, base, budget>>
  BY DEF DoInsert, Call
<1>2. /\ ProgramFits(program') /\ c \in CallT /\ Forgets(gone)'
      /\ \A i : Running(program', i) = Running(program, i)
      /\ \A i : /\ Gives(program, i) = Give(c, i) + Gives(program', i)
                /\ Give(c, i) \in Int /\ Gives(program', i) \in Int
      /\ ToSet(program') \subseteq ToSet(program)
  BY <1>1, Popped
<1>3. PICK p \in AllLists, item \in Items, after \in Pointer, release \in {0, 1} :
         c.plt = p /\ c.item = item /\ c.after = after /\ c.release = release
  BY <1>1, <1>2, Kinds DEF InsertT
<1>4. /\ \A q \in AllLists : item \notin ToSet(lists[q])
      /\ item \notin ToSet(gone)
      /\ after \in ToSet(lists[p]) \cup {NULL}
  <2>1. /\ c.item \notin Forgotten \cup UNION {ToSet(Tracks(q)) : q \in AllLists}
        /\ c.after \in ToSet(Tracks(c.plt)) \cup {NULL}
    BY <1>1 DEF CallsFit, Call
  <2>2. (\A q \in AllLists : Tracks(q) = lists[q]) /\ Forgotten = ToSet(gone)
    BY StateSound
  <2>3. item \notin Forgotten
    <3> HIDE DEF c
    <3> DEFINE f == Forgotten
               others == UNION {ToSet(Tracks(q)) : q \in AllLists}
    <3>1. c.item \notin f \cup others
      BY <2>1
    <3> HIDE DEF others, f
    <3>2. c.item \notin f
      BY <3>1
    <3> QED
      BY <1>3, <3>2 DEF f
  <2>6. \A q \in AllLists : c.item \notin ToSet(Tracks(q))
    BY <2>1, Zenon
  <2>4. \A q \in AllLists : item \notin ToSet(Tracks(q))
    BY <1>3, <2>6
  <2>5. after \in ToSet(Tracks(p)) \cup {NULL}
    BY <1>3, <2>1
  <2> HIDE DEF c
  <2> QED
    BY <2>2, <2>3, <2>4, <2>5
<1>5. MayInsert(c.item)
  BY <1>3, <1>4 DEF MayInsert, State, LinkedAs
<1>6. Inserted(c.plt, c.after, c.item, c.release) /\ failed' = failed
  BY <1>5 DEF DoInsert
<1>7. Inserted(p, after, item, release)
  BY <1>3, <1>6
<1>8. \A i : Gives(program, i) = (IF i = item THEN release ELSE 0) + Gives(program', i)
  BY <1>1, <1>2, <1>3 DEF Give
<1>9. Adding'
  BY <1>1, <1>2, AddingKept DEF State
<1>10. adder' \in [after : Pointer, left : 0 .. CLI_FILES] /\ budget' \in 0 .. BUDGET
  BY <1>1 DEF State, Typed
<1>11. PICK k \in 0 .. Len(lists[p]) : \E l2 :
          /\ after = IF k = 0 THEN NULL ELSE lists[p][k]
          /\ l2 = [lists EXCEPT ![p] = InsertAt(lists[p], k + 1, item)]
          /\ State(l2, gone)'
  BY <1>1, <1>2, <1>4, <1>6, <1>7, <1>8, <1>9, <1>10, InsertedState
<1>12. operations' = InsertionRecorded(p, <<item>>)
  BY <1>7 DEF Inserted
<1>13. c.plt = p /\ c.item = item /\ c.after = after
  BY <1>3
<1> HIDE DEF c
<1> QED
  BY <1>4, <1>6, <1>11, <1>12, <1>13 DEF c

(* An item that has no reference is in no list.                            *)
LEMMA FreeItem ==
  ASSUME NEW lists, NEW gone, State(lists, gone), NEW new \in Items, refs[new] = 0
  PROVE  /\ \A q \in AllLists : new \notin ToSet(lists[q])
         /\ new \notin ToSet(gone)
<1>1. refs[new] = Where(lists, gone, new) + HeldByUndo(new) + Running(program, new)
                  + Gives(program, new)
  BY DEF State, Balanced
<1>2. /\ Where(lists, gone, new) \in {0, 1} /\ HeldByUndo(new) \in Nat
      /\ Running(program, new) \in Nat /\ Gives(program, new) \in Nat
  BY StateCounts
<1>3. Where(lists, gone, new) = 0
  <2> DEFINE w == Where(lists, gone, new)
             h == HeldByUndo(new)
             r == Running(program, new)
             g == Gives(program, new)
  <2>1. w + h + r + g = 0 /\ w \in {0, 1} /\ h \in Nat /\ r \in Nat /\ g \in Nat
    BY <1>1, <1>2
  <2> HIDE DEF w, h, r, g
  <2>2. w = 0
    BY <2>1
  <2> QED
    BY <2>2 DEF w
<1> QED
  BY <1>3 DEF Where

LEMMA CommandLineFileStep ==
  ASSUME NEW lists, NEW gone, State(lists, gone), CommandLineFile, CallsFit
  PROVE  \E p \in AllLists, item \in Items :
         \E after \in ToSet(lists[p]) \cup {NULL}, k \in 0 .. Len(lists[p]) : \E l2 :
            /\ adding = p
            /\ adder' = [after |-> item, left |-> adder.left - 1]
            /\ item \notin ToSet(gone) /\ \A q \in AllLists : item \notin ToSet(lists[q])
            /\ after = IF k = 0 THEN NULL ELSE lists[p][k]
            /\ l2 = [lists EXCEPT ![p] = InsertAt(lists[p], k + 1, item)]
            /\ operations' = InsertionRecorded(p, <<item>>)
            /\ State(l2, gone)'
<1>1. PICK new \in Items, behind \in {adder.after, tail[adding]} :
         /\ refs[new] = 0
         /\ Inserted(adding, behind, new, 0)
         /\ adder' = [after |-> new, left |-> adder.left - 1]
  BY DEF CommandLineFile
<1>2. /\ adder.left > 0
      /\ UNCHANGED <<current, adding, grouping, stacks, program, base, failed, budget>>
      /\ pending' = pending \/ pending' \in BOOLEAN
  BY DEF CommandLineFile, State, Typed
<1>3. adding \in Lists /\ adder \in [after : Pointer, left : 0 .. CLI_FILES]
  BY <1>2 DEF State, Typed, Adding
<1>4. PICK p \in AllLists : adding = p
  BY <1>3 DEF AllLists
<1>5. behind \in ToSet(lists[p]) \cup {NULL}
  <2>1. adder.after \in ToSet(Tracks(adding)) \cup {NULL}
    BY <1>2 DEF CallsFit
  <2>2. Tracks(p) = lists[p]
    BY StateSound
  <2>3. tail[p] \in ToSet(lists[p]) \cup {NULL}
    <3>1. ChainedBack(prev, lists[p], tail[p]) /\ lists[p] \in Seq(Items)
      BY DEF State, LinkedAs
    <3>2. Len(lists[p]) # 0 => lists[p][Len(lists[p])] \in ToSet(lists[p])
      BY <3>1 DEF ToSet
    <3> QED
      BY <3>1, <3>2 DEF ChainedBack
  <2> QED
    BY <1>1, <1>4, <2>1, <2>2, <2>3
<1>5a. PICK after \in Pointer : after = behind
  BY <1>1, <1>3, <1>4 DEF State, LinkedAs, LinkTypes
<1>5b. UNCHANGED <<current, adding, grouping, stacks, base, failed>> /\ budget' \in 0 .. BUDGET
  BY <1>2 DEF State, Typed
<1>6. new \notin ToSet(gone) /\ \A q \in AllLists : new \notin ToSet(lists[q])
  BY <1>1, FreeItem
<1>7. Inserted(p, after, new, 0)
  BY <1>1, <1>4, <1>5a
<1>8. /\ adder' \in [after : Pointer, left : 0 .. CLI_FILES] /\ budget' \in 0 .. BUDGET
      /\ adder'.left > 0 => adding' \in Lists
  <2>1. adder.left - 1 \in 0 .. CLI_FILES
    BY <1>2, <1>3, PlaylistAssumption
  <2>2. new \in Pointer
    BY DEF Pointer
  <2> QED
    BY <1>1, <1>2, <1>3, <2>1, <2>2 DEF State, Typed
<1>9. adder # NoAdder
  BY <1>2, <1>3 DEF NoAdder
<1>10. Adding'
  BY <1>2, <1>8, <1>9 DEF State, Adding
<1>11. ProgramFits(program') /\ Forgets(gone)' /\ \A i : Running(program', i) = Running(program, i)
  BY <1>2 DEF State, Forgets
<1>12. \A i : Gives(program, i) = (IF i = new THEN 0 ELSE 0) + Gives(program', i)
  <2>1. \A i : Gives(program, i) \in Nat
    BY StateCounts
  <2> QED
    BY <1>2, <2>1
<1>13. PICK k \in 0 .. Len(lists[p]) : \E l2 :
          /\ after = IF k = 0 THEN NULL ELSE lists[p][k]
          /\ l2 = [lists EXCEPT ![p] = InsertAt(lists[p], k + 1, new)]
          /\ State(l2, gone)'
  <2>1. after \in ToSet(lists[p]) \cup {NULL}
    BY <1>5, <1>5a
  <2>2. pending' = pending \/ pending' \in BOOLEAN
    BY <1>2
  <2> QED
    BY <1>5b, <1>6, <1>7, <1>8, <1>10, <1>11, <1>12, <2>1, <2>2, InsertedState
<1>14. operations' = InsertionRecorded(p, <<new>>)
  BY <1>7 DEF Inserted
<1> QED
  BY <1>1, <1>4, <1>5, <1>5a, <1>6, <1>13, <1>14

-----------------------------------------------------------------------------
(* Calls that put others in their place.                                   *)

LEMMA Replaced ==
  ASSUME NEW lists, NEW gone, State(lists, gone), program # <<>>,
         Head(program).do \in {"forget", "move"},
         NEW u \in Seq(CallT), HoldsReleased(u),
         \A n \in 1 .. Len(u) : u[n].do \notin {"finish", "files_end"} /\ (u[n].do = "forget" => n = 1),
         program' = u \o Tail(program)
  PROVE  /\ ProgramFits(program') /\ Head(program) \in CallT
         /\ \A i : Running(program', i) = Running(program, i)
         /\ \A i : /\ Gives(program', i) = Gives(u, i) + Gives(program, i)
                   /\ Gives(u, i) \in Int /\ Gives(program, i) \in Int
         /\ \A c \in ToSet(program') : c \in ToSet(u) \/ (c \in ToSet(program) /\ c.do # "forget")
         /\ ToSet(u) \subseteq ToSet(program')
         /\ Adding /\ adding' = adding /\ adder' = adder => Adding'
<1> DEFINE t == Tail(program)
           h == Head(program)
<1>1. /\ ProgramFits(program) /\ ProgramFits(t) /\ h \in CallT /\ t \in Seq(CallT)
      /\ ToSet(program) = {h} \cup ToSet(t)
      /\ \A n \in 1 .. Len(t) : t[n].do # "forget"
  BY RestFits DEF State
<1>2. ProgramFits(u \o t)
  <2> HIDE DEF t
  <2> QED
    BY <1>1, BothFit
<1>3. ToSet(u \o t) = ToSet(u) \cup ToSet(t)
  <2> HIDE DEF t
  <2> QED
    BY <1>1, SetOfBoth
<1>4. /\ \A c \in ToSet(u) : c.do \notin {"finish", "files_end"}
      /\ \A c \in ToSet(t) : c.do # "forget"
  <2>1. DOMAIN u = 1 .. Len(u) /\ DOMAIN t = 1 .. Len(t)
    BY <1>1, LenProperties
  <2> QED
    BY <1>1, <2>1 DEF ToSet
<1>5. FinishesOf(program) = FinishesOf(program')
  BY <1>1, <1>3, <1>4 DEF FinishesOf
<1>6. \A i : Running(program', i) = Running(program, i)
  BY <1>5, RunningSame
<1>7. ASSUME NEW i
      PROVE  /\ Gives(program', i) = Gives(u, i) + Gives(program, i)
             /\ Gives(u, i) \in Int /\ Gives(program, i) \in Int
  <2>1. Gives(program, i) = Give(h, i) + Gives(t, i) /\ Gives(t, i) \in Int
    BY <1>1, GivesFirst DEF ProgramFits
  <2>2. Give(h, i) = 0
    BY DEF Give
  <2>3. Gives(u \o t, i) = Gives(u, i) + Gives(t, i) /\ Gives(u, i) \in Int
    <3> HIDE DEF t
    <3> QED
      BY <1>1, GivesBoth
  <2> QED
    BY <2>1, <2>2, <2>3
<1>8. Adding /\ adding' = adding /\ adder' = adder => Adding'
  BY <1>1, <1>3, <1>4 DEF Adding
<1> QED
  BY <1>1, <1>2, <1>3, <1>4, <1>6, <1>7, <1>8

LEMMA RestKnown ==
  \A s \in Seq(Items) : s # <<>> =>
      /\ Head(s) = s[1] /\ Len(s) \in Nat /\ Len(s) > 0
      /\ Tail(s) \in Seq(Items) /\ Len(Tail(s)) = Len(s) - 1
      /\ \A n \in 1 .. Len(s) - 1 : Tail(s)[n] = s[n + 1]
      /\ ToSet(s) = {Head(s)} \cup ToSet(Tail(s))
  BY FirstAndRest

(* The links after the first item was forgotten.                           *)
LetGo(item) ==
    /\ UNCHANGED <<head, tail, count>>
    /\ next' = [next EXCEPT ![item] = NULL]
    /\ prev' = IF next[item] = NULL THEN prev ELSE [prev EXCEPT ![next[item]] = NULL]

LEMMA RestForgotten ==
  ASSUME NEW lists, NEW gone, LinkedAs(lists, gone), gone # <<>>,
         NEW item, item = gone[1], LetGo(item)
  PROVE  /\ LinkedAs(lists, Tail(gone))'
         /\ Tail(gone) # <<>> => next[item] # NULL /\ Tail(gone)[1] = next[item] /\ next[item] \in Items
         /\ Tail(gone) = <<>> => next[item] = NULL
         /\ \A i : Where(lists, Tail(gone), i) = Where(lists, gone, i) - (IF i = item THEN 1 ELSE 0)
<1> USE DEF LetGo
<1> DEFINE t == Tail(gone)
           l == Len(gone)
<1>1. /\ gone \in Seq(Items) /\ Distinct(gone)
      /\ Chained(next, gone, gone[1]) /\ ChainedBack(prev, gone, gone[l])
      /\ \A p \in AllLists : ToSet(lists[p]) \cap ToSet(gone) = {}
      /\ LinkTypes
  BY DEF LinkedAs, Forgetting
<1>2. /\ l \in Nat /\ l > 0 /\ t \in Seq(Items) /\ Len(t) = l - 1
      /\ \A n \in 1 .. l - 1 : t[n] = gone[n + 1]
      /\ ToSet(gone) = {item} \cup ToSet(t)
      /\ \A n \in 1 .. l : gone[n] \in Items /\ gone[n] # NULL /\ gone[n] \in ToSet(gone)
  <2>1. /\ l \in Nat /\ l > 0 /\ t \in Seq(Items) /\ Len(t) = l - 1
        /\ \A n \in 1 .. l - 1 : t[n] = gone[n + 1]
        /\ ToSet(gone) = {item} \cup ToSet(t)
    <3>1. /\ Head(gone) = gone[1] /\ Len(gone) \in Nat /\ Len(gone) > 0
          /\ Tail(gone) \in Seq(Items) /\ Len(Tail(gone)) = Len(gone) - 1
          /\ \A n \in 1 .. Len(gone) - 1 : Tail(gone)[n] = gone[n + 1]
          /\ ToSet(gone) = {Head(gone)} \cup ToSet(Tail(gone))
      <4>1. gone \in Seq(Items)
        BY <1>1
      <4>2. gone # <<>>
        OBVIOUS
      <4> QED
        BY <4>1, <4>2, RestKnown, Zenon
    <3> QED
      BY <3>1
  <2>2. \A n \in 1 .. l : gone[n] \in Items /\ n \in DOMAIN gone
    BY <1>1, LenProperties, ElementOfSeq
  <2> QED
    BY <2>1, <2>2, Constants DEF ToSet
<1>3. /\ \A n \in 1 .. l : next[gone[n]] = IF n = l THEN NULL ELSE gone[n + 1]
      /\ \A n \in 1 .. l : prev[gone[n]] = IF n = 1 THEN NULL ELSE gone[n - 1]
      /\ \A m, n \in 1 .. l : gone[m] = gone[n] => m = n
  BY <1>1 DEF Chained, ChainedBack, Distinct
<1> HIDE DEF t, l
<1>4. 1 \in 1 .. l /\ next[item] = (IF l = 1 THEN NULL ELSE gone[2]) /\ prev[item] = NULL
      /\ item \in Items
  BY <1>2, <1>3
<1>5. /\ t # <<>> => l # 1 /\ 2 \in 1 .. l /\ 1 \in 1 .. l - 1 /\ t[1] = gone[2]
      /\ t = <<>> => l = 1
  <2>1. t = <<>> <=> l - 1 = 0
    BY <1>2, EmptySeq
  <2>2. l # 1 => 2 \in 1 .. l /\ 1 \in 1 .. l - 1 /\ 1 + 1 = 2
    BY <1>2
  <2> QED
    BY <1>2, <2>1, <2>2
<1>6. /\ t # <<>> => next[item] # NULL /\ t[1] = next[item] /\ next[item] \in Items
      /\ t = <<>> => next[item] = NULL
  BY <1>2, <1>4, <1>5
<1>7. /\ \A i \in Items : next'[i] = IF i = item THEN NULL ELSE next[i]
      /\ \A i \in Items : prev'[i] = IF i = next[item] THEN NULL ELSE prev[i]
      /\ next' \in [Items -> Pointer] /\ prev' \in [Items -> Pointer]
  <2>1. next \in [Items -> Pointer] /\ prev \in [Items -> Pointer] /\ NULL \in Pointer
    BY <1>1 DEF LinkTypes, Pointer
  <2>2. CASE next[item] = NULL
    BY <2>1, <2>2, Constants
  <2>3. CASE next[item] # NULL
    <3>1. next[item] \in Items
      BY <1>5, <1>6, <2>3
    <3> DEFINE n == next[item]
    <3>2. prev' = [prev EXCEPT ![n] = NULL]
      BY <2>3
    <3> HIDE DEF n
    <3>3. \A i \in Items : prev'[i] = IF i = n THEN NULL ELSE prev[i]
      BY <2>1, <3>2
    <3>4. prev' \in [Items -> Pointer]
      BY <2>1, <3>2
    <3> QED
      BY <2>1, <3>3, <3>4 DEF n
  <2> QED
    BY <2>2, <2>3
<1>8. item \in ToSet(gone) /\ (next[item] \in ToSet(gone) \/ next[item] = NULL)
  BY <1>2, <1>4, <1>5
<1>9. ASSUME NEW p \in AllLists
      PROVE  Chained(next', lists[p], head[p]) /\ ChainedBack(prev', lists[p], tail[p])
  <2>1. /\ lists[p] \in Seq(Items)
        /\ Chained(next, lists[p], head[p]) /\ ChainedBack(prev, lists[p], tail[p])
    BY DEF LinkedAs
  <2>2. ToSet(lists[p]) \subseteq Items /\ NULL \notin ToSet(lists[p])
    BY <2>1, LenProperties, Constants DEF ToSet
  <2>3. \A i \in ToSet(lists[p]) : next'[i] = next[i] /\ prev'[i] = prev[i]
    BY <1>1, <1>7, <1>8, <2>2
  <2>4. \A n2, p2 : (\A i \in ToSet(lists[p]) : n2[i] = next[i] /\ p2[i] = prev[i])
            => Chained(n2, lists[p], head[p]) /\ ChainedBack(p2, lists[p], tail[p])
    BY <2>1, OthersLinked
  <2> QED
    BY <2>3, <2>4
<1>10. Distinct(t)
  <2> SUFFICES ASSUME NEW m \in 1 .. l - 1, NEW n \in 1 .. l - 1, t[m] = t[n] PROVE m = n
    BY <1>2 DEF Distinct
  <2>1. m + 1 \in 1 .. l /\ n + 1 \in 1 .. l
    BY <1>2
  <2>2. gone[m + 1] = gone[n + 1]
    BY <1>2
  <2>3. m + 1 = n + 1
    BY <1>3, <2>1, <2>2
  <2> QED
    BY <1>2, <2>3
<1>11. ASSUME t # <<>>
       PROVE  Chained(next', t, t[1]) /\ ChainedBack(prev', t, t[Len(t)])
  <2>1. Len(t) = l - 1 /\ l - 1 # 0 /\ l - 1 \in Nat
    BY <1>2, <1>5, <1>11
  <2>2. ASSUME NEW n \in 1 .. l - 1
        PROVE  /\ next'[t[n]] = IF n = l - 1 THEN NULL ELSE t[n + 1]
               /\ prev'[t[n]] = IF n = 1 THEN NULL ELSE t[n - 1]
    <3>1. /\ n + 1 \in 1 .. l /\ n + 1 # 1 /\ (n + 1) - 1 = n /\ (n + 1 = l <=> n = l - 1)
          /\ (n # l - 1 => n + 1 \in 1 .. l - 1) /\ (n # 1 => n - 1 \in 1 .. l - 1 /\ (n - 1) + 1 = n)
          /\ (n + 1 = 2 <=> n = 1)
      BY <1>2
    <3>2. t[n] = gone[n + 1] /\ t[n] \in Items /\ t[n] # item
      BY <1>2, <1>3, <1>4, <3>1
    <3>3. t[n] = next[item] <=> n = 1
      BY <1>3, <1>4, <1>5, <1>11, <3>1, <3>2
    <3>4. next'[t[n]] = IF n = l - 1 THEN NULL ELSE t[n + 1]
      BY <1>2, <1>3, <1>7, <3>1, <3>2
    <3>5. prev'[t[n]] = IF n = 1 THEN NULL ELSE t[n - 1]
      BY <1>2, <1>3, <1>7, <3>1, <3>2, <3>3
    <3> QED
      BY <3>4, <3>5
  <2> QED
    BY <2>1, <2>2 DEF Chained, ChainedBack
<1>12. \A p \in AllLists : ToSet(lists[p]) \cap ToSet(t) = {}
  BY <1>1, <1>2
<1>13. ASSUME NEW i \in Items, \A p \in AllLists : i \notin ToSet(lists[p]), i \notin ToSet(t)
       PROVE  next'[i] = NULL /\ prev'[i] = NULL
  <2>1. CASE i = item
    BY <1>4, <1>7, <2>1
  <2>2. CASE i # item
    <3>1. i \notin ToSet(gone)
      BY <1>2, <1>13, <2>2
    <3>2. next[i] = NULL /\ prev[i] = NULL
      BY <1>13, <3>1 DEF LinkedAs
    <3> QED
      BY <1>7, <2>2, <3>2
  <2> QED
    BY <2>1, <2>2
<1>14. LinkedAs(lists, t)'
  <2>1. LinkTypes'
    BY <1>1, <1>7 DEF LinkTypes
  <2>2. Forgetting(lists, t)'
    BY <1>2, <1>10, <1>11, <1>12 DEF Forgetting, t
  <2>3. \A p \in AllLists : /\ Distinct(lists[p]) /\ Chained(next', lists[p], head'[p])
                            /\ ChainedBack(prev', lists[p], tail'[p])
                            /\ count'[p] = Len(lists[p])
    BY <1>9 DEF LinkedAs
  <2> QED
    BY <1>13, <2>1, <2>2, <2>3 DEF LinkedAs, t
<1>15. ASSUME NEW i
       PROVE  Where(lists, t, i) = Where(lists, gone, i) - (IF i = item THEN 1 ELSE 0)
  <2>1. item \notin ToSet(t)
    <3> SUFFICES ASSUME item \in ToSet(t) PROVE FALSE
      OBVIOUS
    <3>1. PICK n \in 1 .. l - 1 : t[n] = item
      BY <1>2, ListPosition
    <3>2. n + 1 \in 1 .. l /\ n + 1 # 1
      BY <1>2
    <3> QED
      BY <1>2, <1>3, <1>4, <3>1, <3>2
  <2>2. CASE i = item
    <3>1. Where(lists, t, i) = 0 /\ Where(lists, gone, i) = 1
      BY <1>1, <1>8, <2>1, <2>2 DEF Where
    <3> QED
      BY <2>2, <3>1
  <2>3. CASE i # item
    <3>1. i \in ToSet(t) <=> i \in ToSet(gone)
      BY <1>2, <2>3
    <3>2. Where(lists, t, i) = Where(lists, gone, i) /\ Where(lists, gone, i) \in {0, 1}
      BY <3>1 DEF Where
    <3> QED
      BY <2>3, <3>2
  <2> QED
    BY <2>2, <2>3
<1> QED
  BY <1>6, <1>14, <1>15 DEF t

LEMMA ForgetStep ==
  ASSUME NEW lists, NEW gone, State(lists, gone), DoForget
  PROVE  \E p \in AllLists, item \in Items, n \in Pointer :
            /\ Head(program).plt = p /\ gone # <<>> /\ item = gone[1]
            /\ operations' = RemovalRecorded(p, <<item>>)
            /\ program' = (IF n = NULL THEN <<>> ELSE <<ForgetCall(p, n)>>) \o Tail(program)
            /\ State(lists, Tail(gone))'
<1> DEFINE c == Head(program)
<1>1. /\ program # <<>> /\ c.do = "forget"
      /\ UNCHANGED <<head, tail, count, current, adding, adder, grouping, stacks, pending,
                     base, failed, budget>>
  BY DEF DoForget, Call
<1>2. c \in CallT /\ c \in ToSet(program)
  BY <1>1, RestFits DEF State
<1>3. PICK p \in AllLists, item \in Items : c.plt = p /\ c.item = item
  BY <1>1, <1>2, Kinds DEF ForgetT
<1>4. gone # <<>> /\ item = gone[1]
  BY <1>1, <1>2, <1>3 DEF State, Forgets
<1>5. PICK n : n = next[item]
  BY SMTT(30)
<1> DEFINE u == IF n = NULL THEN <<>> ELSE <<ForgetCall(p, n)>>
           rest == Tail(gone)
<1>6. /\ operations' = RemovalRecorded(p, <<item>>)
      /\ refs' = [i \in Items |-> refs[i] + RemovalRefs(p, <<item>>, i)
                                  - (IF i = item THEN 1 ELSE 0)]
      /\ next' = [next EXCEPT ![item] = NULL]
      /\ prev' = IF n = NULL THEN prev ELSE [prev EXCEPT ![n] = NULL]
      /\ program' = u \o Tail(program)
  BY <1>3, <1>5 DEF DoForget
<1>7. /\ LinkedAs(lists, rest)'
      /\ rest # <<>> => n # NULL /\ rest[1] = n /\ n \in Items
      /\ rest = <<>> => n = NULL
      /\ \A i : Where(lists, rest, i) = Where(lists, gone, i) - (IF i = item THEN 1 ELSE 0)
  <2>1. LetGo(item)
    BY <1>1, <1>5, <1>6 DEF LetGo
  <2>2. LinkedAs(lists, gone)
    BY DEF State
  <2>3. /\ LinkedAs(lists, rest)'
        /\ rest # <<>> => next[item] # NULL /\ rest[1] = next[item] /\ next[item] \in Items
        /\ rest = <<>> => next[item] = NULL
        /\ \A i : Where(lists, rest, i) = Where(lists, gone, i) - (IF i = item THEN 1 ELSE 0)
    <3>1. gone # <<>>
      BY <1>4
    <3>2. item = gone[1]
      BY <1>4
    <3> HIDE DEF rest, u, c
    <3>3. /\ LinkedAs(lists, Tail(gone))'
          /\ Tail(gone) # <<>> => next[item] # NULL /\ Tail(gone)[1] = next[item] /\ next[item] \in Items
          /\ Tail(gone) = <<>> => next[item] = NULL
          /\ \A i : Where(lists, Tail(gone), i) = Where(lists, gone, i) - (IF i = item THEN 1 ELSE 0)
      BY <2>1, <2>2, <3>1, <3>2, RestForgotten
    <3> QED
      BY <3>3 DEF rest
  <2> QED
    BY <1>5, <2>3
<1> HIDE DEF rest
<1>8. /\ u \in Seq(CallT) /\ HoldsReleased(u)
      /\ \A k \in 1 .. Len(u) : u[k].do \notin {"finish", "files_end"} /\ (u[k].do = "forget" => k = 1)
      /\ \A d \in ToSet(u) : d.do = "forget" => rest # <<>> /\ d.item = rest[1]
      /\ rest # <<>> => \E d \in ToSet(u) : d.do = "forget"
      /\ \A i : Gives(u, i) = 0
  <2>1. CASE n = NULL
    <3>1. u = <<>> /\ rest = <<>>
      BY <1>7, <2>1
    <3> QED
      BY <3>1, GivesFew DEF HoldsReleased, ToSet
  <2>2. CASE n # NULL
    <3> DEFINE f == ForgetCall(p, n)
    <3>1. rest # <<>> /\ n \in Items /\ rest[1] = n
      BY <1>7, <2>2
    <3>2. f \in CallT /\ f.do = "forget" /\ f.item = n
      BY <3>1, CallsMade
    <3>3. u = <<f>>
      BY <2>2
    <3> HIDE DEF f, u
    <3>4. u \in Seq(CallT) /\ Len(u) = 1 /\ u[1] = f /\ ToSet(u) = {f}
      BY <3>2, <3>3 DEF ToSet
    <3>5. \A i : Gives(u, i) = 0
      BY <3>2, <3>3, GivesFew DEF Give
    <3> QED
      BY <3>1, <3>2, <3>4, <3>5 DEF HoldsReleased
  <2> QED
    BY <2>1, <2>2
<1> HIDE DEF u, c
<1>9. /\ ProgramFits(program') /\ Adding'
      /\ \A i : Running(program', i) = Running(program, i)
      /\ \A i : /\ Gives(program', i) = Gives(u, i) + Gives(program, i)
                /\ Gives(u, i) \in Int /\ Gives(program, i) \in Int
      /\ \A d \in ToSet(program') : d \in ToSet(u) \/ (d \in ToSet(program) /\ d.do # "forget")
      /\ ToSet(u) \subseteq ToSet(program')
  <2>1. Head(program).do \in {"forget", "move"} /\ Adding
    BY <1>1 DEF c, State
  <2> QED
    BY <1>1, <1>6, <1>8, <2>1, Replaced
<1>10. Forgets(rest)'
  <2>1. \A d \in ToSet(program') : d.do = "forget" => rest # <<>> /\ d.item = rest[1]
    BY <1>8, <1>9
  <2>2. rest # <<>> => \E d \in ToSet(program') : d.do = "forget"
    BY <1>8, <1>9
  <2> QED
    BY <2>1, <2>2 DEF Forgets, rest
<1>11. ASSUME NEW i \in Items
       PROVE  /\ operations' \in Seq(OpT)
              /\ Held(operations', i) = Held(operations, i) + RemovalRefs(p, <<item>>, i)
              /\ Held(operations, i) \in Nat /\ RemovalRefs(p, <<item>>, i) \in Nat
  BY <1>6, OneItem, RemovalHeld DEF State, Typed, LinkedAs, LinkTypes
<1>12. refs' \in [Items -> Int]
  <2>1. ASSUME NEW i \in Items
        PROVE  refs[i] + RemovalRefs(p, <<item>>, i) - (IF i = item THEN 1 ELSE 0) \in Int
    <3> DEFINE r == RemovalRefs(p, <<item>>, i)
    <3>1. refs[i] \in Int
      BY DEF State, Typed
    <3>2. r \in Nat
      BY <1>11
    <3> HIDE DEF r
    <3>3. refs[i] + r - (IF i = item THEN 1 ELSE 0) \in Int
      BY <3>1, <3>2
    <3> QED
      BY <3>3 DEF r
  <2> QED
    BY <1>6, <2>1
<1>13. Typed'
  BY <1>1, <1>3, <1>11, <1>12 DEF State, Typed, stacks
<1>14. ASSUME NEW i \in Items
       PROVE  refs'[i] = Where(lists, rest, i)
                + (Held(operations', i) + Held(OperationsOf(undo_stack'), i)
                   + Held(OperationsOf(redo_stack'), i))
                + Running(program', i) + Gives(program', i)
  <2> DEFINE r == RemovalRefs(p, <<item>>, i)
             h == Held(operations, i)
             v == Held(OperationsOf(undo_stack), i)
             d == Held(OperationsOf(redo_stack), i)
             x == Running(program, i)
             g == Gives(program, i)
             w == Where(lists, gone, i)
             m == refs[i]
  <2>1. /\ h \in Nat /\ v \in Nat /\ d \in Nat /\ x \in Nat /\ g \in Nat /\ w \in {0, 1}
        /\ r \in Nat
    BY <1>11, StateCounts
  <2>2. m = w + (h + v + d) + x + g
    BY DEF State, Balanced, HeldByUndo
  <2>3. /\ refs'[i] = m + r - (IF i = item THEN 1 ELSE 0)
        /\ Where(lists, rest, i) = w - (IF i = item THEN 1 ELSE 0)
        /\ Held(operations', i) = h + r
        /\ Held(OperationsOf(undo_stack'), i) = v
        /\ Held(OperationsOf(redo_stack'), i) = d
        /\ Running(program', i) = x /\ Gives(program', i) = 0 + g
    BY <1>1, <1>6, <1>7, <1>8, <1>9, <1>11 DEF stacks
  <2> HIDE DEF r, h, v, d, x, g, w, m
  <2>4. m + r - (IF i = item THEN 1 ELSE 0)
          = (w - (IF i = item THEN 1 ELSE 0)) + (h + r + v + d) + x + (0 + g)
    BY <2>1, <2>2
  <2> QED
    BY <2>3, <2>4
<1>15. State(lists, rest)'
  BY <1>7, <1>9, <1>10, <1>13, <1>14, Assembled DEF rest
<1>16. program' = (IF n = NULL THEN <<>> ELSE <<ForgetCall(p, n)>>) \o Tail(program)
  BY <1>6 DEF u
<1>17. n \in Pointer
  BY <1>7 DEF Pointer
<1>18. State(lists, Tail(gone))'
  BY <1>15 DEF rest
<1>19. operations' = RemovalRecorded(p, <<item>>) /\ Head(program).plt = p
  BY <1>3, <1>6 DEF c
<1> HIDE DEF c, u, rest
<1> QED
  BY <1>4, <1>16, <1>17, <1>18, <1>19

(* A step that touches neither lists nor references nor records: what the  *)
(* program gives back is the same.                                         *)
LEMMA MoveStep ==
  ASSUME NEW lists, NEW gone, State(lists, gone), DoMove
  PROVE  State(lists, gone)'
<1> DEFINE c == Head(program)
<1>1. /\ program # <<>> /\ c.do = "move"
      /\ UNCHANGED <<links, refs, current, adding, adder, operations, grouping, stacks, pending,
                     base, failed, budget>>
  BY DEF DoMove, Call
<1>2. c \in CallT /\ LinkTypes
  BY <1>1, RestFits DEF State, LinkedAs
<1>3. PICK to \in AllLists, from \in AllLists, it \in Pointer, idx \in Nat,
           indexes \in Seq(Nat), drop_after \in Pointer :
        /\ c.to = to /\ c.from = from /\ c.it = it /\ c.idx = idx
        /\ c.indexes = indexes /\ c.drop_after = drop_after
  BY <1>1, <1>2, Kinds DEF MoveT
<1>4. Typed'
  BY <1>1 DEF State, Typed, stacks
<1>5. CASE program' = Tail(program)
  <2>1. Adding'
    BY <1>1, <1>5, Popped, AddingKept DEF State
  <2> QED
    BY <1>1, <1>4, <1>5, <2>1, QuietCall
<1>6. ASSUME NEW u \in Seq(CallT), program' = u \o Tail(program), HoldsReleased(u),
             \A n \in 1 .. Len(u) : u[n].do \notin {"finish", "files_end", "forget"},
             \A i : Gives(u, i) = 0
      PROVE  State(lists, gone)'
  <2>1. /\ ProgramFits(program') /\ Adding'
        /\ \A i : Running(program', i) = Running(program, i)
        /\ \A i : /\ Gives(program', i) = Gives(u, i) + Gives(program, i)
                  /\ Gives(u, i) \in Int /\ Gives(program, i) \in Int
        /\ \A d \in ToSet(program') : d \in ToSet(u) \/ (d \in ToSet(program) /\ d.do # "forget")
    <3>1. Head(program).do \in {"forget", "move"} /\ Adding
      BY <1>1 DEF State
    <3> QED
      BY <1>1, <1>6, <3>1, Replaced
  <2>2. \A d \in ToSet(program) : d.do # "forget"
    <3>1. ProgramFits(program)
      BY DEF State
    <3>2. /\ ToSet(program) = {c} \cup ToSet(Tail(program)) /\ Tail(program) \in Seq(CallT)
          /\ \A n \in 1 .. Len(Tail(program)) : Tail(program)[n].do # "forget"
      BY <1>1, <3>1, RestFits
    <3>3. DOMAIN Tail(program) = 1 .. Len(Tail(program))
      BY <3>2, LenProperties
    <3> QED
      BY <1>1, <3>2, <3>3 DEF ToSet
  <2>3. \A d \in ToSet(u) : d.do # "forget"
    BY <1>6, LenProperties DEF ToSet
  <2>4. Forgets(gone)'
    BY <2>1, <2>2, <2>3 DEF State, Forgets
  <2>5. LinkedAs(lists, gone)'
    BY <1>1, LinksKept DEF State
  <2>6. \A i : Gives(program', i) = Gives(program, i)
    BY <1>6, <2>1
  <2>7. \A i \in Items : refs'[i] = Where(lists, gone, i)
            + (Held(operations', i) + Held(OperationsOf(undo_stack'), i)
               + Held(OperationsOf(redo_stack'), i))
            + Running(program', i) + Gives(program', i)
    BY <1>1, <2>1, <2>6 DEF State, Balanced, HeldByUndo, stacks
  <2> QED
    BY <1>4, <2>1, <2>4, <2>5, <2>7, Assembled
<1>7. CASE /\ it # NULL /\ indexes # <<>> /\ idx # Head(indexes)
  <2> DEFINE m == MoveCall(to, from, next[it], idx + 1, indexes, drop_after)
  <2>1. next[it] \in Pointer /\ idx + 1 \in Nat
    BY <1>2, <1>7 DEF LinkTypes, Pointer
  <2>2. m \in CallT /\ m.do = "move"
    BY <2>1, MoveMade
  <2>3. program' = <<m>> \o Tail(program)
    BY <1>3, <1>7 DEF DoMove
  <2> HIDE DEF m
  <2>4. \A i : Gives(<<m>>, i) = 0
    BY <2>2, GivesFew DEF Give
  <2>5. /\ <<m>> \in Seq(CallT) /\ HoldsReleased(<<m>>)
        /\ \A n \in 1 .. Len(<<m>>) : <<m>>[n].do \notin {"finish", "files_end", "forget"}
    BY <2>2 DEF HoldsReleased
  <2> QED
    BY <1>6, <2>3, <2>4, <2>5
<1>8. CASE /\ it # NULL /\ indexes # <<>> /\ idx = Head(indexes)
  <2> DEFINE a == IF drop_after = it THEN prev[it] ELSE drop_after
             r == RemoveCall(from, it, 1)
             s == InsertCall(to, a, it, 1)
             m == MoveCall(to, from, next[it], idx + 1, Tail(indexes), it)
             u == <<r, s, m>>
  <2>1. next[it] \in Pointer /\ idx + 1 \in Nat /\ a \in Pointer /\ it \in Items
    BY <1>2, <1>8 DEF LinkTypes, Pointer
  <2>2. Tail(indexes) \in Seq(Nat)
    BY <1>8, FirstAndRest
  <2>3. m \in CallT /\ m.do = "move"
    <3> HIDE DEF a
    <3> QED
      BY <2>1, <2>2, MoveMade, ZenonT(30)
  <2>4. /\ r \in CallT /\ r.do = "remove" /\ r.item = it /\ r.hold = 1
        /\ s \in CallT /\ s.do = "insert" /\ s.item = it /\ s.release = 1
    <3> HIDE DEF a
    <3> QED
      BY <2>1, CallsMade
  <2>5. program' = u \o Tail(program)
    BY <1>3, <1>8 DEF DoMove
  <2> HIDE DEF a, r, s, m
  <2>6. u \in Seq(CallT) /\ Len(u) = 3 /\ u[1] = r /\ u[2] = s /\ u[3] = m
    BY <2>3, <2>4
  <2>7. u = <<r>> \o (<<s>> \o <<m>>)
    BY <2>3, <2>4, JoinedOnes
  <2> HIDE DEF u
  <2>8. ASSUME NEW i PROVE Gives(u, i) = 0
    <3> DEFINE x == <<r>>
               y == <<s>>
               z == <<m>>
    <3>1. /\ Gives(x, i) = Give(r, i) /\ Gives(y, i) = Give(s, i) /\ Gives(z, i) = Give(m, i)
          /\ x \in Seq(CallT) /\ y \in Seq(CallT) /\ z \in Seq(CallT)
      BY <2>3, <2>4, GivesOne
    <3>2. Give(r, i) + (Give(s, i) + Give(m, i)) = 0
      BY <2>3, <2>4 DEF Give
    <3> HIDE DEF x, y, z
    <3>3. /\ Gives(y \o z, i) = Gives(y, i) + Gives(z, i) /\ y \o z \in Seq(CallT)
      BY <3>1, GivesBoth
    <3> DEFINE v == y \o z
    <3>6. v \in Seq(CallT)
      BY <3>3
    <3> HIDE DEF v
    <3>4. Gives(x \o v, i) = Gives(x, i) + Gives(v, i)
      BY <3>1, <3>6, GivesBoth
    <3>5. u = x \o v
      BY <2>7 DEF x, y, z, v
    <3> QED
      BY <3>1, <3>2, <3>3, <3>4, <3>5 DEF v
  <2>9. HoldsReleased(u)
    <3> SUFFICES ASSUME NEW n \in 1 .. 3, u[n].do = "remove", u[n].hold = 1
                 PROVE  /\ n + 1 \in 1 .. 3 /\ u[n + 1].do = "insert"
                        /\ u[n + 1].item = u[n].item /\ u[n + 1].release = 1
      BY <2>6 DEF HoldsReleased
    <3>1. n = 1
      BY <2>3, <2>4, <2>6
    <3> QED
      BY <2>4, <2>6, <3>1
  <2>10. \A n \in 1 .. Len(u) : u[n].do \notin {"finish", "files_end", "forget"}
    BY <2>3, <2>4, <2>6
  <2> QED
    BY <1>6, <2>5, <2>6, <2>8, <2>9, <2>10
<1> QED
  BY <1>3, <1>5, <1>7, <1>8 DEF DoMove

-----------------------------------------------------------------------------
(* undo_process, and the end of an undo.                                   *)

LEMMA EntryMade ==
  ASSUME Typed
  PROVE  Entry(operations) \in EntryT /\ Entry(operations).operations = operations
  BY DEF Typed, Entry, EntryT

LEMMA NothingHeld ==
  ASSUME NEW i
  PROVE  Held(<<>>, i) = 0 /\ Held(OperationsOf(<<>>), i) = 0
  BY HeldFew, OperationsFew

LEMMA ContentsKnown ==
  ASSUME NEW lists, NEW gone, State(lists, gone)
  PROVE  Contents \in [Lists -> Seq(Items)]
<1>1. \A p \in Lists : Tracks(p) = lists[p] /\ lists[p] \in Seq(Items)
  BY StateSound DEF AllLists, State, LinkedAs
<1> QED
  BY <1>1 DEF Contents

LEMMA ListsKnown ==
  ASSUME NEW lists, NEW gone, State(lists, gone)
  PROVE  /\ LinkTypes /\ Typed
         /\ current \in Lists /\ current \in AllLists /\ Incoming \in AllLists
         /\ adding # NULL => adding \in Lists /\ adding \in AllLists
         /\ \A p \in AllLists : /\ Tracks(p) = lists[p] /\ Tracks(p) \in Seq(Items)
                               /\ head[p] \in Pointer /\ tail[p] \in Pointer
<1>1. LinkTypes /\ Typed /\ lists \in [AllLists -> Seq(Items)]
  BY DEF State, LinkedAs
<1>2. \A p \in AllLists : Tracks(p) = lists[p]
  BY StateSound
<1>3. \A p \in AllLists : head[p] \in Pointer /\ tail[p] \in Pointer
  BY <1>1 DEF LinkTypes
<1>4. /\ current \in Lists /\ current \in AllLists /\ Incoming \in AllLists
      /\ adding # NULL => adding \in Lists /\ adding \in AllLists
  BY <1>1 DEF Typed, AllLists
<1> QED
  BY <1>1, <1>2, <1>3, <1>4

LEMMA FinishStep ==
  ASSUME NEW lists, NEW gone, State(lists, gone), DoFinish
  PROVE  State(lists, gone)'
<1> DEFINE c == Head(program)
<1>1. /\ program # <<>> /\ c.do = "finish" /\ program' = Tail(program)
      /\ operations' = <<>> /\ grouping' = FALSE /\ base' = Contents
      /\ refs' = Released(<<c>>)
      /\ UNCHANGED <<links, current, adding, adder, pending, failed, budget>>
  BY DEF DoFinish, Call
<1>2. /\ ProgramFits(program) /\ ProgramFits(program') /\ c \in CallT
      /\ ToSet(program) = {c} \cup ToSet(program')
      /\ \A n \in 1 .. Len(program') : program'[n].do # "finish"
  BY <1>1, RestFits DEF State
<1>3. c \in FinishT /\ c.operations \in Seq(OpT) /\ c.type \in {"undo", "redo"}
  BY <1>1, <1>2, Kinds DEF FinishT
<1>4. FinishesOf(program) = {c} /\ FinishesOf(program') = {}
  <2>1. DOMAIN program' = 1 .. Len(program')
    BY <1>2, LenProperties DEF ProgramFits
  <2>2. \A d \in ToSet(program') : d.do # "finish"
    BY <1>2, <2>1 DEF ToSet
  <2> QED
    BY <1>1, <1>2, <2>2 DEF FinishesOf
<1>5. \A i : /\ Running(program, i) = Held(c.operations, i) /\ Running(program', i) = 0
             /\ Held(c.operations, i) \in Nat /\ OperationsOf(<<c>>) = c.operations
  BY <1>3, <1>4, RunningOne, RunningNone
<1>6. \A i : Gives(program, i) = Gives(program', i)
  <2>1. \A i : Gives(program, i) = Give(c, i) + Gives(program', i) /\ Gives(program', i) \in Int
    BY <1>1, <1>2, GivesFirst DEF ProgramFits
  <2>2. \A i : Give(c, i) = 0
    BY <1>1 DEF Give
  <2> QED
    BY <2>1, <2>2
<1>7. Forgets(gone)' /\ Adding'
  BY <1>1, <1>2, AddingKept DEF State, Forgets
<1>8. LinkedAs(lists, gone)'
  BY <1>1, LinksKept DEF State
<1> HIDE DEF c
<1>9. refs' = [i \in Items |-> refs[i] - Held(c.operations, i)]
  BY <1>1, <1>5 DEF Released
<1>10. /\ undo_stack' \in Seq(EntryT) /\ redo_stack' \in Seq(EntryT)
       /\ \A i : Held(OperationsOf(undo_stack'), i) + Held(OperationsOf(redo_stack'), i)
                   = HeldByUndo(i)
  <2>1. /\ Typed /\ undo_stack \in Seq(EntryT) /\ redo_stack \in Seq(EntryT)
    BY DEF State, Typed
  <2>2. \A i : /\ Held(operations, i) \in Nat /\ Held(OperationsOf(undo_stack), i) \in Nat
               /\ Held(OperationsOf(redo_stack), i) \in Nat
    BY StateCounts
  <2>3. CASE operations = <<>>
    <3>1. undo_stack' = undo_stack /\ redo_stack' = redo_stack
      BY <2>3 DEF DoFinish, stacks
    <3>2. \A i : Held(operations, i) = 0
      BY <2>3, NothingHeld
    <3> QED
      BY <2>1, <2>2, <3>1, <3>2 DEF HeldByUndo
  <2>4. CASE operations # <<>> /\ c.type = "undo"
    <3>1. redo_stack' = Append(redo_stack, Entry(operations)) /\ undo_stack' = undo_stack
      BY <2>4 DEF DoFinish, c
    <3>2. /\ redo_stack' \in Seq(EntryT)
          /\ \A i : Held(OperationsOf(redo_stack'), i)
                      = Held(OperationsOf(redo_stack), i) + Held(operations, i)
      BY <2>1, <3>1, EntryMade, StackPushed
    <3> QED
      BY <2>1, <2>2, <3>1, <3>2 DEF HeldByUndo
  <2>5. CASE operations # <<>> /\ c.type # "undo"
    <3>1. undo_stack' = Append(undo_stack, Entry(operations)) /\ redo_stack' = redo_stack
      BY <2>5 DEF DoFinish, c
    <3>2. /\ undo_stack' \in Seq(EntryT)
          /\ \A i : Held(OperationsOf(undo_stack'), i)
                      = Held(OperationsOf(undo_stack), i) + Held(operations, i)
      BY <2>1, <3>1, EntryMade, StackPushed
    <3> QED
      BY <2>1, <2>2, <3>1, <3>2 DEF HeldByUndo
  <2> QED
    BY <2>3, <2>4, <2>5
<1>11. Typed'
  <2>1. refs' \in [Items -> Int]
    <3>1. \A i \in Items : refs[i] - Held(c.operations, i) \in Int
      BY <1>5 DEF State, Typed
    <3> QED
      BY <1>9, <3>1
  <2> QED
    <3>1. base' \in [Lists -> Seq(Items)] /\ operations' \in Seq(OpT)
      BY <1>1, ContentsKnown
    <3>2. Typed
      BY DEF State
    <3> QED
      BY <1>1, <1>10, <2>1, <3>1, <3>2 DEF Typed
<1>12. ASSUME NEW i \in Items
       PROVE  refs'[i] = Where(lists, gone, i)
                + (Held(operations', i) + Held(OperationsOf(undo_stack'), i)
                   + Held(OperationsOf(redo_stack'), i))
                + Running(program', i) + Gives(program', i)
  <2> DEFINE h == HeldByUndo(i)
             u == Held(OperationsOf(undo_stack'), i)
             d == Held(OperationsOf(redo_stack'), i)
             x == Held(c.operations, i)
             g == Gives(program, i)
             w == Where(lists, gone, i)
             m == refs[i]
  <2>1. /\ h \in Nat /\ x \in Nat /\ g \in Nat /\ w \in {0, 1}
    BY <1>5, StateCounts
  <2>2. u \in Nat /\ d \in Nat
    <3>1. \A s \in Seq(EntryT) : s \in Seq(BearT)
      BY DEF BearT
    <3>2. OperationsOf(undo_stack') \in Seq(OpT) /\ OperationsOf(redo_stack') \in Seq(OpT)
      BY <1>10, <3>1, OperationsOver
    <3> QED
      BY <3>2, HeldOver
  <2>3. m = w + h + x + g
    BY <1>5 DEF State, Balanced
  <2>4. /\ refs'[i] = m - x /\ u + d = h /\ Held(operations', i) = 0
        /\ Running(program', i) = 0 /\ Gives(program', i) = g
    BY <1>1, <1>5, <1>6, <1>9, <1>10, NothingHeld
  <2> HIDE DEF h, u, d, x, g, w, m
  <2>5. m - x = w + (0 + u + d) + 0 + g
    BY <2>1, <2>2, <2>3, <2>4
  <2> QED
    BY <2>4, <2>5 DEF u, d, w
<1> QED
  BY <1>2, <1>7, <1>8, <1>11, <1>12, Assembled

LEMMA EmptyProgram ==
  ASSUME NEW s, s = <<>>
  PROVE  /\ ProgramFits(s) /\ ToSet(s) = {}
         /\ \A i : Running(s, i) = 0 /\ Gives(s, i) = 0
<1>1. s \in Seq(CallT) /\ Len(s) = 0 /\ ToSet(s) = {}
  BY DEF ToSet
<1>2. ProgramFits(s)
  BY <1>1 DEF ProgramFits, HoldsReleased
<1>3. FinishesOf(s) = {}
  BY <1>1 DEF FinishesOf
<1> QED
  BY <1>1, <1>2, <1>3, RunningNone, GivesFew

LEMMA ProcessStep ==
  ASSUME NEW lists, NEW gone, State(lists, gone), Process
  PROVE  State(lists, gone)'
<1>1. /\ program = <<>> /\ pending' = FALSE /\ operations' = <<>> /\ grouping' = FALSE
      /\ base' = Contents
      /\ UNCHANGED <<links, current, adding, adder, program, failed, budget>>
  BY DEF Process
<1>2. /\ ProgramFits(program') /\ Forgets(gone)' /\ Adding'
      /\ \A i : /\ Running(program, i) = 0 /\ Gives(program, i) = 0
                /\ Running(program', i) = 0 /\ Gives(program', i) = 0
  BY <1>1, EmptyProgram DEF State, Forgets, Adding
<1>3. LinkedAs(lists, gone)'
  BY <1>1, LinksKept DEF State
<1>4. /\ Typed /\ undo_stack \in Seq(EntryT) /\ redo_stack \in Seq(EntryT)
  BY DEF State, Typed
<1>5. \A i : /\ Held(operations, i) \in Nat /\ Held(OperationsOf(undo_stack), i) \in Nat
             /\ Held(OperationsOf(redo_stack), i) \in Nat /\ Held(operations', i) = 0
  BY <1>1, StateCounts, NothingHeld
<1>6. \A i \in Items : /\ refs[i] = Where(lists, gone, i)
                            + (Held(operations, i) + Held(OperationsOf(undo_stack), i)
                               + Held(OperationsOf(redo_stack), i)) + 0 + 0
                       /\ Where(lists, gone, i) \in {0, 1} /\ refs[i] \in Int
  BY <1>2, <1>4, StateCounts DEF State, Balanced, HeldByUndo, Typed
<1>7. CASE operations = <<>>
  <2>1. undo_stack' = undo_stack /\ redo_stack' = redo_stack /\ refs' = refs
    BY <1>7 DEF Process, stacks
  <2>2. Typed'
    <3>1. base' \in [Lists -> Seq(Items)] /\ operations' \in Seq(OpT)
      BY <1>1, ContentsKnown
    <3> QED
      BY <1>1, <1>4, <2>1, <3>1 DEF Typed
  <2>3. \A i \in Items : refs'[i] = Where(lists, gone, i)
              + (Held(operations', i) + Held(OperationsOf(undo_stack'), i)
                 + Held(OperationsOf(redo_stack'), i))
              + Running(program', i) + Gives(program', i)
    BY <1>1, <1>2, <1>6, <1>7, <2>1
  <2> QED
    BY <1>2, <1>3, <2>2, <2>3, Assembled
<1>8. CASE operations # <<>>
  <2>1. /\ undo_stack' = Append(undo_stack, Entry(operations)) /\ redo_stack' = <<>>
        /\ refs' = Released(redo_stack)
    BY <1>8 DEF Process
  <2>2. /\ undo_stack' \in Seq(EntryT) /\ redo_stack' \in Seq(EntryT)
        /\ \A i : Held(OperationsOf(undo_stack'), i)
                    = Held(OperationsOf(undo_stack), i) + Held(operations, i)
    BY <1>4, <2>1, EntryMade, StackPushed
  <2>3. refs' = [i \in Items |-> refs[i] - Held(OperationsOf(redo_stack), i)]
    BY <2>1 DEF Released
  <2>4. Typed'
    <3>1. \A i \in Items : refs[i] - Held(OperationsOf(redo_stack), i) \in Int
      BY <1>5, <1>6
    <3>2. refs' \in [Items -> Int]
      BY <2>3, <3>1
    <3> QED
      <4>1. base' \in [Lists -> Seq(Items)] /\ operations' \in Seq(OpT)
        BY <1>1, ContentsKnown
      <4> QED
        BY <1>1, <1>4, <2>2, <3>2, <4>1 DEF Typed
  <2>5. ASSUME NEW i \in Items
        PROVE  refs'[i] = Where(lists, gone, i)
              + (Held(operations', i) + Held(OperationsOf(undo_stack'), i)
                 + Held(OperationsOf(redo_stack'), i))
              + Running(program', i) + Gives(program', i)
    <3> DEFINE h == Held(operations, i)
               u == Held(OperationsOf(undo_stack), i)
               d == Held(OperationsOf(redo_stack), i)
               w == Where(lists, gone, i)
               m == refs[i]
    <3>1. h \in Nat /\ u \in Nat /\ d \in Nat /\ w \in {0, 1} /\ m = w + (h + u + d) + 0 + 0
      BY <1>5, <1>6
    <3>2. /\ refs'[i] = m - d /\ Held(OperationsOf(undo_stack'), i) = u + h
          /\ Held(OperationsOf(redo_stack'), i) = 0 /\ Held(operations', i) = 0
          /\ Running(program', i) = 0 /\ Gives(program', i) = 0
      BY <1>2, <1>5, <2>1, <2>2, <2>3, NothingHeld
    <3> HIDE DEF h, u, d, w, m
    <3>3. m - d = w + (0 + (u + h) + 0) + 0 + 0
      BY <3>1
    <3> QED
      BY <3>2, <3>3 DEF w
  <2> QED
    BY <1>2, <1>3, <2>2, <2>4, <2>5, Assembled
<1> QED
  BY <1>7, <1>8

-----------------------------------------------------------------------------
(* Who looks at which list, and who adds files.                            *)

LEMMA Untouched ==
  ASSUME NEW lists, NEW gone, State(lists, gone),
         UNCHANGED <<links, refs, operations, stacks, program>>, Typed', Adding'
  PROVE  State(lists, gone)'
<1>1. LinkedAs(lists, gone)'
  BY LinksKept DEF State
<1>2. \A i \in Items : refs'[i] = Where(lists, gone, i)
              + (Held(operations', i) + Held(OperationsOf(undo_stack'), i)
                 + Held(OperationsOf(redo_stack'), i))
              + Running(program', i) + Gives(program', i)
  BY DEF State, Balanced, HeldByUndo, stacks
<1>3. ProgramFits(program') /\ Forgets(gone)'
  BY DEF State, Forgets
<1> QED
  BY <1>1, <1>2, <1>3, Assembled

LEMMA BudgetSpent ==
  ASSUME Typed, budget > 0, budget' = budget - 1
  PROVE  budget' \in 0 .. BUDGET
  BY PlaylistAssumption DEF Typed

LEMMA ViewStep ==
  ASSUME NEW lists, NEW gone, State(lists, gone),
         Switch \/ AddFiles \/ CommandLine \/ CommandLineEnd
  PROVE  State(lists, gone)'
<1>1. Typed /\ LinkTypes /\ Adding
  BY DEF State, LinkedAs
<1>2. CASE Switch
  <2>1. Typed' /\ UNCHANGED <<links, refs, operations, stacks, program, adding, adder>>
    BY <1>1, <1>2 DEF Switch, Typed, stacks
  <2>2. Adding'
    BY <1>1, <2>1, AddingKept
  <2> QED
    BY <2>1, <2>2, Untouched
<1>3. CASE AddFiles
  <2>1. budget' \in 0 .. BUDGET
    BY <1>1, <1>3, BudgetSpent DEF AddFiles, Edit
  <2>2. Typed' /\ UNCHANGED <<links, refs, operations, stacks, program>>
    BY <1>1, <1>3, <2>1 DEF AddFiles, Edit, Typed, stacks
  <2>3. Adding'
    <3>1. adding = NULL /\ adding' = current /\ adder' = adder /\ program' = program
      BY <1>3 DEF AddFiles
    <3>2. \A c \in ToSet(program') : c.do # "files_end"
      BY <1>1, <3>1 DEF Adding
    <3> QED
      BY <1>1, <3>1, <3>2 DEF Adding, Typed
  <2> QED
    BY <2>2, <2>3, Untouched
<1>4. CASE CommandLine
  <2>1. budget' \in 0 .. BUDGET
    BY <1>1, <1>4, BudgetSpent DEF CommandLine
  <2>2. PICK p \in Lists :
        /\ adding = NULL /\ adding' = p /\ current' = p
        /\ adder' = [after |-> tail[p], left |-> CLI_FILES]
        /\ UNCHANGED <<links, refs, operations, grouping, stacks, pending, program,
                       base, failed>>
    BY <1>4 DEF CommandLine
  <2>3. adder' \in [after : Pointer, left : 0 .. CLI_FILES]
    <3>1. tail[p] \in Pointer /\ CLI_FILES \in 0 .. CLI_FILES
      BY <1>1, PlaylistAssumption DEF LinkTypes, Typed, AllLists
    <3> QED
      BY <2>2, <3>1
  <2>4. Typed'
    BY <1>1, <2>1, <2>2, <2>3 DEF Typed, stacks
  <2>5. Adding'
    <3>1. \A c \in ToSet(program') : c.do # "files_end"
      BY <1>1, <2>2 DEF Adding
    <3> QED
      BY <1>1, <2>2, <3>1 DEF Adding, Typed
  <2> QED
    BY <2>2, <2>4, <2>5, Untouched
<1>5. CASE CommandLineEnd
  <2>1. /\ adder # NoAdder /\ adding' = NULL /\ adder' = NoAdder /\ pending' = TRUE
        /\ UNCHANGED <<links, refs, current, operations, grouping, stacks, program, base,
                       failed, budget>>
    BY <1>5 DEF CommandLineEnd
  <2>2. NoAdder \in [after : Pointer, left : 0 .. CLI_FILES] /\ ~(NoAdder.left > 0)
    BY PlaylistAssumption DEF NoAdder, Pointer
  <2>3. Typed'
    BY <1>1, <2>1, <2>2 DEF Typed, stacks
  <2>4. Adding'
    <3>1. \A c \in ToSet(program') : c.do # "files_end"
      BY <1>1, <2>1 DEF Adding
    <3> QED
      BY <2>1, <2>2, <3>1 DEF Adding
  <2> QED
    BY <2>1, <2>3, <2>4, Untouched
<1> QED
  BY <1>2, <1>3, <1>4, <1>5

-----------------------------------------------------------------------------
(* The programs that the user's actions begin.                             *)

LEMMA NothingGone ==
  ASSUME NEW lists, NEW gone, State(lists, gone), program = <<>>
  PROVE  /\ gone = <<>>
         /\ \A i : Running(program, i) = 0 /\ Gives(program, i) = 0
<1>1. ToSet(program) = {} /\ \A i : Running(program, i) = 0 /\ Gives(program, i) = 0
  BY EmptyProgram
<1>2. gone = <<>>
  BY <1>1 DEF State, Forgets
<1> QED
  BY <1>1, <1>2

LEMMA Begun ==
  ASSUME NEW lists, NEW gone, State(lists, gone), program = <<>>,
         UNCHANGED <<links, operations, stacks, current, adding, adder, grouping, pending, base, failed>>,
         budget' \in 0 .. BUDGET, Adding',
         ProgramFits(program'), \A c \in ToSet(program') : c.do \notin {"forget", "finish"},
         NEW taken \in [Items -> Int], refs' = [i \in Items |-> refs[i] + taken[i]],
         \A i \in Items : Gives(program', i) = taken[i]
  PROVE  State(lists, gone)'
<1>1. gone = <<>> /\ \A i : Running(program, i) = 0 /\ Gives(program, i) = 0
  BY NothingGone
<1>2. LinkedAs(lists, gone)'
  BY LinksKept DEF State
<1>3. Forgets(gone)'
  BY <1>1 DEF Forgets
<1>4. \A i : Running(program', i) = 0
  BY RunningNone DEF FinishesOf
<1>5. Typed'
  <2>1. refs' \in [Items -> Int]
    BY DEF State, Typed
  <2> QED
    BY <2>1 DEF State, Typed, stacks
<1>6. ASSUME NEW i \in Items
      PROVE  refs'[i] = Where(lists, gone, i)
              + (Held(operations', i) + Held(OperationsOf(undo_stack'), i)
                 + Held(OperationsOf(redo_stack'), i))
              + Running(program', i) + Gives(program', i)
  <2> DEFINE h == Held(operations, i)
             u == Held(OperationsOf(undo_stack), i)
             d == Held(OperationsOf(redo_stack), i)
             w == Where(lists, gone, i)
             m == refs[i]
  <2>1. /\ h \in Nat /\ u \in Nat /\ d \in Nat /\ w \in {0, 1} /\ m = w + (h + u + d) + 0 + 0
        /\ taken[i] \in Int
    BY <1>1, StateCounts DEF State, Balanced, HeldByUndo
  <2>2. /\ refs'[i] = m + taken[i]
        /\ Held(operations', i) = h /\ Held(OperationsOf(undo_stack'), i) = u
        /\ Held(OperationsOf(redo_stack'), i) = d
        /\ Running(program', i) = 0 /\ Gives(program', i) = taken[i]
    BY <1>4 DEF stacks
  <2> HIDE DEF h, u, d, w, m
  <2>3. m + taken[i] = w + (h + u + d) + 0 + taken[i]
    BY <2>1
  <2> QED
    BY <2>2, <2>3 DEF w
<1> QED
  BY <1>2, <1>3, <1>5, <1>6, Assembled

LEMMA QuietBegun ==
  ASSUME NEW lists, NEW gone, State(lists, gone), program = <<>>,
         UNCHANGED <<links, operations, stacks, current, adding, adder, grouping, pending, base, failed>>,
         budget > 0, budget' = budget - 1,
         program' \in Seq(QuietT),
         NEW taken \in [Items -> Int], refs' = [i \in Items |-> refs[i] + taken[i]],
         \A i \in Items : Gives(program', i) = taken[i]
  PROVE  State(lists, gone)'
<1>1. budget' \in 0 .. BUDGET
  BY BudgetSpent DEF State
<1>2. ProgramFits(program') /\ \A c \in ToSet(program') : c.do \notin {"forget", "finish", "files_end"}
  BY QuietFits, LenProperties DEF ToSet
<1>3. Adding'
  BY <1>2 DEF State, Adding
<1> QED
  BY <1>1, <1>2, <1>3, Begun

(* Calls that take and release no reference.                               *)
PlainT == {c \in QuietT : /\ ~(c.do = "remove" /\ c.hold = -1)
                          /\ ~(c.do = "insert" /\ c.release = 1)}

LEMMA PlainGives ==
  ASSUME NEW s \in Seq(PlainT)
  PROVE  s \in Seq(QuietT) /\ s \in Seq(CallT) /\ \A i : Gives(s, i) = 0
<1>1. s \in Seq(QuietT) /\ s \in Seq(CallT)
  BY DEF PlainT, QuietT
<1>2. DOMAIN s = 1 .. Len(s) /\ \A n \in 1 .. Len(s) : s[n] \in PlainT
  BY LenProperties, ElementOfSeq
<1>3. ASSUME NEW i PROVE Gives(s, i) = 0
  <2>1. /\ {n \in DOMAIN s : s[n] \in Drops(i)} = {}
        /\ {n \in DOMAIN s : s[n] \in Releases(i)} = {}
        /\ {n \in DOMAIN s : s[n] \in Holds(i)} = {}
    BY <1>2 DEF PlainT, QuietT, Drops, Releases, Holds
  <2>2. Counted(s, Drops(i)) = 0 /\ Counted(s, Releases(i)) = 0 /\ Counted(s, Holds(i)) = 0
    BY <2>1, FS_EmptySet DEF Counted
  <2> QED
    BY <2>2 DEF Gives
<1> QED
  BY <1>1, <1>3

LEMMA PlainMade ==
  /\ \A p \in Lists \cup {NULL} : Group(p) \in PlainT
  /\ EndGroup \in PlainT /\ Changed \in PlainT
  /\ \A p \in AllLists, s \in Seq(Items) : UnlockCall(p, s) \in PlainT
  /\ \A p \in AllLists, i \in Items : RemoveCall(p, i, 0) \in PlainT
  /\ \A p \in AllLists, i \in Items, a \in Pointer : InsertCall(p, a, i, 0) \in PlainT
<1>1. \A c \in CallT : c.do \in {"group", "end_group", "changed", "unlock", "move"} => c \in PlainT
  BY DEF PlainT, QuietT
<1>2. ASSUME NEW p \in AllLists, NEW i \in Items PROVE RemoveCall(p, i, 0) \in PlainT
  <2> DEFINE c == RemoveCall(p, i, 0)
  <2>1. c \in CallT /\ c.do = "remove" /\ c.hold = 0
    BY CallsMade
  <2> HIDE DEF c
  <2>2. c \in PlainT
    BY <2>1 DEF PlainT, QuietT
  <2> QED
    BY <2>2 DEF c
<1>3. ASSUME NEW p \in AllLists, NEW i \in Items, NEW a \in Pointer
      PROVE  InsertCall(p, a, i, 0) \in PlainT
  <2> DEFINE c == InsertCall(p, a, i, 0)
  <2>1. c \in CallT /\ c.do = "insert" /\ c.release = 0
    BY CallsMade
  <2> HIDE DEF c
  <2>2. c \in PlainT
    BY <2>1 DEF PlainT, QuietT
  <2> QED
    BY <2>2 DEF c
<1> QED
  BY <1>1, <1>2, <1>3, CallsMade

LEMMA PerformPlain ==
  ASSUME NEW o \in OpT
  PROVE  Perform(o) \in Seq(PlainT)
<1> DEFINE p == o.plt
           s == o.items
           a == <<Group(p)>>
           r == RemoveCalls(p, s, 0)
           n == InsertCalls(p, o.position, s)
           b == IF o.perform = "remove" THEN r ELSE n
           c == <<EndGroup>>
<1>1. p \in Lists /\ p \in AllLists /\ s \in Seq(Items) /\ o.position \in Pointer
  BY RefdKnown DEF AllLists
<1>2. DOMAIN s = 1 .. Len(s) /\ Len(s) \in Nat /\ \A k \in 1 .. Len(s) : s[k] \in Items /\ s[k] \in Pointer
  BY <1>1, LenProperties, ElementOfSeq DEF Pointer
<1>3. a \in Seq(PlainT) /\ c \in Seq(PlainT)
  BY <1>1, PlainMade
<1>4. r \in Seq(PlainT)
  <2>1. \A k \in 1 .. Len(s) : RemoveCall(p, s[k], 0) \in PlainT
    BY <1>1, <1>2, PlainMade
  <2>2. r = [k \in 1 .. Len(s) |-> RemoveCall(p, s[k], 0)]
    BY <1>2 DEF RemoveCalls
  <2>3. r \in [1 .. Len(s) -> PlainT]
    BY <2>1, <2>2
  <2> HIDE DEF r
  <2> QED
    BY <1>2, <2>3
<1>5. n \in Seq(PlainT)
  <2> DEFINE from(k) == IF k = 1 THEN o.position ELSE s[k - 1]
  <2>1. \A k \in 1 .. Len(s) : from(k) \in Pointer
    <3> TAKE k \in 1 .. Len(s)
    <3>1. k # 1 => k - 1 \in 1 .. Len(s)
      BY <1>2
    <3> QED
      BY <1>1, <1>2, <3>1
  <2>2. n = [k \in 1 .. Len(s) |-> InsertCall(p, from(k), s[k], 0)]
    BY <1>2 DEF InsertCalls
  <2> HIDE DEF from
  <2>3. \A k \in 1 .. Len(s) : InsertCall(p, from(k), s[k], 0) \in PlainT
    BY <1>1, <1>2, <2>1, PlainMade
  <2>4. n \in [1 .. Len(s) -> PlainT]
    BY <2>2, <2>3
  <2> HIDE DEF n
  <2> QED
    BY <1>2, <2>4
<1>6. Perform(o) = a \o b \o c
  BY DEF Perform
<1>7. b \in Seq(PlainT)
  BY <1>4, <1>5
<1> HIDE DEF a, b, c
<1>8. a \o b \in Seq(PlainT)
  BY <1>3, <1>7, ConcatProperties
<1>9. (a \o b) \o c \in Seq(PlainT)
  BY <1>3, <1>8, ConcatProperties
<1> QED
  BY <1>6, <1>9

(* The program of an undo takes and gives no references but those of its   *)
(* operations.                                                             *)
LEMMA Executed ==
  ASSUME NEW type \in {"undo", "redo"}, NEW entry \in EntryT
  PROVE  /\ ProgramFits(Execute(type, entry))
         /\ \A c \in ToSet(Execute(type, entry)) : c.do \notin {"forget", "files_end"}
         /\ \A i : /\ Running(Execute(type, entry), i) = Held(entry.operations, i)
                   /\ Gives(Execute(type, entry), i) = 0
<1> DEFINE ops == entry.operations
           ss == [n \in DOMAIN ops |-> Perform(ops[n])]
           u == Joined(ss)
           f == Finish(type, entry)
           t == <<f, Changed>>
           x == Execute(type, entry)
<1>1. ops \in Seq(OpT) /\ f \in FinishT /\ f \in CallT /\ f.do = "finish" /\ f.operations = ops
  BY FinishMade
<1>2. u \in Seq(PlainT)
  <2>1. DOMAIN ops = 1 .. Len(ops) /\ Len(ops) \in Nat /\ \A n \in 1 .. Len(ops) : ops[n] \in OpT
    BY <1>1, LenProperties, ElementOfSeq
  <2> DEFINE l == Len(ops)
             B == Seq(PlainT)
  <2>2. ss \in [1 .. l -> B]
    BY <2>1, PerformPlain
  <2> HIDE DEF ss, l, B
  <2>3. ss \in Seq(B)
    BY <2>1, <2>2 DEF l
  <2>4. ss \in Seq(Seq(PlainT))
    BY <2>3 DEF B
  <2> QED
    BY <2>4, JoinedBoth
<1>3. /\ u \in Seq(CallT) /\ HoldsReleased(u) /\ \A i : Gives(u, i) = 0
      /\ \A n \in 1 .. Len(u) : u[n].do \notin {"forget", "finish", "files_end"}
  <2> HIDE DEF u
  <2> QED
    BY <1>2, PlainGives, QuietFits
<1>4. x = u \o t
  BY DEF Execute
<1>5. Changed \in CallT /\ Changed.do = "changed"
  BY CallsMade
<1> HIDE DEF f, u, ss, ops, x
<1>6. /\ t \in Seq(CallT) /\ Len(t) = 2 /\ t[1] = f /\ t[2] = Changed /\ ToSet(t) = {f, Changed}
  BY <1>1, <1>5 DEF ToSet
<1>7. \A i : Gives(t, i) = 0
  <2> TAKE i
  <2> DEFINE a == <<f>>
             b == <<Changed>>
  <2>1. /\ Gives(a, i) = Give(f, i) /\ Gives(b, i) = Give(Changed, i)
        /\ a \in Seq(CallT) /\ b \in Seq(CallT)
    BY <1>1, <1>5, GivesOne
  <2>2. Give(f, i) = 0 /\ Give(Changed, i) = 0
    BY <1>1, <1>5 DEF Give
  <2>3. t = a \o b
    OBVIOUS
  <2> HIDE DEF a, b, t
  <2>4. Gives(a \o b, i) = Gives(a, i) + Gives(b, i)
    BY <2>1, GivesBoth
  <2> QED
    BY <2>1, <2>2, <2>3, <2>4
<1> HIDE DEF t
<1>8. ProgramFits(t)
  <2>1. \A n \in 1 .. Len(t) : n = 1 \/ n = 2
    BY <1>6
  <2>2. HoldsReleased(t)
    BY <1>1, <1>5, <1>6, <2>1 DEF HoldsReleased
  <2>3. \A n \in 1 .. Len(t) : /\ t[n].do \notin {"forget", "files_end"}
                               /\ t[n].do = "finish" => n = Len(t) - 1
    BY <1>1, <1>5, <1>6, <2>1
  <2> QED
    BY <1>6, <2>2, <2>3 DEF ProgramFits
<1>9. ProgramFits(x)
  <2>1. ProgramFits(u \o t)
    <3>1. \A n \in 1 .. Len(u) : u[n].do \notin {"finish", "files_end"} /\ u[n].do # "forget"
      BY <1>3
    <3>2. \A n \in 1 .. Len(u) : u[n].do = "forget" => n = 1 \/ (n = 2 /\ u[1].do = "group")
      BY <3>1
    <3>3. \A n \in 1 .. Len(u) : u[n].do \notin {"finish", "files_end"}
      BY <3>1
    <3>4. u \in Seq(CallT) /\ HoldsReleased(u)
      BY <1>3
    <3>5. (\A n \in 1 .. Len(t) : t[n].do # "forget")
      BY <1>1, <1>5, <1>6
    <3>6. \/ \A n \in 1 .. Len(u) : u[n].do \notin {"finish", "files_end"}
          \/ \A n \in 1 .. Len(t) : t[n].do # "forget"
      BY <3>3
    <3> QED
      BY <1>8, <3>2, <3>3, <3>4, <3>5, BothFit, Zenon
  <2> QED
    BY <1>4, <2>1
<1>10. ToSet(x) = ToSet(u) \cup {f, Changed}
  BY <1>3, <1>4, <1>6, SetOfBoth
<1>11. \A c \in ToSet(u) : c.do \notin {"forget", "finish", "files_end"}
  BY <1>3, LenProperties DEF ToSet
<1>12. FinishesOf(x) = {f}
  BY <1>1, <1>5, <1>10, <1>11 DEF FinishesOf
<1>13. \A i : Running(x, i) = Held(ops, i)
  BY <1>1, <1>12, RunningOne
<1>14. \A i : Gives(x, i) = 0
  BY <1>3, <1>4, <1>6, <1>7, GivesBoth
<1>15. \A c \in ToSet(x) : c.do \notin {"forget", "files_end"}
  BY <1>1, <1>5, <1>10, <1>11
<1> QED
  BY <1>9, <1>13, <1>14, <1>15 DEF x, ops

LEMMA UndoStep ==
  ASSUME NEW lists, NEW gone, State(lists, gone), Undo \/ Redo
  PROVE  State(lists, gone)'
<1>1. /\ program = <<>>
      /\ UNCHANGED <<links, refs, current, adding, adder, operations, grouping, pending, base,
                     failed, budget>>
  BY DEF Undo, Redo, Idle
<1>2. undo_stack \in Seq(EntryT) /\ redo_stack \in Seq(EntryT) /\ Adding /\ Typed
  BY DEF State, Typed
<1>3. PICK type \in {"undo", "redo"}, entry \in EntryT :
        /\ program' = Execute(type, entry)
        /\ undo_stack' \in Seq(EntryT) /\ redo_stack' \in Seq(EntryT)
        /\ \A i : /\ Held(OperationsOf(undo_stack), i) + Held(OperationsOf(redo_stack), i)
                       = Held(OperationsOf(undo_stack'), i) + Held(OperationsOf(redo_stack'), i)
                         + Held(entry.operations, i)
                  /\ Held(entry.operations, i) \in Nat
                  /\ Held(OperationsOf(undo_stack'), i) \in Nat
                  /\ Held(OperationsOf(redo_stack'), i) \in Nat
  <2>0. \A i : Held(OperationsOf(undo_stack), i) \in Nat /\ Held(OperationsOf(redo_stack), i) \in Nat
    BY StateCounts
  <2>1. CASE Undo
    <3>1. /\ undo_stack # <<>> /\ undo_stack' = Front(undo_stack) /\ redo_stack' = redo_stack
          /\ program' = Execute("undo", Last(undo_stack))
      BY <2>1 DEF Undo
    <3>2. /\ undo_stack' \in Seq(EntryT) /\ Last(undo_stack) \in EntryT
          /\ Last(undo_stack).operations \in Seq(OpT)
          /\ OperationsOf(undo_stack') \in Seq(OpT)
          /\ \A i : Held(OperationsOf(undo_stack), i)
                      = Held(OperationsOf(undo_stack'), i) + Held(Last(undo_stack).operations, i)
      BY <1>2, <3>1, StackPopped
    <3>3. \A i : /\ Held(Last(undo_stack).operations, i) \in Nat
                 /\ Held(OperationsOf(undo_stack'), i) \in Nat
      BY <3>2, HeldOver
    <3>4. PICK entry \in EntryT : entry = Last(undo_stack)
      BY <3>2
    <3>5. \A i : Held(OperationsOf(undo_stack), i) + Held(OperationsOf(redo_stack), i)
                   = Held(OperationsOf(undo_stack'), i) + Held(OperationsOf(redo_stack'), i)
                     + Held(entry.operations, i)
      BY <2>0, <3>1, <3>2, <3>3, <3>4
    <3> QED
      BY <1>2, <2>0, <3>1, <3>2, <3>3, <3>4, <3>5
  <2>2. CASE Redo
    <3>1. /\ redo_stack # <<>> /\ redo_stack' = Front(redo_stack) /\ undo_stack' = undo_stack
          /\ program' = Execute("redo", Last(redo_stack))
      BY <2>2 DEF Redo
    <3>2. /\ redo_stack' \in Seq(EntryT) /\ Last(redo_stack) \in EntryT
          /\ Last(redo_stack).operations \in Seq(OpT)
          /\ OperationsOf(redo_stack') \in Seq(OpT)
          /\ \A i : Held(OperationsOf(redo_stack), i)
                      = Held(OperationsOf(redo_stack'), i) + Held(Last(redo_stack).operations, i)
      BY <1>2, <3>1, StackPopped
    <3>3. \A i : /\ Held(Last(redo_stack).operations, i) \in Nat
                 /\ Held(OperationsOf(redo_stack'), i) \in Nat
      BY <3>2, HeldOver
    <3>4. PICK entry \in EntryT : entry = Last(redo_stack)
      BY <3>2
    <3>5. \A i : Held(OperationsOf(undo_stack), i) + Held(OperationsOf(redo_stack), i)
                   = Held(OperationsOf(undo_stack'), i) + Held(OperationsOf(redo_stack'), i)
                     + Held(entry.operations, i)
      BY <2>0, <3>1, <3>2, <3>3, <3>4
    <3> QED
      BY <1>2, <2>0, <3>1, <3>2, <3>3, <3>4, <3>5
  <2> QED
    BY <2>1, <2>2
<1>4. /\ ProgramFits(program')
      /\ \A c \in ToSet(program') : c.do \notin {"forget", "files_end"}
      /\ \A i : Running(program', i) = Held(entry.operations, i) /\ Gives(program', i) = 0
  BY <1>3, Executed
<1>5. gone = <<>> /\ \A i : Running(program, i) = 0 /\ Gives(program, i) = 0
  BY <1>1, NothingGone
<1>6. Forgets(gone)' /\ Adding'
  BY <1>1, <1>2, <1>4, <1>5 DEF Forgets, Adding
<1>7. LinkedAs(lists, gone)'
  BY <1>1, LinksKept DEF State
<1>8. Typed'
  BY <1>1, <1>2, <1>3 DEF Typed
<1>9. ASSUME NEW i \in Items
      PROVE  refs'[i] = Where(lists, gone, i)
              + (Held(operations', i) + Held(OperationsOf(undo_stack'), i)
                 + Held(OperationsOf(redo_stack'), i))
              + Running(program', i) + Gives(program', i)
  <2> DEFINE h == Held(operations, i)
             u == Held(OperationsOf(undo_stack), i)
             d == Held(OperationsOf(redo_stack), i)
             u2 == Held(OperationsOf(undo_stack'), i)
             d2 == Held(OperationsOf(redo_stack'), i)
             e == Held(entry.operations, i)
             w == Where(lists, gone, i)
             m == refs[i]
  <2>1. /\ h \in Nat /\ u \in Nat /\ d \in Nat /\ w \in {0, 1} /\ m = w + (h + u + d) + 0 + 0
        /\ u2 \in Nat /\ d2 \in Nat /\ e \in Nat /\ u + d = u2 + d2 + e
    BY <1>3, <1>5, StateCounts DEF State, Balanced, HeldByUndo
  <2>2. /\ refs'[i] = m /\ Held(operations', i) = h
        /\ Running(program', i) = e /\ Gives(program', i) = 0
    BY <1>1, <1>4
  <2> HIDE DEF h, u, d, w, m, u2, d2, e
  <2>3. m = w + (h + u2 + d2) + e + 0
    BY <2>1
  <2> QED
    BY <2>2, <2>3 DEF u2, d2, w
<1> QED
  BY <1>4, <1>6, <1>7, <1>8, <1>9, Assembled

-----------------------------------------------------------------------------
(* plt_delete_selected and plt_crop_selected.                              *)

LEMMA QuietBoth ==
  ASSUME NEW a \in Seq(QuietT), NEW b \in Seq(QuietT), NEW i
  PROVE  /\ a \o b \in Seq(QuietT) /\ Gives(a \o b, i) = Gives(a, i) + Gives(b, i)
         /\ Gives(a, i) \in Int /\ Gives(b, i) \in Int
<1>1. a \in Seq(CallT) /\ b \in Seq(CallT)
  BY QuietFits
<1> QED
  BY <1>1, GivesBoth, ConcatProperties

LEMMA DropsOf ==
  ASSUME NEW p \in AllLists, NEW s \in Seq(Items), Distinct(s)
  PROVE  /\ RemoveCalls(p, s, -1) \in Seq(QuietT)
         /\ \A i : Gives(RemoveCalls(p, s, -1), i) = IF i \in ToSet(s) THEN 1 ELSE 0
<1> DEFINE r == RemoveCalls(p, s, -1)
           l == Len(s)
<1>1. DOMAIN s = 1 .. l /\ l \in Nat /\ \A k \in 1 .. l : s[k] \in Items
  BY LenProperties, ElementOfSeq
<1>2. ASSUME NEW k \in 1 .. l
      PROVE  /\ RemoveCall(p, s[k], -1) \in QuietT
             /\ RemoveCall(p, s[k], -1).do = "remove"
             /\ RemoveCall(p, s[k], -1).item = s[k] /\ RemoveCall(p, s[k], -1).hold = -1
  <2> DEFINE c == RemoveCall(p, s[k], -1)
  <2>1. c \in CallT /\ c.do = "remove" /\ c.item = s[k] /\ c.hold = -1
    BY <1>1, CallsMade
  <2> HIDE DEF c
  <2>2. c \in QuietT
    BY <2>1 DEF QuietT
  <2> QED
    BY <2>1, <2>2 DEF c
<1>3. r = [k \in 1 .. l |-> RemoveCall(p, s[k], -1)]
  BY <1>1 DEF RemoveCalls
<1>4. r \in [1 .. l -> QuietT]
  BY <1>2, <1>3
<1> HIDE DEF r, l
<1>5. r \in Seq(QuietT) /\ DOMAIN r = 1 .. l
  BY <1>1, <1>4
<1>6. \A k \in 1 .. l : r[k].do = "remove" /\ r[k].item = s[k] /\ r[k].hold = -1
  BY <1>2, <1>3
<1>7. ASSUME NEW i PROVE Gives(r, i) = IF i \in ToSet(s) THEN 1 ELSE 0
  <2> DEFINE a == {n \in DOMAIN r : r[n].do = "remove" /\ r[n].item = i /\ r[n].hold = -1}
             b == {n \in DOMAIN r : r[n].do = "insert" /\ r[n].item = i /\ r[n].release = 1}
             c == {n \in DOMAIN r : r[n].do = "remove" /\ r[n].item = i /\ r[n].hold = 1}
  <2>1. r \in Seq(CallT)
    BY <1>5, QuietFits
  <2>2. Gives(r, i) = Cardinality(a) + Cardinality(b) - Cardinality(c)
    BY <2>1, GivesKnown
  <2>3. a = {n \in DOMAIN s : s[n] \in {i}} /\ b = {} /\ c = {}
    BY <1>1, <1>5, <1>6
  <2>4. Counted(s, {i}) = IF i \in ToSet(s) THEN 1 ELSE 0
    BY CountDistinct DEF Distinct
  <2> HIDE DEF a, b, c
  <2>5. Cardinality(a) = Counted(s, {i}) /\ Cardinality(b) = 0 /\ Cardinality(c) = 0
    BY <2>3, FS_EmptySet, Zenon DEF Counted
  <2> QED
    BY <2>2, <2>4, <2>5
<1> QED
  BY <1>5, <1>7 DEF r

LEMMA InOrderKnown ==
  ASSUME NEW p, Tracks(p) \in Seq(Items), Distinct(Tracks(p)), NEW items \in SUBSET ToSet(Tracks(p))
  PROVE  InOrder(p, items) \in Seq(Items) /\ Distinct(InOrder(p, items)) /\ ToSet(InOrder(p, items)) = items
<1> DEFINE t == Tracks(p)
           I == {n \in DOMAIN t : t[n] \in items}
           s == PartAt(t, I)
           c == Cardinality(I)
           pos == Positioned(I)
<1>1. DOMAIN t = 1 .. Len(t) /\ Len(t) \in Nat /\ t \in Seq(Items) /\ Distinct(t)
  BY LenProperties
<1>2. I \in SUBSET DOMAIN t /\ InOrder(p, items) = s
  BY DEF InOrder
<1>3. \A n \in I : n \in 1 .. Len(t) /\ t[n] \in items
  BY <1>1
<1>4. \A x \in items : \E n \in I : t[n] = x
  BY DEF ToSet
<1> HIDE DEF t, I
<1>5. /\ s \in Seq(Items) /\ Len(s) = c /\ c \in Nat
      /\ \A i, j \in 1 .. c : i < j => pos[i] < pos[j]
      /\ \A i \in 1 .. c : pos[i] \in I /\ s[i] = t[pos[i]]
      /\ \A n \in I : \E i \in 1 .. c : pos[i] = n
  BY <1>1, <1>2, KeptElements
<1> HIDE DEF s, c, pos
<1>6. Distinct(s)
  <2> SUFFICES ASSUME NEW i \in 1 .. c, NEW j \in 1 .. c, s[i] = s[j] PROVE i = j
    BY <1>5 DEF Distinct
  <2>1. pos[i] \in I /\ pos[j] \in I /\ t[pos[i]] = t[pos[j]]
    BY <1>5
  <2>2. pos[i] = pos[j] /\ pos[i] \in Nat
    BY <1>1, <1>3, <2>1 DEF Distinct
  <2>3. ~(i < j) /\ ~(j < i)
    <3>1. ~(pos[i] < pos[j]) /\ ~(pos[j] < pos[i])
      BY <2>2
    <3> QED
      BY <1>5, <3>1
  <2> QED
    BY <1>5, <2>3
<1>7. ToSet(s) = items
  <2>1. DOMAIN s = 1 .. c
    BY <1>5, LenProperties
  <2>2. \A x \in ToSet(s) : x \in items
    BY <1>3, <1>5, <2>1 DEF ToSet
  <2>3. \A x \in items : x \in ToSet(s)
    <3> TAKE x \in items
    <3>1. PICK n \in I : t[n] = x
      BY <1>4
    <3>2. PICK i \in 1 .. c : pos[i] = n
      BY <1>5
    <3>3. s[i] = x
      BY <1>5, <3>1, <3>2
    <3> QED
      BY <2>1, <3>3 DEF ToSet
  <2> QED
    BY <2>2, <2>3
<1> QED
  BY <1>2, <1>5, <1>6, <1>7

LEMMA SelectedStep ==
  ASSUME NEW lists, NEW gone, State(lists, gone), DeleteSelected \/ CropSelected
  PROVE  State(lists, gone)'
<1>1. /\ program = <<>> /\ budget > 0 /\ budget' = budget - 1
      /\ UNCHANGED <<links, operations, stacks, current, adding, adder, grouping, pending, base, failed>>
  BY DEF DeleteSelected, CropSelected, Edit, Idle, Begin
<1>2. PICK p \in AllLists : p = current
  BY DEF State, Typed, AllLists
<1>3. PICK items \in SUBSET ToSet(Tracks(p)) :
        /\ refs' = Taken(items)
        /\ \/ program' = <<Group(NULL)>> \o RemoveCalls(p, InOrder(p, items), -1) \o <<EndGroup, Changed>>
           \/ program' = RemoveCalls(p, InOrder(p, items), -1) \o <<Changed>>
  BY <1>2 DEF DeleteSelected, CropSelected, Begin
<1>4. Tracks(p) \in Seq(Items) /\ Distinct(Tracks(p))
  BY StateSound DEF State, LinkedAs
<1> DEFINE r == RemoveCalls(p, InOrder(p, items), -1)
           g == <<Group(NULL)>>
           e == <<EndGroup, Changed>>
           d == <<Changed>>
           taken == [i \in Items |-> IF i \in items THEN 1 ELSE 0]
<1>5. r \in Seq(QuietT) /\ \A i : Gives(r, i) = IF i \in items THEN 1 ELSE 0
  BY <1>4, InOrderKnown, DropsOf
<1>6. /\ g \in Seq(QuietT) /\ e \in Seq(QuietT) /\ d \in Seq(QuietT)
      /\ \A i : Gives(g, i) = 0 /\ Gives(e, i) = 0 /\ Gives(d, i) = 0
  <2>1. g \in Seq(PlainT) /\ e \in Seq(PlainT) /\ d \in Seq(PlainT)
    BY PlainMade
  <2> HIDE DEF g, e, d
  <2> QED
    BY <2>1, PlainGives
<1>7. taken \in [Items -> Int] /\ refs' = [i \in Items |-> refs[i] + taken[i]]
  BY <1>3 DEF Taken
<1>8. program' = (g \o r) \o e \/ program' = r \o d
  BY <1>3
<1> HIDE DEF r, g, e, d
<1>9. program' \in Seq(QuietT) /\ \A i : Gives(program', i) = IF i \in items THEN 1 ELSE 0
  <2>1. g \o r \in Seq(QuietT)
    BY <1>5, <1>6, QuietBoth
  <2>2. (g \o r) \o e \in Seq(QuietT) /\ r \o d \in Seq(QuietT)
    BY <1>5, <1>6, <2>1, QuietBoth
  <2>3. ASSUME NEW i
        PROVE  /\ Gives((g \o r) \o e, i) = IF i \in items THEN 1 ELSE 0
               /\ Gives(r \o d, i) = IF i \in items THEN 1 ELSE 0
    <3>1. Gives(g \o r, i) = Gives(g, i) + Gives(r, i)
      BY <1>5, <1>6, QuietBoth
    <3>2. Gives((g \o r) \o e, i) = Gives(g \o r, i) + Gives(e, i)
      BY <1>6, <2>1, QuietBoth
    <3>3. Gives(r \o d, i) = Gives(r, i) + Gives(d, i)
      BY <1>5, <1>6, QuietBoth
    <3> QED
      BY <1>5, <1>6, <3>1, <3>2, <3>3
  <2> QED
    BY <1>8, <2>2, <2>3
<1>10. \A i \in Items : Gives(program', i) = taken[i]
  BY <1>9
<1> QED
  BY <1>1, <1>7, <1>9, <1>10, QuietBegun

-----------------------------------------------------------------------------
(* plt_clear.                                                              *)

LEMMA Emptied ==
  ASSUME NEW lists, LinkedAs(lists, <<>>), NEW p \in AllLists, lists[p] # <<>>,
         head' = [head EXCEPT ![p] = NULL], tail' = [tail EXCEPT ![p] = NULL],
         count' = [count EXCEPT ![p] = 0], UNCHANGED <<next, prev>>
  PROVE  /\ LinkedAs([lists EXCEPT ![p] = <<>>], lists[p])'
         /\ head[p] = lists[p][1] /\ head[p] \in Items
         /\ \A i : Where([lists EXCEPT ![p] = <<>>], lists[p], i) = Where(lists, <<>>, i)
<1> DEFINE s == lists[p]
           new == [lists EXCEPT ![p] = <<>>]
<1>1. /\ s \in Seq(Items) /\ Distinct(s) /\ lists \in [AllLists -> Seq(Items)]
      /\ Chained(next, s, head[p]) /\ ChainedBack(prev, s, tail[p])
      /\ \A q, r \in AllLists : q # r => ToSet(lists[q]) \cap ToSet(lists[r]) = {}
      /\ LinkTypes /\ Len(s) \in Nat
  BY LenProperties DEF LinkedAs
<1>2. Len(s) # 0 /\ 1 \in 1 .. Len(s)
  <2>1. Len(s) # 0
    BY <1>1, EmptySeq
  <2> QED
    BY <1>1, <2>1
<1>3. head[p] = s[1] /\ head[p] \in Items /\ tail[p] = s[Len(s)]
  BY <1>1, <1>2, ElementOfSeq DEF Chained, ChainedBack
<1>4. /\ new[p] = <<>> /\ new \in [AllLists -> Seq(Items)]
      /\ \A q \in AllLists : q # p => new[q] = lists[q]
  BY <1>1
<1>5. ToSet(<<>>) = {}
  BY DEF ToSet
<1> HIDE DEF s, new
<1>6. LinkTypes'
  BY <1>1 DEF LinkTypes, Pointer
<1>7. Forgetting(new, s)'
  <2>1. Chained(next', s, s[1]) /\ ChainedBack(prev', s, s[Len(s)])
    BY <1>1, <1>3
  <2>2. \A q \in AllLists : ToSet(new[q]) \cap ToSet(s) = {}
    BY <1>1, <1>4, <1>5 DEF s
  <2> QED
    BY <1>1, <2>1, <2>2 DEF Forgetting, new, s
<1>8. ASSUME NEW q \in AllLists
      PROVE  /\ Distinct(new[q]) /\ Chained(next', new[q], head'[q])
             /\ ChainedBack(prev', new[q], tail'[q]) /\ count'[q] = Len(new[q])
  <2>1. CASE q = p
    BY <1>1, <1>4, <2>1 DEF Distinct, Chained, ChainedBack, LinkTypes
  <2>2. CASE q # p
    <3>1. head'[q] = head[q] /\ tail'[q] = tail[q] /\ count'[q] = count[q]
      BY <1>1, <2>2 DEF LinkTypes
    <3>2. /\ Distinct(lists[q]) /\ Chained(next, lists[q], head[q])
          /\ ChainedBack(prev, lists[q], tail[q]) /\ count[q] = Len(lists[q])
      BY DEF LinkedAs
    <3> QED
      BY <1>4, <2>2, <3>1, <3>2
  <2> QED
    BY <2>1, <2>2
<1>9. \A q, r \in AllLists : q # r => ToSet(new[q]) \cap ToSet(new[r]) = {}
  BY <1>1, <1>4, <1>5
<1>10. ASSUME NEW i
       PROVE  ((\E q \in AllLists : i \in ToSet(new[q])) \/ i \in ToSet(s))
                <=> ((\E q \in AllLists : i \in ToSet(lists[q])) \/ i \in ToSet(<<>>))
  BY <1>4, <1>5 DEF s
<1>11. \A i \in Items : (\A q \in AllLists : i \notin ToSet(new[q])) /\ i \notin ToSet(s)
                        => next'[i] = NULL /\ prev'[i] = NULL
  <2> SUFFICES ASSUME NEW i \in Items, \A q \in AllLists : i \notin ToSet(new[q]), i \notin ToSet(s)
               PROVE  next[i] = NULL /\ prev[i] = NULL
    OBVIOUS
  <2>1. (\A q \in AllLists : i \notin ToSet(lists[q])) /\ i \notin ToSet(<<>>)
    BY <1>10
  <2> QED
    BY <2>1 DEF LinkedAs
<1>12. LinkedAs(new, s)'
  BY <1>4, <1>6, <1>7, <1>8, <1>9, <1>11 DEF LinkedAs, new, s
<1>13. \A i : Where(new, s, i) = Where(lists, <<>>, i)
  BY <1>10 DEF Where
<1> QED
  BY <1>3, <1>12, <1>13 DEF new, s

LEMMA ClearStep ==
  ASSUME NEW lists, NEW gone, State(lists, gone), Clear
  PROVE  \E p \in Lists, first \in Items : \E new, s :
            /\ Edit(IF p = current THEN "clear" ELSE "clear_another")
            /\ s = lists[p] /\ new = [lists EXCEPT ![p] = <<>>] /\ gone = <<>>
            /\ program' = <<Group(NULL), ForgetCall(p, first), EndGroup>>
                          \o IF p = current THEN <<Changed>> ELSE <<>>
            /\ State(new, s)'
<1>1. PICK p \in Lists :
        /\ Edit(IF p = current THEN "clear" ELSE "clear_another")
        /\ program = <<>> /\ budget > 0 /\ budget' = budget - 1 /\ head[p] # NULL
        /\ head' = [head EXCEPT ![p] = NULL]
        /\ tail' = [tail EXCEPT ![p] = NULL]
        /\ count' = [count EXCEPT ![p] = 0]
        /\ program' = <<Group(NULL), ForgetCall(p, head[p]), EndGroup>>
                      \o IF p = current THEN <<Changed>> ELSE <<>>
  BY DEF Clear, Edit, Idle, Begin
<1>2. UNCHANGED <<next, prev, refs, current, adding, adder, operations, grouping, stacks, pending,
                  base, failed>>
  BY DEF Clear, Begin
<1>3. gone = <<>> /\ \A i : Running(program, i) = 0 /\ Gives(program, i) = 0
  BY <1>1, NothingGone
<1>4. p \in AllLists /\ LinkedAs(lists, <<>>)
  BY <1>3 DEF AllLists, State
<1>5. lists[p] # <<>>
  <2>1. lists[p] = <<>> => head[p] = NULL
    BY <1>4 DEF LinkedAs, Chained
  <2> QED
    BY <1>1, <2>1
<1>6. PICK s : s = lists[p]
  OBVIOUS
<1>7. PICK new : new = [lists EXCEPT ![p] = <<>>]
  OBVIOUS
<1>8. /\ LinkedAs(new, s)' /\ head[p] = s[1] /\ head[p] \in Items /\ s # <<>>
      /\ \A i : Where(new, s, i) = Where(lists, <<>>, i)
  <2>1. UNCHANGED <<next, prev>>
    BY <1>2
  <2> QED
    BY <1>1, <1>4, <1>5, <1>6, <1>7, <2>1, Emptied
<1>9. PICK first \in Items : first = head[p]
  BY <1>8
<1> DEFINE g == Group(NULL)
           f == ForgetCall(p, first)
           e == EndGroup
           u == <<g, f, e>>
           v == IF p = current THEN <<Changed>> ELSE <<>>
<1>10. program' = u \o v
  BY <1>1, <1>9
<1>11. /\ g \in CallT /\ g.do = "group" /\ e \in CallT /\ e.do = "end_group"
       /\ f \in CallT /\ f.do = "forget" /\ f.item = first
  BY <1>4, CallsMade
<1>12. v \in Seq(PlainT)
  BY PlainMade
<1> HIDE DEF g, f, e, v
<1>13. u \in Seq(CallT) /\ Len(u) = 3 /\ u[1] = g /\ u[2] = f /\ u[3] = e /\ ToSet(u) = {g, f, e}
  BY <1>11 DEF ToSet
<1>14. \A i : Gives(u, i) = 0
  <2> TAKE i
  <2> DEFINE a == <<g>>
             b == <<f>>
             c == <<e>>
  <2>1. /\ Gives(a, i) = Give(g, i) /\ Gives(b, i) = Give(f, i) /\ Gives(c, i) = Give(e, i)
        /\ a \in Seq(CallT) /\ b \in Seq(CallT) /\ c \in Seq(CallT)
    BY <1>11, GivesFew
  <2>2. Give(g, i) = 0 /\ Give(f, i) = 0 /\ Give(e, i) = 0
    BY <1>11 DEF Give
  <2>3. u = (a \o b) \o c
    BY <1>11, JoinedOnes
  <2> HIDE DEF a, b, c, u
  <2>4. Gives(a \o b, i) = Gives(a, i) + Gives(b, i) /\ a \o b \in Seq(CallT)
    BY <2>1, GivesBoth
  <2>5. Gives((a \o b) \o c, i) = Gives(a \o b, i) + Gives(c, i)
    BY <2>1, <2>4, GivesBoth
  <2> QED
    BY <2>1, <2>2, <2>3, <2>4, <2>5
<1> HIDE DEF u
<1>15. /\ ProgramFits(v) /\ v \in Seq(CallT) /\ \A i : Gives(v, i) = 0
       /\ \A n \in 1 .. Len(v) : v[n].do \notin {"forget", "finish", "files_end"}
  BY <1>12, PlainGives, QuietFits
<1>16. ProgramFits(u \o v)
  <2>1. \A n \in 1 .. Len(u) : n = 1 \/ n = 2 \/ n = 3
    BY <1>13
  <2>2. HoldsReleased(u)
    BY <1>11, <1>13, <2>1 DEF HoldsReleased
  <2>3. \A n \in 1 .. Len(u) : /\ u[n].do \notin {"finish", "files_end"}
                               /\ u[n].do = "forget" => n = 1 \/ (n = 2 /\ u[1].do = "group")
    BY <1>11, <1>13, <2>1
  <2> QED
    BY <1>13, <1>15, <2>2, <2>3, BothFit
<1>17. ToSet(u \o v) = {g, f, e} \cup ToSet(v)
  BY <1>13, <1>15, SetOfBoth
<1>18. \A c \in ToSet(v) : c.do \notin {"forget", "finish", "files_end"}
  BY <1>15, LenProperties DEF ToSet
<1>19. \A i : Gives(program', i) = 0
  BY <1>10, <1>13, <1>14, <1>15, GivesBoth
<1>20. \A i : Running(program', i) = 0
  <2>1. FinishesOf(program') = {}
    BY <1>10, <1>11, <1>17, <1>18 DEF FinishesOf
  <2> QED
    BY <2>1, RunningNone
<1>21. Forgets(s)'
  <2>1. \A c \in ToSet(program') : c.do = "forget" => s # <<>> /\ c.item = s[1]
    BY <1>8, <1>9, <1>10, <1>11, <1>17, <1>18
  <2>2. \E c \in ToSet(program') : c.do = "forget"
    BY <1>10, <1>11, <1>17
  <2> QED
    BY <2>1, <2>2 DEF Forgets
<1>22. Adding'
  BY <1>2, <1>10, <1>11, <1>17, <1>18 DEF State, Adding
<1>23. Typed'
  <2>1. budget' \in 0 .. BUDGET
    BY <1>1, BudgetSpent DEF State
  <2> QED
    BY <1>2, <2>1 DEF State, Typed, stacks
<1>24. ASSUME NEW i \in Items
       PROVE  refs'[i] = Where(new, s, i)
              + (Held(operations', i) + Held(OperationsOf(undo_stack'), i)
                 + Held(OperationsOf(redo_stack'), i))
              + Running(program', i) + Gives(program', i)
  BY <1>2, <1>3, <1>8, <1>19, <1>20 DEF State, Balanced, HeldByUndo, stacks
<1>25. State(new, s)'
  BY <1>8, <1>10, <1>16, <1>21, <1>22, <1>23, <1>24, Assembled
<1>26. program' = <<Group(NULL), ForgetCall(p, first), EndGroup>>
                  \o IF p = current THEN <<Changed>> ELSE <<>>
  BY <1>1, <1>9
<1>27. Edit(IF p = current THEN "clear" ELSE "clear_another") /\ gone = <<>>
  BY <1>1, <1>3
<1> QED
  <2> WITNESS p \in Lists, first \in Items
  <2> WITNESS new, s
  <2> QED
    BY <1>6, <1>7, <1>25, <1>26, <1>27

-----------------------------------------------------------------------------
(* plt_move_items and plt_copy_items.                                      *)

LEMMA MovedKnown ==
  ASSUME NEW p, Tracks(p) \in Seq(Items), NEW before, NEW items \in Seq(Items)
  PROVE  Moved(p, before, items) \in Seq(Items)
<1> DEFINE old == Tracks(p)
           at == IF before = NULL THEN Len(old) + 1
                 ELSE CHOOSE k \in DOMAIN old : old[k] = before
           stays == {n \in DOMAIN old : old[n] \notin ToSet(items)}
           a == PartAt(old, stays \cap 1 .. at - 1)
           b == PartAt(old, stays \cap at .. Len(old))
<1>1. old \in Seq(Items)
  OBVIOUS
<1>2. stays \cap 1 .. at - 1 \in SUBSET DOMAIN old /\ stays \cap at .. Len(old) \in SUBSET DOMAIN old
  OBVIOUS
<1>3. Moved(p, before, items) = (a \o items) \o b
  BY DEF Moved
<1> HIDE DEF old, at, stays
<1>4. a \in Seq(Items) /\ b \in Seq(Items)
  BY <1>1, <1>2, KeptElements
<1> HIDE DEF a, b
<1>5. a \o items \in Seq(Items)
  BY <1>4, ConcatProperties
<1>6. (a \o items) \o b \in Seq(Items)
  BY <1>4, <1>5, ConcatProperties
<1> QED
  BY <1>3, <1>6

LEMMA MoveItemsStep ==
  ASSUME NEW lists, NEW gone, State(lists, gone), MoveItems
  PROVE  State(lists, gone)'
<1>1. /\ program = <<>> /\ budget > 0 /\ budget' = budget - 1
      /\ UNCHANGED <<links, refs, operations, stacks, current, adding, adder, grouping, pending,
                     base, failed>>
  BY DEF MoveItems, Edit, Idle, Begin
<1>2. /\ current \in AllLists /\ LinkTypes
      /\ \A p \in AllLists : Tracks(p) \in Seq(Items) /\ head[p] \in Pointer /\ tail[p] \in Pointer
  BY ListsKnown
<1>3. PICK from \in AllLists, before \in ToSet(Tracks(current)) \cup {NULL} :
      \E moved \in SUBSET DOMAIN Tracks(from) :
        program' = <<MoveCall(current, from, head[from], 0,
                              PartAt([k \in DOMAIN Tracks(from) |-> k - 1], moved),
                              DropAfter(current, before)),
                     UnlockCall(current, Moved(current, before, PartAt(Tracks(from), moved))),
                     Changed>>
  BY DEF MoveItems, Begin, AllLists
<1>4. PICK moved \in SUBSET DOMAIN Tracks(from) :
        program' = <<MoveCall(current, from, head[from], 0,
                              PartAt([k \in DOMAIN Tracks(from) |-> k - 1], moved),
                              DropAfter(current, before)),
                     UnlockCall(current, Moved(current, before, PartAt(Tracks(from), moved))),
                     Changed>>
  BY <1>3
<1> DEFINE t == Tracks(from)
           x == PartAt([k \in DOMAIN t |-> k - 1], moved)
           y == PartAt(t, moved)
           d == DropAfter(current, before)
           z == Moved(current, before, y)
           m == MoveCall(current, from, head[from], 0, x, d)
           u == UnlockCall(current, z)
<1>5. x \in Seq(Nat) /\ y \in Seq(Items)
  <2>1. t \in Seq(Items) /\ DOMAIN t = 1 .. Len(t) /\ Len(t) \in Nat
    BY <1>2, LenProperties
  <2> DEFINE l == Len(t)
             s == [k \in DOMAIN t |-> k - 1]
  <2>2. s \in [1 .. l -> Nat]
    BY <2>1
  <2>3. moved \in SUBSET DOMAIN t /\ DOMAIN s = DOMAIN t
    OBVIOUS
  <2> HIDE DEF s, t, l
  <2>4. s \in Seq(Nat)
    BY <2>1, <2>2 DEF l
  <2> QED
    BY <2>1, <2>3, <2>4, KeptElements DEF s
<1>6. d \in Pointer
  <2>1. CASE before = NULL
    BY <1>2, <2>1 DEF DropAfter
  <2>2. CASE before # NULL
    <3>1. before \in Items
      BY <1>2, <2>2, LenProperties, ElementOfSeq DEF ToSet
    <3> QED
      BY <1>2, <2>2, <3>1 DEF DropAfter, LinkTypes
  <2> QED
    BY <2>1, <2>2
<1>7. program' = <<m, u, Changed>>
  BY <1>4
<1> HIDE DEF d, x, y, t
<1>8. z \in Seq(Items)
  BY <1>2, <1>5, MovedKnown
<1> HIDE DEF z
<1>9. m \in PlainT
  <2>1. m \in CallT /\ m.do = "move"
    BY <1>2, <1>5, <1>6, MoveMade
  <2> HIDE DEF m
  <2> QED
    BY <2>1 DEF PlainT, QuietT
<1>10. u \in PlainT /\ Changed \in PlainT
  BY <1>2, <1>8, PlainMade
<1>11. program' \in Seq(PlainT)
  <2> HIDE DEF m, u
  <2> QED
    BY <1>7, <1>9, <1>10
<1>12. program' \in Seq(QuietT) /\ \A i : Gives(program', i) = 0
  BY <1>11, PlainGives
<1> DEFINE taken == [i \in Items |-> 0]
<1>13. taken \in [Items -> Int] /\ refs' = [i \in Items |-> refs[i] + taken[i]]
  BY <1>1 DEF State, Typed
<1>14. \A i \in Items : Gives(program', i) = taken[i]
  BY <1>12
<1> HIDE DEF taken
<1> QED
  BY <1>1, <1>12, <1>13, <1>14, QuietBegun

LEMMA CopyItemStep ==
  ASSUME NEW lists, NEW gone, State(lists, gone), CopyItem
  PROVE  State(lists, gone)'
<1>1. /\ program = <<>> /\ budget > 0 /\ budget' = budget - 1
      /\ UNCHANGED <<links, operations, stacks, current, adding, adder, grouping, pending,
                     base, failed>>
  BY DEF CopyItem, Edit, Idle, Begin
<1>2. /\ current \in AllLists /\ LinkTypes
      /\ \A p \in AllLists : Tracks(p) \in Seq(Items) /\ head[p] \in Pointer /\ tail[p] \in Pointer
  BY ListsKnown
<1>3. PICK new \in Items, before \in ToSet(Tracks(current)) \cup {NULL} :
        /\ refs' = Taken({new})
        /\ program' = <<InsertCall(IF adding = NULL THEN current ELSE adding,
                                   DropAfter(current, before), new, 1),
                        UnlockCall(current, Moved(current, before, <<new>>)),
                        Changed>>
  BY DEF CopyItem, Begin
<1> DEFINE p == IF adding = NULL THEN current ELSE adding
           d == DropAfter(current, before)
           z == Moved(current, before, <<new>>)
           m == InsertCall(p, d, new, 1)
           u == UnlockCall(current, z)
           a == <<m>>
           b == <<u, Changed>>
<1>4. p \in AllLists
  BY <1>2 DEF State, Typed, AllLists
<1>5. d \in Pointer
  <2>1. CASE before = NULL
    BY <1>2, <2>1 DEF DropAfter
  <2>2. CASE before # NULL
    <3>1. before \in Items
      BY <1>2, <2>2, LenProperties, ElementOfSeq DEF ToSet
    <3> QED
      BY <1>2, <2>2, <3>1 DEF DropAfter, LinkTypes
  <2> QED
    BY <2>1, <2>2
<1>6. program' = a \o b
  BY <1>3
<1> HIDE DEF d, p
<1>7. z \in Seq(Items)
  BY <1>2, OneItem, MovedKnown
<1> HIDE DEF z
<1>8. m \in CallT /\ m.do = "insert" /\ m.item = new /\ m.release = 1
  BY <1>4, <1>5, CallsMade
<1> HIDE DEF m
<1>9. u \in PlainT /\ Changed \in PlainT
  BY <1>2, <1>7, PlainMade
<1> HIDE DEF u
<1>10. b \in Seq(PlainT)
  BY <1>9
<1>11. a \in Seq(QuietT) /\ \A i : Gives(a, i) = IF i = new THEN 1 ELSE 0
  <2>1. m \in QuietT
    BY <1>8 DEF QuietT
  <2>2. a \in Seq(QuietT)
    BY <2>1
  <2>3. \A i : Gives(a, i) = Give(m, i)
    BY <1>8, GivesFew
  <2> QED
    BY <1>8, <2>2, <2>3 DEF Give
<1> HIDE DEF a, b
<1>12. b \in Seq(QuietT) /\ \A i : Gives(b, i) = 0
  BY <1>10, PlainGives
<1>13. program' \in Seq(QuietT) /\ \A i : Gives(program', i) = IF i = new THEN 1 ELSE 0
  BY <1>6, <1>11, <1>12, QuietBoth
<1> DEFINE taken == [i \in Items |-> IF i = new THEN 1 ELSE 0]
<1>14. taken \in [Items -> Int] /\ refs' = [i \in Items |-> refs[i] + taken[i]]
  BY <1>3 DEF Taken
<1>15. \A i \in Items : Gives(program', i) = taken[i]
  BY <1>13
<1> HIDE DEF taken
<1> QED
  BY <1>1, <1>13, <1>14, <1>15, QuietBegun

-----------------------------------------------------------------------------
(* plt_move_all_items, when files have been read.                          *)

(* Each reference that is taken is released.                               *)
MoveCallsT == {s \in Seq(CallT) : /\ HoldsReleased(s)
                                  /\ \A n \in 1 .. Len(s) : s[n].do \in {"remove", "insert"}
                                  /\ \A i \in Items : Gives(s, i) = 0}

LEMMA PairMade ==
  ASSUME NEW p \in AllLists, NEW q \in AllLists, NEW f \in Items, NEW after \in Pointer
  PROVE  <<RemoveCall(p, f, 1), InsertCall(q, after, f, 1)>> \in MoveCallsT
<1> DEFINE r == RemoveCall(p, f, 1)
           n == InsertCall(q, after, f, 1)
           a == <<r>>
           b == <<n>>
           s == <<r, n>>
<1>1. /\ r \in CallT /\ r.do = "remove" /\ r.item = f /\ r.hold = 1
      /\ n \in CallT /\ n.do = "insert" /\ n.item = f /\ n.release = 1
  BY CallsMade
<1> HIDE DEF r, n
<1>2. s \in Seq(CallT) /\ Len(s) = 2 /\ s[1] = r /\ s[2] = n /\ s = a \o b
  <2>1. s \in Seq(CallT) /\ Len(s) = 2 /\ s[1] = r /\ s[2] = n
    BY <1>1
  <2>2. s = a \o b
    BY <1>1, JoinedOnes
  <2> QED
    BY <2>1, <2>2
<1>3. HoldsReleased(s)
  <2>1. \A k \in 1 .. Len(s) : k = 1 \/ k = 2
    BY <1>2
  <2>2. 1 + 1 \in 1 .. Len(s)
    BY <1>2
  <2> QED
    BY <1>1, <1>2, <2>1, <2>2 DEF HoldsReleased
<1>4. \A k \in 1 .. Len(s) : s[k].do \in {"remove", "insert"}
  <2>1. \A k \in 1 .. Len(s) : k = 1 \/ k = 2
    BY <1>2
  <2> QED
    BY <1>1, <1>2, <2>1
<1>5. ASSUME NEW i \in Items PROVE Gives(s, i) = 0
  <2>1. Gives(a, i) = Give(r, i) /\ Gives(b, i) = Give(n, i) /\ a \in Seq(CallT) /\ b \in Seq(CallT)
    BY <1>1, GivesFew
  <2>2. Give(r, i) + Give(n, i) = 0
    BY <1>1 DEF Give
  <2> HIDE DEF a, b
  <2>3. Gives(a \o b, i) = Gives(a, i) + Gives(b, i)
    BY <2>1, GivesBoth
  <2> QED
    BY <1>2, <2>1, <2>2, <2>3
<1>6. s \in MoveCallsT
  <2> HIDE DEF s
  <2> QED
    BY <1>2, <1>3, <1>4, <1>5 DEF MoveCallsT
<1> QED
  BY <1>6 DEF s, r, n

LEMMA PairsJoined ==
  /\ <<>> \in MoveCallsT
  /\ \A a, b \in MoveCallsT : a \o b \in MoveCallsT
<1>1. <<>> \in MoveCallsT
  <2>1. <<>> \in Seq(CallT) /\ Len(<<>>) = 0
    OBVIOUS
  <2>2. HoldsReleased(<<>>) /\ \A n \in 1 .. Len(<<>>) : FALSE
    BY <2>1 DEF HoldsReleased
  <2>3. \A i \in Items : Gives(<<>>, i) = 0
    BY GivesFew
  <2> QED
    BY <2>1, <2>2, <2>3 DEF MoveCallsT
<1>2. ASSUME NEW a \in MoveCallsT, NEW b \in MoveCallsT
      PROVE  a \o b \in MoveCallsT
  <2>1. /\ a \in Seq(CallT) /\ b \in Seq(CallT) /\ HoldsReleased(a) /\ HoldsReleased(b)
        /\ \A n \in 1 .. Len(a) : a[n].do \in {"remove", "insert"}
        /\ \A n \in 1 .. Len(b) : b[n].do \in {"remove", "insert"}
        /\ \A i \in Items : Gives(a, i) = 0 /\ Gives(b, i) = 0
    BY DEF MoveCallsT
  <2>2. HoldsReleased(a \o b)
    BY <2>1, ReleasedBoth
  <2>3. a \o b \in Seq(CallT) /\ \A i \in Items : Gives(a \o b, i) = 0
    BY <2>1, GivesBoth
  <2>4. \A c \in ToSet(a \o b) : c.do \in {"remove", "insert"}
    BY <2>1, SetOfBoth, LenProperties DEF ToSet
  <2>5. \A n \in 1 .. Len(a \o b) : (a \o b)[n].do \in {"remove", "insert"}
    BY <2>3, <2>4, LenProperties DEF ToSet
  <2> QED
    BY <2>2, <2>3, <2>5 DEF MoveCallsT
<1> QED
  BY <1>1, <1>2

LEMMA FilesReadStep ==
  ASSUME NEW lists, NEW gone, State(lists, gone), FilesRead
  PROVE  State(lists, gone)'
<1> DEFINE files == Tracks(Incoming)
           after(n) == IF n = 1 THEN tail[adding] ELSE files[n - 1]
           ss == [n \in DOMAIN files |-> <<RemoveCall(Incoming, files[n], 1),
                                           InsertCall(adding, after(n), files[n], 1)>>]
           j == Joined(ss)
           a == <<Group(NULL)>>
           k == UnlockCall(adding, Tracks(adding) \o files)
           t == <<EndGroup, k, FilesEnd>>
<1>1. /\ program = <<>> /\ adding # NULL /\ adder = NoAdder /\ budget' = budget
      /\ UNCHANGED <<links, refs, operations, stacks, current, adding, adder, grouping, pending,
                     base, failed>>
      /\ program' = (a \o j) \o t
  BY DEF FilesRead, Begin
<1>2. /\ adding \in AllLists /\ Incoming \in AllLists /\ LinkTypes /\ Typed
      /\ \A p \in AllLists : Tracks(p) \in Seq(Items) /\ tail[p] \in Pointer
  BY <1>1, ListsKnown
<1>3. files \in Seq(Items)
  BY <1>2
<1>4. k \in PlainT
  <2>1. Tracks(adding) \o files \in Seq(Items)
    BY <1>2, ConcatProperties
  <2> QED
    BY <1>2, <2>1, PlainMade
<1>5. j \in MoveCallsT
  <2>1. DOMAIN files = 1 .. Len(files) /\ Len(files) \in Nat /\ \A n \in 1 .. Len(files) : files[n] \in Items
    BY <1>3, LenProperties, ElementOfSeq
  <2> HIDE DEF files
  <2>2. \A n \in 1 .. Len(files) : after(n) \in Pointer
    <3> TAKE n \in 1 .. Len(files)
    <3>1. n # 1 => n - 1 \in 1 .. Len(files)
      BY <2>1
    <3> QED
      BY <1>2, <2>1, <3>1 DEF Pointer
  <2> HIDE DEF after
  <2>3. \A n \in 1 .. Len(files) : ss[n] \in MoveCallsT
    BY <1>2, <2>1, <2>2, PairMade
  <2> DEFINE l == Len(files)
             B == Seq(CallT)
  <2>4. ss = [n \in 1 .. l |-> ss[n]] /\ l \in Nat
    BY <2>1
  <2>5. \A n \in 1 .. l : ss[n] \in B
    BY <2>3 DEF MoveCallsT
  <2> HIDE DEF ss, l, B
  <2>6. ss \in Seq(B) /\ Len(ss) = l
    <3>1. ss \in [1 .. l -> B]
      BY <2>4, <2>5
    <3> QED
      BY <2>4, <3>1
  <2>7. ss \in Seq(Seq(CallT))
    BY <2>6 DEF B
  <2>8. \A n \in 1 .. Len(ss) : ss[n] \in MoveCallsT
    BY <2>3, <2>6 DEF l
  <2> QED
    BY <2>7, <2>8, PairsJoined, JoinedIn
<1>6. /\ j \in Seq(CallT) /\ HoldsReleased(j) /\ \A i \in Items : Gives(j, i) = 0
      /\ \A n \in 1 .. Len(j) : j[n].do \in {"remove", "insert"}
  <2> HIDE DEF j
  <2> QED
    BY <1>5 DEF MoveCallsT
<1> HIDE DEF k, j, files
<1>7. a \in Seq(PlainT)
  BY PlainMade
<1>8. /\ a \in Seq(CallT) /\ HoldsReleased(a) /\ \A i : Gives(a, i) = 0
      /\ \A n \in 1 .. Len(a) : a[n].do \notin {"forget", "finish", "files_end"}
  <2> HIDE DEF a
  <2> QED
    BY <1>7, PlainGives, QuietFits
<1> HIDE DEF a
<1> DEFINE b == <<EndGroup, k>>
           c == <<FilesEnd>>
<1>9. b \in Seq(PlainT) /\ FilesEnd \in CallT /\ FilesEnd.do = "files_end"
  BY <1>4, PlainMade, CallsMade
<1>10. /\ b \in Seq(CallT) /\ HoldsReleased(b) /\ \A i : Gives(b, i) = 0
       /\ \A n \in 1 .. Len(b) : b[n].do \notin {"forget", "finish", "files_end"}
  <2> HIDE DEF b
  <2> QED
    BY <1>9, PlainGives, QuietFits
<1>11. /\ ProgramFits(c) /\ \A i : Gives(c, i) = 0
       /\ \A n \in 1 .. Len(c) : c[n].do \notin {"forget", "finish"}
  <2>1. c \in Seq(CallT) /\ Len(c) = 1 /\ \A n \in 1 .. Len(c) : n = 1 /\ c[n] = FilesEnd
    BY <1>9
  <2>2. \A i : Gives(c, i) = Give(FilesEnd, i)
    BY <1>9, GivesFew
  <2> HIDE DEF c
  <2> QED
    BY <1>9, <2>1, <2>2 DEF ProgramFits, HoldsReleased, Give
<1>12. t = b \o c
  OBVIOUS
<1> HIDE DEF b, c, t
<1>13. /\ ProgramFits(b \o c) /\ b \o c \in Seq(CallT) /\ \A i \in Items : Gives(b \o c, i) = 0
       /\ \A x \in ToSet(b \o c) : x.do \notin {"forget", "finish"}
  <2>1. ProgramFits(b \o c)
    BY <1>10, <1>11, BothFit
  <2>2. c \in Seq(CallT)
    BY <1>11 DEF ProgramFits
  <2>3. b \o c \in Seq(CallT) /\ \A i \in Items : Gives(b \o c, i) = 0
    BY <1>10, <1>11, <2>2, GivesBoth
  <2>4. \A x \in ToSet(b \o c) : x.do \notin {"forget", "finish"}
    BY <1>10, <1>11, <2>2, SetOfBoth, LenProperties DEF ToSet
  <2> QED
    BY <2>1, <2>3, <2>4
<1>14. /\ a \o j \in Seq(CallT) /\ HoldsReleased(a \o j) /\ \A i \in Items : Gives(a \o j, i) = 0
       /\ \A x \in ToSet(a \o j) : x.do \notin {"forget", "finish", "files_end"}
  <2>1. HoldsReleased(a \o j)
    BY <1>6, <1>8, ReleasedBoth
  <2>2. a \o j \in Seq(CallT) /\ \A i \in Items : Gives(a \o j, i) = 0
    BY <1>6, <1>8, GivesBoth
  <2>3. \A x \in ToSet(a) : x.do \notin {"forget", "finish", "files_end"}
    BY <1>8, LenProperties DEF ToSet
  <2>4. \A x \in ToSet(j) : x.do \in {"remove", "insert"}
    BY <1>6, LenProperties DEF ToSet
  <2>5. ToSet(a \o j) = ToSet(a) \cup ToSet(j)
    BY <1>6, <1>8, SetOfBoth
  <2> QED
    BY <2>1, <2>2, <2>3, <2>4, <2>5
<1> DEFINE u == a \o j
           v == b \o c
<1>15. /\ u \in Seq(CallT) /\ HoldsReleased(u) /\ \A i \in Items : Gives(u, i) = 0
       /\ \A x \in ToSet(u) : x.do \notin {"forget", "finish", "files_end"}
       /\ ProgramFits(v) /\ v \in Seq(CallT) /\ \A i \in Items : Gives(v, i) = 0
       /\ \A x \in ToSet(v) : x.do \notin {"forget", "finish"}
       /\ program' = u \o v
  BY <1>1, <1>12, <1>13, <1>14
<1> HIDE DEF u, v
<1>16. \A n \in 1 .. Len(u) : u[n] \in ToSet(u)
  BY <1>15, LenProperties DEF ToSet
<1>17. \A n \in 1 .. Len(v) : v[n] \in ToSet(v)
  BY <1>15, LenProperties DEF ToSet
<1>18. ProgramFits(program')
  BY <1>15, <1>16, <1>17, BothFit
<1>19. \A x \in ToSet(program') : x.do \notin {"forget", "finish"}
  BY <1>15, SetOfBoth
<1>20. \A i \in Items : Gives(program', i) = 0
  BY <1>15, GivesBoth
<1>21. Adding'
  BY <1>1 DEF State, Adding
<1>22. budget' \in 0 .. BUDGET
  BY <1>1, <1>2 DEF Typed
<1> DEFINE taken == [i \in Items |-> 0]
<1>23. taken \in [Items -> Int] /\ refs' = [i \in Items |-> refs[i] + taken[i]]
  BY <1>1, <1>2 DEF Typed
<1>24. \A i \in Items : Gives(program', i) = taken[i]
  BY <1>20
<1> HIDE DEF taken
<1> QED
  BY <1>1, <1>18, <1>19, <1>21, <1>22, <1>23, <1>24, Begun

-----------------------------------------------------------------------------
(* plt_sort_v2.                                                            *)

LEMMA ReverseKnown ==
  ASSUME NEW s \in Seq(Items), Distinct(s)
  PROVE  /\ Reverse(s) \in Seq(Items) /\ Distinct(Reverse(s)) /\ Len(Reverse(s)) = Len(s)
         /\ \A i \in 1 .. Len(s) : Reverse(s)[i] = s[(Len(s) - i) + 1]
         /\ ToSet(Reverse(s)) = ToSet(s)
<1> DEFINE l == Len(s)
           r == Reverse(s)
<1>1. l \in Nat /\ DOMAIN s = 1 .. l /\ \A i \in 1 .. l : s[i] \in Items
  BY LenProperties, ElementOfSeq
<1>2. \A i \in 1 .. l : (l - i) + 1 \in 1 .. l /\ l - ((l - i) + 1) + 1 = i
  BY <1>1
<1>3. /\ r \in Seq(Items) /\ Len(r) = l /\ DOMAIN r = 1 .. l
      /\ \A i \in 1 .. l : r[i] = s[(l - i) + 1]
  <2>1. r = [i \in 1 .. l |-> s[(l - i) + 1]]
    BY DEF Reverse
  <2>2. r \in [1 .. l -> Items]
    BY <1>1, <1>2, <2>1
  <2> QED
    BY <1>1, <2>1, <2>2
<1> HIDE DEF l, r
<1>4. Distinct(r)
  <2> SUFFICES ASSUME NEW i \in 1 .. l, NEW j \in 1 .. l, r[i] = r[j]
               PROVE  i = j
    BY <1>3 DEF Distinct
  <2>1. (l - i) + 1 = (l - j) + 1
    BY <1>2, <1>3 DEF Distinct, l
  <2> QED
    BY <1>1, <2>1
<1>5. ToSet(r) = ToSet(s)
  <2>1. ToSet(r) = {r[i] : i \in 1 .. l} /\ ToSet(s) = {s[i] : i \in 1 .. l}
    BY <1>1, <1>3 DEF ToSet
  <2>2. ASSUME NEW i \in 1 .. l PROVE s[i] \in {r[k] : k \in 1 .. l}
    <3>1. r[(l - i) + 1] = s[(l - ((l - i) + 1)) + 1]
      BY <1>2, <1>3
    <3>2. r[(l - i) + 1] = s[i]
      BY <1>2, <3>1
    <3> QED
      BY <1>2, <3>2
  <2>3. \A i \in 1 .. l : r[i] \in {s[k] : k \in 1 .. l}
    BY <1>2, <1>3
  <2>4. {r[k] : k \in 1 .. l} = {s[k] : k \in 1 .. l}
    BY <2>2, <2>3
  <2> QED
    BY <2>1, <2>4
<1> QED
  BY <1>3, <1>4, <1>5 DEF l, r

(* The links of a list, as Previous and Following give them.               *)
LEMMA PreviousIs ==
  ASSUME NEW s \in Seq(Items), Distinct(s)
  PROVE  /\ DOMAIN Previous(s) = ToSet(s)
         /\ \A n \in 1 .. Len(s) : Previous(s)[s[n]] = IF n = 1 THEN NULL ELSE s[n - 1]
<1>1. DOMAIN s = 1 .. Len(s) /\ ToSet(s) = {s[n] : n \in 1 .. Len(s)}
  BY LenProperties DEF ToSet
<1> DEFINE at(i) == CHOOSE k \in DOMAIN s : s[k] = i
<1>2. Previous(s) = [i \in ToSet(s) |-> IF at(i) = 1 THEN NULL ELSE s[at(i) - 1]]
  BY DEF Previous
<1>3. ASSUME NEW n \in 1 .. Len(s) PROVE at(s[n]) = n
  <2>1. at(s[n]) \in DOMAIN s /\ s[at(s[n])] = s[n]
    BY <1>1
  <2> QED
    BY <1>1, <2>1 DEF Distinct
<1> HIDE DEF at
<1>4. ASSUME NEW n \in 1 .. Len(s)
      PROVE  Previous(s)[s[n]] = IF n = 1 THEN NULL ELSE s[n - 1]
  <2>1. s[n] \in ToSet(s)
    BY <1>1
  <2>2. Previous(s)[s[n]] = IF at(s[n]) = 1 THEN NULL ELSE s[at(s[n]) - 1]
    BY <1>2, <2>1
  <2> QED
    BY <1>3, <2>2
<1> QED
  BY <1>2, <1>4

LEMMA FollowingIs ==
  ASSUME NEW s \in Seq(Items), Distinct(s)
  PROVE  /\ DOMAIN Following(s) = ToSet(s)
         /\ \A n \in 1 .. Len(s) : Following(s)[s[n]] = IF n = Len(s) THEN NULL ELSE s[n + 1]
<1> DEFINE l == Len(s)
           r == Reverse(s)
<1>1. /\ r \in Seq(Items) /\ Distinct(r) /\ Len(r) = l
      /\ \A i \in 1 .. l : r[i] = s[(l - i) + 1]
      /\ ToSet(r) = ToSet(s)
  BY ReverseKnown
<1>2. l \in Nat
  BY LenProperties
<1>3. Following(s) = Previous(r)
  BY DEF Following
<1> HIDE DEF r, l
<1>4. /\ DOMAIN Previous(r) = ToSet(s)
      /\ \A n \in 1 .. l : Previous(r)[r[n]] = IF n = 1 THEN NULL ELSE r[n - 1]
  BY <1>1, PreviousIs
<1>5. ASSUME NEW n \in 1 .. l
      PROVE  Following(s)[s[n]] = IF n = l THEN NULL ELSE s[n + 1]
  <2> DEFINE k == (l - n) + 1
  <2>1. k \in 1 .. l /\ (l - k) + 1 = n /\ (k = 1 <=> n = l)
    BY <1>2
  <2>2. r[k] = s[n]
    BY <1>1, <2>1
  <2>3. n # l => r[k - 1] = s[n + 1]
    <3> SUFFICES ASSUME n # l PROVE r[k - 1] = s[n + 1]
      OBVIOUS
    <3>1. k - 1 \in 1 .. l /\ (l - (k - 1)) + 1 = n + 1
      BY <1>2
    <3> QED
      BY <1>1, <3>1
  <2> HIDE DEF k
  <2> QED
    BY <1>3, <1>4, <2>1, <2>2, <2>3
<1> QED
  BY <1>3, <1>4, <1>5 DEF l

(* The items of a list in another order.                                   *)
LEMMA SortKeepsLists ==
  ASSUME NEW lists, NEW gone, LinkedAs(lists, gone), NEW p \in AllLists,
         NEW new \in Seq(Items), Distinct(new), new # <<>>,
         ToSet(new) = ToSet(lists[p]), Len(new) = Len(lists[p]),
         head' = [head EXCEPT ![p] = new[1]], tail' = [tail EXCEPT ![p] = Last(new)],
         prev' = Relinked(prev, Previous(new)), next' = Relinked(next, Following(new)),
         count' = count
  PROVE  LinkedAs([lists EXCEPT ![p] = new], gone)'
<1> DEFINE l == Len(new)
           ls == [lists EXCEPT ![p] = new]
<1>1. /\ l \in Nat /\ l # 0 /\ 1 \in 1 .. l /\ l \in 1 .. l /\ Last(new) = new[l]
      /\ \A n \in 1 .. l : new[n] \in Items /\ new[n] \in ToSet(new)
  <2>1. l \in Nat /\ l # 0 /\ DOMAIN new = 1 .. l /\ \A n \in 1 .. l : new[n] \in Items
    BY LenProperties, ElementOfSeq, EmptySeq
  <2> QED
    BY <2>1 DEF ToSet, Last
<1>2. /\ DOMAIN Previous(new) = ToSet(new) /\ DOMAIN Following(new) = ToSet(new)
      /\ \A n \in 1 .. l : /\ Previous(new)[new[n]] = IF n = 1 THEN NULL ELSE new[n - 1]
                           /\ Following(new)[new[n]] = IF n = l THEN NULL ELSE new[n + 1]
  BY PreviousIs, FollowingIs
<1> HIDE DEF l, ls
<1>3. /\ DOMAIN prev' = Items /\ DOMAIN next' = Items
      /\ \A i \in Items \ ToSet(new) : prev'[i] = prev[i] /\ next'[i] = next[i]
      /\ \A i \in ToSet(new) \cap Items : prev'[i] = Previous(new)[i] /\ next'[i] = Following(new)[i]
  BY <1>2 DEF Relinked
<1>4. /\ LinkTypes /\ Forgetting(lists, gone) /\ lists \in [AllLists -> Seq(Items)]
      /\ lists[p] \in Seq(Items)
  BY DEF LinkedAs
<1>5. /\ ls \in [AllLists -> Seq(Items)] /\ ls[p] = new
      /\ \A q \in AllLists : q # p => ls[q] = lists[q]
      /\ \A q \in AllLists : ToSet(ls[q]) = ToSet(lists[q])
  <2>1. ls \in [AllLists -> Seq(Items)] /\ ls[p] = new
        /\ \A q \in AllLists : q # p => ls[q] = lists[q]
    BY <1>4 DEF ls
  <2> QED
    BY <2>1
<1>6. \A n \in 1 .. l : /\ prev'[new[n]] = IF n = 1 THEN NULL ELSE new[n - 1]
                        /\ next'[new[n]] = IF n = l THEN NULL ELSE new[n + 1]
  BY <1>1, <1>2, <1>3
<1>7. \A i \in ToSet(new) : \E n \in 1 .. l : i = new[n]
  BY LenProperties DEF ToSet, l
<1>8. LinkTypes'
  <2>1. ASSUME NEW i \in Items PROVE prev'[i] \in Pointer /\ next'[i] \in Pointer
    <3>1. CASE i \in ToSet(new)
      <4>1. PICK n \in 1 .. l : i = new[n]
        BY <1>7, <3>1
      <4>2. n # 1 => new[n - 1] \in Items
        <5>1. n # 1 => n - 1 \in 1 .. l
          BY <1>1
        <5> QED
          BY <1>1, <5>1
      <4>3. n # l => new[n + 1] \in Items
        <5>1. n # l => n + 1 \in 1 .. l
          BY <1>1
        <5> QED
          BY <1>1, <5>1
      <4> QED
        BY <1>6, <4>1, <4>2, <4>3 DEF Pointer
    <3>2. CASE i \notin ToSet(new)
      BY <1>3, <1>4, <3>2 DEF LinkTypes
    <3> QED
      BY <3>1, <3>2
  <2>2. prev' \in [Items -> Pointer] /\ next' \in [Items -> Pointer]
    BY <2>1 DEF Relinked
  <2>3. new[1] \in Pointer /\ Last(new) \in Pointer
    BY <1>1 DEF Pointer
  <2> QED
    BY <1>4, <2>2, <2>3 DEF LinkTypes
<1>9. Chained(next', new, head'[p]) /\ ChainedBack(prev', new, tail'[p])
  <2>1. head'[p] = new[1] /\ tail'[p] = new[l]
    BY <1>1, <1>4 DEF LinkTypes
  <2> QED
    BY <1>1, <1>6, <2>1 DEF Chained, ChainedBack, l
<1>10. ASSUME NEW q \in AllLists, q # p
       PROVE  Chained(next', lists[q], head'[q]) /\ ChainedBack(prev', lists[q], tail'[q])
  <2>1. /\ lists[q] \in Seq(Items) /\ Chained(next, lists[q], head[q])
        /\ ChainedBack(prev, lists[q], tail[q])
        /\ ToSet(lists[q]) \cap ToSet(new) = {}
    BY <1>10 DEF LinkedAs
  <2>2. ToSet(lists[q]) \subseteq Items
    BY <2>1, LenProperties, ElementOfSeq DEF ToSet
  <2>3. \A i \in ToSet(lists[q]) : next'[i] = next[i] /\ prev'[i] = prev[i]
    BY <1>3, <2>1, <2>2
  <2>4. head'[q] = head[q] /\ tail'[q] = tail[q]
    BY <1>4, <1>10 DEF LinkTypes
  <2> QED
    BY <2>1, <2>3, <2>4, OthersLinked
<1>11. Forgetting(ls, gone)'
  <2>1. gone \in Seq(Items) /\ Distinct(gone) /\ \A q \in AllLists : ToSet(ls[q]) \cap ToSet(gone) = {}
    BY <1>4, <1>5 DEF Forgetting
  <2>2. ToSet(gone) \subseteq Items \ ToSet(new)
    <3>1. ToSet(gone) \subseteq Items
      BY <2>1, LenProperties, ElementOfSeq DEF ToSet
    <3> QED
      BY <1>5, <2>1, <3>1
  <2>3. \A i \in ToSet(gone) : next'[i] = next[i] /\ prev'[i] = prev[i]
    BY <1>3, <2>2
  <2>4. ASSUME gone # <<>>
        PROVE  Chained(next', gone, gone[1]) /\ ChainedBack(prev', gone, gone[Len(gone)])
    <3>1. Chained(next, gone, gone[1]) /\ ChainedBack(prev, gone, gone[Len(gone)])
      BY <1>4, <2>4 DEF Forgetting
    <3> QED
      BY <2>1, <2>3, <3>1, OthersLinked
  <2> QED
    BY <2>1, <2>4 DEF Forgetting
<1>12. \A q \in AllLists : /\ Distinct(ls[q])
                           /\ Chained(next', ls[q], head'[q])
                           /\ ChainedBack(prev', ls[q], tail'[q])
                           /\ count'[q] = Len(ls[q])
  <2> TAKE q \in AllLists
  <2>1. Distinct(lists[q]) /\ count[q] = Len(lists[q])
    BY DEF LinkedAs
  <2>2. CASE q = p
    BY <1>5, <1>9, <2>1, <2>2
  <2>3. CASE q # p
    BY <1>5, <1>10, <2>1, <2>3
  <2> QED
    BY <2>2, <2>3
<1>13. \A q, r \in AllLists : q # r => ToSet(ls[q]) \cap ToSet(ls[r]) = {}
  BY <1>5 DEF LinkedAs
<1>14. \A i \in Items : (\A q \in AllLists : i \notin ToSet(ls[q])) /\ i \notin ToSet(gone)
          => next'[i] = NULL /\ prev'[i] = NULL
  <2> SUFFICES ASSUME NEW i \in Items, \A q \in AllLists : i \notin ToSet(ls[q]), i \notin ToSet(gone)
               PROVE  next'[i] = NULL /\ prev'[i] = NULL
    OBVIOUS
  <2>1. next[i] = NULL /\ prev[i] = NULL
    BY <1>5 DEF LinkedAs
  <2>2. i \notin ToSet(new)
    BY <1>5
  <2> QED
    BY <1>3, <2>1, <2>2
<1>15. LinkedAs(ls, gone)'
  BY <1>5, <1>8, <1>11, <1>12, <1>13, <1>14 DEF LinkedAs
<1> QED
  BY <1>15 DEF ls

(* A list in another order has the same items.                             *)
LEMMA Permuted ==
  ASSUME NEW old \in Seq(Items), Distinct(old), NEW perm \in Bijection(DOMAIN old, DOMAIN old)
  PROVE  /\ [n \in DOMAIN old |-> old[perm[n]]] \in Seq(Items)
         /\ Len([n \in DOMAIN old |-> old[perm[n]]]) = Len(old)
         /\ Distinct([n \in DOMAIN old |-> old[perm[n]]])
         /\ ToSet([n \in DOMAIN old |-> old[perm[n]]]) = ToSet(old)
<1> DEFINE l == Len(old)
           new == [n \in DOMAIN old |-> old[perm[n]]]
<1>1. l \in Nat /\ DOMAIN old = 1 .. l /\ \A n \in 1 .. l : old[n] \in Items
  BY LenProperties, ElementOfSeq
<1>2. /\ perm \in [1 .. l -> 1 .. l]
      /\ \A a, b \in 1 .. l : perm[a] = perm[b] => a = b
      /\ \A b \in 1 .. l : \E a \in 1 .. l : perm[a] = b
  <2>1. perm \in Bijection(1 .. l, 1 .. l)
    BY <1>1
  <2> HIDE DEF l
  <2> QED
    BY <2>1 DEF Bijection, Injection, Surjection, IsInjective
<1>3. new = [n \in 1 .. l |-> old[perm[n]]]
  BY <1>1
<1> HIDE DEF l, new
<1>4. \A n \in 1 .. l : new[n] = old[perm[n]] /\ perm[n] \in 1 .. l
  BY <1>2, <1>3
<1>5. new \in Seq(Items) /\ Len(new) = l /\ DOMAIN new = 1 .. l
  <2>1. \A n \in 1 .. l : old[perm[n]] \in Items
    BY <1>1, <1>4
  <2>2. new \in [1 .. l -> Items]
    BY <1>3, <2>1
  <2> QED
    BY <1>1, <2>2
<1>6. Distinct(new)
  <2> SUFFICES ASSUME NEW a \in 1 .. l, NEW b \in 1 .. l, new[a] = new[b] PROVE a = b
    BY <1>5 DEF Distinct
  <2>1. perm[a] = perm[b]
    BY <1>4 DEF Distinct, l
  <2> QED
    BY <1>2, <2>1
<1>7. ToSet(new) = ToSet(old)
  <2>1. ToSet(new) = {new[n] : n \in 1 .. l} /\ ToSet(old) = {old[n] : n \in 1 .. l}
    BY <1>1, <1>5 DEF ToSet
  <2>2. ASSUME NEW b \in 1 .. l PROVE \E a \in 1 .. l : old[b] = new[a]
    BY <1>2, <1>4, SMTT(30)
  <2>3. \A n \in 1 .. l : new[n] \in {old[k] : k \in 1 .. l}
    BY <1>4
  <2>4. {new[k] : k \in 1 .. l} = {old[k] : k \in 1 .. l}
    BY <2>2, <2>3
  <2> QED
    BY <2>1, <2>4
<1> QED
  BY <1>5, <1>6, <1>7 DEF l, new

LEMMA SortStep ==
  ASSUME NEW lists, NEW gone, State(lists, gone), Sort
  PROVE  \E p \in AllLists, new \in Seq(Items) : \E l2 :
            /\ p = current /\ new # <<>> /\ Distinct(new) /\ ToSet(new) = ToSet(lists[p])
            /\ l2 = [lists EXCEPT ![p] = new] /\ gone = <<>>
            /\ operations' = <<Operation("remove", p, new, NULL)>> \o RemovalRecorded(p, lists[p])
            /\ program' = <<Changed>>
            /\ State(l2, gone)'
<1>1. /\ program = <<>> /\ budget > 0 /\ budget' = budget - 1 /\ head[current] # NULL
      /\ program' = <<Changed>>
      /\ UNCHANGED <<count, current, adding, adder, grouping, stacks, pending, base, failed>>
  BY DEF Sort, Edit, Idle
<1>2. /\ current \in AllLists /\ current \in Lists /\ Typed /\ LinkedAs(lists, gone) /\ LinkTypes
      /\ Tracks(current) = lists[current]
  BY StateSound DEF State, Typed, AllLists, LinkedAs
<1>3. PICK p \in AllLists : p = current
  BY <1>2
<1> DEFINE old == Tracks(current)
<1>4. old \in Seq(Items) /\ old = lists[p] /\ Distinct(old)
  BY <1>2, <1>3 DEF LinkedAs
<1>5. PICK perm \in Bijection(DOMAIN old, DOMAIN old) :
        LET new == [n \in DOMAIN old |-> old[perm[n]]] IN
        /\ head' = [head EXCEPT ![current] = new[1]]
        /\ tail' = [tail EXCEPT ![current] = Last(new)]
        /\ prev' = Relinked(prev, Previous(new))
        /\ next' = Relinked(next, Following(new))
        /\ operations' =
              <<Operation("remove", current, new, NULL)>>
              \o RemovalRecorded(current, old)
        /\ refs' = [i \in Items |-> refs[i] + RemovalRefs(current, old, i)
                                    + InsertionRefs(current, new, i)]
  BY DEF Sort
<1> HIDE DEF old
<1>6. PICK new \in Seq(Items) :
        /\ new = [n \in DOMAIN old |-> old[perm[n]]]
        /\ Len(new) = Len(old) /\ Distinct(new) /\ ToSet(new) = ToSet(old)
  <2> DEFINE x == [n \in DOMAIN old |-> old[perm[n]]]
  <2>1. x \in Seq(Items) /\ Len(x) = Len(old) /\ Distinct(x) /\ ToSet(x) = ToSet(old)
    BY <1>4, Permuted
  <2> QED
    BY <2>1
<1>7. /\ head' = [head EXCEPT ![p] = new[1]] /\ tail' = [tail EXCEPT ![p] = Last(new)]
      /\ prev' = Relinked(prev, Previous(new)) /\ next' = Relinked(next, Following(new))
      /\ operations' = <<Operation("remove", p, new, NULL)>> \o RemovalRecorded(p, old)
      /\ refs' = [i \in Items |-> refs[i] + RemovalRefs(p, old, i) + InsertionRefs(p, new, i)]
  BY <1>3, <1>5, <1>6
<1>8. old # <<>> /\ new # <<>>
  <2>1. Chained(next, old, head[p]) /\ head[p] # NULL
    BY <1>1, <1>2, <1>3, <1>4 DEF LinkedAs
  <2>2. Len(old) # 0
    BY <2>1 DEF Chained
  <2> QED
    BY <1>6, <2>2, EmptySeq
<1> DEFINE ls == [lists EXCEPT ![p] = new]
<1>9. LinkedAs(ls, gone)'
  <2> HIDE DEF Last
  <2> QED
    BY <1>1, <1>2, <1>4, <1>6, <1>7, <1>8, SortKeepsLists
<1>10. \A i : Where(ls, gone, i) = Where(lists, gone, i)
  <2>1. \A q \in AllLists : ToSet(ls[q]) = ToSet(lists[q])
    BY <1>2, <1>4, <1>6 DEF LinkedAs
  <2> HIDE DEF ls
  <2> QED
    BY <2>1 DEF Where
<1> HIDE DEF ls
<1>11. ASSUME NEW i \in Items
       PROVE  /\ operations' \in Seq(OpT)
              /\ Held(operations', i)
                   = Held(operations, i) + RemovalRefs(p, old, i) + InsertionRefs(p, new, i)
              /\ RemovalRefs(p, old, i) \in Nat /\ InsertionRefs(p, new, i) \in Nat
  <2> DEFINE rr == RemovalRecorded(p, old)
             o == Operation("remove", p, new, NULL)
             a == <<o>>
  <2>1. /\ rr \in Seq(OpT) /\ Held(rr, i) = Held(operations, i) + RemovalRefs(p, old, i)
        /\ Held(operations, i) \in Nat /\ RemovalRefs(p, old, i) \in Nat
    BY <1>2, <1>4, <1>8, RemovalHeld DEF Typed, LinkTypes
  <2>2. o \in OpT /\ o.position = NULL /\ o.items = new
    BY <1>2, <1>3, <1>8 DEF Operation, OpT, Pointer
  <2>3. operations' = a \o rr
    BY <1>7
  <2> HIDE DEF rr, o
  <2>4. a \in Seq(OpT) /\ Held(a, i) = (IF o.position = i THEN 1 ELSE 0) + Counted(o.items, {i})
    BY <2>2, HeldFew
  <2>5. Counted(new, {i}) = IF i \in ToSet(new) THEN 1 ELSE 0
    <3>1. new \in Seq(Items) /\ \A m, n \in 1 .. Len(new) : new[m] = new[n] => m = n
      BY <1>6 DEF Distinct
    <3> QED
      BY <3>1, CountDistinct
  <2>6. Held(a, i) = InsertionRefs(p, new, i) /\ InsertionRefs(p, new, i) \in Nat
    BY <1>2, <1>3, <2>2, <2>4, <2>5, Constants DEF InsertionRefs
  <2> HIDE DEF a
  <2>7. a \o rr \in Seq(OpT) /\ Held(a \o rr, i) = Held(a, i) + Held(rr, i)
    BY <2>1, <2>4, HeldBoth
  <2> QED
    BY <2>1, <2>3, <2>6, <2>7
<1>12. operations' \in Seq(OpT)
  <2>1. PICK i \in Items : TRUE
    BY <1>8, FirstAndRest
  <2> QED
    BY <1>11, <2>1
<1>13. <<Changed>> \in Seq(PlainT)
  BY PlainMade
<1>14. program' \in Seq(QuietT) /\ \A i : Gives(program', i) = 0
  BY <1>1, <1>13, PlainGives
<1>15. ProgramFits(program') /\ \A c \in ToSet(program') : c.do \notin {"forget", "finish", "files_end"}
  BY <1>14, QuietFits, LenProperties DEF ToSet
<1>16. gone = <<>> /\ \A i : Running(program, i) = 0 /\ Gives(program, i) = 0
  BY <1>1, NothingGone
<1>17. \A i : Running(program', i) = 0
  BY <1>15, RunningNone DEF FinishesOf
<1>18. Forgets(gone)' /\ Adding'
  BY <1>1, <1>15, <1>16 DEF State, Forgets, Adding
<1>19. Typed'
  <2>1. ASSUME NEW i \in Items PROVE refs[i] + RemovalRefs(p, old, i) + InsertionRefs(p, new, i) \in Int
    BY <1>2, <1>11 DEF Typed
  <2>2. refs' \in [Items -> Int]
    BY <1>7, <2>1
  <2>3. budget' \in 0 .. BUDGET
    BY <1>1, <1>2, BudgetSpent
  <2> QED
    BY <1>1, <1>2, <1>12, <2>2, <2>3 DEF Typed, stacks
<1>20. ASSUME NEW i \in Items
       PROVE  refs'[i] = Where(ls, gone, i)
              + (Held(operations', i) + Held(OperationsOf(undo_stack'), i)
                 + Held(OperationsOf(redo_stack'), i))
              + Running(program', i) + Gives(program', i)
  <2> DEFINE h == Held(operations, i)
             u == Held(OperationsOf(undo_stack), i)
             d == Held(OperationsOf(redo_stack), i)
             w == Where(lists, gone, i)
             m == refs[i]
             x == RemovalRefs(p, old, i)
             y == InsertionRefs(p, new, i)
  <2>1. /\ h \in Nat /\ u \in Nat /\ d \in Nat /\ w \in {0, 1} /\ m = w + (h + u + d) + 0 + 0
        /\ x \in Nat /\ y \in Nat
    BY <1>11, <1>16, StateCounts DEF State, Balanced, HeldByUndo
  <2>2. /\ refs'[i] = m + x + y
        /\ Held(operations', i) = h + x + y /\ Held(OperationsOf(undo_stack'), i) = u
        /\ Held(OperationsOf(redo_stack'), i) = d
        /\ Running(program', i) = 0 /\ Gives(program', i) = 0 /\ Where(ls, gone, i) = w
    BY <1>1, <1>7, <1>10, <1>11, <1>14, <1>17 DEF stacks
  <2> HIDE DEF h, u, d, w, m, x, y
  <2>3. m + x + y = w + (h + x + y + u + d) + 0 + 0
    BY <2>1
  <2> QED
    BY <2>2, <2>3
<1>21. State(ls, gone)'
  BY <1>9, <1>15, <1>18, <1>19, <1>20, Assembled
<1> QED
  BY <1>1, <1>3, <1>4, <1>6, <1>7, <1>8, <1>16, <1>21 DEF ls

-----------------------------------------------------------------------------
(* The start.                                                              *)

LEMMA InitialKnown ==
  /\ \A p \in AllLists : Initial[p] \in Seq(Items) /\ Distinct(Initial[p])
  /\ \A p, q \in AllLists : p # q => ToSet(Initial[p]) \cap ToSet(Initial[q]) = {}
<1>1. \A p \in AllLists : Initial[p] \in Seq(Items) /\ DOMAIN Initial[p] = 1 .. Len(Initial[p])
  BY PlaylistAssumption, LenProperties
<1>2. \A p \in AllLists : Distinct(Initial[p])
  BY <1>1, PlaylistAssumption DEF IsInjective, Distinct
<1> QED
  BY <1>1, <1>2, PlaylistAssumption

InitialSeqs == [p \in AllLists |-> Initial[p]]

\* The lists that i is in at the start, one at most.
ListsWith(i) == {p \in AllLists : i \in ToSet(Initial[p])}

LEMMA ListsWithOne ==
  ASSUME NEW p \in AllLists, NEW i \in ToSet(Initial[p])
  PROVE  ListsWith(i) = {p}
  BY InitialKnown DEF ListsWith

LEMMA InitialRefs ==
  ASSUME NEW i
  PROVE  Cardinality(ListsWith(i)) = Where(InitialSeqs, <<>>, i)
<1>1. CASE \E p \in AllLists : i \in ToSet(Initial[p])
  <2>1. PICK p \in AllLists : i \in ToSet(Initial[p])
    BY <1>1
  <2>2. ListsWith(i) = {p}
    BY <2>1, ListsWithOne
  <2>3. Cardinality(ListsWith(i)) = 1
    BY <2>2, FS_Singleton, Zenon
  <2> QED
    BY <2>1, <2>3 DEF Where, InitialSeqs
<1>2. CASE ~\E p \in AllLists : i \in ToSet(Initial[p])
  <2>1. ListsWith(i) = {}
    BY <1>2 DEF ListsWith
  <2>2. Cardinality(ListsWith(i)) = 0
    BY <2>1, FS_EmptySet, Zenon
  <2> QED
    BY <1>2, <2>2 DEF Where, InitialSeqs, ToSet
<1> QED
  BY <1>1, <1>2

(* The links of all lists, made from those of each.                        *)
LEMMA InitialLinks ==
  ASSUME Init
  PROVE  /\ \A i \in Items : next[i] = IF ListsWith(i) = {} THEN NULL
                                       ELSE Following(Initial[CHOOSE q \in ListsWith(i) : TRUE])[i]
         /\ \A i \in Items : prev[i] = IF ListsWith(i) = {} THEN NULL
                                       ELSE Previous(Initial[CHOOSE q \in ListsWith(i) : TRUE])[i]
         /\ DOMAIN next = Items /\ DOMAIN prev = Items
         /\ next = [i \in Items |-> next[i]] /\ prev = [i \in Items |-> prev[i]]
<1>1. next = [i \in Items |-> IF ListsWith(i) = {} THEN NULL
                              ELSE Following(Initial[CHOOSE q \in ListsWith(i) : TRUE])[i]]
  BY DEF Init, ListsWith
<1>2. prev = [i \in Items |-> IF ListsWith(i) = {} THEN NULL
                              ELSE Previous(Initial[CHOOSE q \in ListsWith(i) : TRUE])[i]]
  BY DEF Init, ListsWith
<1> QED
  BY <1>1, <1>2

LEMMA InitialLinked ==
  ASSUME Init
  PROVE  LinkedAs(InitialSeqs, <<>>)
<1>1. /\ head = [p \in AllLists |-> IF Initial[p] = <<>> THEN NULL ELSE Initial[p][1]]
      /\ tail = [p \in AllLists |-> IF Initial[p] = <<>> THEN NULL
                                    ELSE Initial[p][Len(Initial[p])]]
      /\ count = [p \in AllLists |-> Len(Initial[p])]
  BY DEF Init
<1>2. \A p \in AllLists : /\ Len(Initial[p]) \in Nat
                          /\ (Initial[p] = <<>> <=> Len(Initial[p]) = 0)
                          /\ \A n \in 1 .. Len(Initial[p]) : /\ Initial[p][n] \in Items
                                                            /\ Initial[p][n] \in ToSet(Initial[p])
  <2> TAKE p \in AllLists
  <2> DEFINE s == Initial[p]
  <2>1. s \in Seq(Items)
    BY InitialKnown
  <2> HIDE DEF s
  <2>2. Len(s) \in Nat /\ (s = <<>> <=> Len(s) = 0) /\ DOMAIN s = 1 .. Len(s)
    BY <2>1, LenProperties, EmptySeq
  <2>3. \A n \in 1 .. Len(s) : s[n] \in Items /\ s[n] \in ToSet(s)
    BY <2>1, <2>2, ElementOfSeq DEF ToSet
  <2> QED
    BY <2>2, <2>3 DEF s
<1>3. ASSUME NEW p \in AllLists, NEW n \in 1 .. Len(Initial[p])
      PROVE  /\ next[Initial[p][n]] = IF n = Len(Initial[p]) THEN NULL ELSE Initial[p][n + 1]
             /\ prev[Initial[p][n]] = IF n = 1 THEN NULL ELSE Initial[p][n - 1]
  <2> DEFINE s == Initial[p]
             i == s[n]
             q == CHOOSE q \in ListsWith(i) : TRUE
  <2>1. s \in Seq(Items) /\ Distinct(s) /\ i \in Items /\ i \in ToSet(s)
    BY <1>2, InitialKnown
  <2>2. ListsWith(i) = {p}
    BY <2>1, ListsWithOne
  <2>3. q = p /\ ListsWith(i) # {}
    BY <2>2
  <2> HIDE DEF s, i, q
  <2>4. /\ next[i] = Following(Initial[q])[i]
        /\ prev[i] = Previous(Initial[q])[i]
    BY <2>1, <2>3, InitialLinks DEF q
  <2>5. next[i] = Following(s)[i] /\ prev[i] = Previous(s)[i]
    BY <2>3, <2>4 DEF s
  <2>6. n \in 1 .. Len(s)
    BY DEF s
  <2>7. /\ Following(s)[s[n]] = IF n = Len(s) THEN NULL ELSE s[n + 1]
        /\ Previous(s)[s[n]] = IF n = 1 THEN NULL ELSE s[n - 1]
    BY <2>1, <2>6, FollowingIs, PreviousIs
  <2> QED
    BY <2>5, <2>7 DEF s, i
<1>4. ASSUME NEW i \in Items, \A p \in AllLists : i \notin ToSet(Initial[p])
      PROVE  next[i] = NULL /\ prev[i] = NULL
  <2>1. ListsWith(i) = {}
    BY <1>4 DEF ListsWith
  <2> QED
    BY <2>1, InitialLinks
<1>5. ASSUME NEW i \in Items PROVE next[i] \in Pointer /\ prev[i] \in Pointer
  <2>1. CASE \A p \in AllLists : i \notin ToSet(Initial[p])
    BY <1>4, <2>1 DEF Pointer
  <2>2. CASE \E p \in AllLists : i \in ToSet(Initial[p])
    <3>1. PICK p \in AllLists : i \in ToSet(Initial[p])
      BY <2>2
    <3> DEFINE s == Initial[p]
    <3>2. s \in Seq(Items)
      BY InitialKnown
    <3>3. \A n \in 1 .. Len(s) : /\ s[n] \in Items
                                 /\ next[s[n]] = IF n = Len(s) THEN NULL ELSE s[n + 1]
                                 /\ prev[s[n]] = IF n = 1 THEN NULL ELSE s[n - 1]
      BY <1>2, <1>3
    <3>4. i \in ToSet(s)
      BY <3>1
    <3> HIDE DEF s
    <3>5. Len(s) \in Nat /\ DOMAIN s = 1 .. Len(s)
      BY <3>2, LenProperties
    <3>6. PICK n \in 1 .. Len(s) : s[n] = i
      BY <3>4, <3>5 DEF ToSet
    <3>7. next[i] = NULL \/ next[i] \in Items
      <4>1. CASE n = Len(s)
        BY <3>3, <3>6, <4>1
      <4>2. CASE n # Len(s)
        <5> DEFINE l == Len(s)
        <5>2. l \in Nat /\ n \in 1 .. l /\ n # l
          BY <3>5, <4>2
        <5> HIDE DEF l
        <5>3. n + 1 \in 1 .. l
          BY <5>2
        <5>1. n + 1 \in 1 .. Len(s)
          BY <5>3 DEF l
        <5> QED
          BY <3>3, <3>6, <4>2, <5>1, SMTT(30)
      <4> QED
        BY <4>1, <4>2
    <3>8. prev[i] = NULL \/ prev[i] \in Items
      <4>1. CASE n = 1
        BY <3>3, <3>6, <4>1
      <4>2. CASE n # 1
        <5>1. n - 1 \in 1 .. Len(s)
          BY <3>5, <4>2
        <5> QED
          BY <3>3, <3>6, <4>2, <5>1
      <4> QED
        BY <4>1, <4>2
    <3> QED
      BY <3>7, <3>8 DEF Pointer
  <2> QED
    BY <2>1, <2>2
<1>6. LinkTypes
  <2>1. next \in [Items -> Pointer] /\ prev \in [Items -> Pointer]
    BY <1>5, InitialLinks
  <2>2. \A p \in AllLists : head[p] \in Pointer /\ tail[p] \in Pointer /\ count[p] \in Nat
    <3> TAKE p \in AllLists
    <3> DEFINE l == Len(Initial[p])
    <3>1. l \in Nat /\ (Initial[p] # <<>> => 1 \in 1 .. l /\ l \in 1 .. l)
      BY <1>2
    <3>2. \A n \in 1 .. l : Initial[p][n] \in Items
      BY <1>2
    <3>3. count[p] = l
      BY <1>1
    <3> HIDE DEF l
    <3>4. Initial[p] # <<>> => Initial[p][1] \in Items /\ Initial[p][l] \in Items
      BY <3>1, <3>2
    <3>5. /\ head[p] = (IF Initial[p] = <<>> THEN NULL ELSE Initial[p][1])
          /\ tail[p] = (IF Initial[p] = <<>> THEN NULL ELSE Initial[p][l])
      BY <1>1 DEF l
    <3> QED
      BY <3>1, <3>3, <3>4, <3>5 DEF Pointer
  <2>3. /\ head = [p \in AllLists |-> head[p]] /\ tail = [p \in AllLists |-> tail[p]]
        /\ count = [p \in AllLists |-> count[p]]
    BY <1>1
  <2> QED
    BY <2>1, <2>2, <2>3 DEF LinkTypes
<1>7. \A p \in AllLists : InitialSeqs[p] = Initial[p]
  BY DEF InitialSeqs
<1>8. ASSUME NEW p \in AllLists
      PROVE  /\ Distinct(Initial[p])
             /\ Chained(next, Initial[p], head[p]) /\ ChainedBack(prev, Initial[p], tail[p])
             /\ count[p] = Len(Initial[p])
  BY <1>1, <1>2, <1>3, InitialKnown DEF Chained, ChainedBack
<1>9. Forgetting(InitialSeqs, <<>>)
  <2>1. <<>> \in Seq(Items) /\ Len(<<>>) = 0 /\ ToSet(<<>>) = {}
    BY DEF ToSet
  <2> QED
    BY <2>1 DEF Forgetting, Distinct
<1>10. InitialSeqs \in [AllLists -> Seq(Items)]
  BY InitialKnown DEF InitialSeqs
<1>11. \A p, q \in AllLists : p # q => ToSet(InitialSeqs[p]) \cap ToSet(InitialSeqs[q]) = {}
  BY <1>7, InitialKnown
<1>12. \A i \in Items :
        (\A p \in AllLists : i \notin ToSet(InitialSeqs[p])) => next[i] = NULL /\ prev[i] = NULL
  BY <1>4, <1>7
<1>13. \A p \in AllLists :
        /\ Distinct(InitialSeqs[p])
        /\ Chained(next, InitialSeqs[p], head[p]) /\ ChainedBack(prev, InitialSeqs[p], tail[p])
        /\ count[p] = Len(InitialSeqs[p])
  BY <1>7, <1>8
<1> QED
  BY <1>6, <1>9, <1>10, <1>11, <1>12, <1>13 DEF LinkedAs

LEMMA InitStep ==
  ASSUME Init
  PROVE  State(InitialSeqs, <<>>)
<1>1. /\ refs = [i \in Items |-> Cardinality(ListsWith(i))]
      /\ current \in Lists /\ adding = NULL /\ adder = NoAdder
      /\ operations = <<>> /\ grouping = FALSE /\ undo_stack = <<>> /\ redo_stack = <<>>
      /\ pending = FALSE /\ program = <<>> /\ base = [p \in Lists |-> Initial[p]]
      /\ failed = FALSE /\ budget = BUDGET
  BY DEF Init, ListsWith
<1>2. \A i \in Items : refs[i] = Where(InitialSeqs, <<>>, i) /\ refs[i] \in {0, 1}
  BY <1>1, InitialRefs DEF Where
<1>3. Typed
  <2>1. refs \in [Items -> Int]
    <3>1. refs = [i \in Items |-> refs[i]]
      BY <1>1
    <3> QED
      BY <1>2, <3>1
  <2>2. adder \in [after : Pointer, left : 0 .. CLI_FILES]
    BY <1>1, PlaylistAssumption DEF NoAdder, Pointer
  <2>3. base \in [Lists -> Seq(Items)]
    BY <1>1, InitialKnown DEF AllLists
  <2>4. budget \in 0 .. BUDGET
    BY <1>1, PlaylistAssumption
  <2>5. operations \in Seq(OpT) /\ undo_stack \in Seq(EntryT) /\ redo_stack \in Seq(EntryT)
    BY <1>1
  <2> QED
    BY <1>1, <2>1, <2>2, <2>3, <2>4, <2>5 DEF Typed
<1>4. /\ ProgramFits(program) /\ ToSet(program) = {}
      /\ \A i : Running(program, i) = 0 /\ Gives(program, i) = 0
  BY <1>1, EmptyProgram
<1>5. Adding
  BY <1>1, <1>4 DEF Adding, NoAdder
<1>6. Forgets(<<>>)
  BY <1>4 DEF Forgets
<1>7. \A i : HeldByUndo(i) = 0
  BY <1>1, NothingHeld DEF HeldByUndo
<1>8. Balanced(InitialSeqs, <<>>)
  <2> SUFFICES ASSUME NEW i \in Items
               PROVE  refs[i] = Where(InitialSeqs, <<>>, i) + HeldByUndo(i) + Running(program, i)
                                + Gives(program, i)
    BY DEF Balanced
  <2> DEFINE w == Where(InitialSeqs, <<>>, i)
  <2>1. refs[i] = w /\ w \in {0, 1} /\ HeldByUndo(i) = 0 /\ Running(program, i) = 0
        /\ Gives(program, i) = 0
    BY <1>2, <1>4, <1>7
  <2> HIDE DEF w
  <2>2. w = w + 0 + 0 + 0
    BY <2>1
  <2>3. refs[i] = w + HeldByUndo(i) + Running(program, i) + Gives(program, i)
    BY <2>1, <2>2
  <2> QED
    BY <2>3 DEF w
<1> QED
  BY <1>3, <1>4, <1>5, <1>6, <1>8, InitialLinked DEF State

-----------------------------------------------------------------------------
(* Every step.                                                             *)

LEMMA NextStep ==
  ASSUME NEW lists, NEW gone, State(lists, gone), [Next]_vars, CallsFit
  PROVE  PlaylistInv'
<1> SUFFICES \E l2, g2 : State(l2, g2)'
  BY DEF PlaylistInv
<1>1. CASE DoGroup \/ DoEndGroup \/ DoUnlock \/ DoChanged
  BY <1>1, GroupStep
<1>2. CASE DoFilesEnd
  BY <1>2, FilesEndStep
<1>3. CASE DoRemove
  BY <1>3, RemoveStep
<1>4. CASE DoInsert
  BY <1>4, InsertStep
<1>5. CASE DoForget
  BY <1>5, ForgetStep
<1>6. CASE DoMove
  BY <1>6, MoveStep
<1>7. CASE DoFinish
  BY <1>7, FinishStep
<1>8. CASE Process
  BY <1>8, ProcessStep
<1>9. CASE Switch \/ AddFiles \/ CommandLine \/ CommandLineEnd
  BY <1>9, ViewStep
<1>10. CASE CommandLineFile
  BY <1>10, CommandLineFileStep
<1>11. CASE Undo \/ Redo
  BY <1>11, UndoStep
<1>12. CASE DeleteSelected \/ CropSelected
  BY <1>12, SelectedStep
<1>13. CASE Clear
  BY <1>13, ClearStep
<1>14. CASE MoveItems
  BY <1>14, MoveItemsStep
<1>15. CASE CopyItem
  BY <1>15, CopyItemStep
<1>16. CASE Sort
  BY <1>16, SortStep
<1>17. CASE FilesRead
  BY <1>17, FilesReadStep
<1>18. CASE UNCHANGED vars
  <2>1. UNCHANGED <<links, refs, operations, stacks, program>>
    BY <1>18 DEF vars
  <2>2. Typed'
    BY <1>18 DEF vars, stacks, State, Typed
  <2>3. Adding'
    BY <1>18 DEF vars, State, Adding
  <2>4. State(lists, gone)'
    BY <2>1, <2>2, <2>3, Untouched
  <2> QED
    BY <2>4
<1>19. Next \/ UNCHANGED vars
  OBVIOUS
<1> QED
  BY <1>1, <1>2, <1>3, <1>4, <1>5, <1>6, <1>7, <1>8, <1>9, <1>10, <1>11, <1>12, <1>13, <1>14,
     <1>15, <1>16, <1>17, <1>18, <1>19 DEF Next, Calls, User, Background

(* While the callers of plt_insert_item and plt_remove_item keep to their  *)
(* contract, the lists are linked as sequences of items and each reference *)
(* is accounted for: the inductive invariant.                              *)
THEOREM PlaylistInvariant == Spec /\ []CallsFit => []PlaylistInv
<1>1. Init => PlaylistInv
  BY InitStep DEF PlaylistInv
<1>2. PlaylistInv /\ CallsFit /\ [Next]_vars => PlaylistInv'
  BY NextStep DEF PlaylistInv
<1> QED
  BY <1>1, <1>2, PTL DEF Spec

LEMMA InvSound ==
  ASSUME PlaylistInv
  PROVE  TypeOK /\ ListsSound /\ RefsBalanced
  BY StateSound DEF PlaylistInv

(* Whatever is done and undone, as long as the callers keep to their       *)
(* contract: each list reads the same from head and tail and is as long as *)
(* it is counted, an item is in one list at most, an item in none has no   *)
(* neighbours, and plt_insert_item's assertions hold.                      *)
THEOREM ListsStaySound == Spec /\ []CallsFit => []ListsSound
<1>1. PlaylistInv => ListsSound
  BY InvSound
<1> QED
  BY <1>1, PlaylistInvariant, PTL

(* And an item's reference count is the number of places that refer to it: *)
(* its list, the operations that could bring it back or name it as the     *)
(* place to do so, and the calls under way (pl_item_ref, pl_item_unref).   *)
THEOREM RefsStayBalanced == Spec /\ []CallsFit => []RefsBalanced
<1>1. PlaylistInv => RefsBalanced
  BY InvSound
<1> QED
  BY <1>1, PlaylistInvariant, PTL

(* The variables keep their types; no reference count goes below zero.     *)
THEOREM PlaylistTypes == Spec /\ []CallsFit => []TypeOK
<1>1. PlaylistInv => TypeOK
  BY InvSound
<1> QED
  BY <1>1, PlaylistInvariant, PTL

-----------------------------------------------------------------------------
(* The items at which lists are cut.                                       *)

(* The last element, NULL if there is none: what plt_insert_item puts an   *)
(* item after.                                                             *)
EndOf(u) == IF u = <<>> THEN NULL ELSE u[Len(u)]

LEMMA EndKnown ==
  ASSUME NEW A, NEW u \in Seq(A)
  PROVE  /\ EndOf(u) \in ToSet(u) \cup {NULL} /\ EndOf(u) \in A \cup {NULL}
         /\ EndOf(<<>>) = NULL
         /\ \A x \in A : EndOf(Then(u, One(x))) = x
         /\ Len(u) = 0 <=> u = <<>>
<1>1. Len(u) \in Nat /\ DOMAIN u = 1 .. Len(u) /\ (Len(u) = 0 <=> u = <<>>)
  BY LenProperties, EmptySeq
<1>2. u # <<>> => u[Len(u)] \in ToSet(u) /\ u[Len(u)] \in A
  <2> SUFFICES ASSUME u # <<>> PROVE u[Len(u)] \in ToSet(u) /\ u[Len(u)] \in A
    OBVIOUS
  <2>1. Len(u) \in 1 .. Len(u)
    BY <1>1
  <2> QED
    BY <1>1, <2>1, ElementOfSeq DEF ToSet
<1>3. ASSUME NEW x \in A PROVE EndOf(Then(u, One(x))) = x
  <2> DEFINE w == Then(u, One(x))
  <2>1. w = Append(u, x)
    BY AppendIsConcat DEF One, Then
  <2> HIDE DEF w
  <2>2. w # <<>> /\ Len(w) = Len(u) + 1 /\ w[Len(u) + 1] = x
    BY <2>1, AppendProperties
  <2>3. EndOf(w) = x
    BY <2>2 DEF EndOf
  <2> QED
    BY <2>3 DEF w
<1> QED
  BY <1>1, <1>2, <1>3 DEF EndOf

(* An item that is in a sequence once divides it in one way.               *)
LEMMA DistinctThree ==
  ASSUME NEW A, NEW u \in Seq(A), NEW x \in A, NEW v \in Seq(A), Distinct(With(u, x, v))
  PROVE  /\ x \notin ToSet(u) /\ x \notin ToSet(v) /\ ToSet(u) \cap ToSet(v) = {}
         /\ Distinct(Then(u, v))
<1> DEFINE w == With(u, x, v)
           l == Len(u)
           m == Len(v)
<1>1. /\ l \in Nat /\ m \in Nat /\ Len(w) = l + 1 + m
      /\ \A i \in 1 .. l + 1 + m :
           w[i] = IF i <= l THEN u[i] ELSE IF i = l + 1 THEN x ELSE v[i - (l + 1)]
  BY Three
<1>2. /\ Len(Then(u, v)) = l + m
      /\ \A i \in 1 .. l + m : Then(u, v)[i] = IF i <= l THEN u[i] ELSE v[i - l]
  BY Two
<1>3. /\ ToSet(u) = {u[i] : i \in 1 .. l} /\ ToSet(v) = {v[i] : i \in 1 .. m}
  BY LenProperties DEF ToSet
<1>4. Distinct(w)
  OBVIOUS
<1> DEFINE z == Then(u, v)
<1> HIDE DEF w, l, m, z
<1>5. \A i, j \in 1 .. l + 1 + m : w[i] = w[j] => i = j
  BY <1>1, <1>4 DEF Distinct
<1>6. \A i \in 1 .. l : i \in 1 .. l + 1 + m /\ w[i] = u[i]
  BY <1>1
<1>7. \A i \in 1 .. m : i + l + 1 \in 1 .. l + 1 + m /\ w[i + l + 1] = v[i]
  <2> TAKE i \in 1 .. m
  <2>1. /\ i + l + 1 \in 1 .. l + 1 + m /\ ~(i + l + 1 <= l) /\ i + l + 1 # l + 1
        /\ (i + l + 1) - (l + 1) = i
    BY <1>1
  <2> QED
    BY <1>1, <2>1
<1>8. l + 1 \in 1 .. l + 1 + m /\ w[l + 1] = x
  BY <1>1
<1>9. x \notin ToSet(u)
  BY <1>1, <1>3, <1>5, <1>6, <1>8
<1>10. x \notin ToSet(v)
  BY <1>1, <1>3, <1>5, <1>7, <1>8
<1>11. ToSet(u) \cap ToSet(v) = {}
  BY <1>1, <1>3, <1>5, <1>6, <1>7
<1>12. Distinct(z)
  <2> DEFINE g(i) == IF i <= l THEN i ELSE i + 1
  <2>1. \A i \in 1 .. l + m : g(i) \in 1 .. l + 1 + m /\ w[g(i)] = z[i]
    <3> TAKE i \in 1 .. l + m
    <3>1. CASE i <= l
      BY <1>1, <1>2, <3>1 DEF z, l, m
    <3>2. CASE ~(i <= l)
      <4>1. i + 1 \in 1 .. l + 1 + m /\ ~(i + 1 <= l) /\ i + 1 # l + 1 /\ (i + 1) - (l + 1) = i - l
        BY <1>1, <3>2
      <4>2. w[i + 1] = v[i - l]
        BY <1>1, <4>1
      <4>3. z[i] = v[i - l]
        BY <1>2, <3>2 DEF z, l, m
      <4> QED
        BY <3>2, <4>1, <4>2, <4>3
    <3> QED
      BY <3>1, <3>2
  <2>2. \A i, j \in 1 .. l + m : g(i) = g(j) => i = j
    BY <1>1
  <2> HIDE DEF g
  <2>3. \A i, j \in 1 .. l + m : z[i] = z[j] => i = j
    BY <1>5, <2>1, <2>2
  <2>4. Len(z) = l + m
    BY <1>2 DEF z, l, m
  <2> QED
    BY <2>3, <2>4 DEF Distinct
<1> QED
  BY <1>9, <1>10, <1>11, <1>12 DEF z

LEMMA EndsOnce ==
  ASSUME NEW u \in Seq(Items), NEW v \in Seq(Items), NEW a \in Seq(Items), NEW b \in Seq(Items),
         Distinct(Then(u, v)), Then(u, v) = Then(a, b), EndOf(u) = EndOf(a)
  PROVE  u = a /\ v = b
<1> DEFINE w == Then(u, v)
           y == Then(a, b)
<1>1. /\ Len(u) \in Nat /\ Len(v) \in Nat /\ Len(w) = Len(u) + Len(v)
      /\ \A i \in 1 .. Len(u) + Len(v) : w[i] = IF i <= Len(u) THEN u[i] ELSE v[i - Len(u)]
  BY Two
<1>2. /\ Len(a) \in Nat /\ Len(b) \in Nat /\ Len(y) = Len(a) + Len(b)
      /\ \A i \in 1 .. Len(a) + Len(b) : y[i] = IF i <= Len(a) THEN a[i] ELSE b[i - Len(a)]
  BY Two
<1>3. w = y /\ Distinct(w)
  OBVIOUS
<1>4. /\ Len(u) = 0 <=> u = <<>>
      /\ Len(a) = 0 <=> a = <<>>
  BY EndKnown
<1>5. /\ u # <<>> => u[Len(u)] \in Items
      /\ a # <<>> => a[Len(a)] \in Items
  <2>1. u # <<>> => Len(u) \in 1 .. Len(u)
    BY <1>1, <1>4
  <2>2. a # <<>> => Len(a) \in 1 .. Len(a)
    BY <1>2, <1>4
  <2> QED
    BY <2>1, <2>2, ElementOfSeq
<1> HIDE DEF w, y
<1>6. Len(u) = Len(a)
  <2>1. CASE u = <<>>
    <3>1. EndOf(u) = NULL
      BY <2>1 DEF EndOf
    <3>2. a = <<>>
      BY <1>5, <3>1, Constants DEF EndOf
    <3> QED
      BY <2>1, <3>2
  <2>2. CASE u # <<>>
    <3>1. EndOf(u) = u[Len(u)] /\ u[Len(u)] # NULL
      BY <1>5, <2>2, Constants DEF EndOf
    <3>2. a # <<>> /\ a[Len(a)] = u[Len(u)]
      BY <3>1 DEF EndOf
    <3>3. Len(u) \in 1 .. Len(w) /\ w[Len(u)] = u[Len(u)]
      BY <1>1, <1>4, <2>2
    <3>4. Len(a) \in 1 .. Len(y) /\ y[Len(a)] = a[Len(a)]
      BY <1>2, <1>4, <3>2
    <3> QED
      BY <1>3, <3>2, <3>3, <3>4 DEF Distinct
  <2> QED
    BY <2>1, <2>2
<1> QED
  BY <1>6, SameLength

LEMMA RemovedParts ==
  ASSUME NEW u \in Seq(Items), NEW x \in Items, NEW v \in Seq(Items),
         NEW s, s = With(u, x, v), Distinct(s), NEW k \in 1 .. Len(s), s[k] = x
  PROVE  RemoveAt(s, k) = Then(u, v)
<1> DEFINE l == Len(u)
           m == Len(v)
           z == Then(u, v)
           r == RemoveAt(s, k)
<1>1. /\ s \in Seq(Items) /\ l \in Nat /\ m \in Nat /\ Len(s) = l + 1 + m
      /\ \A i \in 1 .. l + 1 + m :
            s[i] = IF i <= l THEN u[i] ELSE IF i = l + 1 THEN x ELSE v[i - (l + 1)]
  <2>1. PartsOf(With(u, x, v), u, x, v) /\ With(u, x, v) \in Seq(Items)
    BY PartsKnown
  <2>2. PartsOf(s, u, x, v) /\ s \in Seq(Items)
    BY <2>1
  <2> QED
    BY <2>2 DEF PartsOf
<1>2. /\ z \in Seq(Items) /\ Len(z) = l + m
      /\ \A i \in 1 .. l + m : z[i] = IF i <= l THEN u[i] ELSE v[i - l]
  BY Two
<1> HIDE DEF z, l, m
<1>3. k = l + 1
  <2>1. l + 1 \in 1 .. Len(s) /\ s[l + 1] = x
    BY <1>1
  <2> QED
    BY <2>1 DEF Distinct
<1>4. /\ r \in Seq(Items) /\ Len(r) = Len(s) - 1
      /\ \A i \in 1 .. Len(s) - 1 : r[i] = IF i < k THEN s[i] ELSE s[i + 1]
  BY <1>1, RemoveAtElements
<1> HIDE DEF r
<1>5. Len(r) = l + m
  BY <1>1, <1>4
<1>6. ASSUME NEW i \in 1 .. l + m PROVE r[i] = z[i]
  <2>1. r[i] = IF i < k THEN s[i] ELSE s[i + 1]
    BY <1>1, <1>4
  <2>2. CASE i <= l
    <3>1. i < k /\ i \in 1 .. l + 1 + m
      BY <1>1, <1>3, <2>2
    <3> QED
      BY <1>1, <1>2, <2>1, <2>2, <3>1
  <2>3. CASE ~(i <= l)
    <3>1. ~(i < k) /\ i + 1 \in 1 .. l + 1 + m /\ ~(i + 1 <= l) /\ i + 1 # l + 1
          /\ (i + 1) - (l + 1) = i - l
      BY <1>1, <1>3, <2>3
    <3>2. s[i + 1] = v[i - l]
      BY <1>1, <3>1
    <3>3. z[i] = v[i - l]
      BY <1>2, <2>3
    <3> QED
      BY <2>1, <3>1, <3>2, <3>3
  <2> QED
    BY <2>2, <2>3
<1>7. r = z
  BY <1>2, <1>4, <1>5, <1>6, SeqEqual
<1> QED
  BY <1>7 DEF r, z

LEMMA InsertedParts ==
  ASSUME NEW u \in Seq(Items), NEW x \in Items, NEW v \in Seq(Items),
         NEW s, s = Then(u, v), Distinct(s), NEW k \in 0 .. Len(s),
         EndOf(u) = IF k = 0 THEN NULL ELSE s[k]
  PROVE  InsertAt(s, k + 1, x) = With(u, x, v)
<1> DEFINE l == Len(u)
           m == Len(v)
           z == With(u, x, v)
           r == InsertAt(s, k + 1, x)
<1>1. /\ z \in Seq(Items) /\ l \in Nat /\ m \in Nat /\ Len(z) = l + 1 + m
      /\ \A i \in 1 .. l + 1 + m :
            z[i] = IF i <= l THEN u[i] ELSE IF i = l + 1 THEN x ELSE v[i - (l + 1)]
  BY Three
<1>2. /\ s \in Seq(Items) /\ Len(s) = l + m
      /\ \A i \in 1 .. l + m : s[i] = IF i <= l THEN u[i] ELSE v[i - l]
  BY Two
<1> HIDE DEF z
<1>3. k = l
  <2>1. PICK a \in Seq(Items), b \in Seq(Items) : s = Then(a, b) /\ Len(a) = k
    BY <1>2, CutAt
  <2>2. EndOf(a) = IF k = 0 THEN NULL ELSE s[k]
    <3>0. Len(a) \in Nat /\ Len(b) \in Nat /\ (Len(a) = 0 <=> a = <<>>)
      BY Two, EndKnown
    <3>1. CASE k = 0
      BY <2>1, <3>0, <3>1 DEF EndOf
    <3>2. CASE k # 0
      <4> DEFINE y == Then(a, b)
      <4>1. \A i \in 1 .. Len(a) + Len(b) : y[i] = IF i <= Len(a) THEN a[i] ELSE b[i - Len(a)]
        BY Two
      <4>2. s = y /\ k = Len(a)
        BY <2>1
      <4> HIDE DEF y
      <4>3. k \in 1 .. Len(a) + Len(b) /\ k <= Len(a)
        BY <3>0, <3>2, <4>2
      <4>4. s[k] = a[k]
        BY <4>1, <4>2, <4>3
      <4>5. EndOf(a) = a[k]
        BY <3>0, <3>2, <4>2 DEF EndOf
      <4> QED
        BY <3>2, <4>4, <4>5
    <3> QED
      BY <3>1, <3>2
  <2>3. u = a
    BY <2>1, <2>2, EndsOnce
  <2> QED
    BY <2>1, <2>3
<1>4. /\ r \in Seq(Items) /\ Len(r) = Len(s) + 1
      /\ \A i \in 1 .. Len(s) + 1 :
            r[i] = IF i <= k THEN s[i] ELSE IF i = k + 1 THEN x ELSE s[i - 1]
  <2>1. PICK t \in Seq(Items) : t = s
    BY <1>2
  <2>2. k \in 0 .. Len(t)
    BY <2>1
  <2>3. /\ InsertAt(t, k + 1, x) \in Seq(Items)
        /\ Len(t) \in Nat /\ Len(InsertAt(t, k + 1, x)) = Len(t) + 1
        /\ \A i \in 1 .. Len(t) + 1 :
              InsertAt(t, k + 1, x)[i] = IF i <= k THEN t[i]
                                         ELSE IF i = k + 1 THEN x ELSE t[i - 1]
    BY <2>2, InsertAtElements
  <2> QED
    BY <2>1, <2>3
<1> HIDE DEF r, l, m
<1>5. Len(r) = l + 1 + m
  BY <1>1, <1>2, <1>4
<1>6. ASSUME NEW i \in 1 .. l + 1 + m PROVE r[i] = z[i]
  <2>1. r[i] = IF i <= l THEN s[i] ELSE IF i = l + 1 THEN x ELSE s[i - 1]
    <3>1. i \in 1 .. Len(s) + 1
      BY <1>1, <1>2
    <3>2. r[i] = IF i <= k THEN s[i] ELSE IF i = k + 1 THEN x ELSE s[i - 1]
      BY <1>4, <3>1
    <3> QED
      BY <1>3, <3>2
  <2>2. CASE i <= l
    <3>1. i \in 1 .. l + m
      BY <1>1, <2>2
    <3> QED
      BY <1>1, <1>2, <2>1, <2>2, <3>1
  <2>3. CASE i = l + 1
    BY <1>1, <2>1, <2>3
  <2>4. CASE ~(i <= l) /\ i # l + 1
    <3>1. i - 1 \in 1 .. l + m /\ ~(i - 1 <= l) /\ (i - 1) - l = i - (l + 1)
      BY <1>1, <2>4, SMTT(30)
    <3>2. s[i - 1] = v[i - (l + 1)]
      BY <1>2, <3>1
    <3> QED
      BY <1>1, <2>1, <2>4, <3>2
  <2> QED
    BY <2>2, <2>3, <2>4
<1>7. r = z
  BY <1>1, <1>4, <1>5, <1>6, SeqEqual
<1> QED
  BY <1>7 DEF r, z

-----------------------------------------------------------------------------
(* A sequence without the items of a set: what a removal leaves.           *)

(* undo_remove_items notes items of a list, plt_remove_item takes them out. *)
Keeping(T) == [x \in Items |-> IF x \in T THEN <<>> ELSE One(x)]
Spared(s, T) == Over(Keeping(T), s)

LEMMA KeepingKnown ==
  ASSUME NEW T
  PROVE  /\ Keeping(T) \in [Items -> Seq(Items)]
         /\ \A x \in Items : Keeping(T)[x] = IF x \in T THEN <<>> ELSE One(x)
<1>1. \A x \in Items : One(x) \in Seq(Items) /\ <<>> \in Seq(Items)
  BY OneKnown
<1> QED
  BY <1>1 DEF Keeping

LEMMA EmptyThen ==
  /\ Then(<<>>, <<>>) = <<>>
  /\ \A s \in Seq(Items) : Then(s, <<>>) = s /\ Then(<<>>, s) = s
  BY ConcatEmptySeq DEF Then

LEMMA SparedKnown ==
  ASSUME NEW T \in SUBSET Items
  PROVE  /\ \A s \in Seq(Items) : Spared(s, T) \in Seq(Items)
         /\ Spared(<<>>, T) = <<>>
         /\ \A x \in Items : Spared(One(x), T) = IF x \in T THEN <<>> ELSE One(x)
<1> DEFINE F == Keeping(T)
<1>1. F \in [Items -> Seq(Items)] /\ \A x \in Items : F[x] = IF x \in T THEN <<>> ELSE One(x)
  BY KeepingKnown
<1> HIDE DEF F
<1>2. \A s \in Seq(Items) : Over(F, s) \in Seq(Items)
  BY <1>1, OverKnown
<1>3. Over(F, <<>>) = <<>> /\ \A x \in Items : Over(F, One(x)) = F[x]
  BY <1>1, OverFew DEF One
<1>4. \A s : Spared(s, T) = Over(F, s)
  BY DEF Spared, F
<1> QED
  BY <1>1, <1>2, <1>3, <1>4

LEMMA SparedBoth ==
  ASSUME NEW s \in Seq(Items), NEW t \in Seq(Items), NEW T \in SUBSET Items
  PROVE  /\ Spared(Then(s, t), T) = Then(Spared(s, T), Spared(t, T))
         /\ Spared(s, T) \in Seq(Items) /\ Spared(t, T) \in Seq(Items)
<1> DEFINE F == Keeping(T)
<1>1. F \in [Items -> Seq(Items)]
  BY KeepingKnown
<1> HIDE DEF F
<1>2. Over(F, Then(s, t)) = Then(Over(F, s), Over(F, t))
  BY <1>1, OverBoth DEF Then
<1> QED
  BY <1>2, SparedKnown DEF Spared, F

LEMMA SparedSame ==
  ASSUME NEW s \in Seq(Items), NEW T \in SUBSET Items, NEW U \in SUBSET Items, \A x \in ToSet(s) : x \in T <=> x \in U
  PROVE  Spared(s, T) = Spared(s, U)
<1>1. \A n \in DOMAIN s : s[n] \in Items /\ s[n] \in ToSet(s)
  BY ElementOfSeq, LenProperties DEF ToSet
<1>2. ASSUME NEW n \in DOMAIN s PROVE Keeping(T)[s[n]] = Keeping(U)[s[n]]
  <2> DEFINE x == s[n]
  <2>1. x \in Items /\ (x \in T <=> x \in U)
    BY <1>1
  <2> HIDE DEF x
  <2>2. Keeping(T)[x] = IF x \in T THEN <<>> ELSE One(x)
    BY <2>1, KeepingKnown
  <2>3. Keeping(U)[x] = IF x \in U THEN <<>> ELSE One(x)
    BY <2>1, KeepingKnown
  <2> QED
    BY <2>1, <2>2, <2>3 DEF x
<1>3. [n \in DOMAIN s |-> Keeping(T)[s[n]]] = [n \in DOMAIN s |-> Keeping(U)[s[n]]]
  BY <1>2
<1> QED
  BY <1>3 DEF Spared, Over

LEMMA SparedThenOne ==
  ASSUME NEW t \in Seq(Items), NEW x \in Items, NEW T \in SUBSET Items
  PROVE  /\ Then(t, One(x)) \in Seq(Items) /\ One(x) \in Seq(Items)
         /\ Spared(Then(t, One(x)), T) = IF x \in T THEN Spared(t, T)
                                         ELSE Then(Spared(t, T), One(x))
<1>1. PICK m \in Seq(Items) : m = One(x)
  BY OneKnown
<1>2. Then(t, m) \in Seq(Items)
  BY Two
<1>3. /\ Spared(Then(t, m), T) = Then(Spared(t, T), Spared(m, T))
      /\ Spared(t, T) \in Seq(Items)
  BY SparedBoth
<1>4. Spared(m, T) = IF x \in T THEN <<>> ELSE One(x)
  BY <1>1, SparedKnown
<1>5. Then(Spared(t, T), <<>>) = Spared(t, T)
  BY <1>3, EmptyThen
<1> QED
  BY <1>1, <1>2, <1>3, <1>4, <1>5

LEMMA SparedAll ==
  ASSUME NEW s \in Seq(Items), NEW T \in SUBSET Items, ToSet(s) \cap T = {}
  PROVE  Spared(s, T) = s
<1>0. PICK E \in SUBSET Items : E = {}
  OBVIOUS
<1> DEFINE U == {t \in Seq(Items) : Spared(t, E) = t}
<1>1. <<>> \in U
  BY SparedKnown
<1>2. ASSUME NEW t \in Seq(Items), NEW x \in Items, t \in U PROVE Then(t, One(x)) \in U
  <2>1. /\ Then(t, One(x)) \in Seq(Items)
        /\ Spared(Then(t, One(x)), E) = IF x \in E THEN Spared(t, E)
                                        ELSE Then(Spared(t, E), One(x))
    BY SparedThenOne
  <2> QED
    BY <1>0, <1>2, <2>1
<1> HIDE DEF U
<1>3. s \in U
  BY <1>1, <1>2, ByPrefix
<1>4. Spared(s, T) = Spared(s, E)
  BY <1>0, SparedSame
<1> QED
  BY <1>3, <1>4 DEF U

LEMMA SparedNone ==
  ASSUME NEW s \in Seq(Items), NEW T \in SUBSET Items, ToSet(s) \subseteq T
  PROVE  Spared(s, T) = <<>>
<1>0. PICK E \in SUBSET Items : E = Items
  OBVIOUS
<1> DEFINE U == {t \in Seq(Items) : Spared(t, E) = <<>>}
<1>1. <<>> \in U
  BY SparedKnown
<1>2. ASSUME NEW t \in Seq(Items), NEW x \in Items, t \in U PROVE Then(t, One(x)) \in U
  <2>1. /\ Then(t, One(x)) \in Seq(Items)
        /\ Spared(Then(t, One(x)), E) = IF x \in E THEN Spared(t, E)
                                        ELSE Then(Spared(t, E), One(x))
    BY SparedThenOne
  <2> QED
    BY <1>0, <1>2, <2>1
<1> HIDE DEF U
<1>3. s \in U
  BY <1>1, <1>2, ByPrefix
<1>4. \A x \in ToSet(s) : x \in Items
  BY ElementOfSeq, LenProperties DEF ToSet
<1>5. Spared(s, T) = Spared(s, E)
  BY <1>0, <1>4, SparedSame
<1> QED
  BY <1>3, <1>5 DEF U

LEMMA SparedSet ==
  ASSUME NEW s \in Seq(Items), NEW T \in SUBSET Items
  PROVE  ToSet(Spared(s, T)) = ToSet(s) \ T
<1> DEFINE U == {t \in Seq(Items) : ToSet(Spared(t, T)) = ToSet(t) \ T}
<1>0. ToSet(<<>>) = {}
  BY DEF ToSet
<1>1. <<>> \in U
  BY <1>0, SparedKnown
<1>2. ASSUME NEW t \in Seq(Items), NEW x \in Items, t \in U PROVE Then(t, One(x)) \in U
  <2>1. /\ Then(t, One(x)) \in Seq(Items)
        /\ Spared(Then(t, One(x)), T) = IF x \in T THEN Spared(t, T)
                                        ELSE Then(Spared(t, T), One(x))
    BY SparedThenOne
  <2>2. ToSet(Then(t, One(x))) = ToSet(t) \cup {x}
    BY Three
  <2>3. PICK r \in Seq(Items) : r = Spared(t, T)
    BY SparedKnown
  <2>4. ToSet(Then(r, One(x))) = ToSet(r) \cup {x}
    BY Three
  <2>5. ToSet(r) = ToSet(t) \ T
    BY <1>2, <2>3
  <2>6. CASE x \in T
    BY <2>1, <2>2, <2>3, <2>5, <2>6
  <2>7. CASE x \notin T
    BY <2>1, <2>2, <2>3, <2>4, <2>5, <2>7
  <2> QED
    BY <2>6, <2>7
<1> HIDE DEF U
<1>3. s \in U
  BY <1>1, <1>2, ByPrefix
<1> QED
  BY <1>3 DEF U

(* The parts of what is left.                                              *)
LEMMA SparedParts ==
  ASSUME NEW u \in Seq(Items), NEW x \in Items, NEW v \in Seq(Items), NEW T \in SUBSET Items
  PROVE  /\ x \notin T => Spared(With(u, x, v), T) = With(Spared(u, T), x, Spared(v, T))
         /\ x \in T => Spared(With(u, x, v), T) = Then(Spared(u, T), Spared(v, T))
         /\ Spared(Then(u, v), T) = Then(Spared(u, T), Spared(v, T))
         /\ Spared(u, T) \in Seq(Items) /\ Spared(v, T) \in Seq(Items)
<1> DEFINE m == One(x)
<1>0. With(u, x, v) = Then(Then(u, m), v)
  BY DEF With, Then, One
<1>1. m \in Seq(Items) /\ Then(u, m) \in Seq(Items)
  BY SparedThenOne
<1>2. Spared(m, T) = IF x \in T THEN <<>> ELSE m
  BY SparedKnown
<1> HIDE DEF m
<1>3. /\ Spared(Then(Then(u, m), v), T) = Then(Then(Spared(u, T), Spared(m, T)), Spared(v, T))
      /\ Spared(Then(u, v), T) = Then(Spared(u, T), Spared(v, T))
      /\ Spared(u, T) \in Seq(Items) /\ Spared(v, T) \in Seq(Items)
  <2>1. Spared(Then(Then(u, m), v), T) = Then(Spared(Then(u, m), T), Spared(v, T))
    BY <1>1, SparedBoth
  <2>2. Spared(Then(u, m), T) = Then(Spared(u, T), Spared(m, T))
    BY <1>1, SparedBoth
  <2> QED
    BY <2>1, <2>2, SparedBoth
<1>4. Then(Spared(u, T), <<>>) = Spared(u, T)
  BY <1>3, EmptyThen
<1>5. x \notin T => Spared(Then(Then(u, m), v), T) = Then(Then(Spared(u, T), m), Spared(v, T))
  BY <1>2, <1>3
<1>6. x \in T => Spared(Then(Then(u, m), v), T) = Then(Spared(u, T), Spared(v, T))
  BY <1>2, <1>3, <1>4
<1>7. With(Spared(u, T), x, Spared(v, T)) = Then(Then(Spared(u, T), m), Spared(v, T))
  BY DEF With, Then, One, m
<1> QED
  BY <1>0, <1>3, <1>5, <1>6, <1>7 

(* One more item to remove.                                                *)
LEMMA SparedOneMore ==
  ASSUME NEW s \in Seq(Items), Distinct(s), NEW T \in SUBSET Items, NEW x \in ToSet(s) \ T
  PROVE  \E u, v \in Seq(Items) : /\ Spared(s, T) = With(u, x, v)
                                  /\ Spared(s, T \cup {x}) = Then(u, v)
<1>1. PICK u \in Seq(Items), v \in Seq(Items) : s = With(u, x, v)
  <2>1. x \in ToSet(s)
    OBVIOUS
  <2> QED
    BY <2>1, Parted
<1>2. x \in Items
  BY ElementOfSeq, LenProperties DEF ToSet
<1>3. x \notin ToSet(u) /\ x \notin ToSet(v)
  BY <1>1, <1>2, DistinctThree
<1>4. /\ Spared(s, T) = With(Spared(u, T), x, Spared(v, T))
      /\ Spared(u, T) \in Seq(Items) /\ Spared(v, T) \in Seq(Items)
  <2>1. /\ x \notin T => Spared(With(u, x, v), T) = With(Spared(u, T), x, Spared(v, T))
        /\ Spared(u, T) \in Seq(Items) /\ Spared(v, T) \in Seq(Items)
    BY <1>2, SparedParts
  <2> QED
    BY <1>1, <2>1
<1>5. Spared(s, T \cup {x}) = Then(Spared(u, T \cup {x}), Spared(v, T \cup {x}))
  <2> DEFINE U == T \cup {x}
  <2>1. x \in U => Spared(With(u, x, v), U) = Then(Spared(u, U), Spared(v, U))
    <3>1. U \in SUBSET Items
      BY <1>2
    <3> HIDE DEF U
    <3> QED
      BY <1>2, <3>1, SparedParts
  <2> QED
    BY <1>1, <2>1
<1>6. PICK U \in SUBSET Items : U = T \cup {x}
  BY <1>2
<1>7. Spared(u, U) = Spared(u, T) /\ Spared(v, U) = Spared(v, T)
  BY <1>3, <1>6, SparedSame
<1> QED
  BY <1>4, <1>5, <1>6, <1>7

(* An item that was not there, to be removed with the others.              *)
LEMMA SparedNewcomer ==
  ASSUME NEW u \in Seq(Items), NEW x \in Items, NEW v \in Seq(Items), NEW T \in SUBSET Items,
         x \notin ToSet(u) \cup ToSet(v)
  PROVE  Spared(With(u, x, v), T \cup {x}) = Spared(Then(u, v), T)
<1>1. Spared(With(u, x, v), T \cup {x}) = Then(Spared(u, T \cup {x}), Spared(v, T \cup {x}))
  <2> DEFINE U == T \cup {x}
  <2>1. x \in U => Spared(With(u, x, v), U) = Then(Spared(u, U), Spared(v, U))
    <3>1. U \in SUBSET Items
      OBVIOUS
    <3> HIDE DEF U
    <3> QED
      BY <3>1, SparedParts
  <2> QED
    BY <2>1
<1>2. Spared(u, T \cup {x}) = Spared(u, T) /\ Spared(v, T \cup {x}) = Spared(v, T)
  BY SparedSame
<1>3. Spared(Then(u, v), T) = Then(Spared(u, T), Spared(v, T))
  BY SparedBoth
<1> QED
  BY <1>1, <1>2, <1>3

-----------------------------------------------------------------------------
(* What an operation of the undo buffer and what a call does to the lists. *)

(* Values: of the playlists, and with what is read for adding. *)
Val    == [Lists -> Seq(Items)]
AllVal == [AllLists -> Seq(Items)]

(* List p replaced. *)
Put(a, p, s) == [a EXCEPT ![p] = s]

LEMMA PutKnown ==
  ASSUME NEW D, NEW C, NEW a \in [D -> C], NEW p \in D, NEW s \in C
  PROVE  /\ Put(a, p, s) \in [D -> C] /\ Put(a, p, s)[p] = s
         /\ \A q \in D : q # p => Put(a, p, s)[q] = a[q]
  BY DEF Put

LEMMA PutIs ==
  ASSUME NEW D, NEW C, NEW a \in [D -> C], NEW p \in D, NEW b \in [D -> C],
         \A q \in D : q # p => b[q] = a[q]
  PROVE  b = Put(a, p, b[p])
<1>1. \A q \in D : Put(a, p, b[p])[q] = b[q]
  BY PutKnown
<1>2. Put(a, p, b[p]) \in [D -> C]
  BY PutKnown
<1> QED
  BY <1>1, <1>2

(* Undoing a removal, undoing an insertion: an operation makes b of a.     *)
(* X is what is in no playlist yet.                                        *)
Inserts(op, a, b, X) ==
    /\ Distinct(op.items)
    /\ \A x \in ToSet(op.items) : x \notin X /\ \A p \in Lists : x \notin ToSet(a[p])
    /\ \E u, v \in Seq(Items) : /\ a[op.plt] = Then(u, v) /\ EndOf(u) = op.position
                                /\ b = Put(a, op.plt, Then(Then(u, op.items), v))

Removes(op, a, b) ==
    /\ Distinct(op.items) /\ Distinct(a[op.plt]) /\ ToSet(op.items) \subseteq ToSet(a[op.plt])
    /\ b = Put(a, op.plt, Spared(a[op.plt], ToSet(op.items)))

Effect(op, a, b, X) ==
    IF op.perform = "insert" THEN Inserts(op, a, b, X) ELSE Removes(op, a, b)

Ops(X) == [op \in OpT |-> [a \in Val |-> {b \in Val : Effect(op, a, b, X)}]]

LEMMA OpsKnown ==
  ASSUME NEW op \in OpT, NEW a \in Val, NEW b \in Val, NEW X
  PROVE  b \in Ops(X)[op][a] <=> Effect(op, a, b, X)
  BY DEF Ops

(* Elsewhere nothing that is inserted may be.                              *)
LEMMA OpsLess ==
  ASSUME NEW ops \in Seq(OpT), NEW a, NEW b, NEW X, NEW Y, Y \subseteq X,
         Path(Ops(X), Val, ops, a, b)
  PROVE  Path(Ops(Y), Val, ops, a, b)
<1>1. Len(ops) \in Nat /\ \A n \in 1 .. Len(ops) : ops[n] \in OpT
  BY LenProperties, ElementOfSeq
<1>2. ASSUME NEW n \in 1 .. Len(ops), NEW w \in Val PROVE Ops(X)[ops[n]][w] \subseteq Ops(Y)[ops[n]][w]
  <2>1. \A c \in Val : Effect(ops[n], w, c, X) => Effect(ops[n], w, c, Y)
    BY DEF Effect, Inserts
  <2>2. \A c : c \in Ops(X)[ops[n]][w] => c \in Val /\ Effect(ops[n], w, c, X)
    BY <1>1 DEF Ops
  <2>3. \A c \in Val : Effect(ops[n], w, c, Y) => c \in Ops(Y)[ops[n]][w]
    BY <1>1 DEF Ops
  <2> QED
    BY <2>1, <2>2, <2>3
<1> DEFINE Rx == Ops(X)
           Ry == Ops(Y)
<1>3. Path(Rx, Val, ops, a, b) /\ \A n \in 1 .. Len(ops) : \A w \in Val : Rx[ops[n]][w] \subseteq Ry[ops[n]][w]
  BY <1>2
<1> HIDE DEF Rx, Ry
<1>4. Path(Ry, Val, ops, a, b)
  BY <1>1, <1>3, PathMore
<1> QED
  BY <1>4 DEF Ry

(* The calls.                                                              *)
Takes(c, a, b) ==
    \E u, v \in Seq(Items) : a[c.plt] = With(u, c.item, v) /\ b = Put(a, c.plt, Then(u, v))

Gets(c, a, b) ==
    /\ \A p \in AllLists : c.item \notin ToSet(a[p])
    /\ \E u, v \in Seq(Items) : /\ a[c.plt] = Then(u, v) /\ EndOf(u) = c.after
                                /\ b = Put(a, c.plt, With(u, c.item, v))

Done(c, a, b) ==
    IF c.do = "remove" THEN Takes(c, a, b)
    ELSE IF c.do = "insert" THEN Gets(c, a, b)
    ELSE /\ b = a
         /\ c.do = "move" => /\ c.it \in ToSet(a[c.from]) \cup {NULL}
                             /\ c.drop_after \in ToSet(a[c.to]) \cup {NULL}

Does == [c \in CallT |-> [a \in AllVal |-> {b \in AllVal : Done(c, a, b)}]]

LEMMA DoesKnown ==
  ASSUME NEW c \in CallT, NEW a \in AllVal, NEW b \in AllVal
  PROVE  b \in Does[c][a] <=> Done(c, a, b)
  BY DEF Does

LEMMA DoesNothing ==
  ASSUME NEW c \in CallT, NEW a \in AllVal, c.do \notin {"remove", "insert", "move"}
  PROVE  a \in Does[c][a] /\ \A b \in AllVal : b \in Does[c][a] => b = a
  BY DoesKnown DEF Done

(* The lists with what is being read into the other one.                   *)
Ext(a, s) == [p \in AllLists |-> IF p = Incoming THEN s ELSE a[p]]

LEMMA ExtKnown ==
  ASSUME NEW a \in Val, NEW s \in Seq(Items)
  PROVE  /\ Ext(a, s) \in AllVal /\ Ext(a, s)[Incoming] = s
         /\ \A p \in Lists : p \in AllLists /\ Ext(a, s)[p] = a[p]
         /\ Incoming \in AllLists /\ \A p \in AllLists : p \in Lists \/ p = Incoming
  BY Constants DEF Ext, Val, AllVal, AllLists

LEMMA ExtPut ==
  ASSUME NEW a \in Val, NEW s \in Seq(Items), NEW p \in Lists, NEW t \in Seq(Items)
  PROVE  Ext(Put(a, p, t), s) = Put(Ext(a, s), p, t) /\ Put(a, p, t) \in Val
<1>1. PICK b \in Val : b = Put(a, p, t)
  BY PutKnown DEF Val
<1>2. b[p] = t /\ \A q \in Lists : q # p => b[q] = a[q]
  BY <1>1, PutKnown DEF Val
<1>3. PICK e \in AllVal : e = Ext(a, s)
  BY ExtKnown
<1>4. PICK d \in AllVal : d = Ext(b, s)
  BY ExtKnown
<1>5. p \in AllLists /\ p # Incoming
  BY Constants DEF AllLists
<1>6. \A q \in AllLists : q # p => d[q] = e[q]
  <2> TAKE q \in AllLists
  <2>1. CASE q \in Lists
    BY <1>2, <1>3, <1>4, <2>1, ExtKnown
  <2>2. CASE q = Incoming
    BY <1>3, <1>4, <2>2, ExtKnown
  <2> QED
    BY <2>1, <2>2, ExtKnown
<1>7. d[p] = t
  BY <1>2, <1>4, ExtKnown
<1>8. d = Put(e, p, d[p])
  <2>1. /\ d \in [AllLists -> Seq(Items)] /\ e \in [AllLists -> Seq(Items)]
        /\ p \in AllLists /\ \A q \in AllLists : q # p => d[q] = e[q]
    BY <1>5, <1>6 DEF AllVal
  <2> QED
    BY <2>1, PutIs
<1> QED
  BY <1>1, <1>3, <1>4, <1>7, <1>8

LEMMA AllPut ==
  ASSUME NEW e \in AllVal, NEW p \in AllLists, NEW s \in Seq(Items), NEW t \in Seq(Items)
  PROVE  /\ Put(e, p, s) \in AllVal /\ Put(e, p, s)[p] = s
         /\ \A q \in AllLists : q # p => Put(e, p, s)[q] = e[q]
         /\ Put(Put(e, p, s), p, t) = Put(e, p, t)
         /\ Put(e, p, e[p]) = e /\ e[p] \in Seq(Items)
<1>1. e \in [AllLists -> Seq(Items)]
  BY DEF AllVal
<1>2. /\ Put(e, p, s) \in [AllLists -> Seq(Items)] /\ Put(e, p, s)[p] = s
      /\ \A q \in AllLists : q # p => Put(e, p, s)[q] = e[q]
  BY <1>1 DEF Put
<1>3. Put(Put(e, p, s), p, t) = Put(e, p, t) /\ Put(e, p, e[p]) = e
  BY <1>1 DEF Put
<1> QED
  BY <1>1, <1>2, <1>3 DEF AllVal

LEMMA ThenThen ==
  ASSUME NEW A, NEW u \in Seq(A), NEW v \in Seq(A), NEW w \in Seq(A)
  PROVE  Then(Then(u, v), w) = Then(u, Then(v, w))
  BY ConcatAssociative, SMTT(30) DEF Then

LEMMA WithThen ==
  ASSUME NEW u, NEW x, NEW v
  PROVE  With(u, x, v) = Then(Then(u, One(x)), v)
  BY DEF With, Then, One

(* u followed by more and more of items.                                   *)
Growing(g, u, items) ==
    /\ g \in [0 .. Len(items) -> Seq(Items)]
    /\ g[0] = u /\ g[Len(items)] = Then(u, items)
    /\ \A n \in 1 .. Len(items) : g[n] = Then(g[n - 1], One(items[n]))
    /\ \A n \in 0 .. Len(items) : ToSet(g[n]) = ToSet(u) \cup {items[j] : j \in 1 .. n}

LEMMA GrowingPrefixes ==
  ASSUME NEW u \in Seq(Items), NEW items \in Seq(Items)
  PROVE  \E g : Growing(g, u, items)
<1> DEFINE l == Len(items)
           pre(n) == SubSeq(items, 1, n)
<1>1. l \in Nat /\ \A n \in 1 .. l : items[n] \in Items
  BY LenProperties, ElementOfSeq
<1>2. ASSUME NEW n \in 0 .. l
      PROVE  /\ pre(n) \in Seq(Items) /\ ToSet(pre(n)) = {items[j] : j \in 1 .. n}
  <2>0. \A i \in 1 .. n : items[i] \in Items
    BY <1>1
  <2>1. /\ pre(n) \in Seq(Items)
        /\ Len(pre(n)) = IF 1 <= n THEN n - 1 + 1 ELSE 0
        /\ \A i \in 1 .. n - 1 + 1 : pre(n)[i] = items[1 + i - 1]
    BY <1>1, <2>0, SubSeqProperties
  <2> HIDE DEF pre
  <2>2. Len(pre(n)) = n /\ \A i \in 1 .. n : pre(n)[i] = items[i]
    BY <1>1, <2>1
  <2>3. DOMAIN pre(n) = 1 .. n
    BY <2>1, <2>2, LenProperties
  <2>4. ToSet(pre(n)) = {items[j] : j \in 1 .. n}
    BY <2>2, <2>3 DEF ToSet
  <2> QED
    BY <2>1, <2>4
<1>3. ASSUME NEW n \in 1 .. l PROVE pre(n) = Then(pre(n - 1), One(items[n]))
  <2>1. 1 \in 1 .. Len(items) /\ n \in 1 .. Len(items)
    BY <1>1
  <2> QED
    BY <2>1, SubSeqRecursiveSecond DEF Then, One
<1>4. pre(0) = <<>> /\ pre(l) = items
  BY SubSeqEmpty, SubSeqFull
<1> HIDE DEF pre
<1> DEFINE g == [n \in 0 .. l |-> Then(u, pre(n))]
<1>5. ASSUME NEW n \in 0 .. l
      PROVE  /\ g[n] = Then(u, pre(n)) /\ g[n] \in Seq(Items)
             /\ ToSet(g[n]) = ToSet(u) \cup {items[j] : j \in 1 .. n}
  <2>1. PICK s \in Seq(Items) : s = pre(n)
    BY <1>2
  <2>2. Then(u, s) \in Seq(Items) /\ ToSet(Then(u, s)) = ToSet(u) \cup ToSet(s)
    BY Two
  <2> QED
    BY <1>2, <2>1, <2>2
<1>6. g \in [0 .. l -> Seq(Items)]
  BY <1>5
<1> HIDE DEF g
<1>7. g[0] = u /\ g[l] = Then(u, items)
  <2>1. 0 \in 0 .. l /\ l \in 0 .. l
    BY <1>1
  <2>2. Then(u, <<>>) = u
    BY EmptyThen
  <2> QED
    BY <1>4, <1>5, <2>1, <2>2
<1>8. ASSUME NEW n \in 1 .. l PROVE g[n] = Then(g[n - 1], One(items[n]))
  <2>1. n \in 0 .. l /\ n - 1 \in 0 .. l
    BY <1>1
  <2>2. PICK s \in Seq(Items) : s = pre(n - 1)
    BY <1>2, <2>1
  <2>3. PICK o \in Seq(Items) : o = One(items[n])
    BY <1>1, OneKnown
  <2>4. Then(Then(u, s), o) = Then(u, Then(s, o))
    BY ThenThen
  <2>5. g[n] = Then(u, pre(n)) /\ g[n - 1] = Then(u, pre(n - 1))
    BY <1>5, <2>1
  <2> QED
    BY <1>3, <2>2, <2>3, <2>4, <2>5
<1> QED
  BY <1>5, <1>6, <1>7, <1>8 DEF l, Growing

LEMMA RemovesPath ==
  ASSUME NEW e \in AllVal, NEW p \in AllLists, NEW items \in Seq(Items), NEW hold \in {-1, 0, 1}, Distinct(items),
         Distinct(e[p]), ToSet(items) \subseteq ToSet(e[p])
  PROVE  /\ RemoveCalls(p, items, hold) \in Seq(CallT)
         /\ Path(Does, AllVal, RemoveCalls(p, items, hold), e, Put(e, p, Spared(e[p], ToSet(items))))
<1> DEFINE l == Len(items)
           T(n) == {items[j] : j \in 1 .. n}
           s == e[p]
           f == [n \in 0 .. l |-> Put(e, p, Spared(s, T(n)))]
           calls == RemoveCalls(p, items, hold)
<1>1. l \in Nat /\ DOMAIN items = 1 .. l /\ \A n \in 1 .. l : items[n] \in Items
  BY LenProperties, ElementOfSeq
<1>2. s \in Seq(Items)
  BY AllPut
<1>3. /\ calls = [n \in 1 .. l |-> RemoveCall(p, items[n], hold)]
      /\ \A n \in 1 .. l : calls[n] = RemoveCall(p, items[n], hold)
  BY <1>1 DEF RemoveCalls
<1>4. \A n \in 1 .. l : /\ calls[n] \in CallT /\ calls[n].do = "remove"
                        /\ calls[n].plt = p /\ calls[n].item = items[n]
  <2> TAKE n \in 1 .. l
  <2>1. PICK x \in Items : x = items[n]
    BY <1>1
  <2>2. RemoveCall(p, x, hold) \in CallT
    BY CallsMade
  <2>3. PICK c \in CallT : c = RemoveCall(p, x, hold)
    BY <2>2
  <2>4. c.do = "remove" /\ c.plt = p /\ c.item = x
    BY <2>3 DEF RemoveCall
  <2>5. calls[n] = c
    BY <1>3, <2>1, <2>3
  <2> QED
    BY <2>1, <2>4, <2>5
<1> HIDE DEF calls
<1>5. calls \in Seq(CallT) /\ Len(calls) = l
  BY <1>1, <1>3, <1>4
<1>6. \A n \in 0 .. l : T(n) \in SUBSET Items
  BY <1>1
<1>7. ToSet(items) = T(l)
  BY <1>1 DEF ToSet
<1>8. \A i, j \in 1 .. l : items[i] = items[j] => i = j
  BY DEF Distinct
<1>9. T(0) = {}
  OBVIOUS
<1>10. \A n \in 1 .. l : /\ items[n] \notin T(n - 1) /\ T(n) = T(n - 1) \cup {items[n]}
                         /\ items[n] \in ToSet(s)
  <2> TAKE n \in 1 .. l
  <2>1. \A j \in 1 .. n : j \in 1 .. n - 1 \/ j = n
    BY <1>1
  <2>2. \A j \in 1 .. n - 1 : j \in 1 .. n /\ j \in 1 .. l /\ j # n
    BY <1>1
  <2>3. n \in 1 .. n
    BY <1>1
  <2>4. items[n] \in T(l)
    OBVIOUS
  <2> QED
    BY <1>7, <1>8, <2>1, <2>2, <2>3, <2>4
<1> HIDE DEF T, l, s
<1>11. \A n \in 0 .. l : Spared(s, T(n)) \in Seq(Items)
  BY <1>2, <1>6, SparedKnown
<1>12. \A n \in 0 .. l : f[n] = Put(e, p, Spared(s, T(n)))
  OBVIOUS
<1>13. f \in [0 .. l -> AllVal]
  BY <1>11, AllPut
<1> HIDE DEF f
<1>14. f[0] = e
  <2>1. 0 \in 0 .. l
    BY <1>1
  <2>2. PICK E \in SUBSET Items : E = T(0)
    BY <1>6, <2>1
  <2>3. Spared(s, E) = s
    BY <1>2, <1>9, <2>2, SparedAll
  <2>4. Put(e, p, e[p]) = e
    BY AllPut
  <2> QED
    BY <1>12, <2>1, <2>2, <2>3, <2>4 DEF s
<1>15. f[l] = Put(e, p, Spared(e[p], ToSet(items)))
  <2>1. l \in 0 .. l
    BY <1>1
  <2> QED
    BY <1>7, <1>12, <2>1 DEF s
<1>16. ASSUME NEW n \in 1 .. l PROVE f[n] \in Does[calls[n]][f[n - 1]]
  <2>1. n \in 0 .. l /\ n - 1 \in 0 .. l
    BY <1>1
  <2>2. PICK U \in SUBSET Items : U = T(n - 1)
    BY <1>6, <2>1
  <2>3. PICK x \in ToSet(s) \ U : x = items[n]
    BY <1>10, <2>2
  <2>4. PICK u \in Seq(Items), v \in Seq(Items) :
           Spared(s, U) = With(u, x, v) /\ Spared(s, U \cup {x}) = Then(u, v)
    BY <1>2, SparedOneMore DEF s
  <2>5. T(n) = U \cup {x}
    BY <1>10, <2>2, <2>3
  <2>6. x \in Items
    BY <1>1, <2>3
  <2>7. PICK a \in Seq(Items) : a = With(u, x, v)
    BY <2>6, Three
  <2>8. PICK b \in Seq(Items) : b = Then(u, v)
    BY Two
  <2>9. f[n - 1] = Put(e, p, a) /\ f[n] = Put(e, p, b)
    BY <1>12, <2>1, <2>2, <2>4, <2>5, <2>7, <2>8
  <2>10. Put(e, p, a)[p] = a /\ Put(Put(e, p, a), p, b) = Put(e, p, b)
         /\ Put(e, p, a) \in AllVal /\ Put(e, p, b) \in AllVal
    BY AllPut
  <2>11. Takes(calls[n], f[n - 1], f[n])
    BY <1>4, <2>3, <2>7, <2>8, <2>9, <2>10 DEF Takes
  <2>12. Done(calls[n], f[n - 1], f[n])
    BY <1>4, <2>11 DEF Done
  <2> QED
    BY <1>4, <2>9, <2>10, <2>12, DoesKnown, SMTT(30)
<1>17. PathBy(f, Does, AllVal, calls, e, Put(e, p, Spared(e[p], ToSet(items))))
  BY <1>5, <1>13, <1>14, <1>15, <1>16 DEF PathBy
<1> QED
  BY <1>5, <1>17 DEF Path, calls

(* items may go between u and v in list p.                                 *)
Opens(e, p, u, v, items) ==
    /\ Distinct(items) /\ e[p] = Then(u, v)
    /\ \A x \in ToSet(items) : \A q \in AllLists : x \notin ToSet(e[q])

LEMMA InsertsPath ==
  ASSUME NEW e \in AllVal, NEW p \in AllLists, NEW items \in Seq(Items),
         NEW u \in Seq(Items), NEW v \in Seq(Items), Opens(e, p, u, v, items)
  PROVE  /\ InsertCalls(p, EndOf(u), items) \in Seq(CallT)
         /\ Path(Does, AllVal, InsertCalls(p, EndOf(u), items), e,
                 Put(e, p, Then(Then(u, items), v)))
<1>0. /\ Distinct(items) /\ e[p] = Then(u, v)
      /\ \A x \in ToSet(items) : \A q \in AllLists : x \notin ToSet(e[q])
  BY DEF Opens
<1>70. PICK g : Growing(g, u, items)
  <2>1. \E g : Growing(g, u, items)
    BY GrowingPrefixes
  <2> QED
    BY <2>1
<1>71. ToSet(Then(u, v)) = ToSet(u) \cup ToSet(v)
  BY SetOfBoth DEF Then
<1> DEFINE l == Len(items)
           after == EndOf(u)
           calls == InsertCalls(p, after, items)
<1>1. l \in Nat /\ DOMAIN items = 1 .. l /\ \A n \in 1 .. l : items[n] \in Items
  BY LenProperties, ElementOfSeq
<1>2. after \in Pointer
  BY EndKnown DEF Pointer
<1> HIDE DEF after
<1> DEFINE at(n) == IF n = 1 THEN after ELSE items[n - 1]
<1>3. /\ calls = [n \in 1 .. l |-> InsertCall(p, at(n), items[n], 0)]
      /\ \A n \in 1 .. l : calls[n] = InsertCall(p, at(n), items[n], 0)
  BY <1>1 DEF InsertCalls
<1>4. \A n \in 1 .. l : at(n) \in Pointer
  <2> TAKE n \in 1 .. l
  <2>1. n = 1 \/ n - 1 \in 1 .. l
    BY <1>1
  <2> QED
    BY <1>1, <1>2, <2>1 DEF Pointer
<1> HIDE DEF at
<1>5. \A n \in 1 .. l : /\ calls[n] \in CallT /\ calls[n].do = "insert" /\ calls[n].plt = p
                        /\ calls[n].item = items[n] /\ calls[n].after = at(n)
  <2> TAKE n \in 1 .. l
  <2>1. PICK x \in Items : x = items[n]
    BY <1>1
  <2>0. PICK y \in Pointer : y = at(n)
    BY <1>4
  <2>2. InsertCall(p, y, x, 0) \in CallT
    BY CallsMade
  <2>3. PICK c \in CallT : c = InsertCall(p, y, x, 0)
    BY <2>2
  <2>4. c.do = "insert" /\ c.plt = p /\ c.item = x /\ c.after = y
    BY <2>3 DEF InsertCall
  <2>5. calls[n] = c
    BY <1>3, <2>0, <2>1, <2>3
  <2> QED
    BY <2>0, <2>1, <2>4, <2>5
<1> HIDE DEF calls
<1>6. calls \in Seq(CallT) /\ Len(calls) = l
  BY <1>1, <1>3, <1>5
<1>7. /\ g \in [0 .. l -> Seq(Items)] /\ g[0] = u /\ g[l] = Then(u, items)
      /\ \A n \in 1 .. l : g[n] = Then(g[n - 1], One(items[n]))
      /\ \A n \in 0 .. l : ToSet(g[n]) = ToSet(u) \cup {items[j] : j \in 1 .. n}
  BY <1>70 DEF l, Growing
<1>8. ToSet(items) = {items[j] : j \in 1 .. l}
  BY <1>1 DEF ToSet
<1>9. \A i, j \in 1 .. l : items[i] = items[j] => i = j
  BY <1>0 DEF Distinct
<1> HIDE DEF l
<1> DEFINE f == [n \in 0 .. l |-> Put(e, p, Then(g[n], v))]
<1>10. \A n \in 0 .. l : f[n] = Put(e, p, Then(g[n], v))
  OBVIOUS
<1>11. \A n \in 0 .. l : g[n] \in Seq(Items) /\ Then(g[n], v) \in Seq(Items)
  <2> TAKE n \in 0 .. l
  <2>1. PICK d \in Seq(Items) : d = g[n]
    BY <1>7
  <2>2. Then(d, v) \in Seq(Items)
    BY Two
  <2> QED
    BY <2>1, <2>2
<1>12. f \in [0 .. l -> AllVal]
  BY <1>11, AllPut
<1> HIDE DEF f
<1>13. f[0] = e
  <2>1. 0 \in 0 .. l
    BY <1>1
  <2>2. Put(e, p, e[p]) = e
    BY AllPut
  <2> QED
    BY <1>0, <1>7, <1>10, <2>1, <2>2
<1>14. f[l] = Put(e, p, Then(Then(u, items), v))
  <2>1. l \in 0 .. l
    BY <1>1
  <2> QED
    BY <1>7, <1>10, <2>1
<1>15. ASSUME NEW n \in 1 .. l PROVE f[n] \in Does[calls[n]][f[n - 1]]
  <2>1. n \in 0 .. l /\ n - 1 \in 0 .. l
    BY <1>1
  <2>2. PICK x \in Items : x = items[n]
    BY <1>1
  <2>3. PICK d \in Seq(Items) : d = g[n - 1]
    BY <1>11, <2>1
  <2>4. PICK a \in Seq(Items) : a = Then(d, v)
    BY Two
  <2>5. PICK b \in Seq(Items) : b = With(d, x, v)
    BY Three
  <2>6. f[n - 1] = Put(e, p, a)
    BY <1>10, <2>1, <2>3, <2>4
  <2>7. f[n] = Put(e, p, b)
    <3>1. Then(g[n], v) = With(d, x, v)
      BY <1>7, <2>2, <2>3, WithThen
    <3> QED
      BY <1>10, <2>1, <2>5, <3>1
  <2>8. /\ Put(e, p, a)[p] = a /\ Put(Put(e, p, a), p, b) = Put(e, p, b)
        /\ Put(e, p, a) \in AllVal /\ Put(e, p, b) \in AllVal
        /\ \A q \in AllLists : q # p => Put(e, p, a)[q] = e[q]
    BY AllPut
  <2>9. EndOf(d) = at(n)
    <3>1. CASE n = 1
      BY <1>7, <2>3, <3>1 DEF at, after
    <3>2. CASE n # 1
      <4>1. n - 1 \in 1 .. l /\ n - 2 \in 0 .. l /\ (n - 1) - 1 = n - 2
        BY <1>1, <3>2
      <4>2. PICK y \in Items : y = items[n - 1]
        BY <1>1, <4>1
      <4>3. PICK c \in Seq(Items) : c = g[n - 2]
        BY <1>11, <4>1
      <4>4. d = Then(c, One(y))
        BY <1>7, <2>3, <4>1, <4>2, <4>3
      <4>5. EndOf(Then(c, One(y))) = y
        BY EndKnown
      <4> QED
        BY <3>2, <4>2, <4>4, <4>5 DEF at
    <3> QED
      BY <3>1, <3>2
  <2>10. \A q \in AllLists : x \notin ToSet(f[n - 1][q])
    <3>1. x \in ToSet(items)
      BY <1>8, <2>2
    <3>2. x \notin ToSet(Then(u, v)) /\ \A q \in AllLists : x \notin ToSet(e[q])
      BY <1>0, <3>1
    <3>3. ToSet(Then(u, v)) = ToSet(u) \cup ToSet(v) /\ ToSet(a) = ToSet(d) \cup ToSet(v)
      <4>1. ToSet(Then(d, v)) = ToSet(d) \cup ToSet(v)
        BY Two
      <4> QED
        BY <1>71, <2>4, <4>1
    <3>4. x \notin {items[j] : j \in 1 .. n - 1}
      <4>1. \A j \in 1 .. n - 1 : j \in 1 .. l /\ j # n
        BY <1>1
      <4> QED
        BY <1>9, <2>2, <4>1
    <3>5. ToSet(d) = ToSet(u) \cup {items[j] : j \in 1 .. n - 1}
      BY <1>7, <2>1, <2>3
    <3>6. x \notin ToSet(a)
      BY <3>2, <3>3, <3>4, <3>5
    <3> QED
      BY <2>6, <2>8, <3>2, <3>6
  <2>11. Gets(calls[n], f[n - 1], f[n])
    BY <1>5, <2>2, <2>4, <2>5, <2>6, <2>7, <2>8, <2>9, <2>10, ZenonT(40) DEF Gets
  <2>12. Done(calls[n], f[n - 1], f[n])
    BY <1>5, <2>11 DEF Done
  <2> QED
    BY <1>5, <2>6, <2>7, <2>8, <2>12, DoesKnown
<1>16. PathBy(f, Does, AllVal, calls, e, Put(e, p, Then(Then(u, items), v)))
  BY <1>6, <1>12, <1>13, <1>14, <1>15 DEF PathBy
<1> QED
  BY <1>6, <1>16 DEF Path, calls, after

-----------------------------------------------------------------------------
(* What the execution of operations does.                                  *)

LEMMA StillOne ==
  ASSUME NEW c \in CallT, NEW a \in AllVal, c.do \notin {"remove", "insert", "move"}
  PROVE  One(c) \in Seq(CallT) /\ Path(Does, AllVal, One(c), a, a)
  BY DoesNothing, PathOne, OneKnown

LEMMA Performed ==
  ASSUME NEW op \in OpT, NEW a \in Val, NEW b \in Val, NEW s \in Seq(Items),
         Effect(op, a, b, ToSet(s))
  PROVE  /\ Perform(op) \in Seq(CallT)
         /\ Path(Does, AllVal, Perform(op), Ext(a, s), Ext(b, s))
<1> DEFINE p == op.plt
           items == op.items
           g == Group(p)
           m == IF op.perform = "remove" THEN RemoveCalls(p, items, 0)
                ELSE InsertCalls(p, op.position, items)
<1>1. p \in Lists /\ p \in AllLists /\ items \in Seq(Items) /\ op.position \in Pointer
      /\ op.perform \in {"insert", "remove"}
  BY RefdKnown DEF AllLists, OpT
<1>2. /\ g \in CallT /\ g.do = "group" /\ EndGroup \in CallT /\ EndGroup.do = "end_group"
  BY <1>1, CallsMade
<1>3. PICK e \in AllVal : e = Ext(a, s)
  BY ExtKnown
<1>4. PICK d \in AllVal : d = Ext(b, s)
  BY ExtKnown
<1>5. e[p] = a[p] /\ \A q \in AllLists : (q \in Lists /\ e[q] = a[q]) \/ (q = Incoming /\ e[q] = s)
  <2>1. /\ Ext(a, s)[Incoming] = s /\ \A q \in Lists : Ext(a, s)[q] = a[q]
        /\ \A q \in AllLists : q \in Lists \/ q = Incoming
    BY ExtKnown
  <2> QED
    BY <1>1, <1>3, <2>1
<1>6. m \in Seq(CallT) /\ Path(Does, AllVal, m, e, d)
  <2>1. CASE op.perform = "remove"
    <3> DEFINE T == ToSet(items)
    <3>1. /\ Distinct(items) /\ Distinct(e[p]) /\ T \subseteq ToSet(e[p])
          /\ b = Put(a, p, Spared(e[p], T))
      BY <1>5, <2>1 DEF Effect, Removes
    <3>2. T \in SUBSET Items
      BY <1>1, ElementOfSeq, LenProperties DEF ToSet
    <3>3. PICK t \in Seq(Items) : t = Spared(e[p], T)
      <4>1. e[p] \in Seq(Items)
        BY <1>1, AllPut
      <4> HIDE DEF T
      <4> QED
        BY <3>2, <4>1, SparedKnown
    <3>4. d = Put(e, p, t)
      <4>1. Ext(Put(a, p, t), s) = Put(Ext(a, s), p, t)
        BY <1>1, ExtPut
      <4> QED
        BY <1>3, <1>4, <3>1, <3>3, <4>1
    <3>5. PICK i \in Seq(Items) : i = items
      BY <1>1
    <3>6. /\ RemoveCalls(p, i, 0) \in Seq(CallT)
          /\ Path(Does, AllVal, RemoveCalls(p, i, 0), e, Put(e, p, Spared(e[p], ToSet(i))))
      <4>1. 0 \in {-1, 0, 1}
        OBVIOUS
      <4>2. Distinct(i) /\ Distinct(e[p]) /\ ToSet(i) \subseteq ToSet(e[p])
        BY <3>1, <3>5
      <4> HIDE DEF p, items, T
      <4> QED
        BY <1>1, <4>1, <4>2, RemovesPath
    <3> QED
      BY <2>1, <3>3, <3>4, <3>5, <3>6
  <2>2. CASE op.perform = "insert"
    <3>1. /\ Distinct(items) /\ \A x \in ToSet(items) : x \notin ToSet(s) /\ \A q \in Lists : x \notin ToSet(a[q])
      BY <2>2 DEF Effect, Inserts
    <3>2. PICK u \in Seq(Items), v \in Seq(Items) :
             /\ a[p] = Then(u, v) /\ EndOf(u) = op.position
             /\ b = Put(a, p, Then(Then(u, items), v))
      BY <2>2 DEF Effect, Inserts
    <3>3. PICK i \in Seq(Items) : i = items
      BY <1>1
    <3>4. Opens(e, p, u, v, i)
      BY <1>5, <3>1, <3>2, <3>3 DEF Opens
    <3>5. PICK t \in Seq(Items) : t = Then(Then(u, i), v)
      <4>1. PICK w \in Seq(Items) : w = Then(u, i)
        BY Two
      <4>2. Then(w, v) \in Seq(Items)
        BY Two
      <4> QED
        BY <4>1, <4>2
    <3>6. d = Put(e, p, t)
      <4>1. Ext(Put(a, p, t), s) = Put(Ext(a, s), p, t)
        BY <1>1, ExtPut
      <4> QED
        BY <1>3, <1>4, <3>2, <3>3, <3>5, <4>1
    <3>7. /\ InsertCalls(p, EndOf(u), i) \in Seq(CallT)
          /\ Path(Does, AllVal, InsertCalls(p, EndOf(u), i), e, Put(e, p, Then(Then(u, i), v)))
      <4>1. p \in AllLists /\ Opens(e, p, u, v, i)
        BY <1>1, <3>4
      <4> HIDE DEF p, items
      <4> QED
        BY <4>1, InsertsPath
    <3> QED
      BY <2>2, <3>2, <3>3, <3>5, <3>6, <3>7
  <2> QED
    BY <1>1, <2>1, <2>2
<1>7. Perform(op) = Then(Then(One(g), m), One(EndGroup))
  BY DEF Perform, Then, One
<1> HIDE DEF g, m
<1>8. /\ One(g) \in Seq(CallT) /\ Path(Does, AllVal, One(g), e, e)
      /\ One(EndGroup) \in Seq(CallT) /\ Path(Does, AllVal, One(EndGroup), d, d)
  BY <1>2, StillOne
<1>9. PICK h \in Seq(CallT) : h = One(g)
  BY <1>8
<1>10. PICK k \in Seq(CallT) : k = m
  BY <1>6
<1>11. PICK j \in Seq(CallT) : j = One(EndGroup)
  BY <1>8
<1>12. Then(h, k) \in Seq(CallT) /\ Path(Does, AllVal, Then(h, k), e, d)
  <2>1. Path(Does, AllVal, h, e, e) /\ Path(Does, AllVal, k, e, d)
    BY <1>6, <1>8, <1>9, <1>10
  <2> QED
    BY <2>1, PathBoth, Two
<1>13. PICK hk \in Seq(CallT) : hk = Then(h, k)
  BY <1>12
<1>14. Then(hk, j) \in Seq(CallT) /\ Path(Does, AllVal, Then(hk, j), e, d)
  <2>1. Path(Does, AllVal, hk, e, d) /\ Path(Does, AllVal, j, d, d)
    BY <1>8, <1>11, <1>12, <1>13
  <2> QED
    BY <2>1, PathBoth, Two
<1> QED
  BY <1>3, <1>4, <1>7, <1>9, <1>10, <1>11, <1>13, <1>14

(* Undoing a buffer brings about the lists that its operations lead to.    *)
LEMMA ExecutedPath ==
  ASSUME NEW type \in {"undo", "redo"}, NEW entry \in EntryT, NEW s \in Seq(Items),
         NEW a \in Val, NEW b \in Val,
         Path(Ops(ToSet(s)), Val, entry.operations, a, b)
  PROVE  Path(Does, AllVal, Execute(type, entry), Ext(a, s), Ext(b, s))
<1> DEFINE ops == entry.operations
           ss == [n \in DOMAIN ops |-> Perform(ops[n])]
           f == Finish(type, entry)
           X == ToSet(s)
<1>1. ops \in Seq(OpT) /\ f \in CallT /\ f.do = "finish"
  BY FinishMade
<1>2. DOMAIN ops = 1 .. Len(ops) /\ Len(ops) \in Nat /\ \A n \in 1 .. Len(ops) : ops[n] \in OpT
  BY <1>1, LenProperties, ElementOfSeq
<1>3. PICK h : PathBy(h, Ops(X), Val, ops, a, b)
  BY DEF Path
<1> HIDE DEF f, ops, X
<1>4. /\ h \in [0 .. Len(ops) -> Val] /\ h[0] = a /\ h[Len(ops)] = b
      /\ \A n \in 1 .. Len(ops) : h[n] \in Ops(X)[ops[n]][h[n - 1]]
  BY <1>3 DEF PathBy
<1> DEFINE l == Len(ops)
           g == [n \in 0 .. l |-> Ext(h[n], s)]
<1>5. \A n \in 0 .. l : g[n] = Ext(h[n], s) /\ g[n] \in AllVal
  <2> TAKE n \in 0 .. l
  <2>1. h[n] \in Val
    BY <1>4
  <2> QED
    BY <2>1, ExtKnown
<1>6. g \in [0 .. l -> AllVal]
  BY <1>5
<1>7. l \in Nat /\ 0 \in 0 .. l /\ l \in 0 .. l
  BY <1>2
<1>8. g[0] = Ext(a, s) /\ g[l] = Ext(b, s)
  BY <1>4, <1>5, <1>7
<1> HIDE DEF g
<1>9. ASSUME NEW n \in 1 .. l
      PROVE  Perform(ops[n]) \in Seq(CallT) /\ Path(Does, AllVal, Perform(ops[n]), g[n - 1], g[n])
  <2>1. n \in 0 .. l /\ n - 1 \in 0 .. l
    BY <1>7
  <2>2. PICK op \in OpT : op = ops[n]
    BY <1>2
  <2>3. PICK v \in Val : v = h[n - 1]
    BY <1>4, <2>1
  <2>4. PICK w \in Val : w = h[n]
    BY <1>4, <2>1
  <2>5. w \in Ops(X)[op][v]
    BY <1>4, <2>2, <2>3, <2>4
  <2>6. Effect(op, v, w, ToSet(s))
    BY <2>5, OpsKnown DEF X
  <2>7. Perform(op) \in Seq(CallT) /\ Path(Does, AllVal, Perform(op), Ext(v, s), Ext(w, s))
    BY <2>6, Performed
  <2> QED
    BY <1>5, <2>1, <2>2, <2>3, <2>4, <2>7
<1>10. ss \in Seq(Seq(CallT)) /\ Len(ss) = l /\ \A n \in 1 .. l : ss[n] = Perform(ops[n])
  <2> DEFINE C == Seq(CallT)
  <2>1. ss = [n \in 1 .. l |-> Perform(ops[n])]
    BY <1>2
  <2>2. \A n \in 1 .. l : Perform(ops[n]) \in C
    BY <1>9
  <2> HIDE DEF C, ss
  <2>3. ss \in [1 .. l -> C]
    BY <2>1, <2>2
  <2>4. ss \in Seq(C) /\ Len(ss) = l
    BY <1>7, <2>3
  <2> QED
    BY <2>1, <2>4 DEF C
<1> HIDE DEF ss
<1>11. PICK z \in Seq(Seq(CallT)) : z = ss
  BY <1>10
<1>12. Path(Does, AllVal, Joined(z), g[0], g[Len(z)])
  <2>1. g \in [0 .. Len(z) -> AllVal]
    BY <1>6, <1>10, <1>11
  <2>2. \A n \in 1 .. Len(z) : Path(Does, AllVal, z[n], g[n - 1], g[n])
    BY <1>9, <1>10, <1>11
  <2> QED
    BY <2>1, <2>2, PathJoined
<1>13. PICK j \in Seq(CallT) : j = Joined(z)
  BY JoinedBoth
<1>14. PICK d \in AllVal : d = Ext(b, s)
  BY ExtKnown
<1>15. /\ One(f) \in Seq(CallT) /\ Path(Does, AllVal, One(f), d, d)
       /\ One(Changed) \in Seq(CallT) /\ Path(Does, AllVal, One(Changed), d, d)
  <2>1. Changed \in CallT /\ Changed.do = "changed"
    BY CallsMade
  <2> QED
    BY <1>1, <2>1, StillOne
<1>16. PICK t \in Seq(CallT) : t = Then(One(f), One(Changed)) /\ Path(Does, AllVal, t, d, d)
  <2>1. PICK x \in Seq(CallT) : x = One(f)
    BY <1>15
  <2>2. PICK y \in Seq(CallT) : y = One(Changed)
    BY <1>15
  <2>3. Path(Does, AllVal, x, d, d) /\ Path(Does, AllVal, y, d, d)
    BY <1>15, <2>1, <2>2
  <2>4. Then(x, y) \in Seq(CallT) /\ Path(Does, AllVal, Then(x, y), d, d)
    BY <2>3, PathBoth, Two
  <2> QED
    BY <2>1, <2>2, <2>4
<1>17. Execute(type, entry) = Then(j, t)
  BY <1>11, <1>13, <1>16 DEF Execute, ss, f, ops, Then, One
<1>18. Path(Does, AllVal, Then(j, t), Ext(a, s), d)
  <2>1. Path(Does, AllVal, j, Ext(a, s), d)
    BY <1>8, <1>10, <1>11, <1>12, <1>13, <1>14
  <2> QED
    BY <1>16, <2>1, PathBoth
<1> QED
  BY <1>14, <1>17, <1>18

=============================================================================
