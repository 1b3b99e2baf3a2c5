--------------------------- MODULE Metadata_proofs ---------------------------
(***************************************************************************)
(* Proofs about module Metadata, for any tracks, lists, keys and values:   *)
(* each string of the cache has a reference for each field that has it as  *)
(* key or value and for each key left behind, a track has its tags before  *)
(* its properties and each key once, and a search finds what it is for.    *)
(***************************************************************************)
EXTENDS Metadata, SequenceLemmas

LEMMA Constants ==
  /\ INDICES \in Nat /\ INDICES > 0 /\ BUDGET \in Nat /\ BUDGET > 0
  /\ Fields \cap Properties = {} /\ Fields \subseteq Keys /\ Properties \subseteq Keys
  /\ URI \in Properties /\ DECODER \in Properties /\ URI # DECODER
  /\ Unsearched \subseteq Fields /\ Gains \subseteq Properties \ {URI}
  /\ IsFiniteSet(Tracks) /\ IsFiniteSet(Keys) /\ IsFiniteSet(Lists)
  /\ Loaded \subseteq Tracks /\ Rows \in [Lists -> Seq(Tracks)]
  /\ Empty \in Parts /\ Empty \in Texts
  /\ Values \subseteq Seq(Parts) \ {<<>>}
  BY MetadataAssumption DEF Keys, URI, DECODER

-----------------------------------------------------------------------------
(* The cache.                                                              *)

Value == Seq(Part) \ {<<>>}
Str   == Value \cup {<<k>> : k \in Keys}
Entry == [refs : Nat \ {0}, memo : -INDICES .. INDICES]
Caches == UNION {[D -> Entry] : D \in SUBSET Str}

LEMMA CacheMade ==
  ASSUME NEW D \in SUBSET Str, NEW c \in [D -> Entry]
  PROVE  c \in Caches
  BY DEF Caches

LEMMA CacheKnown ==
  ASSUME NEW c \in Caches
  PROVE  /\ DOMAIN c \in SUBSET Str
         /\ c \in [DOMAIN c -> Entry]
         /\ \A s \in DOMAIN c :
              /\ c[s] = [refs |-> c[s].refs, memo |-> c[s].memo]
              /\ c[s].refs \in Nat /\ c[s].refs > 0 /\ c[s].refs = Refs(c, s)
              /\ c[s].memo \in -INDICES .. INDICES
         /\ \A s : Refs(c, s) \in Nat /\ (Refs(c, s) > 0 <=> s \in DOMAIN c)
  <1>1. PICK D \in SUBSET Str : c \in [D -> Entry]
    BY DEF Caches
  <1>2. \A s \in DOMAIN c : c[s] \in Entry
    BY <1>1
  <1>3. \A s \in DOMAIN c :
           /\ c[s] = [refs |-> c[s].refs, memo |-> c[s].memo]
           /\ c[s].refs \in Nat /\ c[s].refs > 0 /\ c[s].refs = Refs(c, s)
           /\ c[s].memo \in -INDICES .. INDICES
    BY <1>2 DEF Entry, Refs
  <1> QED
    BY <1>1, <1>2, <1>3 DEF Refs

(* The memos of d are those of c, or of strings that are new.              *)
MemosKept(c, d) ==
    \A s \in DOMAIN d : d[s].memo = 0 \/ (s \in DOMAIN c /\ d[s].memo = c[s].memo)

LEMMA MemosStayKept ==
  ASSUME NEW c, NEW d, NEW e, MemosKept(c, d), MemosKept(d, e)
  PROVE  MemosKept(c, e)
  BY DEF MemosKept

LEMMA ValueAdded ==
  ASSUME NEW c \in Caches, NEW s \in Str
  PROVE  /\ AddValue(c, s) \in Caches
         /\ MemosKept(c, AddValue(c, s))
         /\ \A x : Refs(AddValue(c, s), x) = Refs(c, x) + (IF x = s THEN 1 ELSE 0)
  <1> DEFINE d == AddValue(c, s)
             memo == IF s \in DOMAIN c THEN c[s].memo ELSE 0
  <1>1. d = [x \in DOMAIN c \cup {s} |->
               IF x # s THEN c[x] ELSE [refs |-> Refs(c, s) + 1, memo |-> memo]]
    BY DEF AddValue
  <1>2. memo \in -INDICES .. INDICES
    BY CacheKnown, Constants
  <1>3. Refs(c, s) + 1 \in Nat \ {0}
    BY CacheKnown
  <1> HIDE DEF memo, d
  <1>4. [refs |-> Refs(c, s) + 1, memo |-> memo] \in Entry
    BY <1>2, <1>3 DEF Entry
  <1>5. d \in [DOMAIN c \cup {s} -> Entry]
    BY <1>1, <1>4, CacheKnown
  <1>6. d \in Caches
    BY <1>5, CacheKnown, CacheMade
  <1>7. MemosKept(c, d)
    BY <1>1 DEF MemosKept, memo
  <1>8. \A x : Refs(d, x) = Refs(c, x) + (IF x = s THEN 1 ELSE 0)
    <2> TAKE x
    <2>1. Refs(c, x) \in Nat
      BY CacheKnown
    <2> QED
      BY <1>1, <2>1 DEF Refs
  <1> QED
    BY <1>6, <1>7, <1>8 DEF d

LEMMA ValueRemoved ==
  ASSUME NEW c \in Caches, NEW s
  PROVE  /\ RemoveValue(c, s) \in Caches
         /\ MemosKept(c, RemoveValue(c, s))
         /\ \A x : Refs(RemoveValue(c, s), x)
                      = IF x = s /\ Refs(c, s) > 0 THEN Refs(c, x) - 1 ELSE Refs(c, x)
  <1> DEFINE d == RemoveValue(c, s)
             D == {x \in DOMAIN c : x # s \/ c[x].refs > 1}
  <1>1. d = [x \in D |-> IF x # s THEN c[x] ELSE [c[x] EXCEPT !.refs = @ - 1]]
    BY DEF RemoveValue
  <1>2. D \in SUBSET Str
    BY CacheKnown
  <1>3. ASSUME NEW x \in D
        PROVE  /\ d[x] \in Entry
               /\ d[x].memo = c[x].memo
               /\ d[x].refs = IF x = s THEN c[x].refs - 1 ELSE c[x].refs
    <2>1. /\ c[x] = [refs |-> c[x].refs, memo |-> c[x].memo]
          /\ c[x].refs \in Nat /\ c[x].refs > 0 /\ c[x].memo \in -INDICES .. INDICES
      BY CacheKnown
    <2>2. CASE x # s
      <3>1. d[x] = c[x]
        BY <1>1, <2>2
      <3> QED
        BY <2>1, <2>2, <3>1 DEF Entry
    <2>3. CASE x = s
      <3>1. d[x] = [c[x] EXCEPT !.refs = @ - 1] /\ c[x].refs > 1
        BY <1>1, <2>3
      <3>2. d[x] = [refs |-> c[x].refs - 1, memo |-> c[x].memo]
        BY <2>1, <3>1
      <3>3. c[x].refs - 1 \in Nat \ {0}
        BY <2>1, <3>1
      <3> QED
        BY <2>1, <2>3, <3>2, <3>3 DEF Entry
    <2> QED
      BY <2>2, <2>3
  <1>4. DOMAIN d = D /\ D \subseteq DOMAIN c
    BY <1>1
  <1>5. d = [x \in D |-> d[x]]
    BY <1>1
  <1> HIDE DEF d
  <1>6. d \in [D -> Entry]
    BY <1>3, <1>5
  <1>7. d \in Caches
    BY <1>2, <1>6, CacheMade
  <1>8. MemosKept(c, d)
    BY <1>3, <1>4 DEF MemosKept
  <1>9. ASSUME NEW x
        PROVE  Refs(d, x) = IF x = s /\ Refs(c, s) > 0 THEN Refs(c, x) - 1 ELSE Refs(c, x)
    <2>1. CASE x \in D
      <3>1. x \in DOMAIN c /\ Refs(d, x) = d[x].refs /\ Refs(c, x) = c[x].refs /\ c[x].refs > 0
        BY <1>4, <2>1, CacheKnown DEF Refs
      <3> QED
        BY <1>3, <2>1, <3>1
    <2>2. CASE x \in DOMAIN c /\ x \notin D
      <3>1. x = s /\ c[x].refs \in Nat /\ c[x].refs > 0 /\ ~ (c[x].refs > 1)
        BY <2>2, CacheKnown
      <3> QED
        BY <1>4, <2>2, <3>1 DEF Refs
    <2>3. CASE x \notin DOMAIN c
      BY <1>4, <2>3 DEF Refs
    <2> QED
      BY <2>1, <2>2, <2>3
  <1> QED
    BY <1>7, <1>8, <1>9 DEF d

LEMMA ValuesRemoved ==
  ASSUME NEW c \in Caches, NEW strings, IsFiniteSet(DOMAIN strings)
  PROVE  LET gone(x) == Cardinality({n \in DOMAIN strings : strings[n] = x})
         IN  /\ RemoveValues(c, strings) \in Caches
             /\ MemosKept(c, RemoveValues(c, strings))
             /\ \A x : /\ gone(x) \in Nat
                       /\ Refs(RemoveValues(c, strings), x)
                            = IF Refs(c, x) > gone(x) THEN Refs(c, x) - gone(x) ELSE 0
  <1> DEFINE gone(x) == Cardinality({n \in DOMAIN strings : strings[n] = x})
             d == RemoveValues(c, strings)
             D == {x \in DOMAIN c : c[x].refs > gone(x)}
  <1>1. \A x : gone(x) \in Nat
    <2> TAKE x
    <2>1. IsFiniteSet({n \in DOMAIN strings : strings[n] = x})
      BY FS_Subset
    <2> QED
      BY <2>1, FS_CardinalityType
  <1>2. d = [x \in D |-> [c[x] EXCEPT !.refs = @ - gone(x)]]
    BY DEF RemoveValues
  <1> HIDE DEF gone, d
  <1>3. D \in SUBSET Str
    BY CacheKnown
  <1>4. ASSUME NEW x \in D
        PROVE  /\ d[x] \in Entry
               /\ d[x].memo = c[x].memo
               /\ d[x].refs = c[x].refs - gone(x)
    <2>1. /\ c[x] = [refs |-> c[x].refs, memo |-> c[x].memo]
          /\ c[x].refs \in Nat /\ c[x].memo \in -INDICES .. INDICES
      BY CacheKnown
    <2>2. d[x] = [refs |-> c[x].refs - gone(x), memo |-> c[x].memo]
      BY <1>2, <2>1
    <2>3. c[x].refs - gone(x) \in Nat \ {0}
      BY <1>1, <2>1
    <2> QED
      BY <2>1, <2>2, <2>3 DEF Entry
  <1>5. DOMAIN d = D /\ D \subseteq DOMAIN c /\ d = [x \in D |-> d[x]]
    BY <1>2
  <1>6. d \in [D -> Entry]
    BY <1>4, <1>5
  <1>7. d \in Caches
    BY <1>3, <1>6, CacheMade
  <1>8. MemosKept(c, d)
    BY <1>4, <1>5 DEF MemosKept
  <1>9. ASSUME NEW x
        PROVE  Refs(d, x) = IF Refs(c, x) > gone(x) THEN Refs(c, x) - gone(x) ELSE 0
    <2>1. CASE x \in DOMAIN c
      <3>1. Refs(c, x) = c[x].refs
        BY <2>1 DEF Refs
      <3> QED
        BY <1>4, <1>5, <2>1, <3>1 DEF Refs
    <2>2. CASE x \notin DOMAIN c
      <3>1. ~ (0 > gone(x))
        BY <1>1
      <3> QED
        BY <1>5, <2>2, <3>1 DEF Refs
    <2> QED
      BY <2>1, <2>2
  <1> QED
    BY <1>1, <1>7, <1>8, <1>9 DEF d, gone

-----------------------------------------------------------------------------
(* The fields, and how many of them are in a set.                          *)

FieldT == [key : Keys, value : Value]

LEMMA FieldMade ==
  ASSUME NEW k \in Keys, NEW v \in Value
  PROVE  Field(k, v) \in FieldT /\ Field(k, v).key = k /\ Field(k, v).value = v
  BY DEF Field, FieldT

LEMMA FieldsKnown ==
  ASSUME NEW fields \in Seq(FieldT)
  PROVE  /\ Len(fields) \in Nat /\ DOMAIN fields = 1 .. Len(fields)
         /\ \A n \in 1 .. Len(fields) :
              /\ fields[n] \in FieldT
              /\ fields[n].key \in Keys /\ fields[n].value \in Value
              /\ fields[n] = Field(fields[n].key, fields[n].value)
              /\ <<fields[n].key>> \in Str /\ fields[n].value \in Str
  <1>1. /\ Len(fields) \in Nat /\ DOMAIN fields = 1 .. Len(fields)
        /\ \A n \in 1 .. Len(fields) : fields[n] \in FieldT
    BY LenProperties, ElementOfSeq
  <1>2. ASSUME NEW n \in 1 .. Len(fields)
        PROVE  /\ fields[n].key \in Keys /\ fields[n].value \in Value
               /\ fields[n] = Field(fields[n].key, fields[n].value)
               /\ <<fields[n].key>> \in Str /\ fields[n].value \in Str
    <2>1. fields[n] \in [key : Keys, value : Value]
      BY <1>1 DEF FieldT
    <2>2. fields[n].key \in Keys /\ fields[n].value \in Value
      BY <2>1
    <2>3. fields[n] = [key |-> fields[n].key, value |-> fields[n].value]
      BY <2>1
    <2>4. <<fields[n].key>> \in Str /\ fields[n].value \in Str
      BY <2>2 DEF Str
    <2> QED
      BY <2>2, <2>3, <2>4 DEF Field
  <1> QED
    BY <1>1, <1>2

LEMMA CountFinite ==
  ASSUME NEW fields \in Seq(FieldT), NEW T
  PROVE  /\ IsFiniteSet({n \in DOMAIN fields : fields[n] \in T})
         /\ Counted(fields, T) \in Nat
  <1>1. IsFiniteSet(1 .. Len(fields))
    BY FieldsKnown, FS_Interval
  <1>2. IsFiniteSet({n \in DOMAIN fields : fields[n] \in T})
    BY <1>1, FieldsKnown, FS_Subset
  <1> QED
    BY <1>2, FS_CardinalityType DEF Counted

LEMMA CountInserted ==
  ASSUME NEW fields \in Seq(FieldT), NEW i \in 1 .. Len(fields) + 1, NEW f \in FieldT, NEW T
  PROVE  Counted(InsertAt(fields, i, f), T) = Counted(fields, T) + (IF f \in T THEN 1 ELSE 0)
  <1> DEFINE g == InsertAt(fields, i, f)
             l == Len(fields)
             A == {n \in DOMAIN fields : fields[n] \in T}
             B == {n \in DOMAIN g : g[n] \in T}
             shift == [n \in 1 .. l |-> IF n < i THEN n ELSE n + 1]
             C == (1 .. l + 1) \ {i}
  <1>1. l \in Nat /\ DOMAIN fields = 1 .. l
    BY FieldsKnown
  <1>2. /\ g \in Seq(FieldT) /\ Len(g) = l + 1
        /\ \A n \in 1 .. l + 1 : g[n] = IF n < i THEN fields[n] ELSE IF n = i THEN f ELSE fields[n - 1]
    <2>1. PICK k \in 0 .. l : k + 1 = i
      BY <1>1
    <2> HIDE DEF A, B, shift, C, g
    <2>2. /\ InsertAt(fields, k + 1, f) \in Seq(FieldT)
          /\ Len(fields) \in Nat /\ Len(InsertAt(fields, k + 1, f)) = l + 1
          /\ \A n \in 1 .. l + 1 :
                InsertAt(fields, k + 1, f)[n]
                   = IF n <= k THEN fields[n] ELSE IF n = k + 1 THEN f ELSE fields[n - 1]
      BY ONLY InsertAtElements, k \in 0 .. l, fields \in Seq(FieldT), f \in FieldT
    <2>3. \A n \in 1 .. l + 1 : n <= k <=> n < i
      BY <1>1, <2>1
    <2> QED
      BY <2>1, <2>2, <2>3 DEF g
  <1>3. DOMAIN g = 1 .. l + 1
    BY <1>2, LenProperties
  <1> HIDE DEF g
  <1>4. shift \in [1 .. l -> C]
    BY <1>1
  <1>5. \A a, b \in 1 .. l : shift[a] = shift[b] => a = b
    BY <1>1
  <1>6. \A c \in C : \E a \in 1 .. l : shift[a] = c
    <2> TAKE c \in C
    <2>1. CASE c < i
      <3>1. c \in 1 .. l /\ shift[c] = c
        BY <1>1, <2>1
      <3> QED
        BY <3>1
    <2>2. CASE ~ (c < i)
      <3>1. c - 1 \in 1 .. l /\ shift[c - 1] = c
        BY <1>1, <2>2
      <3> QED
        BY <3>1
    <2> QED
      BY <2>1, <2>2
  <1>7. \A a \in 1 .. l : g[shift[a]] = fields[a] /\ shift[a] \in 1 .. l + 1
    BY <1>1, <1>2
  <1>8. A = {a \in 1 .. l : shift[a] \in B \ {i}}
    BY <1>1, <1>3, <1>4, <1>7
  <1>9. B \ {i} \in SUBSET C
    BY <1>3
  <1>10. i \in B <=> f \in T
    BY <1>1, <1>2, <1>3
  <1> HIDE DEF A, B, shift, C
  <1>11. shift \in Bijection(1 .. l, C)
    BY <1>4, <1>5, <1>6, Fun_IsBij
  <1>12. IsFiniteSet(1 .. l)
    BY <1>1, FS_Interval
  <1>13. /\ IsFiniteSet(B \ {i}) /\ Cardinality(A) = Cardinality(B \ {i})
         /\ Cardinality(B \ {i}) \in Nat
    <2> DEFINE Q == B \ {i}
    <2>1. Q \in SUBSET C /\ A \in SUBSET (1 .. l) /\ \A a \in 1 .. l : a \in A <=> shift[a] \in Q
      BY <1>8, <1>9
    <2> HIDE DEF Q
    <2>2. IsFiniteSet(Q) /\ Cardinality(A) = Cardinality(Q) /\ Cardinality(Q) \in Nat
      BY <1>11, <1>12, <2>1, CountedThrough, ZenonT(40)
    <2> QED
      BY <2>1, <2>2 DEF Q
  <1>14. Cardinality((B \ {i}) \cup {i}) = Cardinality(B \ {i}) + 1
    BY <1>13, FS_AddElement
  <1>15. CASE f \in T
    <2>1. (B \ {i}) \cup {i} = B
      BY <1>10, <1>15
    <2> QED
      BY <1>13, <1>14, <1>15, <2>1 DEF Counted, A, B, g
  <1>16. CASE f \notin T
    <2>1. B \ {i} = B
      BY <1>10, <1>16
    <2>2. Cardinality(A) = Cardinality(B) /\ Cardinality(B) \in Nat
      BY <1>13, <2>1
    <2>3. Counted(InsertAt(fields, i, f), T) = Cardinality(B) /\ Counted(fields, T) = Cardinality(A)
      BY DEF Counted, A, B, g
    <2> QED
      BY <1>16, <2>2, <2>3
  <1> QED
    BY <1>15, <1>16

LEMMA ChangedElements ==
  ASSUME NEW fields \in Seq(FieldT), NEW i \in 1 .. Len(fields), NEW v \in Value
  PROVE  LET g == [fields EXCEPT ![i].value = v]
         IN  /\ g \in Seq(FieldT) /\ Len(g) = Len(fields)
             /\ DOMAIN g = 1 .. Len(fields) /\ DOMAIN fields = 1 .. Len(fields)
             /\ g[i] = Field(fields[i].key, v)
             /\ \A n \in 1 .. Len(fields) : g[n].key = fields[n].key
                                           /\ (n # i => g[n] = fields[n])
  <1> DEFINE g == [fields EXCEPT ![i].value = v]
             l == Len(fields)
             h == Field(fields[i].key, v)
  <1>1. l \in Nat /\ DOMAIN fields = 1 .. l /\ fields[i] = Field(fields[i].key, fields[i].value)
        /\ fields[i].key \in Keys
    BY FieldsKnown
  <1>2. [fields[i] EXCEPT !.value = v] = h
    BY <1>1 DEF Field
  <1>3. h \in FieldT /\ h.key = fields[i].key
    BY <1>1, FieldMade
  <1>4. g = [fields EXCEPT ![i] = h]
    BY <1>1, <1>2
  <1> HIDE DEF h, g
  <1>5. /\ g \in Seq(FieldT) /\ Len(g) = l
        /\ \A n \in 1 .. l : g[n] = IF n = i THEN h ELSE fields[n]
    BY <1>3, <1>4, ExceptSeq
  <1>6. DOMAIN g = 1 .. l
    BY <1>5, FieldsKnown
  <1> QED
    BY <1>1, <1>3, <1>5, <1>6 DEF g, h

LEMMA CountChanged ==
  ASSUME NEW fields \in Seq(FieldT), NEW i \in 1 .. Len(fields), NEW v \in Value, NEW T
  PROVE  Counted([fields EXCEPT ![i].value = v], T) + (IF fields[i] \in T THEN 1 ELSE 0)
           = Counted(fields, T) + (IF Field(fields[i].key, v) \in T THEN 1 ELSE 0)
  <1> DEFINE g == [fields EXCEPT ![i].value = v]
             A == {n \in DOMAIN fields : fields[n] \in T}
             B == {n \in DOMAIN g : g[n] \in T}
             a == Cardinality(A)
             b == Cardinality(B)
  <1>1. /\ g \in Seq(FieldT) /\ DOMAIN g = 1 .. Len(fields) /\ DOMAIN fields = 1 .. Len(fields)
        /\ g[i] = Field(fields[i].key, v)
        /\ \A n \in 1 .. Len(fields) : n # i => g[n] = fields[n]
    BY ChangedElements
  <1> HIDE DEF g
  <1>2. A \ {i} = B \ {i}
    BY <1>1
  <1>3. IsFiniteSet(A) /\ IsFiniteSet(B) /\ a \in Nat /\ b \in Nat
    BY <1>1, CountFinite DEF Counted
  <1>4. /\ i \in A <=> fields[i] \in T
        /\ i \in B <=> Field(fields[i].key, v) \in T
    BY <1>1
  <1> HIDE DEF A, B
  <1>5. /\ Cardinality(A \ {i}) = IF i \in A THEN a - 1 ELSE a
        /\ Cardinality(B \ {i}) = IF i \in B THEN b - 1 ELSE b
    BY <1>3, FS_RemoveElement
  <1>6. (IF i \in A THEN a - 1 ELSE a) = (IF i \in B THEN b - 1 ELSE b)
    BY <1>2, <1>5
  <1> HIDE DEF a, b
  <1>7. b + (IF fields[i] \in T THEN 1 ELSE 0) = a + (IF Field(fields[i].key, v) \in T THEN 1 ELSE 0)
    BY <1>3, <1>4, <1>6
  <1> QED
    BY <1>7 DEF Counted, A, B, a, b, g

LEMMA CountKept ==
  ASSUME NEW fields \in Seq(FieldT), NEW I \in SUBSET DOMAIN fields, NEW T
  PROVE  Counted(fields, T)
           = Counted(PartAt(fields, I), T)
             + Cardinality({n \in DOMAIN fields \ I : fields[n] \in T})
  <1> DEFINE g == PartAt(fields, I)
             pos == Positioned(I)
             c == Cardinality(I)
             P == {n \in I : fields[n] \in T}
             Q == {n \in DOMAIN fields \ I : fields[n] \in T}
             R == {n \in DOMAIN fields : fields[n] \in T}
  <1>1. /\ g \in Seq(FieldT) /\ Len(g) = c /\ c \in Nat
        /\ pos \in Bijection(1 .. c, I)
        /\ \A i \in 1 .. c : pos[i] \in I /\ g[i] = fields[pos[i]]
    BY KeptElements
  <1>2. DOMAIN g = 1 .. c
    BY <1>1, LenProperties
  <1> HIDE DEF g, pos, c
  <1> DEFINE G == {i \in DOMAIN g : g[i] \in T}
  <1>3. G \in SUBSET (1 .. c) /\ \A i \in 1 .. c : i \in G <=> pos[i] \in P
    BY <1>1, <1>2
  <1>4. IsFiniteSet(1 .. c) /\ P \in SUBSET I
    BY <1>1, FS_Interval
  <1>5. Counted(g, T) = Cardinality(P)
    <2>1. pos \in Bijection(1 .. c, I)
      BY <1>1
    <2> DEFINE A == 1 .. c
    <2>2. pos \in Bijection(A, I) /\ IsFiniteSet(A) /\ P \in SUBSET I /\ G \in SUBSET A
      BY <1>3, <1>4, <2>1
    <2>3. \A i \in A : i \in G <=> pos[i] \in P
      BY <1>3
    <2> HIDE DEF P, Q, R, G, A
    <2>5. Cardinality(G) = Cardinality(P)
      BY <2>2, <2>3, CountedThrough
    <2> QED
      BY <2>5 DEF Counted, G
  <1>6. R = P \cup Q /\ P \cap Q = {}
    OBVIOUS
  <1>7. IsFiniteSet(R)
    BY CountFinite
  <1>8. IsFiniteSet(P) /\ IsFiniteSet(Q)
    BY <1>6, <1>7, FS_Subset
  <1>9. Cardinality(P) \in Nat /\ Cardinality(Q) \in Nat
    BY <1>8, FS_CardinalityType
  <1> HIDE DEF P, Q, R
  <1>10. Cardinality(R) = Cardinality(P) + Cardinality(Q) - Cardinality(P \cap Q)
    BY <1>6, <1>8, FS_Union
  <1>11. Cardinality(P \cap Q) = 0
    BY <1>6, FS_EmptySet
  <1> QED
    BY <1>5, <1>9, <1>10, <1>11 DEF Counted, g, Q, R

-----------------------------------------------------------------------------
(* What a change does to the fields of one track and to the cache.         *)

States == [fields : Seq(FieldT), cache : Caches]

KeyIs(s)   == {f \in FieldT : <<f.key>> = s}
ValueIs(s) == {f \in FieldT : f.value = s}

(* How often the fields hold the string.                                   *)
Count(fields, s) == Counted(fields, KeyIs(s)) + Counted(fields, ValueIs(s))

(* The tags come first, then the properties, the URI before the others.    *)
Ordered(fields) ==
    \A a, b \in DOMAIN fields :
        a < b => /\ fields[a].key # fields[b].key
                 /\ fields[b].key \in Fields \cup {URI} => fields[a].key \in Fields

(* The references change as the fields do, and no memo is invented.        *)
Follows(m, r) ==
    /\ r \in States
    /\ MemosKept(m.cache, r.cache)
    /\ \A s : Refs(r.cache, s) + Count(m.fields, s) = Refs(m.cache, s) + Count(r.fields, s)

(* There are at least the references of the fields.                        *)
Covered(m) == \A s : Refs(m.cache, s) >= Count(m.fields, s)

LEMMA StateKnown ==
  ASSUME NEW m \in States
  PROVE  /\ m.fields \in Seq(FieldT) /\ m.cache \in Caches
         /\ \A s : Count(m.fields, s) \in Nat /\ Refs(m.cache, s) \in Nat
  <1>1. m.fields \in Seq(FieldT) /\ m.cache \in Caches
    BY DEF States
  <1>2. \A s : Count(m.fields, s) \in Nat /\ Refs(m.cache, s) \in Nat
    <2> TAKE s
    <2>1. Counted(m.fields, KeyIs(s)) \in Nat /\ Counted(m.fields, ValueIs(s)) \in Nat
      BY <1>1, CountFinite
    <2> QED
      BY <1>1, <2>1, CacheKnown DEF Count
  <1> QED
    BY <1>1, <1>2

LEMMA StateMade ==
  ASSUME NEW fields \in Seq(FieldT), NEW c \in Caches
  PROVE  LET m == [fields |-> fields, cache |-> c]
         IN  m \in States /\ m.fields = fields /\ m.cache = c
  BY DEF States

LEMMA FollowsItself ==
  ASSUME NEW m \in States
  PROVE  Follows(m, m)
  BY StateKnown DEF Follows, MemosKept

LEMMA FollowsOn ==
  ASSUME NEW m \in States, NEW q, NEW r, Follows(m, q), Follows(q, r)
  PROVE  Follows(m, r)
  <1>1. q \in States /\ r \in States
    BY DEF Follows
  <1>2. MemosKept(m.cache, r.cache)
    BY MemosStayKept DEF Follows
  <1>3. ASSUME NEW s
        PROVE  Refs(r.cache, s) + Count(m.fields, s) = Refs(m.cache, s) + Count(r.fields, s)
    <2>1. /\ Refs(q.cache, s) + Count(m.fields, s) = Refs(m.cache, s) + Count(q.fields, s)
          /\ Refs(r.cache, s) + Count(q.fields, s) = Refs(q.cache, s) + Count(r.fields, s)
      BY DEF Follows
    <2>2. /\ Count(m.fields, s) \in Nat /\ Refs(m.cache, s) \in Nat
          /\ Count(q.fields, s) \in Nat /\ Refs(q.cache, s) \in Nat
          /\ Count(r.fields, s) \in Nat /\ Refs(r.cache, s) \in Nat
      BY <1>1, StateKnown
    <2> QED
      BY <2>1, <2>2
  <1> QED
    BY <1>1, <1>2, <1>3 DEF Follows

LEMMA Placed ==
  ASSUME NEW fields \in Seq(FieldT), NEW k \in Keys
  PROVE  /\ Place(fields, k) \in 1 .. Len(fields) + 1
         /\ k \in Properties => Place(fields, k) = Len(fields) + 1
         /\ k \notin Properties =>
              \A n \in DOMAIN fields : n < Place(fields, k) => fields[n].key \in Fields
  <1> DEFINE l == Len(fields)
             S == {l + 1} \cup {n \in DOMAIN fields : n = l \/ fields[n].key \in Properties}
  <1>1. l \in Nat /\ DOMAIN fields = 1 .. l /\ \A n \in 1 .. l : fields[n].key \in Keys
    BY FieldsKnown
  <1>2. CASE k \in Properties
    BY <1>1, <1>2 DEF Place
  <1>3. CASE k \notin Properties
    <2>1. Place(fields, k) = Min(S)
      BY <1>3 DEF Place
    <2>2. S \in SUBSET Nat /\ S # {} /\ S \subseteq 1 .. l + 1
      BY <1>1
    <2>3. \A n \in DOMAIN fields : n \notin S => fields[n].key \in Fields
      BY <1>1 DEF Keys
    <2> HIDE DEF S
    <2>4. Min(S) \in S /\ \A x \in S : Min(S) <= x
      BY <2>2, MinOfNumbers
    <2>5. Min(S) \in 1 .. l + 1
      BY <2>2, <2>4
    <2>6. \A n \in DOMAIN fields : n < Min(S) => n \notin S
      BY <1>1, <2>4, <2>5
    <2> QED
      BY <1>3, <2>1, <2>3, <2>5, <2>6
  <1> QED
    BY <1>2, <1>3

LEMMA InsertedElements ==
  ASSUME NEW fields \in Seq(FieldT), NEW i \in 1 .. Len(fields) + 1, NEW f \in FieldT
  PROVE  LET g == InsertAt(fields, i, f)
         IN  /\ g \in Seq(FieldT) /\ Len(fields) \in Nat /\ Len(g) = Len(fields) + 1
             /\ \A n \in 1 .. Len(fields) + 1 :
                  g[n] = IF n < i THEN fields[n] ELSE IF n = i THEN f ELSE fields[n - 1]
  <1>0. Len(fields) \in Nat
    BY FieldsKnown
  <1>1. PICK k \in 0 .. Len(fields) : k + 1 = i
    <2>1. i - 1 \in 0 .. Len(fields) /\ (i - 1) + 1 = i
      BY <1>0
    <2> QED
      BY <2>1
  <1>2. /\ InsertAt(fields, k + 1, f) \in Seq(FieldT)
        /\ Len(InsertAt(fields, k + 1, f)) = Len(fields) + 1
        /\ \A n \in 1 .. Len(fields) + 1 :
             InsertAt(fields, k + 1, f)[n]
                = IF n <= k THEN fields[n] ELSE IF n = k + 1 THEN f ELSE fields[n - 1]
    BY ONLY InsertAtElements, k \in 0 .. Len(fields), fields \in Seq(FieldT), f \in FieldT
  <1>3. \A n \in 1 .. Len(fields) + 1 : n <= k <=> n < i
    BY <1>0, <1>1
  <1> QED
    BY <1>0, <1>1, <1>2, <1>3

LEMMA InsertedKeys ==
  ASSUME NEW fields \in Seq(FieldT), NEW i \in 1 .. Len(fields) + 1, NEW f \in FieldT
  PROVE  KeysOf(InsertAt(fields, i, f)) = KeysOf(fields) \cup {f.key}
  <1> DEFINE g == InsertAt(fields, i, f)
             l == Len(fields)
  <1>1. /\ g \in Seq(FieldT) /\ l \in Nat /\ Len(g) = l + 1
        /\ \A n \in 1 .. l + 1 : g[n] = IF n < i THEN fields[n] ELSE IF n = i THEN f ELSE fields[n - 1]
    BY InsertedElements
  <1> HIDE DEF g
  <1>2. DOMAIN g = 1 .. l + 1 /\ DOMAIN fields = 1 .. l
    BY <1>1, FieldsKnown
  <1>3. ASSUME NEW n \in 1 .. l + 1 PROVE g[n].key \in KeysOf(fields) \cup {f.key}
    <2>1. CASE n < i
      <3>1. n \in 1 .. l /\ g[n] = fields[n]
        BY <1>1, <2>1
      <3> QED
        BY <1>2, <3>1 DEF KeysOf
    <2>2. CASE n = i
      BY <1>1, <2>2
    <2>3. CASE n > i
      <3>1. n - 1 \in 1 .. l /\ g[n] = fields[n - 1]
        BY <1>1, <2>3
      <3> QED
        BY <1>2, <3>1 DEF KeysOf
    <2> QED
      BY <1>1, <2>1, <2>2, <2>3
  <1>4. ASSUME NEW n \in 1 .. l PROVE \E j \in 1 .. l + 1 : g[j] = fields[n]
    <2>1. CASE n < i
      <3>1. n \in 1 .. l + 1 /\ g[n] = fields[n]
        BY <1>1, <2>1
      <3> QED
        BY <3>1
    <2>2. CASE ~ (n < i)
      <3>1. n + 1 \in 1 .. l + 1 /\ g[n + 1] = fields[n]
        BY <1>1, <2>2
      <3> QED
        BY <3>1
    <2> QED
      BY <2>1, <2>2
  <1>5. i \in 1 .. l + 1 /\ g[i] = f
    BY <1>1
  <1> QED
    <2>1. KeysOf(g) = {g[n].key : n \in 1 .. l + 1} /\ KeysOf(fields) = {fields[n].key : n \in 1 .. l}
      BY <1>2 DEF KeysOf
    <2>2. f.key \in KeysOf(g)
      BY <1>5, <2>1
    <2>3. KeysOf(fields) \subseteq KeysOf(g)
      BY <1>4, <2>1
    <2>4. KeysOf(g) \subseteq KeysOf(fields) \cup {f.key}
      BY <1>3, <2>1
    <2> QED
      BY <2>2, <2>3, <2>4 DEF g

LEMMA InsertedOrdered ==
  ASSUME NEW fields \in Seq(FieldT), NEW k \in Keys, NEW v \in Value,
         Ordered(fields), k \notin KeysOf(fields),
         k = URI => KeysOf(fields) \subseteq Fields
  PROVE  Ordered(InsertAt(fields, Place(fields, k), Field(k, v)))
  <1> DEFINE p == Place(fields, k)
             f == Field(k, v)
             g == InsertAt(fields, p, f)
             l == Len(fields)
             back(n) == IF n < p THEN n ELSE n - 1
  <1>1. /\ p \in 1 .. l + 1
        /\ k \in Properties => p = l + 1
        /\ k \notin Properties => \A n \in DOMAIN fields : n < p => fields[n].key \in Fields
    BY Placed
  <1>2. f \in FieldT /\ f.key = k
    BY FieldMade
  <1>3. /\ g \in Seq(FieldT) /\ l \in Nat /\ Len(g) = l + 1
        /\ \A n \in 1 .. l + 1 : g[n] = IF n < p THEN fields[n] ELSE IF n = p THEN f ELSE fields[n - 1]
    <2> HIDE DEF p, f
    <2> QED
      BY <1>1, <1>2, InsertedElements
  <1> HIDE DEF g, p, f
  <1>4. DOMAIN g = 1 .. l + 1 /\ DOMAIN fields = 1 .. l
    BY <1>3, FieldsKnown
  <1>5. ASSUME NEW n \in 1 .. l + 1, n # p
        PROVE  back(n) \in 1 .. l /\ g[n] = fields[back(n)] /\ fields[back(n)].key \in KeysOf(fields)
    <2>1. back(n) \in 1 .. l
      BY <1>1, <1>3, <1>5
    <2>2. g[n] = fields[back(n)]
      BY <1>1, <1>3, <1>5
    <2> QED
      BY <1>4, <2>1, <2>2 DEF KeysOf
  <1>6. ASSUME NEW a \in 1 .. l + 1, NEW b \in 1 .. l + 1, a < b
        PROVE  /\ g[a].key # g[b].key
               /\ g[b].key \in Fields \cup {URI} => g[a].key \in Fields
    <2>1. CASE a # p /\ b # p
      <3>1. back(a) < back(b)
        BY <1>1, <1>3, <1>6, <2>1
      <3>2. /\ back(a) \in DOMAIN fields /\ back(b) \in DOMAIN fields
            /\ g[a] = fields[back(a)] /\ g[b] = fields[back(b)]
        BY <1>4, <1>5, <2>1
      <3> HIDE DEF back
      <3> QED
        BY <3>1, <3>2 DEF Ordered
    <2>2. CASE b = p
      <3>1. a # p /\ back(a) = a
        BY <1>1, <1>3, <1>6, <2>2
      <3>2. a \in 1 .. l /\ g[a] = fields[a] /\ g[a].key \in KeysOf(fields) /\ g[b].key = k
        BY <1>2, <1>3, <1>5, <2>2, <3>1
      <3>3. k \in Fields => k \notin Properties
        BY Constants
      <3> QED
        BY <1>1, <1>4, <1>6, <2>2, <3>2, <3>3
    <2>3. CASE a = p
      <3>1. b # p /\ back(b) = b - 1 /\ p # l + 1
        BY <1>1, <1>3, <1>6, <2>3
      <3>2. g[b].key \in KeysOf(fields) /\ g[a].key = k
        BY <1>2, <1>3, <1>5, <2>3, <3>1
      <3>3. k \in Fields
        BY <1>1, <3>1 DEF Keys
      <3> QED
        BY <3>2, <3>3
    <2> QED
      BY <2>1, <2>2, <2>3
  <1>7. Ordered(g)
    BY <1>4, <1>6 DEF Ordered
  <1> QED
    BY <1>7 DEF g, p, f

(* In fields that are in order the key is met before the place of a new    *)
(* field, or not at all.                                                   *)
LEMMA KeyMet ==
  ASSUME NEW fields \in Seq(FieldT), NEW k \in Keys, Ordered(fields),
         \A n \in DOMAIN fields : n <= Place(fields, k) => fields[n].key # k
  PROVE  k \notin KeysOf(fields)
  <1> DEFINE l == Len(fields)
             S == {l + 1} \cup {n \in DOMAIN fields : n = l \/ fields[n].key \in Properties}
             p == Place(fields, k)
  <1>1. l \in Nat /\ DOMAIN fields = 1 .. l
    BY FieldsKnown
  <1>2. p \in 1 .. l + 1 /\ (k \in Properties => p = l + 1)
    BY Placed
  <1> SUFFICES ASSUME NEW n \in 1 .. l, fields[n].key = k PROVE FALSE
    BY <1>1 DEF KeysOf
  <1>3. p < n
    BY <1>1, <1>2
  <1>4. k \in Fields /\ k \notin Properties
    BY <1>1, <1>2, <1>3, Constants DEF Keys
  <1>5. p \in S
    <2>1. p = Min(S)
      BY <1>4 DEF Place
    <2>2. S \subseteq Nat /\ l + 1 \in S
      BY <1>1
    <2> HIDE DEF S, p
    <2> QED
      BY <2>1, <2>2, MinOfNumbers
  <1>6. fields[p].key \in Properties
    BY <1>1, <1>3, <1>5
  <1>7. fields[p].key \in Fields
    <2> HIDE DEF p
    <2> QED
      BY <1>1, <1>2, <1>3, <1>4 DEF Ordered
  <1> QED
    BY <1>6, <1>7, Constants

LEMMA FieldAdded ==
  ASSUME NEW m \in States, NEW k \in Keys, NEW v \in Value
  PROVE  LET r == WithField(m, k, v)
         IN  /\ r \in States /\ Follows(m, r)
             /\ KeysOf(r.fields) = KeysOf(m.fields) \cup {k}
             /\ Ordered(m.fields) /\ (k = URI => k \in KeysOf(m.fields) \/ KeysOf(m.fields) \subseteq Fields)
                  => Ordered(r.fields)
  <1> DEFINE r == WithField(m, k, v)
             g == InsertAt(m.fields, Place(m.fields, k), Field(k, v))
             d == AddValue(m.cache, <<k>>)
             e == AddValue(d, v)
             met == \E n \in DOMAIN m.fields : n <= Place(m.fields, k) /\ m.fields[n].key = k
  <1>1. CASE met
    <2>1. r = m /\ k \in KeysOf(m.fields)
      BY <1>1 DEF WithField, KeysOf
    <2>2. Follows(m, m)
      BY FollowsItself
    <2> HIDE DEF r
    <2>3. KeysOf(r.fields) = KeysOf(m.fields) \cup {k}
      BY <2>1
    <2> QED
      BY <2>1, <2>2, <2>3 DEF r
  <1>2. CASE ~ met
    <2>1. r = [fields |-> g, cache |-> e]
      BY <1>2 DEF WithField
    <2>2. m.fields \in Seq(FieldT) /\ m.cache \in Caches
      BY StateKnown
    <2>3. Field(k, v) \in FieldT /\ Field(k, v).key = k /\ Field(k, v).value = v
      BY FieldMade
    <2>4. Place(m.fields, k) \in 1 .. Len(m.fields) + 1
      BY <2>2, Placed
    <2>5. g \in Seq(FieldT)
      BY <2>2, <2>3, <2>4, InsertedElements
    <2>6. <<k>> \in Str /\ v \in Str
      BY DEF Str
    <2>7. /\ d \in Caches /\ MemosKept(m.cache, d)
          /\ \A s : Refs(d, s) = Refs(m.cache, s) + (IF s = <<k>> THEN 1 ELSE 0)
      BY <2>2, <2>6, ValueAdded
    <2>8. /\ e \in Caches /\ MemosKept(d, e)
          /\ \A s : Refs(e, s) = Refs(d, s) + (IF s = v THEN 1 ELSE 0)
      <3> HIDE DEF d
      <3> QED
        BY <2>6, <2>7, ValueAdded
    <2>9. MemosKept(m.cache, e)
      BY <2>7, <2>8, MemosStayKept
    <2>10. ASSUME NEW s
           PROVE  Refs(e, s) + Count(m.fields, s) = Refs(m.cache, s) + Count(g, s)
      <3> DEFINE f == Field(k, v)
                 i == Place(m.fields, k)
                 dk == IF f \in KeyIs(s) THEN 1 ELSE 0
                 dv == IF f \in ValueIs(s) THEN 1 ELSE 0
      <3>1. /\ f \in KeyIs(s) <=> s = <<k>>
            /\ f \in ValueIs(s) <=> s = v
        BY <2>3 DEF KeyIs, ValueIs
      <3>2. /\ Counted(g, KeyIs(s)) = Counted(m.fields, KeyIs(s)) + dk
            /\ Counted(g, ValueIs(s)) = Counted(m.fields, ValueIs(s)) + dv
        <4> HIDE DEF f, i
        <4> QED
          BY <2>2, <2>3, <2>4, CountInserted DEF f, i
      <3>3. /\ Counted(m.fields, KeyIs(s)) \in Nat /\ Counted(m.fields, ValueIs(s)) \in Nat
            /\ Refs(m.cache, s) \in Nat
        BY <2>2, CountFinite, CacheKnown
      <3>4. Refs(e, s) = Refs(m.cache, s) + dk + dv
        <4> HIDE DEF d, e, f
        <4> QED
          BY <2>7, <2>8, <3>1
      <3>5. dk \in Nat /\ dv \in Nat
        OBVIOUS
      <3> HIDE DEF dk, dv, g, e
      <3> QED
        BY <3>2, <3>3, <3>4, <3>5 DEF Count
    <2> DEFINE f == Field(k, v)
               i == Place(m.fields, k)
    <2>11. KeysOf(g) = KeysOf(m.fields) \cup {k}
      <3>1. KeysOf(InsertAt(m.fields, i, f)) = KeysOf(m.fields) \cup {f.key}
        <4> HIDE DEF f, i
        <4> QED
          BY <2>2, <2>3, <2>4, InsertedKeys DEF f, i
      <3> QED
        BY <2>3, <3>1
    <2>12. ASSUME Ordered(m.fields), k = URI => k \in KeysOf(m.fields) \/ KeysOf(m.fields) \subseteq Fields
           PROVE  Ordered(g)
      <3>1. k \notin KeysOf(m.fields)
        BY <1>2, <2>2, <2>12, KeyMet
      <3> QED
        BY <2>2, <2>12, <3>1, InsertedOrdered
    <2> HIDE DEF g, e, d, r
    <2>13. r \in States /\ r.fields = g /\ r.cache = e
      BY <2>1, <2>5, <2>8, StateMade
    <2>14. Follows(m, r)
      BY <2>9, <2>10, <2>13 DEF Follows
    <2> QED
      BY <2>11, <2>12, <2>13, <2>14 DEF r
  <1> QED
    BY <1>1, <1>2

LEMMA CountPositive ==
  ASSUME NEW fields \in Seq(FieldT), NEW T, NEW n \in DOMAIN fields, fields[n] \in T
  PROVE  Counted(fields, T) >= 1
  <1> DEFINE A == {i \in DOMAIN fields : fields[i] \in T}
  <1>1. IsFiniteSet(A) /\ Cardinality(A) \in Nat
    BY CountFinite DEF Counted
  <1>2. A # {}
    OBVIOUS
  <1> HIDE DEF A
  <1>3. Cardinality(A) # 0
    BY <1>1, <1>2, FS_EmptySet
  <1> QED
    BY <1>1, <1>3 DEF Counted, A

(* A string of a field is in a cache that covers the fields.               *)
LEMMA FieldsCached ==
  ASSUME NEW m \in States, Covered(m), NEW n \in DOMAIN m.fields
  PROVE  /\ Refs(m.cache, m.fields[n].value) >= 1 /\ m.fields[n].value \in DOMAIN m.cache
         /\ Refs(m.cache, <<m.fields[n].key>>) >= 1
  <1> DEFINE f == m.fields[n]
  <1>1. m.fields \in Seq(FieldT) /\ m.cache \in Caches
    BY StateKnown
  <1>2. f \in FieldT
    BY <1>1, FieldsKnown
  <1>3. f \in ValueIs(f.value) /\ f \in KeyIs(<<f.key>>)
    BY <1>2 DEF ValueIs, KeyIs
  <1>4. /\ Counted(m.fields, ValueIs(f.value)) >= 1
        /\ Counted(m.fields, KeyIs(<<f.key>>)) >= 1
    BY <1>1, <1>3, CountPositive
  <1>5. ASSUME NEW s, \/ Counted(m.fields, ValueIs(s)) >= 1
                      \/ Counted(m.fields, KeyIs(s)) >= 1
        PROVE  Refs(m.cache, s) >= 1 /\ s \in DOMAIN m.cache
    <2>1. /\ Counted(m.fields, ValueIs(s)) \in Nat /\ Counted(m.fields, KeyIs(s)) \in Nat
          /\ Refs(m.cache, s) \in Nat
      BY <1>1, CountFinite, CacheKnown
    <2>2. Refs(m.cache, s) >= Counted(m.fields, KeyIs(s)) + Counted(m.fields, ValueIs(s))
      BY DEF Covered, Count
    <2>3. Refs(m.cache, s) >= 1
      BY <1>5, <2>1, <2>2
    <2> QED
      BY <2>3 DEF Refs
  <1> QED
    BY <1>4, <1>5

LEMMA AtKnown ==
  ASSUME NEW fields, NEW k \in KeysOf(fields)
  PROVE  At(fields, k) \in DOMAIN fields /\ fields[At(fields, k)].key = k
  BY DEF KeysOf, At

LEMMA ValueSet ==
  ASSUME NEW m \in States, Covered(m), NEW k \in KeysOf(m.fields), NEW v \in Value
  PROVE  LET r == SetValue(m, k, v)
         IN  /\ r \in States /\ Follows(m, r)
             /\ KeysOf(r.fields) = KeysOf(m.fields)
             /\ Ordered(m.fields) => Ordered(r.fields)
  <1> DEFINE r == SetValue(m, k, v)
             n == At(m.fields, k)
             old == m.fields[n].value
             g == [m.fields EXCEPT ![n].value = v]
             d == RemoveValue(m.cache, old)
             e == AddValue(d, v)
  <1>1. r = [fields |-> g, cache |-> e]
    BY DEF SetValue
  <1>2. n \in DOMAIN m.fields /\ m.fields \in Seq(FieldT) /\ m.cache \in Caches
    BY AtKnown, StateKnown
  <1>3. DOMAIN m.fields = 1 .. Len(m.fields)
    BY <1>2, FieldsKnown
  <1> HIDE DEF n, old, g, e
  <1>4. /\ g \in Seq(FieldT) /\ DOMAIN g = DOMAIN m.fields
        /\ g[n] = Field(m.fields[n].key, v)
        /\ \A i \in DOMAIN m.fields : g[i].key = m.fields[i].key
    <2> DEFINE f == m.fields
    <2>1. f \in Seq(FieldT) /\ n \in 1 .. Len(f) /\ g = [f EXCEPT ![n].value = v]
      BY <1>2, <1>3 DEF g
    <2> HIDE DEF f
    <2>2. LET h == [f EXCEPT ![n].value = v]
          IN  /\ h \in Seq(FieldT) /\ DOMAIN h = 1 .. Len(f) /\ DOMAIN f = 1 .. Len(f)
              /\ h[n] = Field(f[n].key, v)
              /\ \A i \in 1 .. Len(f) : h[i].key = f[i].key
      BY <2>1, ChangedElements
    <2>3. /\ g \in Seq(FieldT) /\ DOMAIN g = DOMAIN f /\ g[n] = Field(f[n].key, v)
          /\ \A i \in DOMAIN f : g[i].key = f[i].key
      BY <2>1, <2>2
    <2> QED
      BY <2>3 DEF f
  <1>5. \A T : Counted(g, T) + (IF m.fields[n] \in T THEN 1 ELSE 0)
                 = Counted(m.fields, T) + (IF g[n] \in T THEN 1 ELSE 0)
    <2> TAKE T
    <2>1. Counted(g, T) + (IF m.fields[n] \in T THEN 1 ELSE 0)
            = Counted(m.fields, T) + (IF Field(m.fields[n].key, v) \in T THEN 1 ELSE 0)
      BY <1>2, <1>3, CountChanged DEF g
    <2> QED
      BY <1>4, <2>1
  <1>6. v \in Str
    BY DEF Str
  <1>7. /\ d \in Caches /\ MemosKept(m.cache, d)
        /\ \A x : Refs(d, x) = IF x = old /\ Refs(m.cache, old) > 0 THEN Refs(m.cache, x) - 1
                               ELSE Refs(m.cache, x)
    BY <1>2, ValueRemoved
  <1> HIDE DEF d
  <1>8. /\ e \in Caches /\ MemosKept(d, e)
        /\ \A x : Refs(e, x) = Refs(d, x) + (IF x = v THEN 1 ELSE 0)
    BY <1>6, <1>7, ValueAdded DEF e
  <1>9. Refs(m.cache, old) >= 1
    BY <1>2, FieldsCached DEF old
  <1>10. m.fields[n] \in FieldT /\ m.fields[n].key \in Keys
    BY <1>2, <1>3, FieldsKnown
  <1>11. g[n] \in FieldT /\ g[n].key = m.fields[n].key /\ g[n].value = v
    BY <1>4, <1>10, FieldMade
  <1>12. ASSUME NEW s
         PROVE  Refs(e, s) + Count(m.fields, s) = Refs(m.cache, s) + Count(g, s)
    <2>1. /\ m.fields[n] \in KeyIs(s) <=> g[n] \in KeyIs(s)
          /\ m.fields[n] \in ValueIs(s) <=> s = old
          /\ g[n] \in ValueIs(s) <=> s = v
      BY <1>10, <1>11 DEF KeyIs, ValueIs, old
    <2>2. /\ Counted(g, KeyIs(s)) \in Nat /\ Counted(m.fields, KeyIs(s)) \in Nat
          /\ Counted(g, ValueIs(s)) \in Nat /\ Counted(m.fields, ValueIs(s)) \in Nat
          /\ Refs(m.cache, s) \in Nat /\ Refs(m.cache, old) \in Nat
      BY <1>2, <1>4, CountFinite, CacheKnown
    <2>3. Counted(g, KeyIs(s)) = Counted(m.fields, KeyIs(s))
      BY <1>5, <2>1, <2>2
    <2>4. Counted(g, ValueIs(s)) + (IF s = old THEN 1 ELSE 0)
            = Counted(m.fields, ValueIs(s)) + (IF s = v THEN 1 ELSE 0)
      BY <1>5, <2>1
    <2>5. Refs(e, s) = Refs(m.cache, s) - (IF s = old THEN 1 ELSE 0) + (IF s = v THEN 1 ELSE 0)
      BY <1>7, <1>8, <1>9, <2>2
    <2> QED
      BY <2>2, <2>3, <2>4, <2>5 DEF Count
  <1>13. r \in States /\ r.fields = g /\ r.cache = e
    BY <1>1, <1>4, <1>8, StateMade
  <1> HIDE DEF r
  <1>14. MemosKept(m.cache, e)
    BY <1>7, <1>8, MemosStayKept
  <1>15. Follows(m, r)
    BY <1>12, <1>13, <1>14 DEF Follows
  <1>16. KeysOf(g) = KeysOf(m.fields)
    BY <1>4 DEF KeysOf
  <1>17. Ordered(m.fields) => Ordered(g)
    BY <1>4 DEF Ordered
  <1> QED
    BY <1>13, <1>15, <1>16, <1>17 DEF r

LEMMA KeptOrdered ==
  ASSUME NEW fields \in Seq(FieldT), NEW I \in SUBSET DOMAIN fields
  PROVE  /\ KeysOf(PartAt(fields, I)) = {fields[n].key : n \in I}
         /\ Ordered(fields) => Ordered(PartAt(fields, I))
  <1> DEFINE g == PartAt(fields, I)
             pos == Positioned(I)
             c == Cardinality(I)
             A == 1 .. c
  <1>1. /\ g \in Seq(FieldT) /\ Len(g) = c /\ c \in Nat
        /\ \A i, j \in A : i < j => pos[i] < pos[j]
        /\ \A i \in A : pos[i] \in I /\ g[i] = fields[pos[i]]
        /\ \A n \in I : \E i \in A : pos[i] = n
    BY KeptElements
  <1>2. DOMAIN g = A
    BY <1>1, LenProperties
  <1> HIDE DEF g, pos, c, A
  <1>3. KeysOf(g) = {fields[n].key : n \in I}
    <2>1. KeysOf(g) = {g[i].key : i \in A}
      BY <1>2 DEF KeysOf
    <2>2. \A i \in A : g[i].key = fields[pos[i]].key /\ pos[i] \in I
      BY <1>1
    <2>3. \A n \in I : \E i \in A : g[i].key = fields[n].key
      BY <1>1
    <2> QED
      BY <2>1, <2>2, <2>3
  <1>4. ASSUME Ordered(fields) PROVE Ordered(g)
    <2> SUFFICES ASSUME NEW a \in A, NEW b \in A, a < b
                 PROVE  /\ g[a].key # g[b].key
                        /\ g[b].key \in Fields \cup {URI} => g[a].key \in Fields
      BY <1>2 DEF Ordered
    <2>1. /\ pos[a] < pos[b] /\ pos[a] \in DOMAIN fields /\ pos[b] \in DOMAIN fields
          /\ g[a] = fields[pos[a]] /\ g[b] = fields[pos[b]]
      BY <1>1
    <2> QED
      BY <1>4, <2>1 DEF Ordered
  <1> QED
    BY <1>3, <1>4 DEF g

LEMMA FieldsRemoved ==
  ASSUME NEW m \in States, Covered(m), NEW gone
  PROVE  LET r == Without(m, gone)
         IN  /\ r \in States /\ Follows(m, r)
             /\ KeysOf(r.fields) = KeysOf(m.fields) \ gone
             /\ Ordered(m.fields) => Ordered(r.fields)
  <1> DEFINE r == Without(m, gone)
             away == {n \in DOMAIN m.fields : m.fields[n].key \in gone}
             I == DOMAIN m.fields \ away
             keys == [n \in away |-> <<m.fields[n].key>>]
             values == [n \in away |-> m.fields[n].value]
             g == PartAt(m.fields, I)
             d == RemoveValues(m.cache, keys)
             e == RemoveValues(d, values)
             goneKeys(s) == Cardinality({n \in DOMAIN keys : keys[n] = s})
             goneValues(s) == Cardinality({n \in DOMAIN values : values[n] = s})
  <1>1. r = [fields |-> g, cache |-> e]
    BY DEF Without
  <1>2. m.fields \in Seq(FieldT) /\ m.cache \in Caches /\ I \in SUBSET DOMAIN m.fields
    BY StateKnown
  <1>3. /\ DOMAIN m.fields = 1 .. Len(m.fields) /\ Len(m.fields) \in Nat
        /\ \A n \in DOMAIN m.fields : m.fields[n] \in FieldT
    BY <1>2, FieldsKnown
  <1>4. IsFiniteSet(away)
    <2>1. IsFiniteSet(DOMAIN m.fields)
      BY <1>3, FS_Interval
    <2> QED
      BY <2>1, FS_Subset
  <1>5. /\ d \in Caches /\ MemosKept(m.cache, d)
        /\ \A x : /\ goneKeys(x) \in Nat
                  /\ Refs(d, x) = IF Refs(m.cache, x) > goneKeys(x)
                                  THEN Refs(m.cache, x) - goneKeys(x) ELSE 0
    <2>1. IsFiniteSet(DOMAIN keys)
      BY <1>4
    <2> HIDE DEF keys
    <2> QED
      BY <1>2, <2>1, ValuesRemoved
  <1>6. /\ e \in Caches /\ MemosKept(d, e)
        /\ \A x : /\ goneValues(x) \in Nat
                  /\ Refs(e, x) = IF Refs(d, x) > goneValues(x)
                                  THEN Refs(d, x) - goneValues(x) ELSE 0
    <2>1. IsFiniteSet(DOMAIN values)
      BY <1>4
    <2> HIDE DEF values, d
    <2> QED
      BY <1>5, <2>1, ValuesRemoved
  <1>7. ASSUME NEW s
        PROVE  /\ Counted(m.fields, KeyIs(s)) = Counted(g, KeyIs(s)) + goneKeys(s)
               /\ Counted(m.fields, ValueIs(s)) = Counted(g, ValueIs(s)) + goneValues(s)
    <2>1. DOMAIN m.fields \ I = away
      OBVIOUS
    <2>2. {n \in DOMAIN m.fields \ I : m.fields[n] \in KeyIs(s)} = {n \in DOMAIN keys : keys[n] = s}
      BY <1>3, <2>1 DEF KeyIs
    <2>3. {n \in DOMAIN m.fields \ I : m.fields[n] \in ValueIs(s)} = {n \in DOMAIN values : values[n] = s}
      BY <1>3, <2>1 DEF ValueIs
    <2>4. \A T : Counted(m.fields, T)
                   = Counted(PartAt(m.fields, I), T)
                     + Cardinality({n \in DOMAIN m.fields \ I : m.fields[n] \in T})
      <3> HIDE DEF I
      <3> QED
        BY <1>2, CountKept
    <2> QED
      BY <2>2, <2>3, <2>4
  <1>8. g \in Seq(FieldT)
    <2> HIDE DEF I
    <2> QED
      BY <1>2, KeptElements
  <1>9. /\ KeysOf(g) = {m.fields[n].key : n \in I}
        /\ Ordered(m.fields) => Ordered(g)
    <2> HIDE DEF I
    <2> QED
      BY <1>2, KeptOrdered
  <1>10. KeysOf(g) = KeysOf(m.fields) \ gone
    BY <1>9 DEF KeysOf
  <1> HIDE DEF g, d, e, goneKeys, goneValues
  <1>11. ASSUME NEW s
         PROVE  Refs(e, s) + Count(m.fields, s) = Refs(m.cache, s) + Count(g, s)
    <2>1. /\ Counted(g, KeyIs(s)) \in Nat /\ Counted(g, ValueIs(s)) \in Nat
          /\ Refs(m.cache, s) \in Nat /\ goneKeys(s) \in Nat /\ goneValues(s) \in Nat
      BY <1>2, <1>5, <1>6, <1>8, CountFinite, CacheKnown
    <2>2. Refs(m.cache, s) >= Count(m.fields, s)
      BY DEF Covered
    <2>3. /\ Count(m.fields, s) = Counted(m.fields, KeyIs(s)) + Counted(m.fields, ValueIs(s))
          /\ Count(g, s) = Counted(g, KeyIs(s)) + Counted(g, ValueIs(s))
      BY DEF Count
    <2>4. Refs(d, s) = Refs(m.cache, s) - goneKeys(s)
      BY <1>5, <1>7, <2>1, <2>2, <2>3, SMTT(30)
    <2>5. Refs(e, s) = Refs(d, s) - goneValues(s)
      BY <1>6, <1>7, <2>1, <2>2, <2>3, <2>4
    <2> QED
      BY <1>7, <2>1, <2>3, <2>4, <2>5
  <1> HIDE DEF r
  <1>12. r \in States /\ r.fields = g /\ r.cache = e
    BY <1>1, <1>6, <1>8, StateMade
  <1>13. MemosKept(m.cache, e)
    BY <1>5, <1>6, MemosStayKept
  <1>14. Follows(m, r)
    BY <1>11, <1>12, <1>13 DEF Follows
  <1> QED
    BY <1>9, <1>10, <1>12, <1>14 DEF r

(* The steps of a copy.                                                    *)
Copies(m, fields, f) ==
    f = [n \in 0 .. Len(fields) |->
            IF n = 0 THEN m ELSE WithField(f[n - 1], fields[n].key, fields[n].value)]

LEMMA CopySteps ==
  ASSUME NEW m \in States, NEW fields \in Seq(FieldT)
  PROVE  \E f : /\ Copies(m, fields, f)
                /\ Copied(m, fields) = f[Len(fields)]
  <1> DEFINE l == Len(fields)
             step == [x \in States \X (1 .. l) |->
                         WithField(x[1], fields[x[2]].key, fields[x[2]].value)]
  <1>1. l \in Nat /\ \A n \in 1 .. l : fields[n].key \in Keys /\ fields[n].value \in Value
    BY FieldsKnown
  <1>2. step \in [States \X (1 .. l) -> States]
    <2> SUFFICES ASSUME NEW x \in States, NEW n \in 1 .. l
                 PROVE  WithField(x, fields[n].key, fields[n].value) \in States
      OBVIOUS
    <2> QED
      BY <1>1, FieldAdded
  <1>3. \A x \in States, n \in 1 .. l :
           step[<<x, n>>] = WithField(x, fields[n].key, fields[n].value)
    OBVIOUS
  <1> HIDE DEF step
  <1>4. PICK f \in [0 .. l -> States] :
           f[0] = m /\ \A n \in 1 .. l : f[n] = step[<<f[n - 1], n>>]
    <2>1. l \in Nat
      BY <1>1
    <2> HIDE DEF l
    <2>2. \E f : StepsFrom(f, l, States, m, step)
      BY <1>2, <2>1, StepByStep
    <2> QED
      BY <2>2 DEF StepsFrom
  <1>5. ASSUME NEW n \in 1 .. l
        PROVE  f[n] = WithField(f[n - 1], fields[n].key, fields[n].value)
    <2>1. f[n - 1] \in States
      BY <1>1
    <2> QED
      BY <1>3, <1>4, <2>1
  <1>6. ASSUME NEW n \in 0 .. l
        PROVE  f[n] = IF n = 0 THEN m ELSE WithField(f[n - 1], fields[n].key, fields[n].value)
    <2>1. CASE n = 0
      BY <1>4, <2>1
    <2>2. CASE n # 0
      <3>1. n \in 1 .. l
        BY <1>1, <2>2
      <3> QED
        BY <1>5, <2>2, <3>1
    <2> QED
      BY <2>1, <2>2
  <1>7. Copies(m, fields, f)
    <2> DEFINE g == [n \in 0 .. l |->
                       IF n = 0 THEN m ELSE WithField(f[n - 1], fields[n].key, fields[n].value)]
    <2>1. \A n \in 0 .. l : g[n] = f[n]
      BY <1>6
    <2>2. g = [n \in 0 .. l |-> g[n]] /\ f = [n \in 0 .. l |-> f[n]]
      OBVIOUS
    <2>3. f = g
      <3> HIDE DEF g
      <3> QED
        BY <2>1, <2>2
    <2> QED
      BY <2>3 DEF Copies
  <1> DEFINE c == CHOOSE g : Copies(m, fields, g)
  <1>8. Copies(m, fields, c)
    BY <1>7
  <1>9. Copied(m, fields) = c[l]
    BY DEF Copied, Copies
  <1> QED
    BY <1>8, <1>9

(* A copy gives each key that was not there its field, and keeps the order
   when the track has a URI already or has nothing at all.                 *)
LEMMA FieldsCopied ==
  ASSUME NEW m \in States, NEW fields \in Seq(FieldT),
         Ordered(m.fields), Ordered(fields),
         URI \in KeysOf(m.fields) \/ KeysOf(m.fields) = {}
  PROVE  LET r == Copied(m, fields)
         IN  /\ r \in States /\ Follows(m, r)
             /\ KeysOf(r.fields) = KeysOf(m.fields) \cup KeysOf(fields)
             /\ Ordered(r.fields)
  <1> DEFINE l == Len(fields)
             keys(n) == {fields[i].key : i \in 1 .. n}
  <1>1. /\ l \in Nat /\ DOMAIN fields = 1 .. l
        /\ \A n \in 1 .. l : fields[n].key \in Keys /\ fields[n].value \in Value
    BY FieldsKnown
  <1>2. PICK f : Copies(m, fields, f) /\ Copied(m, fields) = f[l]
    BY CopySteps
  <1>3. f[0] = m
    BY <1>1, <1>2 DEF Copies
  <1>4. ASSUME NEW n \in 1 .. l
        PROVE  f[n] = WithField(f[n - 1], fields[n].key, fields[n].value)
    <2>1. n \in 0 .. l /\ n # 0
      BY <1>1
    <2> QED
      BY <1>2, <2>1 DEF Copies
  <1> DEFINE Sound(n) == /\ f[n] \in States /\ Follows(m, f[n])
                         /\ KeysOf(f[n].fields) = KeysOf(m.fields) \cup keys(n)
                         /\ Ordered(f[n].fields)
             S == {n \in 0 .. l : Sound(n)}
  <1>5. 0 \in S
    <2>1. keys(0) = {}
      OBVIOUS
    <2>2. Follows(m, m)
      BY FollowsItself
    <2> HIDE DEF keys
    <2> QED
      BY <1>1, <1>3, <2>1, <2>2
  <1>6. ASSUME NEW n \in 1 .. l, n - 1 \in S PROVE n \in S
    <2> DEFINE q == f[n - 1]
               k == fields[n].key
               v == fields[n].value
    <2>1. /\ q \in States /\ Follows(m, q) /\ Ordered(q.fields)
          /\ KeysOf(q.fields) = KeysOf(m.fields) \cup keys(n - 1)
      BY <1>6
    <2>2. k \in Keys /\ v \in Value /\ f[n] = WithField(q, k, v)
      BY <1>1, <1>4
    <2>3. k = URI => k \in KeysOf(q.fields) \/ KeysOf(q.fields) \subseteq Fields
      <3> SUFFICES ASSUME k = URI, KeysOf(m.fields) = {} PROVE keys(n - 1) \subseteq Fields
        BY <2>1
      <3> SUFFICES ASSUME NEW i \in 1 .. n - 1 PROVE fields[i].key \in Fields
        OBVIOUS
      <3>1. i \in DOMAIN fields /\ n \in DOMAIN fields /\ i < n
        BY <1>1
      <3> QED
        BY <3>1 DEF Ordered
    <2>4. keys(n) = keys(n - 1) \cup {k}
      <3>1. 1 .. n = (1 .. n - 1) \cup {n}
        BY <1>1
      <3> QED
        BY <3>1
    <2> HIDE DEF q, k, v, keys
    <2>5. /\ f[n] \in States /\ Follows(q, f[n])
          /\ KeysOf(f[n].fields) = KeysOf(q.fields) \cup {k}
          /\ Ordered(f[n].fields)
      BY <2>1, <2>2, <2>3, FieldAdded
    <2>6. Follows(m, f[n])
      BY <2>1, <2>5, FollowsOn
    <2> QED
      BY <1>1, <2>1, <2>4, <2>5, <2>6
  <1> HIDE DEF S
  <1>7. l \in S
    <2>1. \A n \in 0 .. l : n \in S
      BY <1>1, <1>5, <1>6, UpTo
    <2> QED
      BY <1>1, <2>1
  <1>8. keys(l) = KeysOf(fields)
    BY <1>1 DEF KeysOf
  <1> QED
    BY <1>2, <1>7, <1>8 DEF S

LEMMA TextsKnown ==
  /\ \A t \in Tracks : <<Uri[t]>> \in Value
  /\ Decoder \in Value
  /\ Values \subseteq Value
  /\ \A p \in Parts : <<p>> \in Value
  <1>1. \A t \in Tracks : Uri[t] \in Part
    BY DEF Part
  <1>2. Decoder[1] \in Part /\ Parts \subseteq Part
    BY DEF Part
  <1>3. Decoder = <<Decoder[1]>>
    BY DEF Decoder
  <1>4. \A p \in Part : <<p>> \in Value
    BY DEF Value
  <1>5. Seq(Parts) \subseteq Seq(Part)
    BY <1>2, SeqMonotonic
  <1> QED
    BY <1>1, <1>2, <1>3, <1>4, <1>5, Constants DEF Value

(* A new track has its URI and its decoder.                                *)
LEMMA FreshMade ==
  ASSUME NEW t \in Tracks, NEW c \in Caches, NEW decoded \in BOOLEAN
  PROVE  LET r == Fresh(t, c, decoded)
         IN  /\ r \in States /\ Follows([fields |-> <<>>, cache |-> c], r)
             /\ URI \in KeysOf(r.fields)
             /\ Ordered(r.fields)
  <1> DEFINE m == [fields |-> <<>>, cache |-> c]
             q == WithField(m, URI, <<Uri[t]>>)
             r == IF decoded THEN WithField(q, DECODER, Decoder) ELSE q
  <1>1. m \in States /\ m.fields = <<>>
    BY EmptySeq, StateMade
  <1>2. KeysOf(<<>>) = {} /\ Ordered(<<>>)
    BY DEF KeysOf, Ordered
  <1>3. URI \in Keys /\ DECODER \in Keys /\ URI # DECODER
    BY Constants
  <1>4. <<Uri[t]>> \in Value /\ Decoder \in Value
    BY TextsKnown
  <1> HIDE DEF m
  <1>5. /\ q \in States /\ Follows(m, q) /\ KeysOf(q.fields) = {URI} /\ Ordered(q.fields)
    BY <1>1, <1>2, <1>3, <1>4, FieldAdded, ZenonT(40)
  <1> HIDE DEF q
  <1>6. /\ r \in States /\ Follows(q, r) /\ URI \in KeysOf(r.fields) /\ Ordered(r.fields)
    <2>1. CASE decoded
      <3> DEFINE w == WithField(q, DECODER, Decoder)
      <3>1. /\ w \in States /\ Follows(q, w) /\ KeysOf(w.fields) = {URI, DECODER} /\ Ordered(w.fields)
        BY <1>3, <1>4, <1>5, FieldAdded, ZenonT(40)
      <3> HIDE DEF w
      <3> QED
        BY <2>1, <3>1 DEF w
    <2>2. CASE ~ decoded
      BY <1>5, <2>2, FollowsItself
    <2> QED
      BY <2>1, <2>2
  <1>7. Follows(m, r)
    BY <1>1, <1>5, <1>6, FollowsOn
  <1> QED
    BY <1>6, <1>7 DEF Fresh, m, q

-----------------------------------------------------------------------------
(* What the tracks hold.                                                   *)

Metas == [Tracks -> Seq(FieldT)]

Places(mt) == UNION {{t} \X DOMAIN mt[t] : t \in Tracks}
HeldIn(mt, T) == Cardinality({x \in Places(mt) : mt[x[1]][x[2]] \in T})
HeldElsewhere(mt, t, T) ==
    {x \in Places(mt) : x[1] # t /\ mt[x[1]][x[2]] \in T}

LEMMA PlacesKnown ==
  ASSUME NEW mt \in Metas
  PROVE  /\ IsFiniteSet(Places(mt))
         /\ \A x : x \in Places(mt) <=> \E t \in Tracks : \E n \in DOMAIN mt[t] : x = <<t, n>>
  <1> DEFINE f == [t \in Tracks |-> {t} \X DOMAIN mt[t]]
             F == {f[t] : t \in Tracks}
  <1>1. f \in Surjection(Tracks, F)
    <2>1. f \in [Tracks -> F] /\ \A y \in F : \E t \in Tracks : f[t] = y
      OBVIOUS
    <2> HIDE DEF f, F
    <2> QED
      BY <2>1, Fun_IsSurj
  <1>2. IsFiniteSet(F)
    <2> HIDE DEF f, F
    <2> QED
      BY <1>1, Constants, FS_Surjection
  <1>3. ASSUME NEW t \in Tracks PROVE IsFiniteSet(f[t])
    <2>1. mt[t] \in Seq(FieldT)
      BY DEF Metas
    <2>2. IsFiniteSet(DOMAIN mt[t])
      <3> DEFINE l == Len(mt[t])
      <3>1. l \in Nat /\ DOMAIN mt[t] = 1 .. l
        BY <2>1, FieldsKnown
      <3> HIDE DEF l
      <3> QED
        BY <3>1, FS_Interval
    <2>3. IsFiniteSet({t})
      BY FS_Singleton
    <2>4. IsFiniteSet({t} \X DOMAIN mt[t])
      BY <2>2, <2>3, FS_Product
    <2> QED
      BY <2>4
  <1>4. IsFiniteSet(UNION F)
    <2>1. \A y \in F : IsFiniteSet(y)
      BY <1>3
    <2> HIDE DEF F
    <2> QED
      BY <1>2, <2>1, FS_UNION
  <1>5. Places(mt) = UNION F
    BY DEF Places
  <1>6. ASSUME NEW x
        PROVE  x \in Places(mt) <=> \E t \in Tracks : \E n \in DOMAIN mt[t] : x = <<t, n>>
    BY DEF Places
  <1> QED
    BY <1>4, <1>5, <1>6

LEMMA HeldSplit ==
  ASSUME NEW mt \in Metas, NEW t \in Tracks, NEW T
  PROVE  /\ Cardinality(HeldElsewhere(mt, t, T)) \in Nat
         /\ Counted(mt[t], T) \in Nat
         /\ HeldIn(mt, T) = Cardinality(HeldElsewhere(mt, t, T)) + Counted(mt[t], T)
  <1> DEFINE P == {x \in Places(mt) : mt[x[1]][x[2]] \in T}
             E == HeldElsewhere(mt, t, T)
             O == {x \in Places(mt) : x[1] = t /\ mt[x[1]][x[2]] \in T}
             A == {n \in DOMAIN mt[t] : mt[t][n] \in T}
             f == [n \in A |-> <<t, n>>]
  <1>1. mt[t] \in Seq(FieldT)
    BY DEF Metas
  <1>2. IsFiniteSet(A) /\ Cardinality(A) \in Nat
    BY <1>1, CountFinite DEF Counted
  <1>3. \A x : x \in Places(mt) <=> \E u \in Tracks : \E n \in DOMAIN mt[u] : x = <<u, n>>
    BY PlacesKnown
  <1>4. f \in [A -> O]
    BY <1>3
  <1>5. \A a, b \in A : f[a] = f[b] => a = b
    OBVIOUS
  <1>6. \A x \in O : \E n \in A : f[n] = x
    <2> TAKE x \in O
    <2>1. PICK u \in Tracks : \E n \in DOMAIN mt[u] : x = <<u, n>>
      BY <1>3
    <2>2. PICK n \in DOMAIN mt[u] : x = <<u, n>>
      BY <2>1
    <2>3. u = t /\ n \in A
      BY <2>2
    <2> QED
      BY <2>2, <2>3
  <1>7. IsFiniteSet(P) /\ IsFiniteSet(E) /\ IsFiniteSet(O)
    <2>1. P \in SUBSET Places(mt) /\ E \in SUBSET Places(mt) /\ O \in SUBSET Places(mt)
      BY DEF HeldElsewhere
    <2> HIDE DEF P, E, O
    <2> QED
      BY <2>1, PlacesKnown, FS_Subset
  <1>8. P = E \cup O /\ E \cap O = {}
    BY DEF HeldElsewhere
  <1> HIDE DEF f, A, O, E, P
  <1>9. f \in Bijection(A, O)
    BY <1>4, <1>5, <1>6, Fun_IsBij
  <1>10. Cardinality(O) = Cardinality(A)
    BY <1>2, <1>9, FS_Bijection DEF ExistsBijection
  <1>11. Cardinality(P) = Cardinality(E) + Cardinality(O) - Cardinality(E \cap O)
    BY <1>7, <1>8, FS_Union
  <1>12. Cardinality(E \cap O) = 0
    BY <1>8, FS_EmptySet
  <1>13. Cardinality(E) \in Nat
    BY <1>7, FS_CardinalityType
  <1> QED
    BY <1>2, <1>10, <1>11, <1>12, <1>13 DEF HeldIn, Counted, P, A, E

(* Only the fields of one track change.                                    *)
LEMMA HeldChanged ==
  ASSUME NEW mt \in Metas, NEW t \in Tracks, NEW fields \in Seq(FieldT), NEW T
  PROVE  /\ [mt EXCEPT ![t] = fields] \in Metas
         /\ HeldIn([mt EXCEPT ![t] = fields], T) + Counted(mt[t], T)
              = HeldIn(mt, T) + Counted(fields, T)
         /\ HeldIn([mt EXCEPT ![t] = fields], T) \in Nat /\ HeldIn(mt, T) \in Nat
         /\ HeldIn(mt, T) >= Counted(mt[t], T)
         /\ Counted(mt[t], T) \in Nat /\ Counted(fields, T) \in Nat
  <1> DEFINE nt == [mt EXCEPT ![t] = fields]
  <1>1. nt \in Metas /\ nt[t] = fields
    BY DEF Metas
  <1>2. \A u \in Tracks \ {t} : nt[u] = mt[u]
    BY DEF Metas
  <1> HIDE DEF nt
  <1>3. HeldElsewhere(nt, t, T) = HeldElsewhere(mt, t, T)
    <2>1. /\ \A x : x \in Places(mt) <=> \E u \in Tracks : \E n \in DOMAIN mt[u] : x = <<u, n>>
          /\ \A x : x \in Places(nt) <=> \E u \in Tracks : \E n \in DOMAIN nt[u] : x = <<u, n>>
      BY <1>1, PlacesKnown
    <2>2. ASSUME NEW x, x[1] # t
          PROVE  /\ x \in Places(mt) <=> x \in Places(nt)
                 /\ x \in Places(mt) => nt[x[1]][x[2]] = mt[x[1]][x[2]]
      BY <1>2, <2>1, <2>2
    <2> QED
      BY <2>2 DEF HeldElsewhere
  <1>4. /\ Cardinality(HeldElsewhere(mt, t, T)) \in Nat /\ Counted(mt[t], T) \in Nat
        /\ HeldIn(mt, T) = Cardinality(HeldElsewhere(mt, t, T)) + Counted(mt[t], T)
    BY HeldSplit
  <1>5. /\ Counted(fields, T) \in Nat
        /\ HeldIn(nt, T) = Cardinality(HeldElsewhere(nt, t, T)) + Counted(fields, T)
    BY <1>1, HeldSplit
  <1> QED
    BY <1>1, <1>3, <1>4, <1>5 DEF nt

LEMMA HoldersKnown ==
  ASSUME meta \in Metas, NEW s
  PROVE  Holders(s) = HeldIn(meta, KeyIs(s)) + HeldIn(meta, ValueIs(s))
  <1>1. Positions = Places(meta)
    BY DEF Positions, Places
  <1>2. ASSUME NEW x \in Places(meta)
        PROVE  /\ <<meta[x[1]][x[2]].key>> = s <=> meta[x[1]][x[2]] \in KeyIs(s)
               /\ meta[x[1]][x[2]].value = s <=> meta[x[1]][x[2]] \in ValueIs(s)
    <2>1. PICK t \in Tracks : \E n \in DOMAIN meta[t] : x = <<t, n>>
      BY PlacesKnown
    <2>2. PICK n \in DOMAIN meta[t] : x = <<t, n>>
      BY <2>1
    <2>3. meta[t] \in Seq(FieldT)
      BY DEF Metas
    <2>4. meta[t][n] \in FieldT
      BY <2>3, FieldsKnown
    <2> QED
      BY <2>2, <2>4 DEF KeyIs, ValueIs
  <1>3. /\ {x \in Positions : <<meta[x[1]][x[2]].key>> = s}
             = {x \in Places(meta) : meta[x[1]][x[2]] \in KeyIs(s)}
        /\ {x \in Positions : meta[x[1]][x[2]].value = s}
             = {x \in Places(meta) : meta[x[1]][x[2]] \in ValueIs(s)}
    BY <1>1, <1>2
  <1> QED
    BY <1>3 DEF Holders, HeldIn

-----------------------------------------------------------------------------
(* The search.                                                             *)

(* One more position at the end gives one more element.                    *)
LEMMA KeptNext ==
  ASSUME NEW S, NEW s \in Seq(S), NEW n \in DOMAIN s, NEW I \in SUBSET (1 .. n - 1)
  PROVE  PartAt(s, I \cup {n}) = Append(PartAt(s, I), s[n])
  <1> DEFINE J == I \cup {n}
             c == Cardinality(I)
             a == PartAt(s, J)
             b == Append(PartAt(s, I), s[n])
  <1>0. /\ Len(s) \in Nat /\ DOMAIN s = 1 .. Len(s)
        /\ \A i \in DOMAIN s : s[i] \in S
    BY LenProperties, ElementOfSeq
  <1>1. /\ Len(s) \in Nat /\ DOMAIN s = 1 .. Len(s) /\ n \in Nat
        /\ \A i \in DOMAIN s : s[i] \in S
        /\ n > 0 /\ n <= Len(s) /\ n \in 1 .. n
        /\ \A i \in I : i \in Nat /\ i > 0 /\ i < n /\ i \in 1 .. Len(s) /\ i \in 1 .. n
    <2>1. n \in 1 .. Len(s)
      BY <1>0
    <2> QED
      BY <1>0, <2>1
  <1>2. I \in SUBSET DOMAIN s /\ J \in SUBSET DOMAIN s /\ n \notin I
    <2>1. \A i \in I : i \in DOMAIN s
      BY <1>1
    <2>2. n \notin I
      BY <1>1
    <2>3. n \in DOMAIN s
      OBVIOUS
    <2> QED
      BY <2>1, <2>2, <2>3
  <1>3. /\ PartAt(s, I) \in Seq(S) /\ Len(PartAt(s, I)) = c /\ c \in Nat /\ IsFiniteSet(I)
        /\ \A i \in 1 .. c : Positioned(I)[i] \in I /\ PartAt(s, I)[i] = s[Positioned(I)[i]]
    BY <1>2, KeptElements
  <1>4. Cardinality(J) = c + 1
    BY <1>2, <1>3, FS_AddElement
  <1>5. /\ a \in Seq(S) /\ Len(a) = c + 1
        /\ \A i \in 1 .. c + 1 : a[i] = s[Positioned(J)[i]]
    <2> HIDE DEF J
    <2> QED
      BY <1>2, <1>4, KeptElements
  <1>6. ASSUME NEW i \in 1 .. c PROVE Positioned(J)[i] = Positioned(I)[i]
    <2> DEFINE m == Positioned(I)[i]
    <2>1. m \in I /\ m \in J /\ m < n /\ m \in Nat
      BY <1>1, <1>3
    <2>2. Cardinality(I \cap 1 .. m) = i
      BY <1>1, <1>2, PositionsInOrder
    <2> HIDE DEF m
    <2>3. J \cap 1 .. m = I \cap 1 .. m
      BY <1>1, <2>1
    <2>4. Positioned(J)[Cardinality(J \cap 1 .. m)] = m
      <3> HIDE DEF J
      <3> QED
        BY <1>1, <1>2, <2>1, PositionsInOrder
    <2> QED
      BY <2>2, <2>3, <2>4 DEF m
  <1>7. Positioned(J)[c + 1] = n
    <2>1. J \cap 1 .. n = J /\ n \in J
      BY <1>1
    <2>2. Positioned(J)[Cardinality(J \cap 1 .. n)] = n
      <3> HIDE DEF J
      <3> QED
        BY <1>1, <1>2, <2>1, PositionsInOrder
    <2> QED
      BY <1>4, <2>1, <2>2
  <1> HIDE DEF a, J, c
  <1>8. b \in Seq(S) /\ Len(b) = c + 1 /\ \A i \in 1 .. c + 1 : b[i] = IF i = c + 1 THEN s[n] ELSE PartAt(s, I)[i]
    BY <1>1, <1>3
  <1>9. ASSUME NEW i \in 1 .. c + 1 PROVE a[i] = b[i]
    <2>1. CASE i = c + 1
      BY <1>3, <1>5, <1>7, <1>8, <2>1
    <2>2. CASE i # c + 1
      <3>1. i \in 1 .. c
        BY <1>3, <2>2
      <3> QED
        BY <1>3, <1>5, <1>6, <1>8, <2>2, <3>1, SMTT(30)
    <2> QED
      BY <2>1, <2>2
  <1> HIDE DEF b
  <1>10. a = b
    BY <1>5, <1>8, <1>9, SeqEqual
  <1> QED
    BY <1>10 DEF a, b, J

(* What a search numbered n makes of a cache: memos may become n or -n.    *)
Noting(c, n) ==
    {d \in [DOMAIN c -> Entry] :
        \A s \in DOMAIN c : /\ d[s].refs = c[s].refs
                            /\ d[s].memo = c[s].memo \/ d[s].memo \in {n, -n}}

(* What it has noted is true.                                              *)
Noted(c, text, n) ==
    \A s \in DOMAIN c : c[s].memo \in {n, -n} => (c[s].memo = n <=> Matches(s, text))

LEMMA NotingKnown ==
  ASSUME NEW c \in Caches, NEW n \in 1 .. INDICES, NEW d \in Noting(c, n)
  PROVE  /\ d \in Caches /\ DOMAIN d = DOMAIN c
         /\ \A s : Refs(d, s) = Refs(c, s)
         /\ \A s \in DOMAIN c : d[s].memo = c[s].memo \/ d[s].memo \in {n, -n}
  <1>1. d \in [DOMAIN c -> Entry]
    BY DEF Noting
  <1>2. d \in Caches
    BY <1>1, CacheKnown, CacheMade
  <1>3. \A s : Refs(d, s) = Refs(c, s)
    BY <1>1 DEF Noting, Refs
  <1> QED
    BY <1>1, <1>2, <1>3 DEF Noting

LEMMA NotingStarts ==
  ASSUME NEW c \in Caches, NEW n
  PROVE  c \in Noting(c, n)
  BY CacheKnown DEF Noting

Looks(c, n) == [hit : BOOLEAN, cache : Noting(c, n)]

LEMMA LookedAt ==
  ASSUME NEW c \in Caches, NEW n \in 1 .. INDICES, NEW acc \in Looks(c, n),
         NEW s \in DOMAIN c, NEW text
  PROVE  LET r == LookAt(acc, s, text, n)
         IN  /\ r \in Looks(c, n)
             /\ Noted(acc.cache, text, n) =>
                  /\ Noted(r.cache, text, n)
                  /\ r.hit <=> acc.hit \/ Matches(s, text)
  <1> DEFINE r == LookAt(acc, s, text, n)
             d == acc.cache
             memo == IF Matches(s, text) THEN n ELSE -n
             e == [d EXCEPT ![s].memo = memo]
  <1>1. acc.hit \in BOOLEAN /\ d \in Noting(c, n) /\ acc = [hit |-> acc.hit, cache |-> d]
    BY DEF Looks
  <1>2. /\ d \in [DOMAIN c -> Entry] /\ DOMAIN d = DOMAIN c
        /\ \A x \in DOMAIN c : d[x].refs = c[x].refs /\ (d[x].memo = c[x].memo \/ d[x].memo \in {n, -n})
    BY <1>1 DEF Noting
  <1>3. n \in Nat /\ n > 0 /\ n <= INDICES /\ INDICES \in Nat
    BY Constants
  <1>4. CASE acc.hit
    <2>1. r = acc
      BY <1>4 DEF LookAt
    <2> QED
      BY <1>1, <1>4, <2>1
  <1>5. CASE ~ acc.hit /\ d[s].memo \in {n, -n}
    <2>1. r = [acc EXCEPT !.hit = (d[s].memo = n)]
      BY <1>5 DEF LookAt
    <2>2. r = [hit |-> (d[s].memo = n), cache |-> d]
      BY <1>1, <2>1
    <2> HIDE DEF r, d
    <2>3. r \in Looks(c, n)
      BY <1>1, <2>2 DEF Looks
    <2>4. r.hit = (d[s].memo = n) /\ r.cache = d
      BY <2>2
    <2>5. Noted(d, text, n) => (d[s].memo = n <=> Matches(s, text))
      BY <1>2, <1>5 DEF Noted
    <2> QED
      BY <1>5, <2>3, <2>4, <2>5 DEF d, r
  <1>6. CASE ~ acc.hit /\ d[s].memo \notin {n, -n}
    <2>1. r = [hit |-> Matches(s, text), cache |-> e]
      BY <1>6 DEF LookAt
    <2>2. Matches(s, text) \in BOOLEAN
      BY DEF Matches
    <2>3. memo \in -INDICES .. INDICES /\ memo \in {n, -n}
      BY <1>3
    <2>4. d[s] = [refs |-> d[s].refs, memo |-> d[s].memo] /\ d[s].refs \in Nat \ {0}
      BY <1>2 DEF Entry
    <2> DEFINE h == [d[s] EXCEPT !.memo = memo]
    <2>5. /\ h = [refs |-> d[s].refs, memo |-> memo]
          /\ e = [d EXCEPT ![s] = h]
      BY <1>2, <2>4
    <2> HIDE DEF memo, d, e, h
    <2>6. h \in Entry /\ h.refs = d[s].refs /\ h.memo = memo
      BY <2>3, <2>4, <2>5 DEF Entry
    <2>7. e \in [DOMAIN c -> Entry] /\ \A x \in DOMAIN c : e[x] = IF x = s THEN h ELSE d[x]
      BY <1>2, <2>5, <2>6
    <2>8. e \in Noting(c, n)
      BY <1>2, <2>3, <2>6, <2>7 DEF Noting
    <2>9. ASSUME Noted(d, text, n) PROVE Noted(e, text, n)
      <3>1. DOMAIN e = DOMAIN c
        BY <2>7
      <3>2. memo = n <=> Matches(s, text)
        BY <1>3 DEF memo
      <3> SUFFICES ASSUME NEW x \in DOMAIN c, e[x].memo \in {n, -n}
                   PROVE  e[x].memo = n <=> Matches(x, text)
        BY <3>1 DEF Noted
      <3>3. CASE x = s
        BY <2>6, <2>7, <3>2, <3>3
      <3>4. CASE x # s
        BY <1>2, <2>7, <2>9, <3>4 DEF Noted
      <3> QED
        BY <3>3, <3>4
    <2>10. r \in Looks(c, n)
      BY <2>1, <2>2, <2>8 DEF Looks
    <2> QED
      BY <1>6, <2>1, <2>9, <2>10 DEF d
  <1> QED
    BY <1>1, <1>4, <1>5, <1>6

(* The steps through the fields of a track.                                *)
Sees(acc, t, text, n, f) ==
    f = [i \in 0 .. Len(meta[t]) |->
            IF i = 0 THEN [hit |-> FALSE, cache |-> acc.cache]
            ELSE IF i \in Searched(meta[t]) THEN LookAt(f[i - 1], meta[t][i].value, text, n)
            ELSE f[i - 1]]

LEMMA SearchSteps ==
  ASSUME meta \in Metas, NEW t \in Tracks, NEW c \in Caches, NEW n \in 1 .. INDICES,
         \A i \in DOMAIN meta[t] : meta[t][i].value \in DOMAIN c,
         NEW acc, acc.cache \in Noting(c, n), NEW text
  PROVE  \E f : /\ Sees(acc, t, text, n, f)
                /\ SearchTrack(acc, t, text, n)
                     = [cache |-> f[Len(meta[t])].cache,
                        found |-> IF f[Len(meta[t])].hit THEN Append(acc.found, t) ELSE acc.found]
  <1> DEFINE l == Len(meta[t])
             look(x, i) == IF i \in Searched(meta[t]) THEN LookAt(x, meta[t][i].value, text, n) ELSE x
             step == [x \in Looks(c, n) \X (1 .. l) |-> look(x[1], x[2])]
             first == [hit |-> FALSE, cache |-> acc.cache]
  <1>1. l \in Nat /\ DOMAIN meta[t] = 1 .. l
    BY FieldsKnown DEF Metas
  <1>2. first \in Looks(c, n)
    BY DEF Looks
  <1>3. ASSUME NEW x \in Looks(c, n), NEW i \in 1 .. l PROVE look(x, i) \in Looks(c, n)
    <2>1. meta[t][i].value \in DOMAIN c
      BY <1>1
    <2>2. LookAt(x, meta[t][i].value, text, n) \in Looks(c, n)
      BY <2>1, LookedAt
    <2> QED
      BY <2>2
  <1> HIDE DEF look, first
  <1>4. step \in [Looks(c, n) \X (1 .. l) -> Looks(c, n)]
    BY <1>3
  <1>5. \A x \in Looks(c, n), i \in 1 .. l : step[<<x, i>>] = look(x, i)
    OBVIOUS
  <1> HIDE DEF step
  <1>6. PICK f : StepsFrom(f, l, Looks(c, n), first, step)
    <2>1. l \in Nat
      BY <1>1
    <2> HIDE DEF l
    <2> QED
      BY <1>2, <1>4, <2>1, StepByStep
  <1>7. /\ f \in [0 .. l -> Looks(c, n)] /\ f[0] = first
        /\ \A i \in 1 .. l : f[i] = step[<<f[i - 1], i>>]
    BY <1>6 DEF StepsFrom
  <1>8. ASSUME NEW i \in 1 .. l PROVE f[i] = look(f[i - 1], i)
    <2>1. f[i - 1] \in Looks(c, n)
      BY <1>1, <1>7
    <2> QED
      BY <1>5, <1>7, <2>1
  <1>9. ASSUME NEW i \in 0 .. l
        PROVE  f[i] = IF i = 0 THEN first ELSE look(f[i - 1], i)
    <2>1. CASE i = 0
      BY <1>7, <2>1
    <2>2. CASE i # 0
      <3>1. i \in 1 .. l
        BY <1>1, <2>2
      <3> QED
        BY <1>8, <2>2, <3>1
    <2> QED
      BY <2>1, <2>2
  <1>10. Sees(acc, t, text, n, f)
    <2> DEFINE g == [i \in 0 .. l |-> IF i = 0 THEN first ELSE look(f[i - 1], i)]
    <2>1. \A i \in 0 .. l : g[i] = f[i]
      BY <1>9
    <2>2. g = [i \in 0 .. l |-> g[i]] /\ f = [i \in 0 .. l |-> f[i]]
      BY <1>7
    <2>3. f = g
      <3> HIDE DEF g
      <3> QED
        BY <2>1, <2>2
    <2> QED
      BY <2>3 DEF Sees, first, look
  <1> DEFINE s == CHOOSE g : Sees(acc, t, text, n, g)
  <1>11. Sees(acc, t, text, n, s)
    BY <1>10
  <1>12. SearchTrack(acc, t, text, n)
           = [cache |-> s[l].cache, found |-> IF s[l].hit THEN Append(acc.found, t) ELSE acc.found]
    BY DEF SearchTrack, Sees
  <1> QED
    BY <1>11, <1>12

(* A track is found when a field that is searched matches.                 *)
LEMMA TrackSearched ==
  ASSUME meta \in Metas, NEW t \in Tracks, NEW c \in Caches, NEW n \in 1 .. INDICES,
         \A i \in DOMAIN meta[t] : meta[t][i].value \in DOMAIN c,
         NEW acc, acc.cache \in Noting(c, n), NEW text
  PROVE  LET r == SearchTrack(acc, t, text, n)
             hit == \E i \in Searched(meta[t]) : Matches(meta[t][i].value, text)
         IN  /\ r.cache \in Noting(c, n)
             /\ r.found \in {acc.found, Append(acc.found, t)}
             /\ r = [cache |-> r.cache, found |-> r.found]
             /\ Noted(acc.cache, text, n) =>
                  /\ Noted(r.cache, text, n)
                  /\ r.found = IF hit THEN Append(acc.found, t) ELSE acc.found
  <1> DEFINE l == Len(meta[t])
             S == Searched(meta[t])
             match(i) == Matches(meta[t][i].value, text)
             upto(i) == \E j \in S : j <= i /\ match(j)
             first == [hit |-> FALSE, cache |-> acc.cache]
  <1>1. l \in Nat /\ DOMAIN meta[t] = 1 .. l /\ S \subseteq 1 .. l
    BY FieldsKnown DEF Metas, Searched
  <1>2. PICK f : /\ Sees(acc, t, text, n, f)
                 /\ SearchTrack(acc, t, text, n)
                      = [cache |-> f[l].cache,
                         found |-> IF f[l].hit THEN Append(acc.found, t) ELSE acc.found]
    BY SearchSteps
  <1>3. f[0] = first
    BY <1>1, <1>2 DEF Sees
  <1>4. ASSUME NEW i \in 1 .. l
        PROVE  f[i] = IF i \in S THEN LookAt(f[i - 1], meta[t][i].value, text, n) ELSE f[i - 1]
    <2>1. i \in 0 .. l /\ i # 0
      BY <1>1
    <2> QED
      BY <1>2, <2>1 DEF Sees
  <1> DEFINE Sound(i) == /\ f[i] \in Looks(c, n)
                         /\ Noted(acc.cache, text, n) =>
                              /\ Noted(f[i].cache, text, n)
                              /\ f[i].hit <=> upto(i)
             G == {i \in 0 .. l : Sound(i)}
  <1>5. 0 \in G
    <2>1. f[0] \in Looks(c, n) /\ f[0].cache = acc.cache /\ ~ f[0].hit
      BY <1>3 DEF Looks
    <2>2. ~ upto(0)
      BY <1>1
    <2> HIDE DEF upto
    <2> QED
      BY <1>1, <2>1, <2>2
  <1>6. ASSUME NEW i \in 1 .. l, i - 1 \in G PROVE i \in G
    <2> DEFINE x == f[i - 1]
    <2>1. /\ x \in Looks(c, n)
          /\ Noted(acc.cache, text, n) => Noted(x.cache, text, n) /\ (x.hit <=> upto(i - 1))
      BY <1>6
    <2>2. /\ i \in S => (upto(i) <=> upto(i - 1) \/ match(i))
          /\ i \notin S => (upto(i) <=> upto(i - 1))
      BY <1>1
    <2> HIDE DEF upto, match, S
    <2>3. CASE i \notin S
      <3>1. f[i] = x
        BY <1>4, <2>3
      <3> HIDE DEF x
      <3>2. Sound(i)
        BY <2>1, <2>2, <2>3, <3>1
      <3> QED
        BY <1>1, <3>2
    <2>4. CASE i \in S
      <3> DEFINE s == meta[t][i].value
      <3>1. f[i] = LookAt(x, s, text, n)
        BY <1>4, <2>4
      <3>2. s \in DOMAIN c
        BY <1>1
      <3>3. match(i) <=> Matches(s, text)
        BY DEF match
      <3> HIDE DEF x, s
      <3>4. /\ f[i] \in Looks(c, n)
            /\ Noted(x.cache, text, n) =>
                 /\ Noted(f[i].cache, text, n)
                 /\ f[i].hit <=> x.hit \/ Matches(s, text)
        BY <2>1, <3>1, <3>2, LookedAt
      <3>5. Sound(i)
        BY <2>1, <2>2, <2>4, <3>3, <3>4
      <3> QED
        BY <1>1, <3>5
    <2> QED
      BY <2>3, <2>4
  <1> HIDE DEF G
  <1>7. l \in G
    <2>1. \A i \in 0 .. l : i \in G
      BY <1>1, <1>5, <1>6, UpTo
    <2> QED
      BY <1>1, <2>1
  <1>8. Sound(l)
    BY <1>7 DEF G
  <1>9. upto(l) <=> \E i \in S : match(i)
    BY <1>1
  <1>10. f[l].cache \in Noting(c, n)
    BY <1>8 DEF Looks
  <1> HIDE DEF l, upto, S, match
  <1>11. /\ Noted(acc.cache, text, n) => Noted(f[l].cache, text, n)
         /\ Noted(acc.cache, text, n) => (f[l].hit <=> \E i \in S : match(i))
    BY <1>8, <1>9
  <1> DEFINE r == SearchTrack(acc, t, text, n)
  <1>12. /\ r.cache = f[l].cache
         /\ r.found = IF f[l].hit THEN Append(acc.found, t) ELSE acc.found
         /\ r = [cache |-> r.cache, found |-> r.found]
    BY <1>2
  <1> HIDE DEF r
  <1>13. (\E i \in S : match(i)) <=> \E i \in Searched(meta[t]) : Matches(meta[t][i].value, text)
    BY DEF S, match
  <1> QED
    BY <1>10, <1>11, <1>12, <1>13 DEF r

(* A field of the track that is searched matches.                          *)
Hits(t, text) == \E i \in Searched(meta[t]) : Matches(meta[t][i].value, text)

(* The fields that are searched are the tags and the URI.                  *)
LEMMA SearchedFields ==
  ASSUME meta \in Metas, NEW t \in Tracks, Ordered(meta[t]), NEW text
  PROVE  Hits(t, text) <=> \E f \in ToSet(meta[t]) :
                               /\ f.key \in (Fields \ Unsearched) \cup {URI}
                               /\ Matches(f.value, text)
  <1>1. /\ Len(meta[t]) \in Nat /\ DOMAIN meta[t] = 1 .. Len(meta[t])
        /\ \A i \in DOMAIN meta[t] : meta[t][i].key \in Keys
    BY FieldsKnown DEF Metas
  <1>2. ASSUME NEW i \in DOMAIN meta[t]
        PROVE  i \in Searched(meta[t]) <=> meta[t][i].key \in (Fields \ Unsearched) \cup {URI}
    <2>1. ASSUME i \in Searched(meta[t])
          PROVE  meta[t][i].key \in (Fields \ Unsearched) \cup {URI}
      <3>1. i \in 1 .. i
        BY <1>1
      <3>2. meta[t][i].key \notin Unsearched /\ meta[t][i].key \notin Properties \ {URI}
        BY <2>1, <3>1 DEF Searched
      <3> QED
        BY <1>1, <3>2 DEF Keys
    <2>2. ASSUME meta[t][i].key \in (Fields \ Unsearched) \cup {URI}
          PROVE  i \in Searched(meta[t])
      <3>1. meta[t][i].key \notin Unsearched
        BY <2>2, Constants
      <3>2. ASSUME NEW j \in 1 .. i PROVE meta[t][j].key \notin Properties \ {URI}
        <4>1. j \in DOMAIN meta[t] /\ (j = i \/ j < i)
          BY <1>1
        <4>2. CASE j = i
          BY <2>2, <4>2, Constants
        <4>3. CASE j < i
          <5>1. meta[t][j].key \in Fields
            BY <2>2, <4>1, <4>3 DEF Ordered
          <5> QED
            BY <5>1, Constants
        <4> QED
          BY <4>1, <4>2, <4>3
      <3> QED
        BY <3>1, <3>2 DEF Searched
    <2> QED
      BY <2>1, <2>2
  <1>3. Searched(meta[t]) \subseteq DOMAIN meta[t]
    BY DEF Searched
  <1> QED
    BY <1>2, <1>3 DEF Hits, ToSet

(* The steps through the rows of a list.                                   *)
Visits(p, text, n, f) ==
    f = [i \in 0 .. Len(Rows[p]) |->
            IF i = 0 THEN [cache |-> cache, found |-> <<>>]
            ELSE IF Rows[p][i] \in there /\ text # Empty
            THEN SearchTrack(f[i - 1], Rows[p][i], text, n)
            ELSE f[i - 1]]

Present(p) == ToSet(Rows[p]) \cap there
Finds(p, n) == [cache : Noting(cache, n), found : Seq(Present(p))]

(* The values of the tracks are in the cache.                              *)
ValuesCached == \A t \in there : \A i \in DOMAIN meta[t] : meta[t][i].value \in DOMAIN cache

LEMMA RowsKnown ==
  ASSUME NEW p \in Lists
  PROVE  /\ Rows[p] \in Seq(Tracks) /\ Len(Rows[p]) \in Nat /\ DOMAIN Rows[p] = 1 .. Len(Rows[p])
         /\ \A i \in DOMAIN Rows[p] : Rows[p][i] \in Tracks /\ Rows[p][i] \in ToSet(Rows[p])
  <1>1. Rows[p] \in Seq(Tracks)
    BY Constants
  <1> QED
    BY <1>1, LenProperties, ElementOfSeq DEF ToSet

LEMMA RowSteps ==
  ASSUME meta \in Metas, cache \in Caches, ValuesCached,
         NEW p \in Lists, NEW n \in 1 .. INDICES, NEW text
  PROVE  \E f : Visits(p, text, n, f) /\ SearchRows(p, text, n) = f[Len(Rows[p])]
  <1> DEFINE l == Len(Rows[p])
             A == Finds(p, n)
             visit(x, i) == IF Rows[p][i] \in there /\ text # Empty
                            THEN SearchTrack(x, Rows[p][i], text, n) ELSE x
             step == [x \in A \X (1 .. l) |-> visit(x[1], x[2])]
             first == [cache |-> cache, found |-> <<>>]
  <1>1. l \in Nat /\ DOMAIN Rows[p] = 1 .. l
    BY RowsKnown
  <1>2. first \in A
    BY NotingStarts, EmptySeq DEF Finds
  <1>3. ASSUME NEW x \in A, NEW i \in 1 .. l PROVE visit(x, i) \in A
    <2>1. x.cache \in Noting(cache, n) /\ x.found \in Seq(Present(p))
      BY DEF Finds
    <2>2. CASE Rows[p][i] \in there /\ text # Empty
      <3> DEFINE t == Rows[p][i]
                 r == SearchTrack(x, t, text, n)
      <3>1. t \in Tracks /\ t \in there /\ t \in Present(p)
        BY <1>1, <2>2, RowsKnown DEF Present
      <3>2. \A j \in DOMAIN meta[t] : meta[t][j].value \in DOMAIN cache
        BY <3>1 DEF ValuesCached
      <3> HIDE DEF t
      <3>3. /\ r.cache \in Noting(cache, n)
            /\ r.found \in {x.found, Append(x.found, t)}
            /\ r = [cache |-> r.cache, found |-> r.found]
        BY <2>1, <3>1, <3>2, TrackSearched
      <3>4. Append(x.found, t) \in Seq(Present(p))
        BY <2>1, <3>1
      <3> HIDE DEF r
      <3>5. r \in A
        BY <2>1, <3>3, <3>4 DEF Finds
      <3> QED
        BY <2>2, <3>5 DEF r, t
    <2>3. CASE ~ (Rows[p][i] \in there /\ text # Empty)
      BY <2>3
    <2> QED
      BY <2>2, <2>3
  <1> HIDE DEF visit, first, A
  <1>4. step \in [A \X (1 .. l) -> A]
    BY <1>3
  <1>5. \A x \in A, i \in 1 .. l : step[<<x, i>>] = visit(x, i)
    OBVIOUS
  <1> HIDE DEF step
  <1>6. PICK f : StepsFrom(f, l, A, first, step)
    <2>1. l \in Nat
      BY <1>1
    <2> HIDE DEF l
    <2> QED
      BY <1>2, <1>4, <2>1, StepByStep
  <1>7. /\ f \in [0 .. l -> A] /\ f[0] = first
        /\ \A i \in 1 .. l : f[i] = step[<<f[i - 1], i>>]
    BY <1>6 DEF StepsFrom
  <1>8. ASSUME NEW i \in 1 .. l PROVE f[i] = visit(f[i - 1], i)
    <2>1. f[i - 1] \in A
      BY <1>1, <1>7
    <2> QED
      BY <1>5, <1>7, <2>1
  <1>9. ASSUME NEW i \in 0 .. l PROVE f[i] = IF i = 0 THEN first ELSE visit(f[i - 1], i)
    <2>1. CASE i = 0
      BY <1>7, <2>1
    <2>2. CASE i # 0
      <3>1. i \in 1 .. l
        BY <1>1, <2>2
      <3> QED
        BY <1>8, <2>2, <3>1
    <2> QED
      BY <2>1, <2>2
  <1>10. Visits(p, text, n, f)
    <2> DEFINE g == [i \in 0 .. l |-> IF i = 0 THEN first ELSE visit(f[i - 1], i)]
    <2>1. \A i \in 0 .. l : g[i] = f[i]
      BY <1>9
    <2>2. g = [i \in 0 .. l |-> g[i]] /\ f = [i \in 0 .. l |-> f[i]]
      BY <1>7
    <2>3. f = g
      <3> HIDE DEF g
      <3> QED
        BY <2>1, <2>2
    <2> QED
      BY <2>3 DEF Visits, first, visit
  <1> DEFINE s == CHOOSE g : Visits(p, text, n, g)
  <1>11. Visits(p, text, n, s)
    BY <1>10
  <1>12. SearchRows(p, text, n) = s[l]
    BY DEF SearchRows, Visits
  <1> QED
    BY <1>11, <1>12

(* Where the tracks are in the list that the search is to find.            *)
HitRows(p, text) == {i \in DOMAIN Rows[p] : Rows[p][i] \in there /\ Hits(Rows[p][i], text)}

LEMMA RowsSearched ==
  ASSUME meta \in Metas, cache \in Caches, ValuesCached,
         NEW p \in Lists, NEW n \in 1 .. INDICES, NEW text
  PROVE  LET r == SearchRows(p, text, n)
         IN  /\ r.cache \in Noting(cache, n)
             /\ r.found \in Seq(Present(p))
             /\ Noted(cache, text, n) =>
                  r.found = IF text = Empty THEN <<>> ELSE PartAt(Rows[p], HitRows(p, text))
  <1> DEFINE l == Len(Rows[p])
             A == Finds(p, n)
             H == IF text = Empty THEN {} ELSE HitRows(p, text)
             first == [cache |-> cache, found |-> <<>>]
  <1>1. /\ Rows[p] \in Seq(Tracks) /\ l \in Nat /\ DOMAIN Rows[p] = 1 .. l
        /\ \A i \in 1 .. l : Rows[p][i] \in Tracks /\ Rows[p][i] \in ToSet(Rows[p])
    BY RowsKnown
  <1>2. PICK f : Visits(p, text, n, f) /\ SearchRows(p, text, n) = f[l]
    BY RowSteps
  <1>3. f[0] = first
    BY <1>1, <1>2 DEF Visits
  <1>4. ASSUME NEW i \in 1 .. l
        PROVE  f[i] = IF Rows[p][i] \in there /\ text # Empty
                      THEN SearchTrack(f[i - 1], Rows[p][i], text, n) ELSE f[i - 1]
    <2>1. i \in 0 .. l /\ i # 0
      BY <1>1
    <2> QED
      BY <1>2, <2>1 DEF Visits
  <1> DEFINE Sound(i) == /\ f[i] \in A
                         /\ Noted(cache, text, n) =>
                              /\ Noted(f[i].cache, text, n)
                              /\ f[i].found = PartAt(Rows[p], H \cap 1 .. i)
             G == {i \in 0 .. l : Sound(i)}
  <1>5. 0 \in G
    <2>1. f[0] \in A /\ f[0].cache = cache /\ f[0].found = <<>>
      BY <1>3, NotingStarts, EmptySeq DEF Finds
    <2>2. H \cap 1 .. 0 = {}
      OBVIOUS
    <2>3. PartAt(Rows[p], H \cap 1 .. 0) = <<>>
      <3> HIDE DEF H
      <3> QED
        BY <2>2, KeptNothing
    <2> HIDE DEF H, A
    <2> QED
      BY <1>1, <2>1, <2>3
  <1>6. ASSUME NEW i \in 1 .. l, i - 1 \in G PROVE i \in G
    <2> DEFINE x == f[i - 1]
               t == Rows[p][i]
    <2>1. /\ x \in A
          /\ Noted(cache, text, n) => /\ Noted(x.cache, text, n)
                                      /\ x.found = PartAt(Rows[p], H \cap 1 .. i - 1)
      BY <1>6
    <2>2. x.cache \in Noting(cache, n) /\ x.found \in Seq(Present(p))
      BY <2>1 DEF Finds
    <2>3. i \in H <=> t \in there /\ text # Empty /\ Hits(t, text)
      BY <1>1 DEF HitRows
    <2> HIDE DEF H
    <2>4. /\ i \in H => H \cap 1 .. i = (H \cap 1 .. i - 1) \cup {i}
          /\ i \notin H => H \cap 1 .. i = H \cap 1 .. i - 1
      BY <1>1
    <2>5. PartAt(Rows[p], (H \cap 1 .. i - 1) \cup {i}) = Append(PartAt(Rows[p], H \cap 1 .. i - 1), t)
      BY <1>1, KeptNext
    <2>6. CASE ~ (t \in there /\ text # Empty)
      <3>1. f[i] = x
        BY <1>4, <2>6
      <3> HIDE DEF x, A
      <3>2. Sound(i)
        BY <2>1, <2>3, <2>4, <2>6, <3>1
      <3> QED
        BY <1>1, <3>2
    <2>7. CASE t \in there /\ text # Empty
      <3> DEFINE r == SearchTrack(x, t, text, n)
      <3>1. f[i] = r
        BY <1>4, <2>7
      <3>2. t \in Tracks /\ t \in Present(p) /\ \A j \in DOMAIN meta[t] : meta[t][j].value \in DOMAIN cache
        BY <1>1, <2>7 DEF Present, ValuesCached
      <3> HIDE DEF t, x
      <3>3. /\ r.cache \in Noting(cache, n)
            /\ r.found \in {x.found, Append(x.found, t)}
            /\ r = [cache |-> r.cache, found |-> r.found]
            /\ Noted(x.cache, text, n) =>
                 /\ Noted(r.cache, text, n)
                 /\ r.found = IF Hits(t, text) THEN Append(x.found, t) ELSE x.found
        BY <2>2, <3>2, TrackSearched DEF Hits
      <3>4. Append(x.found, t) \in Seq(Present(p))
        BY <2>2, <3>2
      <3> HIDE DEF r
      <3>5. r \in A
        BY <2>2, <3>3, <3>4 DEF Finds
      <3>6. Noted(cache, text, n) => r.found = PartAt(Rows[p], H \cap 1 .. i)
        BY <2>1, <2>3, <2>4, <2>5, <2>7, <3>3
      <3> HIDE DEF A
      <3>7. Sound(i)
        BY <2>1, <3>1, <3>3, <3>5, <3>6
      <3> QED
        BY <1>1, <3>7
    <2> QED
      BY <2>6, <2>7
  <1> HIDE DEF G
  <1>7. l \in G
    <2>1. \A i \in 0 .. l : i \in G
      BY <1>1, <1>5, <1>6, UpTo
    <2> QED
      BY <1>1, <2>1
  <1>8. Sound(l)
    BY <1>7 DEF G
  <1>9. f[l].cache \in Noting(cache, n) /\ f[l].found \in Seq(Present(p))
    BY <1>8 DEF Finds
  <1>10. H \cap 1 .. l = H
    BY <1>1 DEF HitRows
  <1>11. Noted(cache, text, n) => f[l].found = PartAt(Rows[p], H)
    BY <1>8, <1>10
  <1>12. text = Empty => PartAt(Rows[p], H) = <<>>
    BY KeptNothing
  <1> QED
    BY <1>2, <1>9, <1>11, <1>12

-----------------------------------------------------------------------------
(* The invariant.                                                          *)

(* The references to a key that freed tracks have left.                    *)
Leak(s) == IF \E k \in Keys : s = <<k>> THEN leaked[s[1]] ELSE 0

(* Every reference is accounted for, also those of strings that are not in
   the cache.                                                              *)
Balanced == \A s : Refs(cache, s) = Holders(s) + Leak(s)

FieldsInv ==
    /\ there \subseteq Tracks
    /\ meta \in Metas
    /\ \A t \in Tracks \ there : meta[t] = <<>>
    /\ \A t \in there : URI \in KeysOf(meta[t])
    /\ \A t \in Tracks : Ordered(meta[t])

CacheInv ==
    /\ cache \in Caches
    /\ leaked \in [Keys -> Nat]
    /\ Balanced

(* A memo is of a search that some list has made.                          *)
MemosNumbered ==
    \A s \in DOMAIN cache :
        \/ cache[s].memo = 0
        \/ \E p \in Lists : -searches[p] <= cache[s].memo /\ cache[s].memo <= searches[p]

SearchInv ==
    /\ cmpidx \in [Lists -> 0 .. INDICES]
    /\ searches \in [Lists -> Nat]
    /\ query \in [Lists -> Texts]
    /\ found \in [Lists -> Seq(Tracks)]
    /\ \A p \in Lists : ToSet(found[p]) \subseteq Present(p)
    /\ \A p \in Lists : /\ cmpidx[p] <= searches[p]
                        /\ searches[p] <= INDICES => cmpidx[p] = searches[p]
    /\ MemosNumbered

MetaInv == FieldsInv /\ CacheInv /\ SearchInv /\ budget \in 0 .. BUDGET

LEMMA LeakKnown ==
  ASSUME leaked \in [Keys -> Nat], NEW s
  PROVE  Leak(s) \in Nat
  <1>1. ASSUME NEW k \in Keys, s = <<k>> PROVE leaked[s[1]] \in Nat
    BY <1>1
  <1> QED
    BY <1>1 DEF Leak

LEMMA NowKnown ==
  ASSUME FieldsInv, CacheInv, NEW t \in Tracks
  PROVE  /\ Now(t) \in States /\ Now(t).fields = meta[t] /\ Now(t).cache = cache
         /\ meta[t] \in Seq(FieldT)
         /\ Covered(Now(t))
  <1>1. meta \in Metas /\ meta[t] \in Seq(FieldT) /\ cache \in Caches
    BY DEF FieldsInv, CacheInv, Metas
  <1>2. Now(t) \in States /\ Now(t).fields = meta[t] /\ Now(t).cache = cache
    BY <1>1, StateMade DEF Now
  <1>3. ASSUME NEW s PROVE Refs(cache, s) >= Count(meta[t], s)
    <2>1. Refs(cache, s) = Holders(s) + Leak(s) /\ Leak(s) \in Nat
      BY LeakKnown DEF CacheInv, Balanced
    <2>2. Holders(s) = HeldIn(meta, KeyIs(s)) + HeldIn(meta, ValueIs(s))
      BY <1>1, HoldersKnown
    <2>3. \A T : /\ HeldIn(meta, T) \in Nat /\ HeldIn(meta, T) >= Counted(meta[t], T)
                 /\ Counted(meta[t], T) \in Nat
      BY <1>1, HeldChanged
    <2> DEFINE hk == HeldIn(meta, KeyIs(s))
               hv == HeldIn(meta, ValueIs(s))
               ck == Counted(meta[t], KeyIs(s))
               cv == Counted(meta[t], ValueIs(s))
    <2>4. /\ hk \in Nat /\ hv \in Nat /\ ck \in Nat /\ cv \in Nat /\ hk >= ck /\ hv >= cv
      BY <2>3
    <2>5. Count(meta[t], s) = ck + cv
      BY DEF Count
    <2> HIDE DEF hk, hv, ck, cv
    <2>6. Holders(s) = hk + hv
      BY <2>2 DEF hk, hv
    <2> QED
      BY <2>1, <2>4, <2>5, <2>6
  <1>4. Covered(Now(t))
    BY <1>2, <1>3 DEF Covered
  <1> QED
    BY <1>1, <1>2, <1>4

LEMMA ValuesAreCached ==
  ASSUME FieldsInv, CacheInv
  PROVE  ValuesCached
  <1> SUFFICES ASSUME NEW t \in there, NEW i \in DOMAIN meta[t]
               PROVE  meta[t][i].value \in DOMAIN cache
    BY DEF ValuesCached
  <1>1. t \in Tracks
    BY DEF FieldsInv
  <1>2. /\ Now(t) \in States /\ Covered(Now(t))
        /\ Now(t).fields = meta[t] /\ Now(t).cache = cache
    BY <1>1, NowKnown
  <1> QED
    BY <1>2, FieldsCached

(* The references stay balanced when one track's fields change with them.  *)
LEMMA BalanceKept ==
  ASSUME FieldsInv, CacheInv, NEW t \in Tracks, NEW r, Follows(Now(t), r),
         Becomes(t, r), leaked' = leaked
  PROVE  CacheInv' /\ meta' \in Metas /\ meta'[t] = r.fields
         /\ (\A u \in Tracks \ {t} : meta'[u] = meta[u]) /\ MemosKept(cache, cache')
  <1>1. /\ Now(t) \in States /\ Now(t).fields = meta[t] /\ Now(t).cache = cache
        /\ meta[t] \in Seq(FieldT)
    BY NowKnown
  <1>2. meta \in Metas /\ leaked \in [Keys -> Nat] /\ cache \in Caches
    BY DEF FieldsInv, CacheInv
  <1>3. r.fields \in Seq(FieldT) /\ r.cache \in Caches
    BY StateKnown DEF Follows
  <1>4. meta' = [meta EXCEPT ![t] = r.fields] /\ cache' = r.cache
    BY DEF Becomes
  <1>5. meta' \in Metas
    BY <1>2, <1>3, <1>4, HeldChanged
  <1>6. ASSUME NEW s PROVE Refs(cache', s) = Holders(s)' + Leak(s)'
    <2>1. Refs(cache', s) + Count(meta[t], s) = Refs(cache, s) + Count(r.fields, s)
      BY <1>1, <1>4 DEF Follows
    <2>2. Refs(cache, s) = Holders(s) + Leak(s) /\ Leak(s) \in Nat /\ Leak(s)' = Leak(s)
      BY LeakKnown DEF CacheInv, Balanced, Leak
    <2>3. /\ Holders(s) = HeldIn(meta, KeyIs(s)) + HeldIn(meta, ValueIs(s))
          /\ Holders(s)' = HeldIn(meta', KeyIs(s)) + HeldIn(meta', ValueIs(s))
      <3>1. Holders(s) = HeldIn(meta, KeyIs(s)) + HeldIn(meta, ValueIs(s))
        BY <1>2, HoldersKnown
      <3>2. (meta \in Metas => Holders(s) = HeldIn(meta, KeyIs(s)) + HeldIn(meta, ValueIs(s)))'
        BY HoldersKnown, PTL
      <3> QED
        BY <1>5, <3>1, <3>2
    <2>4. ASSUME NEW T
          PROVE  /\ HeldIn(meta', T) + Counted(meta[t], T) = HeldIn(meta, T) + Counted(r.fields, T)
                 /\ HeldIn(meta', T) \in Nat /\ HeldIn(meta, T) \in Nat
                 /\ Counted(meta[t], T) \in Nat /\ Counted(r.fields, T) \in Nat
      BY <1>2, <1>3, <1>4, HeldChanged
    <2>5. Refs(cache', s) \in Nat
      BY <1>3, <1>4, CacheKnown
    <2> DEFINE a == HeldIn(meta, KeyIs(s))
               b == HeldIn(meta, ValueIs(s))
               c == HeldIn(meta', KeyIs(s))
               d == HeldIn(meta', ValueIs(s))
               e == Counted(meta[t], KeyIs(s))
               f == Counted(meta[t], ValueIs(s))
               g == Counted(r.fields, KeyIs(s))
               h == Counted(r.fields, ValueIs(s))
    <2>6. /\ a \in Nat /\ b \in Nat /\ c \in Nat /\ d \in Nat
          /\ e \in Nat /\ f \in Nat /\ g \in Nat /\ h \in Nat
          /\ c + e = a + g /\ d + f = b + h
      BY <2>4
    <2>7. Count(meta[t], s) = e + f /\ Count(r.fields, s) = g + h
      BY DEF Count
    <2>8. Holders(s) = a + b /\ Holders(s)' = c + d
      BY <2>3
    <2> HIDE DEF a, b, c, d, e, f, g, h
    <2> QED
      BY <2>1, <2>2, <2>5, <2>6, <2>7, <2>8
  <1>7. Balanced'
    BY <1>6 DEF Balanced
  <1>8. MemosKept(cache, cache')
    BY <1>1, <1>4 DEF Follows
  <1>9. meta'[t] = r.fields /\ \A u \in Tracks \ {t} : meta'[u] = meta[u]
    BY <1>2, <1>4 DEF Metas
  <1> QED
    BY <1>2, <1>3, <1>4, <1>5, <1>7, <1>8, <1>9 DEF CacheInv

(* The lists do not mind what becomes of the fields.                       *)
LEMMA SearchesUntouched ==
  ASSUME SearchInv, UNCHANGED search, there \subseteq there', MemosKept(cache, cache')
  PROVE  SearchInv'
  <1>1. UNCHANGED <<cmpidx, found, query, searches>>
    BY DEF search
  <1>2. \A p \in Lists : Present(p) \subseteq Present(p)'
    BY DEF Present
  <1>3. MemosNumbered'
    BY <1>1 DEF SearchInv, MemosNumbered, MemosKept
  <1>4. \A p \in Lists : ToSet(found'[p]) \subseteq Present(p)'
    BY <1>1, <1>2 DEF SearchInv
  <1> QED
    BY <1>1, <1>3, <1>4 DEF SearchInv

LEMMA TrackChanges ==
  ASSUME MetaInv, NEW t \in Tracks, NEW r, Follows(Now(t), r), Becomes(t, r),
         Ordered(r.fields), URI \in KeysOf(r.fields), there' = there \cup {t},
         Call, UNCHANGED <<search, leaked>>
  PROVE  MetaInv'
  <1>1. FieldsInv /\ CacheInv /\ SearchInv
    BY DEF MetaInv
  <1>2. /\ CacheInv' /\ meta' \in Metas /\ meta'[t] = r.fields
        /\ \A u \in Tracks \ {t} : meta'[u] = meta[u]
        /\ MemosKept(cache, cache')
    BY <1>1, BalanceKept
  <1>3. FieldsInv'
    BY <1>1, <1>2 DEF FieldsInv
  <1>4. SearchInv'
    BY <1>1, <1>2, SearchesUntouched
  <1>5. budget' \in 0 .. BUDGET
    BY Constants DEF MetaInv, Call
  <1> QED
    BY <1>2, <1>3, <1>4, <1>5 DEF MetaInv

-----------------------------------------------------------------------------
(* Each call keeps the invariant.                                          *)

(* What is stored of a value is a value; what is not there yet is one, if it
   is something.                                                           *)
LEMMA PartsKept ==
  ASSUME NEW v \in Values, NEW I \in SUBSET DOMAIN v
  PROVE  /\ I # {} => PartAt(v, I) \in Value
         /\ PartAt(v, I) \in Seq(Part)
  <1>1. v \in Seq(Parts) /\ Parts \subseteq Part
    BY Constants DEF Part
  <1>2. /\ PartAt(v, I) \in Seq(Parts) /\ Len(PartAt(v, I)) = Cardinality(I)
        /\ \A n \in I : \E i \in 1 .. Cardinality(I) : Positioned(I)[i] = n
    BY <1>1, KeptElements
  <1>3. PartAt(v, I) \in Seq(Part)
    BY <1>1, <1>2, SeqMonotonic
  <1>4. ASSUME I # {} PROVE PartAt(v, I) # <<>>
    <2>1. PICK i \in 1 .. Cardinality(I) : TRUE
      BY <1>2, <1>4
    <2> DEFINE c == Cardinality(I)
    <2>2. \E i2 \in 1 .. c : TRUE
      BY <2>1
    <2> HIDE DEF c
    <2>3. c # 0
      BY <2>2
    <2>4. Len(PartAt(v, I)) # 0
      BY <1>2, <2>3 DEF c
    <2> QED
      BY <2>4, Len(<<>>) = 0
  <1> QED
    BY <1>3, <1>4 DEF Value

LEMMA StoredKnown ==
  ASSUME NEW v \in Values, v[1] # Empty
  PROVE  Stored(v) \in Value
  <1>1. v \in Seq(Parts) /\ v # <<>> /\ v \in Value
    BY Constants, TextsKnown
  <1>2. 1 \in DOMAIN v
    BY <1>1
  <1> DEFINE I == {n \in DOMAIN v : v[n] # Empty}
  <1>3. I \in SUBSET DOMAIN v /\ I # {}
    BY <1>2
  <1> HIDE DEF I
  <1>4. PartAt(v, I) \in Value
    BY <1>3, PartsKept
  <1> QED
    BY <1>1, <1>4 DEF Stored, I

LEMMA AppendedKnown ==
  ASSUME NEW old \in Value, NEW v \in Values
  PROVE  old \o Missing(old, v) \in Value
  <1> DEFINE I == {n \in DOMAIN v : v[n] \notin ToSet(old)}
  <1>1. PartAt(v, I) \in Seq(Part)
    <2>1. I \in SUBSET DOMAIN v
      OBVIOUS
    <2> HIDE DEF I
    <2> QED
      BY <2>1, PartsKept
  <1>2. Missing(old, v) \in Seq(Part)
    BY <1>1 DEF Missing
  <1>3. old \in Seq(Part) /\ Len(old) # 0
    BY EmptySeq DEF Value
  <1> QED
    BY <1>2, <1>3 DEF Value

(* The calls that change the fields of a track that is there.              *)
LEMMA Changed ==
  ASSUME MetaInv, NEW t \in Tracks, NEW r, Changes(t, r), Follows(Now(t), r),
         Ordered(meta[t]) => Ordered(r.fields),
         URI \in KeysOf(meta[t]) => URI \in KeysOf(r.fields)
  PROVE  MetaInv'
  <1>1. /\ Call /\ t \in there /\ Becomes(t, r)
        /\ there' = there \cup {t} /\ UNCHANGED <<search, leaked>>
    BY DEF Changes
  <1>2. Ordered(r.fields) /\ URI \in KeysOf(r.fields)
    BY <1>1 DEF MetaInv, FieldsInv
  <1> QED
    BY <1>1, <1>2, TrackChanges

LEMMA WithFieldKeeps ==
  ASSUME MetaInv, NEW t \in Tracks, NEW k \in SettableKeys, NEW v \in Value,
         Changes(t, WithField(Now(t), k, v))
  PROVE  MetaInv'
  <1>1. Now(t) \in States /\ Now(t).fields = meta[t]
    BY NowKnown DEF MetaInv
  <1>2. k \in Keys /\ k # URI
    BY DEF SettableKeys
  <1> DEFINE r == WithField(Now(t), k, v)
  <1>3. /\ r \in States /\ Follows(Now(t), r)
        /\ KeysOf(r.fields) = KeysOf(meta[t]) \cup {k}
        /\ Ordered(meta[t]) => Ordered(r.fields)
    BY <1>1, <1>2, FieldAdded
  <1> HIDE DEF r
  <1> QED
    BY <1>3, Changed DEF r

LEMMA SetValueKeeps ==
  ASSUME MetaInv, NEW t \in Tracks, NEW k \in KeysOf(meta[t]), NEW v \in Value,
         Changes(t, SetValue(Now(t), k, v))
  PROVE  MetaInv'
  <1>1. Now(t) \in States /\ Now(t).fields = meta[t] /\ Covered(Now(t))
    BY NowKnown DEF MetaInv
  <1> DEFINE r == SetValue(Now(t), k, v)
  <1>2. /\ r \in States /\ Follows(Now(t), r)
        /\ KeysOf(r.fields) = KeysOf(meta[t])
        /\ Ordered(meta[t]) => Ordered(r.fields)
    BY <1>1, ValueSet
  <1> HIDE DEF r
  <1> QED
    BY <1>2, Changed DEF r

LEMMA WithoutKeeps ==
  ASSUME MetaInv, NEW t \in Tracks, NEW gone, URI \notin gone,
         Changes(t, Without(Now(t), gone))
  PROVE  MetaInv'
  <1>1. Now(t) \in States /\ Now(t).fields = meta[t] /\ Covered(Now(t))
    BY NowKnown DEF MetaInv
  <1> DEFINE r == Without(Now(t), gone)
  <1>2. /\ r \in States /\ Follows(Now(t), r)
        /\ KeysOf(r.fields) = KeysOf(meta[t]) \ gone
        /\ Ordered(meta[t]) => Ordered(r.fields)
    BY <1>1, FieldsRemoved
  <1> HIDE DEF r
  <1> QED
    BY <1>2, Changed DEF r

LEMMA AddMetaKeeps ==
  ASSUME MetaInv, NEW t \in Tracks, NEW k \in SettableKeys, NEW v \in Values, AddMeta(t, k, v)
  PROVE  MetaInv'
  BY StoredKnown, WithFieldKeeps DEF AddMeta

LEMMA AppendMetaKeeps ==
  ASSUME MetaInv, NEW t \in Tracks, NEW k \in SettableKeys, NEW v \in Values, AppendMeta(t, k, v)
  PROVE  MetaInv'
  <1>1. v[1] # Empty
    BY DEF AppendMeta
  <1>2. CASE k \notin KeysOf(meta[t])
    <2>1. Changes(t, WithField(Now(t), k, Stored(v)))
      BY <1>2 DEF AppendMeta
    <2> QED
      BY <1>1, <2>1, StoredKnown, WithFieldKeeps
  <1>3. CASE k \in KeysOf(meta[t])
    <2> DEFINE old == meta[t][At(meta[t], k)].value
    <2>1. Changes(t, SetValue(Now(t), k, old \o Missing(old, v)))
      BY <1>3 DEF AppendMeta
    <2>2. old \in Value
      <3>1. meta[t] \in Seq(FieldT)
        BY NowKnown DEF MetaInv
      <3>2. At(meta[t], k) \in DOMAIN meta[t]
        BY <1>3, AtKnown
      <3> QED
        BY <3>1, <3>2, FieldsKnown
    <2> HIDE DEF old
    <2>3. old \o Missing(old, v) \in Value
      BY <2>2, AppendedKnown
    <2> QED
      BY <1>3, <2>1, <2>3, SetValueKeeps
  <1> QED
    BY <1>2, <1>3

LEMMA ReplaceMetaKeeps ==
  ASSUME MetaInv, NEW t \in Tracks, NEW k \in SettableKeys, NEW p \in Parts, ReplaceMeta(t, k, p)
  PROVE  MetaInv'
  <1>1. <<p>> \in Value
    BY TextsKnown
  <1>2. CASE k \in KeysOf(meta[t])
    BY <1>1, <1>2, SetValueKeeps DEF ReplaceMeta
  <1>3. CASE k \notin KeysOf(meta[t])
    BY <1>1, <1>3, WithFieldKeeps DEF ReplaceMeta
  <1> QED
    BY <1>2, <1>3

LEMMA DeletesKeep ==
  ASSUME MetaInv, NEW t \in Tracks,
         (\E k \in SettableKeys : DeleteMeta(t, k)) \/ DeleteAllMeta(t)
  PROVE  MetaInv'
  <1>1. ASSUME NEW k \in SettableKeys, DeleteMeta(t, k) PROVE MetaInv'
    <2>1. URI \notin {k}
      BY DEF SettableKeys
    <2> QED
      BY <1>1, <2>1, WithoutKeeps DEF DeleteMeta
  <1>2. ASSUME DeleteAllMeta(t) PROVE MetaInv'
    <2>1. URI \notin Fields \cup Gains
      BY Constants
    <2> QED
      BY <1>2, <2>1, WithoutKeeps DEF DeleteAllMeta
  <1> QED
    BY <1>1, <1>2

LEMMA CopyJunkKeeps ==
  ASSUME MetaInv, NEW t \in Tracks, NEW u \in Tracks, CopyJunk(t, u)
  PROVE  MetaInv'
  <1>1. /\ Now(u) \in States /\ Now(u).fields = meta[u]
        /\ meta[t] \in Seq(FieldT)
    BY NowKnown DEF MetaInv
  <1>2. t \in there /\ u \in there
    BY DEF CopyJunk, Changes
  <1>3. Ordered(meta[t]) /\ Ordered(meta[u]) /\ URI \in KeysOf(meta[u])
    BY <1>2 DEF MetaInv, FieldsInv
  <1> DEFINE r == Copied(Now(u), meta[t])
  <1>4. /\ Follows(Now(u), r) /\ Ordered(r.fields)
        /\ KeysOf(r.fields) = KeysOf(meta[u]) \cup KeysOf(meta[t])
    BY <1>1, <1>3, FieldsCopied
  <1>5. Changes(u, r)
    BY DEF CopyJunk
  <1> HIDE DEF r
  <1> QED
    BY <1>3, <1>4, <1>5, Changed

(* A track that is not there has no fields.                                *)
LEMMA NoFields ==
  ASSUME MetaInv, NEW t \in Tracks, t \notin there
  PROVE  Now(t) = [fields |-> <<>>, cache |-> cache]
  BY DEF Now, MetaInv, FieldsInv

LEMMA AddFileKeeps ==
  ASSUME MetaInv, NEW t \in Tracks, NEW decoded \in BOOLEAN, AddFile(t, decoded)
  PROVE  MetaInv'
  <1> DEFINE r == Fresh(t, cache, decoded)
  <1>1. t \notin there /\ cache \in Caches
    BY DEF AddFile, MetaInv, CacheInv
  <1>2. /\ Follows([fields |-> <<>>, cache |-> cache], r)
        /\ URI \in KeysOf(r.fields) /\ Ordered(r.fields)
    BY <1>1, FreshMade
  <1>3. Becomes(t, r) /\ there' = there \cup {t} /\ Call /\ UNCHANGED <<search, leaked>>
    BY DEF AddFile
  <1> HIDE DEF r
  <1>4. Follows(Now(t), r) /\ URI \in KeysOf(r.fields)
    BY <1>1, <1>2, NoFields
  <1> QED
    BY <1>2, <1>3, <1>4, TrackChanges

LEMMA CopyItemKeeps ==
  ASSUME MetaInv, NEW t \in Tracks, NEW u \in Tracks, CopyItem(t, u)
  PROVE  MetaInv'
  <1>1. t \in there /\ u \notin there
    BY DEF CopyItem
  <1>2. /\ Now(u) \in States /\ Now(u) = [fields |-> <<>>, cache |-> cache]
        /\ Now(u).fields = <<>> /\ meta[t] \in Seq(FieldT)
    BY <1>1, NowKnown, NoFields DEF MetaInv
  <1>3. Ordered(meta[t]) /\ URI \in KeysOf(meta[t])
    BY <1>1 DEF MetaInv, FieldsInv
  <1>4. KeysOf(<<>>) = {} /\ Ordered(<<>>)
    BY DEF KeysOf, Ordered
  <1> DEFINE r == Copied(Now(u), meta[t])
  <1>5. /\ Follows(Now(u), r) /\ Ordered(r.fields)
        /\ KeysOf(r.fields) = KeysOf(<<>>) \cup KeysOf(meta[t])
    BY <1>2, <1>3, <1>4, FieldsCopied
  <1>6. /\ Becomes(u, r) /\ there' = there \cup {u}
        /\ Call /\ UNCHANGED <<search, leaked>>
    BY <1>2 DEF CopyItem
  <1> HIDE DEF r
  <1> QED
    BY <1>3, <1>5, <1>6, TrackChanges

(* A track holds a key at most once.                                       *)
LEMMA KeyHeldOnce ==
  ASSUME NEW fields \in Seq(FieldT), Ordered(fields), NEW s
  PROVE  Counted(fields, KeyIs(s)) = IF \E k \in KeysOf(fields) : s = <<k>> THEN 1 ELSE 0
  <1> DEFINE P == {n \in DOMAIN fields : fields[n] \in KeyIs(s)}
  <1>1. /\ DOMAIN fields = 1 .. Len(fields) /\ Len(fields) \in Nat
        /\ \A n \in DOMAIN fields : fields[n] \in FieldT
    BY FieldsKnown
  <1>2. \A n \in DOMAIN fields : n \in P <=> <<fields[n].key>> = s
    BY <1>1 DEF KeyIs
  <1>3. CASE \E k \in KeysOf(fields) : s = <<k>>
    <2>1. PICK n \in DOMAIN fields : s = <<fields[n].key>>
      BY <1>3 DEF KeysOf
    <2>2. ASSUME NEW i \in P PROVE i = n
      <3>1. i \in DOMAIN fields /\ fields[i].key = fields[n].key
        BY <1>2, <2>1, <2>2
      <3>2. ~ (i < n) /\ ~ (n < i)
        BY <2>1, <3>1 DEF Ordered
      <3> QED
        BY <1>1, <2>1, <3>1, <3>2
    <2>3. P = {n}
      BY <1>2, <2>1, <2>2
    <2> QED
      BY <1>3, <2>3, FS_Singleton DEF Counted
  <1>4. CASE ~ \E k \in KeysOf(fields) : s = <<k>>
    <2>1. P = {}
      BY <1>2, <1>4 DEF KeysOf
    <2> QED
      BY <1>4, <2>1, FS_EmptySet DEF Counted
  <1> QED
    BY <1>3, <1>4

(* What a freed track leaves behind is what it did not give back.          *)
LEMMA LeakGrows ==
  ASSUME MetaInv, NEW t \in Tracks, FreeItem(t), NEW s
  PROVE  Leak(s)' = Leak(s) + Counted(meta[t], KeyIs(s))
  <1>1. /\ meta[t] \in Seq(FieldT) /\ Ordered(meta[t]) /\ leaked \in [Keys -> Nat]
    BY NowKnown DEF MetaInv, FieldsInv, CacheInv
  <1>2. Counted(meta[t], KeyIs(s)) = IF \E k \in KeysOf(meta[t]) : s = <<k>> THEN 1 ELSE 0
    BY <1>1, KeyHeldOnce
  <1>3. KeysOf(meta[t]) \subseteq Keys
    <2>1. \A n \in DOMAIN meta[t] : meta[t][n].key \in Keys
      BY <1>1, FieldsKnown
    <2> QED
      BY <2>1 DEF KeysOf
  <1>4. leaked' = [k \in Keys |-> leaked[k] + (IF k \in KeysOf(meta[t]) THEN 1 ELSE 0)]
    BY DEF FreeItem
  <1>5. ASSUME NEW k \in Keys, s = <<k>>
        PROVE  Leak(s)' = Leak(s) + Counted(meta[t], KeyIs(s))
    <2>1. s[1] = k /\ Leak(s) = leaked[k] /\ Leak(s)' = leaked'[k]
      BY <1>5 DEF Leak
    <2>2. (\E j \in KeysOf(meta[t]) : s = <<j>>) <=> k \in KeysOf(meta[t])
      BY <1>5
    <2> QED
      BY <1>2, <1>4, <2>1, <2>2
  <1>6. ASSUME ~ \E k \in Keys : s = <<k>>
        PROVE  Leak(s)' = Leak(s) + Counted(meta[t], KeyIs(s))
    <2>1. Leak(s) = 0 /\ Leak(s)' = 0
      BY <1>6 DEF Leak
    <2>2. ~ \E j \in KeysOf(meta[t]) : s = <<j>>
      BY <1>3, <1>6
    <2> QED
      BY <1>2, <2>1, <2>2
  <1> QED
    BY <1>5, <1>6

LEMMA FreeItemBalances ==
  ASSUME MetaInv, NEW t \in Tracks, FreeItem(t)
  PROVE  CacheInv' /\ MemosKept(cache, cache') /\ meta' \in Metas
         /\ meta' = [meta EXCEPT ![t] = <<>>]
  <1> DEFINE f == meta[t]
             strings == [n \in DOMAIN f |-> f[n].value]
  <1>1. /\ Now(t) \in States /\ Covered(Now(t)) /\ Now(t).fields = f /\ Now(t).cache = cache
        /\ f \in Seq(FieldT)
        /\ meta \in Metas /\ cache \in Caches /\ leaked \in [Keys -> Nat]
    BY NowKnown DEF MetaInv, FieldsInv, CacheInv
  <1>2. meta' = [meta EXCEPT ![t] = <<>>] /\ cache' = RemoveValues(cache, strings)
    BY DEF FreeItem, Becomes
  <1>3. DOMAIN strings = DOMAIN f /\ IsFiniteSet(DOMAIN strings)
    <2>1. DOMAIN strings = DOMAIN f
      OBVIOUS
    <2> HIDE DEF strings, f
    <2>2. DOMAIN f = 1 .. Len(f) /\ Len(f) \in Nat
      BY <1>1, FieldsKnown
    <2>3. IsFiniteSet(1 .. Len(f))
      BY <2>2, FS_Interval
    <2> QED
      BY <2>1, <2>2, <2>3
  <1>4. ASSUME NEW s
        PROVE  Cardinality({n \in DOMAIN strings : strings[n] = s}) = Counted(f, ValueIs(s))
    <2>1. \A n \in DOMAIN f : f[n] \in FieldT
      BY <1>1, FieldsKnown
    <2>2. {n \in DOMAIN strings : strings[n] = s} = {n \in DOMAIN f : f[n] \in ValueIs(s)}
      BY <2>1 DEF ValueIs
    <2> QED
      BY <2>2 DEF Counted
  <1> HIDE DEF strings, f
  <1>5. /\ cache' \in Caches /\ MemosKept(cache, cache')
        /\ \A s : Refs(cache', s)
                     = IF Refs(cache, s) > Counted(f, ValueIs(s))
                       THEN Refs(cache, s) - Counted(f, ValueIs(s)) ELSE 0
    <2> DEFINE d == RemoveValues(cache, strings)
               Gone(s) == Cardinality({n \in DOMAIN strings : strings[n] = s})
    <2>1. /\ d \in Caches /\ MemosKept(cache, d)
          /\ \A s : Refs(d, s) = IF Refs(cache, s) > Gone(s) THEN Refs(cache, s) - Gone(s) ELSE 0
      BY <1>1, <1>3, ValuesRemoved
    <2>2. \A s : Gone(s) = Counted(f, ValueIs(s))
      BY <1>4
    <2> HIDE DEF d, Gone
    <2> QED
      BY <1>2, <2>1, <2>2 DEF d
  <1>6. <<>> \in Seq(FieldT) /\ \A T : Counted(<<>>, T) = 0
    BY FS_EmptySet DEF Counted
  <1>7. meta' \in Metas
    BY <1>1, <1>2, <1>6, HeldChanged
  <1>8. ASSUME NEW s PROVE Refs(cache', s) = Holders(s)' + Leak(s)'
    <2> DEFINE a == HeldIn(meta, KeyIs(s))
               b == HeldIn(meta, ValueIs(s))
               c == HeldIn(meta', KeyIs(s))
               d == HeldIn(meta', ValueIs(s))
               e == Counted(f, KeyIs(s))
               g == Counted(f, ValueIs(s))
    <2>1. Refs(cache, s) = Holders(s) + Leak(s) /\ Leak(s) \in Nat
      BY <1>1, LeakKnown DEF MetaInv, CacheInv, Balanced
    <2>2. Holders(s) = a + b
      BY <1>1, HoldersKnown
    <2>3. Holders(s)' = c + d
      <3>1. (meta \in Metas => Holders(s) = HeldIn(meta, KeyIs(s)) + HeldIn(meta, ValueIs(s)))'
        BY HoldersKnown, PTL
      <3> QED
        BY <1>7, <3>1
    <2>4. ASSUME NEW T
          PROVE  /\ HeldIn(meta', T) + Counted(f, T) = HeldIn(meta, T)
                 /\ HeldIn(meta', T) \in Nat /\ HeldIn(meta, T) \in Nat /\ Counted(f, T) \in Nat
      <3> DEFINE mt == [meta EXCEPT ![t] = <<>>]
      <3>1. /\ HeldIn(mt, T) + Counted(meta[t], T) = HeldIn(meta, T) + Counted(<<>>, T)
            /\ HeldIn(mt, T) \in Nat /\ HeldIn(meta, T) \in Nat /\ Counted(meta[t], T) \in Nat
        BY <1>1, <1>6, HeldChanged
      <3> HIDE DEF mt
      <3>2. meta' = mt /\ Counted(<<>>, T) = 0
        BY <1>2, <1>6 DEF mt
      <3> QED
        BY <3>1, <3>2 DEF f
    <2>5. a \in Nat /\ b \in Nat /\ c \in Nat /\ d \in Nat /\ e \in Nat /\ g \in Nat
          /\ c + e = a /\ d + g = b
      BY <2>4
    <2>6. Leak(s)' = Leak(s) + e
      BY LeakGrows DEF f
    <2>7. Refs(cache', s) = IF Refs(cache, s) > g THEN Refs(cache, s) - g ELSE 0
      BY <1>5
    <2> HIDE DEF a, b, c, d, e, g
    <2> QED
      BY <2>1, <2>2, <2>3, <2>5, <2>6, <2>7
  <1>9. Balanced'
    BY <1>8 DEF Balanced
  <1>10. leaked' \in [Keys -> Nat]
    BY <1>1 DEF FreeItem
  <1> QED
    BY <1>2, <1>5, <1>7, <1>9, <1>10 DEF CacheInv

(* A track that is freed leaves the search lists.                          *)
LEMMA FreeItemSearches ==
  ASSUME MetaInv, NEW t \in Tracks, FreeItem(t), MemosKept(cache, cache')
  PROVE  SearchInv'
  <1>1. /\ UNCHANGED <<cmpidx, query, searches>> /\ there' = there \ {t}
        /\ found' = [p \in Lists |-> PartAt(found[p], {n \in DOMAIN found[p] : found[p][n] # t})]
    BY DEF FreeItem
  <1>2. SearchInv
    BY DEF MetaInv
  <1>3. MemosNumbered'
    BY <1>1, <1>2 DEF SearchInv, MemosNumbered, MemosKept
  <1>4. ASSUME NEW p \in Lists
        PROVE  found'[p] \in Seq(Tracks) /\ ToSet(found'[p]) \subseteq Present(p)'
    <2> DEFINE I == {n \in DOMAIN found[p] : found[p][n] # t}
    <2>1. found[p] \in Seq(Tracks) /\ I \in SUBSET DOMAIN found[p]
      BY <1>2 DEF SearchInv
    <2> HIDE DEF I
    <2>2. /\ PartAt(found[p], I) \in Seq(Tracks)
          /\ Len(PartAt(found[p], I)) = Cardinality(I)
          /\ \A i \in 1 .. Cardinality(I) :
                Positioned(I)[i] \in I /\ PartAt(found[p], I)[i] = found[p][Positioned(I)[i]]
      BY <2>1, KeptElements
    <2>3. found'[p] = PartAt(found[p], I)
      BY <1>1 DEF I
    <2>4. ASSUME NEW u \in ToSet(found'[p]) PROVE u \in ToSet(found[p]) /\ u # t
      <3>1. DOMAIN PartAt(found[p], I) = 1 .. Cardinality(I)
        BY <2>2
      <3>2. PICK i \in 1 .. Cardinality(I) : u = found'[p][i]
        BY <2>3, <2>4, <3>1 DEF ToSet
      <3>3. Positioned(I)[i] \in I /\ u = found[p][Positioned(I)[i]]
        BY <2>2, <2>3, <3>2
      <3> QED
        BY <3>3 DEF I, ToSet
    <2>5. \A u \in ToSet(found'[p]) : u \in ToSet(Rows[p]) /\ u \in there'
      BY <1>1, <1>2, <2>4 DEF SearchInv, Present
    <2> QED
      BY <2>2, <2>3, <2>5 DEF Present
  <1>5. found' \in [Lists -> Seq(Tracks)]
    BY <1>1, <1>4
  <1> QED
    BY <1>1, <1>2, <1>3, <1>4, <1>5 DEF SearchInv

LEMMA FreeItemKeeps ==
  ASSUME MetaInv, NEW t \in Tracks, FreeItem(t)
  PROVE  MetaInv'
  <1>1. /\ CacheInv' /\ MemosKept(cache, cache') /\ meta' \in Metas
        /\ meta' = [meta EXCEPT ![t] = <<>>]
    BY FreeItemBalances
  <1>2. SearchInv'
    BY <1>1, FreeItemSearches
  <1>3. there' = there \ {t}
    BY DEF FreeItem
  <1>4. Ordered(<<>>)
    BY DEF Ordered
  <1>5. FieldsInv /\ meta \in Metas
    BY DEF MetaInv, FieldsInv
  <1>6. meta'[t] = <<>> /\ \A u \in Tracks \ {t} : meta'[u] = meta[u]
    BY <1>1, <1>5 DEF Metas
  <1>7. FieldsInv'
    BY <1>1, <1>3, <1>4, <1>5, <1>6 DEF FieldsInv
  <1>8. budget' \in 0 .. BUDGET
    BY Constants DEF MetaInv, FreeItem, Call
  <1> QED
    BY <1>1, <1>2, <1>7, <1>8 DEF MetaInv

-----------------------------------------------------------------------------
(* A search.                                                               *)

LEMMA NextIndexKnown ==
  ASSUME SearchInv, NEW p \in Lists
  PROVE  LET n == NextIndex(p)
         IN  /\ n \in 1 .. INDICES /\ n <= searches[p] + 1
             /\ searches[p] + 1 <= INDICES => n = searches[p] + 1
             /\ searches[p] \in Nat
  <1>1. /\ cmpidx[p] \in 0 .. INDICES /\ searches[p] \in Nat /\ cmpidx[p] <= searches[p]
        /\ searches[p] <= INDICES => cmpidx[p] = searches[p]
    BY DEF SearchInv
  <1>2. INDICES \in Nat /\ INDICES > 0
    BY Constants
  <1>3. NextIndex(p) = IF cmpidx[p] + 1 > INDICES THEN 1 ELSE cmpidx[p] + 1
    BY DEF NextIndex
  <1> QED
    BY <1>1, <1>2, <1>3

LEMMA SearchKeeps ==
  ASSUME MetaInv, NEW p \in Lists, NEW text \in Texts, Search(p, text)
  PROVE  MetaInv'
  <1> DEFINE n == NextIndex(p)
             r == SearchRows(p, text, n)
  <1>1. FieldsInv /\ CacheInv /\ SearchInv /\ meta \in Metas /\ cache \in Caches /\ ValuesCached
    BY ValuesAreCached DEF MetaInv, FieldsInv, CacheInv
  <1>2. /\ n \in 1 .. INDICES /\ n <= searches[p] + 1
        /\ searches[p] + 1 <= INDICES => n = searches[p] + 1
        /\ searches[p] \in Nat
    BY <1>1, NextIndexKnown
  <1>3. /\ Call /\ cmpidx' = [cmpidx EXCEPT ![p] = n] /\ cache' = r.cache
        /\ found' = [found EXCEPT ![p] = r.found]
        /\ query' = [query EXCEPT ![p] = text]
        /\ searches' = [searches EXCEPT ![p] = @ + 1]
        /\ UNCHANGED <<there, meta, leaked>>
    BY DEF Search, tracks
  <1> HIDE DEF n
  <1>4. r.cache \in Noting(cache, n) /\ r.found \in Seq(Present(p))
    BY <1>1, <1>2, RowsSearched
  <1> HIDE DEF r
  <1>5. /\ cache' \in Caches /\ DOMAIN cache' = DOMAIN cache
        /\ \A s : Refs(cache', s) = Refs(cache, s)
        /\ \A s \in DOMAIN cache : cache'[s].memo = cache[s].memo \/ cache'[s].memo \in {n, -n}
    BY <1>1, <1>2, <1>3, <1>4, NotingKnown
  <1>6. CacheInv'
    <2>1. \A s : Holders(s)' = Holders(s) /\ Leak(s)' = Leak(s)
      BY <1>3 DEF Holders, Positions, Leak
    <2> QED
      BY <1>1, <1>3, <1>5, <2>1 DEF CacheInv, Balanced
  <1>7. FieldsInv'
    BY <1>1, <1>3 DEF FieldsInv
  <1>8. \A q \in Lists : Present(q)' = Present(q)
    BY <1>3 DEF Present
  <1>9. /\ searches' \in [Lists -> Nat] /\ searches'[p] = searches[p] + 1
        /\ \A q \in Lists \ {p} : searches'[q] = searches[q]
        /\ \A q \in Lists : searches[q] \in Nat /\ searches'[q] \in Nat
    BY <1>1, <1>3 DEF SearchInv
  <1>10. MemosNumbered'
    <2> SUFFICES ASSUME NEW s \in DOMAIN cache', cache'[s].memo # 0
                 PROVE  \E q \in Lists : -searches'[q] <= cache'[s].memo
                                         /\ cache'[s].memo <= searches'[q]
      BY DEF MemosNumbered
    <2>1. CASE cache'[s].memo \in {n, -n}
      BY <1>2, <1>9, <2>1
    <2>2. CASE cache'[s].memo = cache[s].memo
      <3>1. PICK q \in Lists : -searches[q] <= cache[s].memo /\ cache[s].memo <= searches[q]
        BY <1>1, <1>5, <2>2 DEF SearchInv, MemosNumbered
      <3>2. cache[s].memo \in Int
        BY <1>1, <1>2, <1>5, CacheKnown, Constants
      <3>3. searches[q] <= searches'[q] /\ searches[q] \in Nat /\ searches'[q] \in Nat
        BY <1>9
      <3> QED
        BY <2>2, <3>1, <3>2, <3>3
    <2> QED
      BY <1>5, <2>1, <2>2
  <1>11. /\ found' \in [Lists -> Seq(Tracks)]
         /\ \A q \in Lists : ToSet(found'[q]) \subseteq Present(q)'
    <2>1. r.found \in Seq(Tracks)
      <3>1. Present(p) \subseteq Tracks
        BY <1>1 DEF Present, FieldsInv
      <3> QED
        BY <1>4, <3>1, SeqMonotonic
    <2>2. ToSet(r.found) \subseteq Present(p)
      BY <1>4 DEF ToSet
    <2> QED
      BY <1>1, <1>3, <1>8, <2>1, <2>2 DEF SearchInv
  <1>12. cmpidx' \in [Lists -> 0 .. INDICES] /\ query' \in [Lists -> Texts]
    BY <1>1, <1>2, <1>3 DEF SearchInv
  <1>13. \A q \in Lists : /\ cmpidx'[q] <= searches'[q]
                          /\ searches'[q] <= INDICES => cmpidx'[q] = searches'[q]
    BY <1>1, <1>2, <1>3, <1>9 DEF SearchInv
  <1>14. SearchInv'
    BY <1>9, <1>10, <1>11, <1>12, <1>13 DEF SearchInv
  <1>15. budget' \in 0 .. BUDGET
    BY <1>3, Constants DEF MetaInv, Call
  <1> QED
    BY <1>6, <1>7, <1>14, <1>15 DEF MetaInv

-----------------------------------------------------------------------------
(* The invariant holds.                                                    *)

LEMMA NothingChanges ==
  ASSUME MetaInv, UNCHANGED vars
  PROVE  MetaInv'
  <1>1. /\ UNCHANGED <<there, meta, cache, cmpidx, found, query, searches, leaked, budget>>
    BY DEF vars, tracks, search
  <1>2. FieldsInv'
    BY <1>1 DEF MetaInv, FieldsInv
  <1>3. CacheInv'
    BY <1>1 DEF MetaInv, CacheInv, Balanced, Holders, Positions, Leak
  <1>4. SearchInv'
    BY <1>1 DEF MetaInv, SearchInv, MemosNumbered, Present
  <1> QED
    BY <1>1, <1>2, <1>3, <1>4 DEF MetaInv

LEMMA NextKeeps ==
  ASSUME MetaInv, [Next]_vars
  PROVE  MetaInv'
  <1>1. ASSUME NEW t \in Tracks, NEW k \in SettableKeys, NEW v \in Values,
               AddMeta(t, k, v) \/ AppendMeta(t, k, v)
        PROVE  MetaInv'
    BY <1>1, AddMetaKeeps, AppendMetaKeeps
  <1>2. ASSUME NEW t \in Tracks, NEW k \in SettableKeys, NEW p \in Parts, ReplaceMeta(t, k, p)
        PROVE  MetaInv'
    BY <1>2, ReplaceMetaKeeps
  <1>3. ASSUME NEW t \in Tracks, NEW k \in SettableKeys, DeleteMeta(t, k)
        PROVE  MetaInv'
    BY <1>3, DeletesKeep
  <1>4. ASSUME NEW t \in Tracks, DeleteAllMeta(t) \/ FreeItem(t)
        PROVE  MetaInv'
    BY <1>4, DeletesKeep, FreeItemKeeps
  <1>11. ASSUME NEW t \in Tracks, NEW decoded \in BOOLEAN, AddFile(t, decoded)
        PROVE  MetaInv'
    BY <1>11, AddFileKeeps
  <1>5. ASSUME NEW t \in Tracks, NEW u \in Tracks, CopyJunk(t, u) \/ CopyItem(t, u)
        PROVE  MetaInv'
    BY <1>5, CopyJunkKeeps, CopyItemKeeps
  <1>6. ASSUME NEW p \in Lists, NEW text \in Texts, Search(p, text)
        PROVE  MetaInv'
    BY <1>6, SearchKeeps
  <1>7. CASE UNCHANGED vars
    BY <1>7, NothingChanges
  <1> QED
    BY <1>1, <1>2, <1>3, <1>4, <1>5, <1>6, <1>7, <1>11 DEF Next

LEMMA HeldNumber ==
  ASSUME NEW mt \in Metas, NEW T
  PROVE  /\ HeldIn(mt, T) \in Nat
         /\ HeldIn(mt, T) > 0 <=> \E x \in Places(mt) : mt[x[1]][x[2]] \in T
  <1> DEFINE P == {x \in Places(mt) : mt[x[1]][x[2]] \in T}
  <1>1. IsFiniteSet(P)
    BY PlacesKnown, FS_Subset
  <1> HIDE DEF P
  <1>2. Cardinality(P) \in Nat /\ (Cardinality(P) = 0 <=> P = {})
    BY <1>1, FS_CardinalityType, FS_EmptySet
  <1> QED
    BY <1>2 DEF HeldIn, P

LEMMA HoldersNumber ==
  ASSUME meta \in Metas, NEW s
  PROVE  Holders(s) \in Nat /\ (Holders(s) > 0 <=> s \in Held)
  <1> DEFINE a == HeldIn(meta, KeyIs(s))
             b == HeldIn(meta, ValueIs(s))
  <1>1. Holders(s) = a + b
    BY HoldersKnown
  <1>2. Positions = Places(meta)
    BY DEF Positions, Places
  <1>3. \A x \in Places(meta) : meta[x[1]][x[2]] \in FieldT
    BY PlacesKnown, FieldsKnown DEF Metas
  <1>4. a \in Nat /\ (a > 0 <=> \E x \in Places(meta) : <<meta[x[1]][x[2]].key>> = s)
    BY <1>3, HeldNumber DEF KeyIs
  <1>5. b \in Nat /\ (b > 0 <=> \E x \in Places(meta) : meta[x[1]][x[2]].value = s)
    BY <1>3, HeldNumber DEF ValueIs
  <1> HIDE DEF a, b
  <1>6. s \in Held <=> a > 0 \/ b > 0
    BY <1>2, <1>4, <1>5 DEF Held
  <1> QED
    BY <1>1, <1>4, <1>5, <1>6

LEMMA HeldStrings ==
  ASSUME meta \in Metas
  PROVE  Held \subseteq Str
  <1> DEFINE both == [x \in Positions |-> {<<meta[x[1]][x[2]].key>>, meta[x[1]][x[2]].value}]
  <1>1. Held = UNION {both[x] : x \in Positions}
    BY DEF Held
  <1>2. SUFFICES ASSUME NEW x \in Positions
                 PROVE  <<meta[x[1]][x[2]].key>> \in Str /\ meta[x[1]][x[2]].value \in Str
    <2>1. \A x \in Positions : both[x] \subseteq Str
      BY <1>2
    <2> HIDE DEF both
    <2> QED
      BY <1>1, <2>1
  <1>3. PICK t \in Tracks : \E n \in DOMAIN meta[t] : x = <<t, n>>
    BY PlacesKnown DEF Positions, Places
  <1>4. meta[t] \in Seq(FieldT)
    BY DEF Metas
  <1>5. PICK n \in DOMAIN meta[t] : x = <<t, n>>
    BY <1>3
  <1> QED
    BY <1>4, <1>5, FieldsKnown

LEMMA InitKeeps ==
  ASSUME Init
  PROVE  MetaInv
  <1>1. <<>> \in Caches
    <2>1. <<>> \in [{} -> Entry] /\ {} \in SUBSET Str
      OBVIOUS
    <2> QED
      BY <2>1, CacheMade
  <1>2. ASSUME NEW t \in Tracks
        PROVE  LET f == Fresh(t, <<>>, TRUE).fields
               IN  f \in Seq(FieldT) /\ URI \in KeysOf(f) /\ Ordered(f)
    <2> DEFINE r == Fresh(t, <<>>, TRUE)
    <2>1. r \in States /\ URI \in KeysOf(r.fields) /\ Ordered(r.fields)
      BY <1>1, FreshMade
    <2> HIDE DEF r
    <2>2. r.fields \in Seq(FieldT) /\ URI \in KeysOf(r.fields) /\ Ordered(r.fields)
      BY <2>1, StateKnown
    <2> QED
      BY <2>2 DEF r
  <1>3. meta = [t \in Tracks |-> IF t \in Loaded THEN Fresh(t, <<>>, TRUE).fields ELSE <<>>]
    BY DEF Init
  <1>4. <<>> \in Seq(FieldT) /\ Ordered(<<>>)
    BY DEF Ordered
  <1>5. meta \in Metas
    BY <1>2, <1>3, <1>4 DEF Metas
  <1>6. FieldsInv
    BY <1>2, <1>3, <1>4, <1>5, Constants DEF Init, FieldsInv
  <1>7. cache = [s \in Held |-> [refs |-> Holders(s), memo |-> 0]]
    BY DEF Init
  <1>8. cache \in [Held -> Entry]
    <2>1. 0 \in -INDICES .. INDICES
      BY Constants
    <2> QED
      BY <1>5, <1>7, <2>1, HoldersNumber DEF Entry
  <1>9. cache \in Caches
    BY <1>5, <1>8, HeldStrings, CacheMade
  <1>10. leaked = [k \in Keys |-> 0]
    BY DEF Init
  <1>11. ASSUME NEW s PROVE Refs(cache, s) = Holders(s) + Leak(s)
    <2>1. Leak(s) = 0
      BY <1>10 DEF Leak
    <2>2. Refs(cache, s) = Holders(s)
      BY <1>5, <1>7, HoldersNumber DEF Refs
    <2> QED
      BY <1>5, <2>1, <2>2, HoldersNumber
  <1>12. CacheInv
    BY <1>9, <1>10, <1>11 DEF CacheInv, Balanced
  <1>13. SearchInv
    <2>1. /\ cmpidx = [p \in Lists |-> 0] /\ found = [p \in Lists |-> <<>>]
          /\ query = [p \in Lists |-> Empty] /\ searches = [p \in Lists |-> 0]
      BY DEF Init
    <2>2. MemosNumbered
      BY <1>7 DEF MemosNumbered
    <2>3. ToSet(<<>>) = {} /\ <<>> \in Seq(Tracks)
      BY DEF ToSet
    <2> QED
      BY <2>1, <2>2, <2>3, Constants DEF SearchInv
  <1>14. budget \in 0 .. BUDGET
    BY Constants DEF Init
  <1> QED
    BY <1>6, <1>12, <1>13, <1>14 DEF MetaInv

-----------------------------------------------------------------------------
(* The theorems.                                                           *)

(* The inductive invariant: the fields of every track are in order and have
   a URI; every string has a reference for each field that holds it and for
   each key a freed track has left behind, and none that is not accounted
   for; a memo is of a search that was made (plmeta.c, metacache.c,
   plt_search_process2).                                                   *)
THEOREM MetaInvariant == Spec => []MetaInv
  <1>1. Init => MetaInv
    BY InitKeeps
  <1>2. MetaInv /\ [Next]_vars => MetaInv'
    BY NextKeeps
  <1> QED
    BY <1>1, <1>2, PTL DEF Spec

(* The fields are lists of keys and values that are not empty, a track that
   is not there has none, the references in the cache are positive, and a
   search lists only tracks of its list that are there: pl_item_free takes
   the track out of the lists and gives its values back.                   *)
THEOREM MetadataTypes == Spec => []TypeOK
  <1>1. ASSUME MetaInv PROVE TypeOK
    <2>1. FieldsInv /\ CacheInv /\ SearchInv /\ budget \in 0 .. BUDGET
      BY <1>1 DEF MetaInv
    <2>2. meta \in [Tracks -> Seq([key : Keys, value : Seq(Part) \ {<<>>}])]
      BY <2>1 DEF FieldsInv, Metas, FieldT, Value
    <2>3. \A s \in DOMAIN cache : cache[s] \in [refs : Nat \ {0}, memo : -INDICES .. INDICES]
      BY <2>1, CacheKnown DEF CacheInv, Entry
    <2>4. \A p \in Lists : ToSet(found[p]) \subseteq ToSet(Rows[p]) \cap there
      BY <2>1 DEF SearchInv, Present
    <2> QED
      BY <2>1, <2>2, <2>3, <2>4 DEF TypeOK, FieldsInv, CacheInv, SearchInv
  <1> QED
    BY <1>1, MetaInvariant, PTL

(* A string of the cache has exactly the references of the fields and of the
   keys that freed tracks left behind, whatever sequence of calls was made,
   so that none is freed under a track that has it
   (metacache_add_value, metacache_remove_value and all their callers).    *)
THEOREM ReferencesAreCounted == Spec => []StringsReferenced
  <1>1. ASSUME MetaInv PROVE StringsReferenced
    BY <1>1 DEF MetaInv, CacheInv, Balanced, Leak, StringsReferenced
  <1> QED
    BY <1>1, MetaInvariant, PTL

(* A track has a key once and its tags come before its properties, however
   its fields were added, deleted, replaced and copied
   (pl_add_empty_meta_for_key and its callers).                            *)
THEOREM TagsComeFirst == Spec => []TagsFirst
  <1>1. ASSUME MetaInv PROVE TagsFirst
    <2>1. \A t \in Tracks : Ordered(meta[t])
      BY <1>1 DEF MetaInv, FieldsInv
    <2> QED
      BY <2>1 DEF Ordered, TagsFirst
  <1> QED
    BY <1>1, MetaInvariant, PTL

(* A step that is not a search of the list leaves the number of its searches. *)
LEMMA OnlySearchCounts ==
  ASSUME Next, NEW p \in Lists, searches'[p] # searches[p], SearchInv
  PROVE  \E text \in Texts : Search(p, text)
  <1>1. searches' # searches
    OBVIOUS
  <1>2. ASSUME NEW t, NEW r, Changes(t, r) PROVE FALSE
    BY <1>1, <1>2 DEF Changes, search
  <1>3. PICK q \in Lists, text \in Texts : Search(q, text)
    BY <1>1, <1>2 DEF Next, AddMeta, AppendMeta, ReplaceMeta, DeleteMeta, DeleteAllMeta,
                      AddFile, FreeItem, CopyJunk, CopyItem, search
  <1>4. searches' = [searches EXCEPT ![q] = @ + 1] /\ searches \in [Lists -> Nat]
    BY <1>3 DEF Search, SearchInv
  <1>5. q = p
    BY <1>4
  <1> QED
    BY <1>3, <1>5

(* As long as the number of a search was not taken before, no memo has it. *)
LEMMA NumberIsNew ==
  ASSUME CacheInv, SearchInv, NEW n \in Nat, n > 0, \A q \in Lists : searches[q] < n, NEW text
  PROVE  Noted(cache, text, n)
  <1> SUFFICES ASSUME NEW s \in DOMAIN cache, cache[s].memo \in {n, -n} PROVE FALSE
    BY DEF Noted
  <1>1. cache[s].memo # 0
    OBVIOUS
  <1>2. PICK q \in Lists : -searches[q] <= cache[s].memo /\ cache[s].memo <= searches[q]
    BY <1>1 DEF SearchInv, MemosNumbered
  <1>3. searches[q] \in Nat /\ searches[q] < n
    BY DEF SearchInv
  <1> QED
    BY <1>2, <1>3

LEMMA SearchAnswers ==
  ASSUME MetaInv, NEW p \in Lists, NEW text \in Texts, Search(p, text),
         searches'[p] <= INDICES, \A q \in Lists \ {p} : searches[q] < searches'[p]
  PROVE  found'[p] = Asked(p)
  <1> DEFINE n == NextIndex(p)
             r == SearchRows(p, text, n)
  <1>1. FieldsInv /\ CacheInv /\ SearchInv /\ meta \in Metas /\ cache \in Caches /\ ValuesCached
    BY ValuesAreCached DEF MetaInv, FieldsInv, CacheInv
  <1>2. /\ n \in 1 .. INDICES
        /\ searches[p] + 1 <= INDICES => n = searches[p] + 1
        /\ searches[p] \in Nat
    BY <1>1, NextIndexKnown
  <1>3. /\ found' = [found EXCEPT ![p] = r.found]
        /\ query' = [query EXCEPT ![p] = text]
        /\ searches' = [searches EXCEPT ![p] = @ + 1]
    BY DEF Search
  <1>4. found'[p] = r.found /\ query'[p] = text /\ searches'[p] = searches[p] + 1
    BY <1>1, <1>3 DEF SearchInv
  <1> HIDE DEF n
  <1>5. n = searches[p] + 1 /\ n \in Nat /\ n > 0
    BY <1>2, <1>4
  <1>6. \A q \in Lists : searches[q] < n
    BY <1>2, <1>4, <1>5
  <1>7. Noted(cache, text, n)
    BY <1>1, <1>5, <1>6, NumberIsNew
  <1>8. r.found = IF text = Empty THEN <<>> ELSE PartAt(Rows[p], HitRows(p, text))
    BY <1>1, <1>2, <1>7, RowsSearched
  <1> HIDE DEF r
  <1> DEFINE hit(t) == \E f \in ToSet(meta[t]) : /\ f.key \in (Fields \ Unsearched) \cup {URI}
                                                 /\ Matches(f.value, text)
             A == {i \in DOMAIN Rows[p] : Rows[p][i] \in there /\ hit(Rows[p][i])}
  <1>9. \A t \in Tracks : Hits(t, text) <=> hit(t)
    BY <1>1, SearchedFields DEF FieldsInv
  <1>10. HitRows(p, text) = A
    <2> HIDE DEF hit
    <2> QED
      BY <1>9, RowsKnown DEF HitRows
  <1>11. Asked(p) = IF text = Empty THEN <<>> ELSE PartAt(Rows[p], A)
    BY <1>4 DEF Asked
  <1> QED
    BY <1>4, <1>8, <1>10, <1>11

(* A search finds the tracks of its list one of whose tags, or whose file
   name, contains the text, each once and in order, although it compares a
   string once and believes what the cache has noted of it, as long as its
   number was not taken before (plt_search_process2, search_cmpidx).       *)
THEOREM SearchesFind == Spec => SearchFinds
  <1> DEFINE Answered ==
               \A p \in Lists :
                  /\ searches'[p] # searches[p]
                  /\ searches'[p] <= INDICES
                  /\ \A q \in Lists \ {p} : searches[q] < searches'[p]
                  => found'[p] = Asked(p)
  <1>1. ASSUME MetaInv, [Next]_vars PROVE [Answered]_vars
    <2>1. CASE UNCHANGED vars
      BY <2>1
    <2>2. CASE Next
      <3> SUFFICES ASSUME NEW p \in Lists, searches'[p] # searches[p], searches'[p] <= INDICES,
                          \A q \in Lists \ {p} : searches[q] < searches'[p]
                   PROVE  found'[p] = Asked(p)
        OBVIOUS
      <3>1. PICK text \in Texts : Search(p, text)
        BY <1>1, <2>2, OnlySearchCounts DEF MetaInv
      <3> QED
        BY <1>1, <3>1, SearchAnswers
    <2> QED
      BY <1>1, <2>1, <2>2
  <1> QED
    BY <1>1, MetaInvariant, PTL DEF Spec, SearchFinds

=============================================================================
