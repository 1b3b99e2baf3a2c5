------------------------ MODULE PlaylistHistory_proofs ------------------------
(***************************************************************************)
(* Proofs about module Playlist, continued: undo and redo bring back what  *)
(* was there, and no call of plt_insert_item or plt_remove_item is made    *)
(* that does not fit, for a user who waits (Announced) and any number of   *)
(* items, lists, edits, undos and redos.                                   *)
(*                                                                         *)
(* Operations and calls are relations on the value of the lists (Effect    *)
(* and Done, Playlist_proofs), and what a sequence of either makes of a    *)
(* value is a path of values (Path, SequenceLemmas).  The inductive        *)
(* invariant is HistoryState, which says besides State (Playlist_proofs):  *)
(*   Core   the operations recorded last lead from the lists of now back   *)
(*          to those at the last undo_process, and the entries of each     *)
(*          stack lead back from there, one by one;                        *)
(*   Ahead  the program can be done, each call on the lists that the one   *)
(*          before leaves, and if it undoes, it ends with the lists that   *)
(*          were to be brought back;                                       *)
(*   Quiet  when nothing is done nothing is recorded, and the command line *)
(*          goes on behind a track that is in the list it adds to.         *)
(* The record comes first, then the program, the end of an undo and the    *)
(* program of one, then what each action of the user begins, and last the  *)
(* refinement of PlaylistHistory.                                          *)
(***************************************************************************)
EXTENDS Playlist_proofs

-----------------------------------------------------------------------------
(* What recording adds to the way back.                                    *)

LEMMA ValPut ==
  ASSUME NEW e \in Val, NEW p \in Lists, NEW s \in Seq(Items), NEW t \in Seq(Items)
  PROVE  /\ Put(e, p, s) \in Val /\ Put(e, p, s)[p] = s
         /\ \A q \in Lists : q # p => Put(e, p, s)[q] = e[q]
         /\ Put(Put(e, p, s), p, t) = Put(e, p, t)
         /\ Put(e, p, e[p]) = e /\ e[p] \in Seq(Items)
<1>1. Put(e, p, s) \in Val /\ Put(e, p, s)[p] = s /\ e[p] \in Seq(Items)
  BY DEF Val, Put
<1>2. \A q \in Lists : q # p => Put(e, p, s)[q] = e[q]
  BY DEF Val, Put
<1>3. Put(Put(e, p, s), p, t) = Put(e, p, t)
  BY DEF Val, Put
<1>4. Put(e, p, e[p]) = e
  BY DEF Val, Put
<1> QED
  BY <1>1, <1>2, <1>3, <1>4

LEMMA SetsOf ==
  ASSUME NEW u \in Seq(Items), NEW x \in Items, NEW v \in Seq(Items)
  PROVE  /\ ToSet(With(u, x, v)) = ToSet(u) \cup {x} \cup ToSet(v)
         /\ ToSet(Then(u, v)) = ToSet(u) \cup ToSet(v)
         /\ With(u, x, v) \in Seq(Items) /\ Then(u, v) \in Seq(Items)
         /\ ToSet(u) \subseteq Items
<1>1. With(u, x, v) \in Seq(Items) /\ Then(u, v) \in Seq(Items)
  BY Three
<1>2. ToSet(With(u, x, v)) = ToSet(u) \cup {x} \cup ToSet(v)
  BY Three
<1>3. ToSet(Then(u, v)) = ToSet(u) \cup ToSet(v)
  BY Three
<1>4. ToSet(u) \subseteq Items
  BY ElementOfSeq, LenProperties DEF ToSet
<1> QED
  BY <1>1, <1>2, <1>3, <1>4

LEMMA OneMoreDistinct ==
  ASSUME NEW items \in Seq(Items), Distinct(items), NEW x \in Items, x \notin ToSet(items)
  PROVE  /\ Then(items, One(x)) \in Seq(Items) /\ Distinct(Then(items, One(x)))
         /\ ToSet(Then(items, One(x))) = ToSet(items) \cup {x}
<1>1. PICK o \in Seq(Items) : o = One(x) /\ Len(o) = 1 /\ o[1] = x /\ ToSet(o) = {x}
  BY OneKnown
<1> DEFINE w == Then(items, o)
           l == Len(items)
<1>2. w \in Seq(Items) /\ l \in Nat /\ ToSet(w) = ToSet(items) \cup ToSet(o)
  BY Two
<1>3. Len(w) = l + Len(o) /\ \A i \in 1 .. l + Len(o) : w[i] = IF i <= l THEN items[i] ELSE o[i - l]
  BY Two
<1>4. \A i \in 1 .. l : items[i] # x
  BY DEF ToSet
<1>5. \A i, j \in 1 .. l : items[i] = items[j] => i = j
  BY DEF Distinct
<1> HIDE DEF w, l
<1>6. Len(w) = l + 1 /\ \A i \in 1 .. l + 1 : w[i] = IF i <= l THEN items[i] ELSE x
  BY <1>1, <1>2, <1>3
<1>7. \A i \in 1 .. l + 1 : i \in 1 .. l \/ (i = l + 1 /\ w[i] = x)
  BY <1>2, <1>6
<1>8. \A i \in 1 .. l : i \in 1 .. l + 1 /\ w[i] = items[i]
  BY <1>2, <1>6
<1>9. ASSUME NEW i \in 1 .. Len(w), NEW j \in 1 .. Len(w), w[i] = w[j] PROVE i = j
  <2>1. i \in 1 .. l + 1 /\ j \in 1 .. l + 1
    BY <1>6
  <2> QED
    BY <1>4, <1>5, <1>7, <1>8, <1>9, <2>1
<1>10. Distinct(w)
  BY <1>9 DEF Distinct
<1> QED
  BY <1>1, <1>2, <1>10 DEF w

(* x, in list p after u and nowhere else. *)
Has(a, p, u, x, v, X) ==
    /\ a[p] = With(u, x, v) /\ Distinct(a[p]) /\ x \notin X
    /\ \A q \in Lists : q # p => x \notin ToSet(a[q])

LEMMA HasKnown ==
  ASSUME NEW a \in Val, NEW p \in Lists, NEW u \in Seq(Items), NEW x \in Items, NEW v \in Seq(Items),
         NEW X, Has(a, p, u, x, v, X)
  PROVE  /\ Then(u, v) \in Seq(Items) /\ EndOf(u) \in Pointer
         /\ Put(a, p, Then(u, v)) \in Val /\ Put(a, p, Then(u, v))[p] = Then(u, v)
         /\ \A q \in Lists : x \notin ToSet(Put(a, p, Then(u, v))[q])
         /\ \A s \in Seq(Items) : Put(Put(a, p, Then(u, v)), p, s) = Put(a, p, s)
         /\ Distinct(Then(u, v)) /\ Put(a, p, With(u, x, v)) = a
<1>1. Then(u, v) \in Seq(Items) /\ With(u, x, v) \in Seq(Items) /\ ToSet(Then(u, v)) = ToSet(u) \cup ToSet(v)
  BY Three
<1>2. EndOf(u) \in Pointer
  BY EndKnown DEF Pointer
<1>3. x \notin ToSet(u) /\ x \notin ToSet(v) /\ Distinct(Then(u, v))
  <2>1. Distinct(With(u, x, v))
    BY DEF Has
  <2> QED
    BY <2>1, DistinctThree
<1> DEFINE n == Then(u, v)
           b == Put(a, p, n)
<1>4. /\ n \in Seq(Items) /\ x \notin ToSet(n)
  BY <1>1, <1>3
<1> HIDE DEF n
<1>5. /\ b \in Val /\ b[p] = n /\ \A q \in Lists : q # p => b[q] = a[q]
  BY <1>4, ValPut
<1>6. \A s \in Seq(Items) : Put(b, p, s) = Put(a, p, s)
  BY <1>4, ValPut
<1>7. Put(a, p, a[p]) = a
  BY <1>4, ValPut
<1>8. \A q \in Lists : x \notin ToSet(b[q])
  BY <1>4, <1>5 DEF Has
<1>9. Put(a, p, With(u, x, v)) = a
  BY <1>7, Zenon DEF Has
<1> HIDE DEF b
<1>10. /\ n \in Seq(Items) /\ EndOf(u) \in Pointer /\ b \in Val /\ b[p] = n /\ Distinct(n)
       /\ \A q \in Lists : x \notin ToSet(b[q])
       /\ \A s \in Seq(Items) : Put(b, p, s) = Put(a, p, s)
       /\ Put(a, p, With(u, x, v)) = a
  BY <1>2, <1>3, <1>4, <1>5, <1>6, <1>8, <1>9 DEF n
<1> QED
  BY <1>10 DEF n, b

LEMMA OperationMade ==
  ASSUME NEW perform \in {"insert", "remove"}, NEW p \in Lists, NEW items \in Seq(Items), items # <<>>,
         NEW position \in Pointer
  PROVE  /\ Operation(perform, p, items, position) \in OpT
         /\ Operation(perform, p, items, position).perform = perform
         /\ Operation(perform, p, items, position).plt = p
         /\ Operation(perform, p, items, position).items = items
         /\ Operation(perform, p, items, position).position = position
  BY DEF Operation, OpT

LEMMA OneDistinct ==
  ASSUME NEW x \in Items
  PROVE  One(x) \in Seq(Items) /\ One(x) # <<>> /\ Distinct(One(x)) /\ ToSet(One(x)) = {x}
  BY OneItem DEF One

(* Undoing a removal puts x back between u and v. *)
LEMMA RemovalUndone ==
  ASSUME NEW a \in Val, NEW p \in Lists, NEW u \in Seq(Items), NEW x \in Items, NEW v \in Seq(Items),
         NEW X, Has(a, p, u, x, v, X)
  PROVE  /\ Operation("insert", p, One(x), EndOf(u)) \in OpT
         /\ Effect(Operation("insert", p, One(x), EndOf(u)), Put(a, p, Then(u, v)), a, X)
         /\ Put(a, p, Then(u, v)) \in Val
<1> DEFINE o == Operation("insert", p, One(x), EndOf(u))
           b == Put(a, p, Then(u, v))
<1>1. /\ EndOf(u) \in Pointer /\ b \in Val /\ b[p] = Then(u, v)
      /\ \A q \in Lists : x \notin ToSet(b[q])
      /\ \A s \in Seq(Items) : Put(b, p, s) = Put(a, p, s)
      /\ Put(a, p, With(u, x, v)) = a
  BY HasKnown
<1>2. One(x) \in Seq(Items) /\ One(x) # <<>> /\ Distinct(One(x)) /\ ToSet(One(x)) = {x}
  BY OneDistinct
<1>3. /\ o \in OpT /\ o.perform = "insert" /\ o.plt = p /\ o.items = One(x) /\ o.position = EndOf(u)
  BY <1>1, <1>2, OperationMade
<1>4. x \notin X
  BY DEF Has
<1>5. With(u, x, v) \in Seq(Items) /\ With(u, x, v) = Then(Then(u, One(x)), v)
  BY Three, WithThen
<1> HIDE DEF o, b
<1>6. a = Put(b, p, Then(Then(u, One(x)), v))
  BY <1>1, <1>5
<1>7. Inserts(o, b, a, X)
  BY <1>1, <1>2, <1>3, <1>4, <1>6 DEF Inserts
<1>8. Effect(o, b, a, X)
  BY <1>3, <1>7 DEF Effect
<1> QED
  BY <1>1, <1>3, <1>8 DEF o, b

(* n is operation h with more items. *)
Lengthens(h, n, items) ==
    n.perform = h.perform /\ n.plt = h.plt /\ n.position = h.position /\ n.items = Then(h.items, items)

(* If x followed what was removed before, they go back together. *)
LEMMA RemovalBatched ==
  ASSUME NEW a \in Val, NEW p \in Lists, NEW u \in Seq(Items), NEW x \in Items, NEW v \in Seq(Items),
         NEW X, Has(a, p, u, x, v, X),
         NEW h \in OpT, NEW n \in OpT, Lengthens(h, n, One(x)),
         h.perform = "insert", h.plt = p, h.position = EndOf(u),
         NEW c \in Val, Effect(h, a, c, X)
  PROVE  Effect(n, Put(a, p, Then(u, v)), c, X)
<1> DEFINE b == Put(a, p, Then(u, v))
<1>1. /\ EndOf(u) \in Pointer /\ b \in Val /\ b[p] = Then(u, v)
      /\ \A q \in Lists : x \notin ToSet(b[q])
      /\ \A s \in Seq(Items) : Put(b, p, s) = Put(a, p, s)
  BY HasKnown
<1>2. \A q \in Lists : q # p => b[q] = a[q]
  <2>1. Then(u, v) \in Seq(Items)
    BY Three
  <2> QED
    BY <2>1, ValPut
<1>3. PICK items \in Seq(Items) : items = h.items
  BY DEF OpT
<1>4. Inserts(h, a, c, X)
  BY DEF Effect
<1>5. /\ Distinct(items)
      /\ \A y \in ToSet(items) : y \notin X /\ \A q \in Lists : y \notin ToSet(a[q])
  BY <1>3, <1>4 DEF Inserts
<1>6. PICK u2, v2 \in Seq(Items) : /\ a[p] = Then(u2, v2) /\ EndOf(u2) = EndOf(u)
                                   /\ c = Put(a, p, Then(Then(u2, items), v2))
  BY <1>3, <1>4 DEF Inserts
<1>7. /\ One(x) \in Seq(Items) /\ Distinct(One(x)) /\ ToSet(One(x)) = {x}
  BY OneDistinct
<1>8. /\ With(u, x, v) = Then(u, Then(One(x), v)) /\ Then(One(x), v) \in Seq(Items)
  <2>1. With(u, x, v) = Then(Then(u, One(x)), v)
    BY WithThen
  <2>2. Then(Then(u, One(x)), v) = Then(u, Then(One(x), v))
    BY <1>7, ThenThen
  <2>3. Then(One(x), v) \in Seq(Items)
    BY <1>7, Two
  <2> QED
    BY <2>1, <2>2, <2>3
<1>9. u2 = u /\ v2 = Then(One(x), v)
  <2> DEFINE w == Then(One(x), v)
  <2>1. w \in Seq(Items) /\ a[p] = Then(u, w) /\ Distinct(a[p])
    BY <1>8 DEF Has
  <2> HIDE DEF w
  <2>2. Distinct(Then(u2, v2)) /\ Then(u2, v2) = Then(u, w)
    BY <1>6, <2>1
  <2>3. u2 = u /\ v2 = w
    BY <1>6, <2>1, <2>2, EndsOnce
  <2> QED
    BY <2>3 DEF w
<1>11. x \notin ToSet(items)
  <2>1. x \in ToSet(a[p])
    <3>1. ToSet(With(u, x, v)) = ToSet(u) \cup {x} \cup ToSet(v) /\ a[p] = With(u, x, v)
      BY Three DEF Has
    <3> QED
      BY <3>1
  <2> QED
    BY <1>5, <2>1
<1>12. /\ Distinct(Then(items, One(x))) /\ Then(items, One(x)) \in Seq(Items)
       /\ ToSet(Then(items, One(x))) = ToSet(items) \cup {x}
  BY <1>5, <1>11, OneMoreDistinct
<1>13. Then(Then(u2, items), v2) = Then(Then(u, Then(items, One(x))), v)
  <2>0. PICK o \in Seq(Items) : o = One(x)
    BY <1>7
  <2>1. Then(Then(u, items), Then(o, v)) = Then(Then(Then(u, items), o), v)
    <3>1. Then(u, items) \in Seq(Items)
      BY Two
    <3> QED
      BY <3>1, ThenThen
  <2>2. Then(Then(u, items), o) = Then(u, Then(items, o))
    BY ThenThen
  <2> QED
    BY <1>9, <2>0, <2>1, <2>2
<1>14. n.items = Then(items, One(x)) /\ n.plt = p /\ n.position = EndOf(u) /\ n.perform = "insert"
  BY <1>3 DEF Lengthens
<1>15. c = Put(b, p, Then(Then(u, Then(items, One(x))), v))
  <2>1. Then(Then(u, Then(items, One(x))), v) \in Seq(Items)
    <3>1. Then(u, Then(items, One(x))) \in Seq(Items)
      BY <1>12, Two
    <3> QED
      BY <3>1, Two
  <2> QED
    BY <1>1, <1>6, <1>13, <2>1
<1>16. \A y \in ToSet(Then(items, One(x))) : y \notin X /\ \A q \in Lists : y \notin ToSet(b[q])
  <2>1. \A y \in ToSet(items) : y \notin ToSet(b[p])
    <3>1. ToSet(b[p]) = ToSet(u) \cup ToSet(v) /\ ToSet(a[p]) = ToSet(u) \cup {x} \cup ToSet(v)
      <4>1. ToSet(Then(u, v)) = ToSet(u) \cup ToSet(v) /\ ToSet(With(u, x, v)) = ToSet(u) \cup {x} \cup ToSet(v)
        BY SetsOf
      <4> QED
        BY <1>1, <4>1 DEF Has
    <3> QED
      BY <1>5, <3>1
  <2>2. x \notin X
    BY DEF Has
  <2> QED
    BY <1>1, <1>2, <1>5, <1>12, <2>1, <2>2
<1> HIDE DEF b
<1>17. Inserts(n, b, c, X)
  BY <1>1, <1>12, <1>14, <1>15, <1>16 DEF Inserts
<1>18. Effect(n, b, c, X)
  BY <1>14, <1>17 DEF Effect
<1> QED
  BY <1>18 DEF b

(* x, in no list, to go after u in list p. *)
Lacks(a, p, u, x, v) ==
    /\ a[p] = Then(u, v) /\ Distinct(With(u, x, v))
    /\ x \notin ToSet(u) \cup ToSet(v)

LEMMA LacksKnown ==
  ASSUME NEW a \in Val, NEW p \in Lists, NEW u \in Seq(Items), NEW x \in Items, NEW v \in Seq(Items),
         Lacks(a, p, u, x, v)
  PROVE  /\ Put(a, p, With(u, x, v)) \in Val /\ Put(a, p, With(u, x, v))[p] = With(u, x, v)
         /\ \A s \in Seq(Items) : Put(Put(a, p, With(u, x, v)), p, s) = Put(a, p, s)
         /\ Put(a, p, Then(u, v)) = a /\ With(u, x, v) \in Seq(Items) /\ Then(u, v) \in Seq(Items)
         /\ ToSet(With(u, x, v)) = ToSet(a[p]) \cup {x}
<1> DEFINE w == With(u, x, v)
           b == Put(a, p, w)
<1>1. /\ w \in Seq(Items) /\ Then(u, v) \in Seq(Items) /\ ToSet(w) = ToSet(u) \cup {x} \cup ToSet(v)
      /\ ToSet(Then(u, v)) = ToSet(u) \cup ToSet(v)
  BY SetsOf
<1> HIDE DEF w
<1>2. b \in Val /\ b[p] = w /\ \A s \in Seq(Items) : Put(b, p, s) = Put(a, p, s)
  BY <1>1, ValPut
<1>3. Put(a, p, a[p]) = a
  BY <1>1, ValPut
<1>4. Put(a, p, Then(u, v)) = a
  BY <1>3, Zenon DEF Lacks
<1>5. ToSet(w) = ToSet(a[p]) \cup {x}
  BY <1>1 DEF Lacks
<1> HIDE DEF b
<1>6. /\ b \in Val /\ b[p] = w /\ \A s \in Seq(Items) : Put(b, p, s) = Put(a, p, s)
      /\ Put(a, p, Then(u, v)) = a /\ w \in Seq(Items) /\ Then(u, v) \in Seq(Items)
      /\ ToSet(w) = ToSet(a[p]) \cup {x}
  BY <1>1, <1>2, <1>4, <1>5
<1> QED
  BY <1>6 DEF b, w

(* Undoing an insertion takes x out again. *)
LEMMA InsertionUndone ==
  ASSUME NEW a \in Val, NEW p \in Lists, NEW u \in Seq(Items), NEW x \in Items, NEW v \in Seq(Items),
         NEW X, Lacks(a, p, u, x, v)
  PROVE  /\ Operation("remove", p, One(x), NULL) \in OpT
         /\ Effect(Operation("remove", p, One(x), NULL), Put(a, p, With(u, x, v)), a, X)
<1> DEFINE o == Operation("remove", p, One(x), NULL)
           b == Put(a, p, With(u, x, v))
<1>1. /\ b \in Val /\ b[p] = With(u, x, v) /\ ToSet(With(u, x, v)) = ToSet(a[p]) \cup {x}
      /\ \A s \in Seq(Items) : Put(b, p, s) = Put(a, p, s)
      /\ Put(a, p, Then(u, v)) = a /\ With(u, x, v) \in Seq(Items) /\ Then(u, v) \in Seq(Items)
  BY LacksKnown
<1>2. One(x) \in Seq(Items) /\ One(x) # <<>> /\ Distinct(One(x)) /\ ToSet(One(x)) = {x}
  BY OneDistinct
<1>3. /\ o \in OpT /\ o.perform = "remove" /\ o.plt = p /\ o.items = One(x)
  <2>1. NULL \in Pointer
    BY DEF Pointer
  <2> QED
    BY <1>2, <2>1, OperationMade
<1>4. Spared(With(u, x, v), {x}) = Then(u, v)
  <2>1. PICK T \in SUBSET Items : T = {}
    OBVIOUS
  <2>2. Spared(With(u, x, v), T \cup {x}) = Spared(Then(u, v), T)
    BY SparedNewcomer DEF Lacks
  <2>3. Spared(Then(u, v), T) = Then(u, v)
    BY <1>1, <2>1, SparedAll
  <2>4. T \cup {x} = {x}
    BY <2>1
  <2> QED
    BY <2>2, <2>3, <2>4
<1>5. Distinct(With(u, x, v))
  BY DEF Lacks
<1> HIDE DEF o, b
<1>6. a = Put(b, p, Spared(b[p], ToSet(o.items)))
  BY <1>1, <1>2, <1>3, <1>4
<1>7. Distinct(b[p]) /\ ToSet(o.items) \subseteq ToSet(b[p])
  BY <1>1, <1>2, <1>3, <1>5
<1>8. Removes(o, b, a)
  BY <1>2, <1>3, <1>6, <1>7 DEF Removes
<1>9. Effect(o, b, a, X)
  BY <1>3, <1>8 DEF Effect
<1> QED
  BY <1>3, <1>9 DEF o, b

(* Together with what was inserted before. *)
LEMMA InsertionBatched ==
  ASSUME NEW a \in Val, NEW p \in Lists, NEW u \in Seq(Items), NEW x \in Items, NEW v \in Seq(Items),
         NEW X, Lacks(a, p, u, x, v),
         NEW h \in OpT, NEW n \in OpT, Lengthens(h, n, One(x)), h.perform = "remove", h.plt = p,
         NEW c \in Val, Effect(h, a, c, X)
  PROVE  Effect(n, Put(a, p, With(u, x, v)), c, X)
<1> DEFINE b == Put(a, p, With(u, x, v))
<1>1. /\ b \in Val /\ b[p] = With(u, x, v) /\ ToSet(With(u, x, v)) = ToSet(a[p]) \cup {x}
      /\ \A s \in Seq(Items) : Put(b, p, s) = Put(a, p, s)
      /\ With(u, x, v) \in Seq(Items) /\ Then(u, v) \in Seq(Items)
  BY LacksKnown
<1>2. PICK items \in Seq(Items) : items = h.items
  BY DEF OpT
<1>3. Removes(h, a, c)
  BY DEF Effect
<1>4. PICK T \in SUBSET Items : T = ToSet(items)
  BY SetsOf
<1>5. /\ Distinct(items) /\ T \subseteq ToSet(a[p]) /\ c = Put(a, p, Spared(a[p], T))
  BY <1>2, <1>3, <1>4 DEF Removes
<1>6. a[p] = Then(u, v) /\ x \notin ToSet(a[p]) /\ x \notin ToSet(u) \cup ToSet(v) /\ Distinct(With(u, x, v))
  <2>1. ToSet(Then(u, v)) = ToSet(u) \cup ToSet(v)
    BY Three
  <2> QED
    BY <2>1 DEF Lacks
<1>7. Spared(With(u, x, v), T \cup {x}) = Spared(Then(u, v), T)
  BY <1>6, SparedNewcomer
<1>8. x \notin ToSet(items)
  BY <1>4, <1>5, <1>6
<1>9. One(x) \in Seq(Items) /\ ToSet(One(x)) = {x}
  BY OneDistinct
<1>10. /\ Distinct(Then(items, One(x))) /\ Then(items, One(x)) \in Seq(Items)
       /\ ToSet(Then(items, One(x))) = ToSet(items) \cup {x}
  BY <1>5, <1>8, OneMoreDistinct
<1>11. ToSet(Then(items, One(x))) = T \cup {x}
  BY <1>4, <1>10
<1>12. n.items = Then(items, One(x)) /\ n.plt = p /\ n.perform = "remove"
  BY <1>2 DEF Lengthens
<1> HIDE DEF b
<1>13. c = Put(b, p, Spared(b[p], T \cup {x}))
  <2>1. Spared(Then(u, v), T) \in Seq(Items)
    BY <1>1, SparedKnown
  <2>2. Put(b, p, Spared(Then(u, v), T)) = Put(a, p, Spared(Then(u, v), T))
    BY <1>1, <2>1
  <2>3. Spared(b[p], T \cup {x}) = Spared(Then(u, v), T)
    BY <1>1, <1>7
  <2> QED
    BY <1>5, <1>6, <2>2, <2>3
<1>14. Distinct(b[p]) /\ T \cup {x} \subseteq ToSet(b[p])
  BY <1>1, <1>5, <1>6
<1>15. ToSet(n.items) = T \cup {x} /\ Distinct(n.items)
  BY <1>10, <1>11, <1>12
<1>16. c = Put(b, n.plt, Spared(b[n.plt], ToSet(n.items))) /\ Distinct(b[n.plt])
       /\ ToSet(n.items) \subseteq ToSet(b[n.plt])
  BY <1>12, <1>13, <1>14, <1>15
<1>17. Removes(n, b, c)
  BY <1>15, <1>16 DEF Removes
<1>18. Effect(n, b, c, X)
  BY <1>12, <1>17 DEF Effect
<1> QED
  BY <1>18 DEF b

LEMMA SameSeq ==
  ASSUME NEW S, NEW T, S \subseteq T, NEW s \in Seq(S)
  PROVE  s \in Seq(T)
  OBVIOUS

LEMMA TrailFirst ==
  ASSUME NEW h \in OpT, NEW t \in Seq(OpT), NEW X, NEW a, NEW b,
         Path(Ops(X), Val, Then(One(h), t), a, b)
  PROVE  \E c \in Val : Effect(h, a, c, X) /\ Path(Ops(X), Val, t, c, b)
<1>1. One(h) \in Seq(OpT)
  BY OneKnown
<1>2. PICK o \in Seq(OpT) : o = One(h)
  BY <1>1
<1>3. Path(Ops(X), Val, Then(o, t), a, b)
  BY <1>2
<1>4. a \in Val
  <2>1. Then(o, t) \in Seq(OpT)
    BY Two
  <2> QED
    BY <1>3, <2>1, PathEnds
<1>5. PICK c \in Val : Path(Ops(X), Val, o, a, c) /\ Path(Ops(X), Val, t, c, b)
  BY <1>3, PathSplit
<1>6. c \in Ops(X)[h][a]
  BY <1>2, <1>4, <1>5, PathOne
<1>7. Effect(h, a, c, X)
  BY <1>4, <1>6, OpsKnown
<1> QED
  BY <1>5, <1>7

LEMMA TrailMore ==
  ASSUME NEW h \in OpT, NEW t \in Seq(OpT), NEW X, NEW a \in Val, NEW c \in Val, NEW b,
         Effect(h, a, c, X), Path(Ops(X), Val, t, c, b)
  PROVE  Path(Ops(X), Val, Then(One(h), t), a, b)
<1>1. PICK o \in Seq(OpT) : o = One(h)
  BY OneKnown
<1>2. c \in Ops(X)[h][a]
  BY OpsKnown
<1>3. Path(Ops(X), Val, o, a, c)
  BY <1>1, <1>2, PathOne
<1>4. Path(Ops(X), Val, Then(o, t), a, b)
  BY <1>3, PathBoth
<1> QED
  BY <1>1, <1>4

(* Operations that put items back into list src and take them out of dst:  *)
(* what batching does not look at.                                         *)
OpsAt(src, dst) == {op \in OpT : op.plt = IF op.perform = "insert" THEN src ELSE dst}

LEMMA OpsAtAll ==
  ASSUME NEW src, NEW dst, NEW ops \in Seq(OpsAt(src, dst))
  PROVE  ops \in Seq(OpT)
<1>1. OpsAt(src, dst) \subseteq OpT
  BY DEF OpsAt
<1> QED
  BY <1>1, SameSeq

LEMMA OpsAtMore ==
  ASSUME NEW src, NEW dst, NEW h \in OpsAt(src, dst), NEW t \in Seq(OpsAt(src, dst))
  PROVE  Then(One(h), t) \in Seq(OpsAt(src, dst)) /\ Then(One(h), t) # <<>>
<1> DEFINE A == OpsAt(src, dst)
<1>1. h \in A /\ t \in Seq(A)
  OBVIOUS
<1> HIDE DEF A
<1>2. PICK o \in Seq(A) : o = One(h) /\ Len(o) = 1
  BY <1>1, OneKnown
<1>3. Then(o, t) \in Seq(A) /\ Len(Then(o, t)) = Len(o) + Len(t) /\ Len(t) \in Nat
  BY <1>1, Two
<1>4. Then(o, t) # <<>>
  BY <1>2, <1>3, EmptySeq
<1> QED
  BY <1>2, <1>3, <1>4 DEF A

LEMMA NewestOf ==
  ASSUME NEW src, NEW dst, operations \in Seq(OpsAt(src, dst)), operations # <<>>,
         NEW items \in Seq(Items)
  PROVE  \E h, n \in OpsAt(src, dst), t \in Seq(OpsAt(src, dst)) :
            /\ h = Head(operations) /\ operations = Then(One(h), t)
            /\ Lengthens(h, n, items) /\ Extended(items) = Then(One(n), t)
<1>1. operations \in Seq(OpT)
  BY OpsAtAll
<1>2. PICK h, n \in OpT, t \in Seq(OpT) :
         /\ h = Head(operations) /\ operations = Then(One(h), t) /\ t = Tail(operations)
         /\ n.items = Then(h.items, items) /\ n.position = h.position
         /\ n.perform = h.perform /\ n.plt = h.plt
         /\ Extended(items) = Then(One(n), t)
  <2> DEFINE o == operations[1]
             m == [o EXCEPT !.items = @ \o items]
             r == Tail(operations)
  <2>1. /\ Head(operations) = o /\ o \in OpT /\ r \in Seq(OpT)
        /\ operations = <<o>> \o r
        /\ m \in OpT /\ m.items = o.items \o items /\ m.position = o.position
        /\ m.perform = o.perform /\ m.plt = o.plt
        /\ Extended(items) = <<m>> \o r
    BY <1>1, ExtendedFirst
  <2> HIDE DEF o, m, r
  <2>2. o \in OpT /\ m \in OpT /\ r \in Seq(OpT)
    BY <2>1
  <2>3. operations = Then(One(o), r) /\ Extended(items) = Then(One(m), r) /\ m.items = Then(o.items, items)
    BY <2>1, Zenon DEF Then, One
  <2> QED
    BY <2>1, <2>2, <2>3 DEF r
<1>3. h \in OpsAt(src, dst) /\ t \in Seq(OpsAt(src, dst))
  BY <1>2, FirstThenRest
<1>4. n \in OpsAt(src, dst)
  BY <1>2, <1>3 DEF OpsAt
<1>5. Lengthens(h, n, items)
  BY <1>2 DEF Lengthens
<1> QED
  BY <1>2, <1>3, <1>4, <1>5

(* What undo_remove_items records leads back from the lists without x. *)
LEMMA RemovalTrail ==
  ASSUME NEW p \in Lists, NEW dst \in Lists, operations \in Seq(OpsAt(p, dst)),
         NEW a \in Val, NEW u \in Seq(Items), NEW x \in Items, NEW v \in Seq(Items), NEW X,
         Has(a, p, u, x, v, X), prev[x] = EndOf(u),
         NEW b, Path(Ops(X), Val, operations, a, b)
  PROVE  /\ RemovalRecorded(p, <<x>>) \in Seq(OpsAt(p, dst)) /\ RemovalRecorded(p, <<x>>) # <<>>
         /\ Path(Ops(X), Val, RemovalRecorded(p, <<x>>), Put(a, p, Then(u, v)), b)
<1>0. operations \in Seq(OpT)
  BY OpsAtAll
<1>1. PICK s \in Seq(Items) : s = <<x>> /\ s = One(x) /\ s[1] = x
  BY OneKnown DEF One
<1>2. CASE BatchesRemoval(s)
  <2>1. operations # <<>> /\ Head(operations).perform = "insert" /\ Head(operations).position = EndOf(u)
    BY <1>1, <1>2 DEF BatchesRemoval, Batches
  <2>2. PICK h, n \in OpsAt(p, dst), t \in Seq(OpsAt(p, dst)) :
            /\ h = Head(operations) /\ operations = Then(One(h), t)
            /\ Lengthens(h, n, s) /\ Extended(s) = Then(One(n), t)
    BY <2>1, NewestOf
  <2>3. /\ h \in OpT /\ n \in OpT /\ t \in Seq(OpT) /\ h.plt = p /\ h.perform = "insert"
        /\ h.position = EndOf(u)
    BY <2>1, <2>2, OpsAtAll DEF OpsAt
  <2>4. Path(Ops(X), Val, Then(One(h), t), a, b)
    BY <2>2
  <2>5. PICK c \in Val : Effect(h, a, c, X) /\ Path(Ops(X), Val, t, c, b)
    BY <2>3, <2>4, TrailFirst
  <2>6. Lengthens(h, n, One(x))
    BY <1>1, <2>2
  <2>7. Effect(n, Put(a, p, Then(u, v)), c, X)
    BY <2>3, <2>5, <2>6, RemovalBatched
  <2>8. Put(a, p, Then(u, v)) \in Val
    BY HasKnown
  <2>9. Path(Ops(X), Val, Then(One(n), t), Put(a, p, Then(u, v)), b)
    BY <2>3, <2>5, <2>7, <2>8, TrailMore
  <2>10. RemovalRecorded(p, s) = Then(One(n), t)
    BY <1>2, <2>2 DEF RemovalRecorded
  <2>11. Then(One(n), t) \in Seq(OpsAt(p, dst)) /\ Then(One(n), t) # <<>>
    BY <2>2, OpsAtMore
  <2> QED
    BY <1>1, <2>9, <2>10, <2>11
<1>3. CASE ~BatchesRemoval(s)
  <2> DEFINE o == Operation("insert", p, One(x), EndOf(u))
             w == Then(u, v)
  <2>1. o \in OpT /\ Effect(o, Put(a, p, w), a, X) /\ Put(a, p, w) \in Val
    BY RemovalUndone
  <2>2. o \in OpsAt(p, dst)
    BY <2>1 DEF OpsAt, Operation
  <2>3. RemovalRecorded(p, s) = Then(One(o), operations)
    <3>1. RemovalRecorded(p, s) = <<Operation("insert", p, s, prev[s[1]])>> \o operations
      BY <1>3 DEF RemovalRecorded
    <3>2. prev[s[1]] = EndOf(u)
      BY <1>1
    <3> QED
      BY <1>1, <3>1, <3>2 DEF Then, One
  <2> HIDE DEF o, w
  <2>4. Path(Ops(X), Val, Then(One(o), operations), Put(a, p, w), b)
    BY <1>0, <2>1, TrailMore
  <2>5. Then(One(o), operations) \in Seq(OpsAt(p, dst)) /\ Then(One(o), operations) # <<>>
    BY <2>2, OpsAtMore
  <2> QED
    BY <1>1, <2>3, <2>4, <2>5 DEF w
<1> QED
  BY <1>2, <1>3

(* What undo_insert_items records leads back from the lists with x. *)
LEMMA InsertionTrail ==
  ASSUME NEW p \in Lists, NEW src \in Lists, operations \in Seq(OpsAt(src, p)),
         NEW a \in Val, NEW u \in Seq(Items), NEW x \in Items, NEW v \in Seq(Items), NEW X,
         Lacks(a, p, u, x, v),
         NEW b, Path(Ops(X), Val, operations, a, b)
  PROVE  /\ InsertionRecorded(p, <<x>>) \in Seq(OpsAt(src, p)) /\ InsertionRecorded(p, <<x>>) # <<>>
         /\ Path(Ops(X), Val, InsertionRecorded(p, <<x>>), Put(a, p, With(u, x, v)), b)
<1>0. operations \in Seq(OpT)
  BY OpsAtAll
<1>1. PICK s \in Seq(Items) : s = <<x>> /\ s = One(x) /\ s[1] = x
  BY OneKnown DEF One
<1>4. Put(a, p, With(u, x, v)) \in Val
  BY LacksKnown
<1>2. CASE Batches("remove")
  <2>1. operations # <<>> /\ Head(operations).perform = "remove"
    BY <1>2 DEF Batches
  <2>2. PICK h, n \in OpsAt(src, p), t \in Seq(OpsAt(src, p)) :
            /\ h = Head(operations) /\ operations = Then(One(h), t)
            /\ Lengthens(h, n, s) /\ Extended(s) = Then(One(n), t)
    BY <2>1, NewestOf
  <2>3. /\ h \in OpT /\ n \in OpT /\ t \in Seq(OpT) /\ h.plt = p /\ h.perform = "remove"
    BY <2>1, <2>2, OpsAtAll DEF OpsAt
  <2>4. Path(Ops(X), Val, Then(One(h), t), a, b)
    BY <2>2
  <2>5. PICK c \in Val : Effect(h, a, c, X) /\ Path(Ops(X), Val, t, c, b)
    BY <2>3, <2>4, TrailFirst
  <2>6. Lengthens(h, n, One(x))
    BY <1>1, <2>2
  <2>7. Effect(n, Put(a, p, With(u, x, v)), c, X)
    BY <2>3, <2>5, <2>6, InsertionBatched
  <2>9. Path(Ops(X), Val, Then(One(n), t), Put(a, p, With(u, x, v)), b)
    BY <1>4, <2>3, <2>5, <2>7, TrailMore
  <2>10. InsertionRecorded(p, s) = Then(One(n), t)
    BY <1>2, <2>2 DEF InsertionRecorded
  <2>11. Then(One(n), t) \in Seq(OpsAt(src, p)) /\ Then(One(n), t) # <<>>
    BY <2>2, OpsAtMore
  <2> QED
    BY <1>1, <2>9, <2>10, <2>11
<1>3. CASE ~Batches("remove")
  <2> DEFINE o == Operation("remove", p, One(x), NULL)
             w == With(u, x, v)
  <2>1. o \in OpT /\ Effect(o, Put(a, p, w), a, X)
    BY InsertionUndone
  <2>2. o \in OpsAt(src, p)
    BY <2>1 DEF OpsAt, Operation
  <2>3. InsertionRecorded(p, s) = Then(One(o), operations)
    <3>1. InsertionRecorded(p, s) = <<Operation("remove", p, s, NULL)>> \o operations
      BY <1>3 DEF InsertionRecorded
    <3> QED
      BY <1>1, <3>1 DEF Then, One
  <2> HIDE DEF o, w
  <2>4. Path(Ops(X), Val, Then(One(o), operations), Put(a, p, w), b)
    BY <1>0, <1>4, <2>1, TrailMore DEF w
  <2>5. Then(One(o), operations) \in Seq(OpsAt(src, p)) /\ Then(One(o), operations) # <<>>
    BY <2>2, OpsAtMore
  <2> QED
    BY <1>1, <2>3, <2>4, <2>5 DEF w
<1> QED
  BY <1>2, <1>3

-----------------------------------------------------------------------------
(* The lists of the state as values.                                       *)

Shown(lists) == [p \in Lists |-> lists[p]]

(* With what a list that is being cleared has not forgotten yet. *)
Whole(lists, gone, src) ==
    [p \in Lists |-> IF p = src THEN Then(gone, lists[p]) ELSE lists[p]]

LEMMA ShownKnown ==
  ASSUME NEW lists \in AllVal
  PROVE  /\ Shown(lists) \in Val /\ \A p \in Lists : Shown(lists)[p] = lists[p]
         /\ lists[Incoming] \in Seq(Items) /\ Incoming \in AllLists
         /\ Ext(Shown(lists), lists[Incoming]) = lists
         /\ \A src : Whole(lists, <<>>, src) = Shown(lists)
<1>1. Shown(lists) \in Val /\ \A p \in Lists : Shown(lists)[p] = lists[p]
  BY DEF Shown, Val, AllVal, AllLists
<1>2. lists[Incoming] \in Seq(Items) /\ Incoming \in AllLists
  BY DEF AllVal, AllLists
<1>3. Ext(Shown(lists), lists[Incoming]) = lists
  <2>1. \A p \in AllLists : Ext(Shown(lists), lists[Incoming])[p] = lists[p]
    BY <1>1 DEF Ext, AllLists
  <2>2. /\ lists = [p \in AllLists |-> lists[p]]
        /\ Ext(Shown(lists), lists[Incoming]) = [p \in AllLists |-> Ext(Shown(lists), lists[Incoming])[p]]
    BY DEF AllVal, Ext
  <2> QED
    BY <2>1, <2>2
<1>4. ASSUME NEW src PROVE Whole(lists, <<>>, src) = Shown(lists)
  <2>1. \A p \in Lists : Then(<<>>, lists[p]) = lists[p]
    BY EmptyThen DEF AllVal, AllLists
  <2> QED
    BY <2>1 DEF Whole, Shown
<1> QED
  BY <1>1, <1>2, <1>3, <1>4

LEMMA WholeKnown ==
  ASSUME NEW lists \in AllVal, NEW gone \in Seq(Items), NEW src \in Lists
  PROVE  /\ Whole(lists, gone, src) \in Val /\ Whole(lists, gone, src)[src] = Then(gone, lists[src])
         /\ \A q \in Lists : q # src => Whole(lists, gone, src)[q] = lists[q]
<1>1. \A p \in Lists : Then(gone, lists[p]) \in Seq(Items) /\ lists[p] \in Seq(Items)
  BY Two DEF AllVal, AllLists
<1> QED
  BY <1>1 DEF Whole, Val

LEMMA ShownPut ==
  ASSUME NEW lists \in AllVal, NEW s \in Seq(Items)
  PROVE  /\ \A p \in Lists : /\ Shown(Put(lists, p, s)) = Put(Shown(lists), p, s)
                             /\ Put(lists, p, s)[Incoming] = lists[Incoming]
         /\ Shown(Put(lists, Incoming, s)) = Shown(lists)
         /\ Put(lists, Incoming, s)[Incoming] = s
<1>1. Incoming \notin Lists
  BY PlaylistAssumption
<1>2. ASSUME NEW p \in Lists
      PROVE  /\ Shown(Put(lists, p, s)) = Put(Shown(lists), p, s)
             /\ Put(lists, p, s)[Incoming] = lists[Incoming]
  <2>1. p \in AllLists /\ p # Incoming
    BY <1>1 DEF AllLists
  <2>2. \A q \in Lists : Put(lists, p, s)[q] = IF q = p THEN s ELSE lists[q]
    BY DEF Put, AllVal, AllLists
  <2>3. Shown(Put(lists, p, s)) = [q \in Lists |-> IF q = p THEN s ELSE lists[q]]
    BY <2>2 DEF Shown
  <2>4. Put(Shown(lists), p, s) = [q \in Lists |-> IF q = p THEN s ELSE lists[q]]
    BY DEF Put, Shown
  <2>5. Put(lists, p, s)[Incoming] = lists[Incoming]
    BY <2>1 DEF Put, AllVal, AllLists
  <2> QED
    BY <2>3, <2>4, <2>5
<1>3. \A q \in Lists : Put(lists, Incoming, s)[q] = lists[q]
  BY <1>1 DEF Put, AllVal, AllLists
<1>4. Put(lists, Incoming, s)[Incoming] = s
  BY DEF Put, AllVal, AllLists
<1>5. Shown(Put(lists, Incoming, s)) = Shown(lists)
  BY <1>3 DEF Shown
<1> QED
  BY <1>2, <1>4, <1>5

LEMMA StateLists ==
  ASSUME NEW lists, NEW gone, State(lists, gone)
  PROVE  /\ lists \in AllVal /\ gone \in Seq(Items) /\ Distinct(gone)
         /\ \A p \in AllLists : /\ Distinct(lists[p]) /\ lists[p] \in Seq(Items)
                                /\ ChainedBack(prev, lists[p], tail[p])
                                /\ Chained(next, lists[p], head[p])
                                /\ ToSet(lists[p]) \cap ToSet(gone) = {}
         /\ \A p, q \in AllLists : p # q => ToSet(lists[p]) \cap ToSet(lists[q]) = {}
  BY DEF State, LinkedAs, Forgetting, AllVal

LEMMA PrevEnd ==
  ASSUME NEW u \in Seq(Items), NEW x \in Items, NEW v \in Seq(Items), NEW pv, NEW l,
         ChainedBack(pv, With(u, x, v), l)
  PROVE  pv[x] = EndOf(u)
<1>1. PartsOf(With(u, x, v), u, x, v)
  BY PartsKnown
<1> DEFINE w == With(u, x, v)
           n == Len(u)
           m == Len(v)
<1>2. /\ n \in Nat /\ m \in Nat /\ Len(w) = n + 1 + m
      /\ \A i \in 1 .. n + 1 + m : w[i] = IF i <= n THEN u[i] ELSE IF i = n + 1 THEN x ELSE v[i - (n + 1)]
  BY <1>1 DEF PartsOf
<1>3. \A i \in 1 .. Len(w) : pv[w[i]] = IF i = 1 THEN NULL ELSE w[i - 1]
  BY DEF ChainedBack
<1>4. Len(u) = 0 <=> u = <<>>
  BY EndKnown
<1> HIDE DEF w, n, m
<1>5. n + 1 \in 1 .. Len(w) /\ w[n + 1] = x
  BY <1>2
<1>6. pv[x] = IF n + 1 = 1 THEN NULL ELSE w[(n + 1) - 1]
  BY <1>3, <1>5
<1>7. n # 0 => (n + 1) - 1 = n /\ n \in 1 .. n + 1 + m /\ w[n] = u[n]
  BY <1>2
<1>8. pv[x] = IF n = 0 THEN NULL ELSE u[n]
  BY <1>2, <1>6, <1>7
<1> QED
  BY <1>4, <1>8 DEF EndOf, n

-----------------------------------------------------------------------------
(* The stacks lead back, entry by entry.                                   *)

(* The operations of each entry lead from the lists kept with the entry    *)
(* after it, or from start, to the lists kept with it.                     *)
Steps(s, start, X) ==
    \A m \in 1 .. Len(s) :
        Path(Ops(X), Val, s[m].operations, IF m = Len(s) THEN start ELSE s[m + 1].before, s[m].before)

LEMMA StepsNone ==
  ASSUME NEW start, NEW X
  PROVE  Steps(<<>>, start, X)
  BY DEF Steps

LEMMA StepsLess ==
  ASSUME NEW s \in Seq(BearT), NEW start, NEW X, NEW Y, Y \subseteq X, Steps(s, start, X)
  PROVE  Steps(s, start, Y)
<1>1. ASSUME NEW m \in 1 .. Len(s)
      PROVE  Path(Ops(Y), Val, s[m].operations, IF m = Len(s) THEN start ELSE s[m + 1].before, s[m].before)
  <2> DEFINE a == IF m = Len(s) THEN start ELSE s[m + 1].before
             b == s[m].before
  <2>1. PICK ops \in Seq(OpT) : ops = s[m].operations
    <3>1. s[m] \in BearT
      BY ElementOfSeq
    <3> QED
      BY <3>1, OpsOfKnown
  <2>2. Path(Ops(X), Val, ops, a, b)
    BY <2>1 DEF Steps
  <2> HIDE DEF a, b
  <2>3. Path(Ops(Y), Val, ops, a, b)
    BY <2>2, OpsLess
  <2> QED
    BY <2>1, <2>3 DEF a, b
<1> QED
  BY <1>1 DEF Steps

LEMMA StepsPushed ==
  ASSUME NEW A, NEW s \in Seq(A), NEW e \in A, NEW now, NEW X
  PROVE  Steps(Append(s, e), now, X)
            <=> Steps(s, e.before, X) /\ Path(Ops(X), Val, e.operations, now, e.before)
<1> DEFINE t == Append(s, e)
           n == Len(s)
           At(w, start, m) == Path(Ops(X), Val, w[m].operations,
                                   IF m = Len(w) THEN start ELSE w[m + 1].before, w[m].before)
<1>1. n \in Nat /\ Len(t) = n + 1 /\ t[n + 1] = e /\ \A m \in 1 .. n : t[m] = s[m]
  BY AppendProperties, LenProperties
<1> HIDE DEF t, n
<1>2. /\ Steps(t, now, X) <=> \A m \in 1 .. n + 1 : At(t, now, m)
      /\ Steps(s, e.before, X) <=> \A m \in 1 .. n : At(s, e.before, m)
  BY <1>1 DEF Steps, n
<1>3. At(t, now, n + 1) <=> Path(Ops(X), Val, e.operations, now, e.before)
  BY <1>1
<1>4. ASSUME NEW m \in 1 .. n PROVE At(t, now, m) <=> At(s, e.before, m)
  <2>1. m # n + 1 /\ t[m] = s[m] /\ m \in 1 .. n + 1
    BY <1>1
  <2>2. t[m + 1].before = IF m = n THEN e.before ELSE s[m + 1].before
    <3>1. CASE m = n
      BY <1>1, <3>1
    <3>2. CASE m # n
      <4>1. m + 1 \in 1 .. n
        BY <1>1, <3>2
      <4> QED
        BY <1>1, <3>2, <4>1
    <3> QED
      BY <3>1, <3>2
  <2>3. Len(t) = n + 1 /\ Len(s) = n
    BY <1>1 DEF n
  <2>4. (IF m = Len(t) THEN now ELSE t[m + 1].before) = (IF m = Len(s) THEN e.before ELSE s[m + 1].before)
    BY <2>1, <2>2, <2>3
  <2> QED
    BY <2>1, <2>4, Zenon
<1>5. \A m \in 1 .. n + 1 : m \in 1 .. n \/ m = n + 1
  BY <1>1
<1>6. n + 1 \in 1 .. n + 1 /\ \A m \in 1 .. n : m \in 1 .. n + 1
  BY <1>1
<1> HIDE DEF At
<1>7. (\A m \in 1 .. n + 1 : At(t, now, m)) <=> (\A m \in 1 .. n : At(s, e.before, m)) /\ At(t, now, n + 1)
  BY <1>4, <1>5, <1>6
<1> QED
  BY <1>2, <1>3, <1>7 DEF t

-----------------------------------------------------------------------------
(* What is recorded leads back.                                            *)

LEMMA DistinctBoth ==
  ASSUME NEW u \in Seq(Items), NEW v \in Seq(Items), Distinct(u), Distinct(v), ToSet(u) \cap ToSet(v) = {}
  PROVE  Distinct(Then(u, v))
<1> DEFINE w == Then(u, v)
           n == Len(u)
           m == Len(v)
<1>1. /\ n \in Nat /\ m \in Nat /\ Len(w) = n + m
      /\ \A i \in 1 .. n + m : w[i] = IF i <= n THEN u[i] ELSE v[i - n]
  BY Two
<1>2. \A i \in 1 .. n : u[i] \in ToSet(u)
  BY LenProperties DEF ToSet
<1>3. \A i \in 1 .. m : v[i] \in ToSet(v)
  BY LenProperties DEF ToSet
<1>4. /\ \A i, j \in 1 .. n : u[i] = u[j] => i = j
      /\ \A i, j \in 1 .. m : v[i] = v[j] => i = j
  BY DEF Distinct
<1> HIDE DEF w, n, m
<1>5. ASSUME NEW i \in 1 .. n + m, NEW j \in 1 .. n + m, w[i] = w[j] PROVE i = j
  <2>1. CASE i <= n /\ j <= n
    <3>1. i \in 1 .. n /\ j \in 1 .. n
      BY <1>1, <2>1
    <3> QED
      BY <1>1, <1>4, <1>5, <2>1, <3>1
  <2>2. CASE ~(i <= n) /\ ~(j <= n)
    <3>1. i - n \in 1 .. m /\ j - n \in 1 .. m
      BY <1>1, <2>2
    <3>2. i - n = j - n
      BY <1>1, <1>4, <1>5, <2>2, <3>1
    <3> QED
      BY <1>1, <3>2
  <2>3. ASSUME NEW y \in 1 .. n + m, NEW z \in 1 .. n + m, y <= n, ~(z <= n) PROVE w[y] # w[z]
    <3>1. y \in 1 .. n /\ z - n \in 1 .. m
      BY <1>1, <2>3
    <3>2. w[y] \in ToSet(u) /\ w[z] \in ToSet(v)
      BY <1>1, <1>2, <1>3, <2>3, <3>1
    <3> QED
      BY <3>2
  <2> QED
    BY <1>5, <2>1, <2>2, <2>3
<1>6. Distinct(w)
  BY <1>1, <1>5 DEF Distinct
<1> QED
  BY <1>6 DEF w

(* Entries are not empty and of one source and one destination list. *)
EntryAt == {e \in EntryT : e.operations # <<>> /\ \E s, d \in Lists : e.operations \in Seq(OpsAt(s, d))}

(* The stacks, with the entry that the program is executing. *)
Past   == undo_stack \o ExecutingIn(program, "undo")
Future == redo_stack \o ExecutingIn(program, "redo")

(* The newest operations lead back to the lists at the last undo_process,  *)
(* from there the entries of each stack lead back one by one.              *)
Core(lists, gone, src, dst) ==
    /\ src \in Lists /\ dst \in Lists
    /\ operations \in Seq(OpsAt(src, dst))
    /\ Path(Ops(ToSet(lists[Incoming])), Val, operations, Whole(lists, gone, src), base)
    /\ undo_stack \in Seq(EntryAt) /\ redo_stack \in Seq(EntryAt)
    /\ Steps(Past, base, ToSet(lists[Incoming]))
    /\ Steps(Future, base, ToSet(lists[Incoming]))

LEMMA ExecutingKnown ==
  ASSUME NEW s, ProgramFits(s), NEW type \in {"undo", "redo"}
  PROVE  ExecutingIn(s, type) \in Seq(BearT)
<1>1. CASE FinishesOf(s) = {}
  <2>1. ExecutingIn(s, type) = <<>>
    BY <1>1, ExecutingNone
  <2> QED
    BY <2>1
<1>2. CASE FinishesOf(s) # {}
  <2>1. PICK c \in FinishT : FinishesOf(s) = {c}
    BY <1>2, FinishesFit
  <2>2. <<c>> \in Seq(BearT) /\ <<>> \in Seq(BearT)
    BY DEF BearT
  <2>3. ExecutingIn(s, type) = <<c>> \/ ExecutingIn(s, type) = <<>>
    BY <2>1, ExecutingOne
  <2> QED
    BY <2>2, <2>3
<1> QED
  BY <1>1, <1>2

LEMMA StacksKnown ==
  ASSUME NEW lists, NEW gone, State(lists, gone)
  PROVE  /\ undo_stack \in Seq(EntryT) /\ redo_stack \in Seq(EntryT)
         /\ undo_stack \in Seq(BearT) /\ redo_stack \in Seq(BearT)
         /\ Past \in Seq(BearT) /\ Future \in Seq(BearT)
<1>1. undo_stack \in Seq(EntryT) /\ redo_stack \in Seq(EntryT) /\ ProgramFits(program)
  BY DEF State, Typed
<1>2. undo_stack \in Seq(BearT) /\ redo_stack \in Seq(BearT)
  BY <1>1, SameSeq DEF BearT
<1>3. ExecutingIn(program, "undo") \in Seq(BearT) /\ ExecutingIn(program, "redo") \in Seq(BearT)
  BY <1>1, ExecutingKnown
<1> QED
  BY <1>1, <1>2, <1>3, ConcatProperties DEF Past, Future

LEMMA CoreMoves ==
  ASSUME NEW lists, NEW gone, State(lists, gone), NEW src, NEW dst, Core(lists, gone, src, dst),
         NEW l2, NEW g2, NEW s2 \in Lists, NEW d2 \in Lists,
         UNCHANGED <<undo_stack, redo_stack, base>>, FinishesOf(program') = FinishesOf(program),
         ToSet(l2[Incoming]) \subseteq ToSet(lists[Incoming]),
         operations' \in Seq(OpsAt(s2, d2)),
         Path(Ops(ToSet(lists[Incoming])), Val, operations', Whole(l2, g2, s2), base)
  PROVE  Core(l2, g2, s2, d2)'
<1>1. ExecutingIn(program', "undo") = ExecutingIn(program, "undo")
      /\ ExecutingIn(program', "redo") = ExecutingIn(program, "redo")
  BY ExecutingSame
<1>2. Past' = Past /\ Future' = Future
  BY <1>1 DEF Past, Future
<1>3. Past \in Seq(BearT) /\ Future \in Seq(BearT)
  BY StacksKnown
<1> DEFINE X == ToSet(lists[Incoming])
           Y == ToSet(l2[Incoming])
<1>4. Steps(Past, base, X) /\ Steps(Future, base, X)
  BY DEF Core
<1>5. Y \subseteq X
  OBVIOUS
<1>6. PICK ops \in Seq(OpT) : ops = operations'
  BY OpsAtAll
<1>7. Path(Ops(X), Val, ops, Whole(l2, g2, s2), base)
  BY <1>6
<1> HIDE DEF X, Y
<1>8. Steps(Past, base, Y) /\ Steps(Future, base, Y)
  BY <1>3, <1>4, <1>5, StepsLess
<1>9. Path(Ops(Y), Val, ops, Whole(l2, g2, s2), base)
  BY <1>5, <1>7, OpsLess
<1>10. undo_stack' \in Seq(EntryAt) /\ redo_stack' \in Seq(EntryAt)
  BY DEF Core
<1>11. base' = base /\ Path(Ops(Y), Val, operations', Whole(l2, g2, s2), base')
  BY <1>6, <1>9
<1>12. Steps(Past', base', Y) /\ Steps(Future', base', Y)
  BY <1>2, <1>8
<1> QED
  BY <1>10, <1>11, <1>12 DEF Core, Y

LEMMA CoreQuiet ==
  ASSUME NEW lists, NEW gone, State(lists, gone), NEW src, NEW dst, Core(lists, gone, src, dst),
         UNCHANGED <<undo_stack, redo_stack, base, operations>>, FinishesOf(program') = FinishesOf(program)
  PROVE  Core(lists, gone, src, dst)'
<1>1. /\ operations' \in Seq(OpsAt(src, dst)) /\ src \in Lists /\ dst \in Lists
      /\ Path(Ops(ToSet(lists[Incoming])), Val, operations', Whole(lists, gone, src), base)
  BY DEF Core
<1> QED
  BY <1>1, CoreMoves

(* Nothing is recorded: the next change may be anywhere. *)
LEMMA CoreIdle ==
  ASSUME NEW lists, NEW gone, State(lists, gone), NEW src, NEW dst, Core(lists, gone, src, dst),
         gone = <<>>, operations = <<>>, NEW s2 \in Lists, NEW d2 \in Lists
  PROVE  Core(lists, gone, s2, d2)
<1>1. Whole(lists, gone, src) = Whole(lists, gone, s2)
  BY StateLists, ShownKnown
<1>2. operations \in Seq(OpsAt(s2, d2))
  OBVIOUS
<1> QED
  BY <1>1, <1>2 DEF Core

(* s in parts, named. *)
Splits(s, u, x, v) == s = With(u, x, v)
Cuts(s, u, v) == s = Then(u, v)

LEMMA CoreRemoved ==
  ASSUME NEW lists, NEW gone, State(lists, gone), NEW src, NEW dst, Core(lists, gone, src, dst),
         gone = <<>>, NEW p \in AllLists, p # Incoming => p = src,
         NEW u \in Seq(Items), NEW x \in Items, NEW v \in Seq(Items), Splits(lists[p], u, x, v),
         UNCHANGED <<undo_stack, redo_stack, base>>, FinishesOf(program') = FinishesOf(program),
         operations' = RemovalRecorded(p, <<x>>)
  PROVE  /\ Core(Put(lists, p, Then(u, v)), <<>>, src, dst)'
         /\ p \in Lists => operations' # <<>>
<1>0. /\ lists \in AllVal /\ \A q \in AllLists : Distinct(lists[q]) /\ ChainedBack(prev, lists[q], tail[q])
      /\ \A q, r \in AllLists : q # r => ToSet(lists[q]) \cap ToSet(lists[r]) = {}
  BY StateLists
<1>1. /\ Shown(lists) \in Val /\ \A q \in Lists : Shown(lists)[q] = lists[q]
      /\ Incoming \in AllLists
      /\ \A s : Whole(lists, <<>>, s) = Shown(lists)
  BY <1>0, ShownKnown
<1>2. Then(u, v) \in Seq(Items) /\ ToSet(Then(u, v)) = ToSet(u) \cup ToSet(v)
      /\ ToSet(With(u, x, v)) = ToSet(u) \cup {x} \cup ToSet(v)
  BY SetsOf
<1>3. /\ src \in Lists /\ dst \in Lists /\ operations \in Seq(OpsAt(src, dst))
      /\ Path(Ops(ToSet(lists[Incoming])), Val, operations, Whole(lists, gone, src), base)
  BY DEF Core
<1>4. PICK w \in Seq(Items) : w = Then(u, v)
  BY <1>2
<1>5. PICK l2 \in AllVal : l2 = Put(lists, p, w)
  BY <1>0, AllPut
<1>6. \A s : Whole(l2, <<>>, s) = Shown(l2)
  BY ShownKnown
<1>7. CASE p \in Lists
  <2>1. p = src /\ p # Incoming
    BY <1>7, PlaylistAssumption
  <2>2. l2[Incoming] = lists[Incoming] /\ Shown(l2) = Put(Shown(lists), p, w)
    BY <1>0, <1>5, <1>7, ShownPut
  <2> DEFINE X == ToSet(lists[Incoming])
             a == Shown(lists)
  <2>3. Has(a, p, u, x, v, X)
    <3>1. a[p] = With(u, x, v) /\ Distinct(a[p])
      BY <1>0, <1>1, <1>7 DEF Splits
    <3>2. x \in ToSet(lists[p])
      BY <1>2 DEF Splits
    <3>3. x \notin X /\ \A q \in Lists : q # p => x \notin ToSet(a[q])
      BY <1>0, <1>1, <2>1, <3>2 DEF AllLists
    <3> HIDE DEF a, X
    <3> QED
      BY <3>1, <3>3 DEF Has
  <2>4. prev[x] = EndOf(u)
    <3>1. ChainedBack(prev, With(u, x, v), tail[p])
      BY <1>0 DEF Splits
    <3> QED
      BY <3>1, PrevEnd
  <2>5. a \in Val /\ operations \in Seq(OpsAt(p, dst)) /\ Path(Ops(X), Val, operations, a, base)
    BY <1>1, <1>3, <2>1
  <2>6. X = ToSet(l2[Incoming])
    BY <2>2
  <2> HIDE DEF a, X
  <2>7. /\ RemovalRecorded(p, <<x>>) \in Seq(OpsAt(p, dst)) /\ RemovalRecorded(p, <<x>>) # <<>>
        /\ Path(Ops(X), Val, RemovalRecorded(p, <<x>>), Put(a, p, Then(u, v)), base)
    BY <1>3, <1>7, <2>3, <2>4, <2>5, RemovalTrail
  <2>8. /\ operations' \in Seq(OpsAt(src, dst)) /\ operations' # <<>>
        /\ Path(Ops(X), Val, operations', Whole(l2, <<>>, src), base)
    BY <1>4, <1>6, <2>1, <2>2, <2>7 DEF a
  <2>9. ToSet(l2[Incoming]) \subseteq ToSet(lists[Incoming])
    BY <2>2
  <2>10. Core(l2, <<>>, src, dst)'
    BY <1>3, <2>8, <2>9, CoreMoves DEF X
  <2> QED
    BY <1>4, <1>5, <2>8, <2>10
<1>8. CASE p \notin Lists
  <2>1. p = Incoming /\ operations' = operations
    BY <1>8 DEF AllLists, RemovalRecorded
  <2>2. l2[Incoming] = w /\ Shown(l2) = Shown(lists)
    BY <1>0, <1>5, <2>1, ShownPut
  <2>3. ToSet(l2[Incoming]) \subseteq ToSet(lists[Incoming])
    BY <1>2, <1>4, <2>1, <2>2 DEF Splits
  <2>4. /\ operations' \in Seq(OpsAt(src, dst))
        /\ Path(Ops(ToSet(lists[Incoming])), Val, operations', Whole(l2, <<>>, src), base)
    BY <1>1, <1>3, <1>6, <2>1, <2>2
  <2>5. Core(l2, <<>>, src, dst)'
    BY <1>3, <2>3, <2>4, CoreMoves
  <2> QED
    BY <1>4, <1>5, <1>8, <2>5
<1> QED
  BY <1>7, <1>8

LEMMA CoreInserted ==
  ASSUME NEW lists, NEW gone, State(lists, gone), NEW src, NEW dst, Core(lists, gone, src, dst),
         gone = <<>>,
         NEW u \in Seq(Items), NEW x \in Items, NEW v \in Seq(Items), Cuts(lists[dst], u, v),
         Distinct(With(u, x, v)),
         UNCHANGED <<undo_stack, redo_stack, base>>, FinishesOf(program') = FinishesOf(program),
         operations' = InsertionRecorded(dst, <<x>>)
  PROVE  /\ Core(Put(lists, dst, With(u, x, v)), <<>>, src, dst)'
         /\ operations' # <<>>
<1>0. lists \in AllVal
  BY StateLists
<1>1. /\ Shown(lists) \in Val /\ \A q \in Lists : Shown(lists)[q] = lists[q]
      /\ Incoming \in AllLists
      /\ \A s : Whole(lists, <<>>, s) = Shown(lists)
  BY <1>0, ShownKnown
<1>2. With(u, x, v) \in Seq(Items)
  BY SetsOf
<1>3. /\ src \in Lists /\ dst \in Lists /\ operations \in Seq(OpsAt(src, dst))
      /\ Path(Ops(ToSet(lists[Incoming])), Val, operations, Whole(lists, gone, src), base)
  BY DEF Core
<1>4. PICK w \in Seq(Items) : w = With(u, x, v)
  BY <1>2
<1>5. PICK l2 \in AllVal : l2 = Put(lists, dst, w)
  <2>1. dst \in AllLists
    BY <1>3 DEF AllLists
  <2> QED
    BY <1>0, <2>1, AllPut
<1>6. \A s : Whole(l2, <<>>, s) = Shown(l2)
  BY ShownKnown
<1>7. l2[Incoming] = lists[Incoming] /\ Shown(l2) = Put(Shown(lists), dst, w)
  BY <1>0, <1>3, <1>5, ShownPut
<1> DEFINE X == ToSet(lists[Incoming])
           a == Shown(lists)
<1>8. Lacks(a, dst, u, x, v)
  <2>1. a[dst] = Then(u, v)
    BY <1>1, <1>3 DEF Cuts
  <2>2. x \notin ToSet(u) /\ x \notin ToSet(v)
    BY DistinctThree
  <2> HIDE DEF a
  <2> QED
    BY <2>1, <2>2 DEF Lacks
<1>9. a \in Val /\ Path(Ops(X), Val, operations, a, base)
  BY <1>1, <1>3
<1> HIDE DEF a, X
<1>10. /\ InsertionRecorded(dst, <<x>>) \in Seq(OpsAt(src, dst)) /\ InsertionRecorded(dst, <<x>>) # <<>>
       /\ Path(Ops(X), Val, InsertionRecorded(dst, <<x>>), Put(a, dst, With(u, x, v)), base)
  BY <1>3, <1>8, <1>9, InsertionTrail
<1>11. /\ operations' \in Seq(OpsAt(src, dst)) /\ operations' # <<>>
       /\ Path(Ops(X), Val, operations', Whole(l2, <<>>, src), base)
  BY <1>4, <1>6, <1>7, <1>10 DEF a
<1>12. ToSet(l2[Incoming]) \subseteq ToSet(lists[Incoming])
  BY <1>7
<1>13. Core(l2, <<>>, src, dst)'
  BY <1>3, <1>11, <1>12, CoreMoves DEF X
<1> QED
  BY <1>4, <1>5, <1>11, <1>13

LEMMA ValPutIs ==
  ASSUME NEW a \in Val, NEW p \in Lists, NEW b \in Val, \A q \in Lists : q # p => b[q] = a[q]
  PROVE  b = Put(a, p, b[p])
<1>1. b[p] \in Seq(Items)
  BY DEF Val
<1>2. PICK c \in Val : c = Put(a, p, b[p])
  BY <1>1, ValPut
<1>3. c[p] = b[p] /\ \A q \in Lists : q # p => c[q] = a[q]
  BY <1>1, <1>2, ValPut
<1>4. \A q \in Lists : b[q] = c[q]
  BY <1>3
<1>5. b \in [Lists -> Seq(Items)] /\ c \in [Lists -> Seq(Items)]
  BY DEF Val
<1>6. b = c
  BY <1>4, <1>5
<1> QED
  BY <1>2, <1>6

LEMMA SetIn ==
  ASSUME NEW s \in Seq(Items)
  PROVE  ToSet(s) \in SUBSET Items
BY ElementOfSeq, LenProperties DEF ToSet

(* The first item that is still to be forgotten. *)
LEMMA CoreForgot ==
  ASSUME NEW lists, NEW gone, State(lists, gone), NEW src, NEW dst, Core(lists, gone, src, dst),
         gone # <<>>, NEW x, x = gone[1],
         UNCHANGED <<undo_stack, redo_stack, base>>, FinishesOf(program') = FinishesOf(program),
         operations' = RemovalRecorded(src, <<x>>)
  PROVE  Core(lists, Tail(gone), src, dst)' /\ operations' # <<>>
<1>0. /\ lists \in AllVal /\ gone \in Seq(Items) /\ Distinct(gone)
      /\ \A q \in AllLists : Distinct(lists[q]) /\ lists[q] \in Seq(Items)
                             /\ ToSet(lists[q]) \cap ToSet(gone) = {}
      /\ \A q, r \in AllLists : q # r => ToSet(lists[q]) \cap ToSet(lists[r]) = {}
  BY StateLists
<1>1. /\ src \in Lists /\ dst \in Lists /\ operations \in Seq(OpsAt(src, dst))
      /\ Path(Ops(ToSet(lists[Incoming])), Val, operations, Whole(lists, gone, src), base)
  BY DEF Core
<1>2. PICK rest \in Seq(Items) : rest = Tail(gone) /\ gone = Then(One(x), rest) /\ x \in Items
  <2>1. gone = Then(One(Head(gone)), Tail(gone)) /\ Head(gone) \in Items /\ Tail(gone) \in Seq(Items)
    BY <1>0, FirstThenRest
  <2>2. Head(gone) = gone[1]
    BY <1>0, FirstAndRest
  <2> QED
    BY <2>1, <2>2
<1>3. PICK s \in Seq(Items) : s = lists[src]
  BY <1>0, <1>1 DEF AllLists
<1>4. PICK o \in Seq(Items) : o = One(x) /\ ToSet(o) = {x}
  BY <1>2, OneDistinct
<1>5. PICK v \in Seq(Items) : v = Then(rest, s)
  BY Two
<1> DEFINE a == Whole(lists, gone, src)
           X == ToSet(lists[Incoming])
           e == <<>>
<1>6. /\ a \in Val /\ a[src] = Then(gone, s) /\ \A q \in Lists : q # src => a[q] = lists[q]
  BY <1>0, <1>1, <1>3, WholeKnown
<1>7. e \in Seq(Items) /\ Then(e, v) = v /\ Then(e, o) = o /\ EndOf(e) = NULL
  BY EmptyThen, EndKnown
<1>8. Then(gone, s) = With(e, x, v)
  <2>1. With(e, x, v) = Then(Then(e, One(x)), v)
    BY WithThen
  <2>2. Then(Then(o, rest), s) = Then(o, Then(rest, s))
    BY ThenThen
  <2> HIDE DEF e
  <2> QED
    BY <1>2, <1>4, <1>5, <1>7, <2>1, <2>2
<1>9. x \in ToSet(gone)
  <2>1. ToSet(Then(o, rest)) = ToSet(o) \cup ToSet(rest)
    BY Two
  <2> QED
    BY <1>2, <1>4, <2>1
<1>10. prev[x] = EndOf(e)
  <2>1. ChainedBack(prev, gone, gone[Len(gone)])
    BY DEF State, LinkedAs, Forgetting
  <2>2. Len(gone) \in Nat /\ Len(gone) > 0
    BY <1>0, FirstAndRest
  <2>3. prev[gone[1]] = NULL
    BY <2>1, <2>2 DEF ChainedBack
  <2> QED
    BY <1>7, <2>3
<1>11. Has(a, src, e, x, v, X)
  <2>1. Distinct(Then(gone, s))
    <3>1. Distinct(s) /\ ToSet(gone) \cap ToSet(s) = {}
      BY <1>0, <1>1, <1>3 DEF AllLists
    <3> QED
      BY <1>0, <3>1, DistinctBoth
  <2>2. x \notin X /\ \A q \in Lists : q # src => x \notin ToSet(a[q])
    <3>1. \A q \in AllLists : x \notin ToSet(lists[q])
      BY <1>0, <1>9
    <3> HIDE DEF a
    <3> QED
      BY <1>6, <3>1 DEF AllLists
  <2>3. a[src] = With(e, x, v) /\ Distinct(a[src])
    BY <1>6, <1>8, <2>1
  <2> HIDE DEF a, X, e
  <2> QED
    BY <2>2, <2>3 DEF Has
<1>12. Put(a, src, Then(e, v)) = Whole(lists, rest, src)
  <2>1. /\ Whole(lists, rest, src) \in Val /\ Whole(lists, rest, src)[src] = Then(rest, s)
        /\ \A q \in Lists : q # src => Whole(lists, rest, src)[q] = lists[q]
    BY <1>0, <1>1, <1>3, WholeKnown
  <2> DEFINE b == Whole(lists, rest, src)
  <2>2. b \in Val /\ \A q \in Lists : q # src => b[q] = a[q]
    BY <1>6, <2>1
  <2> HIDE DEF a, b
  <2>3. b = Put(a, src, b[src])
    BY <1>1, <1>6, <2>2, ValPutIs
  <2> QED
    BY <1>5, <1>7, <2>1, <2>3 DEF b
<1>13. Path(Ops(X), Val, operations, a, base)
  BY <1>1
<1> HIDE DEF a, X, e
<1>14. /\ RemovalRecorded(src, <<x>>) \in Seq(OpsAt(src, dst)) /\ RemovalRecorded(src, <<x>>) # <<>>
       /\ Path(Ops(X), Val, RemovalRecorded(src, <<x>>), Put(a, src, Then(e, v)), base)
  BY <1>1, <1>2, <1>6, <1>7, <1>10, <1>11, <1>13, RemovalTrail
<1>15. /\ operations' \in Seq(OpsAt(src, dst)) /\ operations' # <<>>
       /\ Path(Ops(X), Val, operations', Whole(lists, rest, src), base)
  BY <1>12, <1>14
<1>16. Core(lists, rest, src, dst)'
  BY <1>1, <1>15, CoreMoves DEF X
<1> QED
  BY <1>2, <1>15, <1>16

LEMMA CoreSorted ==
  ASSUME NEW lists, NEW gone, State(lists, gone), NEW src, NEW dst, Core(lists, gone, src, dst),
         gone = <<>>, operations = <<>>, NEW p \in Lists, NEW new \in Seq(Items), new # <<>>,
         Distinct(new), ToSet(new) = ToSet(lists[p]), lists[p] # <<>>,
         UNCHANGED <<undo_stack, redo_stack, base>>, FinishesOf(program') = FinishesOf(program),
         operations' = <<Operation("remove", p, new, NULL)>> \o RemovalRecorded(p, lists[p])
  PROVE  Core(Put(lists, p, new), <<>>, p, p)' /\ operations' # <<>>
<1>0. /\ lists \in AllVal /\ p \in AllLists
      /\ \A q \in AllLists : Distinct(lists[q]) /\ lists[q] \in Seq(Items) /\ ChainedBack(prev, lists[q], tail[q])
      /\ \A q, r \in AllLists : q # r => ToSet(lists[q]) \cap ToSet(lists[r]) = {}
  BY StateLists DEF AllLists
<1>1. PICK old \in Seq(Items) : old = lists[p]
  BY <1>0
<1>2. /\ Shown(lists) \in Val /\ \A q \in Lists : Shown(lists)[q] = lists[q]
      /\ Incoming \in AllLists
      /\ \A s : Whole(lists, <<>>, s) = Shown(lists)
  BY <1>0, ShownKnown
<1>3. Path(Ops(ToSet(lists[Incoming])), Val, <<>>, Shown(lists), base)
  BY <1>2 DEF Core
<1>4. PICK l2 \in AllVal : l2 = Put(lists, p, new)
  BY <1>0, AllPut
<1>5. \A s : Whole(l2, <<>>, s) = Shown(l2)
  BY ShownKnown
<1>6. l2[Incoming] = lists[Incoming] /\ Shown(l2) = Put(Shown(lists), p, new)
  BY <1>0, <1>4, ShownPut
<1> DEFINE o1 == Operation("remove", p, new, NULL)
           o2 == Operation("insert", p, old, NULL)
           a == Shown(lists)
           b == Put(a, p, <<>>)
           c == Put(a, p, new)
           X == ToSet(lists[Incoming])
           e == <<>>
<1>7. /\ o1 \in OpT /\ o1.perform = "remove" /\ o1.plt = p /\ o1.items = new
  <2>1. NULL \in Pointer
    BY DEF Pointer
  <2> QED
    BY <2>1, OperationMade
<1>8. /\ o2 \in OpT /\ o2.perform = "insert" /\ o2.plt = p /\ o2.items = old /\ o2.position = NULL
  <2>1. NULL \in Pointer
    BY DEF Pointer
  <2> QED
    BY <1>1, <2>1, OperationMade
<1>9. operations' = Then(One(o1), One(o2))
  <2>1. prev[old[1]] = NULL
    <3>1. ChainedBack(prev, old, tail[p])
      BY <1>0, <1>1
    <3>2. Len(old) \in Nat /\ Len(old) > 0
      BY <1>1, FirstAndRest
    <3> QED
      BY <3>1, <3>2 DEF ChainedBack
  <2>2. ~BatchesRemoval(old)
    BY DEF BatchesRemoval, Batches
  <2>3. RemovalRecorded(p, old) = <<Operation("insert", p, old, prev[old[1]])>> \o <<>>
    BY <2>2 DEF RemovalRecorded
  <2>4. RemovalRecorded(p, old) = <<Operation("insert", p, old, NULL)>>
    BY <2>1, <2>3
  <2> QED
    BY <1>1, <2>4 DEF Then, One
<1>10. e \in Seq(Items) /\ EndOf(e) = NULL /\ Then(e, e) = e /\ Then(e, old) = old /\ Then(old, e) = old
       /\ ToSet(e) = {}
  <2>1. e \in Seq(Items) /\ ToSet(e) = {}
    BY DEF ToSet
  <2> QED
    BY <2>1, EndKnown, EmptyThen
<1>11. a \in Val /\ a[p] = old
  BY <1>1, <1>2
<1> HIDE DEF o1, o2, a, e
<1>12. /\ c \in Val /\ c[p] = new /\ \A s \in Seq(Items) : Put(c, p, s) = Put(a, p, s)
  BY <1>11, ValPut
<1>13. /\ Put(a, p, e) \in Val /\ Put(a, p, e)[p] = e /\ \A q \in Lists : q # p => Put(a, p, e)[q] = a[q]
       /\ \A s \in Seq(Items) : Put(Put(a, p, e), p, s) = Put(a, p, s)
  BY <1>10, <1>11, ValPut
<1>14. Put(a, p, old) = a
  <2>1. Put(a, p, a[p]) = a
    BY <1>10, <1>11, ValPut
  <2> QED
    BY <1>11, <2>1
<1>15. b \in Val /\ b[p] = e /\ (\A q \in Lists : q # p => b[q] = a[q]) /\ Put(b, p, old) = a
  BY <1>13, <1>14 DEF e
<1> HIDE DEF b, c
<1>16. Effect(o1, c, b, X)
  <2>1. PICK T \in SUBSET Items : T = ToSet(new)
    BY SetIn
  <2>2. Spared(new, T) = e
    BY <2>1, SparedNone DEF e
  <2>3. b = Put(c, p, Spared(c[p], ToSet(new)))
    BY <1>10, <1>12, <2>1, <2>2 DEF b, e
  <2>4. Removes(o1, c, b)
    BY <1>7, <1>12, <2>3 DEF Removes
  <2> QED
    BY <1>7, <2>4 DEF Effect
<1>17. Effect(o2, b, a, X)
  <2>1. Distinct(old)
    BY <1>0, <1>1
  <2>2. \A y \in ToSet(old) : y \notin X /\ \A q \in Lists : y \notin ToSet(b[q])
    <3>1. p # Incoming
      BY PlaylistAssumption
    <3>2. \A y \in ToSet(old) : \A q \in AllLists : q # p => y \notin ToSet(lists[q])
      BY <1>0, <1>1
    <3>3. \A q \in Lists : q # p => b[q] = lists[q]
      BY <1>2, <1>15 DEF a
    <3>4. \A y \in ToSet(old) : y \notin X
      BY <1>2, <3>1, <3>2
    <3>5. \A y \in ToSet(old) : \A q \in Lists : y \notin ToSet(b[q])
      BY <1>10, <1>15, <3>2, <3>3 DEF AllLists
    <3> QED
      BY <3>4, <3>5
  <2>3. b[p] = Then(e, e) /\ EndOf(e) = NULL /\ a = Put(b, p, Then(Then(e, old), e))
    BY <1>10, <1>15
  <2>4. Inserts(o2, b, a, X)
    BY <1>8, <1>10, <2>1, <2>2, <2>3 DEF Inserts
  <2> QED
    BY <1>8, <2>4 DEF Effect
<1> HIDE DEF X
<1>18. Path(Ops(X), Val, e, a, base)
  BY <1>3 DEF X, a, e
<1>19. PICK t \in Seq(OpT) : t = One(o2) /\ t = Then(One(o2), e)
  <2>1. PICK t \in Seq(OpT) : t = One(o2)
    BY <1>8, OneKnown
  <2>2. Then(t, <<>>) = t
    BY DEF Then
  <2> QED
    BY <2>1, <2>2 DEF e
<1>20. Path(Ops(X), Val, Then(One(o2), e), b, base)
  <2>1. e \in Seq(OpT)
    BY SMTT(30) DEF e
  <2> QED
    BY <1>8, <1>11, <1>15, <1>17, <1>18, <2>1, TrailMore
<1>21. Path(Ops(X), Val, Then(One(o1), t), c, base)
  BY <1>7, <1>12, <1>15, <1>16, <1>19, <1>20, TrailMore
<1>22. operations' \in Seq(OpsAt(p, p)) /\ operations' # <<>>
  <2>1. o1 \in OpsAt(p, p) /\ o2 \in OpsAt(p, p)
    BY <1>7, <1>8 DEF OpsAt
  <2>2. One(o2) \in Seq(OpsAt(p, p))
    BY <2>1, OneKnown
  <2>3. PICK r \in Seq(OpsAt(p, p)) : r = One(o2)
    BY <2>2
  <2>4. Then(One(o1), r) \in Seq(OpsAt(p, p)) /\ Then(One(o1), r) # <<>>
    BY <2>1, OpsAtMore, SMTT(30)
  <2> QED
    BY <1>9, <2>3, <2>4
<1>23. Path(Ops(X), Val, operations', Whole(l2, <<>>, p), base)
  BY <1>5, <1>6, <1>9, <1>19, <1>21 DEF c, a
<1>24. ToSet(l2[Incoming]) \subseteq ToSet(lists[Incoming])
  BY <1>6
<1>25. Core(l2, <<>>, p, p)'
  BY <1>22, <1>23, <1>24, CoreMoves DEF X
<1> QED
  BY <1>4, <1>22, <1>25

-----------------------------------------------------------------------------
(* What the program will do.                                               *)

(* Calls that take items out of src, or what is read, and put them in dst. *)
CallsAt(src, dst) ==
    {c \in CallT : /\ c.do = "remove" => c.plt \in {src, Incoming}
                   /\ c.do = "forget" => c.plt = src
                   /\ c.do = "insert" => c.plt = dst
                   /\ c.do = "move" => c.from = src /\ c.to = dst}

(* plt_move_items lets the mutex go and announces, an announcement is last. *)
Runs(s, src, dst) ==
    /\ s \in Seq(CallsAt(src, dst))
    /\ \A n, m \in 1 .. Len(s) : s[n].do = "move" /\ n < m => s[m].do \in {"unlock", "changed"}
    /\ s # <<>> => s[Len(s)].do \in {"changed", "files_end"}

LEMMA RunsKnown ==
  ASSUME NEW s, NEW src, NEW dst, Runs(s, src, dst)
  PROVE  s \in Seq(CallT) /\ s \in Seq(CallsAt(src, dst))
<1>1. CallsAt(src, dst) \subseteq CallT
  BY DEF CallsAt
<1> QED
  BY <1>1, SameSeq DEF Runs

LEMMA RunsOn ==
  ASSUME NEW s, NEW src, NEW dst, Runs(s, src, dst), s # <<>>
  PROVE  /\ Runs(Tail(s), src, dst) /\ Tail(s) \in Seq(CallT)
         /\ Head(s) \in CallsAt(src, dst) /\ Head(s) \in CallT
         /\ Head(s).do = "move" => \A m \in 1 .. Len(Tail(s)) : Tail(s)[m].do \in {"unlock", "changed"}
         /\ Tail(s) = <<>> => Head(s).do \in {"changed", "files_end"}
         /\ ToSet(s) = {Head(s)} \cup ToSet(Tail(s))
<1>1. s \in Seq(CallsAt(src, dst))
  BY DEF Runs
<1>2. /\ Head(s) = s[1] /\ Head(s) \in CallsAt(src, dst)
      /\ Tail(s) \in Seq(CallsAt(src, dst)) /\ Len(Tail(s)) = Len(s) - 1 /\ Len(s) \in Nat /\ Len(s) > 0
      /\ \A n \in 1 .. Len(s) - 1 : Tail(s)[n] = s[n + 1]
      /\ ToSet(s) = {Head(s)} \cup ToSet(Tail(s))
  BY <1>1, FirstAndRest
<1> DEFINE l == Len(s)
           t == Tail(s)
<1>3. /\ l \in Nat /\ l > 0 /\ Len(t) = l - 1
      /\ \A n \in 1 .. l - 1 : t[n] = s[n + 1]
  BY <1>2
<1>4. \A n, m \in 1 .. l : s[n].do = "move" /\ n < m => s[m].do \in {"unlock", "changed"}
  BY DEF Runs
<1>5. s[l].do \in {"changed", "files_end"}
  BY DEF Runs
<1>6. t = <<>> <=> l = 1
  <2>1. t \in Seq(CallsAt(src, dst))
    BY <1>2
  <2> HIDE DEF t, l
  <2>2. Len(t) = 0 <=> t = <<>>
    BY <2>1, EmptySeq
  <2> QED
    BY <1>3, <2>2
<1> HIDE DEF l, t
<1>7. ASSUME NEW n \in 1 .. Len(t), NEW m \in 1 .. Len(t), t[n].do = "move", n < m
      PROVE  t[m].do \in {"unlock", "changed"}
  <2>1. n + 1 \in 1 .. l /\ m + 1 \in 1 .. l /\ n + 1 < m + 1
    BY <1>3, <1>7
  <2>2. n \in 1 .. l - 1 /\ m \in 1 .. l - 1
    BY <1>3
  <2>3. t[n] = s[n + 1] /\ t[m] = s[m + 1]
    BY <1>3, <2>2
  <2> QED
    BY <1>4, <1>7, <2>1, <2>3
<1>8. t # <<>> => t[Len(t)].do \in {"changed", "files_end"}
  <2>1. SUFFICES ASSUME t # <<>> PROVE t[Len(t)].do \in {"changed", "files_end"}
    OBVIOUS
  <2>2. l - 1 \in 1 .. l - 1 /\ (l - 1) + 1 = l
    BY <1>3, <1>6, <2>1
  <2>3. t[l - 1] = s[l]
    BY <1>3, <2>2
  <2> QED
    BY <1>3, <1>5, <2>3
<1>9. ASSUME s[1].do = "move", NEW m \in 1 .. Len(t) PROVE t[m].do \in {"unlock", "changed"}
  <2>1. m + 1 \in 1 .. l /\ 1 < m + 1 /\ 1 \in 1 .. l /\ m \in 1 .. l - 1
    BY <1>3
  <2>2. t[m] = s[m + 1]
    BY <1>3, <2>1
  <2> QED
    BY <1>4, <1>9, <2>1, <2>2
<1>10. t = <<>> => s[1].do \in {"changed", "files_end"}
  BY <1>5, <1>6
<1>11. Runs(t, src, dst)
  BY <1>2, <1>7, <1>8 DEF Runs, t
<1>12. Head(s) \in CallT
  BY <1>2 DEF CallsAt
<1>13. t \in Seq(CallT)
  BY <1>11, RunsKnown
<1> QED
  BY <1>2, <1>9, <1>10, <1>11, <1>12, <1>13 DEF t

LEMMA RunsBoth ==
  ASSUME NEW src, NEW dst, NEW u \in Seq(CallsAt(src, dst)), NEW t, Runs(t, src, dst), t # <<>>,
         \A n \in 1 .. Len(u) : u[n].do = "move" =>
            n = Len(u) /\ \A m \in 1 .. Len(t) : t[m].do \in {"unlock", "changed"}
  PROVE  Runs(Then(u, t), src, dst)
<1>1. t \in Seq(CallsAt(src, dst))
  BY DEF Runs
<1> DEFINE k == Len(u)
           l == Len(t)
           w == Then(u, t)
<1>2. /\ w \in Seq(CallsAt(src, dst)) /\ k \in Nat /\ l \in Nat /\ Len(w) = k + l
      /\ \A i \in 1 .. k + l : w[i] = IF i <= k THEN u[i] ELSE t[i - k]
  BY <1>1, Two
<1>3. l # 0
  BY <1>1, EmptySeq
<1>4. /\ \A n, m \in 1 .. l : t[n].do = "move" /\ n < m => t[m].do \in {"unlock", "changed"}
      /\ t[l].do \in {"changed", "files_end"}
  BY DEF Runs
<1>5. \A n \in 1 .. k : u[n].do = "move" =>
            n = k /\ \A m \in 1 .. l : t[m].do \in {"unlock", "changed"}
  OBVIOUS
<1> HIDE DEF k, l, w
<1>6. ASSUME NEW n \in 1 .. Len(w), NEW m \in 1 .. Len(w), w[n].do = "move", n < m
      PROVE  w[m].do \in {"unlock", "changed"}
  <2>1. n \in 1 .. k + l /\ m \in 1 .. k + l
    BY <1>2
  <2>2. w[n] = (IF n <= k THEN u[n] ELSE t[n - k]) /\ w[m] = (IF m <= k THEN u[m] ELSE t[m - k])
    BY <1>2, <2>1
  <2>3. CASE n <= k
    <3>1. n \in 1 .. k /\ w[n] = u[n]
      BY <1>2, <2>1, <2>2, <2>3
    <3>2. n = k /\ \A j \in 1 .. l : t[j].do \in {"unlock", "changed"}
      BY <1>5, <1>6, <3>1
    <3>3. m - k \in 1 .. l /\ ~(m <= k)
      BY <1>2, <1>6, <2>1, <3>2
    <3> QED
      BY <2>2, <3>2, <3>3
  <2>4. CASE ~(n <= k)
    <3>1. n - k \in 1 .. l /\ m - k \in 1 .. l /\ n - k < m - k /\ ~(m <= k)
      BY <1>2, <1>6, <2>1, <2>4
    <3> QED
      BY <1>4, <1>6, <2>2, <2>4, <3>1
  <2> QED
    BY <2>3, <2>4
<1>7. w[Len(w)].do \in {"changed", "files_end"}
  <2>1. k + l \in 1 .. k + l /\ ~(k + l <= k) /\ (k + l) - k = l
    BY <1>2, <1>3
  <2> QED
    BY <1>2, <1>4, <2>1
<1> QED
  BY <1>2, <1>6, <1>7 DEF Runs, w

-----------------------------------------------------------------------------
(* It can be done, and an undo brings about what it should.                *)

(* b are the lists that an undo under way is to bring back. *)
Answers(fs, b) == \A c \in fs : \A p \in Lists : b[p] = c.before[p]

(* The calls s can be made on the lists a, and answer. *)
Leads(s, a) == \E b \in AllVal : Path(Does, AllVal, s, a, b) /\ Answers(FinishesOf(s), b)

LEMMA LeadsOn ==
  ASSUME NEW s \in Seq(CallT), s # <<>>, NEW a, Leads(s, a)
  PROVE  \E b \in AllVal : a \in AllVal /\ Done(Head(s), a, b) /\ Leads(Tail(s), b)
<1>1. PICK c \in AllVal : Path(Does, AllVal, s, a, c) /\ Answers(FinishesOf(s), c)
  BY DEF Leads
<1>2. a \in AllVal
  BY <1>1, PathEnds
<1>3. PICK b \in AllVal : b \in Does[Head(s)][a] /\ Path(Does, AllVal, Tail(s), b, c)
  BY <1>1, PathFirst
<1>4. Head(s) \in CallT /\ ToSet(s) = {Head(s)} \cup ToSet(Tail(s))
  BY FirstAndRest
<1>5. Done(Head(s), a, b)
  BY <1>2, <1>3, <1>4, DoesKnown
<1>6. FinishesOf(Tail(s)) \subseteq FinishesOf(s)
  BY <1>4 DEF FinishesOf
<1>7. Answers(FinishesOf(Tail(s)), c)
  BY <1>1, <1>6 DEF Answers
<1>8. Leads(Tail(s), b)
  BY <1>3, <1>7 DEF Leads
<1> QED
  BY <1>2, <1>5, <1>8

LEMMA LeadsInstead ==
  ASSUME NEW u \in Seq(CallT), NEW t \in Seq(CallT), \A c \in ToSet(u) : c.do # "finish",
         NEW a, NEW b, Path(Does, AllVal, u, a, b), Leads(t, b)
  PROVE  Leads(Then(u, t), a) /\ FinishesOf(Then(u, t)) = FinishesOf(t)
<1>1. ToSet(Then(u, t)) = ToSet(u) \cup ToSet(t)
  BY Two
<1>2. FinishesOf(Then(u, t)) = FinishesOf(t)
  BY <1>1 DEF FinishesOf
<1>3. PICK c \in AllVal : Path(Does, AllVal, t, b, c) /\ Answers(FinishesOf(t), c)
  BY DEF Leads
<1>4. Path(Does, AllVal, Then(u, t), a, c)
  BY <1>3, PathBoth
<1> QED
  BY <1>2, <1>3, <1>4 DEF Leads

LEMMA LeadsStill ==
  ASSUME NEW s \in Seq(CallT), NEW a \in AllVal,
         \A n \in 1 .. Len(s) : s[n].do \notin {"remove", "insert", "move", "finish"}
  PROVE  Leads(s, a) /\ FinishesOf(s) = {}
<1>1. Len(s) \in Nat /\ \A n \in 1 .. Len(s) : s[n] \in CallT
  BY LenProperties, ElementOfSeq
<1>2. \A n \in 1 .. Len(s) : a \in Does[s[n]][a]
  BY <1>1, DoesNothing
<1>3. Path(Does, AllVal, s, a, a)
  BY <1>1, <1>2, PathStill
<1>4. FinishesOf(s) = {}
  BY <1>1, LenProperties DEF FinishesOf, ToSet
<1> QED
  BY <1>3, <1>4 DEF Leads, Answers

(* What undoes brings back something.                                      *)
Records(ops, s) ==
    FinishesOf(s) # {} =>
        ops # <<>> \/ \E c \in ToSet(s) : c.do \in {"remove", "insert"} /\ c.plt \in Lists

(* The program can be done, and an undo under way is one. *)
Ahead(lists, src, dst) ==
    Runs(program, src, dst) /\ Leads(program, lists) /\ Records(operations, program)

LEMMA AheadOn ==
  ASSUME NEW lists, NEW src, NEW dst, Ahead(lists, src, dst), program # <<>>,
         program' = Tail(program), NEW l2, Leads(Tail(program), l2),
         \/ operations' # <<>>
         \/ operations' = operations
            /\ ~(Head(program).do \in {"remove", "insert"} /\ Head(program).plt \in Lists)
  PROVE  Ahead(l2, src, dst)'
<1>1. /\ Runs(Tail(program), src, dst)
      /\ ToSet(program) = {Head(program)} \cup ToSet(Tail(program))
  BY RunsOn DEF Ahead
<1>2. FinishesOf(Tail(program)) \subseteq FinishesOf(program)
  BY <1>1 DEF FinishesOf
<1>3. Records(operations', Tail(program))
  BY <1>1, <1>2 DEF Ahead, Records
<1> QED
  BY <1>1, <1>3 DEF Ahead

(* When nothing is recorded, and what the command line is doing.           *)
Quiet(lists, dst) ==
    /\ program = <<>> /\ ~pending /\ adding = NULL => operations = <<>>
    /\ adder # NoAdder => program = <<>> /\ adding # NULL
    /\ adder.left > 0 => adder.after \in ToSet(lists[adding]) \cup {NULL}
    /\ adding # NULL => dst = adding

(* The inductive invariant, for the sequences lists that the links spell   *)
(* out, the items gone that plt_clear has yet to forget, and the lists src *)
(* and dst that removals and insertions are recorded for.                  *)
HistoryState(lists, gone, src, dst) ==
    /\ State(lists, gone) /\ Core(lists, gone, src, dst)
    /\ Ahead(lists, src, dst) /\ Quiet(lists, dst)

(* Such sequences and such lists there always are: see HistoryInvariant. *)
HistoryInv == \E lists, gone, src, dst : HistoryState(lists, gone, src, dst)

LEMMA NothingForgotten ==
  ASSUME NEW lists, NEW gone, State(lists, gone), program # <<>>,
         Head(program).do \notin {"group", "forget"}
  PROVE  gone = <<>>
<1>1. ProgramFits(program)
  BY DEF State
<1>2. /\ ToSet(program) = {Head(program)} \cup ToSet(Tail(program))
      /\ \A n \in 1 .. Len(Tail(program)) : Tail(program)[n].do # "forget"
      /\ Tail(program) \in Seq(CallT)
  BY <1>1, RestFits
<1>3. \A c \in ToSet(Tail(program)) : c.do # "forget"
  BY <1>2, LenProperties DEF ToSet
<1> QED
  BY <1>2, <1>3 DEF State, Forgets

(* The contract of plt_insert_item and plt_remove_item. *)
LEMMA Fits ==
  ASSUME NEW lists, NEW gone, NEW src, NEW dst, HistoryState(lists, gone, src, dst)
  PROVE  CallsFit
<1>1. State(lists, gone) /\ Ahead(lists, src, dst) /\ Quiet(lists, dst)
  BY DEF HistoryState
<1>2. /\ \A p \in AllLists : Tracks(p) = lists[p]
      /\ Forgotten = ToSet(gone)
  BY <1>1, StateSound
<1>3. program # <<>> => /\ Head(program) \in CallT
                        /\ \E b \in AllVal : lists \in AllVal /\ Done(Head(program), lists, b)
  BY <1>1, RunsKnown, RunsOn, LeadsOn DEF Ahead
<1>4. ASSUME Call("remove") PROVE Head(program).item \in ToSet(Tracks(Head(program).plt))
  <2>1. program # <<>> /\ Head(program).do = "remove"
    BY <1>4 DEF Call
  <2>2. PICK c \in CallT : c = Head(program)
    BY <1>3, <2>1
  <2>3. c.plt \in AllLists /\ c.item \in Items
    BY <2>1, <2>2, Kinds DEF RemoveT
  <2>4. PICK b : Takes(c, lists, b)
    BY <1>3, <2>1, <2>2 DEF Done
  <2>5. PICK u, v \in Seq(Items) : lists[c.plt] = With(u, c.item, v)
    BY <2>4 DEF Takes
  <2>6. c.item \in ToSet(With(u, c.item, v))
    BY <2>3, SetsOf
  <2> QED
    BY <1>2, <2>2, <2>3, <2>5, <2>6
<1>5. ASSUME Call("insert")
      PROVE  /\ Head(program).item \notin Forgotten \cup UNION {ToSet(Tracks(p)) : p \in AllLists}
             /\ Head(program).after \in ToSet(Tracks(Head(program).plt)) \cup {NULL}
  <2>1. program # <<>> /\ Head(program).do = "insert"
    BY <1>5 DEF Call
  <2>2. PICK c \in CallT : c = Head(program)
    BY <1>3, <2>1
  <2>3. c.plt \in AllLists /\ c.item \in Items
    BY <2>1, <2>2, Kinds DEF InsertT
  <2>4. PICK b : Gets(c, lists, b)
    BY <1>3, <2>1, <2>2 DEF Done
  <2>5. PICK u, v \in Seq(Items) : lists[c.plt] = Then(u, v) /\ EndOf(u) = c.after
    BY <2>4 DEF Gets
  <2>6. \A p \in AllLists : c.item \notin ToSet(lists[p])
    BY <2>4 DEF Gets
  <2>7. gone = <<>>
    BY <1>1, <2>1, NothingForgotten
  <2>8. ToSet(gone) = {}
    BY <2>7 DEF ToSet
  <2>9. c.after \in ToSet(lists[c.plt]) \cup {NULL}
    <3>1. EndOf(u) \in ToSet(u) \cup {NULL}
      BY EndKnown
    <3>2. ToSet(u) \subseteq ToSet(Then(u, v))
      BY Two
    <3> QED
      BY <2>5, <3>1, <3>2
  <2> QED
    BY <1>2, <2>2, <2>3, <2>6, <2>8, <2>9
<1>6. ASSUME adder.left > 0 PROVE adder.after \in ToSet(Tracks(adding)) \cup {NULL}
  <2>1. adding \in AllLists
    BY <1>1, <1>6 DEF State, Adding, AllLists
  <2> QED
    BY <1>1, <1>2, <1>6, <2>1 DEF Quiet
<1> QED
  BY <1>4, <1>5, <1>6 DEF CallsFit

LEMMA QuietOn ==
  ASSUME NEW lists, NEW dst, Quiet(lists, dst), Typed, program # <<>>,
         adder' = adder, adding' \in {adding, NULL}, program' = <<>> => pending', NEW l2
  PROVE  Quiet(l2, dst)'
<1>1. adder = NoAdder
  BY DEF Quiet
<1>2. ~(adder.left > 0)
  BY <1>1 DEF NoAdder
<1> QED
  BY <1>1, <1>2 DEF Quiet

(* Calls that neither insert nor remove. *)
LEMMA StillCall ==
  ASSUME NEW lists, NEW gone, NEW src, NEW dst, HistoryState(lists, gone, src, dst),
         DoGroup \/ DoEndGroup \/ DoUnlock \/ DoChanged \/ DoFilesEnd
  PROVE  HistoryState(lists, gone, src, dst)' /\ FinishesOf(program') = FinishesOf(program)
<1>1. /\ State(lists, gone) /\ Core(lists, gone, src, dst)
      /\ Ahead(lists, src, dst) /\ Quiet(lists, dst)
  BY DEF HistoryState
<1>2. /\ program # <<>> /\ program' = Tail(program)
      /\ Head(program).do \in {"group", "end_group", "unlock", "changed", "files_end"}
      /\ UNCHANGED <<undo_stack, redo_stack, base, operations, adder>>
      /\ adding' \in {adding, NULL}
      /\ Head(program).do \in {"changed", "files_end"} => pending'
  BY DEF DoGroup, DoEndGroup, DoUnlock, DoChanged, DoFilesEnd, Call, stacks
<1>3. State(lists, gone)'
  BY <1>1, GroupStep, FilesEndStep
<1>4. /\ Tail(program) = <<>> => Head(program).do \in {"changed", "files_end"}
      /\ ToSet(program) = {Head(program)} \cup ToSet(Tail(program))
      /\ program \in Seq(CallT)
  BY <1>1, <1>2, RunsOn, RunsKnown DEF Ahead
<1>5. PICK b : Done(Head(program), lists, b) /\ Leads(Tail(program), b)
  BY <1>1, <1>2, <1>4, LeadsOn DEF Ahead
<1>6. b = lists
  BY <1>2, <1>5 DEF Done
<1>7. FinishesOf(program') = FinishesOf(program)
  BY <1>2, <1>4 DEF FinishesOf
<1>8. Core(lists, gone, src, dst)'
  BY <1>1, <1>2, <1>7, CoreQuiet
<1>9. Ahead(lists, src, dst)'
  BY <1>1, <1>2, <1>5, <1>6, AheadOn
<1>10. Quiet(lists, dst)'
  BY <1>1, <1>2, <1>4, QuietOn DEF State
<1> QED
  BY <1>3, <1>7, <1>8, <1>9, <1>10 DEF HistoryState

(* What the first call does. *)
LEMMA FirstCall ==
  ASSUME NEW lists, NEW gone, NEW src, NEW dst, HistoryState(lists, gone, src, dst), program # <<>>
  PROVE  /\ State(lists, gone) /\ Core(lists, gone, src, dst) /\ Quiet(lists, dst) /\ Ahead(lists, src, dst)
         /\ CallsFit
         /\ Head(program) \in CallsAt(src, dst) /\ Head(program) \in CallT
         /\ program \in Seq(CallT) /\ Tail(program) \in Seq(CallT)
         /\ Runs(Tail(program), src, dst)
         /\ Tail(program) = <<>> => Head(program).do \in {"changed", "files_end"}
         /\ Head(program).do # "finish" => FinishesOf(Tail(program)) = FinishesOf(program)
         /\ \E b \in AllVal : lists \in AllVal /\ Done(Head(program), lists, b) /\ Leads(Tail(program), b)
<1>1. /\ State(lists, gone) /\ Core(lists, gone, src, dst)
      /\ Ahead(lists, src, dst) /\ Quiet(lists, dst)
  BY DEF HistoryState
<1>2. CallsFit
  BY Fits
<1>3. /\ program \in Seq(CallT) /\ Tail(program) \in Seq(CallT)
      /\ Head(program) \in CallsAt(src, dst) /\ Head(program) \in CallT
      /\ Tail(program) = <<>> => Head(program).do \in {"changed", "files_end"}
      /\ ToSet(program) = {Head(program)} \cup ToSet(Tail(program))
      /\ Runs(Tail(program), src, dst)
  BY <1>1, RunsOn, RunsKnown DEF Ahead
<1>4. Head(program).do # "finish" => FinishesOf(Tail(program)) = FinishesOf(program)
  BY <1>3 DEF FinishesOf
<1>5. \E b \in AllVal : lists \in AllVal /\ Done(Head(program), lists, b) /\ Leads(Tail(program), b)
  BY <1>1, <1>3, LeadsOn DEF Ahead
<1> QED
  BY <1>1, <1>2, <1>3, <1>4, <1>5

LEMMA RemoveCalled ==
  ASSUME NEW lists, NEW gone, NEW src, NEW dst, HistoryState(lists, gone, src, dst), DoRemove
  PROVE  /\ \E l2 : HistoryState(l2, <<>>, src, dst)'
         /\ FinishesOf(program') = FinishesOf(program)
<1>1. /\ program # <<>> /\ Head(program).do = "remove" /\ program' = Tail(program)
      /\ UNCHANGED <<adding, adder, undo_stack, redo_stack, base>>
  BY DEF DoRemove, Call, stacks
<1>2. /\ State(lists, gone) /\ Core(lists, gone, src, dst) /\ Quiet(lists, dst) /\ Ahead(lists, src, dst)
      /\ CallsFit
      /\ Head(program) \in CallsAt(src, dst)
      /\ Tail(program) # <<>> /\ FinishesOf(Tail(program)) = FinishesOf(program)
      /\ \E b \in AllVal : lists \in AllVal /\ Done(Head(program), lists, b) /\ Leads(Tail(program), b)
  BY <1>1, FirstCall
<1>3. PICK p \in AllLists, item \in Items : \E k \in 1 .. Len(lists[p]) : \E l2 :
            /\ Head(program).plt = p /\ Head(program).item = item /\ lists[p][k] = item
            /\ l2 = [lists EXCEPT ![p] = RemoveAt(lists[p], k)] /\ gone = <<>>
            /\ operations' = RemovalRecorded(p, <<item>>)
            /\ State(l2, <<>>)'
  BY <1>2, RemoveStep
<1>3a. PICK k \in 1 .. Len(lists[p]) : \E l2 :
            /\ Head(program).plt = p /\ Head(program).item = item /\ lists[p][k] = item
            /\ l2 = [lists EXCEPT ![p] = RemoveAt(lists[p], k)] /\ gone = <<>>
            /\ operations' = RemovalRecorded(p, <<item>>)
            /\ State(l2, <<>>)'
  BY <1>3
<1>4. PICK l2 :
            /\ Head(program).plt = p /\ Head(program).item = item /\ lists[p][k] = item
            /\ l2 = [lists EXCEPT ![p] = RemoveAt(lists[p], k)] /\ gone = <<>>
            /\ operations' = RemovalRecorded(p, <<item>>)
            /\ State(l2, <<>>)'
  BY <1>3a
<1>5. PICK b \in AllVal : Takes(Head(program), lists, b) /\ Leads(Tail(program), b)
  BY <1>1, <1>2 DEF Done
<1>6. PICK u, v \in Seq(Items) : lists[p] = With(u, item, v) /\ b = Put(lists, p, Then(u, v))
  BY <1>4, <1>5 DEF Takes
<1>7. RemoveAt(lists[p], k) = Then(u, v)
  <2>1. Distinct(lists[p])
    BY <1>2, StateLists
  <2>2. PICK s : s = lists[p]
    OBVIOUS
  <2>3. s = With(u, item, v) /\ Distinct(s) /\ k \in 1 .. Len(s) /\ s[k] = item
    BY <1>4, <1>6, <2>1, <2>2
  <2>4. RemoveAt(s, k) = Then(u, v)
    BY <2>3, RemovedParts
  <2> QED
    BY <2>2, <2>4
<1>8. l2 = b
  BY <1>4, <1>6, <1>7 DEF Put
<1>9. p # Incoming => p = src
  BY <1>1, <1>2, <1>4 DEF CallsAt
<1>10. Splits(lists[p], u, item, v)
  BY <1>6 DEF Splits
<1>11. /\ Core(Put(lists, p, Then(u, v)), <<>>, src, dst)'
       /\ p \in Lists => operations' # <<>>
  BY <1>1, <1>2, <1>4, <1>9, <1>10, CoreRemoved
<1>12. p \notin Lists => operations' = operations
  BY <1>4 DEF RemovalRecorded
<1>13. Ahead(b, src, dst)'
  BY <1>1, <1>2, <1>4, <1>5, <1>11, <1>12, AheadOn
<1>14. Quiet(b, dst)'
  BY <1>1, <1>2, QuietOn DEF State
<1>15. Core(b, <<>>, src, dst)' /\ State(b, <<>>)'
  BY <1>4, <1>6, <1>8, <1>11
<1>16. HistoryState(b, <<>>, src, dst)'
  BY <1>13, <1>14, <1>15 DEF HistoryState
<1> QED
  BY <1>1, <1>2, <1>16

LEMMA InsertCalled ==
  ASSUME NEW lists, NEW gone, NEW src, NEW dst, HistoryState(lists, gone, src, dst), DoInsert
  PROVE  /\ \E l2 : HistoryState(l2, <<>>, src, dst)'
         /\ FinishesOf(program') = FinishesOf(program)
<1>1. /\ program # <<>> /\ Head(program).do = "insert" /\ program' = Tail(program)
      /\ UNCHANGED <<adding, adder, undo_stack, redo_stack, base>>
  BY DEF DoInsert, Call, stacks
<1>2. /\ State(lists, gone) /\ Core(lists, gone, src, dst) /\ Quiet(lists, dst) /\ Ahead(lists, src, dst)
      /\ CallsFit
      /\ Head(program) \in CallsAt(src, dst)
      /\ Tail(program) # <<>> /\ FinishesOf(Tail(program)) = FinishesOf(program)
      /\ \E b \in AllVal : lists \in AllVal /\ Done(Head(program), lists, b) /\ Leads(Tail(program), b)
  BY <1>1, FirstCall
<1>3. PICK p \in AllLists, item \in Items : \E after \in ToSet(lists[p]) \cup {NULL}, k \in 0 .. Len(lists[p]) : \E l2 :
            /\ Head(program).plt = p /\ Head(program).item = item /\ Head(program).after = after
            /\ item \notin ToSet(gone) /\ \A q \in AllLists : item \notin ToSet(lists[q])
            /\ after = IF k = 0 THEN NULL ELSE lists[p][k]
            /\ l2 = [lists EXCEPT ![p] = InsertAt(lists[p], k + 1, item)]
            /\ operations' = InsertionRecorded(p, <<item>>)
            /\ failed' = failed
            /\ State(l2, gone)'
  BY <1>2, InsertStep
<1>3a. PICK k \in 0 .. Len(lists[p]) : \E l2 :
            /\ Head(program).plt = p /\ Head(program).item = item
            /\ Head(program).after = IF k = 0 THEN NULL ELSE lists[p][k]
            /\ l2 = [lists EXCEPT ![p] = InsertAt(lists[p], k + 1, item)]
            /\ operations' = InsertionRecorded(p, <<item>>)
            /\ State(l2, gone)'
  BY <1>3
<1>4. PICK l2 :
            /\ Head(program).plt = p /\ Head(program).item = item
            /\ Head(program).after = IF k = 0 THEN NULL ELSE lists[p][k]
            /\ l2 = [lists EXCEPT ![p] = InsertAt(lists[p], k + 1, item)]
            /\ operations' = InsertionRecorded(p, <<item>>)
            /\ State(l2, gone)'
  BY <1>3a
<1>5. PICK b \in AllVal : Gets(Head(program), lists, b) /\ Leads(Tail(program), b)
  BY <1>1, <1>2 DEF Done
<1>6. PICK u, v \in Seq(Items) : /\ lists[p] = Then(u, v) /\ EndOf(u) = Head(program).after
                                 /\ b = Put(lists, p, With(u, item, v))
  BY <1>4, <1>5 DEF Gets
<1>7. gone = <<>>
  BY <1>1, <1>2, NothingForgotten
<1>8. InsertAt(lists[p], k + 1, item) = With(u, item, v)
  <2>1. Distinct(lists[p])
    BY <1>2, StateLists
  <2>2. PICK s : s = lists[p]
    OBVIOUS
  <2>3. s = Then(u, v) /\ Distinct(s) /\ k \in 0 .. Len(s) /\ EndOf(u) = (IF k = 0 THEN NULL ELSE s[k])
    BY <1>4, <1>6, <2>1, <2>2
  <2>4. InsertAt(s, k + 1, item) = With(u, item, v)
    BY <2>3, InsertedParts
  <2> QED
    BY <2>2, <2>4
<1>9. l2 = b
  BY <1>4, <1>6, <1>8 DEF Put
<1>10. p = dst
  BY <1>1, <1>2, <1>4 DEF CallsAt
<1>11. Cuts(lists[dst], u, v)
  BY <1>6, <1>10 DEF Cuts
<1>12. Distinct(With(u, item, v))
  <2>1. Distinct(l2[p])
    BY <1>4 DEF State, LinkedAs
  <2>2. l2[p] = With(u, item, v)
    BY <1>2, <1>4, <1>8 DEF AllVal
  <2> QED
    BY <2>1, <2>2
<1>13. /\ Core(Put(lists, dst, With(u, item, v)), <<>>, src, dst)'
       /\ operations' # <<>>
  BY <1>1, <1>2, <1>4, <1>7, <1>10, <1>11, <1>12, CoreInserted
<1>14. Ahead(b, src, dst)'
  BY <1>1, <1>2, <1>5, <1>13, AheadOn
<1>15. Quiet(b, dst)'
  BY <1>1, <1>2, QuietOn DEF State
<1>16. Core(b, <<>>, src, dst)' /\ State(b, <<>>)'
  BY <1>4, <1>6, <1>7, <1>9, <1>10, <1>13
<1>17. HistoryState(b, <<>>, src, dst)'
  BY <1>14, <1>15, <1>16 DEF HistoryState
<1> QED
  BY <1>1, <1>2, <1>17

(* What a call is replaced with. *)
LEMMA AheadInstead ==
  ASSUME NEW lists, NEW src, NEW dst, NEW u \in Seq(CallsAt(src, dst)), NEW t,
         Runs(t, src, dst), t # <<>>,
         \A n \in 1 .. Len(u) : u[n].do = "move" =>
            n = Len(u) /\ \A m \in 1 .. Len(t) : t[m].do \in {"unlock", "changed"},
         \A n \in 1 .. Len(u) : u[n].do # "finish",
         NEW b, Path(Does, AllVal, u, lists, b), Leads(t, b),
         program' = u \o t, operations' # <<>> \/ FinishesOf(t) = {}
  PROVE  Ahead(lists, src, dst)' /\ FinishesOf(program') = FinishesOf(t) /\ program' # <<>>
<1>1. CallsAt(src, dst) \subseteq CallT
  BY DEF CallsAt
<1>2. u \in Seq(CallT) /\ t \in Seq(CallT)
  BY <1>1, SameSeq, RunsKnown
<1>3. \A c \in ToSet(u) : c.do # "finish"
  BY <1>2, LenProperties DEF ToSet
<1>4. Leads(Then(u, t), lists) /\ FinishesOf(Then(u, t)) = FinishesOf(t)
  BY <1>2, <1>3, LeadsInstead
<1>5. Runs(Then(u, t), src, dst)
  BY RunsBoth
<1>6. program' = Then(u, t)
  BY DEF Then
<1>7. program' # <<>>
  BY <1>2, ConcatSimplifications
<1>8. Records(operations', program')
  BY <1>4, <1>6 DEF Records
<1> QED
  BY <1>4, <1>5, <1>6, <1>7, <1>8 DEF Ahead

LEMMA ForgetCalled ==
  ASSUME NEW lists, NEW gone, NEW src, NEW dst, HistoryState(lists, gone, src, dst), DoForget
  PROVE  /\ \E g2 : HistoryState(lists, g2, src, dst)'
         /\ FinishesOf(program') = FinishesOf(program)
<1>1. /\ program # <<>> /\ Head(program).do = "forget"
      /\ UNCHANGED <<adding, adder, undo_stack, redo_stack, base>>
  BY DEF DoForget, Call, stacks
<1>2. /\ State(lists, gone) /\ Core(lists, gone, src, dst) /\ Quiet(lists, dst) /\ Ahead(lists, src, dst)
      /\ Head(program) \in CallsAt(src, dst) /\ Head(program) \in CallT
      /\ Tail(program) # <<>> /\ FinishesOf(Tail(program)) = FinishesOf(program)
      /\ Tail(program) \in Seq(CallT) /\ Runs(Tail(program), src, dst)
      /\ \E b \in AllVal : lists \in AllVal /\ Done(Head(program), lists, b) /\ Leads(Tail(program), b)
  BY <1>1, FirstCall
<1>3. PICK p \in AllLists, item \in Items, n \in Pointer :
            /\ Head(program).plt = p /\ gone # <<>> /\ item = gone[1]
            /\ operations' = RemovalRecorded(p, <<item>>)
            /\ program' = (IF n = NULL THEN <<>> ELSE <<ForgetCall(p, n)>>) \o Tail(program)
            /\ State(lists, Tail(gone))'
  BY <1>2, ForgetStep
<1>4. PICK b : Done(Head(program), lists, b) /\ Leads(Tail(program), b)
  BY <1>2
<1>5. b = lists
  BY <1>1, <1>4 DEF Done
<1>6. p = src
  BY <1>1, <1>2, <1>3 DEF CallsAt
<1>7. PICK t \in Seq(CallT) : t = Tail(program)
  BY <1>2
<1>8. PICK u : u = IF n = NULL THEN <<>> ELSE One(ForgetCall(p, n))
  OBVIOUS
<1>9. program' = u \o t
  BY <1>3, <1>7, <1>8 DEF One
<1>10. /\ u \in Seq(CallsAt(src, dst)) /\ Path(Does, AllVal, u, lists, lists)
       /\ \A m \in 1 .. Len(u) : u[m].do = "forget"
  <2>1. lists \in AllVal
    BY <1>2
  <2>2. CASE n = NULL
    <3>1. u = <<>>
      BY <1>8, <2>2
    <3> QED
      BY <2>1, <3>1, PathNone
  <2>3. CASE n # NULL
    <3>1. n \in Items
      BY <2>3 DEF Pointer
    <3>2. PICK c \in CallT : c = ForgetCall(p, n) /\ c.do = "forget"
      BY <3>1, CallsMade
    <3>3. c.plt = p
      BY <3>2 DEF ForgetCall
    <3>4. c \in CallsAt(src, dst)
      BY <1>6, <3>2, <3>3 DEF CallsAt
    <3>5. u = One(c)
      BY <1>8, <2>3, <3>2
    <3>6. Path(Does, AllVal, One(c), lists, lists)
      BY <2>1, <3>2, StillOne
    <3>7. One(c) \in Seq(CallsAt(src, dst)) /\ Len(One(c)) = 1 /\ One(c)[1] = c
      BY <3>4, OneKnown
    <3>8. \A m \in 1 .. Len(One(c)) : One(c)[m].do = "forget"
      BY <3>2, <3>7
    <3> QED
      BY <3>5, <3>6, <3>7, <3>8
  <2> QED
    BY <2>2, <2>3
<1>11. Core(lists, Tail(gone), src, dst)' /\ operations' # <<>>
  <2>1. FinishesOf(program') = FinishesOf(program)
    <3>1. CallsAt(src, dst) \subseteq CallT
      BY DEF CallsAt
    <3>2. u \in Seq(CallT)
      BY <1>10, <3>1, SameSeq
    <3>3. \A c \in ToSet(u) : c.do # "finish"
      BY <1>10, <3>2, LenProperties DEF ToSet
    <3>4. ToSet(u \o t) = ToSet(u) \cup ToSet(t)
      BY <3>2, SetOfBoth
    <3> QED
      BY <1>2, <1>7, <1>9, <3>3, <3>4 DEF FinishesOf
  <2> QED
    BY <1>1, <1>2, <1>3, <1>6, <2>1, CoreForgot
<1>12. Ahead(lists, src, dst)' /\ FinishesOf(program') = FinishesOf(t) /\ program' # <<>>
  <2>1. \A m \in 1 .. Len(u) : u[m].do # "finish" /\ u[m].do # "move"
    BY <1>10
  <2>2. Leads(t, lists) /\ Runs(t, src, dst) /\ t # <<>>
    BY <1>2, <1>4, <1>5, <1>7
  <2> QED
    BY <1>9, <1>10, <1>11, <2>1, <2>2, AheadInstead
<1>13. Quiet(lists, dst)'
  BY <1>1, <1>2, <1>12, QuietOn DEF State
<1>14. HistoryState(lists, Tail(gone), src, dst)'
  BY <1>3, <1>11, <1>12, <1>13 DEF HistoryState
<1> QED
  BY <1>2, <1>7, <1>12, <1>14

(* What follows an item of a list, and what comes before it. *)
LEMMA NextKnown ==
  ASSUME NEW lists, NEW gone, State(lists, gone), NEW p \in AllLists, NEW x \in ToSet(lists[p])
  PROVE  /\ next[x] \in ToSet(lists[p]) \cup {NULL} /\ next[x] # x /\ next[x] \in Pointer
         /\ x \in Items /\ \A q \in AllLists : x \in ToSet(lists[q]) => q = p
<1>1. /\ lists[p] \in Seq(Items) /\ Distinct(lists[p]) /\ Chained(next, lists[p], head[p])
      /\ \A q, r \in AllLists : q # r => ToSet(lists[q]) \cap ToSet(lists[r]) = {}
  BY StateLists
<1>2. PICK s \in Seq(Items) : s = lists[p]
  BY <1>1
<1>3. PICK k \in 1 .. Len(s) : s[k] = x
  BY <1>2, ListPosition
<1>4. Len(s) \in Nat /\ \A n \in 1 .. Len(s) : s[n] \in Items
  BY LenProperties, ElementOfSeq
<1>5. next[x] = IF k = Len(s) THEN NULL ELSE s[k + 1]
  BY <1>1, <1>2, <1>3 DEF Chained
<1>6. NULL \notin Items
  BY Constants
<1>7. CASE k = Len(s)
  BY <1>3, <1>4, <1>5, <1>6, <1>7, <1>1 DEF Pointer
<1>8. CASE k # Len(s)
  <2>1. k + 1 \in 1 .. Len(s) /\ k + 1 # k
    BY <1>4, <1>8
  <2>2. next[x] = s[k + 1]
    BY <1>5, <1>8
  <2>3. s[k + 1] # s[k]
    BY <1>1, <1>2, <2>1 DEF Distinct
  <2>4. s[k + 1] \in ToSet(s)
    BY <1>4, <2>1, LenProperties DEF ToSet
  <2> QED
    BY <1>1, <1>2, <1>3, <1>4, <2>1, <2>2, <2>3, <2>4 DEF Pointer
<1> QED
  BY <1>7, <1>8

(* Where the loop of plt_move_items puts an item that it takes out.        *)
Lands(e, p, after, u, v) == e[p] = Then(u, v) /\ EndOf(u) = after

LEMMA Landing ==
  ASSUME NEW e \in AllVal, NEW p \in AllLists, NEW after \in ToSet(e[p]) \cup {NULL}
  PROVE  \E u, v \in Seq(Items) : Lands(e, p, after, u, v)
<1>1. PICK s \in Seq(Items) : s = e[p]
  BY DEF AllVal
<1>2. CASE after = NULL
  <2>1. Then(<<>>, s) = s /\ <<>> \in Seq(Items)
    BY EmptyThen
  <2>2. EndOf(<<>>) = NULL
    BY DEF EndOf
  <2> QED
    BY <1>1, <1>2, <2>1, <2>2 DEF Lands
<1>3. CASE after # NULL
  <2>1. after \in ToSet(s)
    BY <1>1, <1>3
  <2>2. PICK a, v \in Seq(Items) : s = With(a, after, v)
    BY <2>1, Parted
  <2>3. after \in Items
    BY <2>1, ElementOfSeq, LenProperties DEF ToSet
  <2>4. PICK u \in Seq(Items) : u = Then(a, One(after))
    BY <2>3, OneKnown, Two
  <2>5. s = Then(u, v)
    BY <2>2, <2>4, WithThen
  <2>6. EndOf(u) = after
    BY <2>3, <2>4, EndKnown
  <2> QED
    BY <1>1, <2>5, <2>6 DEF Lands
<1> QED
  BY <1>2, <1>3

LEMMA ThreeCalls ==
  ASSUME NEW A, NEW r \in A, NEW i \in A, NEW m \in A
  PROVE  Then(One(r), Then(One(i), One(m))) = <<r, i, m>> /\ <<r, i, m>> \in Seq(A)
<1>1. <<r, i, m>> \in Seq(A)
  OBVIOUS
<1>2. <<r>> \o (<<i>> \o <<m>>) = <<r, i, m>>
  BY JoinedOnes
<1> QED
  BY <1>1, <1>2 DEF Then, One

LEMMA PutIn ==
  ASSUME NEW e \in AllVal, NEW p \in AllLists, NEW s \in Seq(Items)
  PROVE  \E b \in AllVal : b = Put(e, p, s) /\ b[p] = s /\ \A q \in AllLists : q # p => b[q] = e[q]
BY AllPut

(* One turn of plt_move_items: r takes the item out, i puts it in, m goes   *)
(* on with the item that came after it.                                    *)
Turn(r, i, m, src, dst, it, after, n) ==
    /\ r.do = "remove" /\ r.plt = src /\ r.item = it
    /\ i.do = "insert" /\ i.plt = dst /\ i.item = it /\ i.after = after
    /\ m.do = "move" /\ m.from = src /\ m.to = dst /\ m.it = n /\ m.drop_after = it

(* Taking out it, putting it in, and going on with the item after it.      *)
LEMMA MoveTurn ==
  ASSUME NEW lists, NEW gone, State(lists, gone),
         NEW src \in Lists, NEW dst \in Lists, NEW it \in ToSet(lists[src]),
         NEW drop_after \in ToSet(lists[dst]) \cup {NULL},
         NEW after, after = (IF drop_after = it THEN prev[it] ELSE drop_after),
         NEW r \in CallT, NEW i \in CallT, NEW m \in CallT, Turn(r, i, m, src, dst, it, after, next[it])
  PROVE  \E b \in AllVal : Path(Does, AllVal, <<r, i, m>>, lists, b)
<1>0. /\ lists \in AllVal
      /\ \A p \in AllLists : /\ Distinct(lists[p]) /\ lists[p] \in Seq(Items)
                             /\ ChainedBack(prev, lists[p], tail[p])
      /\ src \in AllLists /\ dst \in AllLists
  BY StateLists DEF AllLists
<1>1. /\ next[it] \in ToSet(lists[src]) \cup {NULL} /\ next[it] # it
      /\ it \in Items /\ \A q \in AllLists : it \in ToSet(lists[q]) => q = src
  BY <1>0, NextKnown
<1>2. PICK u, v \in Seq(Items) : lists[src] = With(u, it, v)
  BY <1>0, Parted
<1>3. prev[it] = EndOf(u)
  BY <1>0, <1>1, <1>2, PrevEnd
<1>4. /\ it \notin ToSet(u) /\ it \notin ToSet(v) /\ Distinct(Then(u, v))
  <2>1. Distinct(With(u, it, v))
    BY <1>0, <1>2
  <2> QED
    BY <1>1, <2>1, DistinctThree
<1>5. /\ ToSet(lists[src]) = ToSet(Then(u, v)) \cup {it} /\ it \notin ToSet(Then(u, v))
      /\ Then(u, v) \in Seq(Items)
  BY <1>1, <1>2, <1>4, SetsOf
<1>6. PICK e \in AllVal : e = Put(lists, src, Then(u, v))
  BY <1>0, <1>5, AllPut
<1>7. e[src] = Then(u, v) /\ \A q \in AllLists : q # src => e[q] = lists[q]
  BY <1>0, <1>5, <1>6, AllPut
<1>8. PICK w, z \in Seq(Items) : Lands(e, dst, after, w, z)
  <2>1. CASE drop_after = it
    <3>1. dst = src
      BY <1>0, <1>1, <2>1, Constants DEF AllLists
    <3>2. Lands(e, dst, after, u, v)
      BY <1>3, <1>7, <2>1, <3>1 DEF Lands
    <3> QED
      BY <3>2
  <2>2. CASE drop_after # it
    <3>1. after \in ToSet(e[dst]) \cup {NULL}
      BY <1>0, <1>5, <1>7, <2>2
    <3> QED
      BY <1>0, <3>1, Landing
  <2> QED
    BY <2>1, <2>2
<1>9. e[dst] = Then(w, z) /\ EndOf(w) = after
  BY <1>8 DEF Lands
<1>10. PICK f \in Seq(Items) : f = With(w, it, z) /\ ToSet(f) = ToSet(e[dst]) \cup {it}
  BY <1>1, <1>9, SetsOf
<1>11. PICK b \in AllVal : b = Put(e, dst, f) /\ b[dst] = f /\ \A q \in AllLists : q # dst => b[q] = e[q]
  BY <1>0, PutIn
<1>12. b[dst] = f /\ \A q \in AllLists : q # dst => b[q] = e[q]
  BY <1>11
<1>13. Takes(r, lists, e)
  BY <1>2, <1>6 DEF Takes, Turn
<1>14. Gets(i, e, b)
  <2>1. \A q \in AllLists : it \notin ToSet(e[q])
    BY <1>0, <1>1, <1>5, <1>7
  <2> QED
    BY <1>9, <1>10, <1>11, <2>1 DEF Gets, Turn
<1>15. Done(m, b, b)
  <2>1. next[it] \in ToSet(e[src]) \cup {NULL}
    BY <1>1, <1>5, <1>7
  <2>2. ToSet(e[src]) \subseteq ToSet(b[src])
    BY <1>0, <1>10, <1>12
  <2>3. it \in ToSet(b[dst])
    BY <1>10, <1>12
  <2> QED
    BY <2>1, <2>2, <2>3 DEF Done, Turn
<1>16. e \in Does[r][lists] /\ b \in Does[i][e] /\ b \in Does[m][b]
  BY <1>0, <1>13, <1>14, <1>15, DoesKnown DEF Done, Turn
<1>17. /\ Path(Does, AllVal, One(r), lists, e) /\ Path(Does, AllVal, One(i), e, b)
       /\ Path(Does, AllVal, One(m), b, b)
       /\ One(r) \in Seq(CallT) /\ One(i) \in Seq(CallT) /\ One(m) \in Seq(CallT)
  BY <1>0, <1>16, PathOne, OneKnown
<1>18. Then(One(i), One(m)) \in Seq(CallT) /\ Path(Does, AllVal, Then(One(i), One(m)), e, b)
  BY <1>17, PathBoth, Two
<1>19. Path(Does, AllVal, Then(One(r), Then(One(i), One(m))), lists, b)
  BY <1>17, <1>18, PathBoth
<1>20. Then(One(r), Then(One(i), One(m))) = <<r, i, m>>
  BY ThreeCalls
<1> QED
  BY <1>19, <1>20

LEMMA MoveCalled ==
  ASSUME NEW lists, NEW gone, NEW src, NEW dst, HistoryState(lists, gone, src, dst), DoMove
  PROVE  HistoryState(lists, gone, src, dst)' /\ FinishesOf(program') = FinishesOf(program)
<1>1. /\ program # <<>> /\ Head(program).do = "move"
      /\ UNCHANGED <<operations, adding, adder, undo_stack, redo_stack, base>>
  BY DEF DoMove, Call, stacks
<1>2. /\ State(lists, gone) /\ Core(lists, gone, src, dst) /\ Quiet(lists, dst) /\ Ahead(lists, src, dst)
      /\ Head(program) \in CallsAt(src, dst) /\ Head(program) \in CallT
      /\ Tail(program) # <<>> /\ FinishesOf(Tail(program)) = FinishesOf(program)
      /\ Tail(program) \in Seq(CallT) /\ Runs(Tail(program), src, dst)
      /\ \E b \in AllVal : lists \in AllVal /\ Done(Head(program), lists, b) /\ Leads(Tail(program), b)
  BY <1>1, FirstCall
<1>3. State(lists, gone)'
  BY <1>2, MoveStep
<1>4. PICK c \in CallsAt(src, dst) : c = Head(program) /\ c.do = "move"
  BY <1>1, <1>2
<1>5. /\ c \in CallT /\ c.from = src /\ c.to = dst
  BY <1>4 DEF CallsAt
<1>6. /\ c.it \in Pointer /\ c.drop_after \in Pointer /\ c.idx \in Nat /\ c.indexes \in Seq(Nat)
  BY <1>4, <1>5, Kinds DEF MoveT
<1>7. src \in Lists /\ dst \in Lists /\ src \in AllLists /\ dst \in AllLists
  BY <1>2 DEF Core, AllLists
<1>8. PICK b : Done(c, lists, b) /\ Leads(Tail(program), b)
  BY <1>2, <1>4
<1>9. /\ b = lists /\ lists \in AllVal
      /\ c.it \in ToSet(lists[src]) \cup {NULL} /\ c.drop_after \in ToSet(lists[dst]) \cup {NULL}
  BY <1>2, <1>4, <1>5, <1>8 DEF Done
<1>10. PICK t \in Seq(CallT) : t = Tail(program)
  BY <1>2
<1>11. \A m \in 1 .. Len(t) : t[m].do \in {"unlock", "changed"}
  BY <1>1, <1>2, <1>10, RunsOn DEF Ahead
<1>12. /\ \A a \in AllVal : Leads(t, a)
       /\ FinishesOf(t) = {}
  <2>1. \A m \in 1 .. Len(t) : t[m].do \notin {"remove", "insert", "move", "finish"}
    BY <1>11
  <2> QED
    BY <1>9, <2>1, LeadsStill
<1>13. t # <<>> /\ Runs(t, src, dst) /\ FinishesOf(t) = FinishesOf(program)
  BY <1>2, <1>10
<1>14. ASSUME program' = t
       PROVE  HistoryState(lists, gone, src, dst)' /\ FinishesOf(program') = FinishesOf(program)
  <2>1. Core(lists, gone, src, dst)'
    BY <1>1, <1>2, <1>13, <1>14, CoreQuiet
  <2>2. Ahead(lists, src, dst)'
    BY <1>1, <1>2, <1>8, <1>9, <1>10, <1>14, AheadOn
  <2>3. Quiet(lists, dst)'
    BY <1>1, <1>2, <1>13, <1>14, QuietOn DEF State
  <2> QED
    BY <1>3, <1>13, <1>14, <2>1, <2>2, <2>3 DEF HistoryState
<1>15. ASSUME NEW u \in Seq(CallsAt(src, dst)), program' = u \o t,
              \A n \in 1 .. Len(u) : u[n].do \in {"remove", "insert", "move"} /\ (u[n].do = "move" => n = Len(u)),
              NEW a \in AllVal, Path(Does, AllVal, u, lists, a)
       PROVE  HistoryState(lists, gone, src, dst)' /\ FinishesOf(program') = FinishesOf(program)
  <2>1. Leads(t, a)
    BY <1>12
  <2>2. \A n \in 1 .. Len(u) : u[n].do # "finish"
    BY <1>15
  <2>3. \A n \in 1 .. Len(u) : u[n].do = "move" =>
            n = Len(u) /\ \A m \in 1 .. Len(t) : t[m].do \in {"unlock", "changed"}
    BY <1>11, <1>15
  <2>4. Ahead(lists, src, dst)' /\ FinishesOf(program') = FinishesOf(t) /\ program' # <<>>
    BY <1>12, <1>13, <1>15, <2>1, <2>2, <2>3, AheadInstead
  <2>5. Core(lists, gone, src, dst)'
    BY <1>1, <1>2, <1>13, <2>4, CoreQuiet
  <2>6. Quiet(lists, dst)'
    BY <1>1, <1>2, <2>4, QuietOn DEF State
  <2> QED
    BY <1>3, <1>13, <2>4, <2>5, <2>6 DEF HistoryState
<1>16. CASE c.it = NULL \/ c.indexes = <<>>
  <2>1. program' = t
    BY <1>4, <1>10, <1>16 DEF DoMove
  <2> QED
    BY <1>14, <2>1
<1>17. CASE ~(c.it = NULL \/ c.indexes = <<>>) /\ c.idx = Head(c.indexes)
  <2>1. c.it \in ToSet(lists[src])
    BY <1>9, <1>17
  <2>2. /\ next[c.it] \in Pointer /\ c.it \in Items
    BY <1>2, <1>7, <2>1, NextKnown
  <2>3. c.idx + 1 \in Nat /\ Tail(c.indexes) \in Seq(Nat)
    BY <1>6, <1>17, FirstAndRest
  <2>4. PICK after : after = IF c.drop_after = c.it THEN prev[c.it] ELSE c.drop_after
    OBVIOUS
  <2>5. after \in Pointer
    BY <1>2, <1>6, <2>2, <2>4 DEF State, LinkedAs, LinkTypes
  <2>6. PICK r \in CallT : r = RemoveCall(src, c.it, 1) /\ r.do = "remove" /\ r.item = c.it
    BY <1>7, <2>2, CallsMade
  <2>7. PICK i \in CallT : i = InsertCall(dst, after, c.it, 1) /\ i.do = "insert" /\ i.item = c.it
    BY <1>7, <2>2, <2>5, CallsMade
  <2>8. PICK m \in CallT : m = MoveCall(dst, src, next[c.it], c.idx + 1, Tail(c.indexes), c.it) /\ m.do = "move"
    <3>1. PICK idx \in Nat : idx = c.idx + 1
      BY <2>3
    <3>2. PICK ixs \in Seq(Nat) : ixs = Tail(c.indexes)
      BY <2>3
    <3>3. PICK x \in Pointer : x = next[c.it]
      BY <2>2
    <3>4. PICK it \in Pointer : it = c.it
      BY <1>6
    <3>5. MoveCall(dst, src, x, idx, ixs, it) \in CallT /\ MoveCall(dst, src, x, idx, ixs, it).do = "move"
      BY <1>7, MoveMade
    <3> QED
      BY <3>1, <3>2, <3>3, <3>4, <3>5
  <2>9. /\ r.plt = src /\ i.plt = dst /\ i.after = after
        /\ m.from = src /\ m.to = dst /\ m.it = next[c.it] /\ m.drop_after = c.it
    BY <2>6, <2>7, <2>8 DEF RemoveCall, InsertCall, MoveCall
  <2>10. r \in CallsAt(src, dst) /\ i \in CallsAt(src, dst) /\ m \in CallsAt(src, dst)
    BY <2>6, <2>7, <2>8, <2>9 DEF CallsAt
  <2>11. PICK a \in AllVal : Path(Does, AllVal, <<r, i, m>>, lists, a)
    <3>1. PICK it \in ToSet(lists[src]) : it = c.it
      BY <2>1
    <3>2. PICK drop_after \in ToSet(lists[dst]) \cup {NULL} : drop_after = c.drop_after
      BY <1>9
    <3>3. after = IF drop_after = it THEN prev[it] ELSE drop_after
      BY <2>4, <3>1, <3>2
    <3>4. Turn(r, i, m, src, dst, it, after, next[it])
      BY <2>6, <2>7, <2>8, <2>9, <3>1 DEF Turn
    <3>5. State(lists, gone) /\ src \in Lists /\ dst \in Lists
      BY <1>2, <1>7
    <3> QED
      BY <3>3, <3>4, <3>5, MoveTurn
  <2>12. program' = <<r, i, m>> \o t
    BY <1>4, <1>5, <1>10, <1>17, <2>4, <2>6, <2>7, <2>8 DEF DoMove
  <2>13. PICK u \in Seq(CallsAt(src, dst)) : u = <<r, i, m>>
    BY <2>10, ThreeCalls
  <2>14. \A n \in 1 .. Len(u) : u[n].do \in {"remove", "insert", "move"} /\ (u[n].do = "move" => n = Len(u))
    BY <2>6, <2>7, <2>8, <2>13
  <2> QED
    BY <1>15, <2>11, <2>12, <2>13, <2>14
<1>18. CASE ~(c.it = NULL \/ c.indexes = <<>>) /\ c.idx # Head(c.indexes)
  <2>1. c.it \in ToSet(lists[src])
    BY <1>9, <1>18
  <2>2. /\ next[c.it] \in Pointer /\ next[c.it] \in ToSet(lists[src]) \cup {NULL}
    BY <1>2, <1>7, <2>1, NextKnown
  <2>3. c.idx + 1 \in Nat
    BY <1>6
  <2>4. PICK m \in CallT : m = MoveCall(dst, src, next[c.it], c.idx + 1, c.indexes, c.drop_after) /\ m.do = "move"
    BY <1>6, <1>7, <2>2, <2>3, MoveMade
  <2>5. m.from = src /\ m.to = dst /\ m.it = next[c.it] /\ m.drop_after = c.drop_after
    BY <2>4 DEF MoveCall
  <2>6. m \in CallsAt(src, dst)
    BY <2>4, <2>5 DEF CallsAt
  <2>7. Done(m, lists, lists)
    BY <1>9, <2>2, <2>4, <2>5 DEF Done
  <2>8. lists \in Does[m][lists]
    BY <1>9, <2>7, DoesKnown
  <2>9. Path(Does, AllVal, One(m), lists, lists)
    BY <1>9, <2>8, PathOne
  <2>10. program' = One(m) \o t
    BY <1>4, <1>5, <1>10, <1>18, <2>4 DEF DoMove, One
  <2>11. PICK u \in Seq(CallsAt(src, dst)) : u = One(m) /\ Len(u) = 1 /\ u[1] = m
    BY <2>6, OneKnown
  <2>12. \A n \in 1 .. Len(u) : u[n].do \in {"remove", "insert", "move"} /\ (u[n].do = "move" => n = Len(u))
    BY <2>4, <2>11
  <2> QED
    BY <1>9, <1>15, <2>9, <2>10, <2>11, <2>12
<1> QED
  BY <1>16, <1>17, <1>18

-----------------------------------------------------------------------------
(* The end of an undo, and undo_process.                                   *)

LEMMA NoneRunning ==
  ASSUME NEW s, FinishesOf(s) = {}, NEW u \in Seq(BearT), NEW type
  PROVE  u \o ExecutingIn(s, type) = u
<1>1. ExecutingIn(s, type) = <<>>
  BY ExecutingNone
<1> QED
  BY <1>1, ConcatEmptySeq

LEMMA OneRunning ==
  ASSUME NEW s, NEW f \in FinishT, FinishesOf(s) = {f}, NEW u \in Seq(BearT), NEW type
  PROVE  /\ f.type = type => u \o ExecutingIn(s, type) = Append(u, f)
         /\ f.type # type => u \o ExecutingIn(s, type) = u
<1>1. ExecutingIn(s, type) = IF f.type = type THEN <<f>> ELSE <<>>
  BY ExecutingOne
<1>2. f \in BearT
  BY DEF BearT
<1> QED
  BY <1>1, <1>2, ConcatEmptySeq, AppendIsConcat

(* What the lists were before is put on the other stack. *)
LEMMA Turned ==
  ASSUME NEW s \in Seq(BearT), NEW f \in BearT, NEW t \in Seq(BearT), NEW e \in BearT, NEW X,
         NEW now, e.before = now, Steps(Append(s, f), now, X), Steps(t, now, X),
         Path(Ops(X), Val, e.operations, f.before, e.before)
  PROVE  Steps(s, f.before, X) /\ Steps(Append(t, e), f.before, X)
<1>1. Steps(s, f.before, X)
  BY StepsPushed
<1> QED
  BY <1>1, StepsPushed

LEMMA ContentsShown ==
  ASSUME NEW lists, NEW gone, State(lists, gone)
  PROVE  Contents = Shown(lists) /\ Shown(lists) \in Val
<1>1. \A p \in AllLists : Tracks(p) = lists[p]
  BY ListsKnown
<1>2. \A p \in Lists : Tracks(p) = lists[p]
  BY <1>1 DEF AllLists
<1>3. lists \in AllVal
  BY StateLists
<1> QED
  BY <1>2, <1>3, ShownKnown, Zenon DEF Contents, Shown

LEMMA SameVal ==
  ASSUME NEW a \in Val, NEW b \in Val, \A p \in Lists : a[p] = b[p]
  PROVE  a = b
  BY DEF Val

(* The calls before it have brought about what it should. *)
LEMMA FinishReached ==
  ASSUME NEW lists, NEW gone, NEW src, NEW dst, HistoryState(lists, gone, src, dst), Call("finish")
  PROVE  /\ Head(program) \in FinishT /\ FinishesOf(program) = {Head(program)}
         /\ FinishesOf(Tail(program)) = {} /\ Tail(program) # <<>>
         /\ Head(program).before = Shown(lists)
         /\ gone = <<>> /\ operations # <<>>
<1> DEFINE f == Head(program)
           t == Tail(program)
<1>1. program # <<>> /\ f.do = "finish"
  BY DEF Call
<1>2. /\ State(lists, gone) /\ Ahead(lists, src, dst) /\ f \in CallT /\ program \in Seq(CallT)
      /\ t \in Seq(CallT) /\ (t = <<>> => f.do \in {"changed", "files_end"})
  BY <1>1, FirstCall, Zenon
<1>3. f \in FinishT
  BY <1>1, <1>2, Kinds
<1>4. gone = <<>>
  BY <1>1, <1>2, NothingForgotten
<1>5. /\ ProgramFits(program) /\ lists \in AllVal
  BY <1>2, StateLists DEF State
<1>6. /\ ToSet(program) = {f} \cup ToSet(t) /\ \A n \in 1 .. Len(t) : t[n].do # "finish"
      /\ f = program[1]
  BY <1>1, <1>5, RestFits
<1>7. FinishesOf(t) = {}
  BY <1>2, <1>6, LenProperties DEF FinishesOf, ToSet
<1>8. FinishesOf(program) = {f}
  BY <1>1, <1>6, <1>7 DEF FinishesOf
<1>9. t # <<>>
  BY <1>1, <1>2
<1>10. Len(program) = 2 /\ Len(t) = 1
  <2>1. Len(program) \in Nat /\ Len(program) > 0 /\ Len(t) = Len(program) - 1
    BY <1>1, <1>2, HeadTailProperties, LenProperties, EmptySeq
  <2>2. 1 \in 1 .. Len(program)
    BY <2>1
  <2>3. 1 = Len(program) - 1
    BY <1>1, <1>5, <1>6, <2>2 DEF ProgramFits
  <2> QED
    BY <2>1, <2>3
<1>11. Head(t) \in CallT /\ Tail(t) = <<>> /\ Head(t).do \in {"changed", "files_end"}
  <2>1. Head(t) \in CallT /\ Tail(t) \in Seq(CallT) /\ Len(Tail(t)) = 0
    BY <1>2, <1>9, <1>10, HeadTailProperties
  <2>2. Tail(t) = <<>>
    BY <2>1, EmptySeq
  <2>3. Runs(t, src, dst)
    BY <1>1, RunsOn, <1>2 DEF Ahead
  <2> QED
    BY <1>9, <2>1, <2>2, <2>3, RunsOn
<1>12. PICK b \in AllVal : Path(Does, AllVal, program, lists, b) /\ Answers(FinishesOf(program), b)
  BY <1>2 DEF Ahead, Leads
<1>13. PICK c \in AllVal : c \in Does[f][lists] /\ Path(Does, AllVal, t, c, b)
  BY <1>1, <1>2, <1>12, PathFirst
<1>14. c = lists
  <2>1. Done(f, lists, c)
    BY <1>2, <1>5, <1>13, DoesKnown
  <2> QED
    BY <1>1, <2>1 DEF Done
<1>15. PICK d \in AllVal : d \in Does[Head(t)][c] /\ Path(Does, AllVal, Tail(t), d, b)
  BY <1>2, <1>9, <1>13, PathFirst
<1>16. d = lists
  <2>1. Done(Head(t), c, d)
    BY <1>11, <1>15, DoesKnown
  <2> QED
    BY <1>11, <1>14, <2>1 DEF Done
<1>17. b = lists
  <2>1. Path(Does, AllVal, <<>>, d, b)
    BY <1>11, <1>15, Zenon
  <2>2. d = b
    BY <2>1, PathNone
  <2> QED
    BY <1>16, <2>2
<1>18. f.before = Shown(lists)
  <2>1. f.before \in Val /\ Shown(lists) \in Val
    BY <1>3, <1>5, ShownKnown DEF FinishT, Val
  <2>2. \A p \in Lists : lists[p] = f.before[p]
    BY <1>8, <1>12, <1>17 DEF Answers
  <2>3. \A p \in Lists : Shown(lists)[p] = f.before[p]
    BY <1>5, <2>2, ShownKnown
  <2> HIDE DEF f
  <2> QED
    BY <2>1, <2>3, SameVal
<1>19. operations # <<>>
  <2>1. ToSet(t) = {Head(t)} \cup ToSet(Tail(t))
    BY <1>9, <1>2, FirstAndRest
  <2>2. ToSet(Tail(t)) = {}
    BY <1>11, EmptyProgram
  <2>3. \A x \in ToSet(program) : x.do \notin {"remove", "insert"}
    BY <1>1, <1>6, <1>11, <2>1, <2>2
  <2> QED
    BY <1>2, <1>8, <2>3 DEF Ahead, Records
<1> QED
  BY <1>3, <1>4, <1>7, <1>8, <1>9, <1>18, <1>19

(* The stacks of a state whose program finishes nothing. *)
LEMMA StacksQuiet ==
  ASSUME NEW lists, NEW gone, State(lists, gone), FinishesOf(program) = {}
  PROVE  Past = undo_stack /\ Future = redo_stack
<1>1. undo_stack \in Seq(BearT) /\ redo_stack \in Seq(BearT)
  BY StacksKnown
<1> QED
  BY <1>1, NoneRunning DEF Past, Future

LEMMA StacksFinishing ==
  ASSUME NEW lists, NEW gone, State(lists, gone), NEW f \in FinishT, FinishesOf(program) = {f}
  PROVE  /\ f.type = "undo" => Past = Append(undo_stack, f) /\ Future = redo_stack
         /\ f.type = "redo" => Past = undo_stack /\ Future = Append(redo_stack, f)
<1>1. undo_stack \in Seq(BearT) /\ redo_stack \in Seq(BearT)
  BY StacksKnown
<1>2. /\ f.type = "undo" => Past = Append(undo_stack, f)
      /\ f.type # "undo" => Past = undo_stack
  BY <1>1, OneRunning, SMTT(30) DEF Past
<1>3. /\ f.type = "redo" => Future = Append(redo_stack, f)
      /\ f.type # "redo" => Future = redo_stack
  BY <1>1, OneRunning, SMTT(30) DEF Future
<1> QED
  BY <1>2, <1>3

LEMMA EntryRecorded ==
  ASSUME Typed, NEW src \in Lists, NEW dst \in Lists, operations \in Seq(OpsAt(src, dst)), operations # <<>>
  PROVE  Entry(operations) \in EntryAt /\ Entry(operations).operations = operations
         /\ Entry(operations).before = base
<1>1. Entry(operations) \in EntryT /\ Entry(operations).operations = operations
  BY EntryMade
<1>2. Entry(operations).before = base
  BY DEF Entry
<1> QED
  BY <1>1, <1>2 DEF EntryAt

LEMMA FinishCalled ==
  ASSUME NEW lists, NEW gone, NEW src, NEW dst, HistoryState(lists, gone, src, dst), DoFinish
  PROVE  HistoryState(lists, gone, src, dst)'
<1> DEFINE f == Head(program)
           e == Entry(operations)
           X == ToSet(lists[Incoming])
           G == /\ undo_stack' \in Seq(EntryAt) /\ redo_stack' \in Seq(EntryAt)
                /\ Steps(undo_stack', base', X) /\ Steps(redo_stack', base', X)
                /\ undo_stack' \in Seq(BearT) /\ redo_stack' \in Seq(BearT)
<1>1. /\ Call("finish") /\ program # <<>> /\ program' = Tail(program)
      /\ operations' = <<>> /\ base' = Contents /\ UNCHANGED <<adder, adding>>
  BY DEF DoFinish, Call
<1>2. /\ State(lists, gone) /\ Core(lists, gone, src, dst) /\ Quiet(lists, dst) /\ Ahead(lists, src, dst)
      /\ program \in Seq(CallT)
  BY <1>1, FirstCall
<1>3. /\ f \in FinishT /\ FinishesOf(program) = {f} /\ f.type \in {"undo", "redo"}
      /\ FinishesOf(program') = {} /\ program' # <<>>
      /\ f.before = Shown(lists) /\ gone = <<>> /\ operations # <<>>
  BY <1>1, FinishReached DEF FinishT
<1>4. State(lists, gone)'
  BY <1>2, FinishStep
<1>5. base' = Shown(lists) /\ Shown(lists) \in Val /\ Whole(lists, <<>>, src) = Shown(lists)
  BY <1>1, <1>2, ContentsShown, StateLists, ShownKnown
<1>6. e \in EntryAt /\ e.operations = operations /\ e.before = base /\ src \in Lists /\ dst \in Lists
  BY <1>2, <1>3, EntryRecorded DEF Core, State
<1>7. /\ undo_stack \in Seq(EntryAt) /\ redo_stack \in Seq(EntryAt)
      /\ Steps(Past, base, X) /\ Steps(Future, base, X)
      /\ Path(Ops(X), Val, operations, Shown(lists), base)
  BY <1>2, <1>3, <1>5 DEF Core
<1>8. /\ undo_stack \in Seq(BearT) /\ redo_stack \in Seq(BearT) /\ f \in BearT /\ e \in BearT
  BY <1>2, <1>3, <1>6, StacksKnown DEF BearT, EntryAt
<1>9. ASSUME f.type = "undo" PROVE G
  <2>1. Past = Append(undo_stack, f) /\ Future = redo_stack
    BY <1>2, <1>3, <1>9, StacksFinishing
  <2>2. undo_stack' = undo_stack /\ redo_stack' = Append(redo_stack, e)
    BY <1>3, <1>9 DEF DoFinish, stacks
  <2>3. Steps(Append(undo_stack, f), base, X) /\ Steps(redo_stack, base, X)
        /\ Path(Ops(X), Val, e.operations, f.before, e.before)
    BY <1>3, <1>6, <1>7, <2>1
  <2> HIDE DEF e, f, X
  <2>4. Steps(undo_stack, f.before, X) /\ Steps(Append(redo_stack, e), f.before, X)
    BY <1>6, <1>8, <2>3, Turned
  <2>5. /\ Append(redo_stack, e) \in Seq(EntryAt) /\ Append(redo_stack, e) \in Seq(BearT)
    BY <1>6, <1>7, <1>8, AppendProperties
  <2>6. /\ undo_stack' \in Seq(EntryAt) /\ redo_stack' \in Seq(EntryAt)
        /\ Steps(undo_stack', base', X) /\ Steps(redo_stack', base', X)
        /\ undo_stack' \in Seq(BearT) /\ redo_stack' \in Seq(BearT)
    BY <1>3, <1>5, <1>7, <1>8, <2>2, <2>4, <2>5
  <2> QED
    BY <2>6
<1>10. ASSUME f.type = "redo" PROVE G
  <2>1. Past = undo_stack /\ Future = Append(redo_stack, f)
    BY <1>2, <1>3, <1>10, StacksFinishing
  <2>2. redo_stack' = redo_stack /\ undo_stack' = Append(undo_stack, e)
    BY <1>3, <1>10 DEF DoFinish, stacks
  <2>3. Steps(Append(redo_stack, f), base, X) /\ Steps(undo_stack, base, X)
        /\ Path(Ops(X), Val, e.operations, f.before, e.before)
    BY <1>3, <1>6, <1>7, <2>1
  <2> HIDE DEF e, f, X
  <2>4. Steps(redo_stack, f.before, X) /\ Steps(Append(undo_stack, e), f.before, X)
    BY <1>6, <1>8, <2>3, Turned
  <2>5. /\ Append(undo_stack, e) \in Seq(EntryAt) /\ Append(undo_stack, e) \in Seq(BearT)
    BY <1>6, <1>7, <1>8, AppendProperties
  <2>6. /\ undo_stack' \in Seq(EntryAt) /\ redo_stack' \in Seq(EntryAt)
        /\ Steps(undo_stack', base', X) /\ Steps(redo_stack', base', X)
        /\ undo_stack' \in Seq(BearT) /\ redo_stack' \in Seq(BearT)
    BY <1>3, <1>5, <1>7, <1>8, <2>2, <2>4, <2>5
  <2> QED
    BY <2>6
<1>11. /\ undo_stack' \in Seq(EntryAt) /\ redo_stack' \in Seq(EntryAt)
       /\ Steps(undo_stack', base', X) /\ Steps(redo_stack', base', X)
       /\ undo_stack' \in Seq(BearT) /\ redo_stack' \in Seq(BearT)
  BY <1>3, <1>9, <1>10
<1> HIDE DEF f, e
<1>12. Past' = undo_stack' /\ Future' = redo_stack'
  BY <1>3, <1>11, NoneRunning DEF Past, Future
<1>13. Path(Ops(X), Val, operations', Whole(lists, gone, src), base')
  BY <1>1, <1>3, <1>5, PathNone
<1>14. operations' \in Seq(OpsAt(src, dst))
  BY <1>1
<1>15. Core(lists, gone, src, dst)'
  BY <1>6, <1>11, <1>12, <1>13, <1>14 DEF Core
<1>16. Ahead(lists, src, dst)'
  <2>1. Runs(program', src, dst)
    BY <1>1, <1>2, RunsOn DEF Ahead
  <2>2. PICK b : Done(Head(program), lists, b) /\ Leads(Tail(program), b)
    BY <1>1, <1>2, LeadsOn DEF Ahead
  <2>3. b = lists
    BY <1>1, <2>2 DEF Call, Done
  <2> QED
    BY <1>1, <1>3, <2>1, <2>2, <2>3 DEF Ahead, Records
<1>17. Quiet(lists, dst)'
  BY <1>1, <1>2, <1>3, QuietOn DEF State
<1> QED
  BY <1>4, <1>15, <1>16, <1>17 DEF HistoryState

LEMMA EmptyAhead ==
  ASSUME NEW lists \in AllVal, NEW src, NEW dst, NEW s, s = <<>>
  PROVE  Runs(s, src, dst) /\ Leads(s, lists) /\ FinishesOf(s) = {}
<1>1. s \in Seq(CallT) /\ Len(s) = 0 /\ s \in Seq(CallsAt(src, dst))
  OBVIOUS
<1>2. Runs(s, src, dst)
  BY <1>1 DEF Runs
<1>3. \A n \in 1 .. Len(s) : s[n].do \notin {"remove", "insert", "move", "finish"}
  BY <1>1
<1>4. Leads(s, lists) /\ FinishesOf(s) = {}
  BY <1>1, <1>3, LeadsStill
<1> QED
  BY <1>2, <1>4

LEMMA Processed ==
  ASSUME NEW lists, NEW gone, NEW src, NEW dst, HistoryState(lists, gone, src, dst), Process
  PROVE  HistoryState(lists, gone, src, dst)'
<1> DEFINE e == Entry(operations)
           X == ToSet(lists[Incoming])
           G == /\ undo_stack' \in Seq(EntryAt) /\ redo_stack' \in Seq(EntryAt)
                /\ Steps(undo_stack', base', X) /\ Steps(redo_stack', base', X)
                /\ undo_stack' \in Seq(BearT) /\ redo_stack' \in Seq(BearT)
<1>1. /\ program = <<>> /\ program' = <<>> /\ operations' = <<>> /\ base' = Contents
      /\ UNCHANGED <<adder, adding>>
  BY DEF Process
<1>2. /\ State(lists, gone) /\ Core(lists, gone, src, dst) /\ Quiet(lists, dst)
  BY DEF HistoryState
<1>3. gone = <<>> /\ lists \in AllVal
  BY <1>1, <1>2, NothingGone, StateLists
<1>4. State(lists, gone)'
  BY <1>2, ProcessStep
<1>5. base' = Shown(lists) /\ Shown(lists) \in Val /\ Whole(lists, <<>>, src) = Shown(lists)
  BY <1>1, <1>2, <1>3, ContentsShown, ShownKnown
<1>6. FinishesOf(program) = {} /\ FinishesOf(program') = {}
  BY <1>1, <1>3, EmptyAhead
<1>7. Past = undo_stack /\ Future = redo_stack
      /\ undo_stack \in Seq(BearT) /\ redo_stack \in Seq(BearT)
  BY <1>2, <1>6, StacksQuiet, StacksKnown
<1>8. /\ undo_stack \in Seq(EntryAt) /\ redo_stack \in Seq(EntryAt)
      /\ Steps(undo_stack, base, X) /\ Steps(redo_stack, base, X)
      /\ Path(Ops(X), Val, operations, Shown(lists), base)
      /\ src \in Lists /\ dst \in Lists /\ operations \in Seq(OpsAt(src, dst)) /\ base \in Val
  BY <1>2, <1>3, <1>5, <1>7 DEF Core, State, Typed, Val
<1>9. ASSUME operations = <<>> PROVE G
  <2>1. undo_stack' = undo_stack /\ redo_stack' = redo_stack
    BY <1>9 DEF Process, stacks
  <2>2. Path(Ops(X), Val, <<>>, Shown(lists), base)
    BY <1>8, <1>9, Zenon
  <2>3. base' = base
    BY <1>5, <1>8, <2>2, PathNone
  <2> QED
    BY <1>7, <1>8, <2>1, <2>3
<1>10. ASSUME operations # <<>> PROVE G
  <2>1. undo_stack' = Append(undo_stack, e) /\ redo_stack' = <<>>
    BY <1>10 DEF Process
  <2>2. e \in EntryAt /\ e.operations = operations /\ e.before = base
    BY <1>2, <1>8, <1>10, EntryRecorded DEF State
  <2>3. e \in BearT
    BY <2>2 DEF BearT, EntryAt
  <2> HIDE DEF e, X
  <2>4. Path(Ops(X), Val, e.operations, Shown(lists), e.before) /\ Steps(undo_stack, e.before, X)
    BY <1>8, <2>2
  <2>5. Steps(Append(undo_stack, e), Shown(lists), X)
    BY <1>7, <2>3, <2>4, StepsPushed
  <2>6. Append(undo_stack, e) \in Seq(EntryAt) /\ Append(undo_stack, e) \in Seq(BearT)
    BY <1>7, <1>8, <2>2, <2>3, AppendProperties
  <2>7. Steps(<<>>, Shown(lists), X) /\ <<>> \in Seq(EntryAt) /\ <<>> \in Seq(BearT)
    BY StepsNone
  <2> QED
    BY <1>5, <2>1, <2>5, <2>6, <2>7
<1>11. /\ undo_stack' \in Seq(EntryAt) /\ redo_stack' \in Seq(EntryAt)
       /\ Steps(undo_stack', base', X) /\ Steps(redo_stack', base', X)
       /\ undo_stack' \in Seq(BearT) /\ redo_stack' \in Seq(BearT)
  BY <1>9, <1>10
<1>12. Past' = undo_stack' /\ Future' = redo_stack'
  BY <1>6, <1>11, NoneRunning DEF Past, Future
<1>13. Path(Ops(X), Val, operations', Whole(lists, gone, src), base')
  BY <1>1, <1>3, <1>5, PathNone
<1>14. operations' \in Seq(OpsAt(src, dst))
  BY <1>1
<1>15. Core(lists, gone, src, dst)'
  BY <1>8, <1>11, <1>12, <1>13, <1>14 DEF Core
<1>16. Ahead(lists, src, dst)'
  BY <1>1, <1>3, EmptyAhead DEF Ahead, Records
<1>17. Quiet(lists, dst)'
  BY <1>1, <1>2 DEF Quiet
<1> QED
  BY <1>4, <1>15, <1>16, <1>17 DEF HistoryState

-----------------------------------------------------------------------------
(* The program of an undo.                                                 *)

LEMMA JoinedHas ==
  ASSUME NEW S, NEW ss \in Seq(Seq(S)), NEW n \in 1 .. Len(ss), NEW c \in ToSet(ss[n])
  PROVE  c \in ToSet(Joined(ss))
<1>1. PICK f \in [0 .. Len(ss) -> Seq(S)] : JoinedBy(f, ss) /\ Joined(ss) = f[Len(ss)]
  BY JoinedSteps
<1> DEFINE L == Len(ss)
           M == {m \in 0 .. L : m < n \/ c \in ToSet(f[m])}
<1>2. L \in Nat /\ \A m \in 1 .. L : ss[m] \in Seq(S)
  BY LenProperties, ElementOfSeq
<1>3. \A m \in 1 .. L : f[m] = f[m - 1] \o ss[m]
  BY <1>1, <1>2, JoinedStep
<1> HIDE DEF L
<1>4. 0 \in M
  BY <1>2 DEF L
<1>5. \A m \in 1 .. L : m - 1 \in M => m \in M
  <2> TAKE m \in 1 .. L
  <2> HAVE m - 1 \in M
  <2>0. m \in 0 .. L /\ m - 1 \in 0 .. L
    BY <1>2
  <2>1. f[m - 1] \in Seq(S) /\ ss[m] \in Seq(S) /\ m \in 0 .. L /\ m - 1 \in 0 .. L
    BY <1>1, <1>2, <2>0 DEF L
  <2>2. f[m] = f[m - 1] \o ss[m]
    BY <1>3
  <2>3. ToSet(f[m - 1] \o ss[m]) = ToSet(f[m - 1]) \cup ToSet(ss[m])
    BY <2>1, SetOfBoth
  <2>4. n = m => c \in ToSet(f[m])
    BY <2>2, <2>3
  <2>5. c \in ToSet(f[m - 1]) => c \in ToSet(f[m])
    BY <2>2, <2>3
  <2>6. m - 1 < n => m < n \/ n = m
    BY <1>2 DEF L
  <2> QED
    BY <2>1, <2>4, <2>5, <2>6
<1> HIDE DEF M
<1>6. \A m \in 0 .. L : m \in M
  BY <1>2, <1>4, <1>5, UpTo
<1>7. L \in 0 .. L /\ ~(L < n)
  BY <1>2 DEF L
<1>8. L \in M
  BY <1>6, <1>7
<1>9. c \in ToSet(f[L])
  BY <1>7, <1>8 DEF M
<1> QED
  BY <1>1, <1>9 DEF L

(* Calls that move nothing on and finish nothing. *)
Steady(src, dst) == {c \in CallsAt(src, dst) : c.do \notin {"move", "finish", "files_end"}}

LEMMA SteadyMade ==
  ASSUME NEW src \in Lists, NEW dst \in AllLists
  PROVE  /\ \A p \in Lists \cup {NULL} : Group(p) \in Steady(src, dst)
         /\ EndGroup \in Steady(src, dst) /\ Changed \in Steady(src, dst)
         /\ \A p \in AllLists, s \in Seq(Items) : UnlockCall(p, s) \in Steady(src, dst)
         /\ \A i \in Items, h \in {-1, 0, 1} :
                RemoveCall(src, i, h) \in Steady(src, dst) /\ RemoveCall(Incoming, i, h) \in Steady(src, dst)
         /\ \A i \in Items, a \in Pointer, r \in {0, 1} : InsertCall(dst, a, i, r) \in Steady(src, dst)
<1>1. src \in AllLists /\ Incoming \in AllLists
  BY DEF AllLists
<1>2. \A i \in Items, h \in {-1, 0, 1} :
        RemoveCall(src, i, h).plt = src /\ RemoveCall(Incoming, i, h).plt = Incoming
  BY DEF RemoveCall
<1>3. \A i \in Items, a \in Pointer, r \in {0, 1} : InsertCall(dst, a, i, r).plt = dst
  BY DEF InsertCall
<1>4. \A p \in Lists \cup {NULL} : Group(p) \in Steady(src, dst)
  BY CallsMade DEF Steady, CallsAt
<1>5. EndGroup \in Steady(src, dst) /\ Changed \in Steady(src, dst)
  BY CallsMade DEF Steady, CallsAt
<1>6. \A p \in AllLists, s \in Seq(Items) : UnlockCall(p, s) \in Steady(src, dst)
  BY CallsMade DEF Steady, CallsAt
<1>7. \A i \in Items, h \in {-1, 0, 1} :
         RemoveCall(src, i, h) \in Steady(src, dst) /\ RemoveCall(Incoming, i, h) \in Steady(src, dst)
  BY <1>1, <1>2, CallsMade DEF Steady, CallsAt
<1>8. \A i \in Items, a \in Pointer, r \in {0, 1} : InsertCall(dst, a, i, r) \in Steady(src, dst)
  BY <1>3, CallsMade DEF Steady, CallsAt
<1> QED
  BY <1>4, <1>5, <1>6, <1>7, <1>8

LEMMA RemovalsSteady ==
  ASSUME NEW src \in Lists, NEW dst \in AllLists, NEW p \in {src, Incoming}, NEW s \in Seq(Items),
         NEW hold \in {-1, 0, 1}
  PROVE  RemoveCalls(p, s, hold) \in Seq(Steady(src, dst))
<1>1. DOMAIN s = 1 .. Len(s) /\ Len(s) \in Nat /\ \A k \in 1 .. Len(s) : s[k] \in Items
  BY LenProperties, ElementOfSeq
<1>2. \A k \in 1 .. Len(s) : RemoveCall(p, s[k], hold) \in Steady(src, dst)
  BY <1>1, SteadyMade
<1> DEFINE r == RemoveCalls(p, s, hold)
<1>3. r = [k \in 1 .. Len(s) |-> RemoveCall(p, s[k], hold)]
  BY <1>1 DEF RemoveCalls
<1>4. r \in [1 .. Len(s) -> Steady(src, dst)]
  BY <1>2, <1>3
<1> HIDE DEF r
<1>5. r \in Seq(Steady(src, dst))
  BY <1>1, <1>4
<1> QED
  BY <1>5 DEF r

LEMMA InsertionsSteady ==
  ASSUME NEW src \in Lists, NEW dst \in AllLists, NEW s \in Seq(Items), NEW after \in Pointer
  PROVE  InsertCalls(dst, after, s) \in Seq(Steady(src, dst))
<1> DEFINE from(k) == IF k = 1 THEN after ELSE s[k - 1]
           r == InsertCalls(dst, after, s)
<1>1. DOMAIN s = 1 .. Len(s) /\ Len(s) \in Nat /\ \A k \in 1 .. Len(s) : s[k] \in Items /\ s[k] \in Pointer
  BY LenProperties, ElementOfSeq DEF Pointer
<1>2. \A k \in 1 .. Len(s) : from(k) \in Pointer
  <2> TAKE k \in 1 .. Len(s)
  <2>1. k # 1 => k - 1 \in 1 .. Len(s)
    BY <1>1
  <2> QED
    BY <1>1, <2>1
<1>3. r = [k \in 1 .. Len(s) |-> InsertCall(dst, from(k), s[k], 0)]
  BY <1>1 DEF InsertCalls
<1> HIDE DEF from
<1>4. \A k \in 1 .. Len(s) : InsertCall(dst, from(k), s[k], 0) \in Steady(src, dst)
  BY <1>1, <1>2, SteadyMade
<1>5. r \in [1 .. Len(s) -> Steady(src, dst)]
  BY <1>3, <1>4
<1> HIDE DEF r
<1>6. r \in Seq(Steady(src, dst))
  BY <1>1, <1>5
<1> QED
  BY <1>6 DEF r

(* An operation is undone in the lists it was recorded for, and changes one. *)
LEMMA PerformSteady ==
  ASSUME NEW src \in Lists, NEW dst \in Lists, NEW o \in OpsAt(src, dst)
  PROVE  /\ Perform(o) \in Seq(Steady(dst, src))
         /\ \E c \in ToSet(Perform(o)) : c.do \in {"remove", "insert"} /\ c.plt \in Lists
<1> DEFINE s == o.items
           p == o.plt
           S == Steady(dst, src)
           b == IF o.perform = "remove" THEN RemoveCalls(p, s, 0) ELSE InsertCalls(p, o.position, s)
           g == One(Group(p))
           e == One(EndGroup)
<1>1. /\ o \in OpT /\ p = (IF o.perform = "insert" THEN src ELSE dst) /\ o.perform \in {"insert", "remove"}
      /\ s \in Seq(Items) /\ s # <<>> /\ o.position \in Pointer /\ p \in Lists /\ src \in AllLists
  BY DEF OpsAt, OpT, AllLists
<1>2. g \in Seq(S) /\ e \in Seq(S)
  BY <1>1, SteadyMade, OneKnown
<1>3. b \in Seq(S)
  <2>1. CASE o.perform = "remove"
    BY <1>1, <2>1, RemovalsSteady
  <2>2. CASE o.perform = "insert"
    BY <1>1, <2>2, InsertionsSteady
  <2> QED
    BY <1>1, <2>1, <2>2
<1>4. Perform(o) = Then(Then(g, b), e)
  BY DEF Perform, Then, One
<1>5. b[1].do \in {"remove", "insert"} /\ b[1].plt = p /\ 1 \in DOMAIN b
  <2>1. 1 \in DOMAIN s
    BY <1>1, FirstAndRest
  <2> QED
    BY <1>1, <2>1 DEF RemoveCalls, InsertCalls, RemoveCall, InsertCall
<1>6. b[1] \in ToSet(b)
  BY <1>5 DEF ToSet
<1> HIDE DEF b, g, e, S, p, s
<1>7. Then(g, b) \in Seq(S) /\ ToSet(Then(g, b)) = ToSet(g) \cup ToSet(b)
  BY <1>2, <1>3, Two
<1>8. Then(Then(g, b), e) \in Seq(S) /\ ToSet(Then(Then(g, b), e)) = ToSet(Then(g, b)) \cup ToSet(e)
  <2>1. PICK gb \in Seq(S) : gb = Then(g, b)
    BY <1>7
  <2>2. Then(gb, e) \in Seq(S) /\ ToSet(Then(gb, e)) = ToSet(gb) \cup ToSet(e)
    BY <1>2, Two
  <2> QED
    BY <2>1, <2>2
<1>9. b[1] \in ToSet(Perform(o))
  BY <1>4, <1>6, <1>7, <1>8
<1>10. Perform(o) \in Seq(Steady(dst, src))
  BY <1>4, <1>8 DEF S
<1> QED
  BY <1>1, <1>5, <1>9, <1>10

(* Calls and the announcement that ends them. *)
LEMMA SteadyRuns ==
  ASSUME NEW src, NEW dst, NEW u \in Seq(Steady(src, dst)), NEW t, Runs(t, src, dst), t # <<>>
  PROVE  /\ Runs(Then(u, t), src, dst) /\ FinishesOf(Then(u, t)) = FinishesOf(t)
         /\ u \in Seq(CallsAt(src, dst)) /\ u \in Seq(CallT)
         /\ \A n \in 1 .. Len(u) : u[n].do \notin {"move", "finish", "files_end"}
         /\ Then(u, t) # <<>>
<1>1. Steady(src, dst) \subseteq CallsAt(src, dst) /\ CallsAt(src, dst) \subseteq CallT
      /\ Steady(src, dst) \subseteq CallT
  BY DEF Steady, CallsAt
<1>2. u \in Seq(CallsAt(src, dst)) /\ u \in Seq(CallT)
  BY <1>1, SameSeq
<1>3. \A n \in 1 .. Len(u) : u[n] \in Steady(src, dst)
  BY ElementOfSeq
<1>4. \A n \in 1 .. Len(u) : u[n].do \notin {"move", "finish", "files_end"}
  BY <1>3 DEF Steady
<1>5. Runs(Then(u, t), src, dst)
  BY <1>2, <1>4, RunsBoth
<1>6. t \in Seq(CallT)
  BY RunsKnown
<1>7. ToSet(Then(u, t)) = ToSet(u) \cup ToSet(t) /\ Len(Then(u, t)) = Len(u) + Len(t)
      /\ Len(u) \in Nat /\ Len(t) \in Nat
  BY <1>2, <1>6, Two
<1>8. \A c \in ToSet(u) : c.do # "finish"
  BY <1>2, <1>4, LenProperties DEF ToSet
<1>9. FinishesOf(Then(u, t)) = FinishesOf(t)
  BY <1>7, <1>8 DEF FinishesOf
<1>10. Len(t) > 0
  BY <1>6, <1>7, EmptySeq
<1>11. Then(u, t) # <<>>
  <2>1. Len(<<>>) = 0
    OBVIOUS
  <2> QED
    BY <1>7, <1>10, <2>1
<1> QED
  BY <1>2, <1>4, <1>5, <1>9, <1>11

LEMMA LastCalls ==
  ASSUME NEW src, NEW dst, NEW f \in FinishT
  PROVE  /\ Runs(<<Changed>>, src, dst) /\ FinishesOf(<<Changed>>) = {}
         /\ Runs(<<f, Changed>>, src, dst) /\ FinishesOf(<<f, Changed>>) = {f}
         /\ <<f, Changed>> # <<>> /\ <<Changed>> # <<>>
<1>1. /\ Changed \in CallT /\ Changed.do = "changed" /\ f \in CallT /\ f.do = "finish"
  BY CallsMade DEF CallT, FinishT
<1>2. Changed \in CallsAt(src, dst) /\ f \in CallsAt(src, dst)
  BY <1>1 DEF CallsAt
<1> DEFINE t == <<f, Changed>>
           v == <<Changed>>
<1>3. /\ t \in Seq(CallsAt(src, dst)) /\ Len(t) = 2 /\ t[1] = f /\ t[2] = Changed
      /\ ToSet(t) = {f, Changed}
  BY <1>2 DEF ToSet
<1>4. /\ v \in Seq(CallsAt(src, dst)) /\ Len(v) = 1 /\ v[1] = Changed /\ ToSet(v) = {Changed}
  BY <1>2 DEF ToSet
<1>5. t # <<>> /\ v # <<>>
  OBVIOUS
<1> HIDE DEF t, v
<1>6. Runs(t, src, dst)
  <2>1. \A n \in 1 .. Len(t) : n = 1 \/ n = 2
    BY <1>3
  <2>2. \A n \in 1 .. Len(t) : t[n].do # "move"
    BY <1>1, <1>3, <2>1
  <2> QED
    BY <1>1, <1>3, <2>2 DEF Runs
<1>7. Runs(v, src, dst)
  <2>1. \A n \in 1 .. Len(v) : n = 1
    BY <1>4
  <2>2. \A n \in 1 .. Len(v) : v[n].do # "move"
    BY <1>1, <1>4, <2>1
  <2> QED
    BY <1>1, <1>4, <2>2 DEF Runs
<1>8. FinishesOf(t) = {f} /\ FinishesOf(v) = {}
  BY <1>1, <1>3, <1>4 DEF FinishesOf
<1> QED
  BY <1>5, <1>6, <1>7, <1>8 DEF t, v

LEMMA ExecutedRuns ==
  ASSUME NEW type \in {"undo", "redo"}, NEW src \in Lists, NEW dst \in Lists, NEW entry \in EntryT,
         entry.operations \in Seq(OpsAt(src, dst)), entry.operations # <<>>
  PROVE  /\ Runs(Execute(type, entry), dst, src)
         /\ FinishesOf(Execute(type, entry)) = {Finish(type, entry)}
         /\ \E c \in ToSet(Execute(type, entry)) : c.do \in {"remove", "insert"} /\ c.plt \in Lists
<1> DEFINE ops == entry.operations
           S == Steady(dst, src)
           ss == [n \in DOMAIN ops |-> Perform(ops[n])]
           u == Joined(ss)
           f == Finish(type, entry)
           t == <<f, Changed>>
<1>1. DOMAIN ops = 1 .. Len(ops) /\ Len(ops) \in Nat /\ \A n \in 1 .. Len(ops) : ops[n] \in OpsAt(src, dst)
      /\ 1 \in DOMAIN ops
  BY LenProperties, ElementOfSeq, FirstAndRest
<1>2. \A n \in 1 .. Len(ops) : Perform(ops[n]) \in Seq(S)
  BY <1>1, PerformSteady
<1> DEFINE l == Len(ops)
           B == Seq(S)
<1>3. ss \in [1 .. l -> B] /\ ss[1] = Perform(ops[1])
  BY <1>1, <1>2
<1>4. Execute(type, entry) = Then(u, t)
  BY DEF Execute, Then
<1>5. PICK c \in ToSet(Perform(ops[1])) : c.do \in {"remove", "insert"} /\ c.plt \in Lists
  BY <1>1, PerformSteady
<1> HIDE DEF ss, B, l
<1>6. ss \in Seq(B) /\ Len(ss) = l
  BY <1>1, <1>3 DEF l
<1>7. ss \in Seq(Seq(S)) /\ 1 \in 1 .. Len(ss)
  BY <1>1, <1>6 DEF l, B
<1> HIDE DEF S
<1>8. u \in Seq(S)
  BY <1>7, JoinedBoth
<1>9. c \in ToSet(u)
  BY <1>3, <1>5, <1>7, JoinedHas
<1>10. f \in FinishT
  BY FinishMade
<1>11. Runs(t, dst, src) /\ FinishesOf(t) = {f} /\ t # <<>>
  BY <1>10, LastCalls
<1> HIDE DEF u, t, f
<1>12. /\ Runs(Then(u, t), dst, src) /\ FinishesOf(Then(u, t)) = {f} /\ u \in Seq(CallT)
  BY <1>8, <1>11, SteadyRuns DEF S
<1>13. t \in Seq(CallT)
  BY <1>11, RunsKnown
<1>14. c \in ToSet(Then(u, t))
  BY <1>9, <1>12, <1>13, Two
<1> QED
  BY <1>4, <1>5, <1>12, <1>14 DEF f

-----------------------------------------------------------------------------
(* Undo and redo.                                                          *)

LEMMA LastPopped ==
  ASSUME NEW A, NEW s \in Seq(A), s # <<>>
  PROVE  Front(s) \in Seq(A) /\ Last(s) \in A /\ s = Append(Front(s), Last(s))
<1> DEFINE l == Len(s)
<1>1. l \in Nat /\ l # 0 /\ \A n \in 1 .. l : s[n] \in A
  BY LenProperties, ElementOfSeq, EmptySeq
<1>2. SubSeq(s, 1, l - 1) \in Seq(A) /\ Len(SubSeq(s, 1, l - 1)) = l - 1
      /\ \A n \in 1 .. l - 1 : SubSeq(s, 1, l - 1)[n] = s[n]
  <2> DEFINE m == l - 1
  <2>1. m \in Nat /\ m \in 0 .. Len(s) /\ 1 \in 1 .. Len(s) + 1
    BY <1>1
  <2>2. \A n \in 1 .. m : n \in 1 .. Len(s)
    BY <1>1
  <2> HIDE DEF m
  <2>3. /\ SubSeq(s, 1, m) \in Seq(A) /\ Len(SubSeq(s, 1, m)) = m
        /\ \A n \in 1 .. m : SubSeq(s, 1, m)[n] = s[n]
    BY <2>1, <2>2
  <2> QED
    BY <2>3 DEF m
<1>3. Last(s) = s[l] /\ s[l] \in A /\ Front(s) = SubSeq(s, 1, l - 1)
  BY <1>1 DEF Last, Front
<1> HIDE DEF l
<1> DEFINE f == SubSeq(s, 1, l - 1)
           t == Append(f, s[l])
<1>4. t \in Seq(A) /\ Len(t) = l /\ \A n \in 1 .. l : t[n] = s[n]
  <2> HIDE DEF f
  <2>1. f \in Seq(A) /\ Len(f) = l - 1 /\ \A n \in 1 .. l - 1 : f[n] = s[n]
    BY <1>2 DEF f
  <2>2. /\ t \in Seq(A) /\ Len(t) = (l - 1) + 1
        /\ \A n \in 1 .. Len(f) : t[n] = f[n] /\ t[Len(f) + 1] = s[l]
    BY <1>3, <2>1, AppendProperties
  <2>3. (l - 1) + 1 = l /\ \A n \in 1 .. l : n \in 1 .. l - 1 \/ n = l
    BY <1>1
  <2>4. t[l] = s[l]
    BY <1>1, <1>3, <2>1, <2>3, AppendProperties
  <2> QED
    BY <2>1, <2>2, <2>3, <2>4
<1>5. s = t
  <2> HIDE DEF t
  <2> QED
    BY <1>4, SeqEqual DEF l
<1> QED
  BY <1>2, <1>3, <1>5

LEMMA BeforesPushed ==
  ASSUME NEW s \in Seq(BearT), NEW e \in BearT
  PROVE  /\ Befores(s) \in Seq(Val)
         /\ Befores(Append(s, e)) = Append(Befores(s), e.before)
<1> DEFINE l == Len(s)
           t == Append(s, e)
           b == Befores(s)
           c == Befores(t)
           d == Append(b, e.before)
<1>1. /\ l \in Nat /\ DOMAIN s = 1 .. l /\ \A n \in 1 .. l : s[n] \in BearT
      /\ t \in Seq(BearT) /\ Len(t) = l + 1
      /\ DOMAIN t = 1 .. l + 1 /\ \A n \in 1 .. l : t[n] = s[n]
      /\ t[l + 1] = e
  BY LenProperties, ElementOfSeq, AppendProperties
<1>2. \A x \in BearT : x.before \in Val
  BY DEF BearT, EntryT, FinishT, Val
<1>3. b = [n \in 1 .. l |-> s[n].before] /\ c = [n \in 1 .. l + 1 |-> t[n].before]
  BY <1>1 DEF Befores
<1> HIDE DEF l, t, b, c
<1>4. b \in [1 .. l -> Val]
  BY <1>1, <1>2, <1>3
<1>5. b \in Seq(Val) /\ Len(b) = l
  BY <1>1, <1>4
<1>6. e.before \in Val
  BY <1>2
<1>7. d \in Seq(Val) /\ Len(d) = l + 1 /\ d[l + 1] = e.before /\ \A n \in 1 .. l : d[n] = b[n]
  BY <1>5, <1>6, AppendProperties
<1>8. \A n \in 1 .. l + 1 : n \in 1 .. l \/ n = l + 1
  BY <1>1
<1>9. \A n \in 1 .. l + 1 : t[n].before \in Val
  BY <1>1, <1>2, <1>8
<1>10. c \in [1 .. l + 1 -> Val] /\ l + 1 \in Nat
  BY <1>1, <1>3, <1>9
<1>11. c \in Seq(Val) /\ Len(c) = l + 1
  BY <1>10
<1>12. \A n \in 1 .. l + 1 : c[n] = d[n]
  <2> TAKE n \in 1 .. l + 1
  <2>1. c[n] = t[n].before
    BY <1>3
  <2>2. n \in 1 .. l => c[n] = d[n]
    BY <1>1, <1>3, <1>7, <2>1
  <2>3. n = l + 1 => c[n] = d[n]
    BY <1>1, <1>7, <2>1
  <2> QED
    BY <1>8, <2>2, <2>3
<1> HIDE DEF d
<1>13. c = d
  BY <1>7, <1>11, <1>12, SeqEqual
<1> QED
  BY <1>5, <1>13 DEF b, c, d, t

(* An entry and what finishes it, on top of a stack. *)
LEMMA TopReplaced ==
  ASSUME NEW s \in Seq(BearT), NEW e \in BearT, NEW f \in BearT, NEW now, NEW X,
         f.operations = e.operations, f.before = e.before
  PROVE  /\ Steps(Append(s, e), now, X) => Steps(Append(s, f), now, X)
         /\ Befores(Append(s, f)) = Befores(Append(s, e))
<1>1. ASSUME Steps(Append(s, e), now, X) PROVE Steps(Append(s, f), now, X)
  <2>1. Steps(s, e.before, X) /\ Path(Ops(X), Val, e.operations, now, e.before)
    BY <1>1, StepsPushed
  <2>2. Steps(s, f.before, X) /\ Path(Ops(X), Val, f.operations, now, f.before)
    BY <2>1
  <2> QED
    BY <2>2, StepsPushed
<1>2. Befores(Append(s, f)) = Befores(Append(s, e))
  BY BeforesPushed
<1> QED
  BY <1>1, <1>2

(* What an entry leads to is what its execution leads to. *)
LEMMA ExecutionLeads ==
  ASSUME NEW type \in {"undo", "redo"}, NEW entry \in EntryT, NEW lists \in AllVal,
         Path(Ops(ToSet(lists[Incoming])), Val, entry.operations, Shown(lists), entry.before),
         FinishesOf(Execute(type, entry)) = {Finish(type, entry)}
  PROVE  Leads(Execute(type, entry), lists)
<1> DEFINE s == lists[Incoming]
           a == Shown(lists)
           b == entry.before
           x == Ext(b, s)
<1>1. s \in Seq(Items) /\ a \in Val /\ Ext(a, s) = lists
  BY ShownKnown
<1>2. b \in Val
  BY DEF EntryT, Val
<1>3. Path(Does, AllVal, Execute(type, entry), Ext(a, s), Ext(b, s))
  BY <1>1, <1>2, ExecutedPath
<1>4. x \in AllVal /\ \A p \in Lists : x[p] = b[p]
  BY <1>1, <1>2, ExtKnown
<1>5. Finish(type, entry).before = b
  BY DEF Finish
<1> HIDE DEF x
<1>6. Answers(FinishesOf(Execute(type, entry)), x)
  <2>1. \A c \in {Finish(type, entry)} : \A p \in Lists : x[p] = c.before[p]
    BY <1>4, <1>5
  <2> QED
    BY <2>1 DEF Answers
<1>7. Path(Does, AllVal, Execute(type, entry), lists, x)
  BY <1>1, <1>3 DEF x
<1> QED
  BY <1>4, <1>6, <1>7 DEF Leads

(* While the user waits, nothing is recorded when an action begins. *)
LEMMA IdleQuiet ==
  ASSUME NEW lists, NEW gone, NEW src, NEW dst, HistoryState(lists, gone, src, dst), Idle, WAITS
  PROVE  /\ State(lists, gone) /\ Core(lists, gone, src, dst) /\ Quiet(lists, dst)
         /\ program = <<>> /\ gone = <<>> /\ operations = <<>> /\ adding = NULL /\ adder = NoAdder
         /\ lists \in AllVal /\ src \in Lists /\ dst \in Lists
         /\ base = Shown(lists)
         /\ FinishesOf(program) = {} /\ Past = undo_stack /\ Future = redo_stack
         /\ undo_stack \in Seq(EntryAt) /\ redo_stack \in Seq(EntryAt)
         /\ Steps(undo_stack, base, ToSet(lists[Incoming])) /\ Steps(redo_stack, base, ToSet(lists[Incoming]))
<1>1. /\ State(lists, gone) /\ Core(lists, gone, src, dst) /\ Quiet(lists, dst)
  BY DEF HistoryState
<1>2. program = <<>> /\ ~pending /\ adding = NULL
  BY DEF Idle
<1>3. gone = <<>> /\ lists \in AllVal
  BY <1>1, <1>2, NothingGone, StateLists
<1>4. operations = <<>> /\ adder = NoAdder
  BY <1>1, <1>2 DEF Quiet
<1>5. FinishesOf(program) = {}
  BY <1>2, <1>3, EmptyAhead
<1>6. Past = undo_stack /\ Future = redo_stack
  BY <1>1, <1>5, StacksQuiet
<1>7. Shown(lists) \in Val /\ Whole(lists, <<>>, src) = Shown(lists) /\ base \in Val
  BY <1>1, <1>3, ShownKnown DEF State, Typed, Val
<1>8. Path(Ops(ToSet(lists[Incoming])), Val, <<>>, Shown(lists), base)
  BY <1>1, <1>3, <1>4, <1>7 DEF Core
<1>9. base = Shown(lists)
  BY <1>7, <1>8, PathNone
<1> QED
  BY <1>1, <1>2, <1>3, <1>4, <1>5, <1>6, <1>9 DEF Core

(* The top of one stack is being executed. *)
LEMMA TopExecuted ==
  ASSUME NEW type \in {"undo", "redo"}, NEW s \in Seq(EntryAt), s # <<>>, NEW lists \in AllVal,
         NEW now, now = Shown(lists), Steps(s, now, ToSet(lists[Incoming])), NEW x, x = Execute(type, Last(s))
  PROVE  /\ Front(s) \in Seq(EntryAt) /\ Front(s) \in Seq(BearT)
         /\ \E f \in FinishT : /\ f.type = type /\ FinishesOf(x) = {f}
                               /\ Steps(Append(Front(s), f), now, ToSet(lists[Incoming]))
                               /\ Befores(Append(Front(s), f)) = Befores(s)
         /\ Leads(x, lists)
         /\ \E src, dst \in Lists : Runs(x, src, dst)
         /\ \E c \in ToSet(x) : c.do \in {"remove", "insert"} /\ c.plt \in Lists
<1> DEFINE X == ToSet(lists[Incoming])
<1>1. PICK r \in Seq(EntryAt), e \in EntryAt : r = Front(s) /\ e = Last(s) /\ s = Append(r, e)
  BY LastPopped
<1>2. e \in EntryT /\ e \in BearT /\ e.operations # <<>>
  BY DEF EntryAt, BearT
<1>3. EntryAt \subseteq BearT
  BY DEF EntryAt, BearT
<1>4. r \in Seq(BearT)
  BY <1>3, SameSeq
<1>5. PICK a, d \in Lists : e.operations \in Seq(OpsAt(a, d))
  BY DEF EntryAt
<1>6. /\ Runs(x, d, a) /\ FinishesOf(x) = {Finish(type, e)}
      /\ \E c \in ToSet(x) : c.do \in {"remove", "insert"} /\ c.plt \in Lists
  BY <1>1, <1>2, <1>5, ExecutedRuns
<1>7. PICK f \in FinishT : f = Finish(type, e)
  BY <1>2, FinishMade
<1>8. f \in BearT /\ f.type = type /\ f.operations = e.operations /\ f.before = e.before
  BY <1>7 DEF BearT, Finish
<1>9. Steps(Append(r, e), now, X)
  BY <1>1
<1>10. Path(Ops(X), Val, e.operations, now, e.before)
  BY <1>2, <1>4, <1>9, StepsPushed
<1>11. Steps(Append(r, f), now, X) /\ Befores(Append(r, f)) = Befores(Append(r, e))
  BY <1>2, <1>4, <1>8, <1>9, TopReplaced
<1>12. Leads(x, lists)
  BY <1>1, <1>2, <1>6, <1>10, ExecutionLeads
<1> QED
  BY <1>1, <1>4, <1>5, <1>6, <1>7, <1>8, <1>11, <1>12

LEMMA UndoCalled ==
  ASSUME NEW lists, NEW gone, NEW src, NEW dst, HistoryState(lists, gone, src, dst), WAITS, Undo \/ Redo
  PROVE  /\ \E s2, d2 : HistoryState(lists, <<>>, s2, d2)'
         /\ Befores(Past)' = Befores(Past) /\ Befores(Future)' = Befores(Future)
<1> DEFINE X == ToSet(lists[Incoming])
<1>1. /\ Idle /\ UNCHANGED <<adding, adder, operations, pending, base>>
  BY DEF Undo, Redo
<1>2. /\ State(lists, gone) /\ Quiet(lists, dst)
      /\ program = <<>> /\ gone = <<>> /\ operations = <<>> /\ adding = NULL /\ adder = NoAdder
      /\ lists \in AllVal /\ src \in Lists /\ dst \in Lists
      /\ base = Shown(lists)
      /\ Past = undo_stack /\ Future = redo_stack
      /\ undo_stack \in Seq(EntryAt) /\ redo_stack \in Seq(EntryAt)
      /\ Steps(undo_stack, base, X) /\ Steps(redo_stack, base, X)
  BY <1>1, IdleQuiet
<1>3. State(lists, <<>>)'
  BY <1>2, UndoStep
<1>4. undo_stack \in Seq(BearT) /\ redo_stack \in Seq(BearT)
  BY <1>2, StacksKnown
<1> DEFINE F == /\ undo_stack' \in Seq(EntryAt) /\ redo_stack' \in Seq(EntryAt)
                /\ Steps(Past', base', X) /\ Steps(Future', base', X)
                /\ Befores(Past') = Befores(Past) /\ Befores(Future') = Befores(Future)
                /\ Leads(program', lists)
                /\ \E s2, d2 \in Lists : Runs(program', s2, d2)
                /\ \E c \in ToSet(program') : c.do \in {"remove", "insert"} /\ c.plt \in Lists
<1>5. ASSUME Undo PROVE F
  <2>1. /\ undo_stack # <<>> /\ undo_stack' = Front(undo_stack) /\ redo_stack' = redo_stack
        /\ program' = Execute("undo", Last(undo_stack)) /\ base' = base
    BY <1>5 DEF Undo
  <2>2. /\ undo_stack' \in Seq(EntryAt) /\ undo_stack' \in Seq(BearT)
        /\ \E f \in FinishT : /\ f.type = "undo" /\ FinishesOf(program') = {f}
                              /\ Steps(Append(undo_stack', f), base, X)
                              /\ Befores(Append(undo_stack', f)) = Befores(undo_stack)
        /\ Leads(program', lists)
        /\ \E s2, d2 \in Lists : Runs(program', s2, d2)
        /\ \E c \in ToSet(program') : c.do \in {"remove", "insert"} /\ c.plt \in Lists
    BY <1>2, <2>1, TopExecuted
  <2>3. PICK f \in FinishT : /\ f.type = "undo" /\ FinishesOf(program') = {f}
                             /\ Steps(Append(undo_stack', f), base, X)
                             /\ Befores(Append(undo_stack', f)) = Befores(undo_stack)
    BY <2>2
  <2>4. Past' = Append(undo_stack', f)
    BY <2>2, <2>3, OneRunning, SMTT(30) DEF Past
  <2>5. Future' = redo_stack
    BY <1>4, <2>1, <2>3, OneRunning DEF Future
  <2> QED
    BY <1>2, <2>1, <2>2, <2>3, <2>4, <2>5
<1>6. ASSUME Redo PROVE F
  <2>1. /\ redo_stack # <<>> /\ redo_stack' = Front(redo_stack) /\ undo_stack' = undo_stack
        /\ program' = Execute("redo", Last(redo_stack)) /\ base' = base
    BY <1>6 DEF Redo
  <2>2. /\ redo_stack' \in Seq(EntryAt) /\ redo_stack' \in Seq(BearT)
        /\ \E f \in FinishT : /\ f.type = "redo" /\ FinishesOf(program') = {f}
                              /\ Steps(Append(redo_stack', f), base, X)
                              /\ Befores(Append(redo_stack', f)) = Befores(redo_stack)
        /\ Leads(program', lists)
        /\ \E s2, d2 \in Lists : Runs(program', s2, d2)
        /\ \E c \in ToSet(program') : c.do \in {"remove", "insert"} /\ c.plt \in Lists
    BY <1>2, <2>1, TopExecuted
  <2>3. PICK f \in FinishT : /\ f.type = "redo" /\ FinishesOf(program') = {f}
                             /\ Steps(Append(redo_stack', f), base, X)
                             /\ Befores(Append(redo_stack', f)) = Befores(redo_stack)
    BY <2>2
  <2>4. Future' = Append(redo_stack', f)
    <3>0. redo_stack' \in Seq(BearT) /\ FinishesOf(program') = {f} /\ f.type = "redo"
      BY <2>2, <2>3
    <3>1. redo_stack' \o ExecutingIn(program', "redo") = Append(redo_stack', f)
      BY <3>0, OneRunning
    <3> QED
      BY <3>1 DEF Future
  <2>5. Past' = undo_stack
    BY <1>4, <2>1, <2>3, OneRunning DEF Past
  <2> QED
    BY <1>2, <2>1, <2>2, <2>3, <2>4, <2>5
<1>7. F
  BY <1>5, <1>6
<1>8. PICK s2, d2 \in Lists : Runs(program', s2, d2)
  BY <1>7
<1>9. Core(lists, <<>>, s2, d2)'
  <2>1. operations' = <<>> /\ operations' \in Seq(OpsAt(s2, d2)) /\ base' = Shown(lists)
    BY <1>1, <1>2
  <2>2. Whole(lists, <<>>, s2) = Shown(lists) /\ Shown(lists) \in Val
    BY <1>2, ShownKnown
  <2>3. Path(Ops(X), Val, operations', Whole(lists, <<>>, s2), base')
    BY <2>1, <2>2, PathNone
  <2> QED
    BY <1>7, <2>1, <2>3 DEF Core
<1>10. Ahead(lists, s2, d2)'
  BY <1>7, <1>8 DEF Ahead, Records
<1>11. Quiet(lists, d2)'
  BY <1>1, <1>2 DEF Quiet, NoAdder
<1>12. HistoryState(lists, <<>>, s2, d2)'
  BY <1>3, <1>9, <1>10, <1>11 DEF HistoryState
<1> QED
  BY <1>7, <1>12

-----------------------------------------------------------------------------
(* What the user's actions begin.                                          *)

(* s is a program that can be begun on the lists a, and is not an undo. *)
Starts(s, a, src, dst) ==
    Runs(s, src, dst) /\ Leads(s, a) /\ FinishesOf(s) = {} /\ s # <<>>

LEMMA StartsChanged ==
  ASSUME NEW a \in AllVal, NEW src, NEW dst
  PROVE  Starts(<<Changed>>, a, src, dst)
<1> DEFINE v == <<Changed>>
<1>1. Changed \in CallT /\ Changed.do = "changed" /\ Changed \in CallsAt(src, dst)
  BY CallsMade DEF CallsAt
<1>2. v \in Seq(CallT) /\ v \in Seq(CallsAt(src, dst)) /\ Len(v) = 1 /\ v[1] = Changed /\ v # <<>>
  BY <1>1
<1> HIDE DEF v
<1>3. \A n \in 1 .. Len(v) : v[n].do = "changed"
  BY <1>1, <1>2
<1>4. Runs(v, src, dst)
  BY <1>2, <1>3 DEF Runs
<1>5. Leads(v, a) /\ FinishesOf(v) = {}
  BY <1>2, <1>3, LeadsStill
<1> QED
  BY <1>2, <1>4, <1>5 DEF Starts, v

LEMMA StartsAfter ==
  ASSUME NEW src, NEW dst, NEW u \in Seq(Steady(src, dst)), NEW t, NEW a, NEW b,
         Path(Does, AllVal, u, a, b), Starts(t, b, src, dst)
  PROVE  Starts(Then(u, t), a, src, dst)
<1>1. Runs(t, src, dst) /\ Leads(t, b) /\ FinishesOf(t) = {} /\ t # <<>>
  BY DEF Starts
<1>2. /\ Runs(Then(u, t), src, dst) /\ FinishesOf(Then(u, t)) = FinishesOf(t)
      /\ u \in Seq(CallT) /\ Then(u, t) # <<>>
      /\ \A n \in 1 .. Len(u) : u[n].do \notin {"move", "finish", "files_end"}
  <2>1. Runs(t, src, dst) /\ t # <<>>
    BY <1>1
  <2> QED
    <3>1. Runs(Then(u, t), src, dst) /\ FinishesOf(Then(u, t)) = FinishesOf(t)
      BY <2>1, SteadyRuns
    <3>2. u \in Seq(CallT) /\ Then(u, t) # <<>>
      BY <2>1, SteadyRuns
    <3>3. \A n \in 1 .. Len(u) : u[n].do \notin {"move", "finish", "files_end"}
      BY <2>1, SteadyRuns
    <3> QED
      BY <3>1, <3>2, <3>3
<1>3. t \in Seq(CallT)
  BY <1>1, RunsKnown
<1>4. \A c \in ToSet(u) : c.do # "finish"
  BY <1>2, LenProperties DEF ToSet
<1>5. Leads(Then(u, t), a)
  BY <1>1, <1>2, <1>3, <1>4, LeadsInstead
<1> QED
  BY <1>1, <1>2, <1>5 DEF Starts

LEMMA StartsWith ==
  ASSUME NEW src, NEW dst, NEW c \in Steady(src, dst), c.do \notin {"remove", "insert"},
         NEW t, NEW a \in AllVal, Starts(t, a, src, dst)
  PROVE  Starts(Then(One(c), t), a, src, dst)
<1>1. c \in CallT /\ c.do # "move"
  BY DEF Steady, CallsAt
<1>2. Path(Does, AllVal, One(c), a, a)
  BY <1>1, StillOne
<1>3. One(c) \in Seq(Steady(src, dst))
  BY OneKnown
<1> QED
  BY <1>2, <1>3, StartsAfter

LEMMA StillPast ==
  ASSUME UNCHANGED <<undo_stack, redo_stack>>, FinishesOf(program') = FinishesOf(program)
  PROVE  Past' = Past /\ Future' = Future
<1>1. \A type : ExecutingIn(program', type) = ExecutingIn(program, type)
  BY ExecutingSame
<1> QED
  BY <1>1 DEF Past, Future

(* What waits for the user begins. *)
LEMMA Started ==
  ASSUME NEW lists, NEW gone, NEW src, NEW dst, HistoryState(lists, gone, src, dst), Idle, WAITS,
         State(lists, <<>>)', UNCHANGED <<undo_stack, redo_stack, base, operations, adding, adder>>,
         NEW s2 \in Lists, NEW d2 \in Lists, Starts(program', lists, s2, d2)
  PROVE  /\ HistoryState(lists, <<>>, s2, d2)' /\ FinishesOf(program') = FinishesOf(program)
<1>1. /\ State(lists, gone) /\ Core(lists, gone, src, dst)
      /\ gone = <<>> /\ operations = <<>> /\ adding = NULL /\ adder = NoAdder
      /\ FinishesOf(program) = {}
  BY IdleQuiet
<1>2. /\ Runs(program', s2, d2) /\ Leads(program', lists) /\ FinishesOf(program') = {} /\ program' # <<>>
  BY DEF Starts
<1>3. Core(lists, <<>>, s2, d2)
  BY <1>1, CoreIdle
<1>4. Core(lists, <<>>, s2, d2)'
  BY <1>1, <1>2, <1>3, CoreQuiet
<1>5. Ahead(lists, s2, d2)'
  BY <1>2 DEF Ahead, Records
<1>6. Quiet(lists, d2)'
  BY <1>1, <1>2 DEF Quiet, NoAdder
<1> QED
  BY <1>1, <1>2, <1>4, <1>5, <1>6 DEF HistoryState

(* Taking out some items of a list. *)
LEMMA TakingOut ==
  ASSUME NEW lists, NEW gone, State(lists, gone), NEW p \in Lists,
         NEW items \in SUBSET ToSet(Tracks(p)), NEW t
  PROVE  \E b \in AllVal : Starts(t, b, p, p)
            => Starts(Then(RemoveCalls(p, InOrder(p, items), -1), t), lists, p, p)
<1> DEFINE s == InOrder(p, items)
           r == RemoveCalls(p, s, -1)
           b == Put(lists, p, Spared(lists[p], ToSet(s)))
<1>1. p \in AllLists /\ lists \in AllVal /\ Distinct(lists[p]) /\ lists[p] \in Seq(Items)
      /\ Tracks(p) = lists[p]
  BY StateLists, ListsKnown DEF AllLists
<1>2. s \in Seq(Items) /\ Distinct(s) /\ ToSet(s) = items
  BY <1>1, InOrderKnown
<1> HIDE DEF s
<1>3. ToSet(s) \subseteq ToSet(lists[p])
  BY <1>1, <1>2
<1>4. Path(Does, AllVal, r, lists, b) /\ r \in Seq(CallT)
  BY <1>1, <1>2, <1>3, RemovesPath
<1>5. r \in Seq(Steady(p, p))
  BY <1>1, <1>2, RemovalsSteady
<1> HIDE DEF r, b
<1>6. b \in AllVal
  BY <1>4, PathEnds
<1>7. Starts(t, b, p, p) => Starts(Then(r, t), lists, p, p)
  BY <1>4, <1>5, StartsAfter
<1> QED
  BY <1>6, <1>7 DEF r, s

LEMMA SelectedCalled ==
  ASSUME NEW lists, NEW gone, NEW src, NEW dst, HistoryState(lists, gone, src, dst), WAITS,
         DeleteSelected \/ CropSelected
  PROVE  /\ \E s2, d2 : HistoryState(lists, <<>>, s2, d2)'
         /\ FinishesOf(program') = FinishesOf(program)
<1> DEFINE p == current
<1>1. /\ Idle /\ UNCHANGED <<undo_stack, redo_stack, base, operations, adding, adder>>
  BY DEF DeleteSelected, CropSelected, Edit, Begin, stacks
<1>2. State(lists, gone) /\ gone = <<>> /\ p \in Lists /\ lists \in AllVal /\ p \in AllLists
  BY <1>1, IdleQuiet, ListsKnown
<1>3. State(lists, <<>>)'
  BY <1>2, SelectedStep
<1>4. Starts(program', lists, p, p)
  <2>1. CASE CropSelected
    <3>1. PICK items \in SUBSET ToSet(Tracks(p)) :
            program' = RemoveCalls(p, InOrder(p, items), -1) \o <<Changed>>
      BY <2>1 DEF CropSelected, Begin
    <3>2. PICK b \in AllVal : Starts(<<Changed>>, b, p, p)
            => Starts(Then(RemoveCalls(p, InOrder(p, items), -1), <<Changed>>), lists, p, p)
      BY <1>2, TakingOut
    <3>3. Starts(<<Changed>>, b, p, p)
      BY StartsChanged
    <3> QED
      BY <3>1, <3>2, <3>3, Zenon DEF Then
  <2>2. CASE DeleteSelected
    <3>1. PICK items \in SUBSET ToSet(Tracks(p)) :
            program' = <<Group(NULL)>> \o RemoveCalls(p, InOrder(p, items), -1) \o <<EndGroup, Changed>>
      BY <2>2 DEF DeleteSelected, Begin
    <3> DEFINE r == RemoveCalls(p, InOrder(p, items), -1)
               t == Then(One(EndGroup), <<Changed>>)
    <3>2. PICK b \in AllVal : Starts(t, b, p, p) => Starts(Then(r, t), lists, p, p)
      BY <1>2, TakingOut
    <3>3. Starts(<<Changed>>, b, p, p)
      BY StartsChanged
    <3>4. /\ EndGroup \in Steady(p, p) /\ Group(NULL) \in Steady(p, p)
          /\ EndGroup.do = "end_group" /\ Group(NULL).do = "group"
      BY <1>2, SteadyMade, CallsMade
    <3>5. Starts(t, b, p, p)
      BY <3>3, <3>4, StartsWith
    <3>6. Starts(Then(r, t), lists, p, p)
      BY <3>2, <3>5
    <3> HIDE DEF r
    <3>7. Starts(Then(One(Group(NULL)), Then(r, t)), lists, p, p)
      BY <1>2, <3>4, <3>6, StartsWith
    <3>8. program' = Then(One(Group(NULL)), Then(r, t))
      <4>1. t = <<EndGroup, Changed>>
        BY CallsMade, JoinedOnes DEF Then, One
      <4>2. program' = Then(Then(One(Group(NULL)), r), t)
        BY <3>1, <4>1 DEF Then, One, r
      <4>3. r \in Seq(CallT) /\ t \in Seq(CallT)
        <5>1. InOrder(p, items) \in Seq(Items)
          <6>1. Tracks(p) \in Seq(Items) /\ Distinct(Tracks(p))
            BY <1>2, StateLists, ListsKnown
          <6> QED
            BY <6>1, InOrderKnown
        <5>2. r \in Seq(Steady(p, p))
          BY <1>2, <5>1, RemovalsSteady DEF r
        <5>3. Runs(t, p, p)
          BY <3>5 DEF Starts
        <5> QED
          BY <5>2, <5>3, RunsKnown, SameSeq DEF Steady, CallsAt
      <4>4. One(Group(NULL)) \in Seq(CallT)
        BY CallsMade, OneKnown
      <4> HIDE DEF t
      <4> QED
        BY <4>2, <4>3, <4>4, ThenThen
    <3> QED
      BY <3>7, <3>8
  <2> QED
    BY <2>1, <2>2
<1> QED
  BY <1>1, <1>2, <1>3, <1>4, Started

(* plt_clear of the list that is shown. *)
LEMMA ClearCalled ==
  ASSUME NEW lists, NEW gone, NEW src, NEW dst, HistoryState(lists, gone, src, dst), WAITS,
         "clear_another" \notin UserActs, Clear
  PROVE  /\ \E l2, g2, s2, d2 : HistoryState(l2, g2, s2, d2)'
         /\ FinishesOf(program') = FinishesOf(program)
<1>1. /\ Idle /\ UNCHANGED <<undo_stack, redo_stack, base, operations, adding, adder>>
  BY DEF Clear, Edit, Begin, stacks
<1>2. /\ State(lists, gone) /\ Core(lists, gone, src, dst)
      /\ gone = <<>> /\ operations = <<>> /\ adding = NULL /\ adder = NoAdder
      /\ FinishesOf(program) = {} /\ lists \in AllVal
  BY <1>1, IdleQuiet
<1>3. PICK p \in Lists, first \in Items : \E new, s :
            /\ Edit(IF p = current THEN "clear" ELSE "clear_another")
            /\ s = lists[p] /\ new = [lists EXCEPT ![p] = <<>>] /\ gone = <<>>
            /\ program' = <<Group(NULL), ForgetCall(p, first), EndGroup>>
                          \o IF p = current THEN <<Changed>> ELSE <<>>
            /\ State(new, s)'
  BY <1>2, ClearStep
<1>4. PICK new, s :
            /\ Edit(IF p = current THEN "clear" ELSE "clear_another")
            /\ s = lists[p] /\ new = [lists EXCEPT ![p] = <<>>] /\ gone = <<>>
            /\ program' = <<Group(NULL), ForgetCall(p, first), EndGroup>>
                          \o IF p = current THEN <<Changed>> ELSE <<>>
            /\ State(new, s)'
  BY <1>3
<1>5. p = current
  BY <1>4 DEF Edit
<1>6. p \in AllLists /\ s \in Seq(Items) /\ new = Put(lists, p, <<>>) /\ <<>> \in Seq(Items)
  BY <1>2, <1>4 DEF AllLists, Put, AllVal
<1>7. new \in AllVal /\ new[p] = <<>> /\ \A q \in AllLists : q # p => new[q] = lists[q]
  <2>1. PICK b \in AllVal : b = Put(lists, p, <<>>) /\ b[p] = <<>>
                           /\ \A q \in AllLists : q # p => b[q] = lists[q]
    BY <1>2, <1>6, PutIn, ZenonT(40)
  <2> QED
    BY <1>6, <2>1
<1>8. Starts(program', new, p, p)
  <2> DEFINE g == Group(NULL)
             f == ForgetCall(p, first)
             e == EndGroup
             c == Changed
             v == <<c>>
  <2>1. g \in CallT /\ f \in CallT /\ e \in CallT /\ c \in CallT
        /\ g.do = "group" /\ f.do = "forget" /\ e.do = "end_group"
    BY <1>6, CallsMade
  <2>2. g \in Steady(p, p) /\ e \in Steady(p, p)
    BY <1>6, SteadyMade
  <2>3. f \in Steady(p, p)
    <3>1. f.plt = p
      BY DEF ForgetCall
    <3> QED
      BY <2>1, <3>1 DEF Steady, CallsAt
  <2>4. program' = <<g, f, e>> \o v
    BY <1>4, <1>5
  <2>5. Starts(v, new, p, p)
    BY <1>7, StartsChanged
  <2> HIDE DEF g, f, e, c
  <2>6. Then(One(g), Then(One(f), One(e))) = <<g, f, e>>
    BY <2>1, ThreeCalls
  <2>7. v \in Seq(CallT) /\ One(g) \in Seq(CallT) /\ One(f) \in Seq(CallT) /\ One(e) \in Seq(CallT)
    BY <2>1, OneKnown
  <2> HIDE DEF v
  <2>8. Starts(Then(One(e), v), new, p, p)
    BY <1>7, <2>1, <2>2, <2>5, StartsWith
  <2>9. Starts(Then(One(f), Then(One(e), v)), new, p, p)
    BY <1>7, <2>1, <2>3, <2>8, StartsWith
  <2>10. Starts(Then(One(g), Then(One(f), Then(One(e), v))), new, p, p)
    BY <1>7, <2>1, <2>2, <2>9, StartsWith
  <2>11. program' = Then(Then(One(g), Then(One(f), One(e))), v)
    BY <2>4, <2>6 DEF Then
  <2>12. Then(One(f), One(e)) \in Seq(CallT)
    BY <2>7, Two
  <2>13. Then(Then(One(g), Then(One(f), One(e))), v) = Then(One(g), Then(Then(One(f), One(e)), v))
    BY <2>7, <2>12, ThenThen
  <2>14. Then(Then(One(f), One(e)), v) = Then(One(f), Then(One(e), v))
    BY <2>7, ThenThen
  <2> QED
    BY <2>10, <2>11, <2>13, <2>14
<1>9. /\ Runs(program', p, p) /\ Leads(program', new) /\ FinishesOf(program') = {} /\ program' # <<>>
  BY <1>8 DEF Starts
<1>10. Whole(new, s, p) = Shown(lists)
  <2>1. \A q \in Lists : IF q = p THEN Then(s, new[q]) = lists[q] ELSE new[q] = lists[q]
    <3>1. Then(s, <<>>) = s
      BY <1>6, ConcatEmptySeq DEF Then
    <3> QED
      BY <1>4, <1>7, <3>1 DEF AllLists
  <2>2. \A q \in Lists : (IF q = p THEN Then(s, new[q]) ELSE new[q]) = lists[q]
    BY <2>1
  <2> QED
    BY <2>2, Zenon DEF Whole, Shown
<1>11. Core(new, s, p, p)'
  <2>1. Core(lists, gone, p, p)
    BY <1>2, CoreIdle
  <2>2. new[Incoming] = lists[Incoming]
    <3>1. Incoming # p /\ Incoming \in AllLists
      BY Constants DEF AllLists
    <3> QED
      BY <1>7, <3>1
  <2>3. Whole(lists, gone, p) = Shown(lists)
    BY <1>2, ShownKnown
  <2>4. operations' = operations /\ operations \in Seq(OpsAt(p, p))
    BY <1>1, <2>1 DEF Core
  <2>5. Path(Ops(ToSet(lists[Incoming])), Val, operations', Whole(new, s, p), base)
    BY <1>10, <2>1, <2>3, <2>4 DEF Core
  <2>6. UNCHANGED <<undo_stack, redo_stack, base>> /\ FinishesOf(program') = FinishesOf(program)
        /\ ToSet(new[Incoming]) \subseteq ToSet(lists[Incoming]) /\ operations' \in Seq(OpsAt(p, p))
    BY <1>1, <1>2, <1>9, <2>2, <2>4
  <2> QED
    BY <1>2, <2>1, <2>5, <2>6, CoreMoves
<1>12. Ahead(new, p, p)'
  BY <1>9 DEF Ahead, Records
<1>13. Quiet(new, p)'
  BY <1>1, <1>2, <1>9 DEF Quiet, NoAdder
<1>14. HistoryState(new, s, p, p)'
  BY <1>4, <1>11, <1>12, <1>13 DEF HistoryState
<1> QED
  BY <1>2, <1>9, <1>14

(* Drag and drop. *)
LEMMA DropKnown ==
  ASSUME NEW lists, NEW gone, State(lists, gone), NEW p \in Lists,
         NEW before \in ToSet(Tracks(p)) \cup {NULL}
  PROVE  DropAfter(p, before) \in ToSet(lists[p]) \cup {NULL} /\ DropAfter(p, before) \in Pointer
<1>1. p \in AllLists /\ Tracks(p) = lists[p] /\ lists[p] \in Seq(Items)
      /\ ChainedBack(prev, lists[p], tail[p])
  BY StateLists, ListsKnown DEF AllLists
<1>2. DropAfter(p, before) \in ToSet(lists[p]) \cup {NULL}
  <2>1. CASE before = NULL
    <3>1. Len(lists[p]) \in Nat /\ (lists[p] # <<>> => Len(lists[p]) \in 1 .. Len(lists[p]))
      BY <1>1, LenProperties, EmptySeq
    <3>2. lists[p] # <<>> => tail[p] \in ToSet(lists[p])
      BY <1>1, <3>1, LenProperties DEF ChainedBack, ToSet
    <3>3. lists[p] = <<>> => tail[p] = NULL
      BY <1>1 DEF ChainedBack
    <3> QED
      BY <2>1, <3>2, <3>3 DEF DropAfter
  <2>2. CASE before # NULL
    <3>1. before \in ToSet(lists[p])
      BY <1>1, <2>2
    <3>2. PICK u, v \in Seq(Items) : lists[p] = With(u, before, v)
      BY <1>1, <3>1, Parted
    <3>3. before \in Items
      BY <1>1, <3>1 DEF ToSet
    <3>4. prev[before] = EndOf(u)
      BY <1>1, <3>2, <3>3, PrevEnd
    <3>5. EndOf(u) \in ToSet(u) \cup {NULL}
      BY EndKnown
    <3>6. ToSet(With(u, before, v)) = ToSet(u) \cup {before} \cup ToSet(v)
      BY <3>3, Three
    <3> QED
      BY <2>2, <3>2, <3>4, <3>5, <3>6 DEF DropAfter
  <2> QED
    BY <2>1, <2>2
<1>3. ToSet(lists[p]) \subseteq Items
  BY <1>1 DEF ToSet
<1> QED
  BY <1>2, <1>3 DEF Pointer

LEMMA HeadKnown ==
  ASSUME NEW lists, NEW gone, State(lists, gone), NEW p \in AllLists
  PROVE  head[p] \in ToSet(lists[p]) \cup {NULL} /\ head[p] \in Pointer
<1>1. lists[p] \in Seq(Items) /\ Chained(next, lists[p], head[p])
  BY StateLists
<1>2. Len(lists[p]) \in Nat /\ (Len(lists[p]) # 0 => 1 \in 1 .. Len(lists[p]))
  BY <1>1, LenProperties
<1>3. Len(lists[p]) # 0 => head[p] \in ToSet(lists[p])
  BY <1>1, <1>2, LenProperties DEF Chained, ToSet
<1>4. Len(lists[p]) = 0 => head[p] = NULL
  BY <1>1 DEF Chained
<1>5. head[p] \in Pointer
  BY ListsKnown
<1> QED
  BY <1>3, <1>4, <1>5

(* plt_move_items from one of the playlists into the one shown. *)
LEMMA MoveItemsCalled ==
  ASSUME NEW lists, NEW gone, NEW src, NEW dst, HistoryState(lists, gone, src, dst), WAITS, MoveItems
  PROVE  /\ \E s2, d2 : HistoryState(lists, <<>>, s2, d2)'
         /\ FinishesOf(program') = FinishesOf(program)
<1>1. /\ Idle /\ UNCHANGED <<undo_stack, redo_stack, base, operations, adding, adder>>
  BY DEF MoveItems, Edit, Begin, stacks
<1>2. State(lists, gone) /\ gone = <<>> /\ lists \in AllVal
  BY <1>1, IdleQuiet
<1>3. State(lists, <<>>)'
  BY <1>2, MoveItemsStep
<1>4. /\ LinkTypes /\ current \in Lists /\ current \in AllLists
      /\ \A p \in AllLists : Tracks(p) \in Seq(Items) /\ head[p] \in Pointer /\ tail[p] \in Pointer
  BY <1>2, ListsKnown
<1>5. PICK from \in Lists, before \in ToSet(Tracks(current)) \cup {NULL} :
      \E moved \in SUBSET DOMAIN Tracks(from) :
        program' = <<MoveCall(current, from, head[from], 0,
                              PartAt([k \in DOMAIN Tracks(from) |-> k - 1], moved),
                              DropAfter(current, before)),
                     UnlockCall(current, Moved(current, before, PartAt(Tracks(from), moved))),
                     Changed>>
  BY DEF MoveItems, Begin
<1>6. PICK moved \in SUBSET DOMAIN Tracks(from) :
        program' = <<MoveCall(current, from, head[from], 0,
                              PartAt([k \in DOMAIN Tracks(from) |-> k - 1], moved),
                              DropAfter(current, before)),
                     UnlockCall(current, Moved(current, before, PartAt(Tracks(from), moved))),
                     Changed>>
  BY <1>5
<1> DEFINE t == Tracks(from)
           x == PartAt([k \in DOMAIN t |-> k - 1], moved)
           y == PartAt(t, moved)
           d == DropAfter(current, before)
           z == Moved(current, before, y)
           m == MoveCall(current, from, head[from], 0, x, d)
           u == UnlockCall(current, z)
           c == Changed
           v == <<c>>
           w == Then(One(u), v)
<1>7. from \in AllLists
  BY DEF AllLists
<1>8. x \in Seq(Nat) /\ y \in Seq(Items)
  <2>1. t \in Seq(Items) /\ DOMAIN t = 1 .. Len(t) /\ Len(t) \in Nat
    BY <1>4, <1>7, LenProperties
  <2> DEFINE l == Len(t)
             s == [k \in DOMAIN t |-> k - 1]
  <2>2. s \in [1 .. l -> Nat]
    BY <2>1
  <2>3. moved \in SUBSET DOMAIN t /\ DOMAIN s = DOMAIN t
    OBVIOUS
  <2> HIDE DEF s, t, l
  <2>4. s \in Seq(Nat)
    BY <2>1, <2>2 DEF l
  <2> QED
    BY <2>1, <2>3, <2>4, KeptElements DEF s
<1>9. d \in ToSet(lists[current]) \cup {NULL} /\ d \in Pointer
  BY <1>2, <1>4, DropKnown
<1>10. program' = <<m, u, c>>
  BY <1>6
<1> HIDE DEF d, x, y, t
<1>11. z \in Seq(Items)
  BY <1>4, <1>8, MovedKnown
<1> HIDE DEF z
<1>12. m \in CallT /\ m.do = "move" /\ m.from = from /\ m.to = current /\ m.it = head[from]
       /\ m.drop_after = d
  <2>1. m \in CallT /\ m.do = "move"
    BY <1>4, <1>7, <1>8, <1>9, MoveMade
  <2> QED
    BY <2>1 DEF MoveCall
<1>13. u \in CallT /\ u.do = "unlock" /\ c \in CallT /\ c.do = "changed"
  BY <1>4, <1>11, CallsMade
<1>14. u \in Steady(from, current)
  BY <1>4, <1>11, SteadyMade
<1>15. Starts(v, lists, from, current)
  BY <1>2, StartsChanged
<1> HIDE DEF m, u
<1>16. Starts(w, lists, from, current)
  BY <1>2, <1>13, <1>14, <1>15, StartsWith
<1>17. m \in CallsAt(from, current)
  BY <1>12 DEF CallsAt
<1>18. Path(Does, AllVal, One(m), lists, lists)
  <2>1. head[from] \in ToSet(lists[from]) \cup {NULL}
    BY <1>2, <1>7, HeadKnown
  <2>2. Done(m, lists, lists)
    BY <1>9, <1>12, <2>1 DEF Done
  <2>3. lists \in Does[m][lists]
    BY <1>2, <1>12, <2>2, DoesKnown
  <2> QED
    BY <1>2, <1>12, <2>3, PathOne
<1>19. /\ w = <<u, c>> /\ \A n \in 1 .. Len(w) : w[n].do \in {"unlock", "changed"}
  <2>1. w = <<u, c>>
    BY <1>13, JoinedOnes DEF Then, One
  <2> HIDE DEF w, c
  <2>2. \A n \in 1 .. Len(w) : n = 1 \/ n = 2
    BY <2>1
  <2> QED
    BY <1>13, <2>1, <2>2
<1>20. Runs(w, from, current) /\ Leads(w, lists) /\ FinishesOf(w) = {} /\ w # <<>> /\ w \in Seq(CallT)
  BY <1>16, RunsKnown DEF Starts
<1>21. /\ One(m) \in Seq(CallsAt(from, current)) /\ Len(One(m)) = 1 /\ One(m)[1] = m
       /\ One(m) \in Seq(CallT) /\ ToSet(One(m)) = {m}
  BY <1>12, <1>17, OneKnown
<1> HIDE DEF w
<1>22. Runs(Then(One(m), w), from, current)
  <2>1. \A n \in 1 .. Len(One(m)) : One(m)[n].do = "move" =>
            n = Len(One(m)) /\ \A k \in 1 .. Len(w) : w[k].do \in {"unlock", "changed"}
    BY <1>19, <1>21
  <2> QED
    BY <1>20, <1>21, <2>1, RunsBoth
<1>23. Leads(Then(One(m), w), lists) /\ FinishesOf(Then(One(m), w)) = FinishesOf(w)
  <2>1. \A k \in ToSet(One(m)) : k.do # "finish"
    BY <1>12, <1>21
  <2> QED
    BY <1>18, <1>20, <1>21, <2>1, LeadsInstead
<1>24. program' = Then(One(m), w)
  BY <1>10, <1>12, <1>13, <1>19, JoinedOnes DEF Then, One
<1>25. program' # <<>>
  BY <1>10
<1>26. Starts(program', lists, from, current)
  BY <1>20, <1>22, <1>23, <1>24, <1>25 DEF Starts
<1> QED
  BY <1>1, <1>2, <1>3, <1>4, <1>26, Started

(* plt_copy_items into the one shown. *)
LEMMA CopyItemCalled ==
  ASSUME NEW lists, NEW gone, NEW src, NEW dst, HistoryState(lists, gone, src, dst), WAITS, CopyItem
  PROVE  /\ \E s2, d2 : HistoryState(lists, <<>>, s2, d2)'
         /\ FinishesOf(program') = FinishesOf(program)
<1>1. /\ Idle /\ UNCHANGED <<undo_stack, redo_stack, base, operations, adding, adder>>
  BY DEF CopyItem, Edit, Begin, stacks
<1>2. State(lists, gone) /\ gone = <<>> /\ lists \in AllVal /\ adding = NULL
  BY <1>1, IdleQuiet
<1>3. State(lists, <<>>)'
  BY <1>2, CopyItemStep
<1>4. /\ current \in Lists /\ current \in AllLists
      /\ \A p \in AllLists : Tracks(p) \in Seq(Items)
  BY <1>2, ListsKnown
<1>5. PICK new \in Items, before \in ToSet(Tracks(current)) \cup {NULL} :
        /\ refs[new] = 0
        /\ program' = <<InsertCall(IF adding = NULL THEN current ELSE adding,
                                   DropAfter(current, before), new, 1),
                        UnlockCall(current, Moved(current, before, <<new>>)),
                        Changed>>
  BY DEF CopyItem, Begin
<1> DEFINE p == current
           d == DropAfter(p, before)
           z == Moved(p, before, <<new>>)
           m == InsertCall(p, d, new, 1)
           u == UnlockCall(p, z)
           c == Changed
           v == <<c>>
           w == Then(One(u), v)
<1>6. d \in ToSet(lists[p]) \cup {NULL} /\ d \in Pointer
  BY <1>2, <1>4, DropKnown
<1>7. program' = <<m, u, c>>
  BY <1>2, <1>5
<1>8. z \in Seq(Items)
  BY <1>4, OneItem, MovedKnown
<1> HIDE DEF d, z
<1>9. /\ m \in CallT /\ m.do = "insert" /\ m.item = new /\ m.plt = p /\ m.after = d
      /\ m \in Steady(p, p)
  <2>1. m \in CallT /\ m.do = "insert" /\ m.item = new /\ m \in Steady(p, p)
    BY <1>4, <1>6, CallsMade, SteadyMade
  <2> QED
    BY <2>1 DEF InsertCall
<1>10. u \in CallT /\ u.do = "unlock" /\ c \in CallT /\ c.do = "changed" /\ u \in Steady(p, p)
  BY <1>4, <1>8, CallsMade, SteadyMade
<1> HIDE DEF m, u
<1>11. PICK a, b \in Seq(Items) : Lands(lists, p, d, a, b)
  BY <1>2, <1>4, <1>6, Landing
<1>12. With(a, new, b) \in Seq(Items)
  BY Three
<1>13. PICK l2 \in AllVal : l2 = Put(lists, p, With(a, new, b))
  BY <1>2, <1>4, <1>12, PutIn
<1>14. Path(Does, AllVal, One(m), lists, l2)
  <2>1. \A q \in AllLists : new \notin ToSet(lists[q])
    BY <1>2, <1>5, FreeItem
  <2>2. Gets(m, lists, l2)
    BY <1>9, <1>11, <1>13, <2>1 DEF Gets, Lands
  <2>3. Done(m, lists, l2)
    BY <1>9, <2>2 DEF Done
  <2>4. l2 \in Does[m][lists]
    BY <1>2, <1>9, <2>3, DoesKnown
  <2> QED
    BY <1>2, <1>9, <2>4, PathOne
<1>15. Starts(v, l2, p, p)
  BY StartsChanged
<1>16. Starts(w, l2, p, p)
  BY <1>10, <1>15, StartsWith
<1>17. One(m) \in Seq(Steady(p, p))
  BY <1>9, OneKnown
<1>18. w = <<u, c>>
  BY <1>10, JoinedOnes DEF Then, One
<1> HIDE DEF w
<1>19. Starts(Then(One(m), w), lists, p, p)
  BY <1>14, <1>16, <1>17, StartsAfter
<1>20. program' = Then(One(m), w)
  BY <1>7, <1>9, <1>10, <1>18, JoinedOnes DEF Then, One
<1> QED
  BY <1>1, <1>2, <1>3, <1>4, <1>19, <1>20, Started

-----------------------------------------------------------------------------
(* What is done at once, and what others do.                               *)

LEMMA SortCalled ==
  ASSUME NEW lists, NEW gone, NEW src, NEW dst, HistoryState(lists, gone, src, dst), WAITS, Sort
  PROVE  /\ \E l2, s2, d2 : HistoryState(l2, <<>>, s2, d2)'
         /\ FinishesOf(program') = FinishesOf(program)
<1>1. /\ Idle /\ UNCHANGED <<undo_stack, redo_stack, base, adding, adder>>
  BY DEF Sort, Edit, stacks
<1>2. /\ State(lists, gone) /\ Core(lists, gone, src, dst)
      /\ gone = <<>> /\ operations = <<>> /\ adding = NULL /\ adder = NoAdder
      /\ FinishesOf(program) = {} /\ lists \in AllVal
  BY <1>1, IdleQuiet
<1>3. PICK p \in AllLists, new \in Seq(Items) : \E l2 :
            /\ p = current /\ new # <<>> /\ Distinct(new) /\ ToSet(new) = ToSet(lists[p])
            /\ l2 = [lists EXCEPT ![p] = new] /\ gone = <<>>
            /\ operations' = <<Operation("remove", p, new, NULL)>> \o RemovalRecorded(p, lists[p])
            /\ program' = <<Changed>>
            /\ State(l2, gone)'
  BY <1>2, SortStep
<1>4. PICK l2 :
            /\ p = current /\ new # <<>> /\ Distinct(new) /\ ToSet(new) = ToSet(lists[p])
            /\ l2 = [lists EXCEPT ![p] = new] /\ gone = <<>>
            /\ operations' = <<Operation("remove", p, new, NULL)>> \o RemovalRecorded(p, lists[p])
            /\ program' = <<Changed>>
            /\ State(l2, gone)'
  BY <1>3
<1>5. p \in Lists
  BY <1>2, <1>4, ListsKnown
<1>6. l2 \in AllVal /\ l2 = Put(lists, p, new)
  <2>1. l2 = Put(lists, p, new)
    BY <1>4 DEF Put
  <2>2. PICK b \in AllVal : b = Put(lists, p, new)
    BY <1>2, PutIn
  <2> QED
    BY <2>1, <2>2
<1>7. lists[p] # <<>>
  <2>1. ToSet(lists[p]) # {}
    <3>1. Head(new) \in ToSet(new)
      BY <1>4, FirstAndRest
    <3> QED
      BY <1>4, <3>1
  <2> QED
    BY <2>1, EmptyProgram
<1>8. Starts(program', l2, p, p)
  BY <1>4, <1>6, StartsChanged
<1>9. /\ Runs(program', p, p) /\ Leads(program', l2) /\ FinishesOf(program') = {} /\ program' # <<>>
  BY <1>8 DEF Starts
<1>10. Core(l2, <<>>, p, p)' /\ operations' # <<>>
  <2>1. FinishesOf(program') = FinishesOf(program)
    BY <1>2, <1>9
  <2>2. UNCHANGED <<undo_stack, redo_stack, base>>
    BY <1>1
  <2>3. Core(Put(lists, p, new), <<>>, p, p)' /\ operations' # <<>>
    BY <1>2, <1>4, <1>5, <1>7, <2>1, <2>2, CoreSorted
  <2> QED
    BY <1>6, <2>3
<1>11. Ahead(l2, p, p)'
  BY <1>9 DEF Ahead, Records
<1>12. Quiet(l2, p)'
  BY <1>1, <1>2, <1>9 DEF Quiet, NoAdder
<1>13. HistoryState(l2, <<>>, p, p)'
  BY <1>2, <1>4, <1>10, <1>11, <1>12 DEF HistoryState
<1> QED
  BY <1>2, <1>9, <1>13

LEMMA AheadStill ==
  ASSUME NEW lists, NEW src, NEW dst, Ahead(lists, src, dst), UNCHANGED <<program, operations>>
  PROVE  Ahead(lists, src, dst)'
  BY DEF Ahead

LEMMA TailKnown ==
  ASSUME NEW lists, NEW gone, State(lists, gone), NEW p \in Lists
  PROVE  tail[p] = EndOf(lists[p]) /\ tail[p] \in ToSet(lists[p]) \cup {NULL}
<1>1. p \in AllLists
  BY DEF AllLists
<1>2. lists[p] \in Seq(Items) /\ ChainedBack(prev, lists[p], tail[p])
  BY <1>1, StateLists
<1>3. tail[p] = EndOf(lists[p])
  BY <1>2, EmptySeq DEF ChainedBack, EndOf
<1> QED
  BY <1>2, <1>3, EndKnown

LEMMA ViewCalled ==
  ASSUME NEW lists, NEW gone, NEW src, NEW dst, HistoryState(lists, gone, src, dst), WAITS,
         Switch \/ AddFiles \/ CommandLine \/ CommandLineEnd
  PROVE  /\ \E s2, d2 : HistoryState(lists, gone, s2, d2)'
         /\ program' = program /\ UNCHANGED <<undo_stack, redo_stack, base>>
<1>1. /\ State(lists, gone) /\ Core(lists, gone, src, dst) /\ Quiet(lists, dst) /\ Ahead(lists, src, dst)
  BY DEF HistoryState
<1>2. UNCHANGED <<undo_stack, redo_stack, base, operations, program>>
  BY DEF Switch, AddFiles, CommandLine, CommandLineEnd, Edit, stacks
<1>3. State(lists, gone)'
  BY <1>1, ViewStep
<1>4. FinishesOf(program') = FinishesOf(program)
  BY <1>2
<1>5. CASE CommandLineEnd
  <2>1. /\ adding' = NULL /\ adder' = NoAdder /\ pending' = TRUE
    BY <1>5 DEF CommandLineEnd
  <2>2. Core(lists, gone, src, dst)'
    BY <1>1, <1>2, <1>4, CoreQuiet
  <2>3. Quiet(lists, dst)'
    BY <1>2, <2>1 DEF Quiet, NoAdder
  <2> QED
    BY <1>1, <1>2, <1>3, <2>2, <2>3, AheadStill DEF HistoryState
<1>6. ASSUME Switch \/ AddFiles \/ CommandLine
      PROVE  \E s2, d2 : HistoryState(lists, gone, s2, d2)'
  <2>1. Idle
    BY <1>6 DEF Switch, AddFiles, CommandLine, Edit
  <2>2. /\ gone = <<>> /\ operations = <<>> /\ adding = NULL /\ adder = NoAdder
        /\ program = <<>> /\ lists \in AllVal /\ current \in Lists
    BY <1>1, <2>1, IdleQuiet, ListsKnown
  <2>3. PICK p \in Lists :
        /\ AddFiles \/ CommandLine => adding' = p
        /\ CommandLine => adder' = [after |-> tail[p], left |-> CLI_FILES]
    <3>1. CASE CommandLine
      BY <3>1 DEF CommandLine
    <3>2. CASE ~ CommandLine
      BY <2>2, <3>2 DEF AddFiles
    <3> QED
      BY <3>1, <3>2
  <2>4. Core(lists, gone, p, p)
    BY <1>1, <2>2, CoreIdle
  <2>5. Core(lists, gone, p, p)'
    BY <1>1, <1>2, <1>4, <2>4, CoreQuiet
  <2>6. Ahead(lists, p, p)'
    <3>1. program' = <<>>
      BY <1>2, <2>2
    <3>2. Runs(program', p, p) /\ Leads(program', lists) /\ FinishesOf(program') = {}
      BY <2>2, <3>1, EmptyAhead
    <3> QED
      BY <3>2 DEF Ahead, Records
  <2>7. operations' = <<>> /\ program' = <<>>
    BY <1>2, <2>2
  <2>8. Quiet(lists, p)'
    <3>1. ASSUME Switch PROVE Quiet(lists, p)'
      <4>1. adding' = NULL /\ adder' = NoAdder
        BY <2>2, <3>1 DEF Switch
      <4> QED
        BY <2>7, <4>1 DEF Quiet, NoAdder
    <3>2. ASSUME AddFiles PROVE Quiet(lists, p)'
      <4>1. adding' = p /\ adder' = NoAdder
        BY <2>2, <2>3, <3>2 DEF AddFiles
      <4> QED
        BY <2>7, <4>1 DEF Quiet, NoAdder
    <3>3. ASSUME CommandLine PROVE Quiet(lists, p)'
      <4>1. adding' = p /\ adder' = [after |-> tail[p], left |-> CLI_FILES]
        BY <2>3, <3>3
      <4>2. tail[p] \in ToSet(lists[p]) \cup {NULL}
        BY <1>1, TailKnown
      <4>3. p # NULL
        BY PlaylistAssumption
      <4> QED
        BY <2>7, <4>1, <4>2, <4>3 DEF Quiet
    <3> QED
      BY <1>6, <3>1, <3>2, <3>3
  <2> QED
    BY <1>3, <2>5, <2>6, <2>8 DEF HistoryState
<1> QED
  BY <1>2, <1>5, <1>6

(* `deadbeef --queue', one file. *)
LEMMA CommandLineFileCalled ==
  ASSUME NEW lists, NEW gone, NEW src, NEW dst, HistoryState(lists, gone, src, dst), CommandLineFile
  PROVE  /\ \E l2 : HistoryState(l2, <<>>, src, dst)'
         /\ program' = program /\ UNCHANGED <<undo_stack, redo_stack, base>>
<1>1. /\ adder.left > 0 /\ UNCHANGED <<program, adding, undo_stack, redo_stack, base>>
  BY DEF CommandLineFile, stacks
<1>2. /\ State(lists, gone) /\ Core(lists, gone, src, dst) /\ Quiet(lists, dst)
      /\ CallsFit
  BY Fits DEF HistoryState
<1>3. program = <<>> /\ adding # NULL /\ dst = adding
  <2>1. adder # NoAdder
    BY <1>1 DEF NoAdder
  <2> QED
    BY <1>2, <2>1 DEF Quiet
<1>4. gone = <<>> /\ lists \in AllVal
  BY <1>2, <1>3, NothingGone, StateLists
<1>5. PICK p \in AllLists, item \in Items :
      \E after \in ToSet(lists[p]) \cup {NULL}, k \in 0 .. Len(lists[p]) : \E l2 :
            /\ adding = p
            /\ adder' = [after |-> item, left |-> adder.left - 1]
            /\ item \notin ToSet(gone) /\ \A q \in AllLists : item \notin ToSet(lists[q])
            /\ after = IF k = 0 THEN NULL ELSE lists[p][k]
            /\ l2 = [lists EXCEPT ![p] = InsertAt(lists[p], k + 1, item)]
            /\ operations' = InsertionRecorded(p, <<item>>)
            /\ State(l2, gone)'
  BY <1>2, CommandLineFileStep
<1>5a. PICK after \in ToSet(lists[p]) \cup {NULL}, k \in 0 .. Len(lists[p]) : \E l2 :
            /\ adding = p
            /\ adder' = [after |-> item, left |-> adder.left - 1]
            /\ after = IF k = 0 THEN NULL ELSE lists[p][k]
            /\ l2 = [lists EXCEPT ![p] = InsertAt(lists[p], k + 1, item)]
            /\ operations' = InsertionRecorded(p, <<item>>)
            /\ State(l2, gone)'
  BY <1>5
<1>6. PICK l2 :
            /\ adding = p
            /\ adder' = [after |-> item, left |-> adder.left - 1]
            /\ after = IF k = 0 THEN NULL ELSE lists[p][k]
            /\ l2 = [lists EXCEPT ![p] = InsertAt(lists[p], k + 1, item)]
            /\ operations' = InsertionRecorded(p, <<item>>)
            /\ State(l2, gone)'
  BY <1>5a
<1>7. p = dst
  BY <1>3, <1>6
<1>8. PICK u, v \in Seq(Items) : Lands(lists, p, after, u, v)
  BY <1>4, Landing
<1>9. InsertAt(lists[p], k + 1, item) = With(u, item, v)
  <2>1. Distinct(lists[p])
    BY <1>2, StateLists
  <2>2. PICK s : s = lists[p]
    OBVIOUS
  <2>3. s = Then(u, v) /\ Distinct(s) /\ k \in 0 .. Len(s) /\ EndOf(u) = (IF k = 0 THEN NULL ELSE s[k])
    BY <1>6, <1>8, <2>1, <2>2 DEF Lands
  <2>4. InsertAt(s, k + 1, item) = With(u, item, v)
    BY <2>3, InsertedParts
  <2> QED
    BY <2>2, <2>4
<1>10. With(u, item, v) \in Seq(Items) /\ item \in ToSet(With(u, item, v))
  BY SetsOf
<1>11. l2 = Put(lists, p, With(u, item, v))
  BY <1>6, <1>9 DEF Put
<1>12. l2 \in AllVal /\ l2[p] = With(u, item, v)
  <2>1. PICK b \in AllVal : b = Put(lists, p, With(u, item, v)) /\ b[p] = With(u, item, v)
    BY <1>4, <1>10, PutIn
  <2> QED
    BY <1>11, <2>1
<1>13. Cuts(lists[dst], u, v)
  BY <1>7, <1>8 DEF Cuts, Lands
<1>14. Distinct(With(u, item, v))
  <2>1. Distinct(l2[p])
    BY <1>6 DEF State, LinkedAs
  <2> QED
    BY <1>12, <2>1
<1>15. FinishesOf(program') = FinishesOf(program)
  BY <1>1
<1>16. /\ Core(Put(lists, dst, With(u, item, v)), <<>>, src, dst)'
       /\ operations' # <<>>
  BY <1>1, <1>2, <1>4, <1>6, <1>7, <1>13, <1>14, <1>15, CoreInserted
<1>17. Core(l2, <<>>, src, dst)' /\ State(l2, <<>>)'
  BY <1>4, <1>6, <1>7, <1>11, <1>16
<1>18. Ahead(l2, src, dst)'
  <2>1. program' = <<>>
    BY <1>1, <1>3
  <2>2. Runs(program', src, dst) /\ Leads(program', l2) /\ FinishesOf(program') = {}
    BY <1>12, <2>1, EmptyAhead
  <2> QED
    BY <2>2 DEF Ahead, Records
<1>19. Quiet(l2, dst)'
  <2>1. adding' = dst /\ adding' # NULL /\ adding' = p /\ program' = <<>>
    BY <1>1, <1>3, <1>7
  <2>2. adder'.after \in ToSet(l2[p])
    BY <1>6, <1>10, <1>12
  <2> QED
    BY <2>1, <2>2 DEF Quiet
<1>20. HistoryState(l2, <<>>, src, dst)'
  BY <1>17, <1>18, <1>19 DEF HistoryState
<1> QED
  BY <1>1, <1>20

LEMMA FilesEndStarts ==
  ASSUME NEW a \in AllVal, NEW src, NEW dst
  PROVE  Starts(<<FilesEnd>>, a, src, dst)
<1> DEFINE v == <<FilesEnd>>
<1>1. FilesEnd \in CallT /\ FilesEnd.do = "files_end" /\ FilesEnd \in CallsAt(src, dst)
  BY CallsMade DEF CallsAt
<1>2. v \in Seq(CallT) /\ v \in Seq(CallsAt(src, dst)) /\ Len(v) = 1 /\ v[1] = FilesEnd /\ v # <<>>
  BY <1>1
<1> HIDE DEF v
<1>3. \A n \in 1 .. Len(v) : v[n].do = "files_end"
  BY <1>1, <1>2
<1>4. Runs(v, src, dst)
  BY <1>2, <1>3 DEF Runs
<1>5. Leads(v, a) /\ FinishesOf(v) = {}
  BY <1>2, <1>3, LeadsStill
<1> QED
  BY <1>2, <1>4, <1>5 DEF Starts, v

LEMMA AllPutIs ==
  ASSUME NEW a \in AllVal, NEW p \in AllLists, NEW b \in AllVal, \A q \in AllLists : q # p => b[q] = a[q]
  PROVE  b = Put(a, p, b[p])
<1>1. b[p] \in Seq(Items)
  BY DEF AllVal
<1>2. PICK c \in AllVal : /\ c = Put(a, p, b[p]) /\ c[p] = b[p]
                          /\ \A q \in AllLists : q # p => c[q] = a[q]
  BY <1>1, PutIn
<1>3. \A q \in AllLists : b[q] = c[q]
  BY <1>2
<1>4. b \in [AllLists -> Seq(Items)] /\ c \in [AllLists -> Seq(Items)]
  BY DEF AllVal
<1>5. b = c
  BY <1>3, <1>4
<1> QED
  BY <1>2, <1>5

(* x goes from the files that are read to the end of a list. *)
Goes(e, b, p, x) ==
    /\ b[p] = Then(e[p], One(x))
    /\ \A q \in Lists : q # p => b[q] = e[q]

LEMMA PairPath ==
  ASSUME NEW e \in AllVal, NEW b \in AllVal, NEW p \in Lists, NEW x \in Items,
         NEW y \in Seq(Items), NEW z \in Seq(Items), Splits(e[Incoming], y, x, z),
         Cuts(b[Incoming], y, z),
         Goes(e, b, p, x), x \notin ToSet(y), x \notin ToSet(z),
         \A q \in Lists : x \notin ToSet(e[q]),
         NEW r \in CallT, NEW i \in CallT,
         r.do = "remove", r.plt = Incoming, r.item = x,
         i.do = "insert", i.plt = p, i.item = x, i.after = EndOf(e[p])
  PROVE  Path(Does, AllVal, <<r, i>>, e, b)
<1>1. p \in AllLists /\ Incoming \in AllLists /\ p # Incoming
      /\ \A q \in AllLists : q \in Lists \/ q = Incoming
  BY Constants DEF AllLists
<1>2. e[Incoming] = With(y, x, z) /\ b[Incoming] = Then(y, z) /\ e[p] \in Seq(Items)
  BY <1>1 DEF Splits, Cuts, AllVal
<1>3. ToSet(Then(y, z)) = ToSet(y) \cup ToSet(z) /\ Then(y, z) \in Seq(Items)
  BY SetsOf
<1>4. PICK c \in AllVal : /\ c = Put(e, Incoming, Then(y, z)) /\ c[Incoming] = Then(y, z)
                          /\ \A q \in AllLists : q # Incoming => c[q] = e[q]
  BY <1>1, <1>3, PutIn
<1>5. Takes(r, e, c)
  BY <1>2, <1>4 DEF Takes
<1>6. Gets(i, c, b)
  <2>1. \A q \in AllLists : x \notin ToSet(c[q])
    BY <1>1, <1>3, <1>4
  <2>2. c[p] = e[p]
    BY <1>1, <1>4
  <2>3. \A q \in AllLists : q # p => b[q] = c[q]
    BY <1>1, <1>2, <1>4 DEF Goes
  <2>4. b = Put(c, p, b[p])
    BY <1>1, <2>3, AllPutIs
  <2>5. c[p] = Then(e[p], <<>>) /\ b[p] = With(e[p], x, <<>>)
    <3>1. Then(e[p], <<>>) = e[p]
      BY <1>2, EmptyThen
    <3>2. With(e[p], x, <<>>) = Then(Then(e[p], One(x)), <<>>)
      BY WithThen
    <3>3. Then(e[p], One(x)) \in Seq(Items)
      BY <1>2, OneKnown, Two
    <3>4. Then(Then(e[p], One(x)), <<>>) = Then(e[p], One(x))
      BY <3>3, EmptyThen
    <3> QED
      BY <2>2, <3>1, <3>2, <3>4 DEF Goes
  <2>6. \E u, v \in Seq(Items) : /\ c[p] = Then(u, v) /\ EndOf(u) = i.after
                                 /\ b = Put(c, p, With(u, x, v))
    <3>1. <<>> \in Seq(Items)
      OBVIOUS
    <3> QED
      BY <1>2, <2>4, <2>5, <3>1
  <2> QED
    BY <2>1, <2>6 DEF Gets
<1>7. c \in Does[r][e] /\ b \in Does[i][c]
  BY <1>5, <1>6, DoesKnown DEF Done
<1>8. /\ Path(Does, AllVal, One(r), e, c) /\ Path(Does, AllVal, One(i), c, b)
      /\ One(r) \in Seq(CallT) /\ One(i) \in Seq(CallT)
  BY <1>4, <1>7, PathOne, OneKnown
<1>9. Path(Does, AllVal, Then(One(r), One(i)), e, b)
  BY <1>8, PathBoth
<1>10. Then(One(r), One(i)) = <<r, i>>
  BY JoinedOnes DEF Then, One
<1> QED
  BY <1>9, <1>10

(* Takes x out of what is read, and puts it into list p. *)
Carries(r, i, p, x, after) ==
    /\ r.do = "remove" /\ r.plt = Incoming /\ r.item = x
    /\ i.do = "insert" /\ i.plt = p /\ i.item = x /\ i.after = after

(* One pair of calls per file. *)
Pairs(ss, F, p, first) ==
    \A n \in 1 .. Len(F) : \E r, i \in CallT :
        ss[n] = <<r, i>> /\ Carries(r, i, p, F[n], IF n = 1 THEN first ELSE F[n - 1])

LEMMA SparedPick ==
  ASSUME NEW F \in Seq(Items), Distinct(F), NEW S \in SUBSET Items, NEW x \in ToSet(F), x \notin S
  PROVE  \E y, z \in Seq(Items) : Splits(Spared(F, S), y, x, z) /\ Cuts(Spared(F, S \cup {x}), y, z)
<1>1. PICK w \in ToSet(F) \ S : w = x
  OBVIOUS
<1>2. PICK y \in Seq(Items), z \in Seq(Items) :
         Spared(F, S) = With(y, w, z) /\ Spared(F, S \cup {w}) = Then(y, z)
  BY SparedOneMore
<1> QED
  BY <1>1, <1>2 DEF Splits, Cuts

(* What plt_move_all_items makes of the lists, file by file. *)
LEMMA FilesMoved ==
  ASSUME NEW lists \in AllVal, NEW F \in Seq(Items), F = lists[Incoming], Distinct(F), NEW p \in Lists,
         \A q \in Lists : ToSet(lists[q]) \cap ToSet(F) = {},
         NEW l, l = Len(F), NEW ss \in Seq(Seq(CallT)), Len(ss) = l,
         Pairs(ss, F, p, EndOf(lists[p]))
  PROVE  \E b \in AllVal : Path(Does, AllVal, Joined(ss), lists, b)
<1>1. l \in Nat /\ (\A n \in 1 .. l : F[n] \in Items) /\ ToSet(F) = {F[n] : n \in 1 .. l}
  BY LenProperties, ElementOfSeq DEF ToSet
<1>2. /\ p \in AllLists /\ Incoming \in AllLists /\ p # Incoming
      /\ \A q \in AllLists : lists[q] \in Seq(Items)
      /\ \A q \in Lists : q \in AllLists
      /\ \A q \in AllLists : q \in Lists \/ q = Incoming
  BY Constants DEF AllLists, AllVal
<1>3. PICK u \in Seq(Items) : u = lists[p]
  BY <1>2
<1>4. PICK g : Growing(g, u, F)
  BY GrowingPrefixes
<1>5. /\ g \in [0 .. l -> Seq(Items)] /\ g[0] = u
      /\ \A n \in 1 .. l : g[n] = Then(g[n - 1], One(F[n]))
      /\ \A n \in 0 .. l : ToSet(g[n]) = ToSet(u) \cup {F[j] : j \in 1 .. n}
  BY <1>4 DEF Growing
<1>6. \A i, j \in 1 .. l : F[i] = F[j] => i = j
  BY DEF Distinct
<1> DEFINE T(n) == {F[j] : j \in 1 .. n}
           H == [n \in 0 .. l |-> [q \in AllLists |-> IF q = p THEN g[n]
                                     ELSE IF q = Incoming THEN Spared(F, T(n)) ELSE lists[q]]]
<1>7. \A n \in 0 .. l : T(n) \in SUBSET Items
  BY <1>1
<1>8. T(0) = {}
  OBVIOUS
<1>9. ASSUME NEW n \in 1 .. l
      PROVE  T(n) = T(n - 1) \cup {F[n]} /\ F[n] \notin T(n - 1) /\ n - 1 \in 0 .. l /\ n \in 0 .. l
  <2>1. n - 1 \in 0 .. l /\ n \in 0 .. l
    BY <1>1
  <2>2. \A j \in 1 .. n - 1 : j \in 1 .. l /\ j # n
    BY <1>1
  <2>3. F[n] \notin T(n - 1)
    BY <1>6, <2>2
  <2>4. \A j \in 1 .. n : j \in 1 .. n - 1 \/ j = n
    BY <1>1
  <2>5. \A j \in 1 .. n - 1 : j \in 1 .. n
    BY <1>1
  <2>6. n \in 1 .. n
    BY <1>1
  <2>7. T(n) = T(n - 1) \cup {F[n]}
    BY <2>4, <2>5, <2>6
  <2> QED
    BY <2>1, <2>3, <2>7
<1>10. \A n \in 0 .. l : ToSet(g[n]) = ToSet(u) \cup T(n)
  BY <1>5
<1> HIDE DEF T
<1>11. \A n \in 0 .. l : Spared(F, T(n)) \in Seq(Items)
  BY <1>7, SparedKnown
<1>12. \A n \in 0 .. l : /\ H[n][p] = g[n] /\ H[n][Incoming] = Spared(F, T(n))
                         /\ \A q \in Lists : q # p => H[n][q] = lists[q]
  BY <1>2, Constants
<1>13. H \in [0 .. l -> AllVal]
  BY <1>2, <1>5, <1>11 DEF AllVal
<1> HIDE DEF H
<1>14. H[0] = lists
  <2>1. 0 \in 0 .. l
    BY <1>1
  <2>2. PICK a \in AllVal : a = H[0]
    BY <1>13, <2>1
  <2>3. Spared(F, T(0)) = F
    BY <1>8, SparedAll
  <2>4. \A q \in AllLists : a[q] = lists[q]
    BY <1>2, <1>3, <1>5, <1>12, <2>1, <2>2, <2>3
  <2>5. a \in [AllLists -> Seq(Items)] /\ lists \in [AllLists -> Seq(Items)]
    BY DEF AllVal
  <2>6. a = lists
    BY <2>4, <2>5
  <2> QED
    BY <2>2, <2>6
<1>15. ASSUME NEW n \in 1 .. l PROVE Path(Does, AllVal, ss[n], H[n - 1], H[n])
  <2>1. n - 1 \in 0 .. l /\ n \in 0 .. l /\ F[n] \notin T(n - 1) /\ T(n) = T(n - 1) \cup {F[n]}
    BY <1>9
  <2>2. PICK x \in Items : x = F[n]
    BY <1>1
  <2>3. PICK e, b \in AllVal : e = H[n - 1] /\ b = H[n]
    BY <1>13, <2>1
  <2>4. PICK r, i \in CallT :
          ss[n] = <<r, i>> /\ Carries(r, i, p, x, IF n = 1 THEN EndOf(lists[p]) ELSE F[n - 1])
    BY <2>2 DEF Pairs
  <2>5. PICK S \in SUBSET Items : S = T(n - 1)
    BY <1>7, <2>1
  <2>6. x \in ToSet(F) \ S
    BY <1>1, <2>1, <2>2, <2>5
  <2>7. PICK y, z \in Seq(Items) : Splits(Spared(F, S), y, x, z) /\ Cuts(Spared(F, S \cup {x}), y, z)
    <3>1. x \in ToSet(F) /\ x \notin S
      BY <2>6
    <3> QED
      BY <3>1, SparedPick
  <2>8. Splits(e[Incoming], y, x, z)
    BY <1>12, <2>1, <2>3, <2>5, <2>7 DEF Splits
  <2>9. Cuts(b[Incoming], y, z)
    BY <1>12, <2>1, <2>2, <2>3, <2>5, <2>7 DEF Cuts
  <2>10. PICK d \in Seq(Items) : d = g[n - 1]
    BY <1>5, <2>1
  <2>11. e[p] = d
    BY <1>12, <2>1, <2>3, <2>10
  <2>12. Goes(e, b, p, x)
    <3>1. b[p] = Then(e[p], One(x))
      BY <1>5, <1>12, <2>1, <2>2, <2>3, <2>10, <2>11
    <3>2. \A q \in Lists : q # p => b[q] = e[q]
      BY <1>12, <2>1, <2>3, ZenonT(40)
    <3> QED
      BY <3>1, <3>2 DEF Goes
  <2>13. x \notin ToSet(y) /\ x \notin ToSet(z)
    <3>1. ToSet(Then(y, z)) = ToSet(y) \cup ToSet(z)
      BY SetsOf
    <3>2. S \cup {x} \in SUBSET Items
      OBVIOUS
    <3>3. ToSet(Spared(F, S \cup {x})) = ToSet(F) \ (S \cup {x})
      BY <3>2, SparedSet
    <3> QED
      BY <2>7, <3>1, <3>3 DEF Cuts
  <2>14. \A q \in Lists : x \notin ToSet(e[q])
    <3>1. \A q \in Lists : x \notin ToSet(lists[q])
      BY <2>6
    <3>2. ToSet(d) = ToSet(u) \cup S
      BY <1>10, <2>1, <2>5, <2>10
    <3>3. x \notin ToSet(e[p])
      BY <1>3, <2>6, <2>11, <3>1, <3>2
    <3>4. \A q \in Lists : q # p => e[q] = lists[q]
      BY <1>12, <2>1, <2>3
    <3> QED
      BY <3>1, <3>3, <3>4
  <2>15. EndOf(d) = IF n = 1 THEN EndOf(lists[p]) ELSE F[n - 1]
    <3>1. CASE n = 1
      BY <1>3, <1>5, <2>10, <3>1
    <3>2. CASE n # 1
      <4>1. n - 1 \in 1 .. l /\ n - 2 \in 0 .. l /\ (n - 1) - 1 = n - 2
        BY <1>1, <3>2
      <4>2. PICK w \in Items : w = F[n - 1]
        BY <1>1, <4>1
      <4>3. PICK c \in Seq(Items) : c = g[n - 2]
        BY <1>5, <4>1
      <4>4. d = Then(c, One(w))
        BY <1>5, <2>10, <4>1, <4>2, <4>3
      <4>5. EndOf(Then(c, One(w))) = w
        BY EndKnown
      <4> QED
        BY <3>2, <4>2, <4>4, <4>5
    <3> QED
      BY <3>1, <3>2
  <2>16. Carries(r, i, p, x, EndOf(e[p]))
    BY <2>4, <2>11, <2>15
  <2>17. /\ r.do = "remove" /\ r.plt = Incoming /\ r.item = x
         /\ i.do = "insert" /\ i.plt = p /\ i.item = x /\ i.after = EndOf(e[p])
    BY <2>16 DEF Carries
  <2>18. Path(Does, AllVal, <<r, i>>, e, b)
    BY <2>8, <2>9, <2>12, <2>13, <2>14, <2>17, PairPath
  <2> QED
    BY <2>3, <2>4, <2>18
<1>16. Path(Does, AllVal, Joined(ss), H[0], H[Len(ss)])
  BY <1>13, <1>15, PathJoined
<1>17. H[Len(ss)] \in AllVal
  <2>1. l \in 0 .. l
    BY <1>1
  <2> QED
    BY <1>13, <2>1
<1> QED
  BY <1>14, <1>16, <1>17

LEMMA PairSteady ==
  ASSUME NEW src \in Lists, NEW p \in Lists, NEW x \in Items, NEW after \in Pointer
  PROVE  \E r, i \in Steady(src, p) :
            /\ r = RemoveCall(Incoming, x, 1) /\ i = InsertCall(p, after, x, 1)
            /\ Carries(r, i, p, x, after)
<1> DEFINE r == RemoveCall(Incoming, x, 1)
           i == InsertCall(p, after, x, 1)
<1>1. p \in AllLists /\ Incoming \in AllLists
  BY DEF AllLists
<1>2. r \in Steady(src, p)
  BY <1>1, SteadyMade
<1>3. i \in Steady(src, p)
  BY <1>1, SteadyMade
<1>4. Carries(r, i, p, x, after)
  BY DEF Carries, RemoveCall, InsertCall
<1> HIDE DEF r, i
<1> QED
  BY <1>2, <1>3, <1>4 DEF r, i

LEMMA TwoSteady ==
  ASSUME NEW A, NEW r \in A, NEW i \in A
  PROVE  <<r, i>> \in Seq(A)
  OBVIOUS

(* plt_move_all_items, the calls. *)
LEMMA PairsMade ==
  ASSUME NEW src \in Lists, NEW p \in Lists, NEW F \in Seq(Items), NEW first \in Pointer, NEW ss,
         ss = [n \in DOMAIN F |->
                <<RemoveCall(Incoming, F[n], 1),
                  InsertCall(p, IF n = 1 THEN first ELSE F[n - 1], F[n], 1)>>]
  PROVE  /\ ss \in Seq(Seq(Steady(src, p))) /\ ss \in Seq(Seq(CallT)) /\ Len(ss) = Len(F)
         /\ Pairs(ss, F, p, first)
         /\ \A n \in 1 .. Len(ss) : ss[n] \in Seq(Steady(src, p))
<1> DEFINE l == Len(F)
           B == Steady(src, p)
           at(n) == IF n = 1 THEN first ELSE F[n - 1]
<1>1. l \in Nat /\ DOMAIN F = 1 .. l /\ \A n \in 1 .. l : F[n] \in Items
  BY LenProperties, ElementOfSeq
<1>2. \A n \in 1 .. l : at(n) \in Pointer
  <2> TAKE n \in 1 .. l
  <2>1. n = 1 \/ n - 1 \in 1 .. l
    BY <1>1
  <2> QED
    BY <1>1, <2>1 DEF Pointer
<1>3. /\ ss = [n \in 1 .. l |-> ss[n]]
      /\ \A n \in 1 .. l : ss[n] = <<RemoveCall(Incoming, F[n], 1), InsertCall(p, at(n), F[n], 1)>>
  BY <1>1
<1> HIDE DEF at
<1>4. ASSUME NEW n \in 1 .. l
      PROVE  \E r, i \in B : ss[n] = <<r, i>> /\ Carries(r, i, p, F[n], at(n))
  <2>1. PICK x \in Items : x = F[n]
    BY <1>1
  <2>2. PICK after \in Pointer : after = at(n)
    BY <1>2
  <2>3. PICK r, i \in B : /\ r = RemoveCall(Incoming, x, 1) /\ i = InsertCall(p, after, x, 1)
                          /\ Carries(r, i, p, x, after)
    BY PairSteady
  <2> QED
    BY <1>3, <2>1, <2>2, <2>3
<1>5. B \subseteq CallT
  BY DEF Steady, CallsAt
<1>6. \A n \in 1 .. l : ss[n] \in Seq(B)
  <2> TAKE n \in 1 .. l
  <2>1. PICK r, i \in B : ss[n] = <<r, i>>
    BY <1>4
  <2> QED
    BY <2>1, TwoSteady
<1>7. \A s : s \in Seq(B) => s \in Seq(CallT)
  BY <1>5, SameSeq
<1>8. Pairs(ss, F, p, first)
  <2>1. \A n \in 1 .. l : \E r, i \in CallT : ss[n] = <<r, i>> /\ Carries(r, i, p, F[n], at(n))
    BY <1>4, <1>5
  <2> QED
    BY <2>1 DEF Pairs, at
<1> HIDE DEF l, B
<1>9. ss \in [1 .. l -> Seq(B)] /\ ss \in [1 .. l -> Seq(CallT)]
  BY <1>3, <1>6, <1>7
<1>10. ss \in Seq(Seq(B)) /\ ss \in Seq(Seq(CallT)) /\ Len(ss) = l
  BY <1>1, <1>9
<1> QED
  BY <1>6, <1>8, <1>10 DEF l, B

LEMMA FilesReadCalled ==
  ASSUME NEW lists, NEW gone, NEW src, NEW dst, HistoryState(lists, gone, src, dst), FilesRead
  PROVE  /\ HistoryState(lists, gone, src, dst)' /\ FinishesOf(program') = FinishesOf(program)
         /\ UNCHANGED <<undo_stack, redo_stack, base>>
<1>1. /\ State(lists, gone) /\ Core(lists, gone, src, dst) /\ Quiet(lists, dst)
  BY DEF HistoryState
<1>2. /\ program = <<>> /\ adding # NULL /\ adder = NoAdder
      /\ UNCHANGED <<undo_stack, redo_stack, base, operations, adding, adder>>
  BY DEF FilesRead, Begin, stacks
<1>3. State(lists, gone)'
  BY <1>1, FilesReadStep
<1>4. /\ lists \in AllVal /\ gone = <<>> /\ dst = adding /\ src \in Lists /\ dst \in Lists
  BY <1>1, <1>2, NothingGone, StateLists DEF Quiet, Core
<1>5. /\ dst \in AllLists /\ Incoming \in AllLists
      /\ Tracks(Incoming) = lists[Incoming] /\ Tracks(dst) = lists[dst]
      /\ lists[Incoming] \in Seq(Items) /\ lists[dst] \in Seq(Items)
  BY <1>1, <1>4, ListsKnown, StateLists DEF AllLists
<1>6. PICK F \in Seq(Items) : F = lists[Incoming]
  BY <1>5
<1>7. PICK first \in Pointer : first = tail[dst] /\ first = EndOf(lists[dst])
  <2>1. tail[dst] = EndOf(lists[dst])
    BY <1>1, <1>4, TailKnown
  <2>2. tail[dst] \in Pointer
    BY <1>1, <1>5, ListsKnown
  <2> QED
    BY <2>1, <2>2
<1> DEFINE ss == [n \in DOMAIN F |->
                    <<RemoveCall(Incoming, F[n], 1),
                      InsertCall(dst, IF n = 1 THEN first ELSE F[n - 1], F[n], 1)>>]
           j == Joined(ss)
           g == Group(NULL)
           e == EndGroup
           k == UnlockCall(dst, lists[dst] \o F)
           c == FilesEnd
           v == <<c>>
<1>8. program' = (<<g>> \o j) \o <<e, k, c>>
  BY <1>4, <1>5, <1>6, <1>7 DEF FilesRead, Begin
<1>9. /\ ss \in Seq(Seq(Steady(src, dst))) /\ ss \in Seq(Seq(CallT)) /\ Len(ss) = Len(F)
      /\ Pairs(ss, F, dst, first) /\ \A n \in 1 .. Len(ss) : ss[n] \in Seq(Steady(src, dst))
  BY <1>4, PairsMade
<1> HIDE DEF ss
<1>10. PICK b \in AllVal : Path(Does, AllVal, j, lists, b)
  <2>1. Distinct(F) /\ \A q \in Lists : ToSet(lists[q]) \cap ToSet(F) = {}
    <3>1. \A q \in Lists : q \in AllLists /\ q # Incoming
      BY Constants DEF AllLists
    <3> QED
      BY <1>1, <1>5, <1>6, <3>1, StateLists
  <2>2. Pairs(ss, F, dst, EndOf(lists[dst]))
    BY <1>7, <1>9
  <2>3. Len(ss) = Len(F) /\ ss \in Seq(Seq(CallT))
    BY <1>9
  <2> QED
    BY <1>4, <1>6, <2>1, <2>2, <2>3, FilesMoved
<1>11. j \in Seq(Steady(src, dst))
  <2> DEFINE S == Steady(src, dst)
  <2>1. ss \in Seq(Seq(S))
    BY <1>9
  <2> HIDE DEF S
  <2>2. Joined(ss) \in Seq(S)
    BY <2>1, JoinedBoth
  <2> QED
    BY <2>2 DEF S
<1>12. k \in Steady(src, dst) /\ k \in CallT /\ k.do = "unlock"
  <2>1. lists[dst] \o F \in Seq(Items)
    BY <1>5, ConcatProperties
  <2> QED
    <3>1. PICK s \in Seq(Items) : s = lists[dst] \o F
      BY <2>1
    <3>2. UnlockCall(dst, s) \in Steady(src, dst)
      BY <1>4, <1>5, SteadyMade
    <3>3. UnlockCall(dst, s) \in CallT /\ UnlockCall(dst, s).do = "unlock"
      BY <1>5, CallsMade
    <3> QED
      BY <3>1, <3>2, <3>3
<1>13. /\ g \in Steady(src, dst) /\ e \in Steady(src, dst)
       /\ g \in CallT /\ e \in CallT /\ c \in CallT
       /\ g.do = "group" /\ e.do = "end_group" /\ c.do = "files_end"
  BY <1>4, <1>5, SteadyMade, CallsMade
<1>14. Starts(v, b, src, dst)
  BY FilesEndStarts
<1> HIDE DEF j, g, e, k, c
<1>15. Starts(Then(One(k), v), b, src, dst)
  BY <1>12, <1>14, StartsWith
<1>16. Starts(Then(One(e), Then(One(k), v)), b, src, dst)
  BY <1>13, <1>15, StartsWith
<1>17. Then(One(e), Then(One(k), v)) = <<e, k, c>>
  <2>1. Then(One(e), Then(One(k), One(c))) = <<e, k, c>>
    BY <1>12, <1>13, ThreeCalls
  <2> QED
    BY <2>1 DEF One
<1> DEFINE t == <<e, k, c>>
<1>18. Starts(t, b, src, dst)
  BY <1>16, <1>17
<1>19. t \in Seq(CallT)
  BY <1>12, <1>13
<1> HIDE DEF t
<1>21. Starts(Then(j, t), lists, src, dst)
  BY <1>10, <1>11, <1>18, StartsAfter
<1>22. Starts(Then(One(g), Then(j, t)), lists, src, dst)
  BY <1>4, <1>13, <1>21, StartsWith
<1>23. program' = Then(One(g), Then(j, t))
  <2>1. program' = Then(Then(One(g), j), t)
    BY <1>8 DEF Then, One, t
  <2>2. j \in Seq(CallT)
    BY <1>11, SameSeq DEF Steady, CallsAt
  <2>3. One(g) \in Seq(CallT)
    BY <1>13, OneKnown
  <2> QED
    BY <1>19, <2>1, <2>2, <2>3, ThenThen
<1>24. /\ Runs(program', src, dst) /\ Leads(program', lists) /\ FinishesOf(program') = {} /\ program' # <<>>
  BY <1>22, <1>23 DEF Starts
<1>25. FinishesOf(program) = {}
  BY <1>2, <1>4, EmptyAhead
<1>26. Core(lists, gone, src, dst)'
  BY <1>1, <1>2, <1>24, <1>25, CoreQuiet
<1>27. Ahead(lists, src, dst)'
  BY <1>24 DEF Ahead, Records
<1>28. Quiet(lists, dst)'
  <2>1. adder' = NoAdder /\ adding' = dst /\ program' # <<>>
    BY <1>2, <1>4, <1>24
  <2> QED
    BY <2>1 DEF Quiet, NoAdder
<1> QED
  BY <1>2, <1>3, <1>24, <1>25, <1>26, <1>27, <1>28 DEF HistoryState

-----------------------------------------------------------------------------
(* Every step.                                                             *)

LEMMA HistoryStarts ==
  ASSUME Init
  PROVE  /\ HistoryState(InitialSeqs, <<>>, current, current)
         /\ base = Contents /\ Past = <<>> /\ Future = <<>>
<1>1. State(InitialSeqs, <<>>)
  BY InitStep
<1>2. /\ current \in Lists /\ adding = NULL /\ adder = NoAdder
      /\ operations = <<>> /\ undo_stack = <<>> /\ redo_stack = <<>>
      /\ program = <<>> /\ base = [p \in Lists |-> Initial[p]]
  BY DEF Init
<1>3. PICK lists \in AllVal : lists = InitialSeqs
  BY <1>1, StateLists
<1>4. base = Shown(lists)
  BY <1>2, <1>3 DEF Shown, InitialSeqs, AllLists
<1>5. Runs(program, current, current) /\ Leads(program, lists) /\ FinishesOf(program) = {}
  BY <1>2, EmptyAhead
<1>6. Past = <<>> /\ Future = <<>>
  BY <1>1, <1>2, <1>5, StacksQuiet
<1>7. Contents = Shown(lists)
  BY <1>1, <1>3, ContentsShown
<1>8. Ahead(lists, current, current)
  BY <1>5 DEF Ahead, Records
<1>9. Quiet(lists, current)
  BY <1>2 DEF Quiet, NoAdder
<1>10. Core(lists, <<>>, current, current)
  <2>1. Shown(lists) \in Val /\ Whole(lists, <<>>, current) = Shown(lists)
    BY ShownKnown
  <2>2. Path(Ops(ToSet(lists[Incoming])), Val, <<>>, Shown(lists), Shown(lists))
    BY <2>1, PathNone
  <2>3. Steps(Past, base, ToSet(lists[Incoming])) /\ Steps(Future, base, ToSet(lists[Incoming]))
    BY <1>6, StepsNone
  <2> QED
    BY <1>2, <1>4, <2>1, <2>2, <2>3 DEF Core
<1> QED
  BY <1>1, <1>3, <1>4, <1>6, <1>7, <1>8, <1>9, <1>10 DEF HistoryState

LEMMA HistoryStays ==
  ASSUME NEW lists, NEW gone, NEW src, NEW dst, HistoryState(lists, gone, src, dst), UNCHANGED vars
  PROVE  HistoryState(lists, gone, src, dst)'
<1>1. /\ State(lists, gone) /\ Core(lists, gone, src, dst) /\ Quiet(lists, dst) /\ Ahead(lists, src, dst)
  BY DEF HistoryState
<1>2. UNCHANGED <<links, refs, operations, stacks, program, undo_stack, redo_stack, base,
                  adding, adder, pending>>
  BY DEF vars, stacks
<1>3. State(lists, gone)'
  <2>1. Typed'
    BY <1>1 DEF vars, stacks, State, Typed
  <2>2. Adding'
    BY <1>1 DEF vars, State, Adding
  <2> QED
    BY <1>1, <1>2, <2>1, <2>2, Untouched
<1>4. FinishesOf(program') = FinishesOf(program)
  BY <1>2
<1>5. Core(lists, gone, src, dst)'
  BY <1>1, <1>2, <1>4, CoreQuiet
<1>6. Quiet(lists, dst)'
  BY <1>1, <1>2 DEF Quiet
<1> QED
  BY <1>1, <1>2, <1>3, <1>5, <1>6, AheadStill DEF HistoryState

(* The user waits until a change was announced and until files have been   *)
(* added, and clears no list that is not shown, of which no one is told.   *)
Announced == WAITS /\ "clear_another" \notin UserActs

(* Nothing can be undone that could not, and nothing else. *)
Calm == base' = base /\ Befores(Past)' = Befores(Past) /\ Befores(Future)' = Befores(Future)

LEMMA CalmCall ==
  ASSUME UNCHANGED <<undo_stack, redo_stack, base>>, FinishesOf(program') = FinishesOf(program)
  PROVE  Calm
<1>1. Past' = Past /\ Future' = Future
  BY StillPast
<1> QED
  BY <1>1 DEF Calm, Befores

LEMMA CallsOn ==
  ASSUME NEW lists, NEW gone, NEW src, NEW dst, HistoryState(lists, gone, src, dst), Calls, ~DoFinish
  PROVE  HistoryInv' /\ Calm
<1> SUFFICES (\E l2, g2 : HistoryState(l2, g2, src, dst)') /\ Calm
  BY SMTT(30) DEF HistoryInv
<1>1. UNCHANGED <<undo_stack, redo_stack, base>>
  BY DEF Calls, DoGroup, DoEndGroup, DoRemove, DoInsert, DoForget, DoMove, DoUnlock, DoChanged,
         DoFilesEnd, stacks
<1>2. (\E l2, g2 : HistoryState(l2, g2, src, dst)') /\ FinishesOf(program') = FinishesOf(program)
  <2>1. CASE DoGroup \/ DoEndGroup \/ DoUnlock \/ DoChanged \/ DoFilesEnd
    BY <2>1, StillCall
  <2>2. CASE DoRemove
    BY <2>2, RemoveCalled
  <2>3. CASE DoInsert
    BY <2>3, InsertCalled
  <2>4. CASE DoForget
    BY <2>4, ForgetCalled
  <2>5. CASE DoMove
    BY <2>5, MoveCalled
  <2> QED
    BY <2>1, <2>2, <2>3, <2>4, <2>5 DEF Calls
<1> QED
  BY <1>1, <1>2, CalmCall

LEMMA UserBegins ==
  ASSUME NEW lists, NEW gone, NEW src, NEW dst, HistoryState(lists, gone, src, dst), Announced, User
  PROVE  HistoryInv' /\ Calm
<1> SUFFICES (\E l2, g2, s2, d2 : HistoryState(l2, g2, s2, d2)') /\ Calm
  BY DEF HistoryInv
<1>0. WAITS /\ "clear_another" \notin UserActs
  BY DEF Announced
<1>1. CASE Undo \/ Redo
  <2>1. base' = base
    BY <1>1 DEF Undo, Redo
  <2> QED
    BY <1>0, <1>1, <2>1, UndoCalled DEF Calm
<1>2. CASE Switch \/ AddFiles
  BY <1>0, <1>2, ViewCalled, CalmCall
<1>3. CASE DeleteSelected \/ CropSelected \/ Clear \/ MoveItems \/ CopyItem \/ Sort
  <2>1. UNCHANGED <<undo_stack, redo_stack, base>>
    BY <1>3 DEF DeleteSelected, CropSelected, Clear, MoveItems, CopyItem, Sort, Begin, stacks
  <2>2. /\ \E l2, g2, s2, d2 : HistoryState(l2, g2, s2, d2)'
        /\ FinishesOf(program') = FinishesOf(program)
    <3>1. CASE DeleteSelected \/ CropSelected
      BY <1>0, <3>1, SelectedCalled
    <3>2. CASE Clear
      BY <1>0, <3>2, ClearCalled
    <3>3. CASE MoveItems
      BY <1>0, <3>3, MoveItemsCalled
    <3>4. CASE CopyItem
      BY <1>0, <3>4, CopyItemCalled
    <3>5. CASE Sort
      BY <1>0, <3>5, SortCalled
    <3> QED
      BY <1>3, <3>1, <3>2, <3>3, <3>4, <3>5
  <2> QED
    BY <2>1, <2>2, CalmCall
<1> QED
  BY <1>1, <1>2, <1>3 DEF User

LEMMA OthersBegin ==
  ASSUME NEW lists, NEW gone, NEW src, NEW dst, HistoryState(lists, gone, src, dst), Announced, Background, ~Process
  PROVE  HistoryInv' /\ Calm
<1> SUFFICES (\E l2, g2, s2, d2 : HistoryState(l2, g2, s2, d2)') /\ Calm
  BY DEF HistoryInv
<1>0. WAITS
  BY DEF Announced
<1>1. CASE FilesRead
  BY <1>1, FilesReadCalled, CalmCall
<1>2. CASE CommandLineFile
  BY <1>2, CommandLineFileCalled, CalmCall
<1>3. CASE CommandLine \/ CommandLineEnd
  BY <1>0, <1>3, ViewCalled, CalmCall
<1> QED
  BY <1>1, <1>2, <1>3 DEF Background

LEMMA HistoryOn ==
  ASSUME NEW lists, NEW gone, NEW src, NEW dst, HistoryState(lists, gone, src, dst), Announced, [Next]_vars
  PROVE  HistoryInv' /\ (Calm \/ Process \/ DoFinish)
<1>1. CASE DoFinish
  BY <1>1, FinishCalled DEF HistoryInv
<1>2. CASE Process
  BY <1>2, Processed DEF HistoryInv
<1>3. CASE Calls /\ ~DoFinish
  BY <1>3, CallsOn
<1>4. CASE User
  BY <1>4, UserBegins
<1>5. CASE Background /\ ~Process
  BY <1>5, OthersBegin
<1>6. CASE UNCHANGED vars
  <2>1. HistoryState(lists, gone, src, dst)'
    BY <1>6, HistoryStays
  <2>2. UNCHANGED <<undo_stack, redo_stack, base>> /\ FinishesOf(program') = FinishesOf(program)
    BY <1>6 DEF vars, stacks
  <2> QED
    BY <2>1, <2>2, CalmCall DEF HistoryInv
<1> QED
  BY <1>1, <1>2, <1>3, <1>4, <1>5, <1>6 DEF Next

-----------------------------------------------------------------------------
(* Undo brings back the lists, step by step.                               *)

(* What the history sees of the lists. *)
Seen == IF Executing("undo") \o Executing("redo") = <<>> THEN Contents ELSE base

LEMMA ExecutingIs ==
  \A type : Executing(type) = ExecutingIn(program, type)
  BY DEF Executing, ExecutingIn

(* While s undoes or redoes it is b, the lists of before; else c. *)
SeenIn(s, c, b) == IF ExecutingIn(s, "undo") \o ExecutingIn(s, "redo") = <<>> THEN c ELSE b

LEMMA SeenIs ==
  /\ Seen = SeenIn(program, Contents, base)
  /\ Seen' = SeenIn(program', Contents', base')
<1>1. \A type : Executing(type) = ExecutingIn(program, type)
  BY ExecutingIs
<1>2. \A type : Executing(type)' = ExecutingIn(program', type)
  BY DEF Executing, ExecutingIn
<1> QED
  BY <1>1, <1>2 DEF Seen, SeenIn

LEMMA NothingExecuted ==
  ASSUME NEW s, FinishesOf(s) = {}, NEW c, NEW b
  PROVE  SeenIn(s, c, b) = c
<1>1. \A type : ExecutingIn(s, type) = <<>>
  BY DEF ExecutingIn, FinishesOf
<1>2. <<>> \o <<>> = <<>>
  OBVIOUS
<1> QED
  BY <1>1, <1>2 DEF SeenIn

LEMMA OneExecuted ==
  ASSUME NEW s, NEW f \in FinishT, FinishesOf(s) = {f}, NEW c, NEW b
  PROVE  SeenIn(s, c, b) = b
<1>1. f.type \in {"undo", "redo"}
  BY DEF FinishT
<1>2. /\ f.type = "undo" => ExecutingIn(s, "undo") = <<f>> /\ ExecutingIn(s, "redo") = <<>>
      /\ f.type = "redo" => ExecutingIn(s, "undo") = <<>> /\ ExecutingIn(s, "redo") = <<f>>
  BY DEF ExecutingIn, FinishesOf
<1>3. <<f>> \o <<>> # <<>> /\ <<>> \o <<f>> # <<>>
  OBVIOUS
<1> QED
  BY <1>1, <1>2, <1>3 DEF SeenIn

LEMMA SeenKnown ==
  ASSUME HistoryInv
  PROVE  Seen \in Val
<1>1. PICK lists, gone, src, dst : State(lists, gone)
  BY DEF HistoryInv, HistoryState
<1>2. Contents \in Val /\ base \in Val
  BY <1>1, ContentsShown DEF State, Typed, Val
<1> QED
  BY <1>2 DEF Seen

LEMMA LastAppended ==
  ASSUME NEW A, NEW s \in Seq(A), NEW e \in A
  PROVE  /\ Append(s, e) # <<>> /\ Append(s, e)[Len(Append(s, e))] = e
         /\ SubSeq(Append(s, e), 1, Len(Append(s, e)) - 1) = s
<1> DEFINE t == Append(s, e)
           l == Len(s)
<1>1. t \in Seq(A) /\ Len(t) = l + 1 /\ l \in Nat /\ t[l + 1] = e /\ \A n \in 1 .. l : t[n] = s[n]
  BY AppendProperties, LenProperties
<1>2. t # <<>>
  BY <1>1
<1>3. Len(t) - 1 = l
  BY <1>1
<1> HIDE DEF t
<1>4. SubSeq(t, 1, l) \in Seq(A) /\ Len(SubSeq(t, 1, l)) = l /\ \A n \in 1 .. l : SubSeq(t, 1, l)[n] = t[n]
  BY <1>1, SubSeqProperties
<1>5. SubSeq(t, 1, l) = s
  BY <1>1, <1>4, SeqEqual
<1> QED
  BY <1>1, <1>2, <1>3, <1>5 DEF t

LEMMA ContentsKept ==
  ASSUME UNCHANGED links
  PROVE  Contents' = Contents
  BY DEF Contents, Tracks, links

(* undo_process ends an action. *)
LEMMA ProcessSeen ==
  ASSUME NEW lists, NEW gone, NEW src, NEW dst, HistoryState(lists, gone, src, dst), Process
  PROVE  \/ Calm
         \/ /\ Befores(Past)' = Append(Befores(Past), base) /\ Befores(Future)' = <<>>
            /\ base' = Seen /\ Seen' = Seen
<1>1. /\ program = <<>> /\ program' = <<>> /\ base' = Contents /\ UNCHANGED links
  BY DEF Process
<1>2. /\ State(lists, gone) /\ Core(lists, gone, src, dst)
  BY DEF HistoryState
<1>3. gone = <<>> /\ lists \in AllVal
  BY <1>1, <1>2, NothingGone, StateLists
<1>4. FinishesOf(program) = {} /\ FinishesOf(program') = {}
  BY <1>1, <1>3, EmptyAhead
<1>5. Seen = Contents /\ Seen' = Contents
  BY <1>1, <1>4, SeenIs, NothingExecuted, ContentsKept
<1>6. CASE operations = <<>>
  <2>1. UNCHANGED <<undo_stack, redo_stack>>
    BY <1>6 DEF Process, stacks
  <2>2. Shown(lists) \in Val /\ Whole(lists, <<>>, src) = Shown(lists) /\ base \in Val /\ Contents = Shown(lists)
    BY <1>2, <1>3, ShownKnown, ContentsShown DEF State, Typed, Val
  <2>3. Path(Ops(ToSet(lists[Incoming])), Val, operations, Shown(lists), base)
    BY <1>2, <1>3, <2>2 DEF Core
  <2>4. Path(Ops(ToSet(lists[Incoming])), Val, <<>>, Shown(lists), base)
    BY <1>6, <2>3, Zenon
  <2>5. base' = base
    BY <1>1, <2>2, <2>4, PathNone
  <2> QED
    BY <1>4, <2>1, <2>5, CalmCall
<1>7. CASE operations # <<>>
  <2> DEFINE e == Entry(operations)
  <2>1. undo_stack' = Append(undo_stack, e) /\ redo_stack' = <<>>
    BY <1>7 DEF Process
  <2>2. Past = undo_stack /\ undo_stack \in Seq(BearT)
    BY <1>2, <1>4, StacksQuiet, StacksKnown
  <2>3. e \in EntryAt /\ e.before = base
    BY <1>2, <1>7, EntryRecorded DEF State, Core
  <2>4. e \in BearT
    BY <2>3 DEF BearT, EntryAt
  <2> HIDE DEF e
  <2>5. Append(undo_stack, e) \in Seq(BearT) /\ <<>> \in Seq(BearT)
    BY <2>2, <2>4, AppendProperties
  <2>6. Past' = Append(undo_stack, e) /\ Future' = <<>>
    BY <1>4, <2>1, <2>5, NoneRunning DEF Past, Future
  <2>7. Befores(Append(undo_stack, e)) = Append(Befores(undo_stack), e.before)
    BY <2>2, <2>4, BeforesPushed
  <2>8. Befores(<<>>) = <<>>
    BY DEF Befores
  <2>9. Befores(Past)' = Append(Befores(Past), base) /\ Befores(Future)' = <<>>
    <3>1. Befores(Past)' = Befores(Past') /\ Befores(Future)' = Befores(Future')
      BY DEF Befores
    <3> QED
      BY <2>2, <2>3, <2>6, <2>7, <2>8, <3>1
  <2> QED
    BY <1>1, <1>5, <2>9
<1> QED
  BY <1>6, <1>7

(* What is taken off one stack is put on the other. *)
LEMMA FinishSeen ==
  ASSUME NEW lists, NEW gone, NEW src, NEW dst, HistoryState(lists, gone, src, dst), DoFinish
  PROVE  /\ Seen = base /\ Seen' = base' /\ Seen' \in Val
         /\ \E u, r \in Seq(Val) :
            \/ /\ Befores(Past) = Append(u, Seen') /\ Befores(Past)' = u
               /\ Befores(Future) = r /\ Befores(Future)' = Append(r, Seen)
            \/ /\ Befores(Future) = Append(r, Seen') /\ Befores(Future)' = r
               /\ Befores(Past) = u /\ Befores(Past)' = Append(u, Seen)
<1> DEFINE f == Head(program)
           e == Entry(operations)
<1>1. /\ Call("finish") /\ program # <<>> /\ program' = Tail(program)
      /\ base' = Contents /\ UNCHANGED links
  BY DEF DoFinish, Call
<1>2. /\ State(lists, gone) /\ Core(lists, gone, src, dst)
  BY DEF HistoryState
<1>3. /\ f \in FinishT /\ FinishesOf(program) = {f} /\ f.type \in {"undo", "redo"}
      /\ FinishesOf(program') = {}
      /\ f.before = Shown(lists) /\ operations # <<>>
  BY <1>1, FinishReached DEF FinishT
<1>4. Contents = Shown(lists) /\ Shown(lists) \in Val
  BY <1>2, ContentsShown
<1>5. Seen = base /\ Seen' = Contents
  BY <1>1, <1>3, SeenIs, NothingExecuted, OneExecuted, ContentsKept
<1>6. e \in EntryAt /\ e.before = base
  BY <1>2, <1>3, EntryRecorded DEF Core, State
<1>7. /\ undo_stack \in Seq(BearT) /\ redo_stack \in Seq(BearT) /\ f \in BearT /\ e \in BearT
  BY <1>2, <1>3, <1>6, StacksKnown DEF BearT, EntryAt
<1>8. f.before = Seen'
  BY <1>3, <1>4, <1>5
<1>9. Befores(Past)' = Befores(Past') /\ Befores(Future)' = Befores(Future')
  BY DEF Befores
<1> HIDE DEF e
<1>10. Befores(undo_stack) \in Seq(Val) /\ Befores(redo_stack) \in Seq(Val)
  BY <1>7, BeforesPushed
<1>11. /\ Befores(Append(undo_stack, f)) = Append(Befores(undo_stack), f.before)
       /\ Befores(Append(redo_stack, f)) = Append(Befores(redo_stack), f.before)
       /\ Befores(Append(undo_stack, e)) = Append(Befores(undo_stack), e.before)
       /\ Befores(Append(redo_stack, e)) = Append(Befores(redo_stack), e.before)
  <2> HIDE DEF f
  <2> QED
    BY <1>7, BeforesPushed
<1>12. Append(undo_stack, e) \in Seq(BearT) /\ Append(redo_stack, e) \in Seq(BearT)
  BY <1>7, AppendProperties
<1>13. CASE f.type = "undo"
  <2>1. Past = Append(undo_stack, f) /\ Future = redo_stack
    BY <1>2, <1>3, <1>13, StacksFinishing
  <2>2. undo_stack' = undo_stack /\ redo_stack' = Append(redo_stack, e)
    BY <1>3, <1>13 DEF DoFinish, stacks, e
  <2>3. Past' = undo_stack /\ Future' = Append(redo_stack, e)
    BY <1>3, <1>7, <1>12, <2>2, NoneRunning DEF Past, Future
  <2> QED
    BY <1>1, <1>4, <1>5, <1>6, <1>8, <1>9, <1>10, <1>11, <2>1, <2>3
<1>14. CASE f.type = "redo"
  <2>1. Past = undo_stack /\ Future = Append(redo_stack, f)
    BY <1>2, <1>3, <1>14, StacksFinishing
  <2>2. redo_stack' = redo_stack /\ undo_stack' = Append(undo_stack, e)
    BY <1>3, <1>14 DEF DoFinish, stacks, e
  <2>3. Future' = redo_stack /\ Past' = Append(undo_stack, e)
    BY <1>3, <1>7, <1>12, <2>2, NoneRunning DEF Past, Future
  <2> QED
    BY <1>1, <1>4, <1>5, <1>6, <1>8, <1>9, <1>10, <1>11, <2>1, <2>3
<1> QED
  BY <1>3, <1>13, <1>14

-----------------------------------------------------------------------------
(* The user who waits.                                                     *)

LEMMA HistoryNext == HistoryInv /\ Announced /\ [Next]_vars => HistoryInv'
<1> SUFFICES ASSUME HistoryInv, Announced, [Next]_vars PROVE HistoryInv'
  OBVIOUS
<1>1. PICK lists, gone, src, dst : HistoryState(lists, gone, src, dst)
  BY DEF HistoryInv
<1> QED
  BY <1>1, HistoryOn

(* At any moment of any run the operations recorded lead back to the lists *)
(* at the last undo_process and the stacks lead back from there, entry by  *)
(* entry, and what a program still has to do can be done: the inverses     *)
(* that undo_remove_items and undo_insert_items record are right, batched  *)
(* or not, undone or redone, with other threads adding files in between.   *)
THEOREM HistoryInvariant == ASSUME Announced PROVE Spec => []HistoryInv
<1>1. Init => HistoryInv
  BY HistoryStarts DEF HistoryInv
<1>2. HistoryInv /\ [Next]_vars => HistoryInv'
  BY HistoryNext
<1> QED
  BY <1>1, <1>2, PTL DEF Spec

(* plt_insert_item is only ever asked to insert an item that is in no list *)
(* behind one that is in that list, and plt_remove_item to remove an item  *)
(* that is in that list: by loops that keep an item, by the thread of the  *)
(* command line, and by operations that were recorded any number of edits, *)
(* undos and redos ago.                                                    *)
THEOREM CallsAlwaysFit == ASSUME Announced PROVE Spec => []CallsFit
<1>1. HistoryInv => CallsFit
  BY Fits DEF HistoryInv
<1> QED
  BY <1>1, HistoryInvariant, PTL

(* Lists stay linked in both directions and counted, every reference to an *)
(* item belongs to a list, an operation or a call, and types are kept:     *)
(* the theorems of Playlist_proofs, without their assumption on the calls. *)
THEOREM UndoKeepsTheLists == ASSUME Announced PROVE Spec => []ListsSound /\ []RefsBalanced /\ []TypeOK
  BY CallsAlwaysFit, ListsStaySound, RefsStayBalanced, PlaylistTypes, PTL

LEMMA PastIs ==
  /\ undo_stack \o Executing("undo") = Past
  /\ redo_stack \o Executing("redo") = Future
  /\ undo_stack' \o Executing("undo")' = Past'
  /\ redo_stack' \o Executing("redo")' = Future'
<1>1. \A type : Executing(type) = ExecutingIn(program, type)
  BY ExecutingIs
<1>2. \A type : Executing(type)' = ExecutingIn(program', type)
  BY DEF Executing, ExecutingIn
<1> QED
  BY <1>1, <1>2 DEF Past, Future

LEMMA HistoryEdits ==
  ASSUME Calm, Seen' \in Val
  PROVE  History!Edit
<1>1. Seen' \in [Lists -> Seq(Items)]
  BY DEF Val
<1>2. (IF Executing("undo") \o Executing("redo") = <<>> THEN Contents ELSE base)' \in [Lists -> Seq(Items)]
  BY <1>1 DEF Seen
<1>3. base' = base
  BY DEF Calm
<1>4. Befores(undo_stack \o Executing("undo"))' = Befores(undo_stack \o Executing("undo"))
  BY PastIs DEF Calm
<1>5. Befores(redo_stack \o Executing("redo"))' = Befores(redo_stack \o Executing("redo"))
  BY PastIs DEF Calm
<1> QED
  BY <1>2, <1>3, <1>4, <1>5 DEF History!Edit

LEMMA HistoryCommits ==
  ASSUME Befores(Past)' = Append(Befores(Past), base), Befores(Future)' = <<>>, base' = Seen, Seen' = Seen
  PROVE  History!Commit
<1>1. (IF Executing("undo") \o Executing("redo") = <<>> THEN Contents ELSE base)'
        = IF Executing("undo") \o Executing("redo") = <<>> THEN Contents ELSE base
  BY DEF Seen
<1>2. base' = IF Executing("undo") \o Executing("redo") = <<>> THEN Contents ELSE base
  BY DEF Seen
<1>3. Befores(undo_stack \o Executing("undo"))' = Append(Befores(undo_stack \o Executing("undo")), base)
  BY PastIs
<1>4. Befores(redo_stack \o Executing("redo"))' = <<>>
  BY PastIs
<1> QED
  BY <1>1, <1>2, <1>3, <1>4 DEF History!Commit

LEMMA HistoryUndoes ==
  ASSUME NEW u \in Seq(Val), NEW r \in Seq(Val), Seen = base, Seen' = base', Seen' \in Val,
         Befores(Past) = Append(u, Seen'), Befores(Past)' = u,
         Befores(Future) = r, Befores(Future)' = Append(r, Seen)
  PROVE  History!Undo
<1>1. PICK l \in Val : l = Seen'
  OBVIOUS
<1>2. PICK t \in Seq(Val) : t = Append(u, l)
  BY AppendProperties
<1>3. t # <<>> /\ t[Len(t)] = l /\ SubSeq(t, 1, Len(t) - 1) = u
  BY <1>2, LastAppended
<1>4. Befores(undo_stack \o Executing("undo")) = t /\ Befores(undo_stack \o Executing("undo"))' = u
  BY <1>1, <1>2, PastIs
<1>5. Befores(redo_stack \o Executing("redo"))' = Append(Befores(redo_stack \o Executing("redo")), Seen)
  BY PastIs
<1>6. base' = l /\ (IF Executing("undo") \o Executing("redo") = <<>> THEN Contents ELSE base)' = l
  BY <1>1 DEF Seen
<1>7. Seen = IF Executing("undo") \o Executing("redo") = <<>> THEN Contents ELSE base
  BY DEF Seen
<1> QED
  BY <1>3, <1>4, <1>5, <1>6, <1>7 DEF History!Undo, History!Last, History!Front

LEMMA HistoryRedoes ==
  ASSUME NEW u \in Seq(Val), NEW r \in Seq(Val), Seen = base, Seen' = base', Seen' \in Val,
         Befores(Future) = Append(r, Seen'), Befores(Future)' = r,
         Befores(Past) = u, Befores(Past)' = Append(u, Seen)
  PROVE  History!Redo
<1>1. PICK l \in Val : l = Seen'
  OBVIOUS
<1>2. PICK t \in Seq(Val) : t = Append(r, l)
  BY AppendProperties
<1>3. t # <<>> /\ t[Len(t)] = l /\ SubSeq(t, 1, Len(t) - 1) = r
  BY <1>2, LastAppended
<1>4. Befores(redo_stack \o Executing("redo")) = t /\ Befores(redo_stack \o Executing("redo"))' = r
  BY <1>1, <1>2, PastIs
<1>5. Befores(undo_stack \o Executing("undo"))' = Append(Befores(undo_stack \o Executing("undo")), Seen)
  BY PastIs
<1>6. base' = l /\ (IF Executing("undo") \o Executing("redo") = <<>> THEN Contents ELSE base)' = l
  BY <1>1 DEF Seen
<1>7. Seen = IF Executing("undo") \o Executing("redo") = <<>> THEN Contents ELSE base
  BY DEF Seen
<1> QED
  BY <1>3, <1>4, <1>5, <1>6, <1>7 DEF History!Redo, History!Last, History!Front

LEMMA HistoryStep ==
  ASSUME HistoryInv, Announced, Seen' \in Val, [Next]_vars
  PROVE  History!Next
<1>1. PICK lists, gone, src, dst : HistoryState(lists, gone, src, dst)
  BY DEF HistoryInv
<1>2. CASE Calm
  BY <1>2, HistoryEdits DEF History!Next
<1>3. CASE Process
  BY <1>1, <1>3, ProcessSeen, HistoryEdits, HistoryCommits DEF History!Next
<1>4. CASE DoFinish
  <2>1. Seen = base /\ Seen' = base'
    BY <1>1, <1>4, FinishSeen
  <2>2. PICK u, r \in Seq(Val) :
            \/ /\ Befores(Past) = Append(u, Seen') /\ Befores(Past)' = u
               /\ Befores(Future) = r /\ Befores(Future)' = Append(r, Seen)
            \/ /\ Befores(Future) = Append(r, Seen') /\ Befores(Future)' = r
               /\ Befores(Past) = u /\ Befores(Past)' = Append(u, Seen)
    BY <1>1, <1>4, FinishSeen
  <2>3. History!Undo \/ History!Redo
    BY <2>1, <2>2, HistoryUndoes, HistoryRedoes
  <2> QED
    BY <2>3 DEF History!Next
<1> QED
  BY <1>1, <1>2, <1>3, <1>4, HistoryOn

LEMMA HistoryBegins ==
  ASSUME Init
  PROVE  History!Init
<1>1. /\ HistoryState(InitialSeqs, <<>>, current, current)
      /\ base = Contents /\ Past = <<>> /\ Future = <<>>
  BY HistoryStarts
<1>2. Contents \in Val
  BY <1>1, ContentsShown DEF HistoryState
<1>3. Befores(undo_stack \o Executing("undo")) = <<>> /\ Befores(redo_stack \o Executing("redo")) = <<>>
  BY <1>1, PastIs DEF Befores
<1>4. (IF Executing("undo") \o Executing("redo") = <<>> THEN Contents ELSE base) = base
  BY <1>1
<1> QED
  BY <1>1, <1>2, <1>3, <1>4 DEF History!Init, Val

(* The lists with their undo implement PlaylistHistory: undo brings back   *)
(* exactly the lists of before the action that undo_process took last, and *)
(* redo those of before the undo; each step of the program is an edit, an  *)
(* undo_process, an undo or a redo of whole values, or a stutter.          *)
THEOREM UndoAlwaysRestores == ASSUME Announced PROVE Spec => UndoRestores
<1>1. Init => History!Init
  BY HistoryBegins
<1>2. HistoryInv => Seen \in Val
  BY SeenKnown
<1>3. HistoryInv /\ (Seen \in Val)' /\ [Next]_vars => [History!Next]_(History!vars)
  <2> SUFFICES ASSUME HistoryInv, Seen' \in Val, [Next]_vars PROVE History!Next
    BY DEF Val
  <2> QED
    BY HistoryStep
<1> QED
  BY <1>1, <1>2, <1>3, HistoryInvariant, PTL DEF Spec, UndoRestores, History!Spec

===============================================================================
