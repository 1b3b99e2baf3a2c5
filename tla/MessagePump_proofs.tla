-------------------------- MODULE MessagePump_proofs --------------------------
(***************************************************************************)
(* Proofs about the message pump (module MessagePump), for a pool of any   *)
(* size, any finite set of threads and any number of messages.             *)
(*                                                                         *)
(* The invariant names the two lists: there are sequences of cells that    *)
(* the pointers spell out.  What List reads off the cells is then that     *)
(* very sequence (ListRead), and what pushing and popping do to the        *)
(* sequences is Append and Tail.                                           *)
(***************************************************************************)
EXTENDS MessagePump, FiniteSetTheorems, SequenceTheorems,
        WellFoundedInduction, TLAPS

Pointer == Cell \cup {NULL}

LEMMA Constants ==
  /\ MAX_MESSAGES \in Nat \ {0}
  /\ IsFiniteSet(Thread)
  /\ Kinds \subseteq Message
  BY PumpAssumption

-----------------------------------------------------------------------------
(* Lists of cells.                                                         *)

Distinct(s) == \A i, j \in 1 .. Len(s) : s[i] = s[j] => i = j

(* The cells s are chained by nx, and c points to the first.               *)
Chained(nx, s, c) ==
    /\ c = IF s = << >> THEN NULL ELSE s[1]
    /\ \A i \in 1 .. Len(s) : nx[s[i]] = IF i = Len(s) THEN NULL ELSE s[i + 1]

(* The list that starts with c, if the cells are chained by nx.            *)
Followed(nx, c, at) ==
    at = [n \in 0 .. MAX_MESSAGES |->
            IF n = 0 THEN c
            ELSE IF at[n - 1] = NULL THEN NULL ELSE nx[at[n - 1]]]

(* Two functions that follow the same chain are equal.                     *)
LEMMA FollowedOnce ==
  ASSUME NEW nx, NEW c, NEW a, NEW b, Followed(nx, c, a), Followed(nx, c, b)
  PROVE  a = b
  <1> DEFINE Bad == {n \in 0 .. MAX_MESSAGES : a[n] # b[n]}
  <1>1. /\ a = [n \in 0 .. MAX_MESSAGES |-> a[n]]
        /\ b = [n \in 0 .. MAX_MESSAGES |-> b[n]]
    BY DEF Followed
  <1>2. Bad = {}
    <2> SUFFICES ASSUME Bad # {} PROVE FALSE
      OBVIOUS
    <2> DEFINE R == {ss \in Nat \X Nat : ss[1] < ss[2]}
    <2>1. OpToRel(<, Nat) = R
      BY DEF OpToRel
    <2>2. Bad \subseteq Nat
      BY Constants
    <2>3. PICK m \in Bad : \A y \in Bad : <<y, m>> \notin OpToRel(<, Nat)
      <3> HIDE DEF Bad
      <3> QED
        BY <2>2, NatLessThanWellFounded, WFMin, Zenon
    <2>4. m \in 0 .. MAX_MESSAGES /\ a[m] # b[m]
      OBVIOUS
    <2>5. m # 0
      BY <2>4, Constants DEF Followed
    <2>6. m - 1 \in 0 .. MAX_MESSAGES /\ m - 1 \in Nat /\ m \in Nat /\ m - 1 < m
      BY <2>4, <2>5, Constants
    <2>7. a[m - 1] = b[m - 1]
      <3> SUFFICES ASSUME a[m - 1] # b[m - 1] PROVE FALSE
        OBVIOUS
      <3>1. m - 1 \in Bad
        BY <2>6
      <3>2. <<m - 1, m>> \in R
        BY <2>6
      <3> QED
        BY <3>1, <3>2, <2>1, <2>3
    <2>8. /\ a[m] = IF a[m - 1] = NULL THEN NULL ELSE nx[a[m - 1]]
          /\ b[m] = IF b[m - 1] = NULL THEN NULL ELSE nx[b[m - 1]]
      BY <2>4, <2>5 DEF Followed
    <2> QED
      BY <2>4, <2>7, <2>8
  <1>3. \A n \in 0 .. MAX_MESSAGES : a[n] = b[n]
    BY <1>2
  <1> QED
    BY <1>1, <1>3

(* What a chain of cells looks like when it is followed to its end.        *)
Spelled(s) == [n \in 0 .. MAX_MESSAGES |-> IF n < Len(s) THEN s[n + 1] ELSE NULL]

LEMMA SpelledFollowed ==
  ASSUME NEW nx, NEW c, NEW s \in Seq(Cell), Chained(nx, s, c), Len(s) <= MAX_MESSAGES
  PROVE  Followed(nx, c, Spelled(s))
  <1>1. Len(s) \in Nat /\ \A i \in 1 .. Len(s) : s[i] \in Cell /\ s[i] # NULL
    BY Constants DEF Cell, NULL
  <1>2. ASSUME NEW n \in 0 .. MAX_MESSAGES
        PROVE  Spelled(s)[n] = IF n = 0 THEN c
                               ELSE IF Spelled(s)[n - 1] = NULL THEN NULL
                                    ELSE nx[Spelled(s)[n - 1]]
    <2>1. CASE n = 0
      <3>1. s = << >> <=> Len(s) = 0
        OBVIOUS
      <3> QED
        BY <2>1, <3>1, <1>1, Constants DEF Spelled, Chained
    <2>2. CASE n # 0
      <3>1. n - 1 \in 0 .. MAX_MESSAGES /\ n \in Nat
        BY <2>2, Constants
      <3>2. Spelled(s)[n - 1] = IF n - 1 < Len(s) THEN s[n] ELSE NULL
        BY <3>1 DEF Spelled
      <3>3. CASE n - 1 < Len(s)
        <4>1. n \in 1 .. Len(s)
          BY <3>3, <3>1, <2>2, <1>1
        <4>2. nx[s[n]] = IF n = Len(s) THEN NULL ELSE s[n + 1]
          BY <4>1 DEF Chained
        <4>3. Spelled(s)[n] = IF n < Len(s) THEN s[n + 1] ELSE NULL
          BY DEF Spelled
        <4>4. n = Len(s) <=> ~(n < Len(s))
          BY <4>1, <1>1
        <4> QED
          BY <4>1, <4>2, <4>3, <4>4, <3>2, <3>3, <2>2, <1>1
      <3>4. CASE ~(n - 1 < Len(s))
        <4>1. ~(n < Len(s))
          BY <3>4, <3>1, <1>1
        <4> QED
          BY <4>1, <3>2, <3>4, <2>2 DEF Spelled
      <3> QED
        BY <3>3, <3>4
    <2> QED
      BY <2>1, <2>2
  <1> QED
    BY <1>2 DEF Followed, Spelled

(* Walk and List, for cells that nx chains.                                *)
WalkBy(nx, c) ==
    LET at[n \in 0 .. MAX_MESSAGES] ==
          IF n = 0 THEN c
          ELSE IF at[n - 1] = NULL THEN NULL ELSE nx[at[n - 1]]
    IN  at

ListBy(nx, c) ==
    LET at  == WalkBy(nx, c)
        len == CHOOSE n \in 0 .. MAX_MESSAGES :
                 \/ at[n] = NULL /\ \A m \in 0 .. n - 1 : at[m] # NULL
                 \/ n = MAX_MESSAGES /\ \A m \in 0 .. n - 1 : at[m] # NULL
    IN  [n \in 1 .. len |-> at[n - 1]]

(* List reads a chain off the cells.                                       *)
LEMMA ListRead ==
  ASSUME NEW nx, NEW s \in Seq(Cell), Len(s) <= MAX_MESSAGES, NEW c, Chained(nx, s, c)
  PROVE  ListBy(nx, c) = s
  <1>1. Followed(nx, c, WalkBy(nx, c))
    <2>1. Followed(nx, c, CHOOSE at : Followed(nx, c, at))
      BY SpelledFollowed
    <2>2. WalkBy(nx, c) = CHOOSE at : Followed(nx, c, at)
      BY DEF WalkBy, Followed
    <2> QED
      BY <2>1, <2>2
  <1>2. WalkBy(nx, c) = Spelled(s)
    BY <1>1, SpelledFollowed, FollowedOnce
  <1>3. Len(s) \in Nat /\ \A i \in 1 .. Len(s) : s[i] \in Cell /\ s[i] # NULL
    BY Constants DEF Cell, NULL
  <1> DEFINE Ends(n) == \/ Spelled(s)[n] = NULL /\ \A m \in 0 .. n - 1 : Spelled(s)[m] # NULL
                        \/ n = MAX_MESSAGES /\ \A m \in 0 .. n - 1 : Spelled(s)[m] # NULL
             len == CHOOSE n \in 0 .. MAX_MESSAGES : Ends(n)
  <1>4. \A m \in 0 .. MAX_MESSAGES : Spelled(s)[m] # NULL <=> m < Len(s)
    BY <1>3 DEF Spelled
  <1>5. Len(s) \in 0 .. MAX_MESSAGES /\ Ends(Len(s))
    BY <1>3, <1>4, Constants
  <1>6. ASSUME NEW n \in 0 .. MAX_MESSAGES, Ends(n) PROVE n = Len(s)
    <2>1. CASE n < Len(s)
      <3>1. Spelled(s)[n] # NULL /\ n # MAX_MESSAGES
        BY <2>1, <1>4, <1>3, Constants
      <3> QED
        BY <3>1, <1>6
    <2>2. CASE Len(s) < n
      <3>1. Len(s) \in 0 .. n - 1
        BY <2>2, <1>3, Constants
      <3> QED
        BY <3>1, <1>4, <1>5, <1>6
    <2> QED
      BY <2>1, <2>2, <1>3
  <1>7. len = Len(s)
    <2> HIDE DEF Ends
    <2> QED
      BY <1>5, <1>6
  <1>8. ListBy(nx, c) = [n \in 1 .. len |-> Spelled(s)[n - 1]]
    BY <1>2 DEF ListBy
  <1>9. \A n \in 1 .. Len(s) : Spelled(s)[n - 1] = s[n]
    BY <1>3, Constants DEF Spelled
  <1>10. [n \in 1 .. Len(s) |-> Spelled(s)[n - 1]] = [n \in 1 .. Len(s) |-> s[n]]
    BY <1>9
  <1>11. s = [n \in 1 .. Len(s) |-> s[n]]
    OBVIOUS
  <1> QED
    BY <1>7, <1>8, <1>10, <1>11

-----------------------------------------------------------------------------
(* The two lists of the pump, as sequences.                                *)

Divided(nx, first, head, last, free, queued) ==
    /\ free \in Seq(Cell) /\ queued \in Seq(Cell)
    /\ Chained(nx, free, first) /\ Chained(nx, queued, head)
    /\ Distinct(free) /\ Distinct(queued)
    /\ Members(free) \cap Members(queued) = {}
    /\ Members(free) \cup Members(queued) = Cell
    /\ Len(free) + Len(queued) = MAX_MESSAGES
    /\ last = IF queued = << >> THEN NULL ELSE queued[Len(queued)]

LEMMA Lengths ==
  ASSUME NEW nx, NEW f, NEW h, NEW l, NEW free, NEW queued,
         Divided(nx, f, h, l, free, queued)
  PROVE  /\ free \in Seq(Cell) /\ queued \in Seq(Cell)
         /\ Len(free) \in Nat /\ Len(queued) \in Nat
         /\ Len(free) <= MAX_MESSAGES /\ Len(queued) <= MAX_MESSAGES
         /\ f \in Pointer /\ h \in Pointer /\ l \in Pointer
  <1>1. free \in Seq(Cell) /\ queued \in Seq(Cell)
    BY DEF Divided
  <1>2. Len(free) \in Nat /\ Len(queued) \in Nat
    BY <1>1
  <1>3. Len(free) <= MAX_MESSAGES /\ Len(queued) <= MAX_MESSAGES
    BY <1>2, Constants DEF Divided
  <1>4. ASSUME NEW s \in Seq(Cell), s # << >>
        PROVE  s[1] \in Cell /\ s[Len(s)] \in Cell
    BY <1>4
  <1>5. f \in Pointer /\ h \in Pointer /\ l \in Pointer
    BY <1>1, <1>4 DEF Divided, Chained, Pointer
  <1> QED
    BY <1>1, <1>2, <1>3, <1>5

(* Without its first cell, and with another one at the end.                *)
LEMMA TailOfChain ==
  ASSUME NEW nx, NEW c, NEW s \in Seq(Cell), Chained(nx, s, c), Distinct(s), s # << >>
  PROVE  /\ c = s[1] /\ c \in Cell
         /\ Tail(s) \in Seq(Cell) /\ Len(Tail(s)) = Len(s) - 1
         /\ Chained(nx, Tail(s), nx[c]) /\ Distinct(Tail(s))
         /\ Members(Tail(s)) = Members(s) \ {c}
         /\ Tail(s) # << >> => Tail(s)[Len(Tail(s))] = s[Len(s)]
         /\ Tail(s) = << >> <=> nx[c] = NULL
  <1>1. /\ Len(s) \in Nat /\ Len(s) > 0
        /\ \A i \in 1 .. Len(s) : s[i] \in Cell
    OBVIOUS
  <1>2. c = s[1] /\ c \in Cell
    BY <1>1 DEF Chained
  <1>3. /\ Tail(s) \in Seq(Cell) /\ Len(Tail(s)) = Len(s) - 1
        /\ \A i \in 1 .. Len(s) - 1 : Tail(s)[i] = s[i + 1]
    OBVIOUS
  <1>4. Tail(s) = << >> <=> Len(s) = 1
    <2>1. Tail(s) = << >> <=> Len(Tail(s)) = 0
      BY <1>3, EmptySeq
    <2> QED
      BY <2>1, <1>1, <1>3
  <1>5. nx[c] = IF Len(s) = 1 THEN NULL ELSE s[2]
    <2>1. 1 \in 1 .. Len(s) /\ 1 + 1 = 2
      BY <1>1
    <2>2. nx[s[1]] = IF 1 = Len(s) THEN NULL ELSE s[1 + 1]
      BY <2>1 DEF Chained
    <2> QED
      BY <2>1, <2>2, <1>2
  <1>6. Chained(nx, Tail(s), nx[c])
    <2>1. nx[c] = IF Tail(s) = << >> THEN NULL ELSE Tail(s)[1]
      BY <1>1, <1>3, <1>4, <1>5, SMTT(30)
    <2>2. ASSUME NEW i \in 1 .. Len(Tail(s))
          PROVE  nx[Tail(s)[i]] = IF i = Len(Tail(s)) THEN NULL ELSE Tail(s)[i + 1]
      <3>1. i + 1 \in 1 .. Len(s) /\ i \in 1 .. Len(s) - 1
        BY <1>1, <1>3
      <3>2. nx[s[i + 1]] = IF i + 1 = Len(s) THEN NULL ELSE s[i + 2]
        BY <3>1 DEF Chained
      <3>3. i # Len(s) - 1 => i + 1 \in 1 .. Len(s) - 1 /\ (i + 1) + 1 = i + 2
        BY <3>1, <1>1
      <3>4. i = Len(s) - 1 <=> i + 1 = Len(s)
        BY <3>1, <1>1, SMTT(30)
      <3>5. i # Len(s) - 1 => Tail(s)[i + 1] = s[i + 2]
        BY <3>3, <1>3
      <3> QED
        BY <3>1, <3>2, <3>4, <3>5, <1>3
    <2> QED
      BY <2>1, <2>2 DEF Chained
  <1>7. Distinct(Tail(s))
    <2> SUFFICES ASSUME NEW i \in 1 .. Len(s) - 1, NEW j \in 1 .. Len(s) - 1,
                        s[i + 1] = s[j + 1]
                 PROVE  i = j
      BY <1>3 DEF Distinct
    <2>1. i + 1 \in 1 .. Len(s) /\ j + 1 \in 1 .. Len(s)
      BY <1>1
    <2>2. i + 1 = j + 1
      BY <2>1 DEF Distinct
    <2> QED
      BY <2>2
  <1>8. Members(Tail(s)) = Members(s) \ {c}
    <2>1. ASSUME NEW x \in Members(Tail(s)) PROVE x \in Members(s) /\ x # c
      <3>1. PICK i \in 1 .. Len(s) - 1 : x = s[i + 1]
        BY <2>1, <1>3 DEF Members
      <3>2. i + 1 \in 1 .. Len(s) /\ 1 \in 1 .. Len(s) /\ i + 1 # 1
        BY <1>1
      <3>3. s[i + 1] # s[1]
        BY <3>2 DEF Distinct
      <3> QED
        BY <3>1, <3>2, <3>3, <1>2 DEF Members
    <2>2. ASSUME NEW x \in Members(s), x # c PROVE x \in Members(Tail(s))
      <3>1. PICK i \in 1 .. Len(s) : x = s[i]
        BY <2>2 DEF Members
      <3>2. i # 1
        BY <3>1, <2>2, <1>2
      <3>3. i - 1 \in 1 .. Len(s) - 1 /\ (i - 1) + 1 = i
        BY <3>2, <1>1
      <3>4. Tail(s)[i - 1] = x
        BY <3>1, <3>3, <1>3
      <3> QED
        BY <3>3, <3>4, <1>3 DEF Members
    <2> QED
      BY <2>1, <2>2
  <1>9. Tail(s) # << >> => Tail(s)[Len(Tail(s))] = s[Len(s)]
    <2>1. Tail(s) # << >> => Len(s) - 1 \in 1 .. Len(s) - 1
      BY <1>1, <1>4
    <2> QED
      BY <2>1, <1>1, <1>3
  <1>10. Tail(s) = << >> <=> nx[c] = NULL
    <2>1. \A n \in Nat : n > 0 /\ n # 1 => 2 \in 1 .. n
      OBVIOUS
    <2> QED
      BY <2>1, <1>1, <1>4, <1>5 DEF Cell, NULL
  <1> QED
    BY <1>2, <1>3, <1>6, <1>7, <1>8, <1>9, <1>10

(* Cells that keep their links stay chained.                               *)
LEMMA ChainKept ==
  ASSUME NEW nx, NEW n2, NEW c, NEW s \in Seq(Cell), Chained(nx, s, c),
         \A x \in Members(s) : n2[x] = nx[x]
  PROVE  Chained(n2, s, c)
  <1>1. \A i \in 1 .. Len(s) : s[i] \in Members(s)
    BY DEF Members
  <1> QED
    BY <1>1 DEF Chained

(* A cell that leads to the first one becomes the first.                   *)
LEMMA ChainPrepended ==
  ASSUME NEW nx, NEW n2, NEW f, NEW s \in Seq(Cell), Chained(nx, s, f), Distinct(s),
         NEW c \in Cell, c \notin Members(s), n2[c] = f,
         \A x \in Members(s) : n2[x] = nx[x]
  PROVE  /\ << c >> \o s \in Seq(Cell) /\ Len(<< c >> \o s) = Len(s) + 1
         /\ Chained(n2, << c >> \o s, c) /\ Distinct(<< c >> \o s)
         /\ Members(<< c >> \o s) = Members(s) \cup {c}
  <1> DEFINE t == << c >> \o s
  <1>1. Len(s) \in Nat /\ \A i \in 1 .. Len(s) : s[i] \in Members(s)
    BY DEF Members
  <1>2. /\ t \in Seq(Cell) /\ Len(t) = Len(s) + 1 /\ t # << >>
        /\ t[1] = c /\ \A i \in 2 .. Len(s) + 1 : t[i] = s[i - 1]
    <2>1. << c >> \in Seq(Cell) /\ Len(<< c >>) = 1 /\ << c >>[1] = c
      OBVIOUS
    <2>2. /\ t \in Seq(Cell) /\ Len(t) = 1 + Len(s)
          /\ \A i \in 1 .. 1 + Len(s) : t[i] = IF i <= 1 THEN << c >>[i] ELSE s[i - 1]
      BY <2>1, ConcatProperties
    <2>3. Len(t) # 0
      BY <2>2, <1>1
    <2>4. t # << >>
      BY <2>3, EmptySeq
    <2> HIDE DEF t
    <2> QED
      BY <2>1, <2>2, <2>4, <1>1
  <1> HIDE DEF t
  <1>3. Chained(n2, t, c)
    <2>1. c = IF t = << >> THEN NULL ELSE t[1]
      BY <1>2
    <2>2. ASSUME NEW i \in 1 .. Len(t)
          PROVE  n2[t[i]] = IF i = Len(t) THEN NULL ELSE t[i + 1]
      <3>1. CASE i = 1
        <4>1. n2[t[i]] = IF s = << >> THEN NULL ELSE s[1]
          BY <3>1, <1>2 DEF Chained
        <4>2. s = << >> <=> Len(s) = 0
          BY EmptySeq
        <4>3. Len(s) # 0 => 2 \in 2 .. Len(s) + 1 /\ 2 - 1 = 1
          BY <1>1
        <4>4. Len(s) # 0 => t[2] = s[1]
          BY <4>3, <1>2
        <4>5. i + 1 = 2 /\ (i = Len(t) <=> Len(s) = 0)
          BY <3>1, <1>1, <1>2
        <4> QED
          BY <4>1, <4>2, <4>4, <4>5
      <3>2. CASE i # 1
        <4>1. i - 1 \in 1 .. Len(s) /\ i \in 2 .. Len(s) + 1
          BY <3>2, <1>1, <1>2
        <4>2. n2[t[i]] = IF i - 1 = Len(s) THEN NULL ELSE s[(i - 1) + 1]
          BY <4>1, <1>1, <1>2 DEF Chained
        <4>3. i # Len(t) => i + 1 \in 2 .. Len(s) + 1 /\ (i + 1) - 1 = (i - 1) + 1
          BY <4>1, <1>1, <1>2
        <4>4. i # Len(t) => t[i + 1] = s[(i - 1) + 1]
          BY <4>3, <1>2
        <4>5. i = Len(t) <=> i - 1 = Len(s)
          BY <4>1, <1>1, <1>2
        <4> QED
          BY <4>2, <4>4, <4>5
      <3> QED
        BY <3>1, <3>2
    <2> QED
      BY <2>1, <2>2 DEF Chained
  <1>4. Distinct(t)
    <2> SUFFICES ASSUME NEW i \in 1 .. Len(t), NEW j \in 1 .. Len(t), t[i] = t[j]
                 PROVE  i = j
      BY DEF Distinct
    <2>1. \A k \in 1 .. Len(t) : k # 1 => k - 1 \in 1 .. Len(s) /\ t[k] = s[k - 1]
      BY <1>1, <1>2
    <2>2. \A k \in 1 .. Len(t) : k # 1 => t[k] # c
      BY <2>1, <1>1
    <2>3. CASE i = 1 \/ j = 1
      BY <2>2, <2>3, <1>2
    <2>4. CASE i # 1 /\ j # 1
      <3>1. i - 1 = j - 1
        BY <2>1, <2>4 DEF Distinct
      <3> QED
        BY <3>1, <1>1, <1>2
    <2> QED
      BY <2>3, <2>4
  <1>5. Members(t) = Members(s) \cup {c}
    <2>1. ASSUME NEW x \in Members(t) PROVE x \in Members(s) \cup {c}
      <3>1. PICK i \in 1 .. Len(t) : x = t[i]
        BY DEF Members
      <3>2. i # 1 => i \in 2 .. Len(s) + 1 /\ i - 1 \in 1 .. Len(s)
        BY <1>1, <1>2
      <3> QED
        BY <3>1, <3>2, <1>1, <1>2
    <2>2. ASSUME NEW x \in Members(s) PROVE x \in Members(t)
      <3>1. PICK i \in 1 .. Len(s) : x = s[i]
        BY DEF Members
      <3>2. i + 1 \in 2 .. Len(s) + 1 /\ i + 1 \in 1 .. Len(t) /\ (i + 1) - 1 = i
        BY <1>1, <1>2
      <3>3. x = t[i + 1]
        BY <3>1, <3>2, <1>2
      <3> QED
        BY <3>2, <3>3 DEF Members
    <2>3. c \in Members(t)
      <3>1. 1 \in 1 .. Len(t)
        BY <1>1, <1>2
      <3> QED
        BY <3>1, <1>2 DEF Members
    <2> QED
      BY <2>1, <2>2, <2>3
  <1> QED
    BY <1>2, <1>3, <1>4, <1>5 DEF t

(* A cell that the last one leads to becomes the last.                     *)
LEMMA ChainAppended ==
  ASSUME NEW nx, NEW n2, NEW h, NEW s \in Seq(Cell), Chained(nx, s, h), Distinct(s),
         NEW l, l = IF s = << >> THEN NULL ELSE s[Len(s)],
         NEW c \in Cell, c \notin Members(s), n2[c] = NULL,
         \A x \in Members(s) : n2[x] = IF x = l THEN c ELSE nx[x]
  PROVE  /\ Append(s, c) \in Seq(Cell) /\ Len(Append(s, c)) = Len(s) + 1
         /\ Chained(n2, Append(s, c), IF h = NULL THEN c ELSE h)
         /\ Distinct(Append(s, c))
         /\ Members(Append(s, c)) = Members(s) \cup {c}
         /\ Append(s, c) # << >> /\ Append(s, c)[Len(s) + 1] = c
  <1> DEFINE t == Append(s, c)
  <1>1. Len(s) \in Nat /\ \A i \in 1 .. Len(s) : s[i] \in Members(s) /\ s[i] \in Cell
    BY DEF Members
  <1>2. /\ t \in Seq(Cell) /\ Len(t) = Len(s) + 1 /\ t # << >>
        /\ t[Len(s) + 1] = c /\ \A i \in 1 .. Len(s) : t[i] = s[i]
    <2>1. /\ t \in Seq(Cell) /\ Len(t) = Len(s) + 1
          /\ t[Len(s) + 1] = c /\ \A i \in 1 .. Len(s) : t[i] = s[i]
      OBVIOUS
    <2>2. Len(t) # 0
      BY <2>1, <1>1
    <2> QED
      BY <2>1, <2>2, EmptySeq
  <1>3. s = << >> <=> Len(s) = 0
    BY EmptySeq
  <1> HIDE DEF t
  <1>4. Chained(n2, t, IF h = NULL THEN c ELSE h)
    <2>1. (IF h = NULL THEN c ELSE h) = IF t = << >> THEN NULL ELSE t[1]
      <3>1. CASE Len(s) = 0
        <4>1. h = NULL
          BY <3>1, <1>3 DEF Chained
        <4> QED
          BY <4>1, <3>1, <1>2
      <3>2. CASE Len(s) # 0
        <4>1. 1 \in 1 .. Len(s)
          BY <3>2, <1>1
        <4>2. h = s[1] /\ h # NULL
          BY <4>1, <3>2, <1>1, <1>3 DEF Chained, Cell, NULL
        <4> QED
          BY <4>1, <4>2, <1>2
      <3> QED
        BY <3>1, <3>2
    <2>2. ASSUME NEW i \in 1 .. Len(t)
          PROVE  n2[t[i]] = IF i = Len(t) THEN NULL ELSE t[i + 1]
      <3>1. CASE i = Len(s) + 1
        BY <3>1, <1>2
      <3>2. CASE i = Len(s)
        <4>1. i \in 1 .. Len(s) /\ s # << >> /\ i # Len(t)
          BY <3>2, <1>1, <1>2, <1>3
        <4>2. t[i] = l /\ t[i] \in Members(s) /\ t[i + 1] = c
          BY <4>1, <3>2, <1>1, <1>2
        <4> QED
          BY <4>1, <4>2
      <3>3. CASE i # Len(s) + 1 /\ i # Len(s)
        <4>1. i \in 1 .. Len(s) /\ i + 1 \in 1 .. Len(s) /\ Len(s) \in 1 .. Len(s) /\ s # << >>
          BY <3>3, <1>1, <1>2, <1>3
        <4>2. t[i] = s[i] /\ t[i + 1] = s[i + 1] /\ s[i] # l
          BY <4>1, <3>3, <1>2 DEF Distinct
        <4>3. nx[s[i]] = s[i + 1]
          BY <4>1, <3>3 DEF Chained
        <4> QED
          BY <4>1, <4>2, <4>3, <3>3, <1>1, <1>2
      <3> QED
        BY <3>1, <3>2, <3>3
    <2> QED
      BY <2>1, <2>2 DEF Chained
  <1>5. Distinct(t)
    <2> SUFFICES ASSUME NEW i \in 1 .. Len(t), NEW j \in 1 .. Len(t), t[i] = t[j]
                 PROVE  i = j
      BY DEF Distinct
    <2>1. \A k \in 1 .. Len(t) : k # Len(s) + 1 => k \in 1 .. Len(s) /\ t[k] = s[k] /\ t[k] # c
      BY <1>1, <1>2
    <2> QED
      BY <2>1, <1>2 DEF Distinct
  <1>6. Members(t) = Members(s) \cup {c}
    <2>1. \A k \in 1 .. Len(t) : k \in 1 .. Len(s) \/ k = Len(s) + 1
      BY <1>1, <1>2
    <2>2. /\ \A k \in 1 .. Len(s) : k \in 1 .. Len(t)
          /\ Len(s) + 1 \in 1 .. Len(t)
      BY <1>1, <1>2
    <2> QED
      BY <2>1, <2>2, <1>2 DEF Members
  <1> QED
    BY <1>2, <1>4, <1>5, <1>6 DEF t

(* Pushing moves the first free cell to the end of the queue.              *)
LEMMA PushDivides ==
  ASSUME NEW nx, NEW n2, NEW f, NEW h, NEW l, NEW free, NEW queued,
         Divided(nx, f, h, l, free, queued), f # NULL,
         n2 = [i \in Cell |-> IF i = f THEN NULL ELSE IF i = l THEN f ELSE nx[i]]
  PROVE  /\ Divided(n2, nx[f], IF h = NULL THEN f ELSE h, f, Tail(free), Append(queued, f))
         /\ f \in Cell /\ f \notin Members(queued) /\ Len(queued) < MAX_MESSAGES
         /\ Members(Append(queued, f)) = Members(queued) \cup {f}
  <1>1. /\ free \in Seq(Cell) /\ queued \in Seq(Cell)
        /\ Chained(nx, free, f) /\ Chained(nx, queued, h)
        /\ Distinct(free) /\ Distinct(queued)
        /\ Members(free) \cap Members(queued) = {}
        /\ Members(free) \cup Members(queued) = Cell
        /\ Len(free) + Len(queued) = MAX_MESSAGES
        /\ l = IF queued = << >> THEN NULL ELSE queued[Len(queued)]
    BY DEF Divided
  <1>2. free # << >> /\ Len(free) \in Nat \ {0} /\ Len(queued) \in Nat
    BY <1>1, EmptySeq DEF Chained
  <1>3. /\ f = free[1] /\ f \in Cell
        /\ Tail(free) \in Seq(Cell) /\ Len(Tail(free)) = Len(free) - 1
        /\ Chained(nx, Tail(free), nx[f]) /\ Distinct(Tail(free))
        /\ Members(Tail(free)) = Members(free) \ {f}
    BY <1>1, <1>2, TailOfChain
  <1>4. f \in Members(free) /\ f \notin Members(queued)
    <2>1. 1 \in 1 .. Len(free)
      BY <1>2
    <2> QED
      BY <2>1, <1>1, <1>3 DEF Members
  <1>5. l = NULL \/ l \in Members(queued)
    <2>1. queued # << >> => Len(queued) \in 1 .. Len(queued)
      BY <1>1, <1>2, EmptySeq
    <2> QED
      BY <2>1, <1>1 DEF Members
  <1>6. Members(free) \subseteq Cell /\ Members(queued) \subseteq Cell
    BY <1>1
  <1>7. Chained(n2, Tail(free), nx[f])
    <2>1. \A x \in Cell : x # NULL
      BY Constants DEF Cell, NULL
    <2>2. \A x \in Members(Tail(free)) : x \in Cell /\ x # f /\ x # l
      BY <2>1, <1>1, <1>3, <1>5
    <2>3. \A x \in Members(Tail(free)) : n2[x] = nx[x]
      BY <2>2
    <2> QED
      BY <2>3, <1>3, ChainKept
  <1>8. /\ Append(queued, f) \in Seq(Cell) /\ Len(Append(queued, f)) = Len(queued) + 1
        /\ Chained(n2, Append(queued, f), IF h = NULL THEN f ELSE h)
        /\ Distinct(Append(queued, f))
        /\ Members(Append(queued, f)) = Members(queued) \cup {f}
        /\ Append(queued, f) # << >> /\ Append(queued, f)[Len(queued) + 1] = f
    <2>1. n2[f] = NULL /\ \A x \in Members(queued) : n2[x] = IF x = l THEN f ELSE nx[x]
      BY <1>3, <1>4, <1>6
    <2> QED
      BY <2>1, <1>1, <1>3, <1>4, ChainAppended
  <1>9. /\ Members(Tail(free)) \cap Members(Append(queued, f)) = {}
        /\ Members(Tail(free)) \cup Members(Append(queued, f)) = Cell
    BY <1>1, <1>3, <1>4, <1>8
  <1>10. Len(Tail(free)) + Len(Append(queued, f)) = MAX_MESSAGES /\ Len(queued) < MAX_MESSAGES
    BY <1>1, <1>2, <1>3, <1>8, Constants, SMTT(30)
  <1> QED
    BY <1>3, <1>4, <1>7, <1>8, <1>9, <1>10 DEF Divided

(* Popping moves the first cell of the queue to the front of the free list. *)
LEMMA PopDivides ==
  ASSUME NEW nx \in [Cell -> Pointer], NEW f, NEW h, NEW l, NEW free, NEW queued,
         Divided(nx, f, h, l, free, queued), h # NULL
  PROVE  /\ Divided([nx EXCEPT ![h] = f], h, nx[h], IF nx[h] = NULL THEN NULL ELSE l,
                     << h >> \o free, Tail(queued))
         /\ queued # << >> /\ h = queued[1] /\ h \in Cell
         /\ h \in Members(queued) /\ Members(Tail(queued)) = Members(queued) \ {h}
  <1> DEFINE n2 == [nx EXCEPT ![h] = f]
  <1>1. /\ free \in Seq(Cell) /\ queued \in Seq(Cell)
        /\ Chained(nx, free, f) /\ Chained(nx, queued, h)
        /\ Distinct(free) /\ Distinct(queued)
        /\ Members(free) \cap Members(queued) = {}
        /\ Members(free) \cup Members(queued) = Cell
        /\ Len(free) + Len(queued) = MAX_MESSAGES
        /\ l = IF queued = << >> THEN NULL ELSE queued[Len(queued)]
    BY DEF Divided
  <1>2. queued # << >> /\ Len(queued) \in Nat \ {0} /\ Len(free) \in Nat
    BY <1>1, EmptySeq DEF Chained
  <1>3. /\ h = queued[1] /\ h \in Cell
        /\ Tail(queued) \in Seq(Cell) /\ Len(Tail(queued)) = Len(queued) - 1
        /\ Chained(nx, Tail(queued), nx[h]) /\ Distinct(Tail(queued))
        /\ Members(Tail(queued)) = Members(queued) \ {h}
        /\ Tail(queued) # << >> => Tail(queued)[Len(Tail(queued))] = queued[Len(queued)]
        /\ Tail(queued) = << >> <=> nx[h] = NULL
    BY <1>1, <1>2, TailOfChain
  <1>4. h \in Members(queued) /\ h \notin Members(free)
    <2>1. 1 \in 1 .. Len(queued)
      BY <1>2
    <2>2. h \in Members(queued)
      BY <2>1, <1>3 DEF Members
    <2> QED
      BY <2>2, <1>1
  <1>5. /\ n2[h] = f
        /\ \A x \in Members(free) : n2[x] = nx[x]
        /\ \A x \in Members(Tail(queued)) : n2[x] = nx[x]
    BY <1>1, <1>3, <1>4
  <1> HIDE DEF n2
  <1>6. Chained(n2, Tail(queued), nx[h])
    BY <1>3, <1>5, ChainKept
  <1>7. /\ << h >> \o free \in Seq(Cell) /\ Len(<< h >> \o free) = Len(free) + 1
        /\ Chained(n2, << h >> \o free, h) /\ Distinct(<< h >> \o free)
        /\ Members(<< h >> \o free) = Members(free) \cup {h}
    <2>1. free \in Seq(Cell) /\ Chained(nx, free, f) /\ Distinct(free)
      BY <1>1
    <2>2. h \in Cell /\ h \notin Members(free) /\ n2[h] = f
      BY <1>3, <1>4, <1>5
    <2>3. \A x \in Members(free) : n2[x] = nx[x]
      BY <1>5
    <2> QED
      BY <2>1, <2>2, <2>3, ChainPrepended
  <1>8. /\ Members(<< h >> \o free) \cap Members(Tail(queued)) = {}
        /\ Members(<< h >> \o free) \cup Members(Tail(queued)) = Cell
    BY <1>1, <1>3, <1>4, <1>7, SMTT(30)
  <1>9. Len(<< h >> \o free) + Len(Tail(queued)) = MAX_MESSAGES
    BY <1>1, <1>2, <1>3, <1>7, Constants, SMTT(30)
  <1>10. (IF nx[h] = NULL THEN NULL ELSE l)
         = IF Tail(queued) = << >> THEN NULL ELSE Tail(queued)[Len(Tail(queued))]
    BY <1>1, <1>2, <1>3
  <1> QED
    BY <1>2, <1>3, <1>4, <1>6, <1>7, <1>8, <1>9, <1>10 DEF Divided, n2

-----------------------------------------------------------------------------
(* The invariant.                                                          *)

Typed ==
    /\ next \in [Cell -> Pointer]
    /\ body \in [Cell -> Message]
    /\ pc \in [Thread -> {"idle", "push", "signal"}]
    /\ sending \in [Thread -> Message]
    /\ main \in {"pop", "handle", "wait", "blocked", "drain", "gone"}
    /\ taken \in Message
    /\ main # "handle" => taken = "plain"

Halves(free, queued) == Divided(next, mfree, mqueue, mqtail, free, queued)

Pool == \E free, queued : Halves(free, queued)

Pushing == {t \in Thread : pc[t] = "push" /\ sending[t] = "event"}

Waiting == {c \in Members(List(mqueue)) : body[c] = "event"}

Accounted == live = Cardinality(Pushing) + Cardinality(Waiting) + Carried(taken)

PumpInv == Typed /\ Pool /\ Accounted

(* The lists that the properties read off are those of the invariant.      *)
LEMMA Read ==
  ASSUME NEW free, NEW queued, Halves(free, queued)
  PROVE  List(mfree) = free /\ List(mqueue) = queued
  <1>1. ListBy(next, mfree) = free /\ ListBy(next, mqueue) = queued
    <2>1. /\ free \in Seq(Cell) /\ queued \in Seq(Cell)
          /\ Len(free) <= MAX_MESSAGES /\ Len(queued) <= MAX_MESSAGES
      BY Lengths DEF Halves
    <2>2. Chained(next, free, mfree) /\ Chained(next, queued, mqueue)
      BY DEF Halves, Divided
    <2> QED
      BY <2>1, <2>2, ListRead, SMTT(30)
  <1> QED
    BY <1>1 DEF List, Walk, ListBy, WalkBy

LEMMA ReadNext ==
  ASSUME NEW free, NEW queued, Halves(free, queued)'
  PROVE  List(mfree)' = free /\ List(mqueue)' = queued
  <1>1. ListBy(next', mfree') = free /\ ListBy(next', mqueue') = queued
    <2>1. Divided(next', mfree', mqueue', mqtail', free, queued)
      BY DEF Halves
    <2>2. /\ free \in Seq(Cell) /\ queued \in Seq(Cell)
          /\ Len(free) <= MAX_MESSAGES /\ Len(queued) <= MAX_MESSAGES
      BY <2>1, Lengths
    <2>3. Chained(next', free, mfree') /\ Chained(next', queued, mqueue')
      BY <2>1 DEF Divided
    <2> QED
      BY <2>2, <2>3, ListRead
  <1> QED
    BY <1>1 DEF List, Walk, ListBy, WalkBy

-----------------------------------------------------------------------------
(* Counting events.                                                        *)

LEMMA Finite ==
  ASSUME Pool
  PROVE  /\ IsFiniteSet(Pushing) /\ Cardinality(Pushing) \in Nat
         /\ IsFiniteSet(Waiting) /\ Cardinality(Waiting) \in Nat
  <1>1. IsFiniteSet(Pushing)
    BY Constants, FS_Subset DEF Pushing
  <1>2. Waiting \subseteq Cell
    <2>1. PICK free, queued : Halves(free, queued)
      BY DEF Pool
    <2>2. Members(List(mqueue)) \subseteq Cell
      <3>1. List(mqueue) = queued
        BY <2>1, Read
      <3> QED
        BY <3>1, <2>1 DEF Halves, Divided
    <2> QED
      BY <2>2 DEF Waiting
  <1>3. IsFiniteSet(Cell)
    BY Constants, FS_Interval DEF Cell
  <1> QED
    BY <1>1, <1>2, <1>3, FS_Subset, FS_CardinalityType

(* One more and one less.                                                  *)
LEMMA Counted ==
  ASSUME NEW S, IsFiniteSet(S), NEW x, NEW m
  PROVE  /\ x \notin S => Cardinality(IF m = "event" THEN S \cup {x} ELSE S)
                           = Cardinality(S) + Carried(m)
         /\ (x \in S <=> m = "event") => Cardinality(S \ {x}) = Cardinality(S) - Carried(m)
  <1>1. Cardinality(S) \in Nat
    BY FS_CardinalityType
  <1>2. Cardinality(S \cup {x}) = IF x \in S THEN Cardinality(S) ELSE Cardinality(S) + 1
    BY FS_AddElement
  <1>3. Cardinality(S \ {x}) = IF x \in S THEN Cardinality(S) - 1 ELSE Cardinality(S)
    BY FS_RemoveElement
  <1> QED
    BY <1>1, <1>2, <1>3 DEF Carried

(* A queue without repetitions has as many events as its cells.            *)
LEMMA EventsOfCells ==
  ASSUME NEW s \in Seq(Cell), Distinct(s), NEW bd
  PROVE  Cardinality({i \in 1 .. Len(s) : bd[s[i]] = "event"})
         = Cardinality({c \in Members(s) : bd[c] = "event"})
  <1> DEFINE I == {i \in 1 .. Len(s) : bd[s[i]] = "event"}
             C == {c \in Members(s) : bd[c] = "event"}
             f == [i \in I |-> s[i]]
  <1>1. f \in [I -> C]
    BY DEF Members
  <1>2. \A i, j \in I : f[i] = f[j] => i = j
    BY DEF Distinct
  <1>3. \A c \in C : \E i \in I : f[i] = c
    BY DEF Members
  <1>4. f \in Bijection(I, C)
    <2> HIDE DEF I, C
    <2>1. DOMAIN f = I
      OBVIOUS
    <2> HIDE DEF f
    <2> QED
      BY <2>1, <1>1, <1>2, <1>3 DEF Bijection, Injection, Surjection, IsInjective
  <1>5. IsFiniteSet(I)
    <2>1. IsFiniteSet(1 .. Len(s))
      BY FS_Interval
    <2> QED
      BY <2>1, FS_Subset
  <1> QED
    BY <1>4, <1>5, FS_Bijection DEF ExistsBijection

-----------------------------------------------------------------------------
(* What the operations on the cells do to the queue.                       *)

(* The messages of the cells s.                                            *)
Messages(s, bd) == [i \in 1 .. Len(s) |-> bd[s[i]]]

LEMMA QueueRead ==
  ASSUME NEW free, NEW queued, Halves(free, queued)
  PROVE  queue = Messages(queued, body)
  BY Read DEF queue, Messages

LEMMA QueueReadNext ==
  ASSUME NEW free, NEW queued, Halves(free, queued)'
  PROVE  queue' = Messages(queued, body')
  BY ReadNext DEF queue, Messages

LEMMA Enqueued ==
  ASSUME Typed, Pool, NEW m \in Message, Enqueue(m)
  PROVE  /\ Pool'
         /\ next' \in [Cell -> Pointer] /\ body' \in [Cell -> Message]
         /\ Cardinality(Waiting)' = Cardinality(Waiting) + Carried(m)
         /\ Len(queue) < MAX_MESSAGES /\ queue' = Append(queue, m)
  <1>1. PICK free, queued : Halves(free, queued)
    BY DEF Pool
  <1>2. Divided(next, mfree, mqueue, mqtail, free, queued)
    BY <1>1 DEF Halves
  <1>3. /\ free \in Seq(Cell) /\ queued \in Seq(Cell)
        /\ Len(queued) \in Nat /\ mfree \in Pointer /\ mqtail \in Pointer
    BY <1>2, Lengths
  <1>4. /\ mfree # NULL
        /\ mfree' = next[mfree] /\ mqtail' = mfree
        /\ mqueue' = IF mqueue = NULL THEN mfree ELSE mqueue
        /\ body' = [body EXCEPT ![mfree] = m]
        /\ next' = [i \in Cell |-> IF i = mfree THEN NULL
                                   ELSE IF i = mqtail THEN mfree ELSE next[i]]
    BY DEF Enqueue, Chain
  <1>5. /\ Divided(next', next[mfree], IF mqueue = NULL THEN mfree ELSE mqueue, mfree,
                   Tail(free), Append(queued, mfree))
        /\ mfree \in Cell /\ mfree \notin Members(queued) /\ Len(queued) < MAX_MESSAGES
        /\ Members(Append(queued, mfree)) = Members(queued) \cup {mfree}
    BY <1>2, <1>4, PushDivides
  <1> PICK cell : cell = mfree
    OBVIOUS
  <1>6. Halves(Tail(free), Append(queued, cell))'
    BY <1>4, <1>5 DEF Halves
  <1>7. Pool'
    BY <1>6 DEF Pool
  <1>8. next' \in [Cell -> Pointer] /\ body' \in [Cell -> Message]
    BY <1>4, <1>5 DEF Typed, Pointer
  <1>9. \A c \in Members(queued) : body'[c] = body[c] /\ c \in Cell
    BY <1>2, <1>4, <1>5 DEF Typed, Divided
  <1>10. Cardinality(Waiting)' = Cardinality(Waiting) + Carried(m)
    <2>1. List(mqueue) = queued /\ List(mqueue)' = Append(queued, cell)
      BY <1>1, <1>6, Read, ReadNext
    <2>2. Members(Append(queued, cell)) = Members(queued) \cup {mfree}
      BY <1>5
    <2>3. body'[mfree] = m
      BY <1>4, <1>5 DEF Typed
    <2>4. Waiting' = IF m = "event" THEN Waiting \cup {mfree} ELSE Waiting
      <3>1. Waiting' = {c \in Members(queued) \cup {mfree} : body'[c] = "event"}
        BY <2>1, <2>2 DEF Waiting
      <3>2. Waiting = {c \in Members(queued) : body[c] = "event"}
        BY <2>1 DEF Waiting
      <3> QED
        BY <3>1, <3>2, <2>3, <1>9
    <2>5. mfree \notin Waiting
      BY <2>1, <1>5 DEF Waiting
    <2> QED
      BY <2>4, <2>5, Finite, Counted
  <1>11. Len(queue) < MAX_MESSAGES /\ queue' = Append(queue, m)
    <2>1. queue = Messages(queued, body) /\ queue' = Messages(Append(queued, cell), body')
      BY <1>1, <1>6, QueueRead, QueueReadNext
    <2>2. Messages(queued, body) \in Seq(Message) /\ Len(Messages(queued, body)) = Len(queued)
      BY <1>3 DEF Messages, Typed
    <2>3. Messages(Append(queued, mfree), body') = Append(Messages(queued, body), m)
      <3> DEFINE q == Append(queued, mfree)
      <3>1. /\ Len(q) = Len(queued) + 1 /\ q[Len(queued) + 1] = mfree
            /\ \A i \in 1 .. Len(queued) : q[i] = queued[i]
        BY <1>3, <1>5
      <3> HIDE DEF q
      <3>2. \A i \in 1 .. Len(queued) : body'[q[i]] = body[queued[i]]
        BY <3>1, <1>9 DEF Members
      <3>3. body'[q[Len(queued) + 1]] = m
        BY <3>1, <1>4, <1>5 DEF Typed
      <3>4. /\ Messages(q, body') = [i \in 1 .. Len(queued) + 1 |-> body'[q[i]]]
            /\ Messages(queued, body) = [i \in 1 .. Len(queued) |-> body[queued[i]]]
        BY <3>1 DEF Messages
      <3>5. Messages(q, body') \in Seq(Message)
        <4>1. \A i \in 1 .. Len(queued) + 1 : q[i] \in Cell
          BY <3>1, <1>3, <1>5
        <4> QED
          BY <4>1, <3>4, <1>3, <1>8
      <3>6. /\ Append(Messages(queued, body), m) \in Seq(Message)
            /\ Len(Append(Messages(queued, body), m)) = Len(queued) + 1
            /\ \A i \in 1 .. Len(queued) :
                 Append(Messages(queued, body), m)[i] = Messages(queued, body)[i]
            /\ Append(Messages(queued, body), m)[Len(queued) + 1] = m
        BY <2>2, <1>3
      <3>7. Len(Messages(q, body')) = Len(queued) + 1
        BY <3>4, <1>3
      <3>8. \A i \in 1 .. Len(queued) + 1 :
              Messages(q, body')[i] = Append(Messages(queued, body), m)[i]
        <4> TAKE i \in 1 .. Len(queued) + 1
        <4>1. CASE i = Len(queued) + 1
          BY <4>1, <3>3, <3>4, <3>6
        <4>2. CASE i # Len(queued) + 1
          <5>1. i \in 1 .. Len(queued)
            BY <4>2, <1>3
          <5> QED
            BY <5>1, <3>2, <3>4, <3>6
        <4> QED
          BY <4>1, <4>2
      <3>9. Messages(q, body') = Append(Messages(queued, body), m)
        BY <3>5, <3>6, <3>7, <3>8, SeqEqual
      <3> QED
        BY <3>9 DEF q
    <2> QED
      BY <2>1, <2>2, <2>3, <1>5
  <1> QED
    BY <1>7, <1>8, <1>10, <1>11

LEMMA Popped ==
  ASSUME Typed, Pool, PopCell
  PROVE  /\ Pool'
         /\ next' \in [Cell -> Pointer] /\ body' = body /\ body[mqueue] \in Message
         /\ Cardinality(Waiting)' = Cardinality(Waiting) - Carried(body[mqueue])
         /\ queue # << >> /\ queue' = Tail(queue) /\ body[mqueue] = Head(queue)
  <1>1. PICK free, queued : Halves(free, queued)
    BY DEF Pool
  <1>2. Divided(next, mfree, mqueue, mqtail, free, queued)
    BY <1>1 DEF Halves
  <1>3. /\ free \in Seq(Cell) /\ queued \in Seq(Cell)
        /\ Len(queued) \in Nat /\ mfree \in Pointer
    BY <1>2, Lengths
  <1>4. /\ mqueue # NULL
        /\ next' = [next EXCEPT ![mqueue] = mfree]
        /\ mfree' = mqueue /\ mqueue' = next[mqueue]
        /\ mqtail' = IF next[mqueue] = NULL THEN NULL ELSE mqtail
        /\ body' = body
    BY DEF PopCell, TailAfterPop
  <1>5. next \in [Cell -> Pointer]
    BY DEF Typed
  <1>6. /\ Divided([next EXCEPT ![mqueue] = mfree], mqueue, next[mqueue],
                   IF next[mqueue] = NULL THEN NULL ELSE mqtail,
                   << mqueue >> \o free, Tail(queued))
        /\ queued # << >> /\ mqueue = queued[1] /\ mqueue \in Cell
        /\ mqueue \in Members(queued)
        /\ Members(Tail(queued)) = Members(queued) \ {mqueue}
    BY <1>2, <1>4, <1>5, PopDivides
  <1> PICK cell : cell = mqueue
    OBVIOUS
  <1>7. Halves(<< cell >> \o free, Tail(queued))'
    <2>1. Divided(next', mfree', mqueue', mqtail', << cell >> \o free, Tail(queued))
      BY <1>4, <1>6
    <2> QED
      BY <2>1 DEF Halves
  <1>8. Pool'
    BY <1>7 DEF Pool
  <1>9. next' \in [Cell -> Pointer] /\ body[mqueue] \in Message
    BY <1>3, <1>4, <1>6 DEF Typed
  <1>10. Cardinality(Waiting)' = Cardinality(Waiting) - Carried(body[mqueue])
    <2>1. List(mqueue) = queued /\ List(mqueue)' = Tail(queued)
      BY <1>1, <1>7, Read, ReadNext
    <2>2. Waiting' = {c \in Members(queued) \ {mqueue} : body[c] = "event"}
      BY <2>1, <1>4, <1>6 DEF Waiting
    <2>3. Waiting = {c \in Members(queued) : body[c] = "event"}
      BY <2>1 DEF Waiting
    <2>4. Waiting' = Waiting \ {mqueue} /\ (mqueue \in Waiting <=> body[mqueue] = "event")
      BY <2>2, <2>3, <1>6
    <2> QED
      BY <2>4, Finite, Counted
  <1>11. queue # << >> /\ queue' = Tail(queue) /\ body[mqueue] = Head(queue)
    <2>1. queue = Messages(queued, body) /\ queue' = Messages(Tail(queued), body)
      BY <1>1, <1>4, <1>7, QueueRead, QueueReadNext
    <2>2. Len(queued) # 0 /\ Len(queued) \in Nat
      BY <1>3, <1>6, EmptySeq
    <2>3. \A i \in 1 .. Len(queued) : queued[i] \in Cell
      BY <1>3
    <2>4. /\ Messages(queued, body) = [i \in 1 .. Len(queued) |-> body[queued[i]]]
          /\ Messages(queued, body) \in Seq(Message)
          /\ Len(Messages(queued, body)) = Len(queued)
      BY <2>3, <1>3 DEF Messages, Typed
    <2>5. Messages(queued, body) # << >>
      BY <2>2, <2>4, EmptySeq
    <2>6. Head(Messages(queued, body)) = body[mqueue]
      <3>1. 1 \in 1 .. Len(queued)
        BY <2>2
      <3>2. Messages(queued, body)[1] = body[queued[1]]
        BY <3>1, <2>4
      <3> QED
        BY <3>2, <2>4, <2>5, <1>6
    <2>7. Messages(Tail(queued), body) = Tail(Messages(queued, body))
      <3>1. /\ Tail(queued) \in Seq(Cell) /\ Len(Tail(queued)) = Len(queued) - 1
            /\ \A i \in 1 .. Len(Tail(queued)) : Tail(queued)[i] = queued[i + 1]
        BY <1>3, <1>6, HeadTailProperties
      <3>2. /\ Tail(Messages(queued, body)) \in Seq(Message)
            /\ Len(Tail(Messages(queued, body))) = Len(queued) - 1
            /\ \A i \in 1 .. Len(queued) - 1 :
                 Tail(Messages(queued, body))[i] = Messages(queued, body)[i + 1]
        BY <2>4, <2>5, HeadTailProperties
      <3>3. /\ Messages(Tail(queued), body) = [i \in 1 .. Len(queued) - 1 |-> body[Tail(queued)[i]]]
        BY <3>1 DEF Messages
      <3>4. \A i \in 1 .. Len(queued) - 1 : i + 1 \in 1 .. Len(queued)
        BY <2>2
      <3>5. \A i \in 1 .. Len(queued) - 1 :
              Messages(Tail(queued), body)[i] = Tail(Messages(queued, body))[i]
        BY <3>1, <3>2, <3>3, <3>4, <2>4
      <3>6. /\ Messages(Tail(queued), body) \in Seq(Message)
            /\ Len(Messages(Tail(queued), body)) = Len(queued) - 1
        <4>1. Len(queued) - 1 \in Nat
          BY <2>2
        <4>2. \A i \in 1 .. Len(queued) - 1 : body[Tail(queued)[i]] \in Message
          BY <3>1, <3>4, <2>3 DEF Typed
        <4> QED
          BY <4>1, <4>2, <3>3
      <3> QED
        BY <3>2, <3>5, <3>6, SeqEqual
    <2> QED
      BY <2>1, <2>5, <2>6, <2>7
  <1> QED
    BY <1>4, <1>8, <1>9, <1>10, <1>11

LEMMA ListsKept ==
  ASSUME Pool, UNCHANGED lists
  PROVE  Pool' /\ Waiting' = Waiting /\ queue' = queue
  <1>1. PICK free, queued : Halves(free, queued)
    BY DEF Pool
  <1>2. Halves(free, queued)'
    BY <1>1 DEF Halves, lists
  <1>3. List(mqueue)' = List(mqueue) /\ body' = body
    BY <1>1, <1>2, Read, ReadNext DEF lists
  <1> QED
    BY <1>2, <1>3 DEF Pool, Waiting, queue

-----------------------------------------------------------------------------
(* The invariant.                                                          *)

(* All cells are free at first, the last of the pool in front.             *)
LEMMA PoolAtFirst ==
  ASSUME Init
  PROVE  Halves([i \in 1 .. MAX_MESSAGES |-> MAX_MESSAGES + 1 - i], << >>)
  <1> DEFINE s == [i \in 1 .. MAX_MESSAGES |-> MAX_MESSAGES + 1 - i]
  <1>1. MAX_MESSAGES \in Nat /\ MAX_MESSAGES > 0
    BY Constants
  <1>2. s \in Seq(Cell) /\ Len(s) = MAX_MESSAGES /\ s # << >> /\ s[1] = MAX_MESSAGES
    <2>1. \A i \in 1 .. MAX_MESSAGES : MAX_MESSAGES + 1 - i \in Cell
      BY <1>1 DEF Cell
    <2>2. s \in Seq(Cell) /\ Len(s) = MAX_MESSAGES /\ s[1] = MAX_MESSAGES
      BY <2>1, <1>1
    <2> HIDE DEF s
    <2> QED
      BY <2>2, <1>1, EmptySeq
  <1>3. \A i \in 1 .. MAX_MESSAGES : s[i] = MAX_MESSAGES + 1 - i
    OBVIOUS
  <1> HIDE DEF s
  <1>4. Chained(next, s, mfree)
    <2>1. mfree = IF s = << >> THEN NULL ELSE s[1]
      BY <1>2 DEF Init
    <2>2. ASSUME NEW i \in 1 .. Len(s)
          PROVE  next[s[i]] = IF i = Len(s) THEN NULL ELSE s[i + 1]
      <3>1. s[i] = MAX_MESSAGES + 1 - i /\ s[i] \in Cell
        BY <1>1, <1>2, <1>3 DEF Cell
      <3>2. next[s[i]] = MAX_MESSAGES - i
        BY <3>1, <1>1, <1>2 DEF Init
      <3>3. i # Len(s) => i + 1 \in 1 .. MAX_MESSAGES /\ s[i + 1] = MAX_MESSAGES - i
        <4>1. i # Len(s) => i + 1 \in 1 .. MAX_MESSAGES
          BY <1>1, <1>2
        <4>2. i # Len(s) => s[i + 1] = MAX_MESSAGES + 1 - (i + 1)
          BY <4>1, <1>3
        <4> QED
          BY <4>1, <4>2, <1>1
      <3> QED
        BY <3>2, <3>3, <1>1, <1>2 DEF NULL
    <2> QED
      BY <2>1, <2>2 DEF Chained
  <1>5. Distinct(s)
    BY <1>1, <1>2, <1>3 DEF Distinct
  <1>6. Members(s) = Cell
    <2>1. Members(s) \subseteq Cell
      BY <1>2 DEF Members
    <2>2. ASSUME NEW c \in Cell PROVE c \in Members(s)
      <3>1. MAX_MESSAGES + 1 - c \in 1 .. MAX_MESSAGES
        BY <1>1 DEF Cell
      <3>2. s[MAX_MESSAGES + 1 - c] = c
        BY <3>1, <1>1, <1>3 DEF Cell
      <3> QED
        BY <3>1, <3>2, <1>2 DEF Members
    <2> QED
      BY <2>1, <2>2
  <1>7. /\ << >> \in Seq(Cell) /\ Len(<< >>) = 0 /\ Members(<< >>) = {}
        /\ Chained(next, << >>, mqueue) /\ Distinct(<< >>)
        /\ mqtail = NULL
    BY DEF Members, Chained, Distinct, Init
  <1>8. Divided(next, mfree, mqueue, mqtail, s, << >>)
    BY <1>1, <1>2, <1>4, <1>5, <1>6, <1>7 DEF Divided
  <1> QED
    BY <1>8 DEF Halves, s

LEMMA InvInit == Init => PumpInv /\ queue = << >>
  <1> SUFFICES ASSUME Init PROVE PumpInv /\ queue = << >>
    OBVIOUS
  <1>1. Typed
    <2>1. \A c \in Cell : c - 1 \in Pointer
      BY Constants DEF Cell, Pointer, NULL
    <2> QED
      BY <2>1 DEF Init, Typed, Message
  <1>2. Pool
    BY PoolAtFirst DEF Pool
  <1>3. List(mqueue) = << >>
    BY PoolAtFirst, Read
  <1>4. Accounted
    <2>1. Pushing = {} /\ Waiting = {}
      BY <1>3 DEF Init, Pushing, Waiting, Members
    <2>2. live = 0 /\ Carried(taken) = 0
      BY DEF Init, Carried
    <2> QED
      BY <2>1, <2>2, FS_EmptySet DEF Accounted
  <1>5. queue = << >>
    BY <1>3 DEF queue
  <1> QED
    BY <1>1, <1>2, <1>4, <1>5 DEF PumpInv

(* A thread that stops pushing, with or without an event.                  *)
LEMMA PushingEnds ==
  ASSUME Typed, Pool, NEW t \in Thread, pc[t] = "push", sending' = sending,
         NEW where \in {"idle", "signal"}, pc' = [pc EXCEPT ![t] = where]
  PROVE  Cardinality(Pushing)' = Cardinality(Pushing) - Carried(sending[t])
  <1>1. Pushing' = Pushing \ {t}
    BY DEF Pushing, Typed
  <1>2. t \in Pushing <=> sending[t] = "event"
    BY DEF Pushing
  <1> QED
    BY <1>1, <1>2, Finite, Counted

LEMMA InvNext == PumpInv /\ [Next]_vars => PumpInv'
  <1> SUFFICES ASSUME PumpInv, [Next]_vars PROVE PumpInv'
    OBVIOUS
  <1>1. Typed /\ Pool /\ Accounted
    BY DEF PumpInv
  <1>2. /\ Cardinality(Pushing) \in Nat /\ IsFiniteSet(Pushing)
        /\ Cardinality(Waiting) \in Nat
    BY <1>1, Finite
  <1>3. live \in Nat /\ \A m : Carried(m) \in {0, 1}
    BY <1>1, <1>2 DEF Accounted, Carried
  <1>4. ASSUME NEW t \in Thread, NEW m \in Kinds, Prepare(t, m) PROVE PumpInv'
    <2>1. Pool' /\ Waiting' = Waiting
      BY <1>1, <1>4, ListsKept DEF Prepare
    <2>2. Typed'
      BY <1>1, <1>4, Constants DEF Prepare, Typed, lists
    <2>3. Pushing' = IF m = "event" THEN Pushing \cup {t} ELSE Pushing
      BY <1>1, <1>4 DEF Prepare, Typed, Pushing
    <2>4. t \notin Pushing
      BY <1>4 DEF Prepare, Pushing
    <2>5. Cardinality(Pushing)' = Cardinality(Pushing) + Carried(m)
      BY <2>3, <2>4, <1>2, Counted
    <2>6. live' = live + Carried(m) /\ taken' = taken
      BY <1>4 DEF Prepare
    <2>7. Accounted'
      BY <2>1, <2>5, <2>6, <1>1, <1>2, <1>3 DEF Accounted
    <2> QED
      BY <2>1, <2>2, <2>7 DEF PumpInv
  <1>5. ASSUME NEW t \in Thread, Push(t) PROVE PumpInv'
    <2>1. pc[t] = "push" /\ sending[t] \in Message /\ taken' = taken
      BY <1>1, <1>5 DEF Push, Typed
    <2>2. CASE Enqueue(sending[t]) /\ pc' = [pc EXCEPT ![t] = "signal"] /\ live' = live
      <3>1. /\ Pool' /\ next' \in [Cell -> Pointer] /\ body' \in [Cell -> Message]
            /\ Cardinality(Waiting)' = Cardinality(Waiting) + Carried(sending[t])
        BY <2>1, <2>2, <1>1, Enqueued
      <3>2. Typed'
        BY <3>1, <2>2, <1>1, <1>5 DEF Push, Typed
      <3>3. Cardinality(Pushing)' = Cardinality(Pushing) - Carried(sending[t])
        BY <2>1, <2>2, <1>1, <1>5, PushingEnds DEF Push
      <3>4. Accounted'
        BY <3>1, <3>3, <2>1, <2>2, <1>1, <1>2, <1>3 DEF Accounted
      <3> QED
        BY <3>1, <3>2, <3>4 DEF PumpInv
    <2>3. CASE /\ Drop(sending[t]) /\ pc' = [pc EXCEPT ![t] = "idle"]
               /\ UNCHANGED lists
      <3>1. Pool' /\ Waiting' = Waiting
        BY <2>3, <1>1, ListsKept
      <3>2. Typed'
        BY <2>3, <1>1, <1>5 DEF Push, Typed, lists
      <3>3. Cardinality(Pushing)' = Cardinality(Pushing) - Carried(sending[t])
        BY <2>1, <2>3, <1>1, <1>5, PushingEnds DEF Push
      <3>4. Accounted'
        BY <3>1, <3>3, <2>1, <2>3, <1>1, <1>2, <1>3 DEF Accounted, Drop
      <3> QED
        BY <3>1, <3>2, <3>4 DEF PumpInv
    <2> QED
      BY <2>2, <2>3, <1>5 DEF Push
  <1>6. ASSUME NEW t \in Thread, Signal(t) PROVE PumpInv'
    <2>1. Pool' /\ Waiting' = Waiting
      BY <1>1, <1>6, ListsKept DEF Signal
    <2>2. Typed'
      BY <1>1, <1>6 DEF Signal, Typed, lists
    <2>3. Pushing' = Pushing
      BY <1>1, <1>6 DEF Signal, Typed, Pushing
    <2>4. Accounted'
      BY <2>1, <2>3, <1>1, <1>6 DEF Accounted, Signal
    <2> QED
      BY <2>1, <2>2, <2>4 DEF PumpInv
  <1>7. ASSUME NEW m \in Kinds, Answer(m) PROVE PumpInv'
    <2>1. m \in Message
      BY Constants
    <2>2. Pushing' = Pushing /\ taken' = taken
      BY <1>7 DEF Answer, Pushing
    <2>3. CASE Enqueue(m) /\ live' = live + Carried(m)
      <3>1. /\ Pool' /\ next' \in [Cell -> Pointer] /\ body' \in [Cell -> Message]
            /\ Cardinality(Waiting)' = Cardinality(Waiting) + Carried(m)
        BY <2>1, <2>3, <1>1, Enqueued
      <3>2. Typed'
        BY <3>1, <1>1, <1>7 DEF Answer, Typed
      <3>3. Accounted'
        BY <3>1, <2>2, <2>3, <1>1, <1>2, <1>3 DEF Accounted
      <3> QED
        BY <3>1, <3>2, <3>3 DEF PumpInv
    <2>4. CASE UNCHANGED << lists, live >>
      <3>1. Pool' /\ Waiting' = Waiting
        BY <2>4, <1>1, ListsKept
      <3>2. Typed'
        BY <2>4, <1>1, <1>7 DEF Answer, Typed, lists
      <3>3. Accounted'
        BY <3>1, <2>2, <2>4, <1>1 DEF Accounted
      <3> QED
        BY <3>1, <3>2, <3>3 DEF PumpInv
    <2> QED
      BY <2>3, <2>4, <1>7 DEF Answer
  <1>8. CASE Pop
    <2>1. /\ Pool' /\ next' \in [Cell -> Pointer] /\ body' = body /\ body[mqueue] \in Message
          /\ Cardinality(Waiting)' = Cardinality(Waiting) - Carried(body[mqueue])
      BY <1>1, <1>8, Popped DEF Pop
    <2>2. Typed'
      BY <2>1, <1>1, <1>8 DEF Pop, Typed, senders
    <2>3. Pushing' = Pushing
      BY <1>8 DEF Pop, Pushing, senders
    <2>4. taken = "plain" /\ taken' = body[mqueue] /\ live' = live
      BY <1>1, <1>8 DEF Pop, Typed
    <2>5. Carried(taken) = 0
      BY <2>4 DEF Carried
    <2>6. Accounted'
      BY <2>1, <2>3, <2>4, <2>5, <1>1, <1>2, <1>3 DEF Accounted
    <2> QED
      BY <2>1, <2>2, <2>6 DEF PumpInv
  <1>9. CASE Handle
    <2>1. Pool' /\ Waiting' = Waiting
      BY <1>1, <1>9, ListsKept DEF Handle
    <2>2. Typed'
      BY <1>1, <1>9 DEF Handle, Typed, lists, senders, Message
    <2>3. Pushing' = Pushing
      BY <1>9 DEF Handle, Pushing, senders
    <2>4. live' = live - Carried(taken) /\ Carried(taken)' = 0
      BY <1>9 DEF Handle, Carried
    <2>5. Accounted'
      BY <2>1, <2>3, <2>4, <1>1, <1>2, <1>3 DEF Accounted
    <2> QED
      BY <2>1, <2>2, <2>5 DEF PumpInv
  <1>10. CASE Empty \/ Wait \/ Drained \/ UNCHANGED vars
    <2>1. UNCHANGED << lists, live, senders, taken >>
      BY <1>10 DEF Empty, Wait, Drained, vars
    <2>2. Pool' /\ Waiting' = Waiting
      BY <2>1, <1>1, ListsKept
    <2>3. Typed'
      BY <2>1, <1>1, <1>10 DEF Empty, Wait, Drained, vars, Typed, lists, senders
    <2>4. Pushing' = Pushing
      BY <2>1 DEF Pushing, senders
    <2>5. Accounted'
      BY <2>1, <2>2, <2>4, <1>1 DEF Accounted
    <2> QED
      BY <2>2, <2>3, <2>5 DEF PumpInv
  <1>11. CASE Drain
    <2>1. /\ Pool' /\ next' \in [Cell -> Pointer] /\ body' = body
          /\ Cardinality(Waiting)' = Cardinality(Waiting) - Carried(body[mqueue])
      BY <1>1, <1>11, Popped DEF Drain
    <2>2. Typed'
      BY <2>1, <1>1, <1>11 DEF Drain, Typed, senders
    <2>3. Pushing' = Pushing
      BY <1>11 DEF Drain, Pushing, senders
    <2>4. taken' = taken /\ live' = live - Carried(body[mqueue])
      BY <1>11 DEF Drain
    <2>5. Accounted'
      BY <2>1, <2>3, <2>4, <1>1, <1>2, <1>3 DEF Accounted
    <2> QED
      BY <2>1, <2>2, <2>5 DEF PumpInv
  <1> QED
    BY <1>4, <1>5, <1>6, <1>7, <1>8, <1>9, <1>10, <1>11 DEF Next, Send, MainNext

-----------------------------------------------------------------------------
(* The theorems.                                                           *)

LEMMA InvAlways == Spec => []PumpInv
  BY InvInit, InvNext, PTL DEF Spec

(* No cell of the pool is ever lost or in both lists, and the queue's end  *)
(* is its last cell, however pushes, drops and pops follow each other      *)
(* (messagepump_push, messagepump_pop).                                    *)
THEOREM PoolKept == Spec => []PoolDivided
  <1>1. PumpInv => PoolDivided
    <2> SUFFICES ASSUME PumpInv PROVE PoolDivided
      OBVIOUS
    <2>1. PICK free, queued : Halves(free, queued)
      BY DEF PumpInv, Pool
    <2>2. List(mfree) = free /\ List(mqueue) = queued
      BY <2>1, Read
    <2> QED
      BY <2>1, <2>2 DEF PoolDivided, Halves, Divided
  <1> QED
    BY <1>1, InvAlways, PTL

(* Every event allocated is about to be pushed, in the queue, or being     *)
(* handled, and otherwise freed: by the full pump that ignores it, by the  *)
(* main loop, or at exit (messagepump_push_event, messagepump_event_free). *)
THEOREM EventsKept == Spec => []EventsAccounted
  <1>1. PumpInv => EventsAccounted
    <2> SUFFICES ASSUME PumpInv PROVE EventsAccounted
      OBVIOUS
    <2>1. PICK free, queued : Halves(free, queued)
      BY DEF PumpInv, Pool
    <2>2. queued \in Seq(Cell) /\ Distinct(queued) /\ Len(queued) \in Nat
      BY <2>1 DEF Halves, Divided
    <2>3. List(mqueue) = queued /\ queue = Messages(queued, body)
      BY <2>1, Read, QueueRead
    <2>4. /\ Len(queue) = Len(queued)
          /\ \A i \in 1 .. Len(queued) : queue[i] = body[queued[i]]
      BY <2>2, <2>3 DEF Messages
    <2>5. {i \in 1 .. Len(queue) : queue[i] = "event"}
          = {i \in 1 .. Len(queued) : body[queued[i]] = "event"}
      BY <2>4
    <2>6. Cardinality({i \in 1 .. Len(queue) : queue[i] = "event"}) = Cardinality(Waiting)
      BY <2>2, <2>3, <2>5, EventsOfCells DEF Waiting
    <2> QED
      BY <2>6 DEF PumpInv, Accounted, EventsAccounted, Pushing
  <1> QED
    BY <1>1, InvAlways, PTL

(* The chains of cells are a bounded queue: what is taken out is what was  *)
(* put in first, nothing is lost once it is in, and a message is ignored   *)
(* only when the pool is used up (messagepump_push, messagepump_pop).      *)
THEOREM PumpIsFifo == Spec => FifoSpec
  <1>1. Init => Fifo!Init
    BY InvInit DEF Fifo!Init
  <1>2. PumpInv /\ [Next]_vars => [Fifo!Next]_queue
    <2> SUFFICES ASSUME PumpInv, [Next]_vars PROVE [Fifo!Next]_queue
      OBVIOUS
    <2>1. Typed /\ Pool
      BY DEF PumpInv
    <2>2. ASSUME NEW m \in Message, Enqueue(m) PROVE Fifo!Next
      <3>1. Len(queue) < MAX_MESSAGES /\ queue' = Append(queue, m)
        BY <2>1, <2>2, Enqueued
      <3> QED
        BY <3>1 DEF Fifo!Next, Fifo!Push
    <2>3. ASSUME PopCell PROVE Fifo!Next
      <3>1. queue # << >> /\ queue' = Tail(queue)
        BY <2>1, <2>3, Popped
      <3> QED
        BY <3>1 DEF Fifo!Next, Fifo!Pop
    <2>4. ASSUME UNCHANGED lists PROVE queue' = queue
      BY <2>1, <2>4, ListsKept
    <2>5. ASSUME NEW t \in Thread, Push(t) PROVE [Fifo!Next]_queue
      <3>1. sending[t] \in Message
        BY <2>1 DEF Typed
      <3>2. Enqueue(sending[t]) \/ UNCHANGED lists
        BY <2>5 DEF Push
      <3> QED
        BY <3>1, <3>2, <2>2, <2>4
    <2>6. ASSUME NEW m \in Kinds, Answer(m) PROVE [Fifo!Next]_queue
      <3>1. m \in Message /\ (Enqueue(m) \/ UNCHANGED lists)
        BY <2>6, Constants DEF Answer
      <3> QED
        BY <3>1, <2>2, <2>4
    <2>7. CASE Pop \/ Drain
      <3>1. PopCell
        BY <2>7 DEF Pop, Drain
      <3> QED
        BY <3>1, <2>3
    <2>8. CASE \/ \E t \in Thread, m \in Kinds : Prepare(t, m)
               \/ \E t \in Thread : Signal(t)
               \/ Handle \/ Empty \/ Wait \/ Drained \/ UNCHANGED vars
      <3>1. UNCHANGED lists
        BY <2>8 DEF Prepare, Signal, Handle, Empty, Wait, Drained, vars
      <3> QED
        BY <3>1, <2>4
    <2> QED
      BY <2>5, <2>6, <2>7, <2>8 DEF Next, Send, MainNext
  <1> QED
    BY <1>1, <1>2, InvAlways, PTL DEF Spec, FifoSpec, Fifo!Spec

=============================================================================
