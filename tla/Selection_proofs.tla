--------------------------- MODULE Selection_proofs ---------------------------
(***************************************************************************)
(* Proofs about the choice of the next track (module Selection), for       *)
(* playlists, play queues, buffers and albums of any size.                 *)
(***************************************************************************)
EXTENDS Selection, SequenceLemmas

(* What the assumption says of each constant.                              *)
LEMMA Constants ==
  /\ TRACKS \in Nat /\ TRACKS > 0 /\ AHEAD \in Nat /\ AHEAD > 0
  /\ PLAYQUEUE_SIZE \in Nat /\ PLAYQUEUE_SIZE > 0
  /\ Album \in [Track -> Nat]
  /\ ShuffleModes \subseteq {"off", "tracks", "albums", "random"}
  BY SelectionAssumption

-----------------------------------------------------------------------------
(* Choosing from a set.                                                    *)

(* A bounded one has a largest.                                            *)
LEMMA MaxOfNumbers ==
  ASSUME NEW S \in SUBSET Nat, S # {}, NEW n \in Nat, \A x \in S : x <= n
  PROVE  Max(S) \in S /\ \A x \in S : x <= Max(S)
  <1> DEFINE T == {n - x : x \in S}
  <1>1. T \in SUBSET Nat /\ T # {}
    <2>1. \A x \in S : n - x \in Nat
      OBVIOUS
    <2> QED
      BY <2>1
  <1>2. Min(T) \in T /\ \A y \in T : Min(T) <= y
    <2> HIDE DEF T
    <2> QED
      BY <1>1, MinOfNumbers
  <1>3. PICK m \in S : Min(T) = n - m
    BY <1>2
  <1>4. \A x \in S : x <= m
    <2> TAKE x \in S
    <2>1. n - m <= n - x
      BY <1>2, <1>3
    <2> QED
      BY <2>1
  <1> QED
    BY <1>4 DEF Max

(* The first and the last of a set of tracks are among them.               *)
LEMMA FirstLastIn ==
  ASSUME NEW S \in SUBSET Track
  PROVE  /\ S # {} => First(S) \in S /\ \A x \in S : First(S) <= x
         /\ S # {} => Last1(S) \in S /\ \A x \in S : x <= Last1(S)
         /\ S = {} => First(S) = NoTrack /\ Last1(S) = NoTrack
  <1>1. S \in SUBSET Nat /\ \A x \in S : x <= TRACKS
    BY Constants DEF Track
  <1>2. S # {} => Min(S) \in S /\ \A x \in S : Min(S) <= x
    BY <1>1, MinOfNumbers
  <1>3. S # {} => Max(S) \in S /\ \A x \in S : x <= Max(S)
    BY <1>1, MaxOfNumbers, Constants
  <1> QED
    BY <1>2, <1>3 DEF First, Last1

LEMMA TrackFacts ==
  /\ Track \subseteq Nat /\ NoTrack \notin Track
  /\ Spinning \notin Track \cup {NoTrack} /\ Crash \notin Track \cup {NoTrack, Spinning}
  BY Constants DEF Track, NoTrack, Spinning, Crash

(* Ratings, and the shuffle order of a playlist with the tracks `tracks':  *)
(* only tracks of one album are ever rated alike.                          *)
Rating == {Gone, Manual} \cup 1 .. 2 * TRACKS + 1

OrderOf(tracks) ==
    {o \in [rating : [Track -> Rating], played : SUBSET tracks] :
        \A t, u \in tracks : o.rating[t] = o.rating[u] => Same(t, u)}

LEMMA Ratings ==
  \A r \in Rating : r \in Int /\ r + 1 \in Nat /\ r + 1 <= 2 * TRACKS + 2
  BY Constants DEF Rating, Gone, Manual

(* The lowest and the highest rated track of a set are among them.         *)
LEMMA MinimalIn ==
  ASSUME NEW o, o.rating \in [Track -> Rating], NEW S \in SUBSET Track, S # {}
  PROVE  /\ Minimal(o, S) \in S
         /\ \A u \in S : \/ o.rating[Minimal(o, S)] < o.rating[u]
                         \/ /\ o.rating[Minimal(o, S)] = o.rating[u]
                            /\ Minimal(o, S) <= u
  <1> DEFINE R == {o.rating[u] + 1 : u \in S}
  <1>1. \A u \in S : o.rating[u] \in Int /\ o.rating[u] + 1 \in Nat
    <2>1. \A u \in S : o.rating[u] \in Rating
      OBVIOUS
    <2> QED
      BY <2>1, Ratings
  <1>2. R \in SUBSET Nat /\ R # {}
    BY <1>1
  <1>3. Min(R) \in R /\ \A y \in R : Min(R) <= y
    <2> HIDE DEF R
    <2> QED
      BY <1>2, MinOfNumbers
  <1> DEFINE T == {u \in S : o.rating[u] + 1 = Min(R)}
  <1>4. T \in SUBSET Nat /\ T # {}
    <2>1. \E u \in S : o.rating[u] + 1 = Min(R)
      BY <1>3
    <2> QED
      BY <2>1, TrackFacts
  <1>5. Min(T) \in T /\ \A y \in T : Min(T) <= y
    <2> HIDE DEF T
    <2> QED
      BY <1>4, MinOfNumbers
  <1> DEFINE t == Min(T)
  <1>6. t \in S /\ o.rating[t] + 1 = Min(R)
    BY <1>5
  <1>7. \A u \in S : o.rating[t] < o.rating[u] \/ (o.rating[t] = o.rating[u] /\ t <= u)
    <2> SUFFICES ASSUME NEW u \in S
                 PROVE  o.rating[t] < o.rating[u] \/ (o.rating[t] = o.rating[u] /\ t <= u)
      OBVIOUS
    <2>1. o.rating[t] + 1 <= o.rating[u] + 1
      BY <1>3, <1>6
    <2>2. o.rating[t] = o.rating[u] => t <= u
      <3>1. o.rating[t] = o.rating[u] => u \in T
        BY <1>6
      <3> QED
        BY <3>1, <1>5
    <2> HIDE DEF t
    <2> QED
      BY <2>1, <2>2, <1>1, <1>6
  <1> HIDE DEF t
  <1> QED
    BY <1>6, <1>7 DEF Minimal

LEMMA MaximalIn ==
  ASSUME NEW o, o.rating \in [Track -> Rating], NEW S \in SUBSET Track, S # {}
  PROVE  Maximal(o, S) \in S
  <1> DEFINE R == {o.rating[u] + 1 : u \in S}
  <1>1. \A u \in S : /\ o.rating[u] \in Int /\ o.rating[u] + 1 \in Nat
                     /\ o.rating[u] + 1 <= 2 * TRACKS + 2
    <2>1. \A u \in S : o.rating[u] \in Rating
      OBVIOUS
    <2> QED
      BY <2>1, Ratings
  <1>2. R \in SUBSET Nat /\ R # {} /\ \A y \in R : y <= 2 * TRACKS + 2
    BY <1>1
  <1>3. Max(R) \in R /\ \A y \in R : y <= Max(R)
    <2> HIDE DEF R
    <2>1. 2 * TRACKS + 2 \in Nat
      BY Constants
    <2> QED
      BY <1>2, <2>1, MaxOfNumbers
  <1> DEFINE T == {u \in S : o.rating[u] + 1 = Max(R)}
  <1>4. T \in SUBSET Nat /\ T # {}
    <2>1. \E u \in S : o.rating[u] + 1 = Max(R)
      BY <1>3
    <2> QED
      BY <2>1, TrackFacts
  <1>5. Min(T) \in T /\ \A y \in T : Min(T) <= y
    <2> HIDE DEF T
    <2> QED
      BY <1>4, MinOfNumbers
  <1> DEFINE t == Min(T)
  <1>6. t \in S /\ o.rating[t] + 1 = Max(R)
    BY <1>5
  <1>7. \A u \in S : o.rating[t] > o.rating[u] \/ (o.rating[t] = o.rating[u] /\ t <= u)
    <2> SUFFICES ASSUME NEW u \in S
                 PROVE  o.rating[t] > o.rating[u] \/ (o.rating[t] = o.rating[u] /\ t <= u)
      OBVIOUS
    <2>1. o.rating[u] + 1 <= o.rating[t] + 1
      BY <1>3, <1>6
    <2>2. o.rating[t] = o.rating[u] => t <= u
      <3>1. o.rating[t] = o.rating[u] => u \in T
        BY <1>6
      <3> QED
        BY <3>1, <1>5
    <2> HIDE DEF t
    <2> QED
      BY <2>1, <2>2, <1>1, <1>6
  <1> HIDE DEF t
  <1> QED
    BY <1>6, <1>7 DEF Maximal

-----------------------------------------------------------------------------
(* The shuffle order.                                                      *)

LEMMA RunStartIn ==
  ASSUME list \in SUBSET Track, NEW t \in list
  PROVE  RunStart(t) \in list /\ Same(RunStart(t), t)
  <1> DEFINE S == {u \in list : u <= t /\ t \in RunFrom(u)}
  <1>1. t \in RunFrom(t)
    BY TrackFacts DEF RunFrom, Same
  <1>2. t \in S
    BY <1>1, TrackFacts
  <1>3. S \in SUBSET Track
    OBVIOUS
  <1>4. First(S) \in S
    <2> HIDE DEF S
    <2> QED
      BY <1>2, <1>3, FirstLastIn
  <1>5. RunStart(t) = First(S)
    BY DEF RunStart
  <1>6. /\ RunStart(t) \in list /\ RunStart(t) <= t
        /\ t >= RunStart(t)
        /\ \A v \in list : v \in RunStart(t) .. t => Same(v, RunStart(t))
    BY <1>4, <1>5 DEF RunFrom
  <1>7. t \in RunStart(t) .. t
    BY <1>6, TrackFacts
  <1> QED
    BY <1>6, <1>7 DEF Same

(* A drawing rates every group, and no two groups alike.                   *)
LEMMA DrawTyped ==
  ASSUME NEW G \in SUBSET Track, NEW f \in Draw(G)
  PROVE  f \in [G -> Rating] /\ \A g, h \in G : f[g] = f[h] => g = h
  <1>0. \A g \in G : g \in Nat
    BY TrackFacts
  <1>1. \A H \in SUBSET Track :
          IsFiniteSet(H) /\ Cardinality(H) \in Nat /\ Cardinality(H) <= TRACKS
    <2>1. IsFiniteSet(Track) /\ Cardinality(Track) = TRACKS
      BY Constants, FS_Interval DEF Track
    <2> QED
      BY <2>1, FS_Subset, FS_CardinalityType
  <1>2. CASE {modes.shuffle, conf.shuffle} \cap {"tracks", "albums"} = {}
    <2> DEFINE rank(g) == Cardinality({h \in G : h <= g})
    <2>1. f = [g \in G |-> 2 * rank(g)]
      BY <1>2 DEF Draw
    <2>2. \A g \in G : rank(g) \in Nat /\ rank(g) >= 1 /\ rank(g) <= TRACKS
      <3> TAKE g \in G
      <3>1. {h \in G : h <= g} \in SUBSET Track /\ g \in {h \in G : h <= g}
        BY <1>0
      <3>2. {h \in G : h <= g} # {} /\ IsFiniteSet({h \in G : h <= g})
        BY <1>1, <3>1
      <3>3. rank(g) # 0
        BY <3>2, FS_EmptySet
      <3> QED
        BY <1>1, <3>1, <3>3
    <2>3. \A g, h \in G : g < h => rank(g) # rank(h)
      <3> SUFFICES ASSUME NEW g \in G, NEW h \in G, g < h PROVE rank(g) # rank(h)
        OBVIOUS
      <3>1. {u \in G : u <= g} \subseteq {u \in G : u <= h}
        BY <1>0
      <3>2. h \in {u \in G : u <= h} /\ h \notin {u \in G : u <= g}
        BY <1>0
      <3>3. IsFiniteSet({u \in G : u <= h})
        BY <1>1
      <3> QED
        BY <3>1, <3>2, <3>3, FS_Subset
    <2> HIDE DEF rank
    <2>4. \A g \in G : f[g] = 2 * rank(g) /\ f[g] \in Rating
      BY <2>1, <2>2, Constants DEF Rating
    <2>5. \A g, h \in G : f[g] = f[h] => g = h
      <3> SUFFICES ASSUME NEW g \in G, NEW h \in G, f[g] = f[h] PROVE g = h
        OBVIOUS
      <3>1. rank(g) = rank(h)
        BY <2>2, <2>4
      <3>2. g \in Nat /\ h \in Nat
        BY TrackFacts
      <3> QED
        BY <2>3, <3>1, <3>2
    <2> QED
      BY <2>1, <2>4, <2>5
  <1>3. CASE {modes.shuffle, conf.shuffle} \cap {"tracks", "albums"} # {}
    <2>1. f \in Rankings[G]
      BY <1>3 DEF Draw
    <2>2. f \in [G -> {2 * i : i \in 1 .. Cardinality(G)}] /\ IsInjective(f)
      BY <2>1 DEF Rankings
    <2>3. {2 * i : i \in 1 .. Cardinality(G)} \subseteq Rating
      BY <1>1, Constants DEF Rating
    <2> QED
      BY <2>2, <2>3 DEF IsInjective
  <1> QED
    BY <1>2, <1>3

(* Ratings are drawn above that of a track chosen by hand.                 *)
LEMMA DrawsNoManual ==
  ASSUME NEW G \in SUBSET Track, NEW f \in Draw(G), NEW g \in G
  PROVE  f[g] # Manual
  <1>1. \A H \in SUBSET Track : Cardinality(H) \in Nat
    <2>1. IsFiniteSet(Track)
      BY Constants, FS_Interval DEF Track
    <2> QED
      BY <2>1, FS_Subset, FS_CardinalityType
  <1>2. CASE {modes.shuffle, conf.shuffle} \cap {"tracks", "albums"} = {}
    <2>1. f[g] = 2 * Cardinality({h \in G : h <= g})
      BY <1>2 DEF Draw
    <2>2. Cardinality({h \in G : h <= g}) \in Nat
      BY <1>1
    <2> QED
      BY <2>1, <2>2 DEF Manual
  <1>3. CASE {modes.shuffle, conf.shuffle} \cap {"tracks", "albums"} # {}
    <2>1. f \in Rankings[G]
      BY <1>3 DEF Draw
    <2>2. f[g] \in {2 * i : i \in 1 .. Cardinality(G)}
      BY <2>1 DEF Rankings
    <2> QED
      BY <1>1, <2>2 DEF Manual
  <1> QED
    BY <1>2, <1>3

(* The group of tracks that t is rated with.                               *)
GroupOf(t) == IF conf.shuffle = "albums" THEN RunStart(t) ELSE t

LEMMA ReshuffledBy ==
  ASSUME list \in SUBSET Track, NEW r \in Reshuffled
  PROVE  \E f \in Draw({GroupOf(t) : t \in list}) :
           r = [rating |-> [t \in Track |-> IF t \in list THEN f[GroupOf(t)] ELSE Gone],
                played |-> {}]
  BY DEF Reshuffled, GroupOf

LEMMA ReshuffledTyped ==
  ASSUME list \in SUBSET Track
  PROVE  /\ Reshuffled \subseteq OrderOf(list)
         /\ \A r \in Reshuffled : \A t \in Track : r.rating[t] # Manual
  <1> SUFFICES ASSUME NEW r \in Reshuffled
               PROVE  r \in OrderOf(list) /\ \A t \in Track : r.rating[t] # Manual
    OBVIOUS
  <1> DEFINE G == {GroupOf(t) : t \in list}
  <1>1. G \in SUBSET Track /\ \A t \in list : Same(GroupOf(t), t)
    BY RunStartIn DEF GroupOf, Same
  <1>2. PICK f \in Draw(G) :
          r = [rating |-> [t \in Track |-> IF t \in list THEN f[GroupOf(t)] ELSE Gone],
               played |-> {}]
    BY ReshuffledBy
  <1>3. /\ f \in [G -> Rating]
        /\ \A g, h \in G : f[g] = f[h] => g = h
        /\ \A g \in G : f[g] # Manual
    <2> HIDE DEF G
    <2> QED
      BY <1>1, DrawTyped, DrawsNoManual
  <1>4. \A t \in list : f[GroupOf(t)] \in Rating /\ f[GroupOf(t)] # Manual
    BY <1>3
  <1>5. \A t, u \in list : f[GroupOf(t)] = f[GroupOf(u)] => Same(t, u)
    BY <1>1, <1>3 DEF Same
  <1>6. r \in [rating : [Track -> Rating], played : SUBSET list]
    BY <1>2, <1>4 DEF Rating
  <1>7. \A t \in list : r.rating[t] = f[GroupOf(t)]
    BY <1>2
  <1>8. \A t \in Track : r.rating[t] # Manual
    BY <1>2, <1>4 DEF Gone, Manual
  <1> QED
    BY <1>5, <1>6, <1>7, <1>8 DEF OrderOf

LEMMA MarkedTyped ==
  ASSUME list \in SUBSET Track, NEW o \in OrderOf(list)
  PROVE  /\ \A S : Mark(o, S) \in OrderOf(list)
         /\ \A S : Unmark(o, S) \in OrderOf(list)
         /\ MarkPlaying(o) \in OrderOf(list)
         /\ \A t : MarkAlbumUpTo(o, t) \in OrderOf(list)
  <1>1. \A S : Mark(o, S) \in OrderOf(list)
    BY DEF Mark, OrderOf
  <1>2. \A S : Unmark(o, S) \in OrderOf(list)
    BY DEF Unmark, OrderOf
  <1> QED
    BY <1>1, <1>2 DEF MarkPlaying, MarkAlbumUpTo

(* A track chosen by hand is rated by itself, in an order just drawn.      *)
LEMMA RebuiltTyped ==
  ASSUME list \in SUBSET Track, NEW t
  PROVE  Rebuilt(t) \subseteq OrderOf(list)
  <1>1. ASSUME NEW o \in Reshuffled PROVE [o EXCEPT !.rating[t] = Manual] \in OrderOf(list)
    <2>1. o \in OrderOf(list) /\ \A u \in Track : o.rating[u] # Manual
      BY ReshuffledTyped
    <2>2. [o.rating EXCEPT ![t] = Manual] \in [Track -> Rating]
      BY <2>1 DEF OrderOf, Rating
    <2>3. \A u, v \in list : [o.rating EXCEPT ![t] = Manual][u] = [o.rating EXCEPT ![t] = Manual][v]
                             => Same(u, v)
      <3>1. o.rating \in [Track -> Rating]
            /\ \A u, v \in list : o.rating[u] = o.rating[v] => Same(u, v)
        BY <2>1 DEF OrderOf
      <3> QED
        BY <2>1, <3>1 DEF Same
    <2> QED
      BY <2>1, <2>2, <2>3 DEF OrderOf
  <1>2. \A o \in Reshuffled : MarkAlbumUpTo(o, t) \in OrderOf(list)
    BY ReshuffledTyped, MarkedTyped
  <1> QED
    BY <1>1, <1>2 DEF Rebuilt

-----------------------------------------------------------------------------
(* The choice of a track.                                                  *)

PicksOf(tracks) == [track : tracks, order : OrderOf(list)]

LEMMA Picked ==
  ASSUME NEW T, NEW t \in T, NEW o \in OrderOf(list)
  PROVE  Pick(t, o) \in PicksOf(T) /\ {Pick(t, o)} \subseteq PicksOf(T)
  BY DEF Pick, PicksOf

LEMMA InPlaylist ==
  ASSUME list \in SUBSET Track
  PROVE  /\ \A t : /\ After(t) \in list \cup {NoTrack}
                  /\ Before(t) \in list \cup {NoTrack}
                  /\ InList(t) \in list \cup {NoTrack}
         /\ list # {} => First(list) \in list /\ Last1(list) \in list
         /\ \A m : RandomTracks(m) \subseteq list \cup {NoTrack}
  <1>1. list # {} => First(list) \in list /\ Last1(list) \in list
    BY FirstLastIn
  <1>2. \A t : After(t) \in list \cup {NoTrack}
    BY FirstLastIn DEF After
  <1>3. \A t : Before(t) \in list \cup {NoTrack}
    BY FirstLastIn DEF Before
  <1>4. \A m : RandomTracks(m) \subseteq list \cup {NoTrack}
    BY DEF RandomTracks
  <1> QED
    BY <1>1, <1>2, <1>3, <1>4 DEF InList

LEMMA NextShuffledIn ==
  ASSUME list \in SUBSET Track, list # {},
         NEW curr, NEW o \in OrderOf(list), NEW m
  PROVE  NextShuffled(curr, o, m) \subseteq PicksOf(list \cup {NoTrack})
  <1> DEFINE whole == curr = NoTrack \/ m.shuffle = "tracks"
             left  == {t \in NotPlayed(o) : whole \/ o.rating[t] >= o.rating[curr]}
  <1>1. \A t \in list : NotAgain(t, curr) \in list \cup {NoTrack}
    BY InPlaylist DEF NotAgain
  <1>2. left # {} => Minimal(o, left) \in list
    <2>1. left \in SUBSET list
      BY DEF NotPlayed
    <2> HIDE DEF left
    <2> QED
      BY <2>1, MinimalIn DEF OrderOf
  <1>3. \A r \in Reshuffled : r \in OrderOf(list) /\ Minimal(r, list) \in list
    BY ReshuffledTyped, MinimalIn DEF OrderOf
  <1>4. left # {} => Pick(NotAgain(Minimal(o, left), curr), o) \in PicksOf(list \cup {NoTrack})
    <2> HIDE DEF left
    <2> QED
      BY <1>1, <1>2, Picked
  <1>5. \A r \in Reshuffled :
          /\ Pick(NotAgain(Minimal(r, list), curr), r) \in PicksOf(list \cup {NoTrack})
          /\ Pick(NoTrack, r) \in PicksOf(list \cup {NoTrack})
    BY <1>1, <1>3, Picked
  <1>6. Pick(NoTrack, o) \in PicksOf(list \cup {NoTrack})
    BY Picked
  <1>7. NextShuffled(curr, o, m) =
          CASE left # {} -> {Pick(NotAgain(Minimal(o, left), curr), o)}
            [] left = {} /\ m.repeat = "all" ->
                 {Pick(NotAgain(Minimal(r, list), curr), r) : r \in Reshuffled}
            [] left = {} /\ m.repeat # "all" /\ whole -> {Pick(NoTrack, o)}
            [] OTHER -> {Pick(NoTrack, r) : r \in Reshuffled}
    BY DEF NextShuffled
  <1> HIDE DEF left, whole
  <1> QED
    BY <1>4, <1>5, <1>6, <1>7

(* Whatever the modes, the next track is one of the playlist, if the       *)
(* fallback and the queued tracks are.                                     *)
LEMMA NextTrackIn ==
  ASSUME list \in SUBSET Track, queue \in Seq(list),
         NEW curr, NEW o \in OrderOf(list), NEW m,
         m.next \in list \cup {NoTrack},
         m.shuffle \in {"off", "tracks", "albums", "random"}
  PROVE  NextTrack(curr, o, m) \subseteq PicksOf(list \cup {NoTrack})
  <1>1. CASE m.next # NoTrack
    BY <1>1, Picked DEF NextTrack
  <1>2. CASE m.next = NoTrack /\ queue # << >>
    <2>1. Head(queue) \in list \cup {NoTrack}
      BY <1>2
    <2>2. NextTrack(curr, o, m) = {Pick(Head(queue), o)}
      BY <1>2 DEF NextTrack
    <2>3. Pick(Head(queue), o) \in PicksOf(list \cup {NoTrack})
      BY <2>1, Picked
    <2> QED
      BY <2>2, <2>3
  <1>3. CASE m.next = NoTrack /\ queue = << >> /\ list = {}
    <2>1. NextTrack(curr, o, m) = {Pick(NoTrack, o)}
      BY <1>3 DEF NextTrack
    <2>2. Pick(NoTrack, o) \in PicksOf(list \cup {NoTrack})
      BY Picked
    <2> QED
      BY <2>1, <2>2
  <1>4. CASE m.next = NoTrack /\ queue = << >> /\ list # {}
    <2>1. NextTrack(curr, o, m) =
            CASE Shuffled(m)           -> NextShuffled(InList(curr), o, m)
              [] m.shuffle = "off"     -> NextLinear(InList(curr), o, m)
              [] m.shuffle = "random"  -> {Pick(t, o) : t \in RandomTracks(m)}
      BY <1>4 DEF NextTrack
    <2>2. NextShuffled(InList(curr), o, m) \subseteq PicksOf(list \cup {NoTrack})
      BY <1>4, NextShuffledIn
    <2>3. NextLinear(InList(curr), o, m) \subseteq PicksOf(list \cup {NoTrack})
      <3> DEFINE succ == IF InList(curr) = NoTrack THEN First(list) ELSE After(InList(curr))
                 t == IF succ = NoTrack /\ m.repeat = "all" THEN First(list) ELSE succ
      <3>1. t \in list \cup {NoTrack}
        BY <1>4, InPlaylist
      <3>2. NextLinear(InList(curr), o, m) = {Pick(t, o)}
        BY DEF NextLinear
      <3> HIDE DEF t
      <3>3. Pick(t, o) \in PicksOf(list \cup {NoTrack})
        BY <3>1, Picked
      <3> QED
        BY <3>2, <3>3
    <2>4. {Pick(t, o) : t \in RandomTracks(m)} \subseteq PicksOf(list \cup {NoTrack})
      <3>1. \A t \in RandomTracks(m) : t \in list \cup {NoTrack}
        BY InPlaylist
      <3>2. \A t \in RandomTracks(m) : Pick(t, o) \in PicksOf(list \cup {NoTrack})
        BY <3>1, Picked
      <3> QED
        BY <3>2
    <2>5. CASE Shuffled(m)
      BY <2>1, <2>2, <2>5 DEF Shuffled
    <2>6. CASE m.shuffle = "off"
      BY <2>1, <2>3, <2>6 DEF Shuffled
    <2>7. CASE m.shuffle = "random"
      BY <2>1, <2>4, <2>7 DEF Shuffled
    <2> QED
      BY <2>5, <2>6, <2>7 DEF Shuffled
  <1> QED
    BY <1>1, <1>2, <1>3, <1>4

LEMMA LastPlayedIn ==
  ASSUME list \in SUBSET Track, NEW o, NEW t \in list
  PROVE  LastPlayedOfRun(o, t) \in list
  <1> DEFINE S == {u \in list : u >= t /\ \A v \in list : v \in t + 1 .. u =>
                                  v \in o.played /\ o.rating[v] = o.rating[t]}
  <1>1. t \in S
    BY TrackFacts
  <1>2. S \in SUBSET Nat /\ \A x \in S : x <= TRACKS
    <2>1. \A x \in list : x \in Nat /\ x <= TRACKS
      BY Constants DEF Track
    <2> QED
      BY <2>1
  <1>3. Max(S) \in S
    <2> HIDE DEF S
    <2> QED
      BY <1>1, <1>2, MaxOfNumbers, Constants
  <1> QED
    BY <1>3 DEF LastPlayedOfRun

LEMMA PrevShuffledIn ==
  ASSUME list \in SUBSET Track, NEW curr \in list, NEW before \in OrderOf(list), NEW m
  PROVE  PrevShuffled(curr, before, m) \subseteq PicksOf(Track \cup {NoTrack})
  <1> DEFINE o     == Unmark(before, {curr})
             heard == (list \cap o.played) \ {curr}
             below == {t \in heard : o.rating[t] <= o.rating[curr]}
             up    == IF m.shuffle = "albums" THEN LastPlayedOfRun(o, Maximal(o, below))
                                              ELSE Maximal(o, below)
  <1>1. o \in OrderOf(list)
    BY MarkedTyped
  <1>2. heard \in SUBSET list /\ below \in SUBSET list
    OBVIOUS
  <1> HIDE DEF o, heard
  <1>3. below # {} => Maximal(o, below) \in list
    <2> HIDE DEF below
    <2> QED
      BY <1>1, <1>2, MaximalIn DEF OrderOf
  <1> HIDE DEF below
  <1>4. below # {} => up \in Track \cup {NoTrack}
    BY <1>3, LastPlayedIn
  <1>5. heard # {} => Maximal(o, heard) \in Track \cup {NoTrack}
    BY <1>1, <1>2, MaximalIn DEF OrderOf
  <1>6. \A r \in Reshuffled : r \in OrderOf(list) /\ Maximal(r, list) \in Track \cup {NoTrack}
    BY ReshuffledTyped, MaximalIn DEF OrderOf
  <1> HIDE DEF up
  <1>7. /\ below # {} => Pick(up, o) \in PicksOf(Track \cup {NoTrack})
        /\ Pick(NoTrack, o) \in PicksOf(Track \cup {NoTrack})
        /\ heard # {} => Pick(Maximal(o, heard), o) \in PicksOf(Track \cup {NoTrack})
        /\ \A r \in Reshuffled : Pick(Maximal(r, list), r) \in PicksOf(Track \cup {NoTrack})
    BY <1>1, <1>4, <1>5, <1>6, Picked
  <1>8. PrevShuffled(curr, before, m) =
          CASE below # {} -> {Pick(up, o)}
            [] below = {} /\ m.repeat # "all" -> {Pick(NoTrack, o)}
            [] below = {} /\ m.repeat = "all" /\ heard # {} -> {Pick(Maximal(o, heard), o)}
            [] OTHER -> {Pick(Maximal(r, list), r) : r \in Reshuffled}
    BY DEF PrevShuffled, o, heard, below, up
  <1> QED
    BY <1>7, <1>8

(* The previous one is a track, if the fallback is.                        *)
LEMMA PrevTrackIn ==
  ASSUME list \in SUBSET Track,
         NEW curr, NEW o \in OrderOf(list), NEW m,
         m.prev \in Track \cup {NoTrack},
         m.shuffle \in {"off", "tracks", "albums", "random"}
  PROVE  PrevTrack(curr, o, m) \subseteq PicksOf(Track \cup {NoTrack})
  <1> DEFINE c == InList(curr)
             t == IF c = NoTrack THEN Last1(list) ELSE Before(c)
  <1>0. c \in list \cup {NoTrack} /\ c \in Track \cup {NoTrack}
    BY InPlaylist
  <1>1. list # {} => First(list) \in Track \cup {NoTrack} /\ t \in Track \cup {NoTrack}
    BY InPlaylist
  <1> HIDE DEF c
  <1>2. \A u \in RandomTracks(m) : u \in Track \cup {NoTrack}
    BY InPlaylist
  <1> HIDE DEF t
  <1>3. /\ Pick(m.prev, o) \in PicksOf(Track \cup {NoTrack})
        /\ Pick(NoTrack, o) \in PicksOf(Track \cup {NoTrack})
        /\ list # {} => /\ Pick(First(list), o) \in PicksOf(Track \cup {NoTrack})
                       /\ Pick(t, o) \in PicksOf(Track \cup {NoTrack})
        /\ \A u \in RandomTracks(m) : Pick(u, o) \in PicksOf(Track \cup {NoTrack})
    BY <1>1, <1>2, Picked
  <1>4. c # NoTrack => PrevShuffled(c, o, m) \subseteq PicksOf(Track \cup {NoTrack})
    BY <1>0, PrevShuffledIn
  <1>5. PrevTrack(curr, o, m) =
          CASE m.prev # NoTrack -> {Pick(m.prev, o)}
            [] m.prev = NoTrack /\ list = {} -> {Pick(NoTrack, o)}
            [] OTHER ->
                 CASE Shuffled(m) /\ c = NoTrack -> {Pick(First(list), o)}
                   [] Shuffled(m) /\ c # NoTrack -> PrevShuffled(c, o, m)
                   [] m.shuffle = "off" -> {Pick(t, o)}
                   [] m.shuffle = "random" -> {Pick(u, o) : u \in RandomTracks(m)}
    BY DEF PrevTrack, c, t
  <1>6. CASE m.prev # NoTrack
    BY <1>3, <1>5, <1>6
  <1>7. CASE m.prev = NoTrack /\ list = {}
    BY <1>3, <1>5, <1>7
  <1>8. CASE m.prev = NoTrack /\ list # {}
    <2>1. CASE Shuffled(m) /\ c = NoTrack
      BY <1>3, <1>5, <1>8, <2>1 DEF Shuffled
    <2>2. CASE Shuffled(m) /\ c # NoTrack
      BY <1>4, <1>5, <1>8, <2>2 DEF Shuffled
    <2>3. CASE m.shuffle = "off"
      BY <1>3, <1>5, <1>8, <2>3 DEF Shuffled
    <2>4. CASE m.shuffle = "random"
      BY <1>3, <1>5, <1>8, <2>4 DEF Shuffled
    <2> QED
      BY <2>1, <2>2, <2>3, <2>4 DEF Shuffled
  <1> QED
    BY <1>6, <1>7, <1>8

-----------------------------------------------------------------------------
(* What the streamer's variables hold.                                     *)

ListTyped == list \in SUBSET Track /\ order \in OrderOf(list)

QueueTyped == queue \in Seq(list) /\ Len(queue) <= PLAYQUEUE_SIZE

ModesTyped ==
    /\ modes \in [shuffle : ShuffleModes, repeat : RepeatModes]
    /\ conf \in [shuffle : ShuffleModes, repeat : RepeatModes]
    /\ stop_after \in SUBSET {"queue", "album"}

TracksTyped ==
    /\ streaming_track \in Track \cup {NoTrack}
    /\ playing_track \in Track \cup {NoTrack}
    /\ last_played \in Track \cup {NoTrack}
    /\ buffering_track \in Track \cup {NoTrack}
    /\ prev_track_to_play \in Track \cup {NoTrack}

ControlTyped ==
    /\ output \in {"playing", "stopped"}
    /\ deleted \in BOOLEAN
    /\ handled \in BOOLEAN
    /\ fate \in {"running", "spinning", "crashed"}

(* A track is being heard whenever the output plays.                       *)
OutputPlays == output = "playing" => playing_track # NoTrack

(* What was streamed last is what is being streamed: only a buffer that    *)
(* ends with another track can be one longer than it is when streaming     *)
(* stops.                                                                  *)
AheadTyped ==
    /\ ahead \in Seq(Track)
    /\ Len(ahead) <= AHEAD + 1
    /\ streaming_track = NoTrack => Len(ahead) <= AHEAD
    /\ streaming_track # NoTrack /\ ahead # << >> => ahead[Len(ahead)] = streaming_track

(* The track being removed is neither queued nor a fallback.               *)
RemovedForgotten ==
    /\ removing \in Track \cup {NoTrack}
    /\ removing # NoTrack =>
         /\ next_track_to_play # removing
         /\ \A i \in DOMAIN queue : queue[i] # removing

SelInv ==
    /\ ListTyped /\ QueueTyped /\ ModesTyped /\ TracksTyped /\ ControlTyped
    /\ OutputPlays /\ AheadTyped /\ RemovedForgotten /\ FallbackInPlaylist

LEMMA ModeValues ==
  ASSUME ModesTyped
  PROVE  /\ modes.shuffle \in {"off", "tracks", "albums", "random"}
         /\ conf.shuffle \in {"off", "tracks", "albums", "random"}
  BY Constants DEF ModesTyped

LEMMA SelInvTypeOK == SelInv => TypeOK
  BY DEF SelInv, ListTyped, QueueTyped, ModesTyped, TracksTyped, ControlTyped,
         AheadTyped, RemovedForgotten, FallbackInPlaylist, TypeOK, OrderOf, Rating

LEMMA InitSel == Init => SelInv
  <1> SUFFICES ASSUME Init PROVE SelInv
    OBVIOUS
  <1>1. list \in SUBSET Track /\ order \in OrderOf(list)
    BY ReshuffledTyped DEF Init
  <1>2. ListTyped /\ ModesTyped /\ FallbackInPlaylist
    BY <1>1 DEF Init, ListTyped, ModesTyped, FallbackInPlaylist
  <1>3. QueueTyped /\ RemovedForgotten
    BY Constants DEF Init, QueueTyped, RemovedForgotten
  <1>4. TracksTyped /\ ControlTyped /\ OutputPlays
    BY DEF Init, TracksTyped, ControlTyped, OutputPlays
  <1>5. AheadTyped
    BY Constants DEF Init, AheadTyped
  <1> QED
    BY <1>2, <1>3, <1>4, <1>5 DEF SelInv

-----------------------------------------------------------------------------
(* What a request for another track or album may be answered with.         *)
Answer == Track \cup {NoTrack, Spinning, Crash}

LEMMA Answers ==
  ASSUME NEW t \in Answer, NEW o \in OrderOf(list)
  PROVE  Pick(t, o) \in PicksOf(Answer)
  BY Picked

LEMMA PicksAnswer ==
  ASSUME list \in SUBSET Track
  PROVE  /\ PicksOf(list \cup {NoTrack}) \subseteq PicksOf(Answer)
         /\ PicksOf(Track \cup {NoTrack}) \subseteq PicksOf(Answer)
  BY DEF PicksOf, Answer

LEMMA ContextTyped ==
  ASSUME SelInv
  PROVE  /\ Context.next = next_track_to_play /\ Context.prev = prev_track_to_play
         /\ Context.streaming = streaming_track
         /\ Context.shuffle = modes.shuffle /\ Context.repeat = modes.repeat
         /\ Context.next \in list \cup {NoTrack}
         /\ Context.prev \in Track \cup {NoTrack}
         /\ Context.shuffle \in {"off", "tracks", "albums", "random"}
         /\ DOMAIN Context = {"shuffle", "repeat", "next", "prev", "streaming"}
  BY ModeValues DEF SelInv, Context, FallbackInPlaylist, TracksTyped

LEMMA StartOverIn ==
  ASSUME list \in SUBSET Track, NEW p \in PicksOf(Answer), NEW dir
  PROVE  StartOver(p, dir) \subseteq PicksOf(Answer)
  <1>1. CASE p.track = NoTrack /\ list # {} /\ Shuffled(modes) /\ modes.repeat = "off"
    <2>1. \A r \in Reshuffled :
            /\ r \in OrderOf(list)
            /\ Minimal(r, list) \in Answer
            /\ Maximal(r, list) \in Answer
            /\ \A S : Mark(r, S) \in OrderOf(list)
      <3>1. \A r \in Reshuffled : r \in OrderOf(list)
        BY ReshuffledTyped
      <3>2. \A r \in Reshuffled : Minimal(r, list) \in list /\ Maximal(r, list) \in list
        BY <1>1, <3>1, MinimalIn, MaximalIn DEF OrderOf
      <3> QED
        BY <3>1, <3>2, MarkedTyped DEF Answer
    <2>2. \A r \in Reshuffled :
            /\ Pick(Minimal(r, list), r) \in PicksOf(Answer)
            /\ Pick(Maximal(r, list), Mark(r, list \ {Maximal(r, list)})) \in PicksOf(Answer)
      BY <2>1, Answers
    <2> QED
      BY <1>1, <2>2 DEF StartOver
  <1>2. CASE ~ (p.track = NoTrack /\ list # {} /\ Shuffled(modes) /\ modes.repeat = "off")
    BY <1>2 DEF StartOver
  <1> QED
    BY <1>1, <1>2

LEMMA TrackWithDirectionIn ==
  ASSUME SelInv, NEW dir \in {"next", "prev", "random"}
  PROVE  TrackWithDirection(dir) \subseteq PicksOf(Answer)
  <1>0. list \in SUBSET Track /\ order \in OrderOf(list) /\ queue \in Seq(list)
    BY DEF SelInv, ListTyped, QueueTyped
  <1>1. CASE dir = "next"
    <2>1. NextTrack(Origin, order, Context) \subseteq PicksOf(Answer)
      BY <1>0, ContextTyped, NextTrackIn, PicksAnswer
    <2>2. \A p \in NextTrack(Origin, order, Context) : StartOver(p, dir) \subseteq PicksOf(Answer)
      BY <1>0, <2>1, StartOverIn
    <2> QED
      BY <1>1, <2>2 DEF TrackWithDirection
  <1>2. CASE dir = "prev"
    <2>1. PrevTrack(Origin, order, Context) \subseteq PicksOf(Answer)
      BY <1>0, ContextTyped, PrevTrackIn, PicksAnswer
    <2>2. \A p \in PrevTrack(Origin, order, Context) : StartOver(p, dir) \subseteq PicksOf(Answer)
      BY <1>0, <2>1, StartOverIn
    <2> QED
      BY <1>2, <2>2 DEF TrackWithDirection
  <1>3. CASE dir = "random"
    <2>1. \A t \in RandomTracks(Context) : t \in Answer
      BY <1>0, InPlaylist DEF Answer
    <2>2. \A t \in RandomTracks(Context) : Pick(t, order) \in PicksOf(Answer)
      BY <1>0, <2>1, Answers
    <2> QED
      BY <1>3, <2>2 DEF TrackWithDirection
  <1> QED
    BY <1>1, <1>2, <1>3

LEMMA NextAlbumIn ==
  ASSUME SelInv, NEW from \in Track
  PROVE  NextAlbum(from) \subseteq PicksOf(Answer)
  <1> DEFINE curr   == InList(from)
             run    == IF curr = NoTrack THEN {} ELSE RunFrom(curr)
             o      == Mark(order, run)
             beyond == First({t \in list : \A u \in run : t > u})
             left   == {t \in NotPlayed(o) : curr = NoTrack \/ o.rating[t] > o.rating[curr]}
             far    == IF beyond = NoTrack /\ modes.repeat = "all" THEN First(list) ELSE beyond
             head   == IF Same(Head(queue), from) THEN Spinning ELSE Head(queue)
  <1>0. /\ list \in SUBSET Track /\ order \in OrderOf(list) /\ queue \in Seq(list)
        /\ next_track_to_play \in list \cup {NoTrack}
    BY DEF SelInv, ListTyped, QueueTyped, FallbackInPlaylist
  <1>1. o \in OrderOf(list)
    BY <1>0, MarkedTyped
  <1>2. beyond \in Answer
    <2> DEFINE S == {t \in list : \A u \in run : t > u}
    <2>1. S \in SUBSET Track
      BY <1>0
    <2>2. First(S) \in S \cup {NoTrack}
      <3> HIDE DEF S
      <3> QED
        BY <2>1, FirstLastIn
    <2> QED
      BY <2>1, <2>2 DEF Answer
  <1>3. left \in SUBSET Track
    BY <1>0 DEF NotPlayed
  <1> HIDE DEF curr, run, o, beyond, left
  <1>4. list # {} => far \in Answer
    BY <1>0, <1>2, InPlaylist DEF Answer
  <1>5. MinimalOrNone(o, left) \in Answer
    BY <1>1, <1>3, MinimalIn DEF MinimalOrNone, OrderOf, Answer
  <1>6. queue # << >> => head \in Answer
    BY <1>0 DEF Answer
  <1>7. \A r \in Reshuffled : r \in OrderOf(list) /\ (list # {} => Minimal(r, list) \in Answer)
    BY <1>0, ReshuffledTyped, MinimalIn DEF OrderOf, Answer
  <1> HIDE DEF far, head
  <1>8. /\ Pick(next_track_to_play, order) \in PicksOf(Answer)
        /\ queue # << >> => Pick(head, order) \in PicksOf(Answer)
        /\ Pick(NoTrack, order) \in PicksOf(Answer)
        /\ list # {} => Pick(far, o) \in PicksOf(Answer)
        /\ list # {} => \A r \in Reshuffled : Pick(Minimal(r, list), r) \in PicksOf(Answer)
        /\ Pick(MinimalOrNone(o, left), o) \in PicksOf(Answer)
    <2>1. next_track_to_play \in Answer /\ NoTrack \in Answer
      BY <1>0 DEF Answer
    <2> QED
      BY <1>0, <1>1, <1>4, <1>5, <1>6, <1>7, <2>1, Answers
  <1>9. NextTrack(from, order, Context) \subseteq PicksOf(Answer)
    BY <1>0, ContextTyped, NextTrackIn, PicksAnswer
  <1>10. NextAlbum(from) =
           CASE modes.shuffle \in {"tracks", "random"} -> NextTrack(from, order, Context)
             [] OTHER ->
           CASE next_track_to_play # NoTrack /\ ~ Same(next_track_to_play, from) ->
                  {Pick(next_track_to_play, order)}
             [] OTHER ->
           CASE queue # << >> -> {Pick(head, order)}
             [] queue = << >> /\ list = {} -> {Pick(NoTrack, order)}
             [] OTHER ->
           CASE modes.shuffle = "off" -> {Pick(far, o)}
             [] modes.shuffle = "albums" /\ left = {} /\ modes.repeat = "all" -> {Pick(Minimal(r, list), r) : r \in Reshuffled}
             [] OTHER -> {Pick(MinimalOrNone(o, left), o)}
    BY DEF NextAlbum, curr, run, o, beyond, left, far, head
  <1>11. CASE modes.shuffle \in {"tracks", "random"}
    BY <1>9, <1>10, <1>11
  <1>12. CASE modes.shuffle \notin {"tracks", "random"}
    <2>1. CASE next_track_to_play # NoTrack /\ ~ Same(next_track_to_play, from)
      BY <1>8, <1>10, <1>12, <2>1
    <2>2. CASE ~ (next_track_to_play # NoTrack /\ ~ Same(next_track_to_play, from))
      <3>1. NextAlbum(from) =
             CASE queue # << >> -> {Pick(head, order)}
               [] queue = << >> /\ list = {} -> {Pick(NoTrack, order)}
               [] OTHER ->
             CASE modes.shuffle = "off" -> {Pick(far, o)}
               [] modes.shuffle = "albums" /\ left = {} /\ modes.repeat = "all" -> {Pick(Minimal(r, list), r) : r \in Reshuffled}
               [] OTHER -> {Pick(MinimalOrNone(o, left), o)}
        BY <1>10, <1>12, <2>2
      <3>2. CASE queue # << >>
        BY <1>8, <3>1, <3>2
      <3>3. CASE queue = << >> /\ list = {}
        BY <1>8, <3>1, <3>3
      <3>4. CASE queue = << >> /\ list # {}
        <4>1. NextAlbum(from) =
               CASE modes.shuffle = "off" -> {Pick(far, o)}
                 [] modes.shuffle = "albums" /\ left = {} /\ modes.repeat = "all" -> {Pick(Minimal(r, list), r) : r \in Reshuffled}
                 [] OTHER -> {Pick(MinimalOrNone(o, left), o)}
          BY <3>1, <3>4
        <4>2. CASE modes.shuffle = "off"
          BY <1>8, <3>4, <4>1, <4>2
        <4>3. CASE modes.shuffle # "off"
          BY <1>8, <3>4, <4>1, <4>3
        <4> QED
          BY <4>2, <4>3
      <3> QED
        BY <3>2, <3>3, <3>4
    <2> QED
      BY <2>1, <2>2
  <1> QED
    BY <1>11, <1>12

LEMMA PrevAlbumIn ==
  ASSUME SelInv, NEW from \in Track
  PROVE  PrevAlbum(from) \subseteq PicksOf(Answer)
  <1> DEFINE curr  == InList(from)
             heard == list \cap order.played
             lower == {t \in heard : order.rating[t] < order.rating[curr]}
             back  == IF Before(curr) = NoTrack THEN Last1(list) ELSE Before(curr)
             found == CASE modes.shuffle = "off" -> RunStart(back)
                        [] modes.shuffle = "albums" /\ curr = NoTrack -> MaximalOrNone(order, heard)
                        [] modes.shuffle = "albums" /\ curr # NoTrack /\ RunStart(curr) # curr ->
                             RunStart(curr)
                        [] OTHER -> MaximalOrNone(order, lower)
             o == Unmark(order, UNION {RunFrom(t) : t \in {curr, found} \cap list})
  <1>0. /\ list \in SUBSET Track /\ order \in OrderOf(list)
        /\ modes.shuffle \in {"off", "tracks", "albums", "random"}
    BY ModeValues DEF SelInv, ListTyped
  <1>1. o \in OrderOf(list)
    BY <1>0, MarkedTyped
  <1>2. curr \in list \cup {NoTrack}
    BY <1>0, InPlaylist
  <1>3. heard \in SUBSET list /\ lower \in SUBSET list
    OBVIOUS
  <1>4. list # {} => back \in list
    BY <1>0, InPlaylist
  <1> HIDE DEF curr, heard, lower, back
  <1>5. /\ MaximalOrNone(order, heard) \in Answer
        /\ MaximalOrNone(order, lower) \in Answer
    BY <1>0, <1>3, MaximalIn DEF MaximalOrNone, OrderOf, Answer
  <1>6. curr # NoTrack => RunStart(curr) \in Answer
    BY <1>0, <1>2, RunStartIn DEF Answer
  <1>7. list # {} => RunStart(back) \in Answer
    BY <1>0, <1>4, RunStartIn DEF Answer
  <1>8. list # {} => found \in Answer
    <2>1. CASE modes.shuffle = "off"
      BY <1>7, <2>1
    <2>2. CASE modes.shuffle = "albums" /\ curr = NoTrack
      BY <1>5, <2>2
    <2>3. CASE modes.shuffle = "albums" /\ curr # NoTrack /\ RunStart(curr) # curr
      BY <1>6, <2>3
    <2>4. CASE ~ \/ modes.shuffle = "off"
                 \/ modes.shuffle = "albums" /\ curr = NoTrack
                 \/ modes.shuffle = "albums" /\ curr # NoTrack /\ RunStart(curr) # curr
      BY <1>5, <2>4
    <2> QED
      BY <2>1, <2>2, <2>3, <2>4
  <1>9. (modes.shuffle = "albums" /\ curr = NoTrack) => found \in Answer
    BY <1>5
  <1> HIDE DEF found, o
  <1>10. /\ Pick(NoTrack, order) \in PicksOf(Answer)
         /\ Pick(Crash, order) \in PicksOf(Answer)
         /\ list # {} => Pick(found, o) \in PicksOf(Answer)
    <2>1. NoTrack \in Answer /\ Crash \in Answer
      BY DEF Answer
    <2> QED
      BY <1>0, <1>1, <1>8, <2>1, Answers
  <1>11. PrevTrack(from, order, Context) \subseteq PicksOf(Answer)
    BY <1>0, ContextTyped, PrevTrackIn, PicksAnswer
  <1>12. PrevAlbum(from) =
           CASE modes.shuffle \in {"tracks", "random"} -> PrevTrack(from, order, Context)
             [] modes.shuffle \in {"off", "albums"} /\ list = {} -> {Pick(NoTrack, order)}
             [] modes.shuffle = "off" /\ list # {} /\ curr = NoTrack -> {Pick(Crash, order)}
             [] OTHER -> {Pick(found, o)}
    BY DEF PrevAlbum, curr, heard, lower, back, found, o
  <1>13. CASE modes.shuffle \in {"tracks", "random"}
    BY <1>11, <1>12, <1>13
  <1>14. CASE modes.shuffle \in {"off", "albums"} /\ list = {}
    BY <1>10, <1>12, <1>14
  <1>15. CASE modes.shuffle = "off" /\ list # {} /\ curr = NoTrack
    BY <1>10, <1>12, <1>15
  <1>16. CASE \/ modes.shuffle = "off" /\ list # {} /\ curr # NoTrack
              \/ modes.shuffle = "albums" /\ list # {}
    BY <1>10, <1>12, <1>16
  <1> QED
    BY <1>0, <1>13, <1>14, <1>15, <1>16

LEMMA AlbumWithDirectionIn ==
  ASSUME SelInv, NEW dir \in {"next", "prev", "random"}
  PROVE  AlbumWithDirection(dir) \subseteq PicksOf(Answer)
  <1>0. /\ list \in SUBSET Track /\ order \in OrderOf(list)
        /\ Origin \in Track \cup {NoTrack}
    BY DEF SelInv, ListTyped, TracksTyped, Origin
  <1>1. CASE dir = "random"
    <2>1. \A a \in {RunStart(t) : t \in list} \cup {Crash} : a \in Answer
      BY <1>0, RunStartIn DEF Answer
    <2>2. \A a \in {RunStart(t) : t \in list} \cup {Crash} : Pick(a, order) \in PicksOf(Answer)
      BY <1>0, <2>1, Answers
    <2>3. Pick(NoTrack, order) \in PicksOf(Answer)
      BY <1>0, Answers DEF Answer
    <2>4. CASE list = {}
      BY <1>1, <2>3, <2>4 DEF AlbumWithDirection
    <2>5. CASE list # {}
      BY <1>1, <2>2, <2>5 DEF AlbumWithDirection
    <2> QED
      BY <2>4, <2>5
  <1>2. CASE dir # "random" /\ Origin = NoTrack
    BY <1>2, TrackWithDirectionIn DEF AlbumWithDirection
  <1>3. CASE dir = "next" /\ Origin # NoTrack
    BY <1>0, <1>3, NextAlbumIn DEF AlbumWithDirection
  <1>4. CASE dir = "prev" /\ Origin # NoTrack
    BY <1>0, <1>4, PrevAlbumIn DEF AlbumWithDirection
  <1> QED
    BY <1>1, <1>2, <1>3, <1>4

-----------------------------------------------------------------------------
(* The play queue.                                                         *)

LEMMA PoppedTyped ==
  ASSUME QueueTyped, NEW t
  PROVE  /\ Popped(queue, t) \in Seq(list)
         /\ Len(Popped(queue, t)) <= PLAYQUEUE_SIZE
         /\ \A i \in DOMAIN Popped(queue, t) :
              \E j \in DOMAIN queue : Popped(queue, t)[i] = queue[j]
         /\ Popped(<< >>, t) = << >>
  <1>1. CASE queue # << >> /\ Head(queue) = t
    <2>1. Popped(queue, t) = Tail(queue)
      BY <1>1 DEF Popped
    <2>2. /\ Tail(queue) \in Seq(list) /\ Len(Tail(queue)) = Len(queue) - 1
          /\ \A i \in 1 .. Len(Tail(queue)) : Tail(queue)[i] = queue[i + 1]
      BY <1>1, HeadTailProperties DEF QueueTyped
    <2>3. \A i \in DOMAIN Tail(queue) : i + 1 \in DOMAIN queue /\ Tail(queue)[i] = queue[i + 1]
      BY <2>2, LenProperties DEF QueueTyped
    <2>4. Len(Tail(queue)) <= PLAYQUEUE_SIZE
      BY <2>2, LenProperties, Constants DEF QueueTyped
    <2> QED
      BY <2>1, <2>2, <2>3, <2>4 DEF Popped
  <1>2. CASE ~ (queue # << >> /\ Head(queue) = t)
    BY <1>2 DEF Popped, QueueTyped
  <1> QED
    BY <1>1, <1>2, SMTT(30)

(* Removing a track from the queue leaves the others, and no more.         *)
LEMMA WithoutTyped ==
  ASSUME NEW S, NEW q \in Seq(S), NEW t
  PROVE  /\ Without(q, t) \in Seq(S)
         /\ Len(Without(q, t)) <= Len(q)
         /\ \A i \in DOMAIN Without(q, t) : Without(q, t)[i] \in S \ {t}
  <1> DEFINE kept   == {n \in DOMAIN q : q[n] # t}
             nth(i) == CHOOSE n \in kept : Cardinality(kept \cap 1 .. n) = i
             c      == Cardinality(kept)
  <1>1. Len(q) \in Nat /\ DOMAIN q = 1 .. Len(q)
    BY LenProperties
  <1>2. kept \in SUBSET (1 .. Len(q))
    BY <1>1
  <1>3. \A n \in kept : q[n] \in S \ {t}
    BY <1>1, ElementOfSeq
  <1>4. Without(q, t) = [i \in 1 .. c |-> q[nth(i)]]
    BY DEF Without
  <1> HIDE DEF kept
  <1>5. c \in Nat /\ c <= Len(q)
    <2>1. IsFiniteSet(1 .. Len(q)) /\ Cardinality(1 .. Len(q)) = Len(q)
      BY <1>1, FS_Interval, SMTT(30)
    <2> QED
      BY <1>2, <2>1, FS_Subset, FS_CardinalityType
  <1>6. \A i \in 1 .. c : nth(i) \in kept
    BY <1>1, <1>2, NthOfSet
  <1>7. \A i \in 1 .. c : q[nth(i)] \in S \ {t}
    BY <1>3, <1>6
  <1> HIDE DEF c, nth
  <1>8. /\ Without(q, t) \in Seq(S)
        /\ Len(Without(q, t)) = c
        /\ DOMAIN Without(q, t) = 1 .. c
    <2>1. \A i \in 1 .. c : q[nth(i)] \in S
      BY <1>7
    <2> QED
      BY <1>4, <1>5, <2>1, IsASeq, LenProperties
  <1> QED
    BY <1>4, <1>5, <1>7, <1>8

-----------------------------------------------------------------------------
(* Playing and stopping.                                                   *)

(* A track is played at once: everything about the one before is dropped.  *)
LEMMA PlayTrackKeeps ==
  ASSUME SelInv, NEW t \in Track, NEW o \in OrderOf(list), NEW q \in {queue, << >>},
         PlayTrack(t, o, q), handled' \in BOOLEAN,
         UNCHANGED <<edits, conf, modes, stop_after, fate>>
  PROVE  SelInv'
  <1>1. ListTyped'
    <2>1. list \in SUBSET Track /\ Mark(o, {t}) \in OrderOf(list)
      BY MarkedTyped DEF SelInv, ListTyped
    <2>2. order' = Mark(o, {t}) /\ list' = list
      BY DEF PlayTrack, edits
    <2> QED
      BY <2>1, <2>2 DEF ListTyped
  <1>2. QueueTyped' /\ RemovedForgotten'
    <2>1. /\ queue' \in Seq(list) /\ Len(queue') <= PLAYQUEUE_SIZE
          /\ \A i \in DOMAIN queue' : \E j \in DOMAIN queue : queue'[i] = queue[j]
      <3>1. CASE q = queue
        BY <3>1, PoppedTyped DEF SelInv, PlayTrack
      <3>2. CASE q = << >>
        <4>1. queue' = << >>
          BY <3>2, PoppedTyped DEF SelInv, PlayTrack
        <4> QED
          BY <4>1, Constants
      <3> QED
        BY <3>1, <3>2
    <2>2. removing' = removing /\ list' = list /\ next_track_to_play' = NoTrack
      BY DEF edits, PlayTrack
    <2> QED
      BY <2>1, <2>2 DEF SelInv, QueueTyped, RemovedForgotten
  <1>3. ModesTyped'
    BY DEF SelInv, ModesTyped
  <1>4. TracksTyped' /\ OutputPlays' /\ FallbackInPlaylist'
    BY TrackFacts DEF SelInv, TracksTyped, OutputPlays, FallbackInPlaylist, PlayTrack
  <1>5. ControlTyped'
    BY DEF SelInv, ControlTyped, PlayTrack, edits
  <1>6. AheadTyped'
    BY Constants DEF SelInv, AheadTyped, PlayTrack
  <1> QED
    BY <1>1, <1>2, <1>3, <1>4, <1>5, <1>6 DEF SelInv

(* Playback stops: the streaming track may remain, or not.                 *)
LEMMA StopKeeps ==
  ASSUME SelInv, StopPlayback, order' \in OrderOf(list),
         queue' \in {queue, << >>},
         last_played' \in {last_played, NoTrack},
         streaming_track' \in {streaming_track, NoTrack},
         handled' \in BOOLEAN,
         UNCHANGED <<choice, edits, conf, modes, stop_after, fate>>
  PROVE  SelInv'
  <1>1. ListTyped'
    BY DEF SelInv, ListTyped, edits, OrderOf
  <1>2. QueueTyped' /\ RemovedForgotten'
    <2>1. list' = list /\ removing' = removing /\ next_track_to_play' = next_track_to_play
      BY DEF edits, choice
    <2>2. CASE queue' = queue
      BY <2>1, <2>2 DEF SelInv, QueueTyped, RemovedForgotten
    <2>3. CASE queue' = << >>
      BY <2>1, <2>3, Constants DEF SelInv, QueueTyped, RemovedForgotten
    <2> QED
      BY <2>2, <2>3
  <1>3. ModesTyped' /\ FallbackInPlaylist'
    BY DEF SelInv, ModesTyped, FallbackInPlaylist, choice, edits
  <1>4. TracksTyped' /\ OutputPlays' /\ ControlTyped'
    BY DEF SelInv, TracksTyped, OutputPlays, ControlTyped, StopPlayback, choice, edits
  <1>5. AheadTyped'
    BY Constants DEF SelInv, AheadTyped, StopPlayback
  <1> QED
    BY <1>1, <1>2, <1>3, <1>4, <1>5 DEF SelInv

LEMMA GoKeeps ==
  ASSUME SelInv, NEW p \in PicksOf(Answer), NEW dir, Go(p, dir),
         handled' \in BOOLEAN, UNCHANGED <<edits, conf, modes, stop_after>>
  PROVE  SelInv'
  <1>0. p.track \in Answer /\ p.order \in OrderOf(list) /\ list \in SUBSET Track
    BY DEF PicksOf, SelInv, ListTyped
  <1>1. CASE p.track = NoTrack
    <2>1. StopPlayback /\ last_played' = NoTrack /\ order' = p.order
          /\ UNCHANGED <<choice, streaming_track, queue, fate>>
      BY <1>1, TrackFacts DEF Go
    <2> QED
      BY <1>0, <2>1, StopKeeps
  <1>2. CASE p.track \in {Spinning, Crash}
    <2>1. fate' \in {"spinning", "crashed"} /\ UNCHANGED <<choice, origin, stream, order, queue>>
      BY <1>2, TrackFacts DEF Go
    <2>2. ListTyped' /\ QueueTyped' /\ RemovedForgotten' /\ FallbackInPlaylist'
      BY <2>1 DEF SelInv, ListTyped, QueueTyped, RemovedForgotten, FallbackInPlaylist,
                  choice, edits, OrderOf
    <2>3. ModesTyped' /\ TracksTyped' /\ ControlTyped' /\ OutputPlays' /\ AheadTyped'
      BY <2>1 DEF SelInv, ModesTyped, TracksTyped, ControlTyped, OutputPlays, AheadTyped,
                  choice, origin, stream, edits
    <2> QED
      BY <2>2, <2>3 DEF SelInv
  <1>3. CASE p.track \in Track
    <2>1. PICK o \in IF dir = "random" THEN Rebuilt(p.track) ELSE {p.order} :
            PlayTrack(p.track, o, queue) /\ UNCHANGED fate
      BY <1>3, TrackFacts DEF Go
    <2>2. o \in OrderOf(list)
      BY <1>0, RebuiltTyped
    <2> QED
      BY <1>3, <2>1, <2>2, PlayTrackKeeps
  <1> QED
    BY <1>0, <1>1, <1>2, <1>3 DEF Answer

-----------------------------------------------------------------------------
(* Streaming the next track.                                               *)

LEMMA StreamTyped ==
  ASSUME ListTyped, NEW t \in Track \cup {NoTrack}, NEW o \in OrderOf(list),
         NEW before \in Seq(Track), Len(before) <= AHEAD, Stream(t, o, before)
  PROVE  /\ streaming_track' = t
         /\ order' \in OrderOf(list)
         /\ AheadTyped'
  <1>1. order' \in OrderOf(list)
    BY MarkedTyped DEF Stream, ListTyped
  <1>2. Len(before) \in Nat
    BY LenProperties
  <1>3. CASE t = NoTrack
    BY <1>2, <1>3, Constants DEF Stream, AheadTyped
  <1>4. CASE t # NoTrack
    <2>1. ahead' = Append(before, t) /\ streaming_track' = t
      BY <1>4 DEF Stream
    <2>2. /\ Append(before, t) \in Seq(Track) /\ Len(Append(before, t)) = Len(before) + 1
          /\ Append(before, t)[Len(before) + 1] = t
      BY <1>4, AppendProperties
    <2> QED
      BY <1>1, <1>2, <1>4, <2>1, <2>2, Constants DEF AheadTyped
  <1> QED
    BY <1>1, <1>3, <1>4 DEF Stream

(* streamer_next streams a track of the playlist, or the playing one, or   *)
(* nothing.                                                                *)
LEMMA StreamNextTyped ==
  ASSUME SelInv, NEW p \in PicksOf(list \cup {NoTrack}), NEW m,
         m.next \in list \cup {NoTrack},
         m.shuffle \in {"off", "tracks", "albums", "random"},
         NEW before \in Seq(Track), Len(before) <= AHEAD, StreamNext(p, m, before)
  PROVE  /\ streaming_track' \in list \cup {NoTrack, playing_track}
         /\ streaming_track' \in Track \cup {NoTrack}
         /\ order' \in OrderOf(list)
         /\ AheadTyped'
  <1> DEFINE t == IF playing_track # NoTrack /\ m.repeat = "single"
                  THEN playing_track ELSE p.track
  <1>1. /\ list \in SUBSET Track /\ queue \in Seq(list) /\ ListTyped
        /\ playing_track \in Track \cup {NoTrack}
        /\ p.track \in list \cup {NoTrack} /\ p.order \in OrderOf(list)
    BY DEF SelInv, ListTyped, QueueTyped, TracksTyped, PicksOf
  <1>2. t \in list \cup {NoTrack, playing_track} /\ t \in Track \cup {NoTrack}
    BY <1>1
  <1>3. IF t # NoTrack
        THEN Stream(t, p.order, before)
        ELSE \E q \in NextTrack(m.streaming, p.order, m) : Stream(q.track, q.order, before)
    BY DEF StreamNext
  <1> HIDE DEF t
  <1>4. CASE t # NoTrack
    BY <1>1, <1>2, <1>3, <1>4, StreamTyped
  <1>5. CASE t = NoTrack
    <2>1. PICK q \in NextTrack(m.streaming, p.order, m) : Stream(q.track, q.order, before)
      BY <1>3, <1>5
    <2>2. q \in PicksOf(list \cup {NoTrack})
      BY <1>1, NextTrackIn
    <2>3. q.track \in list \cup {NoTrack} /\ q.order \in OrderOf(list)
      BY <2>2 DEF PicksOf
    <2>4. q.track \in Track \cup {NoTrack}
      BY <1>1, <2>3
    <2>5. streaming_track' = q.track /\ order' \in OrderOf(list) /\ AheadTyped'
      BY <1>1, <2>1, <2>3, <2>4, StreamTyped
    <2> QED
      BY <2>3, <2>4, <2>5
  <1> QED
    BY <1>4, <1>5

(* What a flush keeps is the beginning of what was streamed.               *)
LEMMA KeptTyped ==
  ASSUME AheadTyped
  PROVE  /\ Kept \in Seq(Track)
         /\ Len(Kept) <= Len(ahead)
         /\ Kept # ahead => Len(Kept) < Len(ahead)
         /\ \A i \in 1 .. Len(Kept) : Kept[i] = playing_track /\ Kept[i] = ahead[i]
  <1> DEFINE P(k) == /\ \A i \in 1 .. k : ahead[i] = playing_track
                     /\ k < Len(ahead) => ahead[k + 1] # playing_track
             F == {i \in 1 .. Len(ahead) : ahead[i] # playing_track}
             k == CHOOSE k \in 0 .. Len(ahead) : P(k)
  <1>1. Len(ahead) \in Nat /\ ahead \in Seq(Track)
    BY LenProperties DEF AheadTyped
  <1>2. \E j \in 0 .. Len(ahead) : P(j)
    <2>1. CASE F = {}
      <3>1. P(Len(ahead))
        BY <1>1, <2>1
      <3> QED
        BY <1>1, <3>1
    <2>2. CASE F # {}
      <3>1. F \in SUBSET Nat
        OBVIOUS
      <3>2. PICK n \in F : \A x \in F : n <= x
        <4> HIDE DEF F
        <4> QED
          BY <2>2, <3>1, MinOfNumbers
      <3>3. n - 1 \in 0 .. Len(ahead) /\ n - 1 + 1 = n
        BY <1>1
      <3>4. P(n - 1)
        BY <1>1, <3>2, <3>3
      <3> QED
        BY <3>3, <3>4
    <2> QED
      BY <2>1, <2>2
  <1>3. k \in 0 .. Len(ahead) /\ P(k)
    BY <1>2
  <1>4. Kept = SubSeq(ahead, 1, k)
    BY DEF Kept
  <1> HIDE DEF k
  <1>5. /\ SubSeq(ahead, 1, k) \in Seq(Track) /\ Len(SubSeq(ahead, 1, k)) = k
        /\ \A i \in 1 .. k : SubSeq(ahead, 1, k)[i] = ahead[i]
    BY <1>1, <1>3, SubSeqProperties
  <1>6. k = Len(ahead) => Kept = ahead
    BY <1>1, <1>4, SubSeqFull
  <1> QED
    BY <1>1, <1>3, <1>4, <1>5, <1>6

(* What a choice is made from.                                             *)
ContextType ==
    [shuffle : {"off", "tracks", "albums", "random"}, repeat : RepeatModes,
     next : list \cup {NoTrack}, prev : Track \cup {NoTrack},
     streaming : Track \cup {NoTrack}]

LEMMA ContextsTyped ==
  ASSUME SelInv
  PROVE  /\ Context \in ContextType
         /\ [Context EXCEPT !.shuffle = conf.shuffle, !.repeat = conf.repeat] \in ContextType
  BY ModeValues DEF SelInv, Context, ContextType, FallbackInPlaylist, TracksTyped, ModesTyped

(* After a requeue nothing is streamed that is neither in the playlist nor *)
(* being heard, if something is being heard.                               *)
LEMMA RequeueTyped ==
  ASSUME SelInv, NEW o \in OrderOf(list), NEW m \in ContextType, Requeue(o, m)
  PROVE  /\ order' \in OrderOf(list)
         /\ AheadTyped'
         /\ streaming_track' \in Track \cup {NoTrack}
         /\ playing_track # NoTrack =>
              streaming_track' \in list \cup {NoTrack, playing_track}
         /\ playing_track = NoTrack => streaming_track' = streaming_track
  <1>1. CASE playing_track = NoTrack
    <2>1. order' = o /\ UNCHANGED <<streaming_track, ahead>>
      BY <1>1 DEF Requeue
    <2> QED
      BY <1>1, <2>1 DEF SelInv, AheadTyped, TracksTyped
  <1>2. CASE playing_track # NoTrack /\ playing_track = streaming_track
    <2>1. /\ order' = o
          /\ ahead' = IF Kept = ahead THEN ahead ELSE Append(Kept, streaming_track)
          /\ streaming_track' = streaming_track
      BY <1>2 DEF Requeue
    <2>2. AheadTyped /\ streaming_track \in Track
      BY <1>2 DEF SelInv, TracksTyped
    <2>3. AheadTyped'
      <3>1. CASE Kept = ahead
        BY <2>1, <2>2, <3>1 DEF AheadTyped
      <3>2. CASE Kept # ahead
        <4>1. Kept \in Seq(Track) /\ Len(Kept) < Len(ahead)
          BY <2>2, <3>2, KeptTyped
        <4>2. /\ ahead' \in Seq(Track) /\ Len(ahead') = Len(Kept) + 1
              /\ ahead'[Len(Kept) + 1] = streaming_track
          BY <2>1, <2>2, <3>2, <4>1, AppendProperties
        <4>3. Len(Kept) \in Nat /\ Len(ahead) \in Nat /\ Len(ahead) <= AHEAD + 1
          BY <2>2, <4>1, LenProperties DEF AheadTyped
        <4> QED
          BY <1>2, <2>1, <4>1, <4>2, <4>3, Constants DEF AheadTyped
      <3> QED
        BY <3>1, <3>2
    <2> QED
      BY <1>2, <2>1, <2>2, <2>3
  <1>3. CASE playing_track # NoTrack /\ playing_track # streaming_track
    <2> DEFINE now == [m EXCEPT !.streaming = playing_track]
    <2>1. StreamNext(Pick(NoTrack, o), now, Kept)
      BY <1>3 DEF Requeue
    <2>2. Pick(NoTrack, o) \in PicksOf(list \cup {NoTrack})
      BY Picked
    <2>3. /\ now.next \in list \cup {NoTrack}
          /\ now.shuffle \in {"off", "tracks", "albums", "random"}
      BY DEF ContextType
    <2>4. AheadTyped
      BY DEF SelInv
    <2>5. Len(ahead) \in Nat /\ Len(Kept) \in Nat /\ Kept \in Seq(Track)
      BY <2>4, KeptTyped, LenProperties DEF AheadTyped
    <2>6. Len(Kept) <= AHEAD
      <3>1. CASE streaming_track = NoTrack
        BY <2>4, <2>5, <3>1, KeptTyped, Constants DEF AheadTyped
      <3>2. CASE streaming_track # NoTrack
        <4>1. CASE Kept = ahead /\ ahead # << >>
          <5>1. Len(ahead) \in 1 .. Len(Kept)
            BY <2>4, <2>5, <4>1, EmptySeq DEF AheadTyped
          <5>2. ahead[Len(ahead)] = playing_track
            BY <2>4, <5>1, KeptTyped
          <5>3. ahead[Len(ahead)] = streaming_track
            BY <2>4, <3>2, <4>1 DEF AheadTyped
          <5> QED
            BY <1>3, <5>2, <5>3
        <4>2. CASE ahead = << >>
          <5>1. Len(Kept) <= 0
            BY <2>4, <2>5, <4>2, KeptTyped
          <5> QED
            BY <2>5, <5>1, Constants
        <4>3. CASE Kept # ahead
          BY <2>4, <2>5, <4>3, KeptTyped, Constants DEF AheadTyped
        <4> QED
          BY <4>1, <4>2, <4>3
      <3> QED
        BY <3>1, <3>2
    <2> HIDE DEF now
    <2> QED
      BY <1>3, <2>1, <2>2, <2>3, <2>5, <2>6, StreamNextTyped
  <1> QED
    BY <1>1, <1>2, <1>3

-----------------------------------------------------------------------------
(* Every step keeps the invariant.                                         *)

LEMMA RequestsKeep ==
  ASSUME SelInv, \/ \E t \in Track : PlayIndex(t) \/ PlayCurrent(t)
                 \/ Stop
                 \/ \E dir \in {"next", "prev", "random"} : PlayNext(dir) \/ PlayNextAlbum(dir)
  PROVE  SelInv'
  <1>0. list \in SUBSET Track /\ order \in OrderOf(list)
    BY DEF SelInv, ListTyped
  <1>1. ASSUME NEW t \in Track, PlayIndex(t) PROVE SelInv'
    <2>1. PICK o \in Rebuilt(t) : PlayTrack(t, o, << >>)
      BY <1>1 DEF PlayIndex
    <2>2. o \in OrderOf(list)
      BY <1>0, RebuiltTyped
    <2>3. handled' \in BOOLEAN /\ UNCHANGED <<edits, conf, modes, stop_after, fate>>
      BY <1>1 DEF PlayIndex, Requests
    <2> QED
      BY <2>1, <2>2, <2>3, PlayTrackKeeps
  <1>2. ASSUME NEW t \in Track, PlayCurrent(t) PROVE SelInv'
    <2>1. PlayTrack(t, order, queue) /\ handled' \in BOOLEAN
          /\ UNCHANGED <<edits, conf, modes, stop_after, fate>>
      BY <1>2 DEF PlayCurrent, Requests
    <2> QED
      BY <1>0, <2>1, PlayTrackKeeps
  <1>3. CASE Stop
    <2>1. order' \in OrderOf(list)
      BY <1>0, <1>3, ReshuffledTyped DEF Stop
    <2>2. /\ StopPlayback /\ queue' = << >> /\ last_played' \in {last_played, NoTrack}
          /\ streaming_track' = NoTrack /\ handled' \in BOOLEAN
          /\ UNCHANGED <<choice, edits, conf, modes, stop_after, fate>>
      BY <1>3 DEF Stop, Requests
    <2> QED
      BY <2>1, <2>2, StopKeeps
  <1>4. ASSUME NEW dir \in {"next", "prev", "random"}, PlayNext(dir) PROVE SelInv'
    <2>1. PICK p \in TrackWithDirection(dir) : Go(p, dir)
      BY <1>4 DEF PlayNext
    <2>2. p \in PicksOf(Answer)
      BY TrackWithDirectionIn
    <2>3. handled' \in BOOLEAN /\ UNCHANGED <<edits, conf, modes, stop_after>>
      BY <1>4 DEF PlayNext, Requests
    <2> QED
      BY <2>1, <2>2, <2>3, GoKeeps
  <1>5. ASSUME NEW dir \in {"next", "prev", "random"}, PlayNextAlbum(dir) PROVE SelInv'
    <2>1. PICK p \in AlbumWithDirection(dir) : Go(p, dir)
      BY <1>5 DEF PlayNextAlbum
    <2>2. p \in PicksOf(Answer)
      BY AlbumWithDirectionIn
    <2>3. handled' \in BOOLEAN /\ UNCHANGED <<edits, conf, modes, stop_after>>
      BY <1>5 DEF PlayNextAlbum, Requests
    <2> QED
      BY <2>1, <2>2, <2>3, GoKeeps
  <1> QED
    BY <1>1, <1>2, <1>3, <1>4, <1>5

(* Where the streamer goes on by itself.                                   *)
LEMMA StreamingKeeps ==
  ASSUME SelInv, order' \in OrderOf(list), AheadTyped',
         streaming_track' \in Track \cup {NoTrack},
         modes' \in [shuffle : ShuffleModes, repeat : RepeatModes],
         stop_after' \in SUBSET {"queue", "album"},
         handled' \in BOOLEAN, deleted' \in BOOLEAN,
         UNCHANGED <<choice, origin, playing_track, output, list, removing, conf, queue, fate>>
  PROVE  SelInv'
  <1>1. ListTyped' /\ QueueTyped' /\ RemovedForgotten' /\ FallbackInPlaylist'
    BY DEF SelInv, ListTyped, QueueTyped, RemovedForgotten, FallbackInPlaylist, choice, OrderOf
  <1>2. ModesTyped' /\ TracksTyped' /\ ControlTyped' /\ OutputPlays'
    BY DEF SelInv, ModesTyped, TracksTyped, ControlTyped, OutputPlays, choice, origin
  <1> QED
    BY <1>1, <1>2 DEF SelInv

LEMMA EndOfStreamTyped ==
  ASSUME SelInv, EndOfStream
  PROVE  /\ order' \in OrderOf(list) /\ AheadTyped'
         /\ streaming_track' \in Track \cup {NoTrack}
         /\ streaming_track' \in list \cup {NoTrack, playing_track}
         /\ stop_after' \in SUBSET {"queue", "album"}
  <1>0. /\ ListTyped /\ list \in SUBSET Track /\ order \in OrderOf(list) /\ queue \in Seq(list)
        /\ ahead \in Seq(Track) /\ stop_after \in SUBSET {"queue", "album"}
        /\ Len(ahead) < AHEAD
    BY DEF SelInv, ListTyped, QueueTyped, AheadTyped, ModesTyped, EndOfStream
  <1>1. Len(ahead) <= AHEAD
    BY <1>0, LenProperties, Constants
  <1>2. ASSUME NEW o \in OrderOf(list), NEW options, StopStreaming(o, options)
        PROVE  /\ order' \in OrderOf(list) /\ AheadTyped' /\ streaming_track' = NoTrack
               /\ stop_after' \in SUBSET {"queue", "album"}
    <2>1. (IF RESET THEN MarkPlaying(o) ELSE o) \in OrderOf(list)
      BY <1>0, MarkedTyped
    <2>2. Stream(NoTrack, IF RESET THEN MarkPlaying(o) ELSE o, ahead)
      BY <1>2 DEF StopStreaming
    <2>3. stop_after' \in SUBSET {"queue", "album"}
      BY <1>0, <1>2 DEF StopStreaming, OptionsReset
    <2> HIDE DEF StopStreaming
    <2> QED
      BY <1>0, <1>1, <2>1, <2>2, <2>3, StreamTyped
  <1>3. CASE StopAfterQueue
    <2>1. StopStreaming(order, {"queue"})
      BY <1>3 DEF EndOfStream
    <2> QED
      BY <1>0, <1>2, <2>1
  <1>4. CASE ~ StopAfterQueue
    <2>1. PICK p \in NextTrack(streaming_track, order, Context) :
            IF StopAfterAlbum(p.track)
            THEN StopStreaming(p.order, {"album"})
            ELSE StreamNext(p, Context, ahead) /\ UNCHANGED stop_after
      BY <1>4 DEF EndOfStream
    <2>2. p \in PicksOf(list \cup {NoTrack})
      BY <1>0, ContextTyped, NextTrackIn
    <2>3. p.order \in OrderOf(list)
      BY <2>2 DEF PicksOf
    <2>4. CASE StopAfterAlbum(p.track)
      BY <1>2, <2>1, <2>3, <2>4
    <2>5. CASE ~ StopAfterAlbum(p.track)
      <3>1. StreamNext(p, Context, ahead) /\ stop_after' = stop_after
        BY <2>1, <2>5
      <3> QED
        BY <1>0, <1>1, <2>2, <3>1, ContextTyped, StreamNextTyped
    <2> QED
      BY <2>4, <2>5
  <1> QED
    BY <1>3, <1>4

LEMMA PlaybackKeeps ==
  ASSUME SelInv, Playback
  PROVE  SelInv'
  <1>1. CASE EndOfStream
    <2>1. /\ UNCHANGED <<choice, origin, playing_track, output, list, removing, conf, queue, fate>>
          /\ modes' \in [shuffle : ShuffleModes, repeat : RepeatModes]
          /\ handled' \in BOOLEAN /\ deleted' \in BOOLEAN
      BY <1>1 DEF EndOfStream, Streaming, edits, SelInv, ModesTyped, ControlTyped
    <2> QED
      BY <1>1, <2>1, EndOfStreamTyped, StreamingKeeps
  <1>2. CASE Announce
    <2>1. /\ ahead # << >> /\ playing_track' = Head(ahead) /\ last_played' = Head(ahead)
          /\ queue' = Popped(queue, Head(ahead)) /\ ahead' = Tail(ahead)
          /\ UNCHANGED <<choice, buffering_track, streaming_track, output, edits,
                         user, order, modes, fate, handled>>
      BY <1>2 DEF Announce
    <2>2. /\ ahead \in Seq(Track) /\ Head(ahead) \in Track
          /\ Tail(ahead) \in Seq(Track) /\ Len(Tail(ahead)) = Len(ahead) - 1
          /\ \A i \in 1 .. Len(Tail(ahead)) : Tail(ahead)[i] = ahead[i + 1]
          /\ Len(ahead) \in Nat
      BY <2>1, HeadTailProperties, LenProperties DEF SelInv, AheadTyped
    <2>3. AheadTyped'
      <3>1. Len(ahead') <= AHEAD + 1 /\ (streaming_track' = NoTrack => Len(ahead') <= AHEAD)
        BY <2>1, <2>2, Constants DEF SelInv, AheadTyped
      <3>2. ahead' # << >> => ahead'[Len(ahead')] = ahead[Len(ahead)]
        <4> SUFFICES ASSUME ahead' # << >> PROVE ahead'[Len(ahead')] = ahead[Len(ahead)]
          OBVIOUS
        <4>1. Len(ahead') \in Nat /\ Len(ahead') > 0
          BY <2>1, <2>2, EmptySeq, LenProperties
        <4> QED
          BY <2>1, <2>2, <4>1
      <3> QED
        BY <2>1, <2>2, <3>1, <3>2 DEF SelInv, AheadTyped
    <2>4. ListTyped' /\ ModesTyped' /\ FallbackInPlaylist' /\ ControlTyped'
      BY <2>1 DEF SelInv, ListTyped, ModesTyped, FallbackInPlaylist, ControlTyped, choice,
                  edits, user, OrderOf
    <2>5. TracksTyped' /\ OutputPlays'
      BY <2>1, <2>2, TrackFacts DEF SelInv, TracksTyped, OutputPlays, choice
    <2>6. QueueTyped' /\ RemovedForgotten'
      <3>1. QueueTyped
        BY DEF SelInv
      <3>2. /\ queue' \in Seq(list) /\ Len(queue') <= PLAYQUEUE_SIZE
            /\ \A i \in DOMAIN queue' : \E j \in DOMAIN queue : queue'[i] = queue[j]
        BY <2>1, <3>1, PoppedTyped
      <3>3. list' = list /\ removing' = removing /\ next_track_to_play' = next_track_to_play
        BY <2>1 DEF edits, choice
      <3> QED
        BY <3>2, <3>3 DEF SelInv, QueueTyped, RemovedForgotten
    <2> QED
      BY <2>3, <2>4, <2>5, <2>6 DEF SelInv
  <1>3. CASE PlaybackEnd
    <2>1. /\ StopPlayback /\ order' = order /\ queue' = queue /\ last_played' = last_played
          /\ streaming_track' = streaming_track /\ handled' = handled
          /\ UNCHANGED <<choice, edits, conf, modes, stop_after, fate>>
      BY <1>3 DEF PlaybackEnd, Streaming, user
    <2>2. order' \in OrderOf(list) /\ handled' \in BOOLEAN
      BY <2>1 DEF SelInv, ListTyped, ControlTyped
    <2> QED
      BY <2>1, <2>2, StopKeeps
  <1> QED
    BY <1>1, <1>2, <1>3 DEF Playback

LEMMA LoopKeeps ==
  ASSUME SelInv, Loop
  PROVE  SelInv'
  <1>0. /\ list \in SUBSET Track /\ order \in OrderOf(list)
        /\ conf \in [shuffle : ShuffleModes, repeat : RepeatModes]
        /\ modes \in [shuffle : ShuffleModes, repeat : RepeatModes]
        /\ stop_after \in SUBSET {"queue", "album"} /\ deleted \in BOOLEAN
        /\ handled \in BOOLEAN
        /\ streaming_track \in Track \cup {NoTrack} /\ AheadTyped
    BY DEF SelInv, ListTyped, ModesTyped, ControlTyped, TracksTyped
  <1>1. CASE ApplyModes
    <2> DEFINE m == [Context EXCEPT !.shuffle = conf.shuffle, !.repeat = conf.repeat]
    <2>1. /\ handled' = FALSE /\ modes' = conf
          /\ UNCHANGED <<choice, origin, playing_track, output, edits, user, queue, fate>>
      BY <1>1 DEF ApplyModes
    <2>2. m \in ContextType
      BY ContextsTyped
    <2> HIDE DEF m
    <2>3. /\ order' \in OrderOf(list) /\ AheadTyped'
          /\ streaming_track' \in Track \cup {NoTrack}
      <3>1. CASE modes = conf
        <4>1. UNCHANGED <<order, streaming_track, ahead>>
          BY <1>1, <3>1 DEF ApplyModes
        <4> QED
          BY <1>0, <4>1 DEF AheadTyped
      <3>2. CASE modes # conf /\ modes.shuffle = conf.shuffle
        <4>1. Requeue(order, m)
          BY <1>1, <3>2 DEF ApplyModes, m
        <4> QED
          BY <1>0, <2>2, <4>1, RequeueTyped
      <3>3. CASE modes # conf /\ modes.shuffle # conf.shuffle
        <4>1. PICK r \in Reshuffled : \E o \in {r, MarkPlaying(r)} :
                Requeue(IF conf.shuffle = "albums" /\ playing_track # NoTrack
                        THEN MarkAlbumUpTo(o, playing_track) ELSE o, m)
          BY <1>1, <3>3 DEF ApplyModes, m
        <4>2. \A o \in {r, MarkPlaying(r)} :
                o \in OrderOf(list) /\ MarkAlbumUpTo(o, playing_track) \in OrderOf(list)
          BY <1>0, ReshuffledTyped, MarkedTyped
        <4> QED
          BY <2>2, <4>1, <4>2, RequeueTyped
      <3> QED
        BY <3>1, <3>2, <3>3
    <2>4. /\ modes' \in [shuffle : ShuffleModes, repeat : RepeatModes]
          /\ stop_after' \in SUBSET {"queue", "album"} /\ deleted' \in BOOLEAN
          /\ handled' \in BOOLEAN
          /\ UNCHANGED <<choice, origin, playing_track, output, list, removing, conf, queue, fate>>
      BY <1>0, <2>1 DEF user, edits
    <2> QED
      BY <2>3, <2>4, StreamingKeeps
  <1>2. CASE TrackDeleted
    <2>1. /\ deleted' = FALSE /\ handled' = TRUE
          /\ UNCHANGED <<choice, origin, playing_track, output, list, removing, user,
                         queue, modes, fate>>
      BY <1>2 DEF TrackDeleted
    <2>2. /\ order' \in OrderOf(list) /\ AheadTyped'
          /\ streaming_track' \in Track \cup {NoTrack}
      <3>1. CASE streaming_track \in {NoTrack, playing_track} \cup list
        <4>1. UNCHANGED <<streaming_track, order, ahead>>
          BY <1>2, <3>1 DEF TrackDeleted
        <4> QED
          BY <1>0, <4>1 DEF AheadTyped
      <3>2. CASE streaming_track \notin {NoTrack, playing_track} \cup list
        <4>1. Requeue(order, Context)
          BY <1>2, <3>2 DEF TrackDeleted
        <4> QED
          BY <1>0, <4>1, ContextsTyped, RequeueTyped
      <3> QED
        BY <3>1, <3>2
    <2>3. /\ modes' \in [shuffle : ShuffleModes, repeat : RepeatModes]
          /\ stop_after' \in SUBSET {"queue", "album"} /\ deleted' \in BOOLEAN
          /\ handled' \in BOOLEAN /\ conf' = conf
      BY <1>0, <2>1 DEF user
    <2> QED
      BY <2>1, <2>2, <2>3, StreamingKeeps
  <1>3. CASE Buffered
    <2>1. /\ buffering_track' = NoTrack
          /\ UNCHANGED <<choice, last_played, stream, edits, user, order, queue, modes, fate,
                         handled>>
      BY <1>3 DEF Buffered, Streaming
    <2>2. ListTyped' /\ QueueTyped' /\ RemovedForgotten' /\ FallbackInPlaylist'
      BY <2>1 DEF SelInv, ListTyped, QueueTyped, RemovedForgotten, FallbackInPlaylist,
                  choice, edits, OrderOf
    <2>3. ModesTyped' /\ TracksTyped' /\ ControlTyped' /\ OutputPlays' /\ AheadTyped'
      BY <2>1 DEF SelInv, ModesTyped, TracksTyped, ControlTyped, OutputPlays, AheadTyped,
                  choice, stream, edits, user
    <2> QED
      BY <2>2, <2>3 DEF SelInv
  <1> QED
    BY <1>1, <1>2, <1>3 DEF Loop

LEMMA SettingsKeep ==
  ASSUME SelInv, \/ SetModes
                 \/ \E option \in {"queue", "album"} : SetStopAfter(option)
  PROVE  SelInv'
  <1>0. /\ list \in SUBSET Track /\ order \in OrderOf(list)
        /\ conf \in [shuffle : ShuffleModes, repeat : RepeatModes]
        /\ stop_after \in SUBSET {"queue", "album"}
    BY DEF SelInv, ListTyped, ModesTyped
  <1>1. /\ order' = MarkPlaying(order)
        /\ UNCHANGED <<choice, origin, stream, edits, queue, modes, fate, handled>>
    BY DEF SetModes, SetStopAfter
  <1>2. /\ conf' \in [shuffle : ShuffleModes, repeat : RepeatModes]
        /\ stop_after' \in SUBSET {"queue", "album"}
    <2>1. CASE SetModes
      <3>1. \/ \E s \in ShuffleModes : conf' = [conf EXCEPT !.shuffle = s]
            \/ \E r \in RepeatModes : conf' = [conf EXCEPT !.repeat = r]
        BY <2>1 DEF SetModes
      <3>2. stop_after' = stop_after
        BY <2>1 DEF SetModes
      <3> QED
        BY <1>0, <3>1, <3>2
    <2>2. CASE \E option \in {"queue", "album"} : SetStopAfter(option)
      BY <1>0, <2>2 DEF SetStopAfter
    <2> QED
      BY <2>1, <2>2
  <1>3. order' \in OrderOf(list)
    BY <1>0, <1>1, MarkedTyped
  <1>4. ListTyped' /\ QueueTyped' /\ RemovedForgotten' /\ FallbackInPlaylist'
    BY <1>1, <1>3 DEF SelInv, ListTyped, QueueTyped, RemovedForgotten, FallbackInPlaylist,
                      choice, edits, OrderOf
  <1>5. ModesTyped'
    BY <1>1, <1>2 DEF SelInv, ModesTyped
  <1>6. TracksTyped' /\ ControlTyped' /\ OutputPlays' /\ AheadTyped'
    BY <1>1 DEF SelInv, TracksTyped, ControlTyped, OutputPlays, AheadTyped,
                choice, origin, stream, edits
  <1> QED
    BY <1>4, <1>5, <1>6 DEF SelInv

(* Steps that change the playlist or the queue and nothing that is heard.  *)
LEMMA EditKeeps ==
  ASSUME SelInv, ListTyped', QueueTyped', RemovedForgotten', FallbackInPlaylist',
         prev_track_to_play' \in Track \cup {NoTrack}, deleted' \in BOOLEAN,
         UNCHANGED <<origin, stream, conf, stop_after, modes, fate, handled>>
  PROVE  SelInv'
  BY DEF SelInv, ModesTyped, TracksTyped, ControlTyped, OutputPlays, AheadTyped, origin, stream

LEMMA QueueEdited ==
  ASSUME SelInv, SetQueue
  PROVE  SelInv'
  <1>0. queue \in Seq(list) /\ Len(queue) \in Nat /\ Len(queue) <= PLAYQUEUE_SIZE
    BY LenProperties DEF SelInv, QueueTyped
  <1>1. /\ removing = NoTrack
        /\ UNCHANGED <<choice, origin, stream, edits, conf, stop_after, order, modes, fate, handled>>
    BY DEF SetQueue
  <1>2. queue' \in Seq(list) /\ Len(queue') <= PLAYQUEUE_SIZE
    <2>1. ASSUME NEW t \in list, NEW n \in 0 .. Len(queue), QueueHasRoom,
                 queue' = InsertAt(queue, n + 1, t)
          PROVE  queue' \in Seq(list) /\ Len(queue') <= PLAYQUEUE_SIZE
      <3> DEFINE k == n + 1
                 a == SubSeq(queue, 1, k - 1)
                 b == SubSeq(queue, k, Len(queue))
      <3>0. k \in 1 .. Len(queue) + 1 /\ k = n + 1
        BY <1>0
      <3>3. queue' = a \o <<t>> \o b
        BY <2>1, Zenon DEF InsertAt
      <3> HIDE DEF k
      <3>1. a \in Seq(list) /\ Len(a) = n
        BY <1>0, <3>0, SubSeqProperties
      <3>2. b \in Seq(list) /\ Len(b) = Len(queue) - n
        BY <1>0, <3>0, SubSeqProperties
      <3> HIDE DEF a, b
      <3>4. <<t>> \in Seq(list) /\ Len(<<t>>) = 1
        OBVIOUS
      <3>5. a \o <<t>> \in Seq(list) /\ Len(a \o <<t>>) = n + 1
        BY <1>0, <3>1, <3>4, ConcatProperties
      <3>6. queue' \in Seq(list) /\ Len(queue') = Len(queue) + 1
        BY <1>0, <3>2, <3>3, <3>5, ConcatProperties
      <3>7. Len(queue) < PLAYQUEUE_SIZE
        BY <2>1 DEF QueueHasRoom
      <3> QED
        BY <1>0, <3>6, <3>7, Constants
    <2>2. ASSUME NEW n \in DOMAIN queue, queue' = RemoveAt(queue, n)
          PROVE  queue' \in Seq(list) /\ Len(queue') <= PLAYQUEUE_SIZE
      <3> DEFINE a == SubSeq(queue, 1, n - 1)
                 b == SubSeq(queue, n + 1, Len(queue))
      <3>0. n \in 1 .. Len(queue)
        BY <1>0, LenProperties
      <3>1. a \in Seq(list) /\ Len(a) = n - 1
        BY <1>0, <3>0, SubSeqProperties
      <3>2. b \in Seq(list) /\ Len(b) = Len(queue) - n
        BY <1>0, <3>0, SubSeqProperties
      <3>3. queue' = a \o b
        BY <2>2 DEF RemoveAt
      <3> HIDE DEF a, b
      <3>4. queue' \in Seq(list) /\ Len(queue') = Len(queue) - 1
        BY <1>0, <3>0, <3>1, <3>2, <3>3, ConcatProperties
      <3> QED
        BY <1>0, <3>4, Constants
    <2>3. CASE queue' = << >>
      BY <2>3, Constants
    <2> QED
      BY <2>1, <2>2, <2>3 DEF SetQueue
  <1>3. ListTyped' /\ QueueTyped' /\ RemovedForgotten' /\ FallbackInPlaylist'
    BY <1>1, <1>2 DEF SelInv, ListTyped, QueueTyped, RemovedForgotten, FallbackInPlaylist,
                      choice, edits, OrderOf
  <1>4. prev_track_to_play' \in Track \cup {NoTrack} /\ deleted' \in BOOLEAN
    BY <1>1 DEF SelInv, TracksTyped, ControlTyped, choice, edits
  <1> QED
    BY <1>1, <1>3, <1>4, EditKeeps

(* While the streamer is asked for fallback tracks the one that is being   *)
(* removed is still in the playlist; it is not among them.                 *)
LEMMA RemovalBegun ==
  ASSUME SelInv, NEW t \in Track, RemoveItem(t)
  PROVE  SelInv'
  <1> DEFINE m == [shuffle |-> conf.shuffle, repeat |-> conf.repeat, next |-> NoTrack,
                   prev |-> prev_track_to_play, streaming |-> streaming_track]
             other(u) == IF u = t THEN NoTrack ELSE u
  <1>0. /\ list \in SUBSET Track /\ order \in OrderOf(list) /\ queue \in Seq(list)
        /\ next_track_to_play \in list \cup {NoTrack}
        /\ prev_track_to_play \in Track \cup {NoTrack}
        /\ deleted \in BOOLEAN
    BY DEF SelInv, ListTyped, QueueTyped, TracksTyped, FallbackInPlaylist, ControlTyped
  <1>1. /\ t \in list /\ removing' = t /\ queue' = Without(queue, t)
        /\ IF t \in {streaming_track, next_track_to_play}
           THEN \E n \in NextTrack(t, order, m) : \E p \in PrevTrack(t, n.order, m) :
                  /\ next_track_to_play' = other(n.track)
                  /\ prev_track_to_play' = other(p.track)
                  /\ order' = p.order
           ELSE UNCHANGED <<choice, order>>
        /\ UNCHANGED <<origin, stream, list, deleted, conf, stop_after, modes, fate, handled>>
    BY DEF RemoveItem
  <1>2. /\ m.next \in list \cup {NoTrack} /\ m.prev \in Track \cup {NoTrack}
        /\ m.shuffle \in {"off", "tracks", "albums", "random"}
    BY <1>0, ModeValues DEF SelInv
  <1> HIDE DEF m
  <1>3. /\ next_track_to_play' \in (list \cup {NoTrack}) \ {t}
        /\ prev_track_to_play' \in Track \cup {NoTrack}
        /\ order' \in OrderOf(list)
    <2>1. CASE t \in {streaming_track, next_track_to_play}
      <3>1. PICK n \in NextTrack(t, order, m) : \E p \in PrevTrack(t, n.order, m) :
              /\ next_track_to_play' = other(n.track)
              /\ prev_track_to_play' = other(p.track)
              /\ order' = p.order
        BY <1>1, <2>1
      <3>2. n \in PicksOf(list \cup {NoTrack})
        BY <1>0, <1>2, NextTrackIn
      <3>3. n.track \in list \cup {NoTrack} /\ n.order \in OrderOf(list)
        BY <3>2 DEF PicksOf
      <3>4. PICK p \in PrevTrack(t, n.order, m) :
              /\ next_track_to_play' = other(n.track)
              /\ prev_track_to_play' = other(p.track)
              /\ order' = p.order
        BY <3>1
      <3>5. p \in PicksOf(Track \cup {NoTrack})
        BY <1>0, <1>2, <3>3, PrevTrackIn
      <3>6. p.track \in Track \cup {NoTrack} /\ p.order \in OrderOf(list)
        BY <3>5 DEF PicksOf
      <3> QED
        BY <3>3, <3>4, <3>6, TrackFacts
    <2>2. CASE t \notin {streaming_track, next_track_to_play}
      BY <1>0, <1>1, <2>2 DEF choice
    <2> QED
      BY <2>1, <2>2
  <1>4. /\ queue' \in Seq(list) /\ Len(queue') <= Len(queue)
        /\ \A i \in DOMAIN queue' : queue'[i] \in list \ {t}
    BY <1>0, <1>1, WithoutTyped
  <1>5. QueueTyped'
    <2>1. Len(queue) <= PLAYQUEUE_SIZE /\ Len(queue) \in Nat /\ Len(queue') \in Nat
      BY <1>0, <1>4, LenProperties DEF SelInv, QueueTyped
    <2> QED
      BY <1>1, <1>4, <2>1, Constants DEF QueueTyped
  <1>6. ListTyped' /\ RemovedForgotten' /\ FallbackInPlaylist'
    BY <1>0, <1>1, <1>3, <1>4 DEF ListTyped, RemovedForgotten, FallbackInPlaylist, OrderOf
  <1> QED
    BY <1>0, <1>1, <1>3, <1>5, <1>6, EditKeeps

(* The order of a playlist that a track was taken out of or put into.      *)
LEMMA Relisted ==
  ASSUME NEW L \in SUBSET Track, NEW M \in SUBSET Track, NEW o \in OrderOf(L),
         NEW t \in Track, NEW r \in Rating, o.played \ {t} \subseteq M, M \subseteq L \cup {t},
         t \in M => \A u \in L : o.rating[u] = r => Same(u, t)
  PROVE  [Unmark(o, {t}) EXCEPT !.rating[t] = r] \in OrderOf(M)
  <1> DEFINE m == Unmark(o, {t})
             f == [m.rating EXCEPT ![t] = r]
  <1>1. /\ m \in [rating : [Track -> Rating], played : SUBSET M]
        /\ m.rating \in [Track -> Rating]
        /\ \A u, v \in L : m.rating[u] = m.rating[v] => Same(u, v)
        /\ t \in M => \A u \in L : m.rating[u] = r => Same(u, t)
    BY DEF Unmark, OrderOf
  <1> HIDE DEF m
  <1>2. f \in [Track -> Rating]
    BY <1>1
  <1>3. \A u, v \in M : f[u] = f[v] => Same(u, v)
    <2> SUFFICES ASSUME NEW u \in M, NEW v \in M, f[u] = f[v] PROVE Same(u, v)
      OBVIOUS
    <2>1. CASE u = t /\ v = t
      BY <2>1 DEF Same
    <2>2. CASE u = t /\ v # t
      BY <1>1, <2>2 DEF Same
    <2>3. CASE u # t /\ v = t
      BY <1>1, <2>3
    <2>4. CASE u # t /\ v # t
      BY <1>1, <2>4
    <2> QED
      BY <2>1, <2>2, <2>3, <2>4
  <1>4. [m EXCEPT !.rating[t] = r] \in [rating : [Track -> Rating], played : SUBSET M]
    BY <1>1, <1>2
  <1>5. [m EXCEPT !.rating[t] = r].rating = f
    BY <1>1
  <1> QED
    BY <1>3, <1>4, <1>5 DEF OrderOf, m

LEMMA RemovalEnded ==
  ASSUME SelInv, Unlink
  PROVE  SelInv'
  <1>0. /\ list \in SUBSET Track /\ order \in OrderOf(list) /\ queue \in Seq(list)
        /\ Len(queue) <= PLAYQUEUE_SIZE
        /\ next_track_to_play \in list \cup {NoTrack}
        /\ prev_track_to_play \in Track \cup {NoTrack}
    BY DEF SelInv, ListTyped, QueueTyped, TracksTyped, FallbackInPlaylist
  <1>1. /\ removing # NoTrack /\ list' = list \ {removing}
        /\ order' = [Unmark(order, {removing}) EXCEPT !.rating[removing] = Gone]
        /\ removing' = NoTrack /\ deleted' = TRUE
        /\ UNCHANGED <<choice, origin, stream, user, queue, modes, fate, handled>>
    BY DEF Unlink
  <1>2. /\ next_track_to_play # removing
        /\ \A i \in DOMAIN queue : queue[i] # removing
    BY <1>1 DEF SelInv, RemovedForgotten
  <1>3. queue \in Seq(list \ {removing})
    <2>1. Len(queue) \in Nat /\ DOMAIN queue = 1 .. Len(queue)
          /\ queue = [i \in 1 .. Len(queue) |-> queue[i]]
      BY <1>0, LenProperties
    <2>2. \A i \in 1 .. Len(queue) : queue[i] \in list \ {removing}
      BY <1>0, <1>2, <2>1, ElementOfSeq
    <2> QED
      BY <2>1, <2>2, IsASeq
  <1>4. order' \in OrderOf(list')
    <2>1. Gone \in Rating /\ removing \in Track
      BY <1>1 DEF Rating, SelInv, RemovedForgotten
    <2>2. order.played \subseteq list /\ list' \in SUBSET Track
      BY <1>0, <1>1 DEF OrderOf
    <2>3. /\ order.played \ {removing} \subseteq list' /\ list' \subseteq list \cup {removing}
          /\ removing \notin list'
      BY <1>1, <2>2
    <2> QED
      BY <1>0, <1>1, <2>1, <2>2, <2>3, Relisted
  <1>5. ListTyped' /\ QueueTyped' /\ RemovedForgotten' /\ FallbackInPlaylist'
    BY <1>0, <1>1, <1>2, <1>3, <1>4 DEF ListTyped, QueueTyped, RemovedForgotten,
                                         FallbackInPlaylist, choice
  <1>6. prev_track_to_play' \in Track \cup {NoTrack} /\ deleted' \in BOOLEAN
        /\ UNCHANGED <<origin, stream, conf, stop_after, modes, fate, handled>>
    BY <1>0, <1>1 DEF choice, user
  <1> QED
    BY <1>5, <1>6, EditKeeps

LEMMA ItemInserted ==
  ASSUME SelInv, NEW t \in Track, Insert(t)
  PROVE  SelInv'
  <1>0. /\ list \in SUBSET Track /\ order \in OrderOf(list) /\ queue \in Seq(list)
        /\ Len(queue) <= PLAYQUEUE_SIZE
        /\ next_track_to_play \in list \cup {NoTrack}
        /\ prev_track_to_play \in Track \cup {NoTrack}
    BY DEF SelInv, ListTyped, QueueTyped, TracksTyped, FallbackInPlaylist
  <1> DEFINE drawn == {2 * i - 1 : i \in 1 .. TRACKS + 1} \ {order.rating[u] : u \in list}
  <1>1. /\ removing = NoTrack /\ list' = list \cup {t} /\ deleted' = TRUE
        /\ UNCHANGED <<choice, origin, stream, removing, conf, stop_after, queue, modes, fate,
                       handled>>
    BY DEF Insert
  <1>2. PICK r \in IF conf.shuffle = "albums" /\ Before(t) # NoTrack /\ Same(Before(t), t)
                   THEN {order.rating[Before(t)]} ELSE drawn :
          order' = [Unmark(order, {t}) EXCEPT !.rating[t] = r]
    BY DEF Insert
  <1>3. r \in Rating
    <2>1. Before(t) # NoTrack => order.rating[Before(t)] \in Rating
      <3>1. Before(t) \in list \cup {NoTrack}
        BY <1>0, InPlaylist
      <3> QED
        BY <1>0, <3>1 DEF OrderOf
    <2>2. \A i \in 1 .. TRACKS + 1 : 2 * i - 1 \in Rating
      BY Constants DEF Rating
    <2> QED
      BY <1>2, <2>1, <2>2
  <1>4. order' \in OrderOf(list')
    <2>1. order.played \subseteq list /\ list' \in SUBSET Track
      BY <1>0, <1>1 DEF OrderOf
    <2>2. \A u \in list : order.rating[u] = r => Same(u, t)
      <3>1. CASE conf.shuffle = "albums" /\ Before(t) # NoTrack /\ Same(Before(t), t)
        <4>1. Before(t) \in list
          BY <1>0, <3>1, InPlaylist
        <4>2. r = order.rating[Before(t)]
          BY <1>2, <3>1
        <4>3. \A u \in list : order.rating[u] = r => Same(u, Before(t))
          BY <1>0, <4>1, <4>2 DEF OrderOf
        <4> QED
          BY <3>1, <4>3 DEF Same
      <3>2. CASE ~ (conf.shuffle = "albums" /\ Before(t) # NoTrack /\ Same(Before(t), t))
        BY <1>2, <3>2
      <3> QED
        BY <3>1, <3>2
    <2>3. /\ order.played \ {t} \subseteq list' /\ list' \subseteq list \cup {t}
      BY <1>1, <2>1
    <2> QED
      BY <1>0, <1>1, <1>2, <1>3, <2>1, <2>2, <2>3, Relisted
  <1>5. queue \in Seq(list \cup {t})
    BY <1>0, SeqMonotonic
  <1>6. ListTyped' /\ QueueTyped' /\ RemovedForgotten' /\ FallbackInPlaylist'
    BY <1>0, <1>1, <1>4, <1>5 DEF ListTyped, QueueTyped, RemovedForgotten,
                                   FallbackInPlaylist, choice
  <1>7. prev_track_to_play' \in Track \cup {NoTrack} /\ deleted' \in BOOLEAN
    BY <1>0, <1>1 DEF choice
  <1> QED
    BY <1>1, <1>6, <1>7, EditKeeps

LEMMA SelStep == SelInv /\ [Next]_vars => SelInv'
  <1> SUFFICES ASSUME SelInv, [Next]_vars PROVE SelInv'
    OBVIOUS
  <1>1. CASE \/ \E t \in Track : PlayIndex(t) \/ PlayCurrent(t)
             \/ Stop
             \/ \E dir \in {"next", "prev", "random"} : PlayNext(dir) \/ PlayNextAlbum(dir)
    BY <1>1, RequestsKeep
  <1>2. CASE SetModes \/ \E option \in {"queue", "album"} : SetStopAfter(option)
    BY <1>2, SettingsKeep
  <1>3. CASE SetQueue
    BY <1>3, QueueEdited
  <1>4. CASE \E t \in Track : RemoveItem(t) \/ Insert(t)
    BY <1>4, RemovalBegun, ItemInserted
  <1>5. CASE Unlink
    BY <1>5, RemovalEnded
  <1>6. CASE Playback
    BY <1>6, PlaybackKeeps
  <1>7. CASE Loop
    BY <1>7, LoopKeeps
  <1>8. CASE UNCHANGED vars
    <2>1. ListTyped' /\ QueueTyped' /\ RemovedForgotten' /\ FallbackInPlaylist'
      BY <1>8 DEF SelInv, ListTyped, QueueTyped, RemovedForgotten, FallbackInPlaylist,
                  vars, choice, edits, OrderOf
    <2>2. ModesTyped' /\ TracksTyped' /\ ControlTyped' /\ OutputPlays' /\ AheadTyped'
      BY <1>8 DEF SelInv, ModesTyped, TracksTyped, ControlTyped, OutputPlays, AheadTyped,
                  vars, choice, origin, stream, edits, user
    <2> QED
      BY <2>1, <2>2 DEF SelInv
  <1> QED
    BY <1>1, <1>2, <1>3, <1>4, <1>5, <1>6, <1>7, <1>8 DEF Next, User, System

-----------------------------------------------------------------------------
(* What is decoded after a deletion.                                       *)

(* The step allowed by DeletedNotStreamed.                                 *)
Obeyed ==
    \/ Cancelled'
    \/ /\ streaming_track' = streaming_track
       /\ Cancelled => playing_track = streaming_track

LEMMA SteadyObeys ==
  ASSUME UNCHANGED <<streaming_track, playing_track, output, list, deleted>>
  PROVE  Obeyed
  BY DEF Obeyed, Cancelled

LEMMA RequestsObey ==
  ASSUME SelInv, \/ \E t \in Track : PlayIndex(t) \/ PlayCurrent(t)
                 \/ Stop
                 \/ \E dir \in {"next", "prev", "random"} : PlayNext(dir) \/ PlayNextAlbum(dir)
  PROVE  Obeyed
  <1>1. ASSUME NEW t, NEW o, NEW q, PlayTrack(t, o, q) PROVE Obeyed
    BY <1>1 DEF PlayTrack, Obeyed, Cancelled
  <1>2. ASSUME StopPlayback PROVE Obeyed
    BY <1>2 DEF StopPlayback, Obeyed, Cancelled
  <1>3. ASSUME NEW p, NEW dir, Go(p, dir), UNCHANGED edits,
               p.track \in Answer
        PROVE  Obeyed
    <2>1. CASE p.track = NoTrack
      <3>1. StopPlayback
        BY <1>3, <2>1 DEF Go, NoTrack, Spinning, Crash, Track
      <3> QED
        BY <1>2, <3>1
    <2>2. CASE p.track \in {Spinning, Crash}
      <3>1. UNCHANGED stream
        BY <1>3, <2>2, TrackFacts DEF Go, Spinning, Crash, NoTrack
      <3> QED
        BY <1>3, <3>1, SteadyObeys DEF stream, edits
    <2>3. CASE p.track \in Track
      <3>1. PICK o \in IF dir = "random" THEN Rebuilt(p.track) ELSE {p.order} :
              PlayTrack(p.track, o, queue)
        BY <1>3, <2>3, TrackFacts DEF Go
      <3> QED
        BY <1>1, <3>1
    <2> QED
      BY <1>3, <2>1, <2>2, <2>3 DEF Answer
  <1>4. CASE \E t \in Track : PlayIndex(t) \/ PlayCurrent(t)
    BY <1>1, <1>4 DEF PlayIndex, PlayCurrent
  <1>5. CASE Stop
    BY <1>2, <1>5 DEF Stop
  <1>6. CASE \E dir \in {"next", "prev", "random"} : PlayNext(dir)
    <2>1. PICK dir \in {"next", "prev", "random"} : PlayNext(dir)
      BY <1>6
    <2>2. PICK p \in TrackWithDirection(dir) : Go(p, dir)
      BY <2>1 DEF PlayNext
    <2>3. p.track \in Answer /\ UNCHANGED edits
      <3>1. p \in PicksOf(Answer)
        BY <2>1, <2>2, TrackWithDirectionIn
      <3> QED
        BY <2>1, <3>1 DEF PlayNext, PicksOf
    <2> QED
      BY <1>3, <2>2, <2>3
  <1>7. CASE \E dir \in {"next", "prev", "random"} : PlayNextAlbum(dir)
    <2>1. PICK dir \in {"next", "prev", "random"} : PlayNextAlbum(dir)
      BY <1>7
    <2>2. PICK p \in AlbumWithDirection(dir) : Go(p, dir)
      BY <2>1 DEF PlayNextAlbum
    <2>3. p.track \in Answer /\ UNCHANGED edits
      <3>1. p \in PicksOf(Answer)
        BY <2>1, <2>2, AlbumWithDirectionIn
      <3> QED
        BY <2>1, <3>1 DEF PlayNextAlbum, PicksOf
    <2> QED
      BY <1>3, <2>2, <2>3
  <1> QED
    BY <1>4, <1>5, <1>6, <1>7

(* The streamer's own steps: what is decoded afterwards is in the playlist *)
(* or being heard, unless nothing is heard at all.                         *)
LEMMA PlaybackObeys ==
  ASSUME SelInv, Playback
  PROVE  Obeyed
  <1>1. CASE EndOfStream
    <2>1. list' = list /\ playing_track' = playing_track
      BY <1>1 DEF EndOfStream, edits
    <2> QED
      BY <1>1, <2>1, EndOfStreamTyped DEF Obeyed, Cancelled
  <1>2. CASE Announce
    <2>1. UNCHANGED <<streaming_track, output, list, deleted>>
      BY <1>2 DEF Announce, edits
    <2> QED
      BY <2>1 DEF Obeyed, Cancelled
  <1>3. CASE PlaybackEnd
    BY <1>3 DEF PlaybackEnd, StopPlayback, Obeyed, Cancelled
  <1> QED
    BY <1>1, <1>2, <1>3 DEF Playback

LEMMA RequeueObeys ==
  ASSUME SelInv, NEW o \in OrderOf(list), NEW m \in ContextType, Requeue(o, m),
         UNCHANGED <<playing_track, output, list>>
  PROVE  Obeyed
  <1>1. CASE playing_track # NoTrack
    BY <1>1, RequeueTyped DEF Obeyed, Cancelled
  <1>2. CASE playing_track = NoTrack
    BY <1>2 DEF SelInv, OutputPlays, ControlTyped, Obeyed, Cancelled
  <1> QED
    BY <1>1, <1>2

LEMMA LoopObeys ==
  ASSUME SelInv, Loop
  PROVE  Obeyed
  <1>0. list \in SUBSET Track /\ order \in OrderOf(list)
    BY DEF SelInv, ListTyped
  <1>1. CASE ApplyModes
    <2> DEFINE m == [Context EXCEPT !.shuffle = conf.shuffle, !.repeat = conf.repeat]
    <2>1. UNCHANGED <<playing_track, output, list, deleted>>
      BY <1>1 DEF ApplyModes, edits
    <2>2. m \in ContextType
      BY ContextsTyped
    <2> HIDE DEF m
    <2>3. CASE modes = conf
      BY <1>1, <2>1, <2>3, SteadyObeys DEF ApplyModes
    <2>4. CASE modes # conf /\ modes.shuffle = conf.shuffle
      <3>1. Requeue(order, m)
        BY <1>1, <2>4 DEF ApplyModes, m
      <3> QED
        BY <1>0, <2>1, <2>2, <3>1, RequeueObeys
    <2>5. CASE modes # conf /\ modes.shuffle # conf.shuffle
      <3>1. PICK r \in Reshuffled : \E o \in {r, MarkPlaying(r)} :
              Requeue(IF conf.shuffle = "albums" /\ playing_track # NoTrack
                      THEN MarkAlbumUpTo(o, playing_track) ELSE o, m)
        BY <1>1, <2>5 DEF ApplyModes, m
      <3>2. \A o \in {r, MarkPlaying(r)} :
              o \in OrderOf(list) /\ MarkAlbumUpTo(o, playing_track) \in OrderOf(list)
        BY <1>0, ReshuffledTyped, MarkedTyped
      <3> QED
        BY <2>1, <2>2, <3>1, <3>2, RequeueObeys
    <2> QED
      BY <2>3, <2>4, <2>5
  <1>2. CASE TrackDeleted
    <2>1. UNCHANGED <<playing_track, output, list>>
      BY <1>2 DEF TrackDeleted
    <2>2. CASE streaming_track \in {NoTrack, playing_track} \cup list
      <3>1. streaming_track' = streaming_track
        BY <1>2, <2>2 DEF TrackDeleted
      <3> QED
        BY <2>1, <2>2, <3>1 DEF Obeyed, Cancelled
    <2>3. CASE streaming_track \notin {NoTrack, playing_track} \cup list
      <3>1. Requeue(order, Context)
        BY <1>2, <2>3 DEF TrackDeleted
      <3> QED
        BY <1>0, <2>1, <3>1, ContextsTyped, RequeueObeys
    <2> QED
      BY <2>2, <2>3
  <1>3. CASE Buffered
    BY <1>3, SteadyObeys DEF Buffered, stream, edits
  <1> QED
    BY <1>1, <1>2, <1>3 DEF Loop

LEMMA StepObeys == SelInv /\ Next => Obeyed
  <1> SUFFICES ASSUME SelInv, Next PROVE Obeyed
    OBVIOUS
  <1>1. CASE \/ \E t \in Track : PlayIndex(t) \/ PlayCurrent(t)
             \/ Stop
             \/ \E dir \in {"next", "prev", "random"} : PlayNext(dir) \/ PlayNextAlbum(dir)
    BY <1>1, RequestsObey
  <1>2. CASE SetModes \/ SetQueue \/ \E option \in {"queue", "album"} : SetStopAfter(option)
    BY <1>2, SteadyObeys DEF SetModes, SetQueue, SetStopAfter, stream, edits
  <1>3. CASE \E t \in Track : RemoveItem(t)
    BY <1>3, SteadyObeys DEF RemoveItem, stream
  <1>4. CASE Unlink \/ \E t \in Track : Insert(t)
    BY <1>4 DEF Unlink, Insert, Obeyed, Cancelled
  <1>5. CASE Playback
    BY <1>5, PlaybackObeys
  <1>6. CASE Loop
    BY <1>6, LoopObeys
  <1> QED
    BY <1>1, <1>2, <1>3, <1>4, <1>5, <1>6 DEF Next, User, System

-----------------------------------------------------------------------------
(* The state of the selection is well formed in any playlist and under any *)
(* use: no track is chosen that does not exist, the shuffle order and the  *)
(* play queue speak of tracks of the playlist only, the queue stays within *)
(* PLAYQUEUE_SIZE and no more is streamed ahead than the buffers hold.     *)
THEOREM SelectionTyped == Spec => []TypeOK
  <1>1. SelInv /\ [Next]_vars => SelInv'
    BY SelStep
  <1> QED
    BY <1>1, InitSel, SelInvTypeOK, PTL DEF Spec

(* Whatever is deleted, in whatever order, while a track that has left the *)
(* playlist is still streamed: the fallback that streamer_song_removed_    *)
(* notify chose for it is itself in the playlist when it is used.          *)
THEOREM FallbackKept == Spec => []FallbackInPlaylist
  <1>1. SelInv => FallbackInPlaylist
    BY DEF SelInv
  <1>2. SelInv /\ [Next]_vars => SelInv'
    BY SelStep
  <1> QED
    BY <1>1, <1>2, InitSel, PTL DEF Spec

(* A deleted track that was streamed ahead is cancelled once the streamer  *)
(* has been told (_streamer_track_deleted), and no later request, mode     *)
(* change or end of a stream brings a deleted track back.                  *)
THEOREM DeletionObeyed == Spec => DeletedNotStreamed
  <1>1. SelInv /\ [Next]_vars =>
          [ \/ Cancelled'
            \/ /\ streaming_track' = streaming_track
               /\ Cancelled => playing_track = streaming_track ]_vars
    BY StepObeys DEF Obeyed
  <1>2. SelInv /\ [Next]_vars => SelInv'
    BY SelStep
  <1> QED
    BY <1>1, <1>2, InitSel, PTL DEF Spec, DeletedNotStreamed

-----------------------------------------------------------------------------
(* Shuffled albums.                                                        *)

(* While a track of the current album is left, rated like the current one, *)
(* the next track is of that album too: nothing rated lower is considered, *)
(* and nothing of another album is rated the same.                         *)
LEMMA NextOfAlbum ==
  ASSUME list \in SUBSET Track, NEW o \in OrderOf(list), NEW curr \in list, NEW m,
         m.shuffle = "albums", NEW u \in RunFrom(curr), u # curr, u \notin o.played,
         o.rating[u] = o.rating[curr],
         NEW p \in NextShuffled(curr, o, m)
  PROVE  p.track \in Track /\ Same(curr, p.track)
  <1> DEFINE left == {t \in NotPlayed(o) : o.rating[t] >= o.rating[curr]}
             min == Minimal(o, left)
  <1>0. /\ o.rating \in [Track -> Rating] /\ curr \in Track /\ curr # NoTrack
        /\ \A t \in list : t \in Nat /\ o.rating[t] \in Int
        /\ \A t, v \in list : o.rating[t] = o.rating[v] => Same(t, v)
    <2>1. o.rating \in [Track -> Rating] /\ curr \in Track /\ curr # NoTrack
      BY TrackFacts DEF OrderOf
    <2>2. \A t \in list : t \in Nat /\ o.rating[t] \in Rating
      BY <2>1, TrackFacts
    <2> QED
      BY <2>1, <2>2, Ratings DEF OrderOf
  <1>1. /\ u \in list /\ u >= curr
        /\ \A v \in list : v \in curr .. u => Same(v, curr)
    BY DEF RunFrom
  <1>2. u \in left /\ left \in SUBSET Track
    BY <1>0, <1>1 DEF NotPlayed
  <1>3. /\ min \in left
        /\ o.rating[min] < o.rating[u] \/ (o.rating[min] = o.rating[u] /\ min <= u)
    <2> HIDE DEF left
    <2> QED
      BY <1>0, <1>2, MinimalIn
  <1> HIDE DEF min
  <1>4. min \in list /\ o.rating[min] = o.rating[curr]
    <2>1. min \in list /\ o.rating[min] >= o.rating[curr]
      BY <1>3 DEF NotPlayed
    <2> QED
      BY <1>0, <1>1, <1>3, <2>1
  <1>5. p = Pick(NotAgain(min, curr), o)
    <2>1. NextShuffled(curr, o, m) = {Pick(NotAgain(Minimal(o, left), curr), o)}
      BY <1>0, <1>2, Zenon DEF NextShuffled
    <2> QED
      BY <2>1 DEF min
  <1>6. p.track = NotAgain(min, curr)
    BY <1>5 DEF Pick
  <1>7. CASE min # curr
    BY <1>0, <1>4, <1>6, <1>7 DEF NotAgain, Same
  <1>8. CASE min = curr
    <2> DEFINE S == {t \in list : t > curr}
    <2>1. u \in S /\ S \in SUBSET Track
      BY <1>0, <1>1
    <2>2. First(S) \in S /\ First(S) <= u
      <3> HIDE DEF S
      <3> QED
        BY <2>1, FirstLastIn
    <2>3. After(curr) = First(S)
      BY DEF After
    <2>4. /\ After(curr) \in list /\ After(curr) > curr /\ After(curr) <= u
          /\ After(curr) # NoTrack
      BY <2>2, <2>3, TrackFacts
    <2>5. After(curr) \in curr .. u
      BY <1>0, <1>1, <2>4
    <2>6. p.track = After(curr)
      BY <1>6, <1>8, <2>4 DEF NotAgain
    <2> QED
      BY <1>1, <2>4, <2>5, <2>6 DEF Same
  <1> QED
    BY <1>7, <1>8

LEMMA AlbumLeft ==
  ASSUME SelInv, EndOfStream,
         modes.shuffle = "albums", modes.repeat # "single",
         queue = << >>, next_track_to_play = NoTrack,
         streaming_track \in list, streaming_track' # NoTrack,
         RatedTogether(streaming_track),
         NEW u \in RunFrom(streaming_track), u # streaming_track, u \notin order.played
  PROVE  Same(streaming_track, streaming_track')
  <1>0. list \in SUBSET Track /\ order \in OrderOf(list)
    BY DEF SelInv, ListTyped
  <1>1. \A p \in NextTrack(streaming_track, order, Context) :
          p.track \in Track /\ Same(streaming_track, p.track)
    <2>1. NextTrack(streaming_track, order, Context)
            = NextShuffled(streaming_track, order, Context)
      BY ContextTyped DEF NextTrack, Shuffled, InList
    <2>2. order.rating[u] = order.rating[streaming_track]
      BY DEF RatedTogether
    <2> QED
      BY <1>0, <2>1, <2>2, ContextTyped, NextOfAlbum
  <1>2. ASSUME NEW o, NEW options, StopStreaming(o, options) PROVE FALSE
    BY <1>2 DEF StopStreaming, Stream
  <1>3. PICK p \in NextTrack(streaming_track, order, Context) :
          StreamNext(p, Context, ahead)
    BY <1>2, Zenon DEF EndOfStream
  <1>4. p.track # NoTrack
    BY <1>1, TrackFacts
  <1>5. Stream(p.track, p.order, ahead)
    BY <1>3, <1>4, ContextTyped DEF StreamNext
  <1> QED
    BY <1>1, <1>5 DEF Stream

(* With albums shuffled an album is played to its end.  Its tracks are     *)
(* rated alike and nothing else is rated like them, however the playlist   *)
(* was edited and whatever was played by hand (plt_insert_item and         *)
(* _rebuild_shuffle_albums_after_manual_trigger keep the ratings apart),   *)
(* so the lowest rating from the current one up is that of the album as    *)
(* long as one of its tracks is left.                                      *)
THEOREM AlbumsTogether == Spec => AlbumsStayTogether
  <1>1. SelInv /\ [Next]_vars =>
          [ /\ EndOfStream
            /\ modes.shuffle = "albums" /\ modes.repeat # "single"
            /\ queue = << >> /\ next_track_to_play = NoTrack
            /\ streaming_track \in list /\ streaming_track' # NoTrack
            /\ RatedTogether(streaming_track)
            /\ ~ Same(streaming_track, streaming_track')
            => RunFrom(streaming_track) \ {streaming_track} \subseteq order.played ]_vars
    BY AlbumLeft
  <1>2. SelInv /\ [Next]_vars => SelInv'
    BY SelStep
  <1> QED
    BY <1>1, <1>2, InitSel, PTL DEF Spec, AlbumsStayTogether

=============================================================================
