--------------------------- MODULE Streamer_proofs ---------------------------
(***************************************************************************)
(* Proofs about module Streamer, for any playlist, any sizes of the        *)
(* buffers and any requests: every variable keeps to its type, a decoder   *)
(* is only read on behalf of a track, and the output is held back while a  *)
(* requested track is being buffered.  Then next and previous count from   *)
(* the track that is playing, and what is decoded ahead is the playlist in *)
(* order, whatever is requested and however the threads interleave.        *)
(***************************************************************************)
EXTENDS Streamer, FiniteSetTheorems, SequenceTheorems, WellFoundedInduction,
        TLAPS

(* A bounded set of numbers has a largest one, and Max finds it.           *)
LEMMA MaxOfBounded ==
  ASSUME NEW S \in SUBSET Nat, S # {}, NEW n \in Nat, \A x \in S : x <= n
  PROVE  /\ Max(S) \in S
         /\ \A x \in S : x <= Max(S)
<1> DEFINE T == {n - x : x \in S}
           R == {ss \in Nat \X Nat : ss[1] < ss[2]}
<1>1. OpToRel(<, Nat) = R
  BY DEF OpToRel
<1>2. T \subseteq Nat /\ T # {}
  <2>1. \A x \in S : n - x \in Nat
    OBVIOUS
  <2> QED
    BY <2>1 DEF T
<1>3. PICK m \in T : \A y \in T : <<y, m>> \notin OpToRel(<, Nat)
  <2> HIDE DEF T
  <2> QED
    BY <1>2, NatLessThanWellFounded, WFMin, Zenon
<1>4. \A y \in T : m <= y
  <2> SUFFICES ASSUME NEW y \in T, y < m PROVE FALSE
    BY <1>2
  <2>1. <<y, m>> \in Nat \X Nat
    BY <1>2
  <2>2. <<y, m>> \in R
    BY <2>1
  <2> QED
    BY <1>1, <1>3, <2>2
<1>5. PICK x \in S : m = n - x
  BY DEF T
<1>6. ASSUME NEW y \in S PROVE y <= x
  <2>1. m <= n - y
    BY <1>4 DEF T
  <2> QED
    BY <1>5, <2>1
<1>7. x \in S /\ \A y \in S : x >= y
  BY <1>6
<1>8. Max(S) \in S /\ \A y \in S : Max(S) >= y
  BY <1>7 DEF Max
<1> QED
  BY <1>8

-----------------------------------------------------------------------------
(* The data of a sequence of decoded blocks.                               *)

LEMMA WithDataFinite ==
  ASSUME NEW s \in Seq(DecodedBlock)
  PROVE  IsFiniteSet(WithData(s)) /\ Cardinality(WithData(s)) \in Nat
<1>1. IsFiniteSet(1 .. Len(s))
  BY LenProperties, FS_Interval
<1>2. WithData(s) \subseteq 1 .. Len(s)
  BY DEF WithData
<1> QED
  BY <1>1, <1>2, FS_Subset, FS_CardinalityType

(* Appending blocks adds no more data than there are blocks.               *)
LEMMA WithDataConcat ==
  ASSUME NEW s \in Seq(DecodedBlock), NEW t \in Seq(DecodedBlock)
  PROVE  Cardinality(WithData(s \o t)) <= Cardinality(WithData(s)) + Len(t)
<1> DEFINE A == WithData(s)
           B == Len(s) + 1 .. Len(s) + Len(t)
<1>1. Len(s) \in Nat /\ Len(t) \in Nat
  BY LenProperties
<1>2. IsFiniteSet(A) /\ Cardinality(A) \in Nat
  BY WithDataFinite
<1>3. IsFiniteSet(B) /\ Cardinality(B) = Len(t)
  <2>1. Len(s) + 1 \in Int /\ Len(s) + Len(t) \in Int
    BY <1>1
  <2>2. IsFiniteSet(B) /\ Cardinality(B) = IF Len(s) + 1 > Len(s) + Len(t) THEN 0
                                            ELSE (Len(s) + Len(t)) - (Len(s) + 1) + 1
    BY <2>1, FS_Interval, Zenon
  <2> QED
    BY <1>1, <2>2
<1>4. WithData(s \o t) \subseteq A \cup B
  <2> SUFFICES ASSUME NEW i \in WithData(s \o t), i \notin B PROVE i \in A
    OBVIOUS
  <2>1. i \in 1 .. Len(s) /\ (s \o t)[i] = s[i]
    BY <1>1, ConcatProperties DEF WithData
  <2> QED
    BY <2>1 DEF WithData
<1>5. IsFiniteSet(A \cup B) /\ Cardinality(A \cup B) <= Cardinality(A) + Len(t)
  <2>1. /\ IsFiniteSet(A \cap B) /\ Cardinality(A \cap B) \in Nat
    BY <1>2, FS_Subset, FS_CardinalityType
  <2>2. /\ IsFiniteSet(A \cup B)
        /\ Cardinality(A \cup B) = Cardinality(A) + Cardinality(B) - Cardinality(A \cap B)
    BY <1>2, <1>3, FS_Union
  <2> QED
    BY <1>1, <1>2, <1>3, <2>1, <2>2
<1>6. /\ Cardinality(WithData(s \o t)) \in Nat
      /\ Cardinality(WithData(s \o t)) <= Cardinality(A \cup B)
      /\ Cardinality(A \cup B) \in Nat
  BY <1>4, <1>5, FS_Subset, FS_CardinalityType
<1> QED
  BY <1>1, <1>2, <1>5, <1>6

(* Dropping blocks at the front adds no data.                              *)
LEMMA WithDataSuffix ==
  ASSUME NEW s \in Seq(DecodedBlock), NEW k \in 0 .. Len(s)
  PROVE  Cardinality(WithData(SubSeq(s, k + 1, Len(s)))) <= Cardinality(WithData(s))
<1> DEFINE t == SubSeq(s, k + 1, Len(s))
           f == [i \in WithData(t) |-> k + i]
<1>1. Len(s) \in Nat /\ k \in Nat /\ k <= Len(s)
  BY LenProperties
<1>2. /\ t \in Seq(DecodedBlock)
      /\ Len(t) = Len(s) - k
      /\ \A i \in 1 .. Len(s) - k : t[i] = s[k + i]
  BY <1>1, SubSeqProperties
<1>3. IsFiniteSet(WithData(s)) /\ Cardinality(WithData(s)) \in Nat
  BY WithDataFinite
<1>4. f \in Injection(WithData(t), WithData(s))
  <2>1. ASSUME NEW i \in WithData(t) PROVE k + i \in WithData(s) /\ i \in Nat
    <3>1. i \in 1 .. Len(s) - k /\ HasData(s[k + i])
      BY <1>2 DEF WithData
    <3> QED
      BY <1>1, <3>1 DEF WithData
  <2>2. f \in [WithData(t) -> WithData(s)]
    BY <2>1
  <2>3. ASSUME NEW i \in WithData(t), NEW j \in WithData(t), f[i] = f[j]
        PROVE  i = j
    BY <1>1, <2>1, <2>3
  <2> QED
    BY <2>2, <2>3 DEF Injection, IsInjective
<1>5. Cardinality(WithData(t)) <= Cardinality(WithData(s))
  <2> HIDE DEF f, t
  <2> QED
    BY <1>3, <1>4, FS_Injection
<1> QED
  BY <1>5

-----------------------------------------------------------------------------
(* The inductive invariant.  A decoder belongs to a track, and it is there *)
(* when it is read; the block it is read into still has its room when the  *)
(* read ends, because only the streamer thread adds blocks.                *)
DecoderTracked ==
    /\ fileinfo # NoFile => streaming_track # NoTrack
    /\ pc = "read" => fileinfo # NoFile /\ Len(blocks) < RING
    /\ pc \in {"eof", "seek"} => streaming_track # NoTrack

(* A track waiting to be buffered is the one that plays, nothing of it has *)
(* been decoded for the output and the output may not read.                *)
Waits ==
    buffering_track # NoTrack /\ pc # "buffered"
        => buffering /\ playing_track = buffering_track /\ decoded = << >>

IInv == TypeOK /\ DecoderTracked /\ Waits

LEMMA Constants ==
  /\ NoTrack \notin Track
  /\ Range(Format) \subseteq Nat \ {NoFmt}
  /\ \A t \in Track : Format[t] \in Range(Format)
  /\ MayOpen \subseteq Track /\ MayFail \subseteq Track
  /\ RING \in Nat \ {0} /\ BUFFERED \in Nat \ {0} /\ READS \in Nat \ {0}
  /\ STALL_WAIT \in Nat \ {0}
  /\ STREAM_MIN \in Nat \ {0} /\ STREAM_MAX \in Nat \ {0}
<1>1. NoTrack \notin Track
  <2>1. TRACKS \in Nat
    BY StreamerAssumption
  <2> QED
    BY <2>1 DEF Track, NoTrack
<1>2. Format \in [Track -> Nat \ {NoFmt}]
  BY StreamerAssumption
<1>3. Range(Format) \subseteq Nat \ {NoFmt}
  BY <1>2 DEF Range
<1>4. \A t \in Track : Format[t] \in Range(Format)
  BY <1>2 DEF Range
<1>5. MayOpen \subseteq Track /\ MayFail \subseteq Track
  BY StreamerAssumption
<1>6. {STREAM_MIN, RING, BUFFERED, READS, STALL_WAIT} \subseteq Nat \ {0}
  BY StreamerAssumption
<1>7. STREAM_MAX \in Nat \ {0}
  <2>1. STREAM_MAX \in Nat /\ STREAM_MIN <= STREAM_MAX
    BY StreamerAssumption
  <2> QED
    BY <1>6, <2>1
<1> QED
  BY <1>1, <1>3, <1>4, <1>5, <1>6, <1>7

LEMMA NoBlocks ==
  /\ << >> \in Seq(StreamBlock) /\ Len(<< >>) = 0
  /\ << >> \in Seq(DecodedBlock) /\ << >> \in Seq(Request)
  /\ Cardinality(WithData(<< >>)) = 0
<1>1. << >> \in Seq(StreamBlock) /\ << >> \in Seq(DecodedBlock) /\ << >> \in Seq(Request)
  BY EmptySeq, Zenon
<1>2. Len(<< >>) = 0
  BY <1>1, EmptySeq
<1>3. WithData(<< >>) = {}
  BY <1>2 DEF WithData
<1> QED
  BY <1>1, <1>2, <1>3, FS_EmptySet

(* The initial states satisfy the invariant.                               *)
LEMMA InitIInv == Init => IInv
<1> SUFFICES ASSUME Init PROVE IInv
  OBVIOUS
<1>1. RingTyped
  <2>1. blocks \in Seq(StreamBlock) /\ Len(blocks) = 0
    BY NoBlocks DEF Init
  <2>2. firstblock \in BOOLEAN /\ dangling \in BOOLEAN
    BY DEF Init
  <2> QED
    BY <2>1, <2>2, Constants DEF RingTyped
<1>2. DecodedTyped
  BY NoBlocks, Constants DEF Init, DecodedTyped
<1>3. TracksTyped
  BY DEF Init, TracksTyped
<1>4. ControlTyped
  <2>1. handler \in Seq(Request)
    BY NoBlocks DEF Init
  <2>2. /\ budget \in 0 .. BUDGET /\ audio_stall_count \in 0 .. STALL_WAIT
        /\ clearing \in 0 .. BUDGET - budget
    <3>1. BUDGET \in Nat
      BY StreamerAssumption
    <3> QED
      BY <3>1, Constants DEF Init
  <2>3. buffering \in BOOLEAN /\ stop_after_current \in BOOLEAN
    BY DEF Init
  <2> QED
    BY <2>1, <2>2, <2>3 DEF Init, ControlTyped
<1>5. DecoderTracked
  BY DEF Init, DecoderTracked
<1>6. Waits
  BY DEF Init, Waits
<1> QED
  BY <1>1, <1>2, <1>3, <1>4, <1>5, <1>6 DEF IInv, TypeOK

-----------------------------------------------------------------------------
(* The ring.                                                               *)

(* Keeping the leading blocks of a track leaves a ring that is no longer.  *)
LEMMA FlushRing ==
  ASSUME RingTyped, NEW it, FlushAfter(it)
  PROVE  /\ RingTyped'
         /\ Len(blocks') <= Len(blocks)
<1> DEFINE kept == {n \in 0 .. Len(blocks) : \A i \in 1 .. n : blocks[i].track = it}
           k == Max(kept)
<1>1. blocks \in Seq(StreamBlock) /\ Len(blocks) \in Nat /\ Len(blocks) <= RING
  BY LenProperties DEF RingTyped
<1>2. k \in 0 .. Len(blocks)
  <2>1. kept \in SUBSET Nat /\ 0 \in kept /\ \A x \in kept : x <= Len(blocks)
    BY <1>1
  <2> HIDE DEF kept
  <2>2. k \in kept
    BY <1>1, <2>1, MaxOfBounded
  <2> QED
    BY <2>2 DEF kept
<1>3. blocks' = SubSeq(blocks, 1, k) /\ firstblock' \in BOOLEAN /\ dangling' \in BOOLEAN
  BY DEF FlushAfter, RingTyped
<1> HIDE DEF k
<1>4. blocks' \in Seq(StreamBlock) /\ Len(blocks') = k
  BY <1>1, <1>2, <1>3, SubSeqProperties
<1> QED
  BY <1>1, <1>2, <1>3, <1>4, Constants DEF RingTyped

(* A reset leaves both buffers empty.                                      *)
LEMMA ResetBuffers ==
  ASSUME RingTyped, DecodedTyped, Reset
  PROVE  RingTyped' /\ DecodedTyped'
<1>1. RingTyped'
  <2>1. blocks' \in Seq(StreamBlock) /\ Len(blocks') = 0
    BY NoBlocks DEF Reset
  <2>2. firstblock' \in BOOLEAN /\ dangling' \in BOOLEAN
    BY DEF Reset
  <2> QED
    BY <2>1, <2>2, Constants DEF RingTyped
<1>2. DecodedTyped'
  BY NoBlocks, Constants DEF Reset, DecodedTyped
<1> QED
  BY <1>1, <1>2

(* What is decoded at once fits into the ring and the playback buffer.     *)
LEMMA DecodedNowBounds ==
  ASSUME RingTyped, DecodedTyped
  PROVE  /\ DecodedNow \in 0 .. Len(blocks)
         /\ DecodedNow > 0 =>
              DecodedNow <= BUFFERED - Cardinality(WithData(decoded))
<1> DEFINE room == BUFFERED - Cardinality(WithData(decoded))
           fits == {n \in 1 .. Len(blocks) :
                      /\ n <= room
                      /\ \A i \in 1 .. n     : blocks[i].fmt = last_fmt
                      /\ \A i \in 1 .. n - 1 : blocks[i].data}
           S    == {0} \cup fits
<1>1. Len(blocks) \in Nat
  BY LenProperties DEF RingTyped
<1>2. \A n \in fits : n \in 1 .. Len(blocks) /\ n <= room
  OBVIOUS
<1>3. DecodedNow = Max(S)
  BY DEF DecodedNow
<1>4. S \in SUBSET Nat /\ S # {} /\ \A n \in S : n <= Len(blocks)
  <2> HIDE DEF fits
  <2> QED
    BY <1>1, <1>2
<1>5. Max(S) \in S
  <2> HIDE DEF S
  <2> QED
    BY <1>1, <1>4, MaxOfBounded
<1>6. DecodedNow = 0 \/ DecodedNow \in fits
  BY <1>3, <1>5
<1> HIDE DEF fits
<1> QED
  BY <1>1, <1>2, <1>6

(* Whatever happens, the ring keeps to its size.                           *)
LEMMA RingStep ==
  ASSUME IInv, [Next]_vars
  PROVE  RingTyped'
<1>1. RingTyped /\ DecodedTyped /\ TracksTyped /\ DecoderTracked
  BY DEF IInv, TypeOK
<1>2. blocks \in Seq(StreamBlock) /\ Len(blocks) \in Nat /\ Len(blocks) <= RING
  BY <1>1, LenProperties DEF RingTyped
<1>3. ASSUME Reset PROVE RingTyped'
  BY <1>1, <1>3, ResetBuffers
<1>4. ASSUME UNCHANGED ring PROVE RingTyped'
  BY <1>1, <1>4 DEF ring, RingTyped
<1>5. CASE PlayIndex
  BY <1>3, <1>5 DEF PlayIndex, PlayTrack
<1>6. CASE PlayIndexStop
  BY <1>3, <1>6 DEF PlayIndexStop
<1>7. CASE PlayNext
  BY <1>3, <1>7 DEF PlayNext, PlayTrack
<1>8. CASE SeekBegin
  BY <1>4, <1>8 DEF SeekBegin, buffers
<1>9. CASE SeekReopened
  BY <1>4, <1>9 DEF SeekReopened, buffers
<1>10. CASE SeekDone
  BY <1>3, <1>4, <1>10 DEF SeekDone, buffers
<1>11. CASE Requeue
  <2>1. CASE playing_track = NoTrack
    BY <1>4, <1>11, <2>1 DEF Requeue
  <2>2. CASE playing_track # NoTrack
    BY <1>1, <1>11, <2>2, FlushRing DEF Requeue
  <2> QED
    BY <2>1, <2>2
<1>12. CASE BeginRead
  BY <1>1, <1>12 DEF BeginRead, RingTyped
<1>22. CASE RequeueNext \/ UpdateBufferingState \/ LetOutputGo \/ Buffered
  BY <1>4, <1>22 DEF RequeueNext, UpdateBufferingState, LetOutputGo, Buffered, buffers
<1>13. CASE FinishRead
  <2>1. streaming_track \in Track /\ Len(blocks) < RING
    BY <1>1, <1>13 DEF FinishRead, DecoderTracked, TracksTyped
  <2>2. PICK b : /\ blocks' = Append(blocks, b)
                 /\ b \in StreamBlock
    <3> DEFINE last == fileinfo \in {Dummy, 1}
               block(data) == [track |-> streaming_track, first |-> firstblock,
                               last |-> last, data |-> data,
                               fmt |-> IF fileinfo = Dummy THEN NoFmt
                                       ELSE Format[streaming_track]]
    <3>1. \E data \in BOOLEAN : blocks' = Append(blocks, block(data))
      BY <1>13 DEF FinishRead
    <3>2. ASSUME NEW data \in BOOLEAN PROVE block(data) \in StreamBlock
      <4>1. firstblock \in BOOLEAN /\ last \in BOOLEAN
        BY <1>1 DEF RingTyped
      <4>2. (IF fileinfo = Dummy THEN NoFmt ELSE Format[streaming_track])
              \in {NoFmt} \cup Range(Format)
        BY <2>1, Constants
      <4> HIDE DEF last
      <4> QED
        BY <2>1, <4>1, <4>2 DEF StreamBlock
    <3> QED
      BY <3>1, <3>2
  <2>3. blocks' \in Seq(StreamBlock) /\ Len(blocks') = Len(blocks) + 1
    BY <1>2, <2>2, AppendProperties
  <2>4. firstblock' \in BOOLEAN /\ dangling' \in BOOLEAN
    <3>1. /\ firstblock' = (fileinfo \in {Dummy, 1})
          /\ dangling' = FALSE
      BY <1>13 DEF FinishRead
    <3>2. firstblock' \in BOOLEAN
      <4>1. CASE fileinfo \in {Dummy, 1}
        BY <3>1, <4>1
      <4>2. CASE fileinfo \notin {Dummy, 1}
        BY <3>1, <4>2
      <4> QED
        BY <4>1, <4>2
    <3> QED
      BY <3>1, <3>2
  <2> QED
    BY <1>2, <2>1, <2>3, <2>4, Constants DEF RingTyped
<1>14. CASE EndOfStream
  BY <1>4, <1>14 DEF EndOfStream, buffers
<1>15. CASE OpenDone
  BY <1>4, <1>15 DEF OpenDone, buffers
<1>16. CASE Idle
  BY <1>4, <1>16 DEF Idle
<1>17. CASE StopStalled
  BY <1>3, <1>4, <1>17 DEF StopStalled, StopOutput, buffers
<1>18. CASE Fill
  <2>1. CASE blocks' = blocks
    BY <1>4, <1>18, <2>1 DEF Fill, ring
  <2>2. CASE blocks' = SubSeq(blocks, DecodedNow + 1, Len(blocks))
    <3>1. DecodedNow \in 0 .. Len(blocks)
      BY <1>1, DecodedNowBounds
    <3>2. blocks' \in Seq(StreamBlock) /\ Len(blocks') <= Len(blocks)
      BY <1>2, <2>2, <3>1, SubSeqProperties
    <3>3. Len(blocks') \in Nat
      BY <3>2, LenProperties
    <3> QED
      BY <1>1, <1>2, <1>18, <3>2, <3>3, Constants DEF Fill, RingTyped
  <2> QED
    BY <1>18, <2>1, <2>2 DEF Fill
<1>19. CASE GetBytes
  BY <1>4, <1>19 DEF GetBytes
<1>20. CASE UserNext
  BY <1>4, <1>20 DEF UserNext, Push, PushStop, SetRepeat, TogglePause,
                     SetStopAfterCurrent, Acts, buffers
<1>21. CASE UNCHANGED vars
  BY <1>4, <1>21 DEF vars, buffers
<1> QED
  BY <1>5, <1>6, <1>7, <1>8, <1>9, <1>10, <1>11, <1>12, <1>13, <1>14, <1>15,
     <1>16, <1>17, <1>18, <1>19, <1>20, <1>21, <1>22
     DEF Next, StreamerNext, OutputNext

-----------------------------------------------------------------------------
(* The decoded blocks.                                                     *)

LEMMA VisitedBounds ==
  ASSUME DecodedTyped
  PROVE  Visited \in 0 .. Len(decoded)
<1> DEFINE S == {n \in 0 .. Len(decoded) :
                   \A i \in 1 .. n - 1 : ~ HasData(decoded[i])}
<1>1. Len(decoded) \in Nat
  BY LenProperties DEF DecodedTyped
<1>2. S \in SUBSET Nat /\ 0 \in S /\ \A n \in S : n <= Len(decoded)
  BY <1>1
<1>3. Visited = Max(S)
  BY DEF Visited
<1>4. Max(S) \in S
  <2> HIDE DEF S
  <2> QED
    BY <1>1, <1>2, MaxOfBounded
<1> QED
  BY <1>3, <1>4

(* Decoding appends no more data than the playback buffer has room for.    *)
LEMMA FillDecodes ==
  ASSUME RingTyped, DecodedTyped,
         decoded' = decoded \o [i \in 1 .. DecodedNow |-> Decode(blocks[i])]
  PROVE  /\ decoded' \in Seq(DecodedBlock)
         /\ Cardinality(WithData(decoded')) <= BUFFERED
<1> DEFINE D == DecodedNow
           t == [i \in 1 .. D |-> Decode(blocks[i])]
<1>1. /\ blocks \in Seq(StreamBlock) /\ Len(blocks) \in Nat
      /\ decoded \in Seq(DecodedBlock)
      /\ Cardinality(WithData(decoded)) \in Nat
      /\ Cardinality(WithData(decoded)) <= BUFFERED
  BY LenProperties, WithDataFinite DEF RingTyped, DecodedTyped
<1>2. D \in 0 .. Len(blocks) /\ (D > 0 => D <= BUFFERED - Cardinality(WithData(decoded)))
  BY DecodedNowBounds
<1> HIDE DEF D
<1>3. ASSUME NEW i \in 1 .. D PROVE Decode(blocks[i]) \in DecodedBlock
  <2>1. blocks[i] \in StreamBlock
    BY <1>1, <1>2, ElementOfSeq
  <2>2. (IF blocks[i].data THEN READS ELSE 0) \in 0 .. READS
    BY Constants
  <2> QED
    BY <2>1, <2>2 DEF Decode, StreamBlock, DecodedBlock
<1>4. t \in [1 .. D -> DecodedBlock]
  BY <1>3
<1>5. t \in Seq(DecodedBlock) /\ Len(t) = D
  BY <1>1, <1>2, <1>4
<1> HIDE DEF t
<1>6. /\ decoded \o t \in Seq(DecodedBlock)
      /\ Cardinality(WithData(decoded \o t)) <= Cardinality(WithData(decoded)) + D
  BY <1>1, <1>5, ConcatProperties, WithDataConcat
<1>7. Cardinality(WithData(decoded \o t)) \in Nat
  BY <1>6, WithDataFinite
<1>8. decoded' = decoded \o t
  BY DEF t, D
<1>9. Cardinality(WithData(decoded)) + D <= BUFFERED
  BY <1>1, <1>2, Constants
<1>10. D \in Nat
  BY <1>1, <1>2
<1>11. Cardinality(WithData(decoded \o t)) <= BUFFERED
  BY <1>1, <1>6, <1>7, <1>9, <1>10, Constants
<1> QED
  BY <1>6, <1>8, <1>11

(* Taking a portion of a block that has more than one keeps its data.      *)
LEMMA PortionTaken ==
  ASSUME NEW s \in Seq(DecodedBlock), s # << >>, s[1].left > 1
  PROVE  /\ [s EXCEPT ![1].left = @ - 1] \in Seq(DecodedBlock)
         /\ Cardinality(WithData([s EXCEPT ![1].left = @ - 1]))
              <= Cardinality(WithData(s))
<1> DEFINE b == [s[1] EXCEPT !.left = s[1].left - 1]
           t == [s EXCEPT ![1] = b]
<1>1. Len(s) \in Nat /\ Len(s) >= 1 /\ 1 \in DOMAIN s
  BY LenProperties, EmptySeq
<1>2. s[1] \in DecodedBlock
  BY <1>1, ElementOfSeq
<1>3. b \in DecodedBlock
  <2>1. s[1].left \in Int /\ s[1].left <= READS
    BY <1>2, Constants DEF DecodedBlock
  <2>2. s[1].left - 1 \in 0 .. READS
    BY <2>1, Constants
  <2> QED
    BY <1>2, <2>2 DEF DecodedBlock
<1> HIDE DEF b
<1>4. /\ t \in Seq(DecodedBlock)
      /\ Len(t) = Len(s)
      /\ \A j \in 1 .. Len(s) : t[j] = IF j = 1 THEN b ELSE s[j]
  BY <1>1, <1>3, ExceptSeq
<1>5. WithData(t) \subseteq WithData(s)
  <2> SUFFICES ASSUME NEW j \in WithData(t) PROVE j \in WithData(s)
    OBVIOUS
  <2>1. j \in 1 .. Len(s) /\ HasData(t[j])
    BY <1>4 DEF WithData
  <2>2. CASE j = 1
    <3>1. HasData(s[1])
      BY <1>2, Constants DEF HasData, DecodedBlock
    <3> QED
      BY <1>1, <2>2, <3>1 DEF WithData
  <2>3. CASE j # 1
    BY <1>4, <2>1, <2>3 DEF WithData
  <2> QED
    BY <2>2, <2>3
<1>6. Cardinality(WithData(t)) <= Cardinality(WithData(s))
  BY <1>5, WithDataFinite, FS_Subset
<1>7. [s EXCEPT ![1].left = @ - 1] = t
  BY DEF b
<1> QED
  BY <1>4, <1>6, <1>7

(* Whatever happens, there is no more decoded data than is allowed for.    *)
LEMMA DecodedStep ==
  ASSUME IInv, [Next]_vars
  PROVE  DecodedTyped'
<1>1. RingTyped /\ DecodedTyped
  BY DEF IInv, TypeOK
<1>2. ASSUME Reset PROVE DecodedTyped'
  BY <1>1, <1>2, ResetBuffers
<1>3. ASSUME UNCHANGED <<decoded, last_fmt>> PROVE DecodedTyped'
  BY <1>1, <1>3 DEF DecodedTyped, WithData
<1>4. CASE PlayIndex
  BY <1>2, <1>4 DEF PlayIndex, PlayTrack
<1>5. CASE PlayIndexStop
  BY <1>2, <1>5 DEF PlayIndexStop
<1>6. CASE PlayNext
  BY <1>2, <1>6 DEF PlayNext, PlayTrack
<1>7. CASE SeekBegin \/ SeekReopened \/ EndOfStream \/ OpenDone
  BY <1>3, <1>7 DEF SeekBegin, SeekReopened, EndOfStream, OpenDone, buffers
<1>8. CASE SeekDone
  BY <1>2, <1>3, <1>8 DEF SeekDone, buffers
<1>9. CASE Requeue
  BY <1>3, <1>9 DEF Requeue
<1>10. CASE BeginRead \/ Idle
  BY <1>3, <1>10 DEF BeginRead, Idle, Streams
<1>17. CASE RequeueNext \/ UpdateBufferingState \/ LetOutputGo \/ Buffered
  BY <1>3, <1>17 DEF RequeueNext, UpdateBufferingState, LetOutputGo, Buffered, buffers
<1>11. CASE FinishRead
  BY <1>3, <1>11 DEF FinishRead
<1>12. CASE StopStalled
  BY <1>2, <1>3, <1>12 DEF StopStalled, StopOutput, buffers
<1>13. CASE Fill
  <2>1. CASE UNCHANGED <<decoded, last_fmt>>
    BY <1>3, <2>1
  <2>2. CASE /\ blocks # << >> \/ dangling
             /\ decoded' = decoded \o [i \in 1 .. DecodedNow |-> Decode(blocks[i])]
             /\ last_fmt' = IF FormatChanges THEN Head(blocks).fmt ELSE last_fmt
    <3>1. /\ decoded' \in Seq(DecodedBlock)
          /\ Cardinality(WithData(decoded')) <= BUFFERED
      BY <1>1, <2>2, FillDecodes
    <3>2. last_fmt' \in {NoFmt} \cup Range(Format)
      <4>1. CASE FormatChanges
        <5>1. blocks # << >> /\ blocks \in Seq(StreamBlock)
          BY <1>1, <4>1 DEF FormatChanges, RingTyped
        <5>2. Head(blocks) \in StreamBlock
          BY <5>1, HeadTailProperties
        <5> QED
          BY <2>2, <4>1, <5>2 DEF StreamBlock
      <4>2. CASE ~ FormatChanges
        BY <1>1, <2>2, <4>2, SMTT(30) DEF DecodedTyped
      <4> QED
        BY <4>1, <4>2
    <3> QED
      BY <3>1, <3>2 DEF DecodedTyped, WithData
  <2> QED
    BY <1>13, <2>1, <2>2 DEF Fill
<1>14. CASE GetBytes
  <2> DEFINE n    == Visited
             used == IF n > 0 /\ decoded[n].left > 1 THEN n - 1 ELSE n
             rest == SubSeq(decoded, used + 1, Len(decoded))
  <2>1. decoded \in Seq(DecodedBlock) /\ Len(decoded) \in Nat
    BY <1>1, LenProperties DEF DecodedTyped
  <2>2. n \in 0 .. Len(decoded)
    BY <1>1, VisitedBounds
  <2>3. used \in 0 .. Len(decoded)
    BY <2>1, <2>2
  <2>4. decoded' = IF used = n THEN rest ELSE [rest EXCEPT ![1].left = @ - 1]
    BY <1>14 DEF GetBytes
  <2>5. used # n => used + 1 = n /\ n > 0 /\ decoded[n].left > 1
    BY <2>2
  <2> HIDE DEF n, used
  <2>6. /\ rest \in Seq(DecodedBlock)
        /\ Len(rest) = Len(decoded) - used
        /\ used < Len(decoded) => rest[1] = decoded[used + 1]
    BY <2>1, <2>3, ElementOfSeq, SubSeqProperties
  <2>7. Cardinality(WithData(rest)) <= Cardinality(WithData(decoded))
    BY <2>1, <2>3, WithDataSuffix
  <2>8. /\ decoded' \in Seq(DecodedBlock)
        /\ Cardinality(WithData(decoded')) <= Cardinality(WithData(rest))
    <3>0. Cardinality(WithData(rest)) \in Nat
      BY <2>6, WithDataFinite
    <3>1. CASE used = n
      BY <2>4, <2>6, <3>0, <3>1
    <3>2. CASE used # n
      <4>1. rest # << >> /\ rest[1].left > 1
        <5>1. used < Len(decoded) /\ used + 1 = n
          BY <2>1, <2>2, <2>3, <2>5, <3>2
        <5>2. Len(rest) # 0 /\ rest[1] = decoded[n]
          BY <2>1, <2>3, <2>6, <5>1
        <5> HIDE DEF rest
        <5>3. rest # << >>
          BY <2>6, <5>2, NoBlocks
        <5> QED
          BY <2>5, <3>2, <5>2, <5>3
      <4> HIDE DEF rest
      <4>2. decoded' = [rest EXCEPT ![1].left = @ - 1]
        BY <2>4, <3>2
      <4> QED
        BY <2>6, <4>1, <4>2, PortionTaken
    <3> QED
      BY <3>1, <3>2
  <2>9. Cardinality(WithData(decoded')) <= BUFFERED
    <3>1. /\ Cardinality(WithData(decoded)) \in Nat
          /\ Cardinality(WithData(rest)) \in Nat
          /\ Cardinality(WithData(decoded')) \in Nat
      BY <2>1, <2>6, <2>8, WithDataFinite
    <3> QED
      BY <1>1, <2>7, <2>8, <3>1, Constants DEF DecodedTyped
  <2> QED
    BY <1>1, <1>14, <2>8, <2>9 DEF GetBytes, DecodedTyped, WithData
<1>15. CASE UserNext
  BY <1>3, <1>15 DEF UserNext, Push, PushStop, SetRepeat, TogglePause,
                     SetStopAfterCurrent, Acts, buffers
<1>16. CASE UNCHANGED vars
  BY <1>3, <1>16 DEF vars, buffers
<1> QED
  BY <1>4, <1>5, <1>6, <1>7, <1>8, <1>9, <1>10, <1>11, <1>12, <1>13, <1>14,
     <1>15, <1>16, <1>17 DEF Next, StreamerNext, OutputNext

-----------------------------------------------------------------------------
(* The tracks.                                                             *)

MaybeTrack == {NoTrack} \cup Track

LEMMA ChosenTracks ==
  ASSUME NEW curr \in MaybeTrack, NEW mode, playing_track \in MaybeTrack
  PROVE  /\ NextTrack(curr, mode) \in MaybeTrack
         /\ PrevTrack(curr) \in MaybeTrack
         /\ Following(curr, mode) \in MaybeTrack
<1>1. TRACKS \in Nat \ {0}
  BY StreamerAssumption
<1>2. NextTrack(curr, mode) \in MaybeTrack
  BY <1>1 DEF NextTrack, MaybeTrack, Track, NoTrack
<1>3. PrevTrack(curr) \in MaybeTrack
  BY <1>1 DEF PrevTrack, MaybeTrack, Track, NoTrack
<1> QED
  BY <1>2, <1>3 DEF Following

LEMMA StreamTrackTracks ==
  ASSUME TracksTyped, NEW t \in MaybeTrack, NEW from \in MaybeTrack, NEW then,
         StreamTrack(t, from, then)
  PROVE  {playing_track', streaming_track', first_failed_track',
          buffering_track', opening'} \subseteq MaybeTrack
<1>1. CASE t # NoTrack /\ t = first_failed_track
  BY <1>1, Constants DEF StreamTrack, HandlePlaybackStopped, TracksTyped, MaybeTrack
<1>2. CASE t = NoTrack
  BY <1>2 DEF StreamTrack, TracksTyped, MaybeTrack, wait
<1>3. CASE t \notin {NoTrack, first_failed_track}
  BY <1>3 DEF StreamTrack, TracksTyped, MaybeTrack, wait
<1> QED
  BY <1>1, <1>2, <1>3

(* Only tracks of the playlist are opened.                                 *)
LEMMA OpenedTracks ==
  ASSUME TracksTyped, NEW t, NEW last \in MaybeTrack, Opened(t, last)
  PROVE  /\ t \in Track
         /\ streaming_track' = t
         /\ {last_played', first_failed_track'} \subseteq MaybeTrack
  BY Constants DEF Opened, TracksTyped, MaybeTrack

LEMMA PlayTrackTracks ==
  ASSUME TracksTyped, NEW t \in Track, PlayTrack(t),
         opening' = opening
  PROVE  TracksTyped'
<1>1. CASE t = first_failed_track
  BY <1>1 DEF PlayTrack, HandlePlaybackStopped, TracksTyped
<1>2. CASE t # first_failed_track
  <2>1. /\ Opened(t, t)
        /\ playing_track' = t
        /\ buffering_track' = t
    BY <1>2 DEF PlayTrack
  <2>2. /\ streaming_track' = t
        /\ {last_played', first_failed_track'} \subseteq MaybeTrack
    BY <2>1, OpenedTracks DEF MaybeTrack
  <2> QED
    BY <2>1, <2>2 DEF TracksTyped, MaybeTrack
<1> QED
  BY <1>1, <1>2

(* The request at the head of the queue is one the user can send.          *)
LEMMA TakenRequest ==
  ASSUME ControlTyped, NEW kind, Take(kind)
  PROVE  /\ Head(handler) \in Request
         /\ handler' \in Seq(Request)
         /\ kind = "play" => Head(handler).track \in Track
<1>1. handler \in Seq(Request) /\ handler # << >>
  BY DEF ControlTyped, Take
<1>2. Head(handler) \in Request /\ Tail(handler) \in Seq(Request)
  BY <1>1, HeadTailProperties
<1>3. handler' = Tail(handler) /\ Head(handler).kind = kind
  BY DEF Take
<1>4. kind = "play" => Head(handler).track \in Track
  BY <1>2, <1>3 DEF Request
<1> QED
  BY <1>2, <1>3, <1>4

(* Whatever happens, the players' tracks are tracks of the playlist.       *)
LEMMA TracksStep ==
  ASSUME IInv, [Next]_vars
  PROVE  TracksTyped'
<1>1. RingTyped /\ DecodedTyped /\ TracksTyped /\ ControlTyped
  BY DEF IInv, TypeOK
<1>2. /\ playing_track \in MaybeTrack /\ streaming_track \in MaybeTrack
      /\ last_played \in MaybeTrack /\ buffering_track \in MaybeTrack
      /\ opening \in MaybeTrack
  BY <1>1 DEF TracksTyped, MaybeTrack
<1>3. ASSUME UNCHANGED <<playing_track, streaming_track, last_played,
                         first_failed_track, buffering_track, opening>>
      PROVE  TracksTyped'
  BY <1>1, <1>3 DEF TracksTyped
<1>5. CASE PlayIndex
  <2>1. Head(handler).track \in Track
    BY <1>1, <1>5, TakenRequest DEF PlayIndex
  <2> QED
    BY <1>1, <1>5, <2>1, PlayTrackTracks DEF PlayIndex, PlayTrack, thread
<1>6. CASE PlayIndexStop
  BY <1>1, <1>6 DEF PlayIndexStop, HandlePlaybackStopped, TracksTyped, thread
<1>7. CASE PlayNext
  <2> DEFINE origin == IF buffering_track # NoTrack THEN buffering_track
                                                    ELSE last_played
             next   == IF Head(handler).kind = "next" THEN NextTrack(origin, repeat)
                                                      ELSE PrevTrack(origin)
  <2>1. origin \in MaybeTrack
    BY <1>2
  <2>2. next \in MaybeTrack
    <3> HIDE DEF origin
    <3> QED
      BY <1>2, <2>1, ChosenTracks
  <2>3. \/ next # NoTrack /\ PlayTrack(next)
        \/ /\ HandlePlaybackStopped(playing_track)
           /\ last_played' = NoTrack
           /\ UNCHANGED <<streaming_track, thread>>
    BY <1>7 DEF PlayNext
  <2> HIDE DEF next
  <2>4. CASE next # NoTrack /\ PlayTrack(next)
    <3>1. next \in Track /\ opening' = opening
      BY <2>2, <2>4 DEF MaybeTrack, PlayTrack, thread
    <3> QED
      BY <1>1, <2>4, <3>1, PlayTrackTracks
  <2>5. CASE /\ HandlePlaybackStopped(playing_track)
             /\ last_played' = NoTrack
             /\ UNCHANGED <<streaming_track, thread>>
    BY <1>1, <2>5 DEF HandlePlaybackStopped, TracksTyped, thread
  <2> QED
    BY <2>3, <2>4, <2>5
<1>8. CASE SeekBegin
  <2>1. \/ UNCHANGED <<playing_track, failing, wait, opening>>
        \/ StreamTrack(playing_track, streaming_track, "reopen")
    BY <1>8 DEF SeekBegin, thread
  <2>2. last_played' = last_played
    BY <1>8 DEF SeekBegin
  <2>3. CASE UNCHANGED <<playing_track, failing, wait, opening>>
    BY <1>3, <2>2, <2>3 DEF failing, wait
  <2>4. CASE StreamTrack(playing_track, streaming_track, "reopen")
    <3>1. {playing_track', streaming_track', first_failed_track',
           buffering_track', opening'} \subseteq MaybeTrack
      BY <1>1, <1>2, <2>4, StreamTrackTracks
    <3> QED
      BY <1>2, <2>2, <3>1 DEF TracksTyped, MaybeTrack
  <2> QED
    BY <2>1, <2>3, <2>4
<1>9. CASE SeekReopened \/ OpenDone
  <2>1. /\ Opened(opening, last_played)
        /\ opening' = NoTrack
        /\ UNCHANGED <<playing_track, wait>>
    BY <1>9 DEF SeekReopened, OpenDone
  <2>2. /\ streaming_track' \in Track
        /\ {last_played', first_failed_track'} \subseteq MaybeTrack
    BY <1>1, <1>2, <2>1, OpenedTracks
  <2> QED
    BY <1>2, <2>1, <2>2 DEF TracksTyped, MaybeTrack, wait
<1>10. CASE SeekDone
  BY <1>3, <1>10 DEF SeekDone, wait
<1>11. CASE Requeue
  <2>1. last_played' = last_played
    BY <1>11 DEF Requeue
  <2>2. /\ streaming_track' \in {streaming_track, playing_track}
        /\ UNCHANGED <<playing_track, first_failed_track, wait, opening>>
    BY <1>11 DEF Requeue
  <2> QED
    BY <1>1, <2>1, <2>2 DEF TracksTyped, wait
<1>4. CASE RequeueNext
  <2> DEFINE t == Following(streaming_track, repeat)
  <2>1. t \in MaybeTrack
    BY <1>2, ChosenTracks
  <2>2. StreamTrack(t, streaming_track, "open") /\ last_played' = last_played
    BY <1>4 DEF RequeueNext
  <2> HIDE DEF t
  <2>3. {playing_track', streaming_track', first_failed_track',
         buffering_track', opening'} \subseteq MaybeTrack
    BY <1>1, <1>2, <2>1, <2>2, StreamTrackTracks
  <2> QED
    BY <1>2, <2>2, <2>3 DEF TracksTyped, MaybeTrack
<1>12. CASE BeginRead \/ Idle \/ UpdateBufferingState \/ LetOutputGo \/ Buffered
  <2>1. /\ buffering_track' \in {buffering_track, NoTrack}
        /\ UNCHANGED <<playing_track, last_played, failing, opening>>
    BY <1>12 DEF BeginRead, Idle, Streams, UpdateBufferingState, LetOutputGo, Buffered, wait
  <2> QED
    BY <1>1, <2>1 DEF TracksTyped, failing
<1>13. CASE FinishRead
  BY <1>3, <1>13 DEF FinishRead, wait
<1>14. CASE EndOfStream
  <2> DEFINE t == IF stop_after_current THEN NoTrack
                  ELSE Following(streaming_track, repeat)
  <2>1. t \in MaybeTrack
    BY <1>2, ChosenTracks DEF MaybeTrack
  <2>2. StreamTrack(t, streaming_track, "open") /\ last_played' = last_played
    BY <1>14 DEF EndOfStream
  <2> HIDE DEF t
  <2>3. {playing_track', streaming_track', first_failed_track',
         buffering_track', opening'} \subseteq MaybeTrack
    BY <1>1, <1>2, <2>1, <2>2, StreamTrackTracks
  <2> QED
    BY <1>2, <2>2, <2>3 DEF TracksTyped, MaybeTrack
<1>15. CASE StopStalled
  BY <1>1, <1>15 DEF StopStalled, HandlePlaybackStopped, TracksTyped
<1>16. CASE Fill
  <2>1. /\ UNCHANGED <<streaming_track, last_played, opening>>
        /\ \/ HandlePlaybackStopped(playing_track)
           \/ UNCHANGED <<playing_track, wait, first_failed_track>>
           \/ UNCHANGED <<playing_track, buffering_track, first_failed_track>>
    BY <1>16 DEF Fill, thread
  <2>2. CASE HandlePlaybackStopped(playing_track)
    BY <1>1, <2>1, <2>2 DEF HandlePlaybackStopped, TracksTyped
  <2>3. CASE UNCHANGED <<playing_track, wait, first_failed_track>>
    BY <1>3, <2>1, <2>3 DEF wait
  <2>4. CASE UNCHANGED <<playing_track, buffering_track, first_failed_track>>
    BY <1>3, <2>1, <2>4
  <2> QED
    BY <2>1, <2>2, <2>3, <2>4
<1>17. CASE GetBytes
  <2>1. UNCHANGED <<failing, wait, opening>>
    BY <1>17 DEF GetBytes, thread
  <2>2. \/ UNCHANGED <<playing_track, last_played>>
        \/ \E i \in 1 .. Len(decoded) : Announce(decoded[i].track)
    <3> DEFINE firsts == {i \in 1 .. Visited : decoded[i].first}
    <3>1. \/ UNCHANGED <<playing_track, last_played>>
          \/ firsts # {} /\ Announce(decoded[Max(firsts)].track)
      BY <1>17 DEF GetBytes
    <3>2. Visited \in 0 .. Len(decoded) /\ Len(decoded) \in Nat
      BY <1>1, VisitedBounds, LenProperties DEF DecodedTyped
    <3>3. /\ firsts \in SUBSET Nat /\ firsts \subseteq 1 .. Len(decoded)
          /\ \A i \in firsts : i <= Visited
      BY <3>2
    <3> HIDE DEF firsts
    <3>4. firsts # {} => Max(firsts) \in firsts
      <4>1. Visited \in Nat
        BY <3>2
      <4> QED
        BY <3>3, <4>1, MaxOfBounded, Zenon
    <3> QED
      BY <3>1, <3>3, <3>4
  <2>3. {playing_track', last_played'} \subseteq MaybeTrack
    <3>1. CASE UNCHANGED <<playing_track, last_played>>
      BY <1>2, <3>1
    <3>2. ASSUME NEW i \in 1 .. Len(decoded), Announce(decoded[i].track)
          PROVE  {playing_track', last_played'} \subseteq MaybeTrack
      <4>1. decoded[i] \in DecodedBlock
        BY <1>1, ElementOfSeq DEF DecodedTyped
      <4> QED
        BY <3>2, <4>1 DEF Announce, DecodedBlock, MaybeTrack
    <3> QED
      BY <2>2, <3>1, <3>2
  <2> QED
    BY <1>1, <2>1, <2>3 DEF TracksTyped, MaybeTrack, failing, wait
<1>18. CASE UserNext
  BY <1>3, <1>18 DEF UserNext, Push, PushStop, SetRepeat, TogglePause,
                     SetStopAfterCurrent, Acts, failing, wait, thread
<1>19. CASE UNCHANGED vars
  BY <1>3, <1>19 DEF vars, failing, wait, thread
<1> QED
  BY <1>4, <1>5, <1>6, <1>7, <1>8, <1>9, <1>10, <1>11, <1>12, <1>13, <1>14,
     <1>15, <1>16, <1>17, <1>18, <1>19 DEF Next, StreamerNext, OutputNext

-----------------------------------------------------------------------------
(* Everything else.                                                        *)

LEMMA StreamTrackControl ==
  ASSUME buffering \in BOOLEAN, NEW t, NEW from, NEW then, StreamTrack(t, from, then)
  PROVE  /\ fileinfo' = NoFile
         /\ pc' \in {"loop", then}
         /\ buffering' \in BOOLEAN
<1>1. fileinfo' = NoFile /\ pc' \in {"loop", then}
  BY DEF StreamTrack
<1>2. \/ buffering' = (buffering /\ playing_track = NoTrack)
      \/ buffering' = buffering
  BY DEF StreamTrack, HandlePlaybackStopped, wait
<1>3. buffering' \in BOOLEAN
  <2>1. buffering' = buffering \/ buffering' = FALSE
    BY <1>2
  <2> QED
    BY <2>1
<1> QED
  BY <1>1, <1>3

LEMMA FileTyped ==
  /\ STREAM_MIN .. STREAM_MAX \subseteq 1 .. STREAM_MAX
  /\ NoFile \notin {Dummy} \cup 1 .. STREAM_MAX
  BY Constants DEF NoFile, Dummy

LEMMA OpenedControl ==
  ASSUME NEW t, NEW last, Opened(t, last)
  PROVE  fileinfo' \in {Dummy} \cup 1 .. STREAM_MAX
  BY FileTyped DEF Opened

LEMMA PlayTrackControl ==
  ASSUME buffering \in BOOLEAN, NEW t, PlayTrack(t)
  PROVE  /\ fileinfo' \in {NoFile, Dummy} \cup 1 .. STREAM_MAX
         /\ buffering' \in BOOLEAN
         /\ output' = "playing"
         /\ UNCHANGED thread
<1>1. CASE t = first_failed_track
  <2>1. fileinfo' = NoFile /\ HandlePlaybackStopped(t)
    BY <1>1 DEF PlayTrack
  <2>2. buffering' = buffering \/ buffering' = FALSE
    BY <2>1 DEF HandlePlaybackStopped
  <2> QED
    BY <2>1, <2>2 DEF PlayTrack
<1>2. CASE t # first_failed_track
  <2>1. Opened(t, t) /\ buffering' = TRUE
    BY <1>2 DEF PlayTrack
  <2> QED
    BY <2>1, OpenedControl DEF PlayTrack
<1> QED
  BY <1>1, <1>2

(* Where the streamer thread can be.                                       *)
Places == {"loop", "requeue", "counted", "buffered", "turn", "read", "eof",
           "open", "reopen", "seek"}

(* What the user and the streamer's requests can do to the rest.           *)
Requested ==
    /\ handler' \in Seq(Request)
    /\ {repeat', repeat_conf'} \subseteq RepeatModes
    /\ budget' \in 0 .. BUDGET
    /\ clearing' \in 0 .. BUDGET - budget'
    /\ audio_stall_count' \in 0 .. STALL_WAIT
    /\ stop_after_current' \in BOOLEAN
    /\ reader' \in {"idle", "get"}

LEMMA StopRequest ==
  LET stop == [kind |-> "stop", track |-> NoTrack]
  IN  stop \in Request /\ stop.kind = "stop"
  BY DEF Request

LEMMA TakeControl ==
  ASSUME ControlTyped, NEW kind, Take(kind)
  PROVE  Requested /\ pc = "loop"
<1>1. handler' \in Seq(Request)
  BY TakenRequest
<1>2. UNCHANGED <<clearing, budget, repeat_conf, audio_stall_count, control, reader>> /\ pc = "loop"
  BY DEF Take
<1> QED
  BY <1>1, <1>2 DEF Requested, ControlTyped, control

(* Whatever happens, the rest of the variables keep to their types.        *)
LEMMA ControlStep ==
  ASSUME IInv, [Next]_vars
  PROVE  ControlTyped'
<1>1. ControlTyped /\ RingTyped /\ DecodedTyped
  BY DEF IInv, TypeOK
<1>2. /\ buffering \in BOOLEAN /\ stop_after_current \in BOOLEAN
      /\ STALL_WAIT \in Nat \ {0}
  BY <1>1, Constants DEF ControlTyped
<1>3. ASSUME Requested,
             fileinfo' \in {NoFile, Dummy} \cup 1 .. STREAM_MAX,
             buffering' \in BOOLEAN,
             output' \in {"stopped", "playing", "paused"},
             pc' \in Places
      PROVE  ControlTyped'
  BY <1>3 DEF Requested, ControlTyped, Places
<1>4. ASSUME UNCHANGED <<audio_stall_count, control, user, reader>>
      PROVE  Requested
  BY <1>1, <1>4 DEF Requested, ControlTyped, control, user
<1>5. ASSUME NEW playing, HandlePlaybackStopped(playing)
      PROVE  buffering' \in BOOLEAN
  <2>1. buffering' = buffering \/ buffering' = FALSE
    BY <1>5 DEF HandlePlaybackStopped
  <2> QED
    BY <1>2, <2>1
<1>6. ASSUME NEW ready PROVE NeedsBuffering(ready) \in BOOLEAN
  BY DEF NeedsBuffering
<1>7. ASSUME StopAfterCurrentTriggered PROVE stop_after_current' \in BOOLEAN
  <2>1. stop_after_current' = stop_after_current \/ stop_after_current' = FALSE
    BY <1>7, StreamerAssumption DEF StopAfterCurrentTriggered
  <2> QED
    BY <1>2, <2>1
<1>8. /\ fileinfo \in {NoFile, Dummy} \cup 1 .. STREAM_MAX
      /\ output \in {"stopped", "playing", "paused"}
      /\ pc \in Places
      /\ audio_stall_count \in 0 .. STALL_WAIT
      /\ handler \in Seq(Request)
      /\ {repeat, repeat_conf} \subseteq RepeatModes
      /\ budget \in 0 .. BUDGET
      /\ clearing \in 0 .. BUDGET - budget
      /\ reader \in {"idle", "get"}
  BY <1>1 DEF ControlTyped, Places
<1>9. CASE PlayIndex
  <2>1. Requested /\ pc = "loop"
    BY <1>1, <1>9, TakeControl DEF PlayIndex
  <2>2. PlayTrack(Head(handler).track)
    BY <1>9 DEF PlayIndex
  <2>3. /\ fileinfo' \in {NoFile, Dummy} \cup 1 .. STREAM_MAX
        /\ buffering' \in BOOLEAN
        /\ output' = "playing"
        /\ UNCHANGED thread
    BY <1>2, <2>2, PlayTrackControl
  <2> QED
    BY <1>3, <2>1, <2>3 DEF thread, Places
<1>10. CASE PlayIndexStop
  <2>1. Requested /\ pc = "loop"
    BY <1>1, <1>10, TakeControl DEF PlayIndexStop
  <2>2. /\ HandlePlaybackStopped(playing_track)
        /\ output' = "stopped" /\ fileinfo' = NoFile /\ pc' = pc
    BY <1>10 DEF PlayIndexStop, thread
  <2> QED
    BY <1>3, <1>5, <2>1, <2>2 DEF Places
<1>11. CASE PlayNext
  <2>1. Requested /\ pc = "loop"
    BY <1>1, <1>11, TakeControl DEF PlayNext
  <2>2. \/ \E t : PlayTrack(t)
        \/ /\ HandlePlaybackStopped(playing_track)
           /\ output' = "stopped" /\ fileinfo' = fileinfo /\ pc' = pc
    BY <1>11 DEF PlayNext, thread
  <2>3. CASE \E t : PlayTrack(t)
    <3>1. /\ fileinfo' \in {NoFile, Dummy} \cup 1 .. STREAM_MAX
          /\ buffering' \in BOOLEAN
          /\ output' = "playing"
          /\ UNCHANGED thread
      BY <1>2, <2>3, PlayTrackControl
    <3> QED
      BY <1>3, <2>1, <3>1 DEF thread, Places
  <2>4. CASE /\ HandlePlaybackStopped(playing_track)
             /\ output' = "stopped" /\ fileinfo' = fileinfo /\ pc' = pc
    BY <1>3, <1>5, <1>8, <2>1, <2>4
  <2> QED
    BY <2>2, <2>3, <2>4
<1>12. CASE SeekBegin
  <2>1. Requested /\ pc = "loop" /\ output' = output
    BY <1>1, <1>12, TakeControl DEF SeekBegin
  <2>2. \/ UNCHANGED <<fileinfo, buffering>> /\ pc' \in {pc, "seek"}
        \/ StreamTrack(playing_track, streaming_track, "reopen")
    BY <1>12 DEF SeekBegin, failing, wait, thread
  <2>3. CASE UNCHANGED <<fileinfo, buffering>> /\ pc' \in {pc, "seek"}
    BY <1>2, <1>3, <1>8, <2>1, <2>3 DEF Places
  <2>4. CASE StreamTrack(playing_track, streaming_track, "reopen")
    <3>1. fileinfo' = NoFile /\ pc' \in {"loop", "reopen"} /\ buffering' \in BOOLEAN
      BY <1>2, <2>4, StreamTrackControl
    <3> QED
      BY <1>3, <1>8, <2>1, <3>1 DEF Places
  <2> QED
    BY <2>2, <2>3, <2>4
<1>13. CASE SeekReopened \/ OpenDone
  <2>1. /\ Opened(opening, last_played) /\ pc' \in {"seek", "loop"}
        /\ UNCHANGED <<buffering, output>>
        /\ UNCHANGED <<audio_stall_count, control, user, reader>>
    BY <1>13 DEF SeekReopened, OpenDone, wait
  <2>2. fileinfo' \in {Dummy} \cup 1 .. STREAM_MAX
    BY <2>1, OpenedControl
  <2> QED
    BY <1>2, <1>3, <1>4, <1>8, <2>1, <2>2 DEF Places
<1>14. CASE SeekDone
  <2>1. /\ fileinfo' \in 1 .. STREAM_MAX /\ pc' = "loop"
        /\ UNCHANGED <<buffering, output>>
        /\ UNCHANGED <<audio_stall_count, control, user, reader>>
    BY <1>14 DEF SeekDone, wait
  <2> QED
    BY <1>2, <1>3, <1>4, <1>8, <2>1 DEF Places
<1>15. CASE Requeue
  <2>1. /\ Requested /\ output' = output
        /\ pc = "loop"
    BY <1>1, <1>2, <1>8, <1>15 DEF Requeue, Requested, user
  <2>2. UNCHANGED <<fileinfo, buffering>> /\ pc' \in {pc, "loop", "requeue"}
    BY <1>15 DEF Requeue, wait
  <2> QED
    BY <1>2, <1>3, <1>8, <2>1, <2>2 DEF Places
<1>24. CASE UpdateBufferingState \/ LetOutputGo \/ Buffered
  <2>1. /\ buffering' \in {buffering, TRUE, FALSE}
        /\ pc' \in {"counted", "buffered", "turn"}
        /\ UNCHANGED <<fileinfo, output, audio_stall_count, control, user, reader>>
    BY <1>24 DEF UpdateBufferingState, LetOutputGo, Buffered, failing
  <2>2. buffering' \in BOOLEAN
    BY <1>2, <1>6, <2>1
  <2> QED
    BY <1>3, <1>4, <1>8, <2>1, <2>2 DEF Places
<1>16. CASE BeginRead \/ Idle
  <2>1. /\ pc' \in {"loop", "read"}
        /\ UNCHANGED <<fileinfo, buffering, output>>
        /\ UNCHANGED <<audio_stall_count, control, user, reader>>
    BY <1>16 DEF BeginRead, Idle, Streams, failing, wait
  <2> QED
    BY <1>2, <1>3, <1>4, <1>8, <2>1 DEF Places
<1>17. CASE FinishRead
  <2>1. /\ UNCHANGED <<buffering, output>>
        /\ UNCHANGED <<audio_stall_count, control, user, reader>>
        /\ pc' \in {"eof", "loop"}
        /\ \/ fileinfo' = fileinfo
           \/ fileinfo \notin {Dummy, 1} /\ fileinfo' = fileinfo - 1
    BY <1>17 DEF FinishRead, wait
  <2>2. fileinfo # NoFile
    BY <1>17 DEF IInv, DecoderTracked, FinishRead
  <2>3. fileinfo' \in {NoFile, Dummy} \cup 1 .. STREAM_MAX
    BY <1>8, <2>1, <2>2, Constants DEF NoFile, Dummy
  <2> QED
    BY <1>2, <1>3, <1>4, <1>8, <2>1, <2>3 DEF Places
<1>18. CASE EndOfStream \/ RequeueNext
  <2>1. /\ \E t, from : StreamTrack(t, from, "open")
        /\ UNCHANGED <<output, audio_stall_count, control, user, reader>>
    BY <1>18 DEF EndOfStream, RequeueNext
  <2>2. fileinfo' = NoFile /\ pc' \in {"loop", "open"} /\ buffering' \in BOOLEAN
    BY <1>2, <2>1, StreamTrackControl
  <2> QED
    BY <1>3, <1>4, <1>8, <2>1, <2>2 DEF Places
<1>19. CASE StopStalled
  <2>1. /\ output' = "stopped" /\ HandlePlaybackStopped(playing_track)
        /\ audio_stall_count' = 0
        /\ pc' = "loop"
        /\ UNCHANGED <<fileinfo, control, user, reader>>
    BY <1>19 DEF StopStalled, StopOutput
  <2>2. Requested
    BY <1>2, <1>8, <2>1 DEF Requested, control, user
  <2> QED
    BY <1>3, <1>5, <1>8, <2>1, <2>2 DEF Places
<1>20. CASE Fill
  <2>1. /\ UNCHANGED <<fileinfo, repeat, output, user, pc>>
        /\ reader' = "get"
    BY <1>20 DEF Fill, thread
  <2>2. /\ buffering' \in BOOLEAN
        /\ stop_after_current' \in BOOLEAN
    <3>1. \/ HandlePlaybackStopped(playing_track)
          \/ buffering' = buffering
          \/ buffering' = (DecodedNow > 0 /\ NeedsBuffering(Len(blocks')))
      BY <1>20 DEF Fill, wait
    <3>2. StopAfterCurrentTriggered \/ stop_after_current' = stop_after_current
      BY <1>20 DEF Fill
    <3> QED
      BY <1>2, <1>5, <1>7, <3>1, <3>2
  <2>3. audio_stall_count' \in 0 .. STALL_WAIT
    <3>1. Starved \/ audio_stall_count' \in {0, audio_stall_count}
      BY <1>20 DEF Fill
    <3>2. CASE Starved
      <4>1. Min({audio_stall_count + 1, STALL_WAIT}) \in 0 .. STALL_WAIT
        <5> DEFINE a == audio_stall_count + 1
        <5>1. a \in Nat /\ a >= 0
          BY <1>2, <1>8
        <5>2. CASE a <= STALL_WAIT
          <6>1. Min({a, STALL_WAIT}) = a
            BY <1>2, <5>1, <5>2 DEF Min
          <6> QED
            BY <1>2, <5>1, <5>2, <6>1
        <5>3. CASE a > STALL_WAIT
          <6>1. Min({a, STALL_WAIT}) = STALL_WAIT
            BY <1>2, <5>1, <5>3 DEF Min
          <6> QED
            BY <1>2, <6>1
        <5> QED
          BY <1>2, <5>1, <5>2, <5>3
      <4> QED
        BY <3>2, <4>1 DEF Starved
    <3>3. CASE audio_stall_count' \in {0, audio_stall_count}
      BY <1>2, <1>8, <3>3
    <3> QED
      BY <3>1, <3>2, <3>3
  <2>4. Requested
    BY <1>8, <2>1, <2>2, <2>3 DEF Requested, user
  <2> QED
    BY <1>3, <1>8, <2>1, <2>2, <2>4
<1>21. CASE GetBytes
  <2>1. /\ UNCHANGED <<fileinfo, buffering, audio_stall_count, repeat, output, user, pc>>
        /\ reader' = "idle"
        /\ StopAfterCurrentTriggered \/ stop_after_current' = stop_after_current
    BY <1>21 DEF GetBytes, failing, wait, thread
  <2>2. Requested
    BY <1>2, <1>7, <1>8, <2>1 DEF Requested, user
  <2> QED
    BY <1>2, <1>3, <1>8, <2>1, <2>2
<1>22. CASE UserNext
  <2>1. /\ UNCHANGED <<fileinfo, buffering, pc, audio_stall_count, repeat, reader>>
        /\ \/ /\ budget > 0 /\ budget' = budget - 1
              /\ clearing' \in {clearing, clearing + 1}
           \/ /\ clearing > 0 /\ clearing' = clearing - 1
              /\ budget' = budget
    BY <1>22 DEF UserNext, Push, PushStop, SetRepeat, TogglePause,
                 SetStopAfterCurrent, Acts, failing, wait, thread, control
  <2>2. output' \in {"stopped", "playing", "paused"} /\ stop_after_current' \in BOOLEAN
    BY <1>2, <1>8, <1>22
       DEF UserNext, Push, PushStop, SetRepeat, TogglePause, SetStopAfterCurrent,
           control
  <2>3. handler' \in Seq(Request)
    <3>1. \/ handler' \in {handler, << >>}
          \/ \E request \in Requests \cup {[kind |-> "stop", track |-> NoTrack]} :
                handler' = Append(handler, request)
      BY <1>22 DEF UserNext, Push, PushStop, SetRepeat, TogglePause, SetStopAfterCurrent
    <3>2. Requests \cup {[kind |-> "stop", track |-> NoTrack]} \subseteq Request
      BY StreamerAssumption, StopRequest
    <3>3. ASSUME NEW request \in Request
          PROVE  Append(handler, request) \in Seq(Request)
      BY <1>8, AppendProperties
    <3> QED
      BY <1>8, <3>1, <3>2, <3>3, NoBlocks
  <2>4. repeat_conf' \in RepeatModes
    BY <1>8, <1>22
       DEF UserNext, Push, PushStop, SetRepeat, TogglePause, SetStopAfterCurrent
  <2>5. budget' \in 0 .. BUDGET /\ clearing' \in 0 .. BUDGET - budget'
    <3>1. BUDGET \in Nat
      BY StreamerAssumption
    <3> QED
      BY <1>8, <2>1, <3>1
  <2>6. Requested
    BY <1>8, <2>1, <2>2, <2>3, <2>4, <2>5 DEF Requested
  <2> QED
    BY <1>2, <1>3, <1>8, <2>1, <2>2, <2>6
<1>23. CASE UNCHANGED vars
  BY <1>1, <1>23 DEF vars, control, user, failing, wait, thread, ControlTyped
<1> QED
  BY <1>9, <1>10, <1>11, <1>12, <1>13, <1>14, <1>15, <1>16, <1>17, <1>18,
     <1>19, <1>20, <1>21, <1>22, <1>23, <1>24 DEF Next, StreamerNext, OutputNext

-----------------------------------------------------------------------------
(* A decoder belongs to a track, and the output is held back.              *)

LEMMA TrackedStep ==
  ASSUME IInv, [Next]_vars
  PROVE  DecoderTracked'
<1>1. DecoderTracked /\ TracksTyped /\ RingTyped
  BY DEF IInv, TypeOK
<1>2. ASSUME UNCHANGED <<fileinfo, streaming_track, pc>>,
             pc = "read" => UNCHANGED blocks
      PROVE  DecoderTracked'
  BY <1>1, <1>2 DEF DecoderTracked
<1>3. ASSUME fileinfo' = NoFile, pc' \in {"loop", "open", "reopen"}
      PROVE  DecoderTracked'
  BY <1>3 DEF DecoderTracked
<1>4. ASSUME NEW t, NEW last, Opened(t, last), pc' \in {"loop", "seek"}
      PROVE  DecoderTracked'
  <2>1. streaming_track' # NoTrack
    BY <1>4, Constants DEF Opened
  <2> QED
    BY <1>4, <2>1 DEF DecoderTracked
<1>5. ASSUME NEW t, NEW from, NEW then \in {"open", "reopen"},
             StreamTrack(t, from, then)
      PROVE  DecoderTracked'
  <2>1. fileinfo' = NoFile /\ pc' \in {"loop", then}
    BY <1>5 DEF StreamTrack
  <2> QED
    BY <1>3, <2>1
<1>6. ASSUME NEW t, PlayTrack(t), pc = "loop" PROVE DecoderTracked'
  <2>1. pc' = "loop" /\ (fileinfo' = NoFile \/ Opened(t, t))
    BY <1>6 DEF PlayTrack, thread
  <2> QED
    BY <1>3, <1>4, <2>1
<1>7. CASE PlayIndex
  BY <1>6, <1>7 DEF PlayIndex, Take
<1>8. CASE PlayIndexStop
  BY <1>3, <1>8 DEF PlayIndexStop, Take, thread
<1>9. CASE PlayNext
  <2>1. /\ pc = "loop"
        /\ \/ \E t : PlayTrack(t)
           \/ UNCHANGED <<fileinfo, streaming_track, pc>>
    BY <1>9 DEF PlayNext, Take, thread
  <2> QED
    BY <1>2, <1>6, <2>1
<1>10. CASE SeekBegin
  <2>1. pc = "loop"
    BY <1>10 DEF SeekBegin, Take
  <2>2. \/ UNCHANGED <<fileinfo, streaming_track, pc>>
        \/ /\ UNCHANGED <<fileinfo, streaming_track>>
           /\ fileinfo # NoFile /\ pc' = "seek"
        \/ StreamTrack(playing_track, streaming_track, "reopen")
    BY <1>10 DEF SeekBegin, failing, thread
  <2>3. CASE /\ UNCHANGED <<fileinfo, streaming_track>>
             /\ fileinfo # NoFile /\ pc' = "seek"
    BY <1>1, <2>3 DEF DecoderTracked
  <2> QED
    BY <1>2, <1>5, <2>1, <2>2, <2>3
<1>11. CASE SeekReopened
  BY <1>4, <1>11 DEF SeekReopened
<1>12. CASE SeekDone
  <2>1. /\ streaming_track # NoTrack
        /\ streaming_track' = streaming_track
        /\ pc' = "loop"
    BY <1>1, <1>12 DEF SeekDone, DecoderTracked
  <2> QED
    BY <2>1 DEF DecoderTracked
<1>13. CASE Requeue
  <2>1. /\ pc = "loop" /\ fileinfo' = fileinfo
        /\ pc' \in {"loop", "requeue"}
        /\ \/ streaming_track' = streaming_track
           \/ streaming_track' # NoTrack
    BY <1>13 DEF Requeue
  <2> QED
    BY <1>1, <2>1 DEF DecoderTracked
<1>24. CASE UpdateBufferingState \/ LetOutputGo \/ Buffered \/ Idle
  <2>1. /\ pc' \in {"loop", "counted", "buffered", "turn"}
        /\ UNCHANGED <<fileinfo, streaming_track>>
    BY <1>24 DEF UpdateBufferingState, LetOutputGo, Buffered, Idle, failing
  <2> QED
    BY <1>1, <2>1 DEF DecoderTracked
<1>14. CASE BeginRead
  <2>1. /\ fileinfo # NoFile /\ Len(blocks) < RING
        /\ UNCHANGED <<fileinfo, streaming_track, blocks>>
        /\ pc' = "read"
    BY <1>14 DEF BeginRead, failing
  <2> QED
    BY <1>1, <2>1 DEF DecoderTracked
<1>15. CASE FinishRead
  <2>1. /\ streaming_track # NoTrack /\ streaming_track' = streaming_track
        /\ pc' \in {"eof", "loop"}
    BY <1>1, <1>15 DEF FinishRead, DecoderTracked
  <2> QED
    BY <2>1 DEF DecoderTracked
<1>16. CASE EndOfStream \/ RequeueNext
  BY <1>5, <1>16 DEF EndOfStream, RequeueNext
<1>17. CASE OpenDone
  BY <1>4, <1>17 DEF OpenDone
<1>19. CASE StopStalled
  BY <1>3, <1>19 DEF StopStalled
<1>20. CASE Fill
  <2>1. UNCHANGED <<fileinfo, streaming_track, pc>>
    BY <1>20 DEF Fill, thread
  <2>2. pc = "read" => Len(blocks') <= Len(blocks) /\ Len(blocks') \in Nat
    <3>1. /\ blocks \in Seq(StreamBlock) /\ Len(blocks) \in Nat
      BY <1>1, LenProperties DEF RingTyped
    <3>2. \/ blocks' = blocks
          \/ blocks' = SubSeq(blocks, DecodedNow + 1, Len(blocks))
      BY <1>20 DEF Fill
    <3>3. DecodedNow \in 0 .. Len(blocks)
      BY <1>1, DecodedNowBounds DEF IInv, TypeOK
    <3>4. CASE blocks' = SubSeq(blocks, DecodedNow + 1, Len(blocks))
      BY <3>1, <3>3, <3>4, SubSeqProperties
    <3> QED
      BY <3>1, <3>2, <3>4
  <2>3. Len(blocks) \in Nat /\ RING \in Nat
    BY <1>1, LenProperties, Constants DEF RingTyped
  <2> QED
    BY <1>1, <2>1, <2>2, <2>3 DEF DecoderTracked
<1>21. CASE GetBytes
  BY <1>2, <1>21 DEF GetBytes, ring, failing, thread
<1>22. CASE UserNext
  BY <1>2, <1>22 DEF UserNext, Push, PushStop, SetRepeat, TogglePause,
                     SetStopAfterCurrent, Acts, buffers, ring, failing, thread
<1>23. CASE UNCHANGED vars
  BY <1>2, <1>23 DEF vars, buffers, ring, failing, thread
<1> QED
  BY <1>7, <1>8, <1>9, <1>10, <1>11, <1>12, <1>13, <1>14, <1>15, <1>16, <1>17,
     <1>19, <1>20, <1>21, <1>22, <1>23, <1>24 DEF Next, StreamerNext, OutputNext

(* Nothing decoded, nothing announced.                                     *)
LEMMA NothingAnnounced ==
  ASSUME DecodedTyped, GetBytes, decoded = << >>
  PROVE  playing_track' = playing_track /\ decoded' = << >>
<1>1. Visited \in 0 .. Len(decoded) /\ Len(decoded) = 0
  BY VisitedBounds, NoBlocks
<1>2. Visited = 0
  BY <1>1
<1>3. {i \in 1 .. Visited : decoded[i].first} = {}
  BY <1>2
<1>4. decoded' = SubSeq(decoded, 1, Len(decoded))
  BY <1>1, <1>2 DEF GetBytes
<1> QED
  BY <1>1, <1>3, <1>4, SubSeqFull DEF GetBytes

LEMMA WaitsStep ==
  ASSUME IInv, [Next]_vars
  PROVE  Waits'
<1>1. /\ Waits /\ buffering \in BOOLEAN /\ DecodedTyped /\ ControlTyped
      /\ (pc' = "buffered") \in BOOLEAN
  BY DEF IInv, TypeOK, ControlTyped
<1>2. ASSUME UNCHANGED <<wait, playing_track, decoded>>,
             pc' = pc \/ pc # "buffered"
      PROVE  Waits'
  BY <1>1, <1>2 DEF Waits, wait
<1>3. ASSUME buffering_track' = NoTrack PROVE Waits'
  BY <1>3 DEF Waits
<1>4. ASSUME HandlePlaybackStopped(playing_track), pc' = pc \/ pc # "buffered",
             decoded' = decoded \/ decoded' = << >>
      PROVE  Waits'
  <2>1. CASE playing_track # NoTrack
    BY <1>3, <1>4, <2>1 DEF HandlePlaybackStopped
  <2>2. CASE playing_track = NoTrack /\ pc # "buffered"
    <3>1. buffering_track = NoTrack
      BY <1>1, <2>2 DEF Waits
    <3> QED
      BY <1>3, <1>4, <2>2, <3>1 DEF HandlePlaybackStopped
  <2>3. CASE pc' = "buffered"
    BY <2>3 DEF Waits
  <2> QED
    BY <1>4, <2>1, <2>2, <2>3
<1>5. ASSUME NEW t, NEW from, NEW then, StreamTrack(t, from, then),
             decoded' = decoded, pc # "buffered"
      PROVE  Waits'
  BY <1>2, <1>4, <1>5 DEF StreamTrack
<1>6. ASSUME NEW t, t # NoTrack, PlayTrack(t) PROVE Waits'
  <2>1. CASE HandlePlaybackStopped(t)
    BY <1>3, <1>6, <2>1 DEF HandlePlaybackStopped
  <2>2. CASE playing_track' = t /\ buffering' = TRUE /\ buffering_track' = t
    BY <1>6, <2>2 DEF Waits, PlayTrack, Reset
  <2> QED
    BY <1>6, <2>1, <2>2 DEF PlayTrack
<1>7. CASE PlayIndex
  <2>1. Head(handler).track \in Track
    BY <1>1, <1>7, TakenRequest DEF PlayIndex
  <2> QED
    BY <1>6, <1>7, <2>1, Constants DEF PlayIndex
<1>8. CASE PlayIndexStop
  BY <1>4, <1>8 DEF PlayIndexStop, Reset, thread
<1>9. CASE PlayNext
  BY <1>4, <1>6, <1>9 DEF PlayNext, Reset, thread
<1>10. CASE SeekBegin
  BY <1>2, <1>5, <1>10 DEF SeekBegin, Take, buffers
<1>11. CASE SeekReopened \/ OpenDone \/ FinishRead \/ BeginRead \/ Idle
  BY <1>2, <1>11 DEF SeekReopened, OpenDone, FinishRead, BeginRead, Idle,
                     Streams, buffers
<1>12. CASE SeekDone
  <2>1. /\ UNCHANGED <<wait, playing_track>> /\ pc = "seek"
        /\ decoded' = decoded \/ decoded' = << >>
    BY <1>12 DEF SeekDone, Reset, buffers
  <2> QED
    BY <1>1, <2>1 DEF Waits, wait
<1>13. CASE Requeue
  BY <1>2, <1>13 DEF Requeue
<1>14. CASE RequeueNext \/ EndOfStream
  BY <1>5, <1>14 DEF RequeueNext, EndOfStream, buffers
<1>15. CASE UpdateBufferingState
  <2>1. /\ UNCHANGED <<buffering_track, playing_track, decoded>> /\ pc = "loop"
        /\ buffering' = buffering \/ buffering' = TRUE
    BY <1>15 DEF UpdateBufferingState, buffers
  <2> QED
    BY <1>1, <2>1 DEF Waits
<1>22. CASE LetOutputGo
  <2>1. /\ UNCHANGED <<buffering_track, playing_track, decoded>>
        /\ pc = "counted"
        /\ buffering => pc' = "buffered"
        /\ ~ buffering => buffering' = buffering
    BY <1>1, <1>22 DEF LetOutputGo, buffers
  <2> QED
    BY <1>1, <2>1 DEF Waits
<1>16. CASE Buffered
  BY <1>3, <1>16 DEF Buffered
<1>17. CASE StopStalled
  BY <1>4, <1>17 DEF StopStalled, StopOutput, Reset, buffers
<1>18. CASE Fill
  <2>1. ~ buffering /\ pc' = pc
    BY <1>18 DEF Fill, thread
  <2>2. CASE pc = "buffered"
    BY <2>1, <2>2 DEF Waits
  <2>3. CASE pc # "buffered"
    <3>1. buffering_track = NoTrack
      BY <1>1, <2>1, <2>3 DEF Waits
    <3>2. buffering_track' = NoTrack
      BY <1>18, <3>1 DEF Fill, HandlePlaybackStopped, wait
    <3> QED
      BY <1>3, <3>2
  <2> QED
    BY <2>2, <2>3
<1>19. CASE GetBytes
  <2>1. UNCHANGED <<wait, pc>>
    BY <1>19 DEF GetBytes, thread
  <2>2. CASE decoded = << >>
    <3>1. playing_track' = playing_track /\ decoded' = decoded
      BY <1>1, <1>19, <2>2, NothingAnnounced
    <3> QED
      BY <1>2, <2>1, <3>1
  <2>3. CASE decoded # << >>
    BY <1>1, <2>1, <2>3 DEF Waits, wait
  <2> QED
    BY <2>2, <2>3
<1>20. CASE UserNext
  BY <1>2, <1>20 DEF UserNext, Push, PushStop, SetRepeat, TogglePause,
                     SetStopAfterCurrent, Acts, buffers, thread
<1>21. CASE UNCHANGED vars
  BY <1>2, <1>21 DEF vars, buffers, thread
<1> QED
  BY <1>7, <1>8, <1>9, <1>10, <1>11, <1>12, <1>13, <1>14, <1>15, <1>16, <1>17,
     <1>18, <1>19, <1>20, <1>21, <1>22 DEF Next, StreamerNext, OutputNext

-----------------------------------------------------------------------------
(* The theorems.                                                           *)

LEMMA IInvStep == IInv /\ [Next]_vars => IInv'
  BY RingStep, DecodedStep, TracksStep, ControlStep, TrackedStep, WaitsStep
     DEF IInv, TypeOK

LEMMA IInvAlways == Spec => []IInv
  BY InitIInv, IInvStep, PTL DEF Spec

(* Types are kept, the ring never holds more blocks than it has and the    *)
(* playback buffer never more data than it takes, whatever is requested    *)
(* and however the two threads interleave (streamer.c).                    *)
THEOREM TypeCorrect == Spec => []TypeOK
<1>1. IInv => TypeOK
  BY DEF IInv
<1> QED
  BY <1>1, IInvAlways, PTL

(* No block is read on behalf of no track: the assertion of                *)
(* streamreader_enqueue_block.                                             *)
THEOREM DecoderHasTrack == Spec => []EnqueuedHasTrack
<1>1. IInv => EnqueuedHasTrack
  BY DEF IInv, DecoderTracked, EnqueuedHasTrack
<1> QED
  BY <1>1, IInvAlways, PTL

(* Wherever a request can be handled, a track that is waiting to be        *)
(* buffered is the one playing and the output is held back, so next and    *)
(* previous never count from a track the output has left behind, although  *)
(* the output may read, announce and stop between the two steps that end   *)
(* buffering (play_next, _play_track, _update_buffering_state).            *)
THEOREM RequestHeldBack == Spec => []BufferingHoldsOutput
<1>1. IInv => BufferingHoldsOutput
  BY DEF IInv, Waits, BufferingHoldsOutput
<1> QED
  BY <1>1, IInvAlways, PTL

-----------------------------------------------------------------------------
(* The origin of next and previous.                                        *)

(* Where no track fails to open, the player and the origin change together.*)
LEMMA LastPlayedStep ==
  ASSUME MayFail = {}, LastPlayedIsPlaying, [Next]_vars
  PROVE  LastPlayedIsPlaying'
<1>1. ASSUME UNCHANGED <<playing_track, last_played>> PROVE LastPlayedIsPlaying'
  BY <1>1 DEF LastPlayedIsPlaying
<1>2. ASSUME NEW playing, HandlePlaybackStopped(playing) PROVE LastPlayedIsPlaying'
  BY <1>2 DEF LastPlayedIsPlaying, HandlePlaybackStopped
<1>3. ASSUME NEW t, Opened(t, last_played) PROVE last_played' = last_played
  BY <1>3 DEF Opened
<1>4. ASSUME NEW t, NEW from, NEW then, StreamTrack(t, from, then),
             UNCHANGED last_played
      PROVE  LastPlayedIsPlaying'
  BY <1>1, <1>2, <1>4 DEF StreamTrack
<1>5. ASSUME NEW t, PlayTrack(t) PROVE LastPlayedIsPlaying'
  <2>1. HandlePlaybackStopped(t) \/ (playing_track' = t /\ last_played' = t)
    BY <1>5 DEF PlayTrack, Opened
  <2> QED
    BY <1>2, <2>1 DEF LastPlayedIsPlaying
<1>6. CASE PlayIndex
  BY <1>5, <1>6 DEF PlayIndex
<1>7. CASE PlayIndexStop
  BY <1>2, <1>7 DEF PlayIndexStop
<1>8. CASE PlayNext
  BY <1>2, <1>5, <1>8 DEF PlayNext
<1>9. CASE SeekBegin
  BY <1>1, <1>4, <1>9 DEF SeekBegin
<1>10. CASE SeekReopened \/ OpenDone
  BY <1>1, <1>3, <1>10 DEF SeekReopened, OpenDone
<1>11. CASE SeekDone \/ FinishRead \/ BeginRead \/ Idle
  BY <1>1, <1>11 DEF SeekDone, FinishRead, BeginRead, Idle, Streams
<1>12. CASE Requeue \/ UpdateBufferingState \/ LetOutputGo \/ Buffered
  BY <1>1, <1>12 DEF Requeue, UpdateBufferingState, LetOutputGo, Buffered
<1>13. CASE EndOfStream \/ RequeueNext
  BY <1>4, <1>13 DEF EndOfStream, RequeueNext
<1>14. CASE StopStalled
  BY <1>2, <1>14 DEF StopStalled
<1>15. CASE Fill
  <2>1. \/ HandlePlaybackStopped(playing_track)
        \/ UNCHANGED <<playing_track, last_played>>
    BY <1>15 DEF Fill
  <2> QED
    BY <1>1, <1>2, <2>1
<1>16. CASE GetBytes
  <2>1. \/ UNCHANGED <<playing_track, last_played>>
        \/ \E t : Announce(t)
    BY <1>16 DEF GetBytes
  <2> QED
    BY <1>1, <2>1 DEF Announce, LastPlayedIsPlaying
<1>17. CASE UserNext
  BY <1>1, <1>17 DEF UserNext, Push, PushStop, SetRepeat, TogglePause,
                     SetStopAfterCurrent, Acts
<1>18. CASE UNCHANGED vars
  BY <1>1, <1>18 DEF vars
<1> QED
  BY <1>6, <1>7, <1>8, <1>9, <1>10, <1>11, <1>12, <1>13, <1>14, <1>15, <1>16,
     <1>17, <1>18 DEF Next, StreamerNext, OutputNext

(* As long as every track can be opened, next and previous count from the  *)
(* track the player says is playing, whatever is requested and whenever    *)
(* (play_next, streamer_start_playback).                                   *)
THEOREM OriginIsPlaying ==
  ASSUME MayFail = {}
  PROVE  Spec => []LastPlayedIsPlaying
<1>1. Init => LastPlayedIsPlaying
  BY DEF Init, LastPlayedIsPlaying
<1>2. LastPlayedIsPlaying /\ [Next]_vars => LastPlayedIsPlaying'
  BY LastPlayedStep
<1> QED
  BY <1>1, <1>2, PTL DEF Spec

-----------------------------------------------------------------------------
(* What is decoded and not yet heard, as one sequence.                     *)

SameMarks(a, b) == a.track = b.track /\ a.first = b.first /\ a.last = b.last

(* The decoded blocks come first, then those of the ring.                  *)
LEMMA AheadElements ==
  ASSUME NEW d \in Seq(DecodedBlock), NEW b \in Seq(StreamBlock)
  PROVE  /\ Len(d \o b) = Len(d) + Len(b)
         /\ Len(d) \in Nat /\ Len(b) \in Nat
         /\ \A i \in 1 .. Len(d) : (d \o b)[i] = d[i]
         /\ \A i \in Len(d) + 1 .. Len(d) + Len(b) : (d \o b)[i] = b[i - Len(d)]
<1> DEFINE S == DecodedBlock \cup StreamBlock
<1>1. d \in Seq(S) /\ b \in Seq(S)
  <2>1. /\ d \in [1 .. Len(d) -> DecodedBlock] /\ Len(d) \in Nat
        /\ b \in [1 .. Len(b) -> StreamBlock] /\ Len(b) \in Nat
    BY LenProperties
  <2>2. d \in [1 .. Len(d) -> S] /\ b \in [1 .. Len(b) -> S]
    BY <2>1
  <2> HIDE DEF S
  <2> QED
    BY <2>1, <2>2, IsASeq
<1> HIDE DEF S
<1>2. Len(d) \in Nat /\ Len(b) \in Nat
  BY LenProperties
<1>3. /\ Len(d \o b) = Len(d) + Len(b)
      /\ \A i \in 1 .. Len(d) + Len(b) :
           (d \o b)[i] = IF i <= Len(d) THEN d[i] ELSE b[i - Len(d)]
  BY <1>1, ConcatProperties
<1> QED
  BY <1>2, <1>3

(* Decoding moves blocks from the ring to the decoded ones: nothing is     *)
(* lost, and the track and the flags stay with them.                       *)
LEMMA FillMoves ==
  ASSUME IInv, Fill
  PROVE  /\ Len(Ahead') = Len(Ahead)
         /\ \A i \in 1 .. Len(Ahead) : SameMarks(Ahead'[i], Ahead[i])
<1>1. blocks \in Seq(StreamBlock) /\ decoded \in Seq(DecodedBlock)
  BY DEF IInv, TypeOK, RingTyped, DecodedTyped
<1>2. CASE UNCHANGED <<blocks, decoded>>
  BY <1>2 DEF Ahead, SameMarks
<1>3. CASE /\ decoded' = decoded \o [i \in 1 .. DecodedNow |-> Decode(blocks[i])]
           /\ blocks' = SubSeq(blocks, DecodedNow + 1, Len(blocks))
  <2> DEFINE D == DecodedNow
             t == [i \in 1 .. D |-> Decode(blocks[i])]
             m == Len(decoded)
  <2>1. D \in 0 .. Len(blocks) /\ Len(blocks) \in Nat /\ m \in Nat
    BY <1>1, DecodedNowBounds, LenProperties DEF IInv, TypeOK
  <2>2. decoded' \in Seq(DecodedBlock)
    BY <1>3, FillDecodes DEF IInv, TypeOK
  <2> HIDE DEF D
  <2>3. /\ blocks' \in Seq(StreamBlock)
        /\ Len(blocks') = Len(blocks) - D
        /\ \A i \in 1 .. Len(blocks) - D : blocks'[i] = blocks[D + i]
    <3>1. blocks' = SubSeq(blocks, D + 1, Len(blocks))
      BY <1>3 DEF D
    <3> QED
      BY <1>1, <2>1, <3>1, SubSeqProperties
  <2>4. t \in Seq(DecodedBlock) /\ Len(t) = D
    <3>1. ASSUME NEW i \in 1 .. D PROVE Decode(blocks[i]) \in DecodedBlock
      <4>1. blocks[i] \in StreamBlock
        BY <1>1, <2>1, ElementOfSeq
      <4>2. (IF blocks[i].data THEN READS ELSE 0) \in 0 .. READS
        BY Constants
      <4> QED
        BY <4>1, <4>2 DEF Decode, StreamBlock, DecodedBlock
    <3>2. t \in [1 .. D -> DecodedBlock]
      BY <3>1
    <3> QED
      BY <2>1, <3>2
  <2>5. /\ Len(decoded') = m + D
        /\ \A i \in 1 .. m + D :
             decoded'[i] = IF i <= m THEN decoded[i] ELSE t[i - m]
    <3>1. decoded' = decoded \o t
      BY <1>3 DEF t, D
    <3> HIDE DEF t
    <3> QED
      BY <1>1, <2>4, <3>1, ConcatProperties
  <2>6. \A i \in 1 .. D : SameMarks(t[i], blocks[i])
    BY DEF SameMarks, Decode
  <2> HIDE DEF t
  <2>7. /\ Len(Ahead) = m + Len(blocks)
        /\ \A i \in 1 .. m : Ahead[i] = decoded[i]
        /\ \A i \in m + 1 .. m + Len(blocks) : Ahead[i] = blocks[i - m]
    BY <1>1, AheadElements DEF Ahead
  <2>8. /\ Len(Ahead') = (m + D) + (Len(blocks) - D)
        /\ \A i \in 1 .. m + D : Ahead'[i] = decoded'[i]
        /\ \A i \in m + D + 1 .. (m + D) + (Len(blocks) - D) :
             Ahead'[i] = blocks'[i - (m + D)]
    <3>1. /\ Len(decoded' \o blocks') = Len(decoded') + Len(blocks')
          /\ \A i \in 1 .. Len(decoded') : (decoded' \o blocks')[i] = decoded'[i]
          /\ \A i \in Len(decoded') + 1 .. Len(decoded') + Len(blocks') :
               (decoded' \o blocks')[i] = blocks'[i - Len(decoded')]
      BY <2>2, <2>3, AheadElements
    <3> HIDE DEF m
    <3> QED
      BY <2>3, <2>5, <3>1 DEF Ahead
  <2>9. ASSUME NEW i \in 1 .. Len(Ahead) PROVE SameMarks(Ahead'[i], Ahead[i])
    <3>1. i \in 1 .. m + Len(blocks)
      BY <2>7
    <3>2. CASE i <= m
      <4>1. Ahead'[i] = decoded[i] /\ Ahead[i] = decoded[i]
        BY <2>1, <2>5, <2>7, <2>8, <3>1, <3>2, SMTT(30)
      <4> QED
        BY <4>1 DEF SameMarks
    <3>3. CASE i > m /\ i <= m + D
      <4>1. Ahead'[i] = t[i - m] /\ Ahead[i] = blocks[i - m] /\ i - m \in 1 .. D
        BY <2>1, <2>5, <2>7, <2>8, <3>1, <3>3
      <4> QED
        BY <2>6, <4>1
    <3>4. CASE i > m + D
      <4> HIDE DEF m
      <4>1. Ahead[i] = blocks[i - m] /\ i - (m + D) \in 1 .. Len(blocks) - D
        BY <2>1, <2>7, <3>1, <3>4
      <4>2. Ahead'[i] = blocks'[i - (m + D)]
        BY <2>1, <2>8, <3>1, <3>4, SMTT(30)
      <4>3. Ahead'[i] = blocks[D + (i - (m + D))]
        BY <2>3, <4>1, <4>2
      <4>4. D + (i - (m + D)) = i - m
        BY <2>1, <3>1
      <4> QED
        BY <4>1, <4>3, <4>4 DEF SameMarks
    <3> QED
      BY <2>1, <3>1, <3>2, <3>3, <3>4
  <2> QED
    BY <2>1, <2>7, <2>8, <2>9
<1> QED
  BY <1>2, <1>3 DEF Fill

(* Taking bytes drops some decoded blocks at the front; those that stay    *)
(* keep their track and their flags.                                       *)
Drops(k) ==
    /\ k \in 0 .. Len(Ahead)
    /\ Len(Ahead') = Len(Ahead) - k
    /\ \A i \in 1 .. Len(Ahead) - k : SameMarks(Ahead'[i], Ahead[k + i])

(* What _streamer_get_bytes does to the decoded blocks.                    *)
Used == IF Visited > 0 /\ decoded[Visited].left > 1 THEN Visited - 1 ELSE Visited

LEMMA GetBytesDecoded ==
  ASSUME IInv, GetBytes
  PROVE  /\ Used \in 0 .. Len(decoded)
         /\ decoded' \in Seq(DecodedBlock)
         /\ Len(decoded') = Len(decoded) - Used
         /\ \A i \in 1 .. Len(decoded) - Used :
              SameMarks(decoded'[i], decoded[Used + i])
<1> DEFINE n == Visited
           k == Used
           rest == SubSeq(decoded, k + 1, Len(decoded))
<1>1. decoded \in Seq(DecodedBlock) /\ Len(decoded) \in Nat
  BY LenProperties DEF IInv, TypeOK, DecodedTyped
<1>2. n \in 0 .. Len(decoded)
  BY VisitedBounds DEF IInv, TypeOK
<1>3. decoded' = IF k = n THEN rest ELSE [rest EXCEPT ![1].left = @ - 1]
  BY DEF GetBytes, Used
<1>4. k \in 0 .. Len(decoded) /\ (k # n => k + 1 = n /\ decoded[n].left > 1)
  BY <1>1, <1>2 DEF Used
<1> HIDE DEF k, n
<1>5. /\ rest \in Seq(DecodedBlock)
      /\ Len(rest) = Len(decoded) - k
      /\ \A i \in 1 .. Len(decoded) - k : rest[i] = decoded[k + i]
  BY <1>1, <1>4, SubSeqProperties
<1> HIDE DEF rest
<1>6. CASE k = n
  BY <1>3, <1>4, <1>5, <1>6 DEF SameMarks, k
<1>7. CASE k # n
  <2> DEFINE b == [rest[1] EXCEPT !.left = rest[1].left - 1]
  <2>1. 1 \in 1 .. Len(rest) /\ rest[1] = decoded[n] /\ rest # << >>
    BY <1>1, <1>2, <1>4, <1>5, <1>7
  <2>2. rest[1] \in DecodedBlock /\ rest[1].left > 1
    BY <1>4, <1>5, <1>7, <2>1, ElementOfSeq
  <2>3. decoded' \in Seq(DecodedBlock)
    BY <1>3, <1>5, <1>7, <2>1, <2>2, PortionTaken
  <2>4. decoded' = [rest EXCEPT ![1] = b] /\ DOMAIN rest = 1 .. Len(rest)
    BY <1>3, <1>5, <1>7, LenProperties
  <2>5. /\ Len(decoded') = Len(rest)
        /\ \A i \in 1 .. Len(rest) : decoded'[i] = IF i = 1 THEN b ELSE rest[i]
    <3>1. DOMAIN decoded' = 1 .. Len(rest)
      BY <2>4
    <3>2. Len(decoded') \in Nat /\ DOMAIN decoded' = 1 .. Len(decoded') /\ Len(rest) \in Nat
      BY <1>5, <2>3, LenProperties
    <3> HIDE DEF b
    <3> QED
      BY <2>4, <3>1, <3>2
  <2>6. SameMarks(b, rest[1])
    BY <2>2 DEF SameMarks, DecodedBlock
  <2>7. \A i \in 1 .. Len(rest) : SameMarks(decoded'[i], rest[i])
    <3> HIDE DEF b
    <3> QED
      BY <2>5, <2>6 DEF SameMarks
  <2> HIDE DEF b
  <2> QED
    BY <1>4, <1>5, <2>3, <2>5, <2>7 DEF SameMarks, k
<1> QED
  BY <1>6, <1>7

LEMMA GetBytesDrops ==
  ASSUME IInv, GetBytes
  PROVE  Drops(Used)
<1> DEFINE k == Used
           m == Len(decoded)
<1>1. blocks \in Seq(StreamBlock) /\ decoded \in Seq(DecodedBlock)
  BY DEF IInv, TypeOK, RingTyped, DecodedTyped
<1>2. /\ k \in 0 .. m
      /\ decoded' \in Seq(DecodedBlock)
      /\ Len(decoded') = m - k
      /\ \A i \in 1 .. m - k : SameMarks(decoded'[i], decoded[k + i])
  BY GetBytesDecoded
<1>3. blocks' = blocks
  BY DEF GetBytes, ring
<1>4. /\ Len(Ahead) = m + Len(blocks)
      /\ m \in Nat /\ Len(blocks) \in Nat
      /\ \A i \in 1 .. m : Ahead[i] = decoded[i]
      /\ \A i \in m + 1 .. m + Len(blocks) : Ahead[i] = blocks[i - m]
  BY <1>1, AheadElements DEF Ahead
<1>5. /\ Len(decoded' \o blocks') = Len(decoded') + Len(blocks')
      /\ \A i \in 1 .. Len(decoded') : (decoded' \o blocks')[i] = decoded'[i]
      /\ \A i \in Len(decoded') + 1 .. Len(decoded') + Len(blocks') :
           (decoded' \o blocks')[i] = blocks'[i - Len(decoded')]
  BY <1>1, <1>2, <1>3, AheadElements
<1> HIDE DEF k, m
<1>6. /\ Len(Ahead') = (m - k) + Len(blocks)
      /\ \A i \in 1 .. m - k : Ahead'[i] = decoded'[i]
      /\ \A i \in (m - k) + 1 .. (m - k) + Len(blocks) :
           Ahead'[i] = blocks[i - (m - k)]
  BY <1>2, <1>3, <1>5 DEF Ahead
<1>7. ASSUME NEW i \in 1 .. Len(Ahead) - k PROVE SameMarks(Ahead'[i], Ahead[k + i])
  <2>1. i \in 1 .. (m - k) + Len(blocks)
    BY <1>2, <1>4, <1>7
  <2>2. CASE i <= m - k
    <3>1. i \in 1 .. m - k /\ k + i \in 1 .. m
      BY <1>2, <1>4, <2>1, <2>2
    <3>2. Ahead'[i] = decoded'[i]
      BY <1>6, <3>1
    <3>3. Ahead[k + i] = decoded[k + i]
      BY <1>4, <3>1
    <3> QED
      BY <1>2, <3>1, <3>2, <3>3
  <2>3. CASE i > m - k
    <3>1. /\ i \in (m - k) + 1 .. (m - k) + Len(blocks)
          /\ k + i \in m + 1 .. m + Len(blocks)
          /\ i - (m - k) = (k + i) - m
      BY <1>2, <1>4, <2>1, <2>3
    <3>2. Ahead'[i] = blocks[i - (m - k)]
      BY <1>6, <3>1
    <3>3. Ahead[k + i] = blocks[(k + i) - m]
      BY <1>4, <3>1
    <3> QED
      BY <3>1, <3>2, <3>3 DEF SameMarks
  <2> QED
    BY <1>2, <1>4, <2>1, <2>2, <2>3
<1> QED
  BY <1>2, <1>4, <1>6, <1>7 DEF Drops, k

(* A block that has been read comes last, with the track being streamed.   *)
LEMMA ReadAppends ==
  ASSUME IInv, FinishRead
  PROVE  /\ Len(Ahead') = Len(Ahead) + 1
         /\ \A i \in 1 .. Len(Ahead) : Ahead'[i] = Ahead[i]
         /\ Ahead'[Len(Ahead) + 1].track = streaming_track
         /\ Ahead'[Len(Ahead) + 1].first = firstblock
         /\ Ahead'[Len(Ahead) + 1].last = (fileinfo \in {Dummy, 1})
<1> DEFINE m == Len(decoded)
           l == Len(blocks)
<1>1. /\ blocks \in Seq(StreamBlock) /\ decoded \in Seq(DecodedBlock)
      /\ blocks' \in Seq(StreamBlock)
  BY RingStep DEF IInv, TypeOK, RingTyped, DecodedTyped, Next, StreamerNext
<1>2. PICK b : /\ blocks' = Append(blocks, b)
               /\ b.track = streaming_track
               /\ b.first = firstblock
               /\ b.last = (fileinfo \in {Dummy, 1})
  BY DEF FinishRead
<1>3. decoded' = decoded
  BY DEF FinishRead
<1>4. /\ Len(blocks') = l + 1
      /\ \A i \in 1 .. l : blocks'[i] = blocks[i]
      /\ blocks'[l + 1] = b
  BY <1>1, <1>2
<1>5. /\ Len(Ahead) = m + l
      /\ m \in Nat /\ l \in Nat
      /\ \A i \in 1 .. m : Ahead[i] = decoded[i]
      /\ \A i \in m + 1 .. m + l : Ahead[i] = blocks[i - m]
  BY <1>1, AheadElements DEF Ahead
<1>6. /\ Len(Ahead') = m + Len(blocks')
      /\ \A i \in 1 .. m : Ahead'[i] = decoded[i]
      /\ \A i \in m + 1 .. m + Len(blocks') : Ahead'[i] = blocks'[i - m]
  BY <1>1, <1>3, AheadElements DEF Ahead
<1> HIDE DEF m, l
<1>7. ASSUME NEW i \in 1 .. Len(Ahead) PROVE Ahead'[i] = Ahead[i]
  <2>1. CASE i <= m
    BY <1>5, <1>6, <2>1
  <2>2. CASE i > m
    <3>1. i \in m + 1 .. m + l /\ i - m \in 1 .. l /\ i \in m + 1 .. m + Len(blocks')
      BY <1>4, <1>5, <2>2
    <3> QED
      BY <1>4, <1>5, <1>6, <3>1
  <2> QED
    BY <1>5, <2>1, <2>2
<1>8. Ahead'[Len(Ahead) + 1] = b
  <2>1. /\ (m + l) + 1 \in m + 1 .. m + Len(blocks')
        /\ ((m + l) + 1) - m = l + 1
    BY <1>4, <1>5
  <2> QED
    BY <1>4, <1>5, <1>6, <2>1
<1>9. Len(Ahead') = Len(Ahead) + 1
  BY <1>4, <1>5, <1>6
<1> QED
  BY <1>2, <1>7, <1>8, <1>9

LEMMA ResetEmpties ==
  ASSUME Reset
  PROVE  Len(Ahead') = 0
<1>1. Len(<< >> \o << >>) = 0
  BY NoBlocks, AheadElements
<1> QED
  BY <1>1 DEF Ahead, Reset

-----------------------------------------------------------------------------
(* The playlist in order.                                                  *)

(* The order is fixed as long as the user does not change the repeat mode, *)
(* which makes the streamer choose again what comes next; with "single" it *)
(* depends on the track that is playing.  A decoder that fails to seek     *)
(* goes on from wherever it is.                                            *)
Undisturbed ==
    /\ SeekMayFail = FALSE
    /\ RepeatModes \in {{"off"}, {"all"}}

(* A block of that track and with that mark may follow block a.            *)
Joined(a, track, first) ==
    /\ first = a.last
    /\ track = IF a.last THEN NextTrack(a.track, repeat) ELSE a.track

(* Where the streamer thread goes on with the decoder it has.              *)
Decodes == {"loop", "counted", "buffered", "turn", "read"}

(* What the streamer thread is about to append follows the last block.     *)
NextJoined ==
    LET z == Ahead[Len(Ahead)]
    IN  Len(Ahead) > 0 =>
          /\ pc \in Decodes /\ fileinfo # NoFile =>
               /\ Joined(z, streaming_track, firstblock)
               /\ fileinfo = Dummy => firstblock
          /\ pc = "eof" => z.last /\ z.track = streaming_track
          /\ pc = "open" => Joined(z, opening, TRUE)

OrderInv ==
    /\ StreamInOrder
    /\ pc # "requeue"
    /\ pc \in {"eof", "open"} => firstblock
    /\ NextJoined

(* With one repeat mode to choose from, nothing is chosen again.           *)
LEMMA RepeatFixed ==
  ASSUME Undisturbed, IInv, [Next]_vars
  PROVE  /\ repeat = repeat_conf /\ repeat # "single"
         /\ repeat' = repeat
<1>1. /\ {repeat, repeat_conf} \subseteq RepeatModes
      /\ {repeat, repeat_conf}' \subseteq RepeatModes
  BY IInvStep DEF IInv, TypeOK, ControlTyped
<1> QED
  BY <1>1 DEF Undisturbed

(* Blocks are moved or dropped at the front, the streamer thread stays     *)
(* where it is.                                                            *)
LEMMA DropsOrdered ==
  ASSUME OrderInv, Len(Ahead) \in Nat, NEW k, Drops(k), repeat' = repeat,
         UNCHANGED <<pc, fileinfo, streaming_track, firstblock, opening>>
  PROVE  OrderInv'
<1> DEFINE m == Len(Ahead)
           l == Len(Ahead')
<1>1. /\ k \in 0 .. m /\ l = m - k
      /\ \A i \in 1 .. l : SameMarks(Ahead'[i], Ahead[k + i])
  BY DEF Drops
<1>2. \A i \in 1 .. l : /\ Ahead'[i].track = Ahead[k + i].track
                       /\ Ahead'[i].first = Ahead[k + i].first
                       /\ Ahead'[i].last = Ahead[k + i].last
  BY <1>1 DEF SameMarks
<1> HIDE DEF m, l
<1>3. StreamInOrder'
  <2>1. ASSUME NEW i \in 1 .. l - 1
        PROVE  /\ Ahead'[i + 1].first = Ahead'[i].last
               /\ Ahead'[i + 1].track = IF Ahead'[i].last
                                        THEN NextTrack(Ahead'[i].track, repeat)
                                        ELSE Ahead'[i].track
    <3>1. /\ i \in 1 .. l /\ i + 1 \in 1 .. l
          /\ k + i \in 1 .. m - 1 /\ k + (i + 1) = (k + i) + 1
      BY <1>1 DEF m
    <3>2. /\ Ahead[(k + i) + 1].first = Ahead[k + i].last
          /\ Ahead[(k + i) + 1].track = IF Ahead[k + i].last
                                        THEN NextTrack(Ahead[k + i].track, repeat)
                                        ELSE Ahead[k + i].track
      BY <3>1 DEF OrderInv, StreamInOrder, m
    <3> QED
      BY <1>2, <3>1, <3>2
  <2> QED
    BY <2>1 DEF StreamInOrder, l
<1>4. NextJoined'
  <2> SUFFICES ASSUME l > 0 PROVE NextJoined'
    BY DEF NextJoined, l
  <2>1. l \in 1 .. l /\ k + l = m /\ m > 0
    BY <1>1 DEF m
  <2>2. /\ Ahead'[l].track = Ahead[m].track
        /\ Ahead'[l].last = Ahead[m].last
    BY <1>2, <2>1
  <2> QED
    BY <2>1, <2>2 DEF OrderInv, NextJoined, Joined, l, m
<1> QED
  BY <1>3, <1>4 DEF OrderInv

(* A block that has been read follows what was last, and the next one      *)
(* follows it.                                                             *)
LEMMA ReadOrdered ==
  ASSUME IInv, OrderInv, FinishRead, repeat' = repeat
  PROVE  OrderInv'
<1> DEFINE m == Len(Ahead)
           b == Ahead'[m + 1]
           last == fileinfo \in {Dummy, 1}
<1>1. /\ Len(Ahead') = m + 1 /\ m \in Nat
      /\ \A i \in 1 .. m : Ahead'[i] = Ahead[i]
      /\ b.track = streaming_track /\ b.first = firstblock /\ b.last = last
  <2>1. m \in Nat
    BY AheadElements DEF Ahead, IInv, TypeOK, RingTyped, DecodedTyped
  <2> QED
    BY <2>1, ReadAppends
<1>2. /\ pc = "read" /\ fileinfo # NoFile
      /\ firstblock' = last /\ pc' = IF last THEN "eof" ELSE "loop"
      /\ fileinfo' = IF last THEN fileinfo ELSE fileinfo - 1
      /\ streaming_track' = streaming_track
  BY DEF FinishRead, IInv, DecoderTracked
<1> HIDE DEF m, b, last
<1>3. StreamInOrder'
  <2>1. ASSUME NEW i \in 1 .. m
        PROVE  /\ Ahead'[i + 1].first = Ahead'[i].last
               /\ Ahead'[i + 1].track = IF Ahead'[i].last
                                        THEN NextTrack(Ahead'[i].track, repeat)
                                        ELSE Ahead'[i].track
    <3>1. CASE i = m
      <4>1. m > 0 /\ Ahead'[m + 1] = b /\ Ahead'[m] = Ahead[m]
        BY <1>1, <3>1 DEF b
      <4>2. Joined(Ahead[m], streaming_track, firstblock)
        BY <1>2, <4>1 DEF OrderInv, NextJoined, Decodes, m
      <4> QED
        BY <1>1, <3>1, <4>1, <4>2 DEF Joined
    <3>2. CASE i # m
      <4>1. i \in 1 .. m - 1 /\ i \in 1 .. m /\ i + 1 \in 1 .. m
        BY <1>1, <3>2
      <4>2. /\ Ahead[i + 1].first = Ahead[i].last
            /\ Ahead[i + 1].track = IF Ahead[i].last
                                    THEN NextTrack(Ahead[i].track, repeat)
                                    ELSE Ahead[i].track
        BY <4>1 DEF OrderInv, StreamInOrder, m
      <4> QED
        BY <1>1, <4>1, <4>2
    <3> QED
      BY <3>1, <3>2
  <2>2. Len(Ahead') - 1 = m
    BY <1>1
  <2> QED
    BY <2>1, <2>2 DEF StreamInOrder
<1>4. NextJoined'
  <2>1. Ahead'[Len(Ahead')] = b
    BY <1>1 DEF b
  <2>2. CASE last
    BY <1>1, <1>2, <2>1, <2>2 DEF NextJoined, Decodes
  <2>3. CASE ~ last
    <3>1. fileinfo' # Dummy
      <4>1. fileinfo \notin {Dummy, 1} /\ fileinfo' = fileinfo - 1
        BY <1>2, <2>3 DEF last
      <4>2. fileinfo \in {NoFile, Dummy} \cup 1 .. STREAM_MAX
        BY DEF IInv, TypeOK, ControlTyped
      <4> QED
        BY <1>2, <4>1, <4>2, Constants DEF NoFile, Dummy
    <3>2. /\ b.track = streaming_track' /\ b.last = FALSE
          /\ firstblock' = FALSE /\ pc' = "loop"
      <4>1. last = FALSE
        BY <2>3 DEF last
      <4> QED
        BY <1>1, <1>2, <4>1
    <3> QED
      BY <2>1, <3>1, <3>2 DEF NextJoined, Joined
  <2> QED
    BY <2>2, <2>3
<1>5. pc' # "requeue" /\ (pc' \in {"eof", "open"} => firstblock')
  BY <1>2
<1> QED
  BY <1>3, <1>4, <1>5 DEF OrderInv

LEMMA OrderStep ==
  ASSUME Undisturbed, IInv, OrderInv, [Next]_vars
  PROVE  OrderInv'
<1>1. repeat = repeat_conf /\ repeat # "single" /\ repeat' = repeat
  BY RepeatFixed
<1>2. Len(Ahead) \in Nat
  BY AheadElements DEF Ahead, IInv, TypeOK, RingTyped, DecodedTyped
<1>3. ASSUME Reset, pc' = "loop" PROVE OrderInv'
  BY <1>3, ResetEmpties DEF OrderInv, StreamInOrder, NextJoined
<1>4. ASSUME UNCHANGED <<decoded, blocks, pc, fileinfo, streaming_track,
                         firstblock, opening>>
      PROVE  OrderInv'
  <2>1. Ahead' = Ahead
    BY <1>4 DEF Ahead
  <2>2. Drops(0)
    BY <1>2, <2>1 DEF Drops, SameMarks
  <2> QED
    BY <1>1, <1>2, <1>4, <2>2, DropsOrdered
<1>5. ASSUME UNCHANGED <<decoded, blocks>>
      PROVE  Ahead' = Ahead /\ StreamInOrder'
  BY <1>1, <1>5 DEF Ahead, OrderInv, StreamInOrder
<1>6. ASSUME UNCHANGED <<decoded, blocks>>, fileinfo' = NoFile \/ pc' = "seek",
             pc' \in {"loop", "reopen", "seek"}
      PROVE  OrderInv'
  BY <1>5, <1>6 DEF OrderInv, NextJoined, Decodes
<1>7. ASSUME NEW t, PlayTrack(t), pc = "loop" PROVE OrderInv'
  BY <1>3, <1>7 DEF PlayTrack, thread
<1>8. CASE PlayIndex
  BY <1>7, <1>8 DEF PlayIndex, Take
<1>9. CASE PlayIndexStop
  BY <1>3, <1>9 DEF PlayIndexStop, Take, thread
<1>10. CASE PlayNext
  BY <1>3, <1>7, <1>10 DEF PlayNext, Take, thread
<1>11. CASE SeekBegin
  <2>1. pc = "loop" /\ UNCHANGED <<decoded, blocks, firstblock>>
    BY <1>11 DEF SeekBegin, Take, buffers, ring
  <2>2. \/ UNCHANGED <<pc, fileinfo, streaming_track, opening>>
        \/ pc' = "seek"
        \/ fileinfo' = NoFile /\ pc' \in {"loop", "reopen"}
    BY <1>11 DEF SeekBegin, StreamTrack, failing, thread
  <2> QED
    BY <1>4, <1>6, <2>1, <2>2
<1>12. CASE SeekReopened
  BY <1>6, <1>12 DEF SeekReopened, buffers, ring
<1>13. CASE SeekDone
  BY <1>3, <1>13 DEF SeekDone, Undisturbed
<1>14. CASE Requeue \/ RequeueNext
  BY <1>1, <1>14 DEF Requeue, RequeueNext, OrderInv
<1>25. ASSUME UNCHANGED <<decoded, blocks, fileinfo, streaming_track, firstblock>>,
              pc \in Decodes \ {"read"}, pc' \in Decodes \ {"read"}
       PROVE  OrderInv'
  <2>1. Ahead' = Ahead /\ StreamInOrder'
    BY <1>5, <1>25
  <2>2. NextJoined'
    BY <1>1, <1>25, <2>1 DEF OrderInv, NextJoined, Joined, Decodes
  <2> QED
    BY <1>25, <2>1, <2>2 DEF OrderInv, Decodes
<1>26. CASE UpdateBufferingState \/ LetOutputGo \/ Buffered
  BY <1>25, <1>26 DEF UpdateBufferingState, LetOutputGo, Buffered, buffers, ring, failing, Decodes
<1>15. CASE BeginRead
  <2>1. /\ UNCHANGED <<decoded, blocks, fileinfo, streaming_track>>
        /\ pc = "turn" /\ pc' = "read" /\ fileinfo # NoFile
        /\ firstblock' = (firstblock \/ fileinfo = Dummy)
    BY <1>15 DEF BeginRead, Streams, failing
  <2>2. ASSUME Len(Ahead) > 0 PROVE firstblock' = firstblock
    <3>1. /\ fileinfo = Dummy => firstblock
          /\ firstblock \in BOOLEAN
      BY <2>1, <2>2 DEF OrderInv, NextJoined, Decodes, IInv, TypeOK, RingTyped
    <3> QED
      BY <2>1, <3>1
  <2>3. NextJoined'
    <3> SUFFICES ASSUME Len(Ahead) > 0 PROVE NextJoined'
      BY <1>5, <2>1 DEF NextJoined
    <3>1. /\ Joined(Ahead[Len(Ahead)], streaming_track, firstblock)
          /\ fileinfo = Dummy => firstblock
      BY <2>1 DEF OrderInv, NextJoined, Decodes
    <3> QED
      BY <1>1, <1>5, <2>1, <2>2, <3>1 DEF NextJoined, Joined
  <2> QED
    BY <1>5, <2>1, <2>3 DEF OrderInv
<1>16. CASE FinishRead
  BY <1>1, <1>16, ReadOrdered
<1>17. CASE EndOfStream
  <2> DEFINE t == IF stop_after_current THEN NoTrack
                  ELSE Following(streaming_track, repeat)
  <2>1. /\ pc = "eof" /\ firstblock /\ StreamTrack(t, streaming_track, "open")
        /\ UNCHANGED <<decoded, blocks, firstblock>>
    BY <1>17 DEF EndOfStream, OrderInv, buffers, ring
  <2>2. CASE pc' = "loop"
    <3>1. fileinfo' = NoFile
      BY <2>1 DEF StreamTrack
    <3> QED
      BY <1>6, <2>1, <2>2, <3>1
  <2>3. CASE pc' = "open"
    <3>1. opening' = t /\ t # NoTrack
      BY <2>1, <2>3 DEF StreamTrack
    <3>2. opening' = NextTrack(streaming_track, repeat)
      BY <1>1, <3>1 DEF Following
    <3>3. NextJoined'
      <4> SUFFICES ASSUME Len(Ahead) > 0
                   PROVE  Joined(Ahead[Len(Ahead)], opening, TRUE)'
        BY <1>5, <2>1, <2>3 DEF NextJoined, Decodes
      <4>1. /\ Ahead[Len(Ahead)].last
            /\ Ahead[Len(Ahead)].track = streaming_track
        BY <2>1 DEF OrderInv, NextJoined
      <4> QED
        BY <1>1, <1>5, <2>1, <3>2, <4>1 DEF Joined
    <3> QED
      BY <1>5, <2>1, <2>3, <3>3 DEF OrderInv
  <2>4. pc' \in {"loop", "open"}
    BY <2>1 DEF StreamTrack
  <2> QED
    BY <2>2, <2>3, <2>4
<1>18. CASE OpenDone
  <2>1. /\ pc = "open" /\ pc' = "loop" /\ firstblock
        /\ streaming_track' = opening
        /\ UNCHANGED <<decoded, blocks, firstblock>>
    BY <1>18 DEF OpenDone, Opened, OrderInv, buffers, ring
  <2>2. NextJoined'
    <3> SUFFICES ASSUME Len(Ahead) > 0
                 PROVE  Joined(Ahead[Len(Ahead)], streaming_track, firstblock)'
      BY <1>5, <2>1 DEF NextJoined
    <3>1. Joined(Ahead[Len(Ahead)], opening, TRUE)
      BY <2>1 DEF OrderInv, NextJoined
    <3>2. firstblock = TRUE
      BY <2>1 DEF IInv, TypeOK, RingTyped
    <3> QED
      BY <1>1, <1>5, <2>1, <3>1, <3>2 DEF Joined
  <2> QED
    BY <1>5, <2>1, <2>2 DEF OrderInv
<1>19. CASE Idle
  BY <1>25, <1>19 DEF Idle, Streams, ring, failing, Decodes
<1>20. CASE StopStalled
  BY <1>3, <1>6, <1>20 DEF StopStalled, StopOutput, buffers, ring
<1>21. CASE Fill
  <2>1. UNCHANGED <<pc, fileinfo, streaming_track, firstblock, opening>>
    BY <1>21 DEF Fill, thread
  <2>2. Drops(0)
    BY <1>2, <1>21, FillMoves DEF Drops
  <2> QED
    BY <1>1, <1>2, <2>1, <2>2, DropsOrdered
<1>22. CASE GetBytes
  <2>1. UNCHANGED <<pc, fileinfo, streaming_track, firstblock, opening>>
    BY <1>22 DEF GetBytes, ring, failing, thread
  <2> QED
    BY <1>1, <1>2, <1>22, <2>1, GetBytesDrops, DropsOrdered
<1>23. CASE UserNext
  BY <1>4, <1>23 DEF UserNext, Push, PushStop, SetRepeat, TogglePause,
                     SetStopAfterCurrent, Acts, buffers, ring, failing, thread
<1>24. CASE UNCHANGED vars
  BY <1>4, <1>24 DEF vars, buffers, ring, failing, thread
<1> QED
  BY <1>8, <1>9, <1>10, <1>11, <1>12, <1>13, <1>14, <1>15, <1>16, <1>17, <1>18,
     <1>19, <1>20, <1>21, <1>22, <1>23, <1>24, <1>26
     DEF Next, StreamerNext, OutputNext

(* What is decoded ahead is the playlist in order, across both buffers,    *)
(* whatever the user plays, seeks, stops or pauses, as long as he leaves   *)
(* the repeat mode alone and decoders can seek                             *)
(* (streamreader_read_block, streamer_next).                               *)
THEOREM PlaylistInOrder ==
  ASSUME Undisturbed
  PROVE  Spec => []StreamInOrder
<1>1. Init => OrderInv
  <2> SUFFICES ASSUME Init PROVE OrderInv
    OBVIOUS
  <2>1. Len(Ahead) = 0
    BY NoBlocks, AheadElements DEF Init, Ahead
  <2> QED
    BY <2>1 DEF Init, OrderInv, StreamInOrder, NextJoined
<1>2. IInv /\ OrderInv /\ [Next]_vars => OrderInv'
  BY OrderStep
<1>3. OrderInv => StreamInOrder
  BY DEF OrderInv
<1> QED
  BY <1>1, <1>2, <1>3, IInvAlways, PTL DEF Spec

-----------------------------------------------------------------------------
(* What is heard is what the player says is playing.                       *)

(* While a seek opens the playing track again the output may go on to the  *)
(* next one, so this is about a user who does not seek.                    *)
NeverSeeks == \A request \in Requests : request.kind # "seek"

NoSeek ==
    /\ pc \notin {"seek", "reopen"}
    /\ \A i \in 1 .. Len(handler) : handler[i].kind # "seek"

(* A stream whose start has been heard is the one that plays: the next     *)
(* block to be heard, or, when all has been heard, the next to be read.    *)
HeardInv ==
    /\ Len(Ahead) > 0 /\ ~ Ahead[1].first
         => playing_track \in {Ahead[1].track, NoTrack}
    /\ Len(Ahead) = 0 /\ ~ firstblock /\ fileinfo # NoFile
         => playing_track \in {streaming_track, NoTrack}

(* Nobody asks for a seek.                                                 *)
LEMMA NoSeekStep ==
  ASSUME NeverSeeks, IInv, NoSeek, [Next]_vars
  PROVE  NoSeek'
<1>1. handler \in Seq(Request)
  BY DEF IInv, TypeOK, ControlTyped
<1>2. ASSUME UNCHANGED handler, pc' \notin {"seek", "reopen"} PROVE NoSeek'
  BY <1>2 DEF NoSeek
<1>3. ASSUME NEW kind, Take(kind), pc' \notin {"seek", "reopen"} PROVE NoSeek'
  <2>1. /\ handler # << >> /\ handler' = Tail(handler)
    BY <1>3 DEF Take
  <2>2. /\ Len(handler') = Len(handler) - 1
        /\ \A i \in 1 .. Len(handler') : handler'[i] = handler[i + 1]
        /\ Len(handler) \in Nat
    BY <1>1, <2>1, HeadTailProperties, LenProperties
  <2>3. \A i \in 1 .. Len(handler') : i + 1 \in 1 .. Len(handler)
    BY <2>2
  <2> QED
    BY <1>3, <2>2, <2>3 DEF NoSeek
<1>4. CASE PlayIndex \/ PlayIndexStop \/ PlayNext
  <2>1. /\ \E kind : Take(kind)
        /\ pc' = pc
    BY <1>4 DEF PlayIndex, PlayIndexStop, PlayNext, PlayTrack, thread
  <2> QED
    BY <1>3, <2>1 DEF NoSeek
<1>5. CASE SeekBegin
  <2>1. handler # << >> /\ Head(handler).kind = "seek"
    BY <1>5 DEF SeekBegin, Take
  <2>2. Head(handler) = handler[1] /\ 1 \in 1 .. Len(handler)
    BY <1>1, <2>1, EmptySeq
  <2> QED
    BY <2>1, <2>2 DEF NoSeek
<1>6. CASE SeekReopened \/ SeekDone
  BY <1>6 DEF SeekReopened, SeekDone, NoSeek
<1>7. CASE Requeue \/ RequeueNext \/ UpdateBufferingState \/ LetOutputGo \/ Buffered
  <2>1. pc' = pc \/ pc' \in {"loop", "requeue", "open", "counted",
                         "buffered", "turn"}
    BY <1>7 DEF Requeue, RequeueNext, StreamTrack, UpdateBufferingState, LetOutputGo, Buffered
  <2>2. UNCHANGED handler
    BY <1>7 DEF Requeue, RequeueNext, UpdateBufferingState, LetOutputGo, Buffered, user
  <2> QED
    BY <1>2, <2>1, <2>2 DEF NoSeek
<1>8. CASE BeginRead \/ FinishRead \/ OpenDone
  BY <1>2, <1>8 DEF BeginRead, FinishRead, OpenDone, Streams, user
<1>9. CASE EndOfStream
  BY <1>2, <1>9 DEF EndOfStream, StreamTrack, user
<1>10. CASE Idle \/ StopStalled \/ Fill \/ GetBytes
  <2>1. handler' = handler /\ pc' \in {pc, "loop"}
    BY <1>10 DEF Idle, StopStalled, Fill, GetBytes, Streams, user, thread
  <2> QED
    BY <1>2, <2>1 DEF NoSeek
<1>11. CASE UserNext
  <2>1. pc' = pc
    BY <1>11 DEF UserNext, Push, PushStop, SetRepeat, TogglePause,
                 SetStopAfterCurrent, Acts, thread
  <2>2. CASE UNCHANGED handler
    BY <1>2, <2>1, <2>2 DEF NoSeek
  <2>3. CASE PushStop \/ \E request \in Requests : Push(request)
    <3>1. PICK request \in Requests \cup {[kind |-> "stop", track |-> NoTrack]} :
                 handler' \in {<< >>, Append(handler, request), handler}
      BY <2>3 DEF Push, PushStop
    <3>2. request \in Request /\ request.kind # "seek"
      BY <3>1, StreamerAssumption, StopRequest DEF NeverSeeks
    <3>3. CASE handler' = << >>
      BY <2>1, <3>3, NoBlocks DEF NoSeek
    <3>4. CASE handler' = Append(handler, request)
      <4>1. /\ Len(handler') = Len(handler) + 1
            /\ \A i \in 1 .. Len(handler) : handler'[i] = handler[i]
            /\ handler'[Len(handler) + 1] = request
            /\ Len(handler) \in Nat
        BY <1>1, <3>2, <3>4, AppendProperties, LenProperties
      <4>2. \A i \in 1 .. Len(handler') : i \in 1 .. Len(handler) \/ i = Len(handler) + 1
        BY <4>1
      <4> QED
        BY <2>1, <3>2, <4>1, <4>2 DEF NoSeek
    <3> QED
      BY <2>2, <3>1, <3>3, <3>4
  <2> QED
    BY <1>11, <2>2, <2>3 DEF UserNext, SetRepeat, TogglePause, SetStopAfterCurrent
<1>12. CASE UNCHANGED vars
  BY <1>2, <1>12 DEF vars, user, thread, NoSeek
<1> QED
  BY <1>4, <1>5, <1>6, <1>7, <1>8, <1>9, <1>10, <1>11, <1>12
     DEF Next, StreamerNext, OutputNext

(* Without a first block among them, all blocks are of the same track.     *)
LEMMA SameStream ==
  ASSUME StreamInOrder, Len(Ahead) \in Nat,
         NEW j \in 1 .. Len(Ahead), NEW k \in j .. Len(Ahead),
         \A i \in j + 1 .. k : ~ Ahead[i].first
  PROVE  Ahead[k].track = Ahead[j].track
<1> DEFINE bad == {i \in j .. k : Ahead[i].track # Ahead[j].track}
<1>1. SUFFICES ASSUME bad # {} PROVE FALSE
  OBVIOUS
<1>2. bad \subseteq Nat
  OBVIOUS
<1>3. PICK i \in bad : \A h \in bad : <<h, i>> \notin OpToRel(<, Nat)
  <2> HIDE DEF bad
  <2> QED
    BY <1>1, <1>2, NatLessThanWellFounded, WFMin, Zenon
<1>4. i \in j + 1 .. k /\ i - 1 \in j .. k /\ i - 1 \in 1 .. Len(Ahead) - 1
  BY DEF bad
<1>5. i - 1 \notin bad
  <2>1. OpToRel(<, Nat) = {ss \in Nat \X Nat : ss[1] < ss[2]}
    BY DEF OpToRel
  <2>2. <<i - 1, i>> \in {ss \in Nat \X Nat : ss[1] < ss[2]}
    BY <1>4
  <2> HIDE DEF bad
  <2> QED
    BY <1>3, <2>1, <2>2
<1>6. Ahead[i].track = Ahead[i - 1].track
  <2>1. /\ Ahead[(i - 1) + 1].first = Ahead[i - 1].last
        /\ Ahead[(i - 1) + 1].track =
             IF Ahead[i - 1].last THEN NextTrack(Ahead[i - 1].track, repeat)
                                  ELSE Ahead[i - 1].track
    BY <1>4 DEF StreamInOrder
  <2>2. (i - 1) + 1 = i /\ ~ Ahead[i].first
    BY <1>4
  <2> QED
    BY <2>1, <2>2
<1> QED
  BY <1>3, <1>4, <1>5, <1>6

(* The visited blocks are within those decoded.                            *)
LEMMA VisitedAhead ==
  ASSUME IInv
  PROVE  /\ Visited \in 0 .. Len(decoded)
         /\ Used \in 0 .. Visited /\ (Used # Visited => Used + 1 = Visited)
         /\ Len(decoded) \in Nat /\ Len(Ahead) \in Nat /\ Len(decoded) <= Len(Ahead)
         /\ \A i \in 1 .. Len(decoded) : Ahead[i] = decoded[i]
<1>1. /\ Len(Ahead) = Len(decoded) + Len(blocks)
      /\ Len(decoded) \in Nat /\ Len(blocks) \in Nat
      /\ \A i \in 1 .. Len(decoded) : Ahead[i] = decoded[i]
  BY AheadElements DEF Ahead, IInv, TypeOK, RingTyped, DecodedTyped
<1>2. Visited \in 0 .. Len(decoded)
  BY VisitedBounds DEF IInv, TypeOK
<1> QED
  BY <1>1, <1>2 DEF Used

(* After taking bytes, the player says the track of the last block dropped *)
(* (or nothing), unless the next block announces itself.                   *)
LEMMA GetBytesHeard ==
  ASSUME IInv, OrderInv, HeardInv, GetBytes, Used > 0,
         Used < Len(Ahead) => ~ Ahead[Used + 1].first
  PROVE  playing_track' \in {Ahead[Used].track, NoTrack}
<1> DEFINE k == Used
           n == Visited
           firsts == {i \in 1 .. n : decoded[i].first}
<1>1. /\ n \in 0 .. Len(decoded) /\ k \in 1 .. n /\ (k # n => k + 1 = n)
      /\ Len(decoded) \in Nat /\ Len(Ahead) \in Nat /\ Len(decoded) <= Len(Ahead)
      /\ \A i \in 1 .. Len(decoded) : Ahead[i] = decoded[i]
  BY VisitedAhead
<1>2. k < Len(Ahead) => ~ Ahead[k + 1].first
  OBVIOUS
<1>3. IF firsts = {} THEN playing_track' = playing_track
                     ELSE playing_track' = decoded[Max(firsts)].track
  BY DEF GetBytes, Announce
<1> HIDE DEF k, n
<1>4. CASE firsts = {}
  <2>1. \A i \in 1 .. k : ~ Ahead[i].first
    BY <1>1, <1>4
  <2>2. playing_track \in {Ahead[1].track, NoTrack}
    BY <1>1, <2>1 DEF HeardInv
  <2>3. Ahead[k].track = Ahead[1].track
    <3>1. 1 \in 1 .. Len(Ahead) /\ k \in 1 .. Len(Ahead) /\ 1 + 1 .. k \subseteq 1 .. k
      BY <1>1
    <3> QED
      BY <1>1, <2>1, <3>1, SameStream DEF OrderInv
  <2> QED
    BY <1>3, <1>4, <2>2, <2>3 DEF k
<1>5. CASE firsts # {}
  <2> DEFINE j == Max(firsts)
  <2>1. j \in firsts /\ \A i \in firsts : i <= j
    <3>1. firsts \in SUBSET Nat /\ n \in Nat /\ \A i \in firsts : i <= n
      BY <1>1
    <3> HIDE DEF firsts
    <3> QED
      BY <1>5, <3>1, MaxOfBounded
  <2>2. playing_track' = decoded[j].track
    BY <1>3, <1>5
  <2> HIDE DEF j
  <2>3. j \in 1 .. n /\ Ahead[j].first /\ Ahead[j] = decoded[j]
    BY <1>1, <2>1
  <2>4. j <= k
    BY <1>1, <1>2, <2>3
  <2>5. \A i \in j + 1 .. k : ~ Ahead[i].first
    <3> SUFFICES ASSUME NEW i \in j + 1 .. k, Ahead[i].first PROVE FALSE
      OBVIOUS
    <3>1. i \in 1 .. n /\ i > j /\ i \in 1 .. Len(decoded)
      BY <1>1, <2>3
    <3>2. i \in firsts
      BY <1>1, <3>1
    <3> HIDE DEF firsts
    <3> QED
      BY <1>1, <2>1, <2>3, <3>1, <3>2
  <2>6. Ahead[k].track = Ahead[j].track
    <3>1. j \in 1 .. Len(Ahead) /\ k \in j .. Len(Ahead)
      BY <1>1, <2>3, <2>4
    <3> QED
      BY <1>1, <2>5, <3>1, SameStream DEF OrderInv
  <2> QED
    BY <2>2, <2>3, <2>6 DEF k
<1> QED
  BY <1>4, <1>5

LEMMA GetBytesKeepsHeard ==
  ASSUME IInv, OrderInv, NoSeek, HeardInv, GetBytes
  PROVE  HeardInv'
<1> DEFINE k == Used
           m == Len(Ahead)
<1>1. /\ k \in 0 .. m /\ Len(Ahead') = m - k /\ m \in Nat
      /\ \A i \in 1 .. m - k : SameMarks(Ahead'[i], Ahead[k + i])
  BY GetBytesDrops, VisitedAhead DEF Drops
<1>2. UNCHANGED <<firstblock, fileinfo, streaming_track, pc>>
  BY DEF GetBytes, ring, failing, thread
<1>3. k > 0 /\ (k < m => ~ Ahead[k + 1].first)
        => playing_track' \in {Ahead[k].track, NoTrack}
  BY GetBytesHeard
<1>4. k = 0 /\ (m > 0 => ~ Ahead[1].first) => playing_track' = playing_track
  <2> SUFFICES ASSUME k = 0, m > 0 => ~ Ahead[1].first
               PROVE  playing_track' = playing_track
    OBVIOUS
  <2>1. /\ Visited \in 0 .. 1 /\ Visited \in 0 .. Len(decoded)
        /\ Len(decoded) \in Nat /\ Len(decoded) <= m
        /\ \A i \in 1 .. Len(decoded) : Ahead[i] = decoded[i]
    BY VisitedAhead
  <2>2. {i \in 1 .. Visited : decoded[i].first} = {}
    BY <2>1
  <2> QED
    BY <2>2 DEF GetBytes
<1> HIDE DEF k, m
<1>5. ASSUME m - k > 0, ~ Ahead'[1].first
      PROVE  playing_track' \in {Ahead'[1].track, NoTrack}
  <2>1. /\ Ahead'[1].track = Ahead[k + 1].track /\ ~ Ahead[k + 1].first
    BY <1>1, <1>5 DEF SameMarks
  <2>2. CASE k = 0
    BY <1>1, <1>4, <1>5, <2>1, <2>2 DEF HeardInv, m
  <2>3. CASE k > 0
    <3>1. k \in 1 .. m - 1
      BY <1>1, <1>5, <2>3
    <3>2. /\ Ahead[k + 1].first = Ahead[k].last
          /\ Ahead[k + 1].track = IF Ahead[k].last
                                  THEN NextTrack(Ahead[k].track, repeat)
                                  ELSE Ahead[k].track
      BY <3>1 DEF OrderInv, StreamInOrder, m
    <3> QED
      BY <1>3, <2>1, <2>3, <3>2
  <2> QED
    BY <1>1, <2>2, <2>3
<1>6. ASSUME m - k = 0, ~ firstblock, fileinfo # NoFile
      PROVE  playing_track' \in {streaming_track, NoTrack}
  <2>1. CASE m = 0
    BY <1>1, <1>4, <1>6, <2>1 DEF HeardInv, m
  <2>2. CASE m > 0
    <3>1. pc \in Decodes
      BY <1>6 DEF OrderInv, NoSeek, IInv, TypeOK, ControlTyped, Decodes
    <3>2. Joined(Ahead[m], streaming_track, firstblock)
      BY <1>6, <2>2, <3>1 DEF OrderInv, NextJoined, m
    <3>3. ~ Ahead[m].last /\ Ahead[m].track = streaming_track
      BY <1>6, <3>2 DEF Joined
    <3> QED
      BY <1>1, <1>3, <1>6, <2>2, <3>3
  <2> QED
    BY <1>1, <2>1, <2>2
<1>7. Len(Ahead') > 0 /\ ~ Ahead'[1].first
        => playing_track' \in {Ahead'[1].track, NoTrack}
  BY <1>1, <1>5
<1>8. Len(Ahead') = 0 /\ ~ firstblock' /\ fileinfo' # NoFile
        => playing_track' \in {streaming_track', NoTrack}
  BY <1>1, <1>2, <1>6
<1> QED
  BY <1>7, <1>8 DEF HeardInv

LEMMA HeardStays ==
  ASSUME Undisturbed, IInv, OrderInv, NoSeek, HeardInv, [Next]_vars
  PROVE  HeardInv'
<1>1. Len(Ahead) \in Nat
  BY VisitedAhead
<1>2. ASSUME Len(Ahead') = Len(Ahead),
             \A i \in 1 .. Len(Ahead) : SameMarks(Ahead'[i], Ahead[i]),
             playing_track' \in {playing_track, NoTrack},
             \/ UNCHANGED <<streaming_track, firstblock, fileinfo>>
             \/ firstblock'
             \/ fileinfo' = NoFile
      PROVE  HeardInv'
  BY <1>1, <1>2 DEF HeardInv, SameMarks
<1>3. ASSUME UNCHANGED <<decoded, blocks>>,
             playing_track' \in {playing_track, NoTrack},
             \/ UNCHANGED <<streaming_track, firstblock, fileinfo>>
             \/ firstblock'
             \/ fileinfo' = NoFile
      PROVE  HeardInv'
  <2>1. Ahead' = Ahead
    BY <1>3 DEF Ahead
  <2> QED
    BY <1>2, <1>3, <2>1 DEF SameMarks
<1>4. ASSUME Reset, \/ playing_track' = NoTrack
                    \/ playing_track' = streaming_track'
                    \/ fileinfo' = NoFile
      PROVE  HeardInv'
  BY <1>4, ResetEmpties DEF HeardInv
<1>5. ASSUME NEW playing, HandlePlaybackStopped(playing)
      PROVE  playing_track' = NoTrack
  BY <1>5 DEF HandlePlaybackStopped
<1>6. ASSUME NEW t, NEW from, NEW then, StreamTrack(t, from, then)
      PROVE  playing_track' \in {playing_track, NoTrack} /\ fileinfo' = NoFile
  BY <1>6 DEF StreamTrack, HandlePlaybackStopped
<1>7. ASSUME NEW t, PlayTrack(t) PROVE HeardInv'
  BY <1>4, <1>5, <1>7 DEF PlayTrack, Opened
<1>8. CASE PlayIndex
  BY <1>7, <1>8 DEF PlayIndex
<1>9. CASE PlayIndexStop
  BY <1>4, <1>9 DEF PlayIndexStop
<1>10. CASE PlayNext
  BY <1>4, <1>5, <1>7, <1>10 DEF PlayNext
<1>11. CASE SeekBegin
  <2>1. handler \in Seq(Request) /\ handler # << >> /\ Head(handler).kind = "seek"
    BY <1>11 DEF SeekBegin, Take, IInv, TypeOK, ControlTyped
  <2>2. Head(handler) = handler[1] /\ 1 \in 1 .. Len(handler)
    BY <2>1, EmptySeq
  <2> QED
    BY <2>1, <2>2 DEF NoSeek
<1>12. CASE SeekReopened \/ SeekDone
  BY <1>12 DEF SeekReopened, SeekDone, NoSeek
<1>13. CASE Requeue \/ RequeueNext
  BY <1>13, RepeatFixed DEF Requeue, RequeueNext, OrderInv
<1>24. CASE UpdateBufferingState \/ LetOutputGo \/ Buffered
  BY <1>3, <1>24 DEF UpdateBufferingState, LetOutputGo, Buffered, buffers, ring, failing
<1>14. CASE BeginRead
  <2>1. /\ UNCHANGED <<decoded, blocks, playing_track, streaming_track, fileinfo>>
        /\ firstblock' = (firstblock \/ fileinfo = Dummy)
    BY <1>14 DEF BeginRead, Streams, failing
  <2>2. firstblock' \/ firstblock' = firstblock
    BY <2>1 DEF IInv, TypeOK, RingTyped
  <2> QED
    BY <1>3, <2>1, <2>2
<1>15. CASE FinishRead
  <2>1. /\ Len(Ahead') = Len(Ahead) + 1
        /\ \A i \in 1 .. Len(Ahead) : Ahead'[i] = Ahead[i]
        /\ Ahead'[Len(Ahead) + 1].track = streaming_track
        /\ Ahead'[Len(Ahead) + 1].first = firstblock
    BY <1>15, ReadAppends
  <2>2. playing_track' = playing_track /\ fileinfo # NoFile
    BY <1>15 DEF FinishRead, IInv, DecoderTracked
  <2>3. CASE Len(Ahead) = 0
    BY <2>1, <2>2, <2>3 DEF HeardInv
  <2>4. CASE Len(Ahead) > 0
    <3>1. Ahead'[1] = Ahead[1] /\ Len(Ahead') # 0
      BY <1>1, <2>1, <2>4
    <3> QED
      BY <2>2, <2>4, <3>1 DEF HeardInv
  <2> QED
    BY <1>1, <2>3, <2>4
<1>16. CASE EndOfStream
  BY <1>3, <1>6, <1>16 DEF EndOfStream, buffers, ring
<1>17. CASE OpenDone
  <2>1. firstblock' /\ UNCHANGED <<decoded, blocks, playing_track>>
    BY <1>17 DEF OpenDone, OrderInv, buffers, ring
  <2> QED
    BY <1>3, <2>1
<1>18. CASE Idle
  BY <1>3, <1>18 DEF Idle, Streams, ring, failing
<1>19. CASE StopStalled
  <2>1. playing_track' = NoTrack /\ fileinfo' = NoFile
    BY <1>5, <1>19 DEF StopStalled
  <2> QED
    BY <1>3, <1>4, <1>19, <2>1 DEF StopStalled, StopOutput, buffers, ring
<1>20. CASE Fill
  <2>1. /\ UNCHANGED <<streaming_track, firstblock, fileinfo>>
        /\ playing_track' \in {playing_track, NoTrack}
    BY <1>5, <1>20 DEF Fill
  <2> QED
    BY <1>2, <1>20, <2>1, FillMoves
<1>21. CASE GetBytes
  BY <1>21, GetBytesKeepsHeard
<1>22. CASE UserNext
  BY <1>3, <1>22 DEF UserNext, Push, PushStop, SetRepeat, TogglePause,
                     SetStopAfterCurrent, Acts, buffers, ring, failing
<1>23. CASE UNCHANGED vars
  BY <1>3, <1>23 DEF vars, buffers, ring, failing
<1> QED
  BY <1>8, <1>9, <1>10, <1>11, <1>12, <1>13, <1>14, <1>15, <1>16, <1>17, <1>18,
     <1>19, <1>20, <1>21, <1>22, <1>23, <1>24 DEF Next, StreamerNext, OutputNext

(* What the output plays is what the player says is playing, however the   *)
(* two threads interleave, whatever fails to open and whatever is played,  *)
(* skipped, stopped or paused, as long as nobody seeks or changes the      *)
(* repeat mode (_streamer_get_bytes, handle_track_change).                 *)
THEOREM HeardIsPlaying ==
  ASSUME Undisturbed, NeverSeeks
  PROVE  Spec => []HeardAttributed
<1>1. Init => OrderInv /\ NoSeek /\ HeardInv
  <2> SUFFICES ASSUME Init PROVE OrderInv /\ NoSeek /\ HeardInv
    OBVIOUS
  <2>1. Len(Ahead) = 0 /\ Len(handler) = 0
    BY NoBlocks, AheadElements DEF Init, Ahead
  <2> QED
    BY <2>1 DEF Init, OrderInv, StreamInOrder, NextJoined, NoSeek, HeardInv
<1>2. IInv /\ OrderInv /\ NoSeek /\ HeardInv /\ [Next]_vars
        => (OrderInv /\ NoSeek /\ HeardInv)'
  BY OrderStep, NoSeekStep, HeardStays
<1>3. IInv /\ HeardInv => HeardAttributed
  <2> SUFFICES ASSUME IInv, HeardInv, decoded # << >>, ~ decoded[1].first
               PROVE  playing_track \in {decoded[1].track, NoTrack}
    BY DEF HeardAttributed
  <2>1. Len(decoded) > 0
    BY EmptySeq DEF IInv, TypeOK, DecodedTyped
  <2>2. Len(Ahead) > 0 /\ Ahead[1] = decoded[1]
    BY <2>1, VisitedAhead
  <2> QED
    BY <2>2 DEF HeardInv
<1> QED
  BY <1>1, <1>2, <1>3, IInvAlways, PTL DEF Spec

=============================================================================
