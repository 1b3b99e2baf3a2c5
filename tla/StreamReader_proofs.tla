------------------------ MODULE StreamReader_proofs -------------------------
(***************************************************************************)
(* Proofs about the ring of stream blocks, for every number of blocks and  *)
(* every finite set of tracks: what holds of it in every behaviour, and    *)
(* that, between resets of its own, it is a bounded queue (module          *)
(* BlockQueue) in which two streams never run into each other.             *)
(***************************************************************************)
EXTENDS StreamReader, FiniteSetTheorems, SequenceTheorems, TLAPS

QueuedSlots == {b \in Slot : blocks[b].queued}

(* A block is queued exactly while it has data and names a track.          *)
BlockShape ==
    \A b \in Slot : /\ blocks[b].queued <=> blocks[b].pos = 0
                    /\ blocks[b].queued <=> blocks[b].track # NULL

(* The handle of a read in progress is a block without data.               *)
ReadBlockFree == reading # NULL => ~ blocks[reading.block].queued

(* A stream that is being decoded has a track, the one of a read in        *)
(* progress.                                                               *)
OpenHasTrack ==
    /\ fileinfo \in {"open", "failed"} => streaming \in Track
    /\ reading # NULL => fileinfo \in {"open", "failed"}

(* The count never runs ahead of the blocks that hold data.                *)
CountBounded == numblocks_ready <= Cardinality(QueuedSlots)

(* The invariant that survives a reset at any moment.                      *)
SafeInv ==
    /\ TypeOK
    /\ RefsMatchBlocks
    /\ BlockShape
    /\ ReadBlockFree
    /\ OpenHasTrack
    /\ CountBounded

-----------------------------------------------------------------------------
(* Facts about the ring's indices.                                         *)

LEMMA SlotFinite == IsFiniteSet(Slot) /\ Cardinality(Slot) = BLOCK_COUNT
  BY FS_Interval, StreamReaderAssumption DEF Slot

LEMMA AfterSlot ==
  ASSUME NEW b \in Slot, NEW k \in 0 .. BLOCK_COUNT
  PROVE  After(b, k) \in Slot
  BY StreamReaderAssumption DEF After, Slot

LEMMA Next1Slot ==
  ASSUME NEW b \in Slot
  PROVE  Next1(b) \in Slot /\ (BLOCK_COUNT > 0 => Next1(b) = After(b, 1))
  BY StreamReaderAssumption DEF Next1, After, Slot

LEMMA HeldFinite ==
  ASSUME NEW S \in SUBSET Slot, NEW t
  PROVE  IsFiniteSet(HeldBy(S, t)) /\ Cardinality(HeldBy(S, t)) \in Nat
  <1>1. HeldBy(S, t) \in SUBSET Slot
    BY DEF HeldBy
  <1> QED
    BY <1>1, SlotFinite, FS_Subset, FS_CardinalityType

LEMMA QueuedFinite ==
  /\ IsFiniteSet(QueuedSlots)
  /\ Cardinality(QueuedSlots) \in Nat
  /\ Cardinality(QueuedSlots) <= BLOCK_COUNT
  <1>1. QueuedSlots \in SUBSET Slot
    BY DEF QueuedSlots
  <1> QED
    BY <1>1, SlotFinite, FS_Subset, FS_CardinalityType

(* The blocks from the k-th to the n-th after b are at most n - k.         *)
LEMMA RestBounded ==
  ASSUME NEW b \in Slot, NEW n \in 0 .. BLOCK_COUNT, NEW k \in 0 .. n
  PROVE  Cardinality({After(b, i) : i \in k .. n - 1}) <= n - k
  <1> DEFINE I == k .. n - 1
             T == {After(b, i) : i \in I}
             f == [i \in I |-> After(b, i)]
  <1>1. IsFiniteSet(I) /\ Cardinality(I) = n - k
    <2>1. k \in Int /\ n - 1 \in Int /\ n \in Int /\ k <= n
      BY StreamReaderAssumption
    <2>2. /\ IsFiniteSet(k .. n - 1)
          /\ Cardinality(k .. n - 1) = IF k > n - 1 THEN 0 ELSE n - 1 - k + 1
      BY <2>1, FS_Interval
    <2> QED
      BY <2>1, <2>2
  <1>2. f \in Surjection(I, T)
    BY DEF Surjection
  <1>3. Cardinality(T) <= Cardinality(I)
    <2> HIDE DEF I, T, f
    <2> QED
      BY <1>1, <1>2, FS_Surjection
  <1> QED
    BY <1>1, <1>3

(* A part of a finite set and the rest of it add up.                       *)
LEMMA Partition ==
  ASSUME NEW S, IsFiniteSet(S), NEW T \in SUBSET S
  PROVE  Cardinality(S \ T) = Cardinality(S) - Cardinality(T)
  <1>1. IsFiniteSet(T) /\ IsFiniteSet(S \ T)
    BY FS_Subset
  <1>2. (S \ T) \cup T = S /\ (S \ T) \cap T = {}
    OBVIOUS
  <1>3. Cardinality(S) = Cardinality(S \ T) + Cardinality(T)
                           - Cardinality((S \ T) \cap T)
    BY <1>1, <1>2, FS_Union
  <1>4. Cardinality((S \ T) \cap T) = 0
    BY <1>2, FS_EmptySet
  <1>5. Cardinality(S \ T) \in Nat /\ Cardinality(T) \in Nat
    BY <1>1, FS_CardinalityType
  <1> QED
    BY <1>3, <1>4, <1>5

-----------------------------------------------------------------------------
(* Releasing any set of blocks of the ring keeps the parts of the          *)
(* invariant that speak of the blocks; the queued blocks lose S.           *)
LEMMA ReleaseKeeps ==
  ASSUME TypeOK, RefsMatchBlocks, BlockShape, NEW S \in SUBSET Slot,
         blocks' = Released(S), refs' = Unreffed(S)
  PROVE  /\ blocks' \in [Slot -> Block]
         /\ refs' \in [Track -> Int]
         /\ RefsMatchBlocks'
         /\ BlockShape'
         /\ QueuedSlots' = QueuedSlots \ S
         /\ \A b \in S : ~ blocks'[b].queued
         /\ \A b \in Slot \ S : blocks'[b] = blocks[b]
  <1>1. \A b \in S : blocks'[b] = [blocks[b] EXCEPT !.pos = -1, !.track = NULL,
                                                  !.queued = FALSE]
    BY DEF Released
  <1>2. \A b \in Slot \ S : blocks'[b] = blocks[b]
    BY DEF Released
  <1>3. \A b \in Slot : blocks[b] \in Block
    BY DEF TypeOK
  <1>4. \A b \in S : /\ blocks'[b] \in Block
                     /\ blocks'[b].track = NULL
                     /\ ~ blocks'[b].queued
                     /\ blocks'[b].pos = -1
    <2> SUFFICES ASSUME NEW b \in S
                 PROVE  /\ blocks'[b] \in Block
                        /\ blocks'[b].track = NULL
                        /\ ~ blocks'[b].queued
                        /\ blocks'[b].pos = -1
      OBVIOUS
    <2>1. blocks[b] \in Block
      BY <1>3
    <2> QED
      BY <1>1, <2>1 DEF Block
  <1>5. blocks' \in [Slot -> Block]
    BY <1>2, <1>3, <1>4 DEF Released
  <1>6. BlockShape'
    BY <1>2, <1>4 DEF BlockShape, Slot
  <1>7. QueuedSlots' = QueuedSlots \ S
    BY <1>2, <1>4 DEF QueuedSlots, Slot
  <1>8. ASSUME NEW t \in Track
        PROVE  /\ refs'[t] \in Int
               /\ refs'[t] = Cardinality(HeldBy(Slot, t)')
    <2>1. HeldBy(Slot, t)' = HeldBy(Slot, t) \ HeldBy(S, t)
      BY <1>2, <1>4, StreamReaderAssumption DEF HeldBy, Slot
    <2>2. HeldBy(S, t) \in SUBSET HeldBy(Slot, t)
      BY DEF HeldBy
    <2>3. Cardinality(HeldBy(Slot, t)')
            = Cardinality(HeldBy(Slot, t)) - Cardinality(HeldBy(S, t))
      BY <2>1, <2>2, HeldFinite, Partition
    <2>4. refs[t] = Cardinality(HeldBy(Slot, t)) /\ refs[t] \in Int
      BY DEF RefsMatchBlocks, TypeOK
    <2>5. refs'[t] = refs[t] - Cardinality(HeldBy(S, t))
      BY DEF Unreffed
    <2> QED
      BY <2>3, <2>4, <2>5, HeldFinite
  <1>9. RefsMatchBlocks'
    BY <1>8 DEF RefsMatchBlocks
  <1>10. refs' \in [Track -> Int]
    BY <1>8 DEF Unreffed
  <1> QED
    BY <1>2, <1>4, <1>5, <1>6, <1>7, <1>9, <1>10

-----------------------------------------------------------------------------
LEMMA InitSafe == Init => SafeInv
  <1> SUFFICES ASSUME Init PROVE SafeInv
    OBVIOUS
  <1> USE StreamReaderAssumption
  <1>1. TypeOK
    <2>1. EmptyBlock \in Block
      BY DEF EmptyBlock, Block
    <2>2. blocks \in [Slot -> Block] /\ refs \in [Track -> Int]
      BY <2>1 DEF Init
    <2>3. 0 \in Slot
      BY DEF Slot
    <2>4. firstblock \in BOOLEAN /\ fileinfo \in FileState
      BY DEF Init, FileState
    <2> QED
      BY <2>2, <2>3, <2>4 DEF Init, TypeOK
  <1>2. \A t \in Track : HeldBy(Slot, t) = {}
    BY DEF Init, HeldBy, EmptyBlock
  <1>3. RefsMatchBlocks
    BY <1>2, FS_EmptySet DEF Init, RefsMatchBlocks
  <1>4. BlockShape /\ ReadBlockFree /\ OpenHasTrack
    BY DEF Init, BlockShape, ReadBlockFree, OpenHasTrack, EmptyBlock
  <1>5. CountBounded
    BY QueuedFinite DEF Init, CountBounded
  <1> QED
    BY <1>1, <1>3, <1>4, <1>5 DEF SafeInv

LEMMA BeginReadSafe ==
  ASSUME SafeInv, NEW kind \in {"read", "failed", "silence"}, BeginRead(kind)
  PROVE  SafeInv'
  <1> USE StreamReaderAssumption DEF SafeInv, BeginRead
  <1>1. streaming \in Track
    BY DEF OpenHasTrack
  <1>2. TypeOK'
    BY <1>1 DEF TypeOK, Read
  <1>3. RefsMatchBlocks' /\ BlockShape'
    BY DEF RefsMatchBlocks, BlockShape, HeldBy
  <1>4. ReadBlockFree'
    BY DEF ReadBlockFree, BlockShape, TypeOK
  <1>5. OpenHasTrack' /\ CountBounded'
    BY DEF OpenHasTrack, CountBounded, QueuedSlots
  <1> QED
    BY <1>2, <1>3, <1>4, <1>5

LEMMA FinishReadSafe ==
  ASSUME SafeInv, FinishRead
  PROVE  SafeInv'
  <1> USE StreamReaderAssumption
  <1> DEFINE r == reading.block
             t == reading.track
  <1>1. /\ reading \in Read
        /\ r \in Slot
        /\ t \in Track
        /\ t # NULL
        /\ ~ blocks[r].queued
        /\ blocks[r].track = NULL
    BY DEF SafeInv, FinishRead, TypeOK, Read, ReadBlockFree, BlockShape
  <1>2. PICK size \in Filled(reading.kind) :
          /\ blocks' = [blocks EXCEPT ![r] =
                          [pos |-> 0, size |-> size, first |-> firstblock,
                           last |-> (size # BLOCK_SIZE), track |-> t,
                           queued |-> TRUE]]
          /\ firstblock' = (size # BLOCK_SIZE)
          /\ fileinfo' = IF size # BLOCK_SIZE THEN "ended" ELSE "open"
    BY DEF FinishRead
  <1>3. size \in 0 .. BLOCK_SIZE
    BY <1>1, <1>2 DEF Filled, Read
  <1>4. /\ blocks'[r].pos = 0
        /\ blocks'[r].queued
        /\ blocks'[r].track = t
        /\ blocks'[r] \in Block
    BY <1>1, <1>2, <1>3 DEF SafeInv, TypeOK, Block
  <1>5. \A b \in Slot \ {r} : blocks'[b] = blocks[b]
    BY <1>2 DEF SafeInv, TypeOK
  <1>6. blocks' \in [Slot -> Block]
    BY <1>1, <1>2, <1>4, <1>5 DEF SafeInv, TypeOK
  <1>7. TypeOK'
    <2>1. Next1(block_next) \in Slot
      BY Next1Slot DEF SafeInv, TypeOK
    <2>2. refs' \in [Track -> Int]
      BY <1>1 DEF SafeInv, TypeOK, FinishRead
    <2>3. block_data' \in Slot \cup {NULL}
      BY DEF SafeInv, TypeOK, FinishRead, FirstData
    <2>4. fileinfo' \in FileState /\ firstblock' \in BOOLEAN
      BY <1>2 DEF FileState
    <2> QED
      BY <1>6, <2>1, <2>2, <2>3, <2>4 DEF SafeInv, TypeOK, FinishRead
  <1>8. BlockShape'
    BY <1>1, <1>4, <1>5 DEF SafeInv, BlockShape
  <1>9. RefsMatchBlocks'
    <2> SUFFICES ASSUME NEW u \in Track
                 PROVE  refs'[u] = Cardinality(HeldBy(Slot, u)')
      BY DEF RefsMatchBlocks
    <2>1. /\ IsFiniteSet(HeldBy(Slot, u))
          /\ refs[u] = Cardinality(HeldBy(Slot, u))
      BY HeldFinite DEF SafeInv, RefsMatchBlocks
    <2>2. CASE u = t
      <3>1. HeldBy(Slot, u)' = HeldBy(Slot, u) \cup {r}
        BY <1>1, <1>4, <1>5, <2>2 DEF HeldBy
      <3>2. r \notin HeldBy(Slot, u)
        BY <1>1, <2>2 DEF HeldBy
      <3>3. refs'[u] = refs[u] + 1
        BY <2>2 DEF FinishRead, SafeInv, TypeOK
      <3> QED
        BY <2>1, <3>1, <3>2, <3>3, FS_AddElement
    <2>3. CASE u # t
      <3>1. HeldBy(Slot, u)' = HeldBy(Slot, u)
        BY <1>1, <1>4, <1>5, <2>3 DEF HeldBy
      <3>2. refs'[u] = refs[u]
        BY <2>3 DEF FinishRead, SafeInv, TypeOK
      <3> QED
        BY <2>1, <3>1, <3>2
    <2> QED
      BY <2>2, <2>3
  <1>10. CountBounded'
    <2>1. QueuedSlots' = QueuedSlots \cup {r}
      BY <1>1, <1>4, <1>5 DEF QueuedSlots
    <2>2. r \notin QueuedSlots
      BY <1>1 DEF QueuedSlots
    <2>3. Cardinality(QueuedSlots') = Cardinality(QueuedSlots) + 1
      BY <2>1, <2>2, QueuedFinite, FS_AddElement
    <2> QED
      BY <2>3, QueuedFinite DEF SafeInv, CountBounded, FinishRead, TypeOK
  <1>11. ReadBlockFree' /\ OpenHasTrack'
    <2>1. ReadBlockFree'
      BY DEF ReadBlockFree, FinishRead
    <2>2. streaming \in Track
      BY DEF SafeInv, OpenHasTrack, FinishRead
    <2> QED
      BY <2>1, <2>2 DEF OpenHasTrack, FinishRead
  <1> QED
    BY <1>7, <1>8, <1>9, <1>10, <1>11 DEF SafeInv

LEMMA NextBlockSafe ==
  ASSUME SafeInv, NextBlock
  PROVE  SafeInv'
  <1> USE StreamReaderAssumption
  <1>1. /\ block_data \in Slot
        /\ blocks[block_data].queued
        /\ {block_data} \in SUBSET Slot
    BY DEF SafeInv, NextBlock, TypeOK, BlockShape, Block
  <1>2. blocks' = Released({block_data}) /\ refs' = Unreffed({block_data})
    BY DEF NextBlock
  <1>3. TypeOK /\ RefsMatchBlocks /\ BlockShape
    BY DEF SafeInv
  <1>4. /\ blocks' \in [Slot -> Block]
        /\ refs' \in [Track -> Int]
        /\ RefsMatchBlocks'
        /\ BlockShape'
        /\ QueuedSlots' = QueuedSlots \ {block_data}
        /\ \A b \in Slot \ {block_data} : blocks'[b] = blocks[b]
    BY <1>1, <1>2, <1>3, ReleaseKeeps
  <1>5. Next1(block_data) \in Slot
    BY <1>1, Next1Slot
  <1>6. TypeOK'
    <2>1. UNCHANGED <<block_next, firstblock, reading, streaming, fileinfo>>
      BY DEF NextBlock
    <2>2. block_data' \in Slot \cup {NULL}
      BY <1>5 DEF NextBlock
    <2>3. numblocks_ready' \in Nat
      BY DEF SafeInv, TypeOK, NextBlock, NonNegative
    <2> QED
      BY <1>3, <1>4, <2>1, <2>2, <2>3 DEF TypeOK
  <1>7. CountBounded'
    <2>1. block_data \in QueuedSlots
      BY <1>1 DEF QueuedSlots
    <2>2. Cardinality(QueuedSlots') = Cardinality(QueuedSlots) - 1
      BY <1>4, <2>1, QueuedFinite, FS_RemoveElement
    <2>3. Cardinality(QueuedSlots') \in Nat
      BY <1>4, QueuedFinite, FS_RemoveElement, FS_CardinalityType
    <2> QED
      BY <2>2, <2>3, QueuedFinite
         DEF SafeInv, CountBounded, NextBlock, NonNegative, TypeOK
  <1>8. ReadBlockFree'
    BY <1>1, <1>4 DEF SafeInv, ReadBlockFree, NextBlock, TypeOK, Read
  <1>9. OpenHasTrack'
    BY DEF SafeInv, OpenHasTrack, NextBlock
  <1> QED
    BY <1>4, <1>6, <1>7, <1>8, <1>9 DEF SafeInv

(* A reset leaves a well formed, empty ring whoever calls it and whenever. *)
LEMMA ResetSafe ==
  ASSUME SafeInv, ResetRing, UNCHANGED reading,
         streaming' \in Track \cup {NULL}, fileinfo' \in FileState,
         OpenHasTrack'
  PROVE  SafeInv'
  <1> USE StreamReaderAssumption
  <1>1. blocks' = Released(Slot) /\ refs' = Unreffed(Slot)
    BY DEF ResetRing
  <1>2. TypeOK /\ RefsMatchBlocks /\ BlockShape
    BY DEF SafeInv
  <1>3. /\ blocks' \in [Slot -> Block]
        /\ refs' \in [Track -> Int]
        /\ RefsMatchBlocks'
        /\ BlockShape'
        /\ \A b \in Slot : ~ blocks'[b].queued
    BY <1>1, <1>2, ReleaseKeeps
  <1>4. TypeOK'
    <2>1. firstblock' \in BOOLEAN
      BY DEF ResetRing
    <2>2. /\ block_next' \in Slot
          /\ block_data' = NULL
          /\ numblocks_ready' \in Nat
      BY DEF ResetRing, Slot
    <2> QED
      BY <1>2, <1>3, <2>1, <2>2 DEF TypeOK
  <1>5. ReadBlockFree'
    BY <1>3 DEF SafeInv, ReadBlockFree, TypeOK, Read
  <1>6. CountBounded'
    <2>1. QueuedSlots' = {}
      BY <1>3 DEF QueuedSlots
    <2> QED
      BY <2>1, FS_EmptySet DEF CountBounded, ResetRing
  <1> QED
    BY <1>3, <1>4, <1>5, <1>6 DEF SafeInv

LEMMA FlushAfterSafe ==
  ASSUME SafeInv, NEW it \in Track, NEW t \in Track, FlushAfter(it, t)
  PROVE  SafeInv'
  <1> USE StreamReaderAssumption
  <1>1. /\ streaming' \in Track \cup {NULL}
        /\ fileinfo' \in FileState
        /\ OpenHasTrack'
        /\ ReadBlockFree'
    BY DEF SafeInv, TypeOK, FlushAfter, OpenHasTrack, ReadBlockFree, FileState
  <1>2. CASE block_data = NULL
    <2>1. UNCHANGED <<blocks, block_data, block_next, numblocks_ready,
                      firstblock, reading, refs>>
      BY <1>2 DEF FlushAfter
    <2> QED
      BY <1>1, <2>1 DEF SafeInv, TypeOK, RefsMatchBlocks, HeldBy, BlockShape,
                        CountBounded, QueuedSlots
  <1>3. CASE block_data # NULL
    <2> DEFINE Rest(k) == {After(block_data, i) : i \in k .. numblocks_ready - 1}
    <2>1. PICK k \in 0 .. numblocks_ready :
            /\ block_next' = After(block_data, k)
            /\ blocks' = Released(Rest(k))
            /\ refs' = Unreffed(Rest(k))
            /\ numblocks_ready' = k
            /\ firstblock' = BoundaryAfterFlush(Rest(k))
      BY <1>3 DEF FlushAfter
    <2>2. block_data \in Slot /\ numblocks_ready \in 0 .. BLOCK_COUNT
      BY <1>3, QueuedFinite DEF SafeInv, TypeOK, CountBounded
    <2>3. Rest(k) \in SUBSET Slot
      BY <2>2, AfterSlot
    <2> HIDE DEF Rest
    <2>4. TypeOK /\ RefsMatchBlocks /\ BlockShape
      BY DEF SafeInv
    <2>5. /\ blocks' \in [Slot -> Block]
          /\ refs' \in [Track -> Int]
          /\ RefsMatchBlocks'
          /\ BlockShape'
          /\ QueuedSlots' = QueuedSlots \ Rest(k)
      BY <2>1, <2>3, <2>4, ReleaseKeeps
    <2>6. block_next' \in Slot
      BY <2>1, <2>2, AfterSlot
    <2>7. TypeOK'
      BY <1>1, <2>1, <2>2, <2>5, <2>6
         DEF SafeInv, TypeOK, FlushAfter, BoundaryAfterFlush
    <2>8. CountBounded'
      <3>1. Cardinality(Rest(k)) <= numblocks_ready - k
        BY <2>2, RestBounded DEF Rest
      <3>2. IsFiniteSet(Rest(k)) /\ Cardinality(Rest(k)) \in Nat
        BY <2>3, SlotFinite, FS_Subset, FS_CardinalityType
      <3>3. /\ IsFiniteSet(QueuedSlots \cap Rest(k))
            /\ Cardinality(QueuedSlots \cap Rest(k)) \in Nat
            /\ Cardinality(QueuedSlots \cap Rest(k)) <= Cardinality(Rest(k))
        BY <3>2, FS_Intersection, FS_CardinalityType
      <3>4. QueuedSlots' = QueuedSlots \ (QueuedSlots \cap Rest(k))
        BY <2>5
      <3>5. QueuedSlots \cap Rest(k) \in SUBSET QueuedSlots
        OBVIOUS
      <3>6. Cardinality(QueuedSlots')
              = Cardinality(QueuedSlots) - Cardinality(QueuedSlots \cap Rest(k))
        BY <3>4, <3>5, QueuedFinite, Partition
      <3>7. /\ Cardinality(QueuedSlots) \in Nat
            /\ numblocks_ready <= Cardinality(QueuedSlots)
        BY QueuedFinite DEF SafeInv, CountBounded
      <3> QED
        BY <2>1, <2>2, <3>1, <3>2, <3>3, <3>6, <3>7 DEF CountBounded
    <2> QED
      BY <1>1, <2>5, <2>7, <2>8 DEF SafeInv
  <1> QED
    BY <1>2, <1>3

LEMMA SafeStep == SafeInv /\ [Next]_vars => SafeInv'
  <1> SUFFICES ASSUME SafeInv, [Next]_vars PROVE SafeInv'
    OBVIOUS
  <1>1. ASSUME NEW kind \in {"read", "failed", "silence"}, BeginRead(kind)
        PROVE  SafeInv'
    BY <1>1, BeginReadSafe
  <1>2. CASE FinishRead
    BY <1>2, FinishReadSafe
  <1>3. CASE NextBlock
    BY <1>3, NextBlockSafe
  <1>4. ASSUME NEW t \in Track, Restart(t)
        PROVE  SafeInv'
    <2>1. /\ streaming' \in Track \cup {NULL}
          /\ fileinfo' \in FileState
          /\ OpenHasTrack'
      BY <1>4 DEF Restart, FileState, OpenHasTrack
    <2> QED
      BY <1>4, <2>1, ResetSafe DEF Restart
  <1>5. ASSUME NEW t \in Track \cup {NULL}, NextStream(t)
        PROVE  SafeInv'
    <2>1. reading = NULL
      BY <1>5 DEF NextStream, SafeInv, OpenHasTrack
    <2>2. /\ streaming' \in Track \cup {NULL}
          /\ fileinfo' \in FileState
          /\ OpenHasTrack'
      BY <1>5, <2>1 DEF NextStream, FileState, OpenHasTrack
    <2>3. UNCHANGED <<blocks, block_data, block_next, numblocks_ready,
                      firstblock, reading, refs>>
      BY <1>5 DEF NextStream
    <2> QED
      BY <2>2, <2>3 DEF SafeInv, TypeOK, RefsMatchBlocks, HeldBy, BlockShape,
                        ReadBlockFree, CountBounded, QueuedSlots
  <1>6. ASSUME NEW it \in Track, NEW t \in Track, FlushAfter(it, t)
        PROVE  SafeInv'
    BY <1>6, FlushAfterSafe
  <1>7. CASE ResetDuringRead
    <2>1. /\ streaming' \in Track \cup {NULL}
          /\ fileinfo' \in FileState
          /\ OpenHasTrack'
      BY <1>7 DEF ResetDuringRead, SafeInv, TypeOK, OpenHasTrack
    <2> QED
      BY <1>7, <2>1, ResetSafe DEF ResetDuringRead
  <1>8. CASE UNCHANGED vars
    BY <1>8 DEF vars, SafeInv, TypeOK, RefsMatchBlocks, HeldBy, BlockShape,
                ReadBlockFree, OpenHasTrack, CountBounded, QueuedSlots
  <1> QED
    BY <1>1, <1>2, <1>3, <1>4, <1>5, <1>6, <1>7, <1>8 DEF Next, OrderlyNext

(* Whoever resets the ring, and even in the middle of a read, no reference *)
(* to a track is lost or dropped twice: what the ring has taken with       *)
(* pl_item_ref and not yet given back with pl_item_unref is exactly one    *)
(* reference for each block that names the track.                          *)
THEOREM RefsAccounted == Spec => [](TypeOK /\ RefsMatchBlocks)
  <1>1. SafeInv => TypeOK /\ RefsMatchBlocks
    BY DEF SafeInv
  <1> QED
    BY <1>1, InitSafe, SafeStep, PTL DEF Spec

(* Counts, lists and block states keep their types for a ring of any size, *)
(* resets inside a read included: numblocks_ready never exceeds the number *)
(* of blocks, and neither pointer into the ring is ever wild.              *)
THEOREM RingTyped == Spec => []TypeOK
  <1>1. SafeInv => TypeOK
    BY DEF SafeInv
  <1> QED
    BY <1>1, InitSafe, SafeStep, PTL DEF Spec

-----------------------------------------------------------------------------
(* How far b is behind a, walking the list circularly.                     *)
Dist(a, b) == IF b >= a THEN b - a ELSE b - a + BLOCK_COUNT

LEMMA DistAfter ==
  ASSUME NEW a \in Slot
  PROVE  /\ \A b \in Slot : /\ Dist(a, b) \in 0 .. BLOCK_COUNT - 1
                            /\ After(a, Dist(a, b)) = b
                            /\ b # a => Dist(a, b) > 0
         /\ \A k \in 0 .. BLOCK_COUNT - 1 : Dist(a, After(a, k)) = k
         /\ After(a, 0) = a
         /\ Dist(a, a) = 0
  BY StreamReaderAssumption DEF Dist, After, Slot

LEMMA DistNext1 ==
  ASSUME NEW a \in Slot, NEW b \in Slot
  PROVE  /\ b # a => Dist(Next1(a), b) = Dist(a, b) - 1
         /\ b = a => Dist(Next1(a), b) = BLOCK_COUNT - 1
  BY StreamReaderAssumption DEF Dist, Next1, Slot

LEMMA AfterNext1 ==
  ASSUME NEW a \in Slot, NEW k \in 0 .. BLOCK_COUNT - 1
  PROVE  /\ Next1(After(a, k)) = After(a, k + 1)
         /\ After(Next1(a), k) = After(a, k + 1)
  BY StreamReaderAssumption DEF After, Next1, Slot

LEMMA ReadyDist ==
  ASSUME block_data \in Slot, numblocks_ready \in 0 .. BLOCK_COUNT,
         NEW b \in Slot
  PROVE  b \in ReadySlots <=> Dist(block_data, b) < numblocks_ready
  <1>1. ASSUME b \in ReadySlots
        PROVE  Dist(block_data, b) < numblocks_ready
    <2>1. PICK i \in 0 .. numblocks_ready - 1 : b = After(block_data, i)
      BY <1>1 DEF ReadySlots
    <2> QED
      BY <2>1, DistAfter, StreamReaderAssumption
  <1>2. ASSUME Dist(block_data, b) < numblocks_ready
        PROVE  b \in ReadySlots
    <2>1. /\ Dist(block_data, b) \in 0 .. numblocks_ready - 1
          /\ After(block_data, Dist(block_data, b)) = b
      BY <1>2, DistAfter, StreamReaderAssumption
    <2> QED
      BY <2>1 DEF ReadySlots
  <1> QED
    BY <1>1, <1>2

(* DataIsContiguous with the window stated by distances.                   *)
Window ==
    /\ numblocks_ready <= BLOCK_COUNT
    /\ block_data = NULL => /\ numblocks_ready = 0
                            /\ \A b \in Slot : ~ blocks[b].queued
    /\ block_data # NULL =>
         /\ block_next = After(block_data, numblocks_ready)
         /\ \A b \in Slot : blocks[b].queued
                              <=> Dist(block_data, b) < numblocks_ready

LEMMA WindowIsContiguous == TypeOK => (DataIsContiguous <=> Window)
  <1> SUFFICES ASSUME TypeOK PROVE DataIsContiguous <=> Window
    OBVIOUS
  <1>1. CASE block_data = NULL
    BY <1>1 DEF DataIsContiguous, Window
  <1>2. CASE block_data # NULL /\ numblocks_ready <= BLOCK_COUNT
    <2>1. block_data \in Slot /\ numblocks_ready \in 0 .. BLOCK_COUNT
      BY <1>2, StreamReaderAssumption DEF TypeOK
    <2>2. \A b \in Slot : b \in ReadySlots
                          <=> Dist(block_data, b) < numblocks_ready
      BY <2>1, ReadyDist
    <2> QED
      BY <1>2, <2>2 DEF DataIsContiguous, Window
  <1>3. CASE ~ (numblocks_ready <= BLOCK_COUNT)
    BY <1>3 DEF DataIsContiguous, Window
  <1> QED
    BY <1>1, <1>2, <1>3

(* The invariant of the ring as long as only the streamer resets it.       *)
RingInv == SafeInv /\ Window /\ HandleIsNext

LEMMA InitRing == Init => RingInv
  BY InitSafe, StreamReaderAssumption
     DEF Init, RingInv, Window, HandleIsNext, EmptyBlock

LEMMA FinishReadRing ==
  ASSUME RingInv, FinishRead
  PROVE  Window'
  <1> DEFINE r == reading.block
  <1>1. /\ r = block_next
        /\ r \in Slot
        /\ ~ blocks[r].queued
        /\ numblocks_ready' = numblocks_ready + 1
        /\ block_next' = Next1(r)
        /\ numblocks_ready \in Nat
        /\ blocks \in [Slot -> Block]
    BY DEF RingInv, SafeInv, TypeOK, HandleIsNext, FinishRead
  <1>2. /\ \A b \in Slot \ {r} : blocks'[b] = blocks[b]
        /\ blocks'[r].queued
    BY <1>1 DEF FinishRead
  <1>3. BLOCK_COUNT \in Nat \ {0}
    BY StreamReaderAssumption
  <1>4. CASE block_data = NULL
    <2>1. block_data' = r /\ numblocks_ready' = 1 /\ r # NULL
      BY <1>1, <1>4, StreamReaderAssumption
         DEF FinishRead, FirstData, RingInv, Window, Slot
    <2>2. \A b \in Slot : blocks'[b].queued <=> b = r
      BY <1>2, <1>4 DEF RingInv, Window
    <2>3. \A b \in Slot : (b = r) <=> Dist(r, b) < 1
      BY <1>1, <1>3, DistAfter
    <2>4. block_next' = After(r, 1)
      BY <1>1, Next1Slot, <1>3
    <2> QED
      BY <2>1, <2>2, <2>3, <2>4, <1>3 DEF Window
  <1>5. CASE block_data # NULL
    <2>1. /\ block_data \in Slot
          /\ block_data' = block_data
          /\ numblocks_ready <= BLOCK_COUNT
          /\ r = After(block_data, numblocks_ready)
          /\ ~ (Dist(block_data, r) < numblocks_ready)
      BY <1>1, <1>5 DEF FinishRead, FirstData, RingInv, SafeInv, TypeOK, Window
    <2>2. numblocks_ready \in 0 .. BLOCK_COUNT - 1
      BY <1>1, <1>3, <2>1, DistAfter
    <2>3. Dist(block_data, r) = numblocks_ready
      BY <2>1, <2>2, DistAfter
    <2>4. ASSUME NEW b \in Slot
          PROVE  blocks'[b].queued <=> Dist(block_data, b) < numblocks_ready + 1
      <3>1. CASE b = r
        BY <1>1, <1>2, <2>3, <3>1
      <3>2. CASE b # r
        <4>1. Dist(block_data, b) # numblocks_ready
          BY <2>1, <3>2, DistAfter
        <4>2. Dist(block_data, b) \in Nat
          BY <2>1, <1>3, DistAfter
        <4>3. blocks[b].queued <=> Dist(block_data, b) < numblocks_ready
          BY <1>5 DEF RingInv, Window
        <4> QED
          BY <1>1, <1>2, <3>2, <4>1, <4>2, <4>3
      <3> QED
        BY <3>1, <3>2
    <2>5. block_next' = After(block_data, numblocks_ready + 1)
      BY <1>1, <2>1, <2>2, AfterNext1
    <2> QED
      BY <1>1, <1>3, <1>5, <2>1, <2>2, <2>4, <2>5 DEF Window
  <1> QED
    BY <1>4, <1>5

LEMMA NextBlockRing ==
  ASSUME RingInv, NextBlock
  PROVE  Window' /\ HandleIsNext'
  <1>1. /\ block_data \in Slot
        /\ block_data # NULL
        /\ blocks[block_data].queued
        /\ numblocks_ready \in Nat
        /\ numblocks_ready <= BLOCK_COUNT
        /\ block_next' = block_next
        /\ block_next = After(block_data, numblocks_ready)
        /\ BLOCK_COUNT \in Nat \ {0}
    BY StreamReaderAssumption DEF RingInv, SafeInv, NextBlock, TypeOK, BlockShape, Block, Window
  <1>2. /\ \A b \in Slot \ {block_data} : blocks'[b] = blocks[b]
        /\ ~ blocks'[block_data].queued
    <2>1. {block_data} \in SUBSET Slot
      BY <1>1
    <2> QED
      BY <2>1, ReleaseKeeps DEF NextBlock, RingInv, SafeInv
  <1>3. \A b \in Slot : blocks[b].queued <=> Dist(block_data, b) < numblocks_ready
    BY <1>1 DEF RingInv, Window
  <1>4. 0 < numblocks_ready /\ numblocks_ready' = numblocks_ready - 1
    BY <1>1, <1>3, DistAfter DEF NextBlock, NonNegative
  <1> DEFINE n == Next1(block_data)
  <1>5. n \in Slot
    BY <1>1, Next1Slot
  <1>6. CASE numblocks_ready = 1
    <2>1. \A b \in Slot : ~ blocks'[b].queued
      BY <1>1, <1>2, <1>3, <1>6, DistAfter
    <2>2. block_data' = NULL
      BY <1>5, <2>1 DEF NextBlock
    <2>3. Window'
      BY <1>1, <1>4, <1>6, <2>1, <2>2 DEF Window
    <2>4. HandleIsNext'
      BY <2>1, <1>1 DEF HandleIsNext, RingInv, NextBlock, SafeInv, TypeOK, Read
    <2> QED
      BY <2>3, <2>4
  <1>7. CASE numblocks_ready > 1
    <2>1. n = After(block_data, 1) /\ Dist(block_data, n) = 1
      BY <1>1, <1>7, Next1Slot, DistAfter
    <2>2. n # block_data
      BY <1>1, <2>1, DistAfter
    <2>3. blocks'[n].queued
      BY <1>2, <1>3, <1>5, <1>7, <2>1, <2>2
    <2>4. block_data' = n
      BY <2>3 DEF NextBlock
    <2>5. ASSUME NEW b \in Slot
          PROVE  blocks'[b].queued <=> Dist(n, b) < numblocks_ready - 1
      <3>1. CASE b = block_data
        BY <1>1, <1>2, <3>1, DistNext1
      <3>2. CASE b # block_data
        <4>1. Dist(n, b) = Dist(block_data, b) - 1
          BY <1>1, <3>2, DistNext1
        <4>2. Dist(block_data, b) \in Int
          BY <1>1, DistAfter
        <4> QED
          BY <1>1, <1>2, <1>3, <3>2, <4>1, <4>2
      <3> QED
        BY <3>1, <3>2
    <2>6. block_next = After(n, numblocks_ready - 1)
      <3>1. numblocks_ready - 1 \in 0 .. BLOCK_COUNT - 1
        BY <1>1, <1>7
      <3>2. After(n, numblocks_ready - 1) = After(block_data, numblocks_ready - 1 + 1)
        BY <1>1, <3>1, AfterNext1
      <3> QED
        BY <1>1, <3>2
    <2>7. n # NULL
      BY <1>5, StreamReaderAssumption DEF Slot
    <2>8. Window'
      BY <1>1, <1>4, <1>7, <2>4, <2>5, <2>6, <2>7 DEF Window
    <2>9. HandleIsNext'
      BY <1>1, <1>2 DEF HandleIsNext, RingInv, NextBlock, SafeInv, TypeOK, Read
    <2> QED
      BY <2>8, <2>9
  <1> QED
    BY <1>1, <1>4, <1>6, <1>7

LEMMA FlushAfterRing ==
  ASSUME RingInv, NEW it \in Track, NEW t \in Track, FlushAfter(it, t)
  PROVE  Window' /\ HandleIsNext'
  <1>1. reading = NULL /\ HandleIsNext'
    BY DEF FlushAfter, HandleIsNext
  <1>2. CASE block_data = NULL
    BY <1>1, <1>2 DEF FlushAfter, RingInv, Window
  <1>3. CASE block_data # NULL
    <2> DEFINE Rest(k) == {After(block_data, i) : i \in k .. numblocks_ready - 1}
    <2>1. PICK k \in 0 .. numblocks_ready :
            /\ block_next' = After(block_data, k)
            /\ blocks' = Released(Rest(k))
            /\ refs' = Unreffed(Rest(k))
            /\ numblocks_ready' = k
      BY <1>3 DEF FlushAfter
    <2>2. /\ block_data \in Slot
          /\ numblocks_ready \in 0 .. BLOCK_COUNT
          /\ BLOCK_COUNT \in Nat \ {0}
          /\ block_data' = block_data
      BY <1>3, StreamReaderAssumption DEF RingInv, SafeInv, TypeOK, Window, FlushAfter
    <2>3. Rest(k) \in SUBSET Slot
      BY <2>2, AfterSlot
    <2>4. ASSUME NEW b \in Slot
          PROVE  b \in Rest(k) <=> /\ k <= Dist(block_data, b)
                                   /\ Dist(block_data, b) < numblocks_ready
      <3>1. ASSUME b \in Rest(k)
            PROVE  k <= Dist(block_data, b) /\ Dist(block_data, b) < numblocks_ready
        <4>1. PICK i \in k .. numblocks_ready - 1 : b = After(block_data, i)
          BY <3>1
        <4>2. Dist(block_data, b) = i
          BY <2>2, <4>1, DistAfter
        <4> QED
          BY <2>2, <4>1, <4>2
      <3>2. ASSUME k <= Dist(block_data, b), Dist(block_data, b) < numblocks_ready
            PROVE  b \in Rest(k)
        <4>1. /\ Dist(block_data, b) \in k .. numblocks_ready - 1
              /\ After(block_data, Dist(block_data, b)) = b
          BY <2>2, <3>2, DistAfter
        <4> QED
          BY <4>1
      <3> QED
        BY <3>1, <3>2
    <2> HIDE DEF Rest
    <2>5. /\ \A b \in Rest(k) : ~ blocks'[b].queued
          /\ \A b \in Slot \ Rest(k) : blocks'[b] = blocks[b]
      BY <2>1, <2>3, ReleaseKeeps DEF RingInv, SafeInv
    <2>6. ASSUME NEW b \in Slot
          PROVE  blocks'[b].queued <=> Dist(block_data, b) < k
      <3>1. blocks[b].queued <=> Dist(block_data, b) < numblocks_ready
        BY <1>3 DEF RingInv, Window
      <3>2. Dist(block_data, b) \in Int
        BY <2>2, DistAfter
      <3> QED
        BY <2>2, <2>4, <2>5, <3>1, <3>2
    <2> QED
      BY <1>1, <1>3, <2>1, <2>2, <2>6 DEF Window
  <1> QED
    BY <1>2, <1>3

LEMMA RingStep == RingInv /\ [OrderlyNext]_vars => RingInv'
  <1> SUFFICES ASSUME RingInv, [OrderlyNext]_vars PROVE RingInv'
    OBVIOUS
  <1>0. SafeInv'
    BY SafeStep DEF RingInv, Next
  <1>1. ASSUME NEW kind \in {"read", "failed", "silence"}, BeginRead(kind)
        PROVE  Window' /\ HandleIsNext'
    <2>1. Window'
      BY <1>1 DEF BeginRead, RingInv, Window
    <2>2. reading'.block = block_next /\ ~ blocks[block_next].queued
      BY <1>1 DEF BeginRead, RingInv, SafeInv, BlockShape, TypeOK
    <2> QED
      BY <1>1, <2>1, <2>2 DEF BeginRead, HandleIsNext
  <1>2. ASSUME FinishRead
        PROVE  Window' /\ HandleIsNext'
    BY <1>2, FinishReadRing DEF FinishRead, HandleIsNext
  <1>3. ASSUME NextBlock
        PROVE  Window' /\ HandleIsNext'
    BY <1>3, NextBlockRing
  <1>4. ASSUME NEW t \in Track, Restart(t)
        PROVE  Window' /\ HandleIsNext'
    <2>1. \A b \in Slot : ~ blocks'[b].queued
      BY <1>4, ReleaseKeeps DEF Restart, ResetRing, RingInv, SafeInv
    <2> QED
      BY <1>4, <2>1, StreamReaderAssumption
         DEF Restart, ResetRing, Window, HandleIsNext
  <1>5. ASSUME NEW t \in Track \cup {NULL}, NextStream(t)
        PROVE  Window' /\ HandleIsNext'
    BY <1>5 DEF NextStream, RingInv, Window, HandleIsNext
  <1>6. ASSUME NEW it \in Track, NEW t \in Track, FlushAfter(it, t)
        PROVE  Window' /\ HandleIsNext'
    BY <1>6, FlushAfterRing
  <1>7. ASSUME UNCHANGED vars
        PROVE  Window' /\ HandleIsNext'
    BY <1>7 DEF vars, RingInv, Window, HandleIsNext
  <1> QED
    BY <1>0, <1>1, <1>2, <1>3, <1>4, <1>5, <1>6, <1>7 DEF OrderlyNext, RingInv

(* As long as only the streamer thread resets the ring, between its reads, *)
(* the blocks with data are the numblocks_ready blocks from block_data on, *)
(* the free block follows them, and the block being filled is that free    *)
(* block: what streamreader_next_block and streamreader_flush_after rely   *)
(* on when they walk the list by counting.                                 *)
THEOREM RingContiguous == OrderlySpec => [](DataIsContiguous /\ HandleIsNext)
  <1>1. RingInv => DataIsContiguous /\ HandleIsNext
    BY WindowIsContiguous DEF RingInv, SafeInv
  <1> QED
    BY <1>1, InitRing, RingStep, PTL DEF OrderlySpec

(* The block that streamreader_get_next_block gave out before the mutex    *)
(* was released for the read is the one streamreader_enqueue_block is to   *)
(* publish after it, whatever the output thread took and whatever was      *)
(* flushed meanwhile.                                                      *)
THEOREM HandlePublished == OrderlySpec => []HandleIsNext
  <1>1. RingInv => HandleIsNext
    BY DEF RingInv
  <1> QED
    BY <1>1, InitRing, RingStep, PTL DEF OrderlySpec

(* Under the same condition the output thread always sees data when there  *)
(* is some: the first block is a queued one whenever the count says so.    *)
THEOREM DataVisible == OrderlySpec => []CurrBlockHasData
  <1>1. RingInv => CurrBlockHasData
    BY DistAfter DEF RingInv, Window, SafeInv, TypeOK, CurrBlockHasData
  <1> QED
    BY <1>1, InitRing, RingStep, PTL DEF OrderlySpec

-----------------------------------------------------------------------------
(* The list of blocks with data, seen as positions 0 .. numblocks_ready - 1
   from block_data on.                                                     *)

(* The block at position i of the list.                                    *)
At(i) == blocks[After(block_data, i)]

(* The newest block with data.                                             *)
Newest == At(numblocks_ready - 1)

-----------------------------------------------------------------------------
(* What the invariant of the ring says about positions.                    *)
LEMMA Positions ==
  ASSUME RingInv
  PROVE  /\ BLOCK_COUNT \in Nat \ {0}
         /\ numblocks_ready \in 0 .. BLOCK_COUNT
         /\ numblocks_ready > 0 => block_data \in Slot /\ block_data # NULL
         /\ block_data # NULL => block_data \in Slot
         /\ \A i \in 0 .. numblocks_ready - 1 :
              /\ After(block_data, i) \in Slot
              /\ At(i) \in Block
              /\ At(i).queued
              /\ At(i).track \in Track
  <1>1. /\ BLOCK_COUNT \in Nat \ {0}
        /\ numblocks_ready \in 0 .. BLOCK_COUNT
        /\ block_data # NULL => block_data \in Slot
        /\ numblocks_ready > 0 => block_data \in Slot /\ block_data # NULL
    BY StreamReaderAssumption DEF RingInv, SafeInv, TypeOK, Window
  <1>2. ASSUME NEW i \in 0 .. numblocks_ready - 1
        PROVE  /\ After(block_data, i) \in Slot
               /\ At(i) \in Block
               /\ At(i).queued
               /\ At(i).track \in Track
    <2>1. block_data \in Slot /\ block_data # NULL /\ i \in 0 .. BLOCK_COUNT - 1
      BY <1>1
    <2>2. After(block_data, i) \in Slot /\ Dist(block_data, After(block_data, i)) = i
      BY <1>1, <2>1, AfterSlot, DistAfter
    <2>3. At(i) \in Block
      BY <2>2 DEF At, RingInv, SafeInv, TypeOK
    <2>4. At(i).queued
      BY <1>1, <2>1, <2>2 DEF At, RingInv, Window
    <2>5. At(i).track # NULL
      BY <2>2, <2>4 DEF At, RingInv, SafeInv, BlockShape
    <2> QED
      BY <2>2, <2>3, <2>4, <2>5 DEF Block
  <1> QED
    BY <1>1, <1>2

(* Different positions are different blocks.                               *)
LEMMA PositionsDiffer ==
  ASSUME NEW a \in Slot,
         NEW i \in 0 .. BLOCK_COUNT - 1, NEW j \in 0 .. BLOCK_COUNT - 1, i # j
  PROVE  After(a, i) # After(a, j)
  BY StreamReaderAssumption DEF After, Slot

(* Enqueueing adds a block at the end of the list.                         *)
LEMMA FinishReadList ==
  ASSUME RingInv, FinishRead
  PROVE  /\ numblocks_ready < BLOCK_COUNT
         /\ numblocks_ready' = numblocks_ready + 1
         /\ \A i \in 0 .. numblocks_ready - 1 : At(i)' = At(i)
         /\ \E size \in 0 .. BLOCK_SIZE :
              /\ Newest' =
                   [pos |-> 0, size |-> size, first |-> firstblock,
                    last |-> (size # BLOCK_SIZE), track |-> reading.track,
                    queued |-> TRUE]
              /\ firstblock' = (size # BLOCK_SIZE)
              /\ fileinfo' = IF size # BLOCK_SIZE THEN "ended" ELSE "open"
  <1> DEFINE r == reading.block
             n == numblocks_ready
  <1>1. /\ r = block_next
        /\ r \in Slot
        /\ ~ blocks[r].queued
        /\ reading \in Read
        /\ blocks \in [Slot -> Block]
        /\ n' = n + 1
    BY DEF RingInv, SafeInv, TypeOK, HandleIsNext, FinishRead
  <1>2. PICK size \in Filled(reading.kind) :
          /\ blocks' = [blocks EXCEPT ![r] =
                          [pos |-> 0, size |-> size, first |-> firstblock,
                           last |-> (size # BLOCK_SIZE), track |-> reading.track,
                           queued |-> TRUE]]
          /\ firstblock' = (size # BLOCK_SIZE)
          /\ fileinfo' = IF size # BLOCK_SIZE THEN "ended" ELSE "open"
    BY DEF FinishRead
  <1>3. size \in 0 .. BLOCK_SIZE
    BY <1>1, <1>2, StreamReaderAssumption DEF Filled, Read
  <1>4. block_data' \in Slot /\ n < BLOCK_COUNT /\ r = After(block_data', n)
    <2>1. CASE block_data = NULL
      <3>1. block_data' = r /\ n = 0 /\ BLOCK_COUNT \in Nat \ {0}
        BY <1>1, <2>1, Positions DEF FinishRead, FirstData, RingInv, Window
      <3> QED
        BY <1>1, <3>1, DistAfter
    <2>2. CASE block_data # NULL
      <3>1. /\ block_data \in Slot
            /\ block_data' = block_data
            /\ n \in 0 .. BLOCK_COUNT
            /\ BLOCK_COUNT \in Nat \ {0}
            /\ r = After(block_data, n)
            /\ ~ (Dist(block_data, r) < n)
        BY <1>1, <2>2, Positions DEF FinishRead, FirstData, RingInv, Window
      <3>2. n < BLOCK_COUNT
        BY <1>1, <3>1, DistAfter
      <3> QED
        BY <3>1, <3>2
    <2> QED
      BY <2>1, <2>2
  <1>5. ASSUME NEW i \in 0 .. n - 1
        PROVE  At(i)' = At(i)
    <2>1. /\ block_data \in Slot /\ block_data # NULL
          /\ n \in 0 .. BLOCK_COUNT /\ BLOCK_COUNT \in Nat \ {0}
          /\ After(block_data, i) \in Slot
      BY Positions
    <2>2. block_data' = block_data
      BY <2>1 DEF FinishRead, FirstData
    <2>3. After(block_data, i) # r
      BY <1>4, <2>1, <2>2, PositionsDiffer
    <2> QED
      BY <1>1, <1>2, <2>1, <2>2, <2>3 DEF At, After
  <1>6. Newest' = blocks'[r]
    BY <1>1, <1>4, Positions DEF Newest, At
  <1>7. blocks'[r] = [pos |-> 0, size |-> size, first |-> firstblock,
                      last |-> (size # BLOCK_SIZE), track |-> reading.track,
                      queued |-> TRUE]
    BY <1>1, <1>2
  <1> HIDE DEF r
  <1> QED
    BY <1>1, <1>2, <1>3, <1>4, <1>5, <1>6, <1>7

(* Releasing the first block moves the others up.                          *)
LEMMA NextBlockList ==
  ASSUME RingInv, NextBlock
  PROVE  /\ numblocks_ready > 0
         /\ numblocks_ready' = numblocks_ready - 1
         /\ \A i \in 0 .. numblocks_ready - 2 : At(i)' = At(i + 1)
  <1>1. /\ block_data \in Slot
        /\ block_data # NULL
        /\ blocks[block_data].queued
        /\ BLOCK_COUNT \in Nat \ {0}
        /\ numblocks_ready \in 0 .. BLOCK_COUNT
    BY Positions DEF RingInv, SafeInv, NextBlock, TypeOK, BlockShape, Block
  <1>2. \A b \in Slot \ {block_data} : blocks'[b] = blocks[b]
    <2>1. {block_data} \in SUBSET Slot
      BY <1>1
    <2> QED
      BY <2>1, ReleaseKeeps DEF NextBlock, RingInv, SafeInv
  <1>3. numblocks_ready > 0 /\ numblocks_ready' = numblocks_ready - 1
    BY <1>1, DistAfter DEF NextBlock, NonNegative, RingInv, Window
  <1>4. ASSUME NEW i \in 0 .. numblocks_ready - 2
        PROVE  At(i)' = At(i + 1)
    <2>1. After(block_data, 1) \in Slot /\ Next1(block_data) = After(block_data, 1)
      BY <1>1, Next1Slot
    <2>2. /\ i \in 0 .. BLOCK_COUNT - 1
          /\ i + 1 \in 0 .. BLOCK_COUNT - 1
          /\ 1 \in 0 .. BLOCK_COUNT - 1
          /\ 1 \in 0 .. numblocks_ready - 1
      BY <1>1
    <2>3. blocks[Next1(block_data)].queued /\ Next1(block_data) # block_data
      BY <1>1, <2>1, <2>2, DistAfter, Positions DEF At
    <2>4. block_data' = Next1(block_data)
      BY <1>2, <2>1, <2>3 DEF NextBlock
    <2>5. After(block_data', i) = After(block_data, i + 1)
      BY <1>1, <2>2, <2>4, AfterNext1
    <2>6. After(block_data, i + 1) \in Slot /\ After(block_data, i + 1) # block_data
      BY <1>1, <2>2, AfterSlot, DistAfter
    <2> QED
      BY <1>2, <2>5, <2>6 DEF At
  <1> QED
    BY <1>3, <1>4

(* Flushing cuts the list after its leading blocks of `it'.                *)
LEMMA FlushAfterList ==
  ASSUME RingInv, NEW it \in Track, NEW t \in Track, FlushAfter(it, t),
         block_data # NULL
  PROVE  \E k \in 0 .. numblocks_ready :
           /\ numblocks_ready' = k
           /\ \A i \in 0 .. k - 1 : At(i)' = At(i) /\ At(i).track = it
           /\ k < numblocks_ready => At(k).track # it /\ firstblock'
           /\ k = numblocks_ready => firstblock' = firstblock
  <1> DEFINE Rest(k) == {After(block_data, i) : i \in k .. numblocks_ready - 1}
  <1>1. PICK k \in 0 .. numblocks_ready :
          /\ \A i \in 0 .. k - 1 : blocks[After(block_data, i)].track = it
          /\ k < numblocks_ready => blocks[After(block_data, k)].track # it
          /\ blocks' = Released(Rest(k))
          /\ refs' = Unreffed(Rest(k))
          /\ numblocks_ready' = k
          /\ firstblock' = BoundaryAfterFlush(Rest(k))
    BY DEF FlushAfter
  <1>2. /\ block_data \in Slot
        /\ block_data' = block_data
        /\ numblocks_ready \in 0 .. BLOCK_COUNT
        /\ BLOCK_COUNT \in Nat \ {0}
        /\ firstblock \in BOOLEAN
    BY Positions DEF FlushAfter, RingInv, SafeInv, TypeOK
  <1>3. Rest(k) \in SUBSET Slot
    BY <1>2, AfterSlot
  <1>4. ASSUME NEW i \in 0 .. k - 1
        PROVE  After(block_data, i) \in Slot \ Rest(k)
    <2>1. i \in 0 .. BLOCK_COUNT - 1
      BY <1>2
    <2>2. \A j \in k .. numblocks_ready - 1 : After(block_data, j) # After(block_data, i)
      BY <1>2, <2>1, PositionsDiffer
    <2> QED
      BY <1>2, <2>1, <2>2, AfterSlot
  <1>5. \A b \in Slot \ Rest(k) : blocks'[b] = blocks[b]
    <2> HIDE DEF Rest
    <2> QED
      BY <1>1, <1>3, ReleaseKeeps DEF RingInv, SafeInv
  <1>6. \A i \in 0 .. k - 1 : At(i)' = At(i) /\ At(i).track = it
    BY <1>1, <1>2, <1>4, <1>5 DEF At
  <1>7. k < numblocks_ready => At(k).track # it /\ firstblock'
    <2>1. k < numblocks_ready => After(block_data, k) \in Rest(k)
      BY <1>2
    <2> QED
      BY <1>1, <2>1 DEF At, BoundaryAfterFlush
  <1>8. k = numblocks_ready => firstblock' = firstblock
    <2>1. k = numblocks_ready => Rest(k) = {}
      BY <1>2
    <2> QED
      BY <1>1, <1>2, <2>1 DEF BoundaryAfterFlush
  <1> QED
    BY <1>1, <1>6, <1>7, <1>8

-----------------------------------------------------------------------------
(* The flag says what the newest block tells: the next block starts a      *)
(* stream exactly when the newest one ended its own; a decoder that has    *)
(* ended or failed has left a boundary behind; and without a boundary the  *)
(* newest block belongs to what is being decoded.  StreamBoundaries alone  *)
(* is not inductive: it says nothing of the block to come.                 *)
BoundaryInv ==
    /\ StreamBoundaries
    /\ numblocks_ready > 0 =>
         /\ firstblock <=> Newest.last
         /\ fileinfo \in {"ended", "failed"} => firstblock
         /\ ~ firstblock => Newest.track = streaming
    /\ reading # NULL => reading.track = streaming

(* StreamBoundaries by positions.                                          *)
Bounded(i) ==
    /\ At(i).first <=> At(i - 1).last
    /\ At(i - 1).track # At(i).track => At(i).first

LEMMA BoundariesByPosition ==
  StreamBoundaries <=> \A i \in 1 .. numblocks_ready - 1 : Bounded(i)
  BY DEF StreamBoundaries, Bounded, At

LEMMA InitBoundary == Init => BoundaryInv
  BY DEF Init, BoundaryInv, StreamBoundaries

LEMMA FinishReadBoundary ==
  ASSUME RingInv, BoundaryInv, FinishRead
  PROVE  BoundaryInv'
  <1> DEFINE n == numblocks_ready
  <1>1. /\ n \in 0 .. BLOCK_COUNT
        /\ n' = n + 1
        /\ \A i \in 0 .. n - 1 : At(i)' = At(i)
        /\ reading.track = streaming
        /\ streaming' = streaming
        /\ reading' = NULL
        /\ firstblock \in BOOLEAN
    BY FinishReadList, Positions DEF FinishRead, BoundaryInv, RingInv, SafeInv, TypeOK
  <1>2. PICK size \in 0 .. BLOCK_SIZE :
          /\ Newest' = [pos |-> 0, size |-> size, first |-> firstblock,
                        last |-> (size # BLOCK_SIZE), track |-> reading.track,
                        queued |-> TRUE]
          /\ firstblock' = (size # BLOCK_SIZE)
          /\ fileinfo' = IF size # BLOCK_SIZE THEN "ended" ELSE "open"
    BY FinishReadList
  <1>3. /\ Newest'.first = firstblock
        /\ Newest'.last = firstblock'
        /\ Newest'.track = streaming
    BY <1>1, <1>2
  <1>4. ASSUME NEW i \in 1 .. n
        PROVE  Bounded(i)'
    <2>1. CASE i \in 1 .. n - 1
      <3>1. Bounded(i)
        BY <2>1, BoundariesByPosition DEF BoundaryInv
      <3>2. At(i)' = At(i) /\ At(i - 1)' = At(i - 1)
        BY <1>1, <2>1
      <3> QED
        BY <3>1, <3>2 DEF Bounded
    <2>2. CASE i = n /\ n > 0
      <3>1. At(i - 1)' = Newest
        BY <1>1, <2>2 DEF Newest
      <3>2. At(i)' = Newest'
        BY <1>1, <2>2 DEF Newest, At
      <3>3. /\ firstblock <=> Newest.last
            /\ ~ firstblock => Newest.track = streaming
        BY <2>2 DEF BoundaryInv
      <3> QED
        BY <1>3, <3>1, <3>2, <3>3 DEF Bounded
    <2> QED
      BY <1>1, <2>1, <2>2
  <1>5. StreamBoundaries'
    BY <1>1, <1>4 DEF StreamBoundaries, Bounded, At
  <1>6. /\ firstblock' <=> Newest'.last
        /\ fileinfo' \in {"ended", "failed"} => firstblock'
        /\ Newest'.track = streaming'
    BY <1>1, <1>2, <1>3
  <1> QED
    BY <1>1, <1>5, <1>6 DEF BoundaryInv

LEMMA NextBlockBoundary ==
  ASSUME RingInv, BoundaryInv, NextBlock
  PROVE  BoundaryInv'
  <1> DEFINE n == numblocks_ready
  <1>1. /\ n \in 0 .. BLOCK_COUNT
        /\ n > 0
        /\ n' = n - 1
        /\ \A i \in 0 .. n - 2 : At(i)' = At(i + 1)
        /\ UNCHANGED <<firstblock, reading, streaming, fileinfo>>
    BY NextBlockList, Positions DEF NextBlock
  <1>2. ASSUME NEW i \in 1 .. n - 2
        PROVE  Bounded(i)'
    <2>1. Bounded(i + 1)
      BY <1>1, BoundariesByPosition DEF BoundaryInv
    <2>2. At(i)' = At(i + 1) /\ At(i - 1)' = At(i)
      BY <1>1
    <2> QED
      BY <1>1, <2>1, <2>2 DEF Bounded
  <1>3. StreamBoundaries'
    BY <1>1, <1>2 DEF StreamBoundaries, Bounded, At
  <1>4. n' > 0 => Newest' = Newest
    <2>1. ASSUME NEW m \in 1 .. BLOCK_COUNT, m = n - 1
          PROVE  Newest' = Newest
      <3>1. At(m - 1)' = At(m - 1 + 1)
        BY <1>1, <2>1
      <3>2. Newest' = At(m - 1)'
        BY <1>1, <2>1 DEF Newest, At
      <3>3. Newest = At(m - 1 + 1)
        BY <1>1, <2>1 DEF Newest
      <3> QED
        BY <3>1, <3>2, <3>3
    <2>2. n - 1 > 0 => n - 1 \in 1 .. BLOCK_COUNT
      BY <1>1, Positions
    <2> QED
      BY <1>1, <2>1, <2>2
  <1> QED
    BY <1>1, <1>3, <1>4 DEF BoundaryInv

LEMMA FlushAfterBoundary ==
  ASSUME RingInv, BoundaryInv, NEW it \in Track, NEW t \in Track,
         FlushAfter(it, t)
  PROVE  BoundaryInv'
  <1> DEFINE n == numblocks_ready
  <1>1. /\ reading = NULL /\ reading' = NULL
        /\ fileinfo # "ended"
        /\ n \in 0 .. BLOCK_COUNT
        /\ n > 0 => block_data # NULL
        /\ IF streaming = it
           THEN UNCHANGED <<streaming, fileinfo>>
           ELSE streaming' = t /\ fileinfo' \in {"open", "failed"}
    BY Positions DEF FlushAfter
  <1>2. CASE block_data = NULL
    <2>1. n = 0 /\ n' = 0
      BY <1>1, <1>2 DEF FlushAfter
    <2> QED
      BY <1>1, <2>1 DEF BoundaryInv, StreamBoundaries
  <1>3. CASE block_data # NULL
    <2>1. PICK k \in 0 .. n :
            /\ n' = k
            /\ \A i \in 0 .. k - 1 : At(i)' = At(i) /\ At(i).track = it
            /\ k < n => At(k).track # it /\ firstblock'
            /\ k = n => firstblock' = firstblock
      BY <1>3, FlushAfterList
    <2>2. ASSUME NEW i \in 1 .. k - 1
          PROVE  Bounded(i)'
      <3>1. Bounded(i)
        BY <1>1, BoundariesByPosition DEF BoundaryInv
      <3>2. At(i)' = At(i) /\ At(i - 1)' = At(i - 1)
        BY <1>1, <2>1
      <3> QED
        BY <3>1, <3>2 DEF Bounded
    <2>3. StreamBoundaries'
      BY <2>1, <2>2 DEF StreamBoundaries, Bounded, At
    <2>4. SUFFICES ASSUME k > 0
                   PROVE  /\ firstblock' <=> Newest'.last
                          /\ fileinfo' \in {"ended", "failed"} => firstblock'
                          /\ ~ firstblock' => Newest'.track = streaming'
      BY <1>1, <2>1, <2>3 DEF BoundaryInv
    <2>5. Newest' = At(k - 1) /\ At(k - 1).track = it
      <3>1. Newest' = blocks'[After(block_data', k - 1)]
        BY <2>1 DEF Newest, At
      <3>2. At(k - 1)' = At(k - 1) /\ At(k - 1).track = it
        BY <1>1, <2>1, <2>4
      <3> QED
        BY <3>1, <3>2 DEF At
    <2>6. CASE k < n
      <3>1. Bounded(k) /\ At(k).track # At(k - 1).track
        BY <1>1, <2>1, <2>4, <2>5, <2>6, BoundariesByPosition DEF BoundaryInv
      <3>2. At(k - 1).last
        BY <3>1 DEF Bounded
      <3> QED
        BY <2>1, <2>5, <2>6, <3>2
    <2>7. CASE k = n
      <3>1. Newest' = Newest /\ firstblock' = firstblock /\ Newest.track = it
        BY <2>1, <2>5, <2>7 DEF Newest
      <3>2. /\ firstblock <=> Newest.last
            /\ fileinfo \in {"ended", "failed"} => firstblock
            /\ ~ firstblock => Newest.track = streaming
        BY <2>4, <2>7 DEF BoundaryInv
      <3> QED
        BY <1>1, <3>1, <3>2
    <2> QED
      BY <1>1, <2>6, <2>7
  <1> QED
    BY <1>2, <1>3

LEMMA BoundaryStep ==
  RingInv /\ BoundaryInv /\ [OrderlyNext]_vars => BoundaryInv'
  <1> SUFFICES ASSUME RingInv, BoundaryInv, [OrderlyNext]_vars
               PROVE  BoundaryInv'
    OBVIOUS
  <1> DEFINE n == numblocks_ready
  <1>1. ASSUME NEW kind \in {"read", "failed", "silence"}, BeginRead(kind)
        PROVE  BoundaryInv'
    <2>1. /\ reading' = [block |-> block_next, track |-> streaming, kind |-> kind]
          /\ UNCHANGED <<blocks, block_data, numblocks_ready, streaming, fileinfo>>
          /\ firstblock' = (firstblock \/ kind = "failed")
          /\ kind = "failed" => fileinfo = "failed"
          /\ firstblock \in BOOLEAN
      BY <1>1 DEF BeginRead, RingInv, SafeInv, TypeOK
    <2>2. n > 0 => (firstblock' <=> firstblock)
      BY <2>1 DEF BoundaryInv
    <2>3. StreamBoundaries' /\ Newest' = Newest
      BY <2>1 DEF StreamBoundaries, BoundaryInv, Newest, At
    <2> QED
      BY <2>1, <2>2, <2>3 DEF BoundaryInv
  <1>2. CASE FinishRead
    BY <1>2, FinishReadBoundary
  <1>3. CASE NextBlock
    BY <1>3, NextBlockBoundary
  <1>4. ASSUME NEW t \in Track, Restart(t)
        PROVE  BoundaryInv'
    BY <1>4 DEF Restart, ResetRing, BoundaryInv, StreamBoundaries
  <1>5. ASSUME NEW t \in Track \cup {NULL}, NextStream(t)
        PROVE  BoundaryInv'
    <2>1. /\ fileinfo = "ended"
          /\ reading = NULL
          /\ UNCHANGED <<blocks, block_data, numblocks_ready, firstblock, reading>>
      BY <1>5 DEF NextStream, RingInv, SafeInv, OpenHasTrack
    <2>2. StreamBoundaries' /\ Newest' = Newest
      BY <2>1 DEF StreamBoundaries, BoundaryInv, Newest, At
    <2> QED
      BY <2>1, <2>2 DEF BoundaryInv
  <1>6. ASSUME NEW it \in Track, NEW t \in Track, FlushAfter(it, t)
        PROVE  BoundaryInv'
    BY <1>6, FlushAfterBoundary
  <1>7. CASE UNCHANGED vars
    BY <1>7 DEF vars, BoundaryInv, StreamBoundaries, Newest, At
  <1> QED
    BY <1>1, <1>2, <1>3, <1>4, <1>5, <1>6, <1>7 DEF OrderlyNext

(* Two streams never run into each other unmarked, whatever is flushed,    *)
(* restarted or fails to open, in a ring of any size: what the output      *)
(* thread relies on to announce a track (streamreader_enqueue_block,       *)
(* streamreader_flush_after).                                              *)
THEOREM StreamsMarked == OrderlySpec => []StreamBoundaries
  <1>1. RingInv /\ BoundaryInv => StreamBoundaries
    BY DEF BoundaryInv
  <1> QED
    BY <1>1, InitRing, RingStep, InitBoundary, BoundaryStep, PTL DEF OrderlySpec

-----------------------------------------------------------------------------
(* The list as a sequence: what the output thread sees of a block.         *)
Item(b) == [track |-> b.track, size |-> b.size, first |-> b.first, last |-> b.last]

ReadyShape ==
    /\ ReadyQueue \in Seq(Queue!Content)
    /\ Len(ReadyQueue) = numblocks_ready
    /\ \A i \in 1 .. numblocks_ready : ReadyQueue[i] = Item(At(i - 1))

LEMMA ReadyIsSequence == RingInv => ReadyShape
  <1> SUFFICES ASSUME RingInv PROVE ReadyShape
    OBVIOUS
  <1>1. numblocks_ready \in Nat
    BY Positions
  <1>2. ASSUME NEW i \in 1 .. numblocks_ready
        PROVE  ReadyQueue[i] = Item(At(i - 1)) /\ ReadyQueue[i] \in Queue!Content
    <2>1. i - 1 \in 0 .. numblocks_ready - 1
      BY <1>1
    <2>2. At(i - 1) \in Block /\ At(i - 1).track \in Track
      BY <2>1, Positions
    <2>3. ReadyQueue[i] = Item(At(i - 1))
      BY DEF ReadyQueue, Item, At
    <2> QED
      BY <2>2, <2>3 DEF Item, Block, Queue!Content
  <1>3. ReadyQueue \in [1 .. numblocks_ready -> Queue!Content]
    BY <1>2 DEF ReadyQueue
  <1>4. ReadyQueue \in Seq(Queue!Content)
    BY <1>1, <1>3, SeqDef
  <1>5. Len(ReadyQueue) = numblocks_ready
    BY <1>1, <1>3, <1>4, LenProperties
  <1> QED
    BY <1>2, <1>4, <1>5 DEF ReadyShape

LEMMA InitQueue == Init => Queue!Init
  <1> SUFFICES ASSUME Init PROVE ReadyQueue = << >>
    BY DEF Queue!Init
  <1>1. ReadyQueue \in Seq(Queue!Content) /\ Len(ReadyQueue) = 0
    BY InitRing, ReadyIsSequence DEF Init, ReadyShape
  <1> QED
    BY <1>1, EmptySeq

(* A block that is enqueued is appended to the queue.                      *)
LEMMA FinishReadQueue ==
  ASSUME RingInv, RingInv', ReadyShape, ReadyShape', FinishRead
  PROVE  \E c \in Queue!Content : Queue!Append1(c)
  <1> DEFINE n == numblocks_ready
             c == Item(Newest')
  <1>1. /\ n \in 0 .. BLOCK_COUNT
        /\ n < BLOCK_COUNT
        /\ n' = n + 1
        /\ \A i \in 0 .. n - 1 : At(i)' = At(i)
    BY FinishReadList, Positions
  <1>2. PICK m \in Nat : m = n
    BY <1>1
  <1>3. ReadyQueue'[m + 1] = c /\ c \in Queue!Content
    <2>1. Newest' = At(m + 1 - 1)'
      BY <1>1, <1>2 DEF Newest, At
    <2>2. ReadyQueue'[m + 1] = Item(At(m + 1 - 1)')
      BY <1>1, <1>2 DEF ReadyShape, Item, At
    <2>3. ReadyQueue'[m + 1] \in Queue!Content
      BY <1>1, <1>2, ElementOfSeq DEF ReadyShape
    <2> QED
      BY <2>1, <2>2, <2>3
  <1>4. ASSUME NEW i \in 1 .. m
        PROVE  ReadyQueue'[i] = ReadyQueue[i]
    <2>1. At(i - 1)' = At(i - 1)
      BY <1>1, <1>2
    <2>2. ReadyQueue'[i] = Item(At(i - 1)')
      BY <1>1, <1>2 DEF ReadyShape, Item, At
    <2> QED
      BY <1>2, <2>1, <2>2 DEF ReadyShape
  <1> HIDE DEF c
  <1>5. /\ Append(ReadyQueue, c) \in Seq(Queue!Content)
        /\ Len(Append(ReadyQueue, c)) = m + 1
        /\ \A i \in 1 .. m : Append(ReadyQueue, c)[i] = ReadyQueue[i]
        /\ Append(ReadyQueue, c)[m + 1] = c
    BY <1>2, <1>3, AppendProperties DEF ReadyShape
  <1>6. ReadyQueue' \in Seq(Queue!Content) /\ Len(ReadyQueue') = m + 1
    BY <1>1, <1>2 DEF ReadyShape
  <1>7. \A i \in 1 .. m + 1 : ReadyQueue'[i] = Append(ReadyQueue, c)[i]
    BY <1>2, <1>3, <1>4, <1>5
  <1>8. ReadyQueue' = Append(ReadyQueue, c)
    BY <1>5, <1>6, <1>7, SeqEqual
  <1> QED
    BY <1>1, <1>3, <1>8 DEF Queue!Append1, ReadyShape

(* The first block is taken.                                               *)
LEMMA NextBlockQueue ==
  ASSUME RingInv, RingInv', ReadyShape, ReadyShape', NextBlock
  PROVE  Queue!Take
  <1> DEFINE n == numblocks_ready
  <1>1. /\ n \in 0 .. BLOCK_COUNT
        /\ n > 0
        /\ n' = n - 1
        /\ \A i \in 0 .. n - 2 : At(i)' = At(i + 1)
    BY NextBlockList, Positions
  <1>2. PICK m \in Nat : m = n - 1
    BY <1>1
  <1>3. ReadyQueue # << >>
    BY <1>1, EmptySeq DEF ReadyShape
  <1>4. /\ Tail(ReadyQueue) \in Seq(Queue!Content)
        /\ Len(Tail(ReadyQueue)) = m
        /\ \A i \in 1 .. m : Tail(ReadyQueue)[i] = ReadyQueue[i + 1]
    BY <1>2, <1>3, HeadTailProperties DEF ReadyShape
  <1>5. ASSUME NEW i \in 1 .. m
        PROVE  ReadyQueue'[i] = Tail(ReadyQueue)[i]
    <2>1. At(i - 1)' = At(i - 1 + 1)
      BY <1>1, <1>2
    <2>2. ReadyQueue'[i] = Item(At(i - 1)')
      BY <1>1, <1>2 DEF ReadyShape, Item, At
    <2>3. ReadyQueue[i + 1] = Item(At(i + 1 - 1))
      BY <1>1, <1>2 DEF ReadyShape
    <2> QED
      BY <1>2, <1>4, <2>1, <2>2, <2>3
  <1>6. ReadyQueue' \in Seq(Queue!Content) /\ Len(ReadyQueue') = m
    BY <1>1, <1>2 DEF ReadyShape
  <1>7. ReadyQueue' = Tail(ReadyQueue)
    BY <1>4, <1>5, <1>6, SeqEqual
  <1> QED
    BY <1>3, <1>7 DEF Queue!Take

(* A flush keeps the leading blocks of the playing track; on an empty list *)
(* it does nothing.                                                        *)
LEMMA FlushAfterQueue ==
  ASSUME RingInv, RingInv', ReadyShape, ReadyShape',
         NEW it \in Track, NEW t \in Track, FlushAfter(it, t)
  PROVE  Queue!KeepLeading(it) \/ UNCHANGED ReadyQueue
  <1> DEFINE n == numblocks_ready
  <1>1. CASE block_data = NULL
    BY <1>1 DEF FlushAfter, ReadyQueue
  <1>2. CASE block_data # NULL
    <2>1. PICK k \in 0 .. n :
            /\ n' = k
            /\ \A i \in 0 .. k - 1 : At(i)' = At(i) /\ At(i).track = it
            /\ k < n => At(k).track # it
      BY <1>2, FlushAfterList
    <2>2. n \in Nat
      BY Positions
    <2>3. /\ SubSeq(ReadyQueue, 1, k) \in Seq(Queue!Content)
          /\ Len(SubSeq(ReadyQueue, 1, k)) = k
          /\ \A i \in 1 .. k : SubSeq(ReadyQueue, 1, k)[i] = ReadyQueue[i]
      <3>1. \A i \in 1 .. k : ReadyQueue[i] \in Queue!Content
        BY <2>2, ElementOfSeq DEF ReadyShape
      <3>2. /\ SubSeq(ReadyQueue, 1, k) \in Seq(Queue!Content)
            /\ Len(SubSeq(ReadyQueue, 1, k)) = IF 1 <= k THEN k - 1 + 1 ELSE 0
            /\ \A i \in 1 .. k - 1 + 1 :
                 SubSeq(ReadyQueue, 1, k)[i] = ReadyQueue[1 + i - 1]
        BY <2>2, <3>1, SubSeqProperties
      <3> QED
        BY <2>2, <3>2
    <2>4. ASSUME NEW i \in 1 .. k
          PROVE  ReadyQueue'[i] = ReadyQueue[i] /\ ReadyQueue[i].track = it
      <3>1. At(i - 1)' = At(i - 1) /\ At(i - 1).track = it
        BY <2>1, <2>2
      <3>2. ReadyQueue'[i] = Item(At(i - 1)')
        BY <2>1 DEF ReadyShape, Item, At
      <3>3. ReadyQueue[i] = Item(At(i - 1))
        BY <2>2 DEF ReadyShape
      <3> QED
        BY <3>1, <3>2, <3>3 DEF Item
    <2>5. k < n => ReadyQueue[k + 1].track # it
      <3>1. k < n => ReadyQueue[k + 1] = Item(At(k + 1 - 1))
        BY <2>2 DEF ReadyShape
      <3> QED
        BY <2>1, <2>2, <3>1 DEF Item
    <2>6. ReadyQueue' \in Seq(Queue!Content) /\ Len(ReadyQueue') = k
      BY <2>1 DEF ReadyShape
    <2>7. ReadyQueue' = SubSeq(ReadyQueue, 1, k)
      BY <2>3, <2>4, <2>6, SeqEqual
    <2> QED
      BY <2>2, <2>4, <2>5, <2>7 DEF Queue!KeepLeading, ReadyShape
  <1> QED
    BY <1>1, <1>2

LEMMA QueueStep ==
  RingInv /\ RingInv' /\ ReadyShape /\ ReadyShape' /\ [OrderlyNext]_vars
    => [Queue!Next]_ReadyQueue
  <1> SUFFICES ASSUME RingInv, RingInv', ReadyShape, ReadyShape',
                      [OrderlyNext]_vars
               PROVE  Queue!Next \/ UNCHANGED ReadyQueue
    OBVIOUS
  <1>1. ASSUME NEW kind \in {"read", "failed", "silence"}, BeginRead(kind)
        PROVE  UNCHANGED ReadyQueue
    BY <1>1 DEF BeginRead, ReadyQueue
  <1>2. CASE FinishRead
    BY <1>2, FinishReadQueue DEF Queue!Next
  <1>3. CASE NextBlock
    BY <1>3, NextBlockQueue DEF Queue!Next
  <1>4. ASSUME NEW t \in Track, Restart(t)
        PROVE  Queue!Clear
    <2>1. ReadyQueue' \in Seq(Queue!Content) /\ Len(ReadyQueue') = 0
      BY <1>4 DEF Restart, ResetRing, ReadyShape
    <2> QED
      BY <2>1, EmptySeq DEF Queue!Clear
  <1>5. ASSUME NEW t \in Track \cup {NULL}, NextStream(t)
        PROVE  UNCHANGED ReadyQueue
    BY <1>5 DEF NextStream, ReadyQueue
  <1>6. ASSUME NEW it \in Track, NEW t \in Track, FlushAfter(it, t)
        PROVE  Queue!Next \/ UNCHANGED ReadyQueue
    BY <1>6, FlushAfterQueue DEF Queue!Next
  <1>7. CASE UNCHANGED vars
    BY <1>7 DEF vars, ReadyQueue
  <1> QED
    BY <1>1, <1>2, <1>3, <1>4, <1>5, <1>6, <1>7 DEF OrderlyNext, Queue!Next

(* As long as only the streamer thread resets the ring, between its reads, *)
(* the blocks with data are a bounded first-in first-out queue, cut after  *)
(* the playing track by a flush: a ring of any size implements BlockQueue. *)
THEOREM RingIsQueue == OrderlySpec => QueueSpec
  <1>1. OrderlySpec => [](RingInv /\ ReadyShape)
    BY InitRing, RingStep, ReadyIsSequence, PTL DEF OrderlySpec
  <1>2. Queue!Spec <=> Queue!Init /\ [][Queue!Next]_ReadyQueue
    BY DEF Queue!Spec
  <1> QED
    BY <1>1, <1>2, InitQueue, QueueStep, PTL DEF OrderlySpec, QueueSpec

=============================================================================
