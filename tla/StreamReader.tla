---------------------------- MODULE StreamReader ----------------------------
(***************************************************************************)
(* The ring of stream blocks between the streamer thread, which decodes    *)
(* into it, and the output thread, which drains it (streamreader.c).       *)
(*                                                                         *)
(* A block is handed out by streamreader_get_next_block under the streamer *)
(* mutex, filled by the input plugin with the mutex released, and          *)
(* published by streamreader_enqueue_block with the mutex held again.  The *)
(* variable `reading' is that window: the handle the streamer thread keeps *)
(* while other threads may run.                                            *)
(***************************************************************************)
EXTENDS Integers, FiniteSets

CONSTANTS BLOCK_COUNT,   \* blocks of the ring (48 in the code)
          BLOCK_SIZE,    \* bytes of a full block, in abstract units
          Track,         \* the playlist items that can be streamed
          NULL           \* the null pointer

ASSUME StreamReaderAssumption ==
    /\ BLOCK_COUNT \in Nat \ {0}
    /\ BLOCK_SIZE \in Nat \ {0}
    /\ IsFiniteSet(Track)
    /\ NULL \notin Track
    /\ NULL \notin Int

VARIABLES blocks,          \* the contents of every block
          block_data,      \* first block with data, or NULL
          block_next,      \* next block to be read into
          numblocks_ready, \* number of blocks holding data
          firstblock,      \* the next block starts a stream
          reading,         \* block the streamer thread is filling, or NULL
          streaming,       \* the track the streamer thread decodes, or NULL
          fileinfo,        \* the decoder of that track, see FileState
          refs             \* references to each track the ring has taken

vars == <<blocks, block_data, block_next, numblocks_ready, firstblock,
          reading, streaming, fileinfo, refs>>

(* The streamer's decoder handle: none; open; the dummy handle of a track  *)
(* that failed to open; at the end of its stream, about to be replaced.    *)
FileState == {"none", "open", "failed", "ended"}

-----------------------------------------------------------------------------
Slot == 0 .. BLOCK_COUNT - 1

(* Seeded fault: the walk runs off the end of the list.                    *)
Next1NoWrap(b) == b + 1

(* The list is walked circularly: after the last block comes the first.    *)
Next1(b) == IF b + 1 = BLOCK_COUNT THEN 0 ELSE b + 1

(* The block k steps after b.                                              *)
After(b, k) == IF b + k < BLOCK_COUNT THEN b + k ELSE b + k - BLOCK_COUNT

Block == [pos : {-1, 0}, size : 0 .. BLOCK_SIZE, first : BOOLEAN,
          last : BOOLEAN, track : Track \cup {NULL}, queued : BOOLEAN]

EmptyBlock == [pos |-> -1, size |-> 0, first |-> FALSE, last |-> FALSE,
               track |-> NULL, queued |-> FALSE]

(* What a read in progress remembers: the handle, the track it was given   *)
(* and which of the two fillers runs; "failed" is streamreader_read_block  *)
(* on a fileinfo without a plugin.                                         *)
Read == [block : Slot, track : Track, kind : {"read", "failed", "silence"}]

HeldBy(S, t) == {b \in S : blocks[b].track = t}

(* Seeded fault: a released block keeps naming its track.                  *)
ReleasedKeepsTrack(S) ==
    [b \in Slot |-> IF b \in S
                    THEN [blocks[b] EXCEPT !.pos = -1, !.queued = FALSE]
                    ELSE blocks[b]]

(* _streamreader_release_block on every block of S: data, queue flag and   *)
(* the reference to the track go; the flags of the stream stay.            *)
Released(S) ==
    [b \in Slot |-> IF b \in S
                    THEN [blocks[b] EXCEPT !.pos = -1, !.track = NULL,
                                           !.queued = FALSE]
                    ELSE blocks[b]]

Unreffed(S) == [t \in Track |-> refs[t] - Cardinality(HeldBy(S, t))]

NonNegative(n) == IF n < 0 THEN 0 ELSE n

-----------------------------------------------------------------------------
Init ==
    /\ blocks = [b \in Slot |-> EmptyBlock]
    /\ block_data = NULL
    /\ block_next = 0
    /\ numblocks_ready = 0
    /\ firstblock = FALSE
    /\ reading = NULL
    /\ streaming = NULL
    /\ fileinfo = "none"
    /\ refs = [t \in Track |-> 0]

(* Seeded fault: the next block is handed out even when it holds data.     *)
BeginReadUnchecked(kind) ==
    /\ reading = NULL
    /\ IF fileinfo = "failed" THEN kind = "failed"
                              ELSE fileinfo = "open" /\ kind # "failed"
    /\ reading' = [block |-> block_next, track |-> streaming, kind |-> kind]
    /\ firstblock' = (firstblock \/ kind = "failed")
    /\ UNCHANGED <<blocks, block_data, block_next, numblocks_ready,
                   streaming, fileinfo, refs>>

(* The streamer thread takes the next free block and leaves the mutex.  A  *)
(* failed track marks the stream boundary before any lock is taken.        *)
BeginRead(kind) ==
    /\ reading = NULL
    /\ IF fileinfo = "failed" THEN kind = "failed"
                              ELSE fileinfo = "open" /\ kind # "failed"
    /\ blocks[block_next].pos < 0
    /\ reading' = [block |-> block_next, track |-> streaming, kind |-> kind]
    /\ firstblock' = (firstblock \/ kind = "failed")
    /\ UNCHANGED <<blocks, block_data, block_next, numblocks_ready,
                   streaming, fileinfo, refs>>

(* How much a filler can put into the block: a failed read counts as 0.    *)
Filled(kind) == CASE kind = "read"    -> 0 .. BLOCK_SIZE
                  [] kind = "failed"  -> {0}
                  [] kind = "silence" -> {BLOCK_SIZE}

(* Seeded fault: the newest block becomes the first one with data.         *)
FirstDataNewest == block_next

(* Enqueueing into an empty list makes the block the first one with data.  *)
FirstData == IF block_data = NULL THEN block_next ELSE block_data

(* With the mutex held: the tail of streamreader_read_block or             *)
(* streamreader_silence_block, then streamreader_enqueue_block.  The       *)
(* contents go to the handle, the list pointers advance on their own.      *)
FinishRead ==
    /\ reading # NULL
    /\ \E size \in Filled(reading.kind) :
         LET ends == size # BLOCK_SIZE IN
         /\ blocks' = [blocks EXCEPT ![reading.block] =
                          [pos |-> 0, size |-> size, first |-> firstblock,
                           last |-> ends, track |-> reading.track,
                           queued |-> TRUE]]
         /\ firstblock' = ends
         /\ fileinfo' = IF ends THEN "ended" ELSE "open"
    /\ refs' = [refs EXCEPT ![reading.track] = @ + 1]
    /\ block_data' = FirstData
    /\ block_next' = Next1(block_next)
    /\ numblocks_ready' = numblocks_ready + 1
    /\ reading' = NULL
    /\ UNCHANGED streaming

(* The output thread has decoded the first block (process_output_block     *)
(* leaves a block without data alone) and calls streamreader_next_block.   *)
NextBlock ==
    /\ block_data # NULL
    /\ blocks[block_data].pos >= 0
    /\ blocks' = Released({block_data})
    /\ refs' = Unreffed({block_data})
    /\ numblocks_ready' = NonNegative(numblocks_ready - 1)
    /\ block_data' = IF blocks'[Next1(block_data)].queued
                     THEN Next1(block_data) ELSE NULL
    /\ UNCHANGED <<block_next, firstblock, reading, streaming, fileinfo>>

(* Seeded fault: the count of blocks with data survives the reset.         *)
ResetRingKeepsCount ==
    /\ blocks' = Released(Slot)
    /\ refs' = Unreffed(Slot)
    /\ block_next' = 0
    /\ block_data' = NULL
    /\ UNCHANGED numblocks_ready
    /\ firstblock' = FALSE

(* streamreader_reset: every block is freed and the ring starts over.      *)
ResetRing ==
    /\ blocks' = Released(Slot)
    /\ refs' = Unreffed(Slot)
    /\ block_next' = 0
    /\ block_data' = NULL
    /\ numblocks_ready' = 0
    /\ firstblock' = FALSE

(* A seek or a jump to another track: the streamer thread itself resets    *)
(* the ring between two reads and goes on with the track it now decodes.   *)
(* The change of track is announced by the caller, not by a first block.   *)
Restart(t) ==
    /\ reading = NULL
    /\ fileinfo # "ended"
    /\ ResetRing
    /\ streaming' = t
    /\ fileinfo' \in {"open", "failed"}
    /\ UNCHANGED reading

(* streamer_reset called while a block is being filled: by the network     *)
(* plugin from inside the read when a stream times out, or by an output    *)
(* plugin that is stopped from another thread.  What is streaming stays;   *)
(* a stop that leaves nothing is not asked for here.                       *)
ResetDuringRead ==
    /\ reading # NULL
    /\ ResetRing
    /\ UNCHANGED <<reading, streaming, fileinfo>>

(* After a `last' block the streamer opens the next track, or stops.       *)
NextStream(t) ==
    /\ fileinfo = "ended"
    /\ streaming' = t
    /\ IF t = NULL THEN fileinfo' = "none"
                   ELSE fileinfo' \in {"open", "failed"}
    /\ UNCHANGED <<blocks, block_data, block_next, numblocks_ready,
                   firstblock, reading, refs>>

(* Seeded fault: flushing does not start a new stream.                     *)
BoundaryAfterFlushLost(rest) == firstblock

(* Every block that a flush releases makes the next one start a stream.    *)
BoundaryAfterFlush(rest) == firstblock \/ rest # {}

(* streamreader_flush_after: keep the leading blocks of `it', release the  *)
(* others and restart the stream boundary; the streamer then decodes       *)
(* another track t, unless it was still decoding `it'.  An empty list is   *)
(* left as it is.  Like the code it does not touch block_data.  `it' is    *)
(* the playing track, which may be ahead of none or all of the list.       *)
FlushAfter(it, t) ==
    /\ reading = NULL
    /\ fileinfo # "ended"
    /\ IF block_data = NULL
       THEN UNCHANGED <<blocks, block_next, numblocks_ready, firstblock, refs>>
       ELSE \E k \in 0 .. numblocks_ready :
              LET rest == {After(block_data, i) : i \in k .. numblocks_ready - 1}
              IN
              /\ \A i \in 0 .. k - 1 : blocks[After(block_data, i)].track = it
              /\ k < numblocks_ready => blocks[After(block_data, k)].track # it
              /\ block_next' = After(block_data, k)
              /\ blocks' = Released(rest)
              /\ refs' = Unreffed(rest)
              /\ numblocks_ready' = k
              /\ firstblock' = BoundaryAfterFlush(rest)
    /\ IF streaming = it
       THEN UNCHANGED <<streaming, fileinfo>>
       ELSE streaming' = t /\ fileinfo' \in {"open", "failed"}
    /\ UNCHANGED <<block_data, reading>>

-----------------------------------------------------------------------------
(* Everything the streamer and the output thread do when nobody resets the *)
(* ring behind the streamer's back.                                        *)
OrderlyNext ==
    \/ \E kind \in {"read", "failed", "silence"} : BeginRead(kind)
    \/ FinishRead
    \/ NextBlock
    \/ \E t \in Track : Restart(t)
    \/ \E t \in Track \cup {NULL} : NextStream(t)
    \/ \E it, t \in Track : FlushAfter(it, t)

Next == OrderlyNext \/ ResetDuringRead

OrderlySpec == Init /\ [][OrderlyNext]_vars

Spec == Init /\ [][Next]_vars

-----------------------------------------------------------------------------
(* Every variable has the shape the code's fields can take.                *)
TypeOK ==
    /\ blocks \in [Slot -> Block]
    /\ block_data \in Slot \cup {NULL}
    /\ block_next \in Slot
    /\ numblocks_ready \in Nat
    /\ firstblock \in BOOLEAN
    /\ reading \in Read \cup {NULL}
    /\ streaming \in Track \cup {NULL}
    /\ fileinfo \in FileState
    /\ refs \in [Track -> Int]

(* The ring holds one reference to a track for each block that names it,   *)
(* whatever is released, overwritten or reset, and in whatever order       *)
(* (pl_item_ref in the fillers, pl_item_unref in release and reset).       *)
RefsMatchBlocks ==
    \A t \in Track : refs[t] = Cardinality(HeldBy(Slot, t))

(* The blocks with data, in the order they are going to be played.         *)
ReadySlots == {After(block_data, i) : i \in 0 .. numblocks_ready - 1}

(* The blocks with data are exactly the numblocks_ready blocks from        *)
(* block_data on, and the next free block follows them: what               *)
(* streamreader_flush_after and streamreader_next_block walk by counting.  *)
DataIsContiguous ==
    /\ numblocks_ready <= BLOCK_COUNT
    /\ IF block_data = NULL
       THEN numblocks_ready = 0 /\ \A b \in Slot : ~ blocks[b].queued
       ELSE /\ block_next = After(block_data, numblocks_ready)
            /\ \A b \in Slot : blocks[b].queued <=> b \in ReadySlots

(* While a block is filled it stays the one that enqueueing will publish.  *)
HandleIsNext ==
    reading # NULL => /\ reading.block = block_next
                      /\ ~ blocks[reading.block].queued

(* Within the list a block starts a stream exactly when the one before it  *)
(* ended its own, so two tracks never run into each other unmarked.        *)
StreamBoundaries ==
    \A i \in 1 .. numblocks_ready - 1 :
      LET a == blocks[After(block_data, i - 1)]
          b == blocks[After(block_data, i)]
      IN  /\ b.first <=> a.last
          /\ a.track # b.track => b.first

(* streamreader_get_curr_block: "Get the first (current) block with data   *)
(* from the queue" (streamreader.h), so as long as there is data the       *)
(* output thread can see it.                                               *)
CurrBlockHasData ==
    numblocks_ready > 0 => /\ block_data # NULL
                           /\ blocks[block_data].queued

(* The list the ring implements.                                           *)
ReadyQueue == [i \in 1 .. numblocks_ready |->
                 LET b == blocks[After(block_data, i - 1)]
                 IN  [track |-> b.track, size |-> b.size,
                      first |-> b.first, last |-> b.last]]

Queue == INSTANCE BlockQueue WITH queue <- ReadyQueue, CAPACITY <- BLOCK_COUNT

(* Between resets of its own the ring is a bounded first-in first-out      *)
(* queue of blocks.                                                        *)
QueueSpec == Queue!Spec

=============================================================================
