----------------------------- MODULE BlockQueue -----------------------------
(***************************************************************************)
(* What the streamer expects of the ring of stream blocks: a bounded queue *)
(* that is appended to at the back, drained at the front, emptied, and cut *)
(* after the leading blocks of one track.                                  *)
(***************************************************************************)
EXTENDS Sequences, Integers

CONSTANTS CAPACITY,    \* the number of blocks
          BLOCK_SIZE,  \* bytes of a full block
          Track        \* the tracks a block can belong to

VARIABLE queue

Content == [track : Track, size : 0 .. BLOCK_SIZE,
            first : BOOLEAN, last : BOOLEAN]

Init == queue = << >>

Append1(c) ==
    /\ Len(queue) < CAPACITY
    /\ queue' = Append(queue, c)

Take == queue # << >> /\ queue' = Tail(queue)

Clear == queue' = << >>

(* Keep the leading blocks of `it'.                                        *)
KeepLeading(it) ==
    \E k \in 0 .. Len(queue) :
      /\ \A i \in 1 .. k : queue[i].track = it
      /\ k < Len(queue) => queue[k + 1].track # it
      /\ queue' = SubSeq(queue, 1, k)

Next ==
    \/ \E c \in Content : Append1(c)
    \/ Take
    \/ Clear
    \/ \E it \in Track : KeepLeading(it)

Spec == Init /\ [][Next]_queue

=============================================================================
