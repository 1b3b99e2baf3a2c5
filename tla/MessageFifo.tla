----------------------------- MODULE MessageFifo -----------------------------
(***************************************************************************)
(* What the message pump and the handler promise: a first-in first-out     *)
(* queue that holds so many messages and ignores those that do not fit.    *)
(***************************************************************************)
EXTENDS Naturals, Sequences

CONSTANTS Message,       \* what can be sent
          MAX_MESSAGES   \* 100 in messagepump.c and for the streamer's handler

VARIABLE queue

Init == queue = << >>

(* handler_push: a message that does not fit is ignored.                   *)
Push(m) ==
    /\ Len(queue) < MAX_MESSAGES
    /\ queue' = Append(queue, m)

(* handler_pop.                                                            *)
Pop ==
    /\ queue # << >>
    /\ queue' = Tail(queue)

Next == Pop \/ \E m \in Message : Push(m)

Spec == Init /\ [][Next]_queue

=============================================================================
