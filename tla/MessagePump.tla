----------------------------- MODULE MessagePump -----------------------------
(***************************************************************************)
(* The message pump (messagepump.c): threads push messages, the main loop  *)
(* (player_mainloop in main.c) pops and handles them until it is told to   *)
(* terminate, and sleeps on a condition variable when there are none.      *)
(*                                                                         *)
(* Messages are kept in the cells of a fixed pool, chained into a free     *)
(* list and a queue.  Pushing and popping hold the mutex, so each is one   *)
(* step; the signal is sent after the mutex is released, and the main loop *)
(* takes the mutex again to wait, so these are steps of their own.         *)
(*                                                                         *)
(* Some messages carry an event object with references to tracks, which    *)
(* somebody has to free; `live' counts those that exist.                   *)
(***************************************************************************)
EXTENDS Integers, Sequences, FiniteSets

CONSTANTS MAX_MESSAGES,  \* cells of the pool (100)
          Thread,        \* threads that send messages
          Kinds,         \* the kinds of messages they send
          BUDGET         \* how many messages they send in all

NULL == 0
Cell == 1 .. MAX_MESSAGES
Message == {"plain", "event", "terminate"}

ASSUME PumpAssumption ==
    /\ MAX_MESSAGES \in Nat \ {0}
    /\ IsFiniteSet(Thread)
    /\ Kinds \subseteq Message
    /\ BUDGET \in Nat

VARIABLES next,    \* chains cells of both lists
          body,    \* the message in a cell
          mfree,   \* head of the free list
          mqueue,  \* head of the queue
          mqtail,  \* last of the queue
          live,    \* events allocated and not freed
          pc,      \* where each sending thread is
          sending, \* the message each thread is sending
          main,    \* where the main thread is
          taken,   \* the message it is handling
          term,    \* it has been told to terminate
          budget

lists   == <<next, body, mfree, mqueue, mqtail>>
senders == <<pc, sending, budget>>
vars    == <<lists, live, senders, main, taken, term>>

(* The event objects a message carries.                                    *)
Carried(m) == IF m = "event" THEN 1 ELSE 0

(* messagepump_init.                                                       *)
Init ==
    /\ next = [c \in Cell |-> c - 1]
    /\ body = [c \in Cell |-> "plain"]
    /\ mfree = MAX_MESSAGES
    /\ mqueue = NULL
    /\ mqtail = NULL
    /\ live = 0
    /\ pc = [t \in Thread |-> "idle"]
    /\ sending = [t \in Thread |-> "plain"]
    /\ main = "pop"
    /\ taken = "plain"
    /\ term = FALSE
    /\ budget = BUDGET

-----------------------------------------------------------------------------
(* Senders.                                                                *)

(* A thread has something to send: an event is allocated first             *)
(* (messagepump_event_alloc).                                              *)
Prepare(t, m) ==
    /\ pc[t] = "idle"
    /\ budget > 0
    /\ budget' = budget - 1
    /\ sending' = [sending EXCEPT ![t] = m]
    /\ live' = live + Carried(m)
    /\ pc' = [pc EXCEPT ![t] = "push"]
    /\ UNCHANGED <<lists, main, taken, term>>

(* Seeded fault: an event that does not fit is forgotten.                  *)
DropLeaks(m) == UNCHANGED live

(* A full pump ignores the message and frees the event.                    *)
Drop(m) == live' = live - Carried(m)

(* Seeded fault: the new last cell keeps its place in the free list.       *)
ChainUnended(c) ==
    IF mqtail = NULL THEN next ELSE [next EXCEPT ![mqtail] = c]

(* Cell c becomes the last of the queue.                                   *)
Chain(c) ==
    [i \in Cell |-> IF i = c THEN NULL
                    ELSE IF i = mqtail THEN c ELSE next[i]]

(* messagepump_push of a message that fits, under the mutex.               *)
Enqueue(m) ==
    /\ mfree # NULL
    /\ mfree' = next[mfree]
    /\ next' = Chain(mfree)
    /\ mqtail' = mfree
    /\ mqueue' = IF mqueue = NULL THEN mfree ELSE mqueue
    /\ body' = [body EXCEPT ![mfree] = m]

Push(t) ==
    /\ pc[t] = "push"
    /\ \/ /\ Enqueue(sending[t])
          /\ pc' = [pc EXCEPT ![t] = "signal"]
          /\ UNCHANGED live
       \/ /\ mfree = NULL
          /\ Drop(sending[t])
          /\ pc' = [pc EXCEPT ![t] = "idle"]
          /\ UNCHANGED lists
    /\ UNCHANGED <<sending, budget, main, taken, term>>

(* cond_signal, after the mutex was released: it wakes the main loop if it *)
(* is waiting and is lost otherwise.                                       *)
Signal(t) ==
    /\ pc[t] = "signal"
    /\ pc' = [pc EXCEPT ![t] = "idle"]
    /\ main' = IF main = "blocked" THEN "pop" ELSE main
    /\ UNCHANGED <<lists, live, sending, budget, taken, term>>

-----------------------------------------------------------------------------
(* The main thread.                                                        *)

(* Seeded fault: the queue's end is not reset when it becomes empty.       *)
TailAfterPopKept == mqtail

(* A queue that becomes empty has no last cell.                            *)
TailAfterPop == IF next[mqueue] = NULL THEN NULL ELSE mqtail

(* messagepump_pop of a queue with messages: the first cell goes back to   *)
(* the free list.                                                          *)
PopCell ==
    /\ mqueue # NULL
    /\ next' = [next EXCEPT ![mqueue] = mfree]
    /\ mfree' = mqueue
    /\ mqueue' = next[mqueue]
    /\ mqtail' = TailAfterPop
    /\ UNCHANGED body

Pop ==
    /\ main = "pop"
    /\ PopCell
    /\ taken' = body[mqueue]
    /\ main' = "handle"
    /\ UNCHANGED <<live, senders, term>>

(* While it handles a message the main thread sends others itself; it does *)
(* not sleep, so its own signal wakes nobody.                              *)
Answer(m) ==
    /\ main = "handle"
    /\ budget > 0
    /\ budget' = budget - 1
    /\ \/ Enqueue(m) /\ live' = live + Carried(m)
       \/ mfree = NULL /\ UNCHANGED <<lists, live>>
    /\ UNCHANGED <<pc, sending, main, taken, term>>

(* The message is broadcast and handled, its event freed.                  *)
Handle ==
    /\ main = "handle"
    /\ term' = (term \/ taken = "terminate")
    /\ live' = live - Carried(taken)
    /\ taken' = "plain"
    /\ main' = "pop"
    /\ UNCHANGED <<lists, senders>>

(* There are no messages left: the loop ends, or is about to wait.         *)
Empty ==
    /\ main = "pop"
    /\ mqueue = NULL
    /\ main' = IF term THEN "drain" ELSE "wait"
    /\ UNCHANGED <<lists, live, senders, taken, term>>

(* messagepump_wait: cond_wait takes the mutex and sleeps, whatever has    *)
(* been queued in the meantime.                                            *)
Wait ==
    /\ main = "wait"
    /\ main' = "blocked"
    /\ UNCHANGED <<lists, live, senders, taken, term>>

(* main_cleanup_and_quit frees what is still in the queue, until it finds  *)
(* it empty.  What is sent later stays there.                              *)
Drain ==
    /\ main = "drain"
    /\ PopCell
    /\ live' = live - Carried(body[mqueue])
    /\ UNCHANGED <<senders, main, taken, term>>

Drained ==
    /\ main = "drain"
    /\ mqueue = NULL
    /\ main' = "gone"
    /\ UNCHANGED <<lists, live, senders, taken, term>>

-----------------------------------------------------------------------------
Send(t) == Push(t) \/ Signal(t)

MainNext == Pop \/ Handle \/ Empty \/ Wait \/ Drain \/ Drained

Next ==
    \/ \E t \in Thread, m \in Kinds : Prepare(t, m)
    \/ \E t \in Thread : Send(t)
    \/ \E m \in Kinds : Answer(m)
    \/ MainNext

Spec == Init /\ [][Next]_vars

(* A thread that has begun to send goes on, and so does the main thread,   *)
(* unless it is blocked.                                                   *)
Fairness == WF_vars(MainNext) /\ \A t \in Thread : WF_vars(Send(t))

LiveSpec == Spec /\ Fairness

-----------------------------------------------------------------------------
(* Properties.                                                             *)

(* The n-th cell of the list that starts with cell c.                      *)
Walk(c) ==
    LET at[n \in 0 .. MAX_MESSAGES] ==
          IF n = 0 THEN c
          ELSE IF at[n - 1] = NULL THEN NULL ELSE next[at[n - 1]]
    IN  at

List(c) ==
    LET at  == Walk(c)
        len == CHOOSE n \in 0 .. MAX_MESSAGES :
                 \/ at[n] = NULL /\ \A m \in 0 .. n - 1 : at[m] # NULL
                 \/ n = MAX_MESSAGES /\ \A m \in 0 .. n - 1 : at[m] # NULL
    IN  [n \in 1 .. len |-> at[n - 1]]

Members(list) == {list[i] : i \in 1 .. Len(list)}

(* No cell is lost and none is in both lists: the free list and the queue  *)
(* divide the pool between them, and the end of the queue is its last cell *)
(* (messagepump_push, messagepump_pop).                                    *)
PoolDivided ==
    LET free   == List(mfree)
        queued == List(mqueue)
    IN  /\ Members(free) \cup Members(queued) = Cell
        /\ Len(free) + Len(queued) = MAX_MESSAGES
        /\ mqtail = IF queued = << >> THEN NULL ELSE queued[Len(queued)]

queue == [i \in 1 .. Len(List(mqueue)) |-> body[List(mqueue)[i]]]

(* Every event is freed exactly once, by the pump that has no room for it, *)
(* by the main loop, or at exit: those alive are about to be pushed, in    *)
(* the queue, or being handled.                                            *)
EventsAccounted ==
    live = Cardinality({t \in Thread : pc[t] = "push" /\ sending[t] = "event"})
           + Cardinality({i \in 1 .. Len(queue) : queue[i] = "event"})
           + Carried(taken)

Fifo == INSTANCE MessageFifo

(* The pump is a bounded queue: messages are handled in the order they     *)
(* were pushed, none twice, none lost once it is in.                       *)
FifoSpec == Fifo!Spec

(* A request to terminate that made it into the queue ends the main loop.  *)
Terminates ==
    (\E i \in 1 .. Len(queue) : queue[i] = "terminate") ~> main \in {"drain", "gone"}

=============================================================================
