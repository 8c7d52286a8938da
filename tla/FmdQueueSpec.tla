---------------------------- MODULE FmdQueueSpec ----------------------------
(***************************************************************************)
(* What the fault manager's rings promise their users: a bounded FIFO      *)
(* queue.  A source thread offers an event, the event enters the queue     *)
(* when there is room, and the single consumer of the ring is handed the   *)
(* events one at a time in the order in which they entered.  FmdRing is    *)
(* the ring of semaphores, mutex and indices that implements this.         *)
(***************************************************************************)
EXTENDS Naturals, Sequences

CONSTANTS Producer,   \* threads that put events into the ring
          Event,      \* event objects
          RING_SIZE,  \* capacity of the ring
          NULL        \* "no event"

VARIABLES q,        \* the events in the ring, oldest first
          offered,  \* offered[p]: the event p is waiting to put
          taken     \* the event the consumer is working on

qvars == <<q, offered, taken>>

QInit ==
  /\ q = <<>>
  /\ offered = [p \in Producer |-> NULL]
  /\ taken = NULL

Offer(p, e) ==
  /\ offered[p] = NULL
  /\ offered' = [offered EXCEPT ![p] = e]
  /\ UNCHANGED <<q, taken>>

Enqueue(p) ==
  /\ offered[p] # NULL
  /\ Len(q) < RING_SIZE
  /\ q' = Append(q, offered[p])
  /\ offered' = [offered EXCEPT ![p] = NULL]
  /\ UNCHANGED taken

Dequeue ==
  /\ taken = NULL
  /\ q # <<>>
  /\ taken' = Head(q)
  /\ q' = Tail(q)
  /\ UNCHANGED offered

Finish ==
  /\ taken # NULL
  /\ taken' = NULL
  /\ UNCHANGED <<q, offered>>

QNext ==
  \/ \E p \in Producer : (\E e \in Event : Offer(p, e)) \/ Enqueue(p)
  \/ Dequeue
  \/ Finish

QSpec == QInit /\ [][QNext]_qvars
=============================================================================
