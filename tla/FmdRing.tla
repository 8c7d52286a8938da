------------------------------ MODULE FmdRing -------------------------------
(***************************************************************************)
(* ring_t of include/fmd_ring.h: the bounded buffer between the event      *)
(* source threads and the dispatcher (fmd_queue_dispatch / queue_start),   *)
(* and between the dispatcher and an agent thread (put_to_agent /          *)
(* do_agent).  Both users follow the same protocol:                        *)
(*                                                                         *)
(*   put:  sem_wait(ring_vaild); lock; ring_add; unlock;                   *)
(*         sem_post(ring_contain)                                          *)
(*   get:  while (ring_stat) { sem_wait(ring_contain); lock; ring_del;     *)
(*         unlock; sem_post(ring_vaild); process }                         *)
(*                                                                         *)
(* One action per call.  ring_add is two actions (the slot is written,     *)
(* then rear and count move), so that what the mutex protects is visible;  *)
(* ring_stat is the consumer's read of count outside the lock.             *)
(***************************************************************************)
EXTENDS Naturals, Sequences, FiniteSets

CONSTANTS Producer,   \* threads that put events into the ring
          Event,      \* event objects (fmd_event_t)
          RING_SIZE,  \* slots of the ring, 128 in the source
          NULL,       \* the null event pointer, and "nobody" for the mutex
          Consumer    \* the ring's one consumer thread

ASSUME RingSizeAssumption == RING_SIZE \in Nat \ {0}
ASSUME ProducerAssumption == IsFiniteSet(Producer)
ASSUME NullAssumption     == NULL \notin Event /\ NULL \notin Producer
ASSUME ConsumerAssumption == Consumer \notin Producer /\ Consumer # NULL

VARIABLES ring_contain,  \* semaphore: items the consumer may take
          ring_vaild,    \* semaphore: slots a producer may fill
          ring_lock,     \* the thread that holds the mutex, or NULL
          front, rear, count,
          ring_item,     \* the slots
          ppc, pevt,     \* per producer: next call, and its event
          cpc, cevt      \* consumer: next call, and the event it got

ringvars == <<ring_contain, ring_vaild, ring_lock, front, rear, count, ring_item>>
pvars    == <<ppc, pevt>>
cvars    == <<cpc, cevt>>
vars     == <<ring_contain, ring_vaild, ring_lock, front, rear, count,
              ring_item, ppc, pevt, cpc, cevt>>

Slot == 0 .. RING_SIZE - 1

\* Mutant: one slot too many.
RingInitExtraSlot ==
  /\ ring_contain = 0
  /\ ring_vaild = RING_SIZE + 1
  /\ ring_lock = NULL
  /\ front = 0 /\ rear = 0 /\ count = 0
  /\ ring_item = [i \in Slot |-> NULL]

\* ring_init: memset to zero, contain = 0, vaild = RING_SIZE.
RingInit ==
  /\ ring_contain = 0
  /\ ring_vaild = RING_SIZE
  /\ ring_lock = NULL
  /\ front = 0 /\ rear = 0 /\ count = 0
  /\ ring_item = [i \in Slot |-> NULL]

Init ==
  /\ RingInit
  /\ ppc = [p \in Producer |-> "idle"]
  /\ pevt = [p \in Producer |-> NULL]
  /\ cpc = "stat"
  /\ cevt = NULL

-----------------------------------------------------------------------------
(* The events that exist: an allocation returns none of these.             *)

InHand(p) == ppc[p] \in {"wait", "lock", "store", "bump"}
Occupied  == {(front + i) % RING_SIZE : i \in 0 .. count - 1}
Live      == {pevt[p] : p \in {r \in Producer : InHand(r)}}
             \cup {ring_item[i] : i \in Occupied} \cup {cevt}

-----------------------------------------------------------------------------
(* Producer p.                                                             *)

\* evt_handle builds an event object and calls fmd_queue_dispatch.
Submit(p) ==
  /\ ppc[p] = "idle"
  /\ \E e \in Event \ Live : pevt' = [pevt EXCEPT ![p] = e]
  /\ ppc' = [ppc EXCEPT ![p] = "wait"]
  /\ UNCHANGED <<ringvars, cvars>>

WaitVaild(p) ==
  /\ ppc[p] = "wait"
  /\ ring_vaild > 0
  /\ ring_vaild' = ring_vaild - 1
  /\ ppc' = [ppc EXCEPT ![p] = "lock"]
  /\ UNCHANGED <<ring_contain, ring_lock, front, rear, count, ring_item, pevt, cvars>>

\* Mutant: ring_add without taking ring_lock.
PLockFree(p) ==
  /\ ppc[p] = "lock"
  /\ ring_lock' = p
  /\ ppc' = [ppc EXCEPT ![p] = "store"]
  /\ UNCHANGED <<ring_contain, ring_vaild, front, rear, count, ring_item, pevt, cvars>>

PLock(p) ==
  /\ ppc[p] = "lock"
  /\ ring_lock = NULL
  /\ ring_lock' = p
  /\ ppc' = [ppc EXCEPT ![p] = "store"]
  /\ UNCHANGED <<ring_contain, ring_vaild, front, rear, count, ring_item, pevt, cvars>>

\* ring_add, first half.  A full ring makes ring_add return -1; neither
\* caller looks at the result, so the event would be lost.
RingStore(p) ==
  /\ ppc[p] = "store"
  /\ IF count = RING_SIZE
       THEN /\ ppc' = [ppc EXCEPT ![p] = "unlock"]
            /\ UNCHANGED ring_item
       ELSE /\ ring_item' = [ring_item EXCEPT ![rear] = pevt[p]]
            /\ ppc' = [ppc EXCEPT ![p] = "bump"]
  /\ UNCHANGED <<ring_contain, ring_vaild, ring_lock, front, rear, count, pevt, cvars>>

\* Mutant: rear runs off the end of the ring.
RingBumpNoWrap(p) ==
  /\ ppc[p] = "bump"
  /\ rear' = rear + 1
  /\ count' = count + 1
  /\ ppc' = [ppc EXCEPT ![p] = "unlock"]
  /\ UNCHANGED <<ring_contain, ring_vaild, ring_lock, front, ring_item, pevt, cvars>>

\* ring_add, second half.
RingBump(p) ==
  /\ ppc[p] = "bump"
  /\ rear' = (rear + 1) % RING_SIZE
  /\ count' = count + 1
  /\ ppc' = [ppc EXCEPT ![p] = "unlock"]
  /\ UNCHANGED <<ring_contain, ring_vaild, ring_lock, front, ring_item, pevt, cvars>>

PUnlock(p) ==
  /\ ppc[p] = "unlock"
  /\ ring_lock' = NULL
  /\ ppc' = [ppc EXCEPT ![p] = "post"]
  /\ UNCHANGED <<ring_contain, ring_vaild, front, rear, count, ring_item, pevt, cvars>>

\* Mutant: the post of ring_contain is forgotten.
PostContainLost(p) ==
  /\ ppc[p] = "post"
  /\ ppc' = [ppc EXCEPT ![p] = "idle"]
  /\ pevt' = [pevt EXCEPT ![p] = NULL]
  /\ UNCHANGED <<ringvars, cvars>>

PostContain(p) ==
  /\ ppc[p] = "post"
  /\ ring_contain' = ring_contain + 1
  /\ ppc' = [ppc EXCEPT ![p] = "idle"]
  /\ pevt' = [pevt EXCEPT ![p] = NULL]
  /\ UNCHANGED <<ring_vaild, ring_lock, front, rear, count, ring_item, cvars>>

Put(p) ==
  \/ WaitVaild(p) \/ PLock(p) \/ RingStore(p) \/ RingBump(p)
  \/ PUnlock(p) \/ PostContain(p)

-----------------------------------------------------------------------------
(* The consumer: queue_start for the main ring, do_agent for an agent's.   *)

\* while (ring_stat(ring) != 0): an empty ring makes the thread sleep and
\* look again, which changes nothing.
RingStat ==
  /\ cpc = "stat"
  /\ count # 0
  /\ cpc' = "wait"
  /\ UNCHANGED <<ringvars, pvars, cevt>>

WaitContain ==
  /\ cpc = "wait"
  /\ ring_contain > 0
  /\ ring_contain' = ring_contain - 1
  /\ cpc' = "lock"
  /\ UNCHANGED <<ring_vaild, ring_lock, front, rear, count, ring_item, pvars, cevt>>

CLock ==
  /\ cpc = "lock"
  /\ ring_lock = NULL
  /\ ring_lock' = Consumer
  /\ cpc' = "del"
  /\ UNCHANGED <<ring_contain, ring_vaild, front, rear, count, ring_item, pvars, cevt>>

\* ring_del: the oldest item, or NULL when the ring is empty.
RingDel ==
  /\ cpc = "del"
  /\ IF count = 0
       THEN /\ cevt' = NULL
            /\ UNCHANGED <<front, count>>
       ELSE /\ cevt' = ring_item[front]
            /\ front' = (front + 1) % RING_SIZE
            /\ count' = count - 1
  /\ cpc' = "unlock"
  /\ UNCHANGED <<ring_contain, ring_vaild, ring_lock, rear, ring_item, pvars>>

CUnlock ==
  /\ cpc = "unlock"
  /\ ring_lock' = NULL
  /\ cpc' = "post"
  /\ UNCHANGED <<ring_contain, ring_vaild, front, rear, count, ring_item, pvars, cevt>>

\* Mutant: the slot is given back twice.
PostVaildTwice ==
  /\ cpc = "post"
  /\ ring_vaild' = ring_vaild + 2
  /\ cpc' = "proc"
  /\ UNCHANGED <<ring_contain, ring_lock, front, rear, count, ring_item, pvars, cevt>>

PostVaild ==
  /\ cpc = "post"
  /\ ring_vaild' = ring_vaild + 1
  /\ cpc' = "proc"
  /\ UNCHANGED <<ring_contain, ring_lock, front, rear, count, ring_item, pvars, cevt>>

\* fmd_proc_event(evt) / mops->evt_handle(evt): the event leaves the ring's
\* users; what becomes of it is FmdCore's subject.
Proc ==
  /\ cpc = "proc"
  /\ cevt' = NULL
  /\ cpc' = "stat"
  /\ UNCHANGED <<ringvars, pvars>>

Get == RingStat \/ WaitContain \/ CLock \/ RingDel \/ CUnlock \/ PostVaild \/ Proc

-----------------------------------------------------------------------------
Next == (\E p \in Producer : Submit(p) \/ Put(p)) \/ Get

Spec == Init /\ [][Next]_vars

(***************************************************************************)
(* Fairness.  A runnable thread is scheduled (weak fairness).  A thread    *)
(* blocked in sem_wait or on the mutex gets it if it is released again and *)
(* again (strong fairness): the competitors of a waiting source thread     *)
(* sleep in their condition variable for at least a second between two     *)
(* events, and the consumer sleeps when the ring is empty.                 *)
(***************************************************************************)
Fairness ==
  /\ \A p \in Producer : /\ WF_vars(Put(p))
                         /\ SF_vars(WaitVaild(p))
                         /\ SF_vars(PLock(p))
  /\ WF_vars(Get)
  /\ SF_vars(CLock)

FairSpec == Spec /\ Fairness

-----------------------------------------------------------------------------
(* Properties.                                                             *)

ProducerPC == {"idle", "wait", "lock", "store", "bump", "unlock", "post"}
ConsumerPC == {"stat", "wait", "lock", "del", "unlock", "post", "proc"}

\* Every variable has its type: semaphores are naturals, indices are slots,
\* count is at most the capacity.
TypeOK ==
  /\ ring_contain \in Nat
  /\ ring_vaild \in Nat
  /\ ring_lock \in Producer \cup {Consumer, NULL}
  /\ front \in Slot /\ rear \in Slot /\ count \in 0 .. RING_SIZE
  /\ ring_item \in [Slot -> Event \cup {NULL}]
  /\ ppc \in [Producer -> ProducerPC]
  /\ pevt \in [Producer -> Event \cup {NULL}]
  /\ cpc \in ConsumerPC
  /\ cevt \in Event \cup {NULL}

\* Threads between the two ends of the protocol.
Claimed == {p \in Producer : ppc[p] \in {"lock", "store", "bump"}}
Added   == {p \in Producer : ppc[p] \in {"unlock", "post"}}
Taking  == IF cpc \in {"lock", "del"} THEN 1 ELSE 0
Removed == IF cpc \in {"unlock", "post"} THEN 1 ELSE 0

\* The mutex is held exactly by the thread inside ring_add / ring_del.
MutexInv ==
  /\ \A p \in Producer : ppc[p] \in {"store", "bump", "unlock"} <=> ring_lock = p
  /\ cpc \in {"del", "unlock"} <=> ring_lock = Consumer

\* The two semaphores and count agree at every step of every thread: each
\* counted item has been posted or will be by its producer, less the one the
\* consumer has waited for; each slot is free, claimed, counted, or about to
\* be given back.
SemaphoreBalance ==
  /\ count = ring_contain + Cardinality(Added) + Taking
  /\ ring_vaild + Cardinality(Claimed) + count + Removed = RING_SIZE

\* ring_add never finds the ring full (its -1 is ignored by
\* fmd_queue_dispatch and put_to_agent: the event would vanish) and ring_del
\* never finds it empty (queue_start reads evt->ev_class before it compares
\* evt with NULL, do_agent exits the daemon).
NoRefusal ==
  /\ \A p \in Producer : ppc[p] = "store" => count < RING_SIZE
  /\ cpc = "del" => count > 0

\* The rear index is front + count around the ring.
IndexInv == rear = (front + count) % RING_SIZE

\* The ring implements the bounded FIFO queue: every event put is handed to
\* the consumer exactly once and in the order of ring_add, whatever the
\* interleaving of the producers with each other and with the consumer.
RingContents == [i \in 1 .. count |-> ring_item[(front + i - 1) % RING_SIZE]]

Queue == INSTANCE FmdQueueSpec WITH
           q       <- RingContents,
           offered <- [p \in Producer |-> IF InHand(p) THEN pevt[p] ELSE NULL],
           taken   <- cevt

FifoQueue == Queue!QSpec

\* Every event a source submits is eventually processed by the consumer: no
\* lost wake-up between ring_stat, the semaphores and the mutex.
Delivered ==
  \A e \in Event :
    (\E p \in Producer : InHand(p) /\ pevt[p] = e) ~> (cpc = "proc" /\ cevt = e)
=============================================================================
