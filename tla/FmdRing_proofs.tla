--------------------------- MODULE FmdRing_proofs ---------------------------
(***************************************************************************)
(* Proofs about FmdRing for every set of producers, every set of events    *)
(* and every ring size.  The inductive invariant is the conjunction of the *)
(* type invariant, the ownership of the mutex and the balance of the two   *)
(* semaphores with count: the type invariant alone is not inductive, since *)
(* count <= RING_SIZE after ring_add needs the slot the producer claimed   *)
(* with sem_wait(ring_vaild).                                              *)
(***************************************************************************)
EXTENDS FmdRing, FiniteSetTheorems, SequenceTheorems, TLAPS

IInv == TypeOK /\ MutexInv /\ SemaphoreBalance

-----------------------------------------------------------------------------
(* Counting the threads that are between the two ends of the protocol.     *)

\* The sets of producers that SemaphoreBalance counts are finite.
LEMMA CountsAreNat ==
  /\ IsFiniteSet(Claimed) /\ Cardinality(Claimed) \in Nat
  /\ IsFiniteSet(Added) /\ Cardinality(Added) \in Nat
  /\ Taking \in 0 .. 1 /\ Removed \in 0 .. 1
<1>1. Claimed \subseteq Producer /\ Added \subseteq Producer
  BY DEF Claimed, Added
<1>2. IsFiniteSet(Claimed) /\ IsFiniteSet(Added)
  BY <1>1, ProducerAssumption, FS_Subset
<1>3. Cardinality(Claimed) \in Nat /\ Cardinality(Added) \in Nat
  BY <1>2, FS_CardinalityType
<1>4. QED
  BY <1>2, <1>3 DEF Taking, Removed

\* A thread that joins a finite set of threads adds one to its size.
LEMMA Join ==
  ASSUME NEW S, IsFiniteSet(S), NEW p, p \notin S
  PROVE  Cardinality(S \cup {p}) = Cardinality(S) + 1
  BY FS_AddElement

\* A thread that leaves a finite set of threads takes one from its size,
\* which was at least one.
LEMMA Leave ==
  ASSUME NEW S, IsFiniteSet(S), NEW p, p \in S
  PROVE  /\ Cardinality(S \ {p}) = Cardinality(S) - 1
         /\ Cardinality(S) >= 1
<1>1. Cardinality(S \ {p}) = Cardinality(S) - 1
  BY FS_RemoveElement
<1>2. IsFiniteSet(S \ {p})
  BY FS_RemoveElement
<1>3. Cardinality(S) \in Nat /\ Cardinality(S \ {p}) \in Nat
  BY <1>2, FS_CardinalityType
<1>4. QED
  BY <1>1, <1>3

-----------------------------------------------------------------------------
\* The initial state of ring_init satisfies the inductive invariant.
LEMMA InitIInv == Init => IInv
<1> SUFFICES ASSUME Init PROVE IInv
  OBVIOUS
<1> USE DEF Init, RingInit
<1>1. TypeOK
  BY RingSizeAssumption, NullAssumption DEF TypeOK, Slot, ProducerPC, ConsumerPC
<1>2. MutexInv
  BY NullAssumption, ConsumerAssumption DEF MutexInv
<1>3. Claimed = {} /\ Added = {} /\ Taking = 0 /\ Removed = 0
  BY DEF Claimed, Added, Taking, Removed
<1>4. SemaphoreBalance
  BY <1>3, FS_EmptySet, RingSizeAssumption DEF SemaphoreBalance
<1>5. QED
  BY <1>1, <1>2, <1>4 DEF IInv

\* A producer inside ring_add found room: it claimed a slot beforehand.
LEMMA RoomInAdd ==
  ASSUME IInv, NEW p \in Producer, ppc[p] \in {"lock", "store", "bump"}
  PROVE  count < RING_SIZE
<1>1. p \in Claimed
  BY DEF Claimed
<1>2. Cardinality(Claimed) >= 1
  BY <1>1, CountsAreNat, Leave
<1>3. QED
  BY <1>2, CountsAreNat, RingSizeAssumption DEF IInv, SemaphoreBalance, TypeOK

\* The consumer inside ring_del finds an item: it waited for one.
LEMMA ItemInDel ==
  ASSUME IInv, cpc \in {"lock", "del"}
  PROVE  count > 0
  BY CountsAreNat DEF IInv, SemaphoreBalance, TypeOK, Taking

\* Every step of every thread preserves the inductive invariant.
LEMMA StepIInv == IInv /\ [Next]_vars => IInv'
<1> SUFFICES ASSUME IInv, [Next]_vars PROVE IInv'
  OBVIOUS
<1> USE DEF IInv
<1> USE RingSizeAssumption, NullAssumption, ConsumerAssumption
<1>1. ASSUME NEW p \in Producer, Submit(p) PROVE IInv'
  <2> USE <1>1 DEF Submit, ringvars, cvars
  <2>1. TypeOK'
    BY DEF TypeOK, ProducerPC
  <2>2. MutexInv'
    BY DEF MutexInv, TypeOK
  <2>3. Claimed' = Claimed /\ Added' = Added /\ Taking' = Taking /\ Removed' = Removed
    BY DEF Claimed, Added, Taking, Removed, TypeOK
  <2>4. SemaphoreBalance'
    BY <2>3 DEF SemaphoreBalance
  <2>5. QED
    BY <2>1, <2>2, <2>4
<1>2. ASSUME NEW p \in Producer, WaitVaild(p) PROVE IInv'
  <2> USE <1>2 DEF WaitVaild, cvars
  <2>1. TypeOK'
    BY DEF TypeOK, ProducerPC
  <2>2. MutexInv'
    BY DEF MutexInv, TypeOK
  <2>3. Claimed' = Claimed \cup {p} /\ p \notin Claimed
    BY DEF Claimed, TypeOK
  <2>4. Added' = Added /\ Taking' = Taking /\ Removed' = Removed
    BY DEF Added, Taking, Removed, TypeOK
  <2>5. Cardinality(Claimed') = Cardinality(Claimed) + 1
    BY <2>3, CountsAreNat, Join
  <2>6. SemaphoreBalance'
    BY <2>4, <2>5, CountsAreNat DEF SemaphoreBalance, TypeOK
  <2>7. QED
    BY <2>1, <2>2, <2>6
<1>3. ASSUME NEW p \in Producer, PLock(p) PROVE IInv'
  <2> USE <1>3 DEF PLock, cvars
  <2>1. TypeOK'
    BY DEF TypeOK, ProducerPC
  <2>2. MutexInv'
    BY DEF MutexInv, TypeOK
  <2>3. Claimed' = Claimed /\ Added' = Added /\ Taking' = Taking /\ Removed' = Removed
    BY DEF Claimed, Added, Taking, Removed, TypeOK
  <2>4. SemaphoreBalance'
    BY <2>3 DEF SemaphoreBalance
  <2>5. QED
    BY <2>1, <2>2, <2>4
<1>4. ASSUME NEW p \in Producer, RingStore(p) PROVE IInv'
  <2> USE <1>4 DEF RingStore, cvars
  <2>0. count # RING_SIZE
    BY RoomInAdd DEF TypeOK
  <2>1. TypeOK'
    BY <2>0 DEF TypeOK, ProducerPC, Slot
  <2>2. MutexInv'
    BY <2>0 DEF MutexInv, TypeOK
  <2>3. Claimed' = Claimed /\ Added' = Added /\ Taking' = Taking /\ Removed' = Removed
    BY <2>0 DEF Claimed, Added, Taking, Removed, TypeOK
  <2>4. SemaphoreBalance'
    BY <2>3 DEF SemaphoreBalance
  <2>5. QED
    BY <2>1, <2>2, <2>4
<1>5. ASSUME NEW p \in Producer, RingBump(p) PROVE IInv'
  <2> USE <1>5 DEF RingBump, cvars
  <2>0. count < RING_SIZE
    BY RoomInAdd
  <2>1. TypeOK'
    BY <2>0 DEF TypeOK, ProducerPC, Slot
  <2>2. MutexInv'
    BY DEF MutexInv, TypeOK
  <2>3. Claimed' = Claimed \ {p} /\ p \in Claimed
    BY DEF Claimed, TypeOK
  <2>4. Added' = Added \cup {p} /\ p \notin Added
    BY DEF Added, TypeOK
  <2>5. Taking' = Taking /\ Removed' = Removed
    BY DEF Taking, Removed
  <2>6. Cardinality(Claimed') = Cardinality(Claimed) - 1
    BY <2>3, CountsAreNat, Leave
  <2>7. Cardinality(Added') = Cardinality(Added) + 1
    BY <2>4, CountsAreNat, Join
  <2>8. SemaphoreBalance'
    BY <2>5, <2>6, <2>7, CountsAreNat DEF SemaphoreBalance, TypeOK
  <2>9. QED
    BY <2>1, <2>2, <2>8
<1>6. ASSUME NEW p \in Producer, PUnlock(p) PROVE IInv'
  <2> USE <1>6 DEF PUnlock, cvars
  <2>1. TypeOK'
    BY DEF TypeOK, ProducerPC
  <2>2. MutexInv'
    BY DEF MutexInv, TypeOK
  <2>3. Claimed' = Claimed /\ Added' = Added /\ Taking' = Taking /\ Removed' = Removed
    BY DEF Claimed, Added, Taking, Removed, TypeOK
  <2>4. SemaphoreBalance'
    BY <2>3 DEF SemaphoreBalance
  <2>5. QED
    BY <2>1, <2>2, <2>4
<1>7. ASSUME NEW p \in Producer, PostContain(p) PROVE IInv'
  <2> USE <1>7 DEF PostContain, cvars
  <2>1. TypeOK'
    BY DEF TypeOK, ProducerPC
  <2>2. MutexInv'
    BY DEF MutexInv, TypeOK
  <2>3. Added' = Added \ {p} /\ p \in Added
    BY DEF Added, TypeOK
  <2>4. Claimed' = Claimed /\ Taking' = Taking /\ Removed' = Removed
    BY DEF Claimed, Taking, Removed, TypeOK
  <2>5. Cardinality(Added') = Cardinality(Added) - 1
    BY <2>3, CountsAreNat, Leave
  <2>6. SemaphoreBalance'
    BY <2>4, <2>5, CountsAreNat DEF SemaphoreBalance, TypeOK
  <2>7. QED
    BY <2>1, <2>2, <2>6
<1>8. ASSUME Get PROVE IInv'
  <2>0. Claimed' = Claimed /\ Added' = Added
    BY <1>8 DEF Claimed, Added, Get, RingStat, WaitContain, CLock, RingDel, CUnlock,
                PostVaild, Proc, pvars
  <2>1. TypeOK'
    <3>1. CASE RingDel
      BY <3>1, ItemInDel DEF RingDel, TypeOK, ConsumerPC, Slot, pvars
    <3>2. CASE RingStat \/ WaitContain \/ CLock \/ CUnlock \/ PostVaild \/ Proc
      BY <3>2 DEF RingStat, WaitContain, CLock, CUnlock, PostVaild, Proc, TypeOK,
                  ConsumerPC, pvars, ringvars
    <3>3. QED
      BY <1>8, <3>1, <3>2 DEF Get
  <2>2. MutexInv'
    <3>1. CASE RingStat \/ WaitContain \/ PostVaild \/ Proc \/ RingDel
      BY <3>1 DEF RingStat, WaitContain, PostVaild, Proc, RingDel, MutexInv, pvars, ringvars
    <3>2. CASE CLock
      BY <3>2 DEF CLock, MutexInv, TypeOK, pvars
    <3>3. CASE CUnlock
      BY <3>3 DEF CUnlock, MutexInv, TypeOK, pvars
    <3>4. QED
      BY <1>8, <3>1, <3>2, <3>3 DEF Get
  <2>3. SemaphoreBalance'
    <3>1. CASE RingDel
      BY <2>0, <3>1, ItemInDel, CountsAreNat
         DEF RingDel, SemaphoreBalance, TypeOK, Taking, Removed
    <3>2. CASE RingStat \/ WaitContain \/ CLock \/ CUnlock \/ PostVaild \/ Proc
      BY <2>0, <3>2, CountsAreNat
         DEF RingStat, WaitContain, CLock, CUnlock, PostVaild, Proc, ringvars,
             SemaphoreBalance, TypeOK, Taking, Removed
    <3>3. QED
      BY <1>8, <3>1, <3>2 DEF Get
  <2>4. QED
    BY <2>1, <2>2, <2>3
<1>9. CASE UNCHANGED vars
  <2>1. TypeOK' /\ MutexInv'
    BY <1>9 DEF vars, TypeOK, MutexInv
  <2>2. Claimed' = Claimed /\ Added' = Added /\ Taking' = Taking /\ Removed' = Removed
    BY <1>9 DEF vars, Claimed, Added, Taking, Removed
  <2>3. SemaphoreBalance'
    BY <1>9, <2>2 DEF vars, SemaphoreBalance
  <2>4. QED
    BY <2>1, <2>3
<1>10. QED
  BY <1>1, <1>2, <1>3, <1>4, <1>5, <1>6, <1>7, <1>8, <1>9 DEF Next, Put

-----------------------------------------------------------------------------
\* The inductive invariant holds in every reachable state of the ring.
THEOREM Invariance == Spec => []IInv
  BY InitIInv, StepIInv, PTL DEF Spec

\* Type correctness of the ring, its producers and its consumer: the
\* semaphores stay naturals and count stays within the slots.
THEOREM TypeCorrect == Spec => []TypeOK
<1>1. IInv => TypeOK
  BY DEF IInv
<1>2. QED
  BY <1>1, Invariance, PTL

\* Only the thread that holds ring_lock is inside ring_add or ring_del.
THEOREM Exclusion == Spec => []MutexInv
<1>1. IInv => MutexInv
  BY DEF IInv
<1>2. QED
  BY <1>1, Invariance, PTL

\* ring_contain, ring_vaild and count agree at every step of every thread.
THEOREM Balanced == Spec => []SemaphoreBalance
<1>1. IInv => SemaphoreBalance
  BY DEF IInv
<1>2. QED
  BY <1>1, Invariance, PTL

\* No event is lost in a full ring and no NULL is taken from an empty one,
\* for any number of source threads and any ring size: the results of
\* ring_add that fmd_queue_dispatch and put_to_agent ignore are never -1.
THEOREM NeverRefused == Spec => []NoRefusal
<1>1. IInv => NoRefusal
  BY RoomInAdd, ItemInDel DEF NoRefusal
<1>2. QED
  BY <1>1, Invariance, PTL

-----------------------------------------------------------------------------
\* A thread whose next call returns: sem_wait needs a unit, pthread_mutex_lock
\* the mutex, and an empty ring makes the consumer sleep.
ProducerRuns(p) ==
  /\ ppc[p] # "idle"
  /\ ppc[p] = "wait" => ring_vaild > 0
  /\ ppc[p] = "lock" => ring_lock = NULL

ConsumerRuns ==
  /\ cpc = "stat" => count > 0
  /\ cpc = "wait" => ring_contain > 0
  /\ cpc = "lock" => ring_lock = NULL

\* While an event is on its way through the ring, a thread can go on.
Moving ==
  (count > 0 \/ \E p \in Producer : ppc[p] # "idle") =>
    ConsumerRuns \/ \E p \in Producer : ProducerRuns(p)

LEMMA IInvMoving == IInv => Moving
<1> SUFFICES ASSUME IInv, ~ConsumerRuns, \A p \in Producer : ~ProducerRuns(p)
             PROVE  count = 0 /\ \A p \in Producer : ppc[p] = "idle"
  BY RingSizeAssumption DEF Moving, IInv, TypeOK
<1>1. TypeOK /\ MutexInv /\ SemaphoreBalance
  BY DEF IInv
<1>2. ring_lock = NULL
  <2>1. ASSUME NEW p \in Producer, ring_lock = p PROVE FALSE
    BY <1>1, <2>1 DEF MutexInv, ProducerRuns
  <2>2. ring_lock # Consumer
    BY <1>1 DEF MutexInv, ConsumerRuns
  <2>3. QED
    BY <1>1, <2>1, <2>2 DEF TypeOK
<1>3. \A p \in Producer : ppc[p] \in {"idle", "wait"} /\ (ppc[p] = "wait" => ring_vaild = 0)
  <2> SUFFICES ASSUME NEW p \in Producer
               PROVE  ppc[p] \in {"idle", "wait"} /\ (ppc[p] = "wait" => ring_vaild = 0)
    OBVIOUS
  <2>1. ppc[p] \in ProducerPC /\ ring_vaild \in Nat
    BY <1>1 DEF TypeOK
  <2>2. QED
    BY <1>2, <2>1 DEF ProducerPC, ProducerRuns
<1>4. Claimed = {} /\ Added = {}
  BY <1>3 DEF Claimed, Added
<1>5. Cardinality(Claimed) = 0 /\ Cardinality(Added) = 0
  BY <1>4, FS_EmptySet
<1>6. Taking = 0 /\ Removed = 0 /\ (count = 0 \/ ring_contain = 0)
  BY <1>1, <1>2 DEF ConsumerRuns, Taking, Removed, TypeOK, ConsumerPC
<1>7. count = 0 /\ ring_vaild = RING_SIZE
  BY <1>1, <1>5, <1>6, RingSizeAssumption DEF SemaphoreBalance, TypeOK
<1>8. QED
  BY <1>3, <1>7, RingSizeAssumption

\* The ring never comes to a halt: while an event is in it or on its way in,
\* a producer or the consumer gets past its sem_wait, its mutex and ring_stat.
THEOREM NoHalt == Spec => []Moving
  BY IInvMoving, Invariance, PTL

-----------------------------------------------------------------------------
(***************************************************************************)
(* Refinement.  RingContents reads count slots from front; that a producer *)
(* writes outside them, that the written slot is the next one, and that    *)
(* the consumer holds an event exactly from ring_del to the end of its     *)
(* processing are the further facts the mapping needs.                     *)
(***************************************************************************)

At == [i \in 0 .. RING_SIZE |-> (front + i) % RING_SIZE]

\* Between the two halves of ring_add the event is in the slot at rear.
StoredInv == \A p \in Producer : ppc[p] = "bump" => ring_item[rear] = pevt[p]
\* A producer on its way into the ring has an event.
HandInv   == \A p \in Producer : InHand(p) => pevt[p] \in Event
\* The slots in use hold events.
ItemInv   == \A i \in 0 .. count - 1 : ring_item[At[i]] \in Event
\* The consumer has an event from ring_del to the end of its processing.
HeldInv   == cpc \in {"unlock", "post", "proc"} <=> cevt # NULL

QInv == IInv /\ IndexInv /\ StoredInv /\ HandInv /\ ItemInv /\ HeldInv

\* An index less than twice the ring size wraps at most once.
LEMMA Wrap ==
  ASSUME NEW a \in Nat, a < 2 * RING_SIZE
  PROVE  \/ a < RING_SIZE /\ a % RING_SIZE = a
         \/ a >= RING_SIZE /\ a % RING_SIZE = a - RING_SIZE
<1>1. CASE a < RING_SIZE
  BY <1>1, RingSizeAssumption
<1>2. CASE a >= RING_SIZE
  BY <1>2, RingSizeAssumption
<1>3. QED
  BY <1>1, <1>2, RingSizeAssumption

\* The slot at offset i from front.
LEMMA AtValue ==
  ASSUME TypeOK, NEW i \in 0 .. RING_SIZE
  PROVE  \/ front + i < RING_SIZE /\ At[i] = front + i
         \/ front + i >= RING_SIZE /\ At[i] = front + i - RING_SIZE
<1> DEFINE a == front + i
<1>1. a \in Nat /\ a < 2 * RING_SIZE
  BY RingSizeAssumption DEF TypeOK, Slot
<1>2. At[i] = a % RING_SIZE
  BY DEF At
<1>3. \/ a < RING_SIZE /\ a % RING_SIZE = a
      \/ a >= RING_SIZE /\ a % RING_SIZE = a - RING_SIZE
  <2> HIDE DEF a
  <2>1. QED
    BY <1>1, Wrap
<1>4. \/ a < RING_SIZE /\ At[i] = a
      \/ a >= RING_SIZE /\ At[i] = a - RING_SIZE
  <2> HIDE DEF a
  <2>1. QED
    BY <1>2, <1>3
<1>5. QED
  BY <1>4, RingSizeAssumption DEF TypeOK, Slot

\* Different offsets from front are different slots.
LEMMA AtInjective ==
  ASSUME TypeOK, NEW i \in 0 .. RING_SIZE - 1, NEW j \in 0 .. RING_SIZE - 1, At[i] = At[j]
  PROVE  i = j
<1>1. RING_SIZE \in Nat /\ front \in Nat /\ front < RING_SIZE
  BY RingSizeAssumption DEF TypeOK, Slot
<1>2. /\ \/ front + i < RING_SIZE /\ At[i] = front + i
         \/ front + i >= RING_SIZE /\ At[i] = front + i - RING_SIZE
      /\ \/ front + j < RING_SIZE /\ At[j] = front + j
         \/ front + j >= RING_SIZE /\ At[j] = front + j - RING_SIZE
  BY <1>1, AtValue
<1>3. QED
  BY <1>1, <1>2

\* Every offset up to the ring size names a slot.
LEMMA AtSlot ==
  ASSUME TypeOK, NEW i \in 0 .. RING_SIZE
  PROVE  At[i] \in Slot
  BY AtValue, RingSizeAssumption DEF TypeOK, Slot

\* When front moves on, offset i names the slot that offset i + 1 named.
LEMMA AtShift ==
  ASSUME TypeOK, TypeOK', NEW i \in 0 .. RING_SIZE - 1, front' = (front + 1) % RING_SIZE
  PROVE  At'[i] = At[i + 1]
<1>1. RING_SIZE \in Nat /\ RING_SIZE > 0 /\ front \in Nat /\ front < RING_SIZE
  BY RingSizeAssumption DEF TypeOK, Slot
<1>2. \/ front + 1 < RING_SIZE /\ front' = front + 1
      \/ front + 1 = RING_SIZE /\ front' = 0
  BY <1>1
<1>3. \/ front + (i + 1) < RING_SIZE /\ At[i + 1] = front + (i + 1)
      \/ front + (i + 1) >= RING_SIZE /\ At[i + 1] = front + (i + 1) - RING_SIZE
  BY <1>1, AtValue
<1> DEFINE b == front' + i
<1>4. b \in Nat /\ b < 2 * RING_SIZE
  BY <1>1, <1>2
<1>5. At'[i] = b % RING_SIZE
  BY <1>1 DEF At
<1>6. \/ b < RING_SIZE /\ b % RING_SIZE = b
      \/ b >= RING_SIZE /\ b % RING_SIZE = b - RING_SIZE
  <2> HIDE DEF b
  <2>1. QED
    BY <1>4, Wrap
<1>7. \/ b < RING_SIZE /\ At'[i] = b
      \/ b >= RING_SIZE /\ At'[i] = b - RING_SIZE
  <2> HIDE DEF b
  <2>1. QED
    BY <1>5, <1>6
<1>8. QED
  BY <1>1, <1>2, <1>3, <1>7

-----------------------------------------------------------------------------
\* The facts of the mapping hold initially.
LEMMA InitQInv == Init => QInv
<1> SUFFICES ASSUME Init PROVE QInv
  OBVIOUS
<1>1. IInv
  BY InitIInv
<1>2. IndexInv
  BY RingSizeAssumption DEF Init, RingInit, IndexInv
<1>3. QED
  BY <1>1, <1>2 DEF QInv, StoredInv, HandInv, ItemInv, HeldInv, Init, RingInit, InHand

\* The rear index is the slot at offset count.
LEMMA RearIsAtCount ==
  ASSUME TypeOK, IndexInv
  PROVE  rear = At[count]
  BY DEF IndexInv, At, TypeOK

\* ring_add and ring_del keep rear at front + count.
LEMMA StepIndexInv ==
  ASSUME QInv, IInv', [Next]_vars
  PROVE  IndexInv'
<1>1. TypeOK /\ TypeOK' /\ RING_SIZE \in Nat /\ RING_SIZE > 0
  BY RingSizeAssumption DEF QInv, IInv
<1>2. rear = At[count]
  BY <1>1, RearIsAtCount DEF QInv
<1>3. ASSUME NEW p \in Producer, RingBump(p) PROVE IndexInv'
  <2>1. count < RING_SIZE
    BY <1>3, RoomInAdd DEF RingBump, QInv
  <2>2. count + 1 \in 0 .. RING_SIZE /\ count \in 0 .. RING_SIZE /\ front \in Nat
    BY <1>1, <2>1 DEF TypeOK, Slot
  <2>3. rear' = (rear + 1) % RING_SIZE /\ front' = front /\ count' = count + 1
    BY <1>3 DEF RingBump
  <2>4. \/ front + count < RING_SIZE /\ rear = front + count
        \/ front + count >= RING_SIZE /\ rear = front + count - RING_SIZE
    BY <1>1, <1>2, <2>2, AtValue
  <2>5. rear \in Nat /\ rear < RING_SIZE /\ front < RING_SIZE
    BY <1>1 DEF TypeOK, Slot
  <2>6. \/ rear + 1 < RING_SIZE /\ rear' = rear + 1
        \/ rear + 1 = RING_SIZE /\ rear' = 0
    BY <1>1, <2>3, <2>5
  <2>7. \/ front + (count + 1) < RING_SIZE /\ At[count + 1] = front + (count + 1)
        \/ front + (count + 1) >= RING_SIZE
           /\ At[count + 1] = front + (count + 1) - RING_SIZE
    BY <1>1, <2>2, AtValue
  <2>8. rear' = At[count + 1]
    BY <1>1, <2>1, <2>2, <2>4, <2>5, <2>6, <2>7
  <2>9. QED
    BY <2>2, <2>3, <2>8 DEF IndexInv, At
<1>4. CASE RingDel
  <2>1. count > 0 /\ count \in 0 .. RING_SIZE
    BY <1>1, <1>4, ItemInDel DEF RingDel, QInv, TypeOK
  <2>2. front' = (front + 1) % RING_SIZE /\ count' = count - 1 /\ rear' = rear
    BY <1>4, <2>1 DEF RingDel
  <2>3. count - 1 \in 0 .. RING_SIZE - 1 /\ (count - 1) + 1 = count
    BY <1>1, <2>1
  <2>4. At'[count - 1] = At[(count - 1) + 1]
    BY <1>1, <2>2, <2>3, AtShift
  <2>5. rear' = At'[count']
    BY <1>2, <2>2, <2>3, <2>4
  <2>6. QED
    BY <1>1, <2>2, <2>3, <2>5 DEF IndexInv, At
<1>5. CASE UNCHANGED <<front, rear, count>>
  BY <1>5 DEF QInv, IndexInv
<1>6. QED
  BY <1>3, <1>4, <1>5 DEF Next, Put, Get, Submit, WaitVaild, PLock, RingStore, PUnlock,
     PostContain, RingStat, WaitContain, CLock, CUnlock, PostVaild, Proc, vars, ringvars

\* Every step preserves the facts of the mapping.
LEMMA StepQInv == QInv /\ [Next]_vars => QInv'
<1> SUFFICES ASSUME QInv, [Next]_vars PROVE QInv'
  OBVIOUS
<1>1. IInv' /\ TypeOK /\ TypeOK' /\ MutexInv /\ MutexInv'
  BY StepIInv DEF QInv, IInv
<1>2. IndexInv'
  BY <1>1, StepIndexInv
<1>3. rear = At[count] /\ count \in 0 .. RING_SIZE /\ RING_SIZE \in Nat /\ RING_SIZE > 0
  BY <1>1, RearIsAtCount, RingSizeAssumption DEF QInv, TypeOK
<1>4. HandInv'
  <2>1. ASSUME NEW p \in Producer, Submit(p) PROVE HandInv'
    BY <1>1, <2>1 DEF Submit, InHand, QInv, HandInv, TypeOK
  <2>2. ASSUME NEW p \in Producer, Put(p) PROVE HandInv'
    BY <1>1, <2>2 DEF Put, WaitVaild, PLock, RingStore, RingBump, PUnlock, PostContain,
                      InHand, QInv, HandInv, TypeOK
  <2>3. CASE UNCHANGED pvars
    BY <2>3 DEF pvars, InHand, QInv, HandInv
  <2>4. QED
    BY <2>1, <2>2, <2>3 DEF Next, Get, RingStat, WaitContain, CLock, RingDel, CUnlock,
                            PostVaild, Proc, vars, pvars
<1>5. StoredInv'
  <2>1. ASSUME NEW p \in Producer, RingStore(p) PROVE StoredInv'
    BY <1>1, <2>1 DEF RingStore, QInv, StoredInv, TypeOK, MutexInv
  <2>2. ASSUME NEW p \in Producer, RingBump(p) PROVE StoredInv'
    BY <1>1, <2>2 DEF RingBump, QInv, StoredInv, TypeOK, MutexInv
  <2>3. ASSUME NEW p \in Producer,
               Submit(p) \/ WaitVaild(p) \/ PLock(p) \/ PUnlock(p) \/ PostContain(p)
        PROVE  StoredInv'
    BY <1>1, <2>3 DEF Submit, WaitVaild, PLock, PUnlock, PostContain, QInv, StoredInv, TypeOK, ringvars
  <2>4. CASE UNCHANGED <<rear, ring_item, pvars>>
    BY <2>4 DEF pvars, QInv, StoredInv
  <2>5. QED
    BY <2>1, <2>2, <2>3, <2>4 DEF Next, Put, Get, RingStat, WaitContain, CLock, RingDel,
       CUnlock, PostVaild, Proc, vars, pvars, ringvars
<1>6. ItemInv'
  <2>1. ASSUME NEW p \in Producer, RingStore(p) PROVE ItemInv'
    <3>1. count < RING_SIZE
      BY <2>1, RoomInAdd DEF RingStore, QInv
    <3>2. ring_item' = [ring_item EXCEPT ![rear] = pevt[p]] /\ count' = count /\ At' = At
      BY <1>3, <2>1, <3>1 DEF RingStore, At
    <3>3. ASSUME NEW i \in 0 .. count - 1 PROVE ring_item'[At[i]] \in Event
      <4>1. i \in 0 .. RING_SIZE - 1 /\ count \in 0 .. RING_SIZE - 1 /\ i # count
            /\ i \in 0 .. RING_SIZE
        BY <1>3, <3>1
      <4>2. At[i] # rear
        BY <1>1, <1>3, <4>1, AtInjective
      <4>3. At[i] \in Slot
        BY <1>1, <4>1, AtSlot
      <4>4. QED
        BY <1>1, <3>2, <4>2, <4>3 DEF QInv, ItemInv, TypeOK
    <3>4. QED
      BY <3>2, <3>3 DEF ItemInv
  <2>2. ASSUME NEW p \in Producer, RingBump(p) PROVE ItemInv'
    <3>1. ring_item' = ring_item /\ count' = count + 1 /\ At' = At
      BY <2>2 DEF RingBump, At
    <3>2. ring_item[At[count]] \in Event
      BY <1>3, <2>2 DEF RingBump, QInv, StoredInv, HandInv, InHand
    <3>3. ASSUME NEW i \in 0 .. count PROVE ring_item[At[i]] \in Event
      <4>1. CASE i = count
        BY <3>2, <4>1
      <4>2. CASE i # count
        <5>1. i \in 0 .. count - 1
          BY <1>3, <4>2
        <5>2. QED
          BY <5>1 DEF QInv, ItemInv
      <4>3. QED
        BY <4>1, <4>2
    <3>4. QED
      BY <1>3, <3>1, <3>3 DEF ItemInv
  <2>3. CASE RingDel
    <3>1. count > 0
      BY <2>3, ItemInDel DEF RingDel, QInv
    <3>2. ring_item' = ring_item /\ count' = count - 1 /\ front' = (front + 1) % RING_SIZE
      BY <1>3, <2>3, <3>1 DEF RingDel
    <3>3. ASSUME NEW i \in 0 .. count - 2 PROVE ring_item[At'[i]] \in Event
      <4>1. i \in 0 .. RING_SIZE - 1 /\ i + 1 \in 0 .. count - 1
        BY <1>3
      <4>2. At'[i] = At[i + 1]
        BY <1>1, <3>2, <4>1, AtShift
      <4>3. QED
        BY <4>1, <4>2 DEF QInv, ItemInv
    <3>4. QED
      BY <1>3, <3>1, <3>2, <3>3 DEF ItemInv
  <2>4. CASE UNCHANGED <<front, count, ring_item>>
    BY <2>4 DEF QInv, ItemInv, At
  <2>5. QED
    BY <2>1, <2>2, <2>3, <2>4 DEF Next, Put, Get, Submit, WaitVaild, PLock, PUnlock,
       PostContain, RingStat, WaitContain, CLock, CUnlock, PostVaild, Proc, vars, ringvars
<1>7. HeldInv'
  <2>1. CASE RingDel
    <3>1. count > 0
      BY <2>1, ItemInDel DEF RingDel, QInv
    <3>2. cevt' = ring_item[front] /\ cpc' = "unlock"
      BY <1>3, <2>1, <3>1 DEF RingDel
    <3>3. 0 \in 0 .. count - 1 /\ 0 \in 0 .. RING_SIZE
      BY <1>3, <3>1
    <3>4. front \in Nat /\ front < RING_SIZE
      BY <1>1, <1>3 DEF TypeOK, Slot
    <3>5. At[0] = front
      BY <1>1, <1>3, <3>3, <3>4, AtValue
    <3>6. ring_item[front] \in Event
      BY <3>3, <3>5 DEF QInv, ItemInv
    <3>7. QED
      BY <3>2, <3>6, NullAssumption DEF HeldInv
  <2>2. CASE RingStat \/ WaitContain \/ CLock \/ CUnlock \/ PostVaild \/ Proc
    BY <2>2 DEF RingStat, WaitContain, CLock, CUnlock, PostVaild, Proc, QInv, HeldInv
  <2>3. CASE UNCHANGED cvars
    BY <2>3 DEF cvars, QInv, HeldInv
  <2>4. QED
    BY <2>1, <2>2, <2>3 DEF Next, Put, Get, Submit, WaitVaild, PLock, RingStore, RingBump,
       PUnlock, PostContain, vars, cvars
<1>8. QED
  BY <1>1, <1>2, <1>4, <1>5, <1>6, <1>7 DEF QInv

-----------------------------------------------------------------------------
\* The queue of the abstract specification, read with offsets.
LEMMA Contents ==
  TypeOK => RingContents = [i \in 1 .. count |-> ring_item[At[i - 1]]]
<1> SUFFICES ASSUME TypeOK PROVE RingContents = [i \in 1 .. count |-> ring_item[At[i - 1]]]
  OBVIOUS
<1>1. ASSUME NEW i \in 1 .. count PROVE (front + i - 1) % RING_SIZE = At[i - 1]
  <2>1. i - 1 \in 0 .. RING_SIZE /\ front + i - 1 = front + (i - 1)
    BY RingSizeAssumption DEF TypeOK, Slot
  <2>2. QED
    BY <2>1 DEF At
<1>2. QED
  BY <1>1 DEF RingContents

Offered == [p \in Producer |-> IF InHand(p) THEN pevt[p] ELSE NULL]

\* ring_init is the empty queue.
LEMMA InitQueue == Init => Queue!QInit
<1> SUFFICES ASSUME Init PROVE Queue!QInit
  OBVIOUS
<1>1. RingContents = <<>>
  BY DEF Init, RingInit, RingContents
<1>2. Offered = [p \in Producer |-> NULL]
  BY DEF Init, InHand, Offered
<1>3. QED
  BY <1>1, <1>2 DEF Init, Queue!QInit, Offered

\* Every step of the ring is a step of the queue or leaves it unchanged:
\* the event enters the queue at the second half of ring_add and leaves it
\* at ring_del.
LEMMA StepQueue ==
  ASSUME QInv, QInv', [Next]_vars
  PROVE  [Queue!QNext]_(Queue!qvars)
<1>1. TypeOK /\ TypeOK' /\ IInv /\ RING_SIZE \in Nat /\ RING_SIZE > 0 /\ count \in 0 .. RING_SIZE
  BY RingSizeAssumption DEF QInv, IInv, TypeOK
<1>2. /\ RingContents = [i \in 1 .. count |-> ring_item[At[i - 1]]]
      /\ RingContents' = [i \in 1 .. count' |-> ring_item'[At'[i - 1]]]
  <2>1. (TypeOK => RingContents = [i \in 1 .. count |-> ring_item[At[i - 1]]])'
    BY Contents, PTL
  <2>2. QED
    BY <1>1, <2>1, Contents
<1>3. rear = At[count]
  BY <1>1, RearIsAtCount DEF QInv
<1> USE DEF Offered
<1>4. ASSUME NEW p \in Producer, Submit(p) PROVE Queue!QNext
  <2>1. PICK e \in Event : pevt' = [pevt EXCEPT ![p] = e]
    BY <1>4 DEF Submit
  <2>2. Offered[p] = NULL /\ Offered' = [Offered EXCEPT ![p] = e]
    BY <1>1, <1>4, <2>1 DEF Submit, InHand, TypeOK
  <2>3. RingContents' = RingContents /\ cevt' = cevt
    BY <1>4 DEF Submit, RingContents, ringvars, cvars
  <2>4. Queue!Offer(p, e)
    BY <2>2, <2>3 DEF Queue!Offer
  <2>5. QED
    BY <2>4 DEF Queue!QNext
<1>5. ASSUME NEW p \in Producer, RingBump(p) PROVE Queue!QNext
  <2>1. count < RING_SIZE
    BY <1>1, <1>5, RoomInAdd DEF RingBump
  <2>2. ring_item' = ring_item /\ count' = count + 1 /\ At' = At /\ cevt' = cevt
    BY <1>5 DEF RingBump, At, cvars
  <2>3. Offered[p] = pevt[p] /\ pevt[p] \in Event /\ ring_item[At[count]] = pevt[p]
    BY <1>3, <1>5 DEF RingBump, QInv, HandInv, StoredInv, InHand
  <2>4. Offered' = [Offered EXCEPT ![p] = NULL]
    BY <1>1, <1>5 DEF RingBump, InHand, TypeOK
  <2>5. Len(RingContents) = count
    BY <1>1, <1>2
  <2>6. RingContents' = Append(RingContents, Offered[p])
    <3>1. RingContents' = [i \in 1 .. count + 1 |-> ring_item[At[i - 1]]]
      BY <1>2, <2>2
    <3>2. \A i \in 1 .. count + 1 :
             ring_item[At[i - 1]] = IF i \in 1 .. count THEN RingContents[i] ELSE Offered[p]
      BY <1>1, <1>2, <2>3
    <3>3. RingContents \in Seq(Event)
      BY <1>1, <1>2 DEF QInv, ItemInv
    <3>4. QED
      BY <1>1, <2>3, <2>5, <3>1, <3>2, <3>3
  <2>7. Queue!Enqueue(p)
    BY <2>1, <2>2, <2>3, <2>4, <2>5, <2>6, NullAssumption DEF Queue!Enqueue
  <2>8. QED
    BY <2>7 DEF Queue!QNext
<1>6. CASE RingDel
  <2>1. count > 0
    BY <1>1, <1>6, ItemInDel DEF RingDel
  <2>2. /\ ring_item' = ring_item /\ count' = count - 1
        /\ front' = (front + 1) % RING_SIZE /\ cevt' = ring_item[front]
    BY <1>1, <1>6, <2>1 DEF RingDel
  <2>3. cevt = NULL
    BY <1>6 DEF RingDel, QInv, HeldInv
  <2>4. Offered' = Offered
    BY <1>6 DEF RingDel, InHand, pvars
  <2>5. RingContents \in Seq(Event) /\ Len(RingContents) = count
    BY <1>1, <1>2 DEF QInv, ItemInv
  <2>6. cevt' = Head(RingContents)
    <3>1. 0 \in 0 .. RING_SIZE /\ front \in Nat /\ front < RING_SIZE
      BY <1>1 DEF TypeOK, Slot
    <3>2. At[0] = front
      BY <1>1, <3>1, AtValue
    <3>3. QED
      BY <1>1, <1>2, <2>1, <2>2, <2>5, <3>2
  <2>7. RingContents' = Tail(RingContents)
    <3>1. ASSUME NEW i \in 1 .. count - 1 PROVE At'[i - 1] = At[(i + 1) - 1]
      <4>1. i - 1 \in 0 .. RING_SIZE - 1 /\ (i - 1) + 1 = (i + 1) - 1
        BY <1>1
      <4>2. QED
        BY <1>1, <2>2, <4>1, AtShift
    <3>2. RingContents' = [i \in 1 .. count - 1 |-> RingContents[i + 1]]
      BY <1>1, <1>2, <2>2, <3>1
    <3>3. RingContents # <<>>
      BY <2>1, <2>5
    <3>4. /\ Tail(RingContents) \in Seq(Event) /\ Len(Tail(RingContents)) = count - 1
          /\ \A i \in 1 .. count - 1 : Tail(RingContents)[i] = RingContents[i + 1]
      BY <2>5, <3>3, HeadTailProperties
    <3>5. Tail(RingContents) = [i \in 1 .. count - 1 |-> Tail(RingContents)[i]]
      BY <3>4, LenProperties
    <3>6. QED
      BY <3>2, <3>4, <3>5
  <2>8. Queue!Dequeue
    BY <2>1, <2>3, <2>4, <2>5, <2>6, <2>7 DEF Queue!Dequeue
  <2>9. QED
    BY <2>8 DEF Queue!QNext
<1>7. CASE Proc
  <2>1. cevt # NULL /\ cevt' = NULL
    BY <1>7 DEF Proc, QInv, HeldInv
  <2>2. RingContents' = RingContents /\ Offered' = Offered
    BY <1>7 DEF Proc, RingContents, InHand, ringvars, pvars
  <2>3. Queue!Finish
    BY <2>1, <2>2 DEF Queue!Finish
  <2>4. QED
    BY <2>3 DEF Queue!QNext
<1>8. ASSUME NEW p \in Producer, RingStore(p) PROVE UNCHANGED <<RingContents, Offered, cevt>>
  <2>1. count < RING_SIZE
    BY <1>1, <1>8, RoomInAdd DEF RingStore
  <2>2. /\ ring_item' = [ring_item EXCEPT ![rear] = pevt[p]] /\ count' = count /\ At' = At
        /\ Offered' = Offered /\ cevt' = cevt
    BY <1>1, <1>8, <2>1 DEF RingStore, At, InHand, TypeOK, cvars
  <2>3. ASSUME NEW i \in 1 .. count PROVE ring_item'[At[i - 1]] = ring_item[At[i - 1]]
    <3>1. /\ i - 1 \in 0 .. RING_SIZE - 1 /\ count \in 0 .. RING_SIZE - 1
          /\ i - 1 # count /\ i - 1 \in 0 .. RING_SIZE
      BY <1>1, <2>1
    <3>2. At[i - 1] # rear
      BY <1>1, <1>3, <3>1, AtInjective
    <3>3. At[i - 1] \in Slot
      BY <1>1, <3>1, AtSlot
    <3>4. QED
      BY <1>1, <2>2, <3>2, <3>3 DEF TypeOK
  <2>4. RingContents' = RingContents
    BY <1>2, <2>2, <2>3
  <2>5. QED
    BY <2>2, <2>4
<1>9. ASSUME NEW p \in Producer, WaitVaild(p) \/ PLock(p) \/ PUnlock(p) \/ PostContain(p)
      PROVE  UNCHANGED <<RingContents, Offered, cevt>>
  <2>1. RingContents' = RingContents /\ cevt' = cevt
    BY <1>9 DEF WaitVaild, PLock, PUnlock, PostContain, RingContents, cvars
  <2>2. \A r \in Producer : Offered'[r] = Offered[r]
    BY <1>1, <1>9 DEF WaitVaild, PLock, PUnlock, PostContain, InHand, TypeOK
  <2>3. QED
    BY <2>1, <2>2
<1>10. CASE RingStat \/ WaitContain \/ CLock \/ CUnlock \/ PostVaild \/ UNCHANGED vars
  <2>1. UNCHANGED <<front, count, ring_item, ppc, pevt, cevt>>
    BY <1>10 DEF RingStat, WaitContain, CLock, CUnlock, PostVaild, vars, ringvars, pvars
  <2>2. UNCHANGED <<RingContents, Offered, cevt>>
    BY <2>1 DEF RingContents, InHand
  <2>3. QED
    BY <2>2 DEF Queue!qvars
<1>11. QED
  BY <1>4, <1>5, <1>6, <1>7, <1>8, <1>9, <1>10 DEF Next, Put, Get, Queue!qvars

\* The ring implements the bounded FIFO queue for every number of source
\* threads and every ring size: what fmd_queue_dispatch and put_to_agent
\* put is handed over exactly once and in the order of ring_add.
THEOREM ImplementsQueue == Spec => FifoQueue
<1>1. Init => QInv /\ Queue!QInit
  BY InitQInv, InitQueue
<1>2. QInv /\ [Next]_vars => QInv'
  BY StepQInv
<1>3. QInv /\ QInv' /\ [Next]_vars => [Queue!QNext]_(Queue!qvars)
  BY StepQueue
<1>4. QED
  BY <1>1, <1>2, <1>3, PTL DEF Spec, FifoQueue, Queue!QSpec
=============================================================================
