--------------------------- MODULE FmdCore_proofs ---------------------------
(***************************************************************************)
(* Proofs about the diagnosis core, for every set of devices, classes and  *)
(* agents, every ring size and any number of ereports.                     *)
(*                                                                         *)
(* What the properties say of cases, events and private data rests on an   *)
(* account of where each ereport is: in the ring, with the dispatcher, in  *)
(* the ring or the hand of one agent, each time once.                      *)
(***************************************************************************)
EXTENDS FmdCore, FiniteSetTheorems, SequenceTheorems, TLAPS

-----------------------------------------------------------------------------
(***************************************************************************)
(* Where an ereport is.  Place 0 of an agent is its hand, place i > 0 is   *)
(* slot i of its ring: when the agent takes an item, all move up by one.   *)
(***************************************************************************)
At(a, i)   == IF i = 0 THEN hand[a] ELSE aring[a][i]
Places(a)  == 0 .. Len(aring[a])
Is(x, k, n) == x # NONE /\ x.kind = k /\ x.n = n
Has(k, n)  == \E a \in Agent : \E i \in Places(a) : Is(At(a, i), k, n)

\* Before it is in a case an ereport is once in the ring, or in the hands of
\* the dispatcher.
Arrival ==
  /\ \A n \in Ereports : n > Len(rep) => p_case[n] = 0
  /\ \A i \in 1 .. Len(ring) :
       /\ ring[i] <= Len(rep) /\ p_case[ring[i]] = 0
       /\ dpc = "insert" => ring[i] # cur
  /\ \A i, j \in 1 .. Len(ring) : ring[i] = ring[j] => i = j
  /\ dpc \in {"insert", "fire", "forward"} => cur \in 1 .. Len(rep)
  /\ dpc = "insert" => p_case[cur] = 0
  /\ dpc \in {"fire", "forward"} => p_case[cur] # 0
  /\ dpc = "sweep" => pos >= 1

\* After that the agent that subscribes to its class has it at most once as
\* an ereport and at most once as a fault, each after the dispatcher has put it.
Queued ==
  \A a \in Agent : \A i \in Places(a) : At(a, i) # NONE =>
    /\ Sub[rep[At(a, i).n].cls] = a
    /\ p_case[At(a, i).n] # 0
    /\ ~ (dpc = "fire" /\ At(a, i).n = cur)
    /\ ~ (dpc = "forward" /\ At(a, i).n = cur /\ At(a, i).kind = "ereport")
    /\ \A j \in Places(a) : Is(At(a, j), At(a, i).kind, At(a, i).n) => i = j

\* A case is named by one of its ereports, all of its device; the events it
\* links are among them, and the freed ones have been.
Cases ==
  /\ \A n \in Ereports : p_case[n] # 0 => /\ p_case[p_case[n]] # 0
                                          /\ rep[p_case[n]].dev = rep[n].dev
  /\ \A n \in Ereports : p_case[n] = 0 => age[n] = 0 /\ n \notin evfreed
  /\ \A d \in Dev : list_case[d] # NONE =>
       /\ p_case[list_case[d].cid] # 0 /\ rep[list_case[d].cid].dev = d
       /\ \A e \in list_case[d].events : p_case[e.n] = list_case[d].cid

\* A case has fired at most once per ereport, and an event has counted at
\* most the ereports of its fault code that came since its first one.
Members(c)  == {n \in Ereports : p_case[n] = c}
Since(c, m) == {n \in Members(c) : rep[n].id = rep[m].id /\ age[n] <= age[m]}
Counts ==
  \A d \in Dev : list_case[d] # NONE =>
    /\ list_case[d].fires <= Cardinality(Members(list_case[d].cid))
    /\ \A e \in list_case[d].events : e.count <= Cardinality(Since(list_case[d].cid, e.n))

\* The private data of an ereport whose class cpumem handles belongs to the
\* fault, then to the answer, then to the record, and is freed with that; the
\* data of others is not freed.
Faulty(n)   == (dpc = "fire" /\ cur = n) \/ Has("fault", n)
Answered(n) == \E a \in Agent : out[a] # NONE /\ out[a].data = n
Recorded(n) == \E i \in DOMAIN repaired : repaired[i].data = n
ByCpumem(n) == Handler[rep[n].cls] \in CpumemHandler
RecordFrom(r) == p_case[r.data] # 0 /\ (r.result = "ISOLATED_FAILED" => ByCpumem(r.data))

Data ==
  /\ \A n \in Ereports :
       /\ datafrees[n] <= 1
       /\ datafrees[n] # 0 => p_case[n] # 0 /\ ByCpumem(n)
       /\ Recorded(n) /\ ByCpumem(n) => datafrees[n] = 0
       /\ Answered(n) /\ ByCpumem(n) => datafrees[n] = 0 /\ ~Recorded(n)
       /\ Faulty(n) /\ ByCpumem(n) => datafrees[n] = 0 /\ ~Recorded(n) /\ ~Answered(n)
  /\ \A a \in Agent : out[a] # NONE => RecordFrom(out[a]) /\ Sub[rep[out[a].data].cls] = a
  /\ \A i \in DOMAIN repaired : RecordFrom(repaired[i])
  /\ \A i, j \in DOMAIN repaired :
       ByCpumem(repaired[i].data) /\ repaired[i].data = repaired[j].data => i = j

CaseInv   == Cases /\ Counts /\ UsingExact /\ CaseAlive /\ EventAlive
RecordInv == Data /\ RecordUnique

Inv == TypeOK /\ Arrival /\ Queued /\ CaseInv /\ RecordInv

-----------------------------------------------------------------------------
(* Facts about the constants, and about the state as its type gives it.    *)

LEMMA Sizes == /\ MaxEreports \in Nat /\ AgeCap \in Nat
               /\ DELETE_CIRCLE \in Nat \ {0} /\ RING_SIZE \in Nat \ {0}
  BY CoreAssumption

LEMMA TemplateParts ==
  ASSUME TypeOK, NEW n \in 1 .. Len(rep)
  PROVE  /\ n \in Ereports /\ rep[n] \in [dev : Dev, id : Id, cls : Class]
         /\ Sub[rep[n].cls] \in Agent \cup {NONE}
<1>1. n \in Ereports /\ rep[n] \in Template
  <2>1. MaxEreports \in Nat
    BY CoreAssumption
  <2>2. rep \in Seq(Template) /\ Len(rep) \in Nat /\ Len(rep) <= MaxEreports
    BY DEF TypeOK
  <2>3. QED
    BY <2>1, <2>2 DEF Ereports
<1>2. rep[n] \in [dev : Dev, id : Id, cls : Class]
  BY <1>1, CoreAssumption
<1>3. rep[n].cls \in Class
  BY <1>2
<1>4. QED
  BY <1>1, <1>2, <1>3, CoreAssumption

\* An ereport that is in a case has been raised.
LEMMA InCase ==
  ASSUME TypeOK, Arrival, NEW n \in Ereports, p_case[n] # 0
  PROVE  n \in 1 .. Len(rep)
  BY CoreAssumption DEF TypeOK, Arrival, Ereports

LEMMA InCaseNext == TypeOK' /\ Arrival' => (\A n \in Ereports : p_case[n] # 0 => n \in 1 .. Len(rep))'
<1>1. TypeOK /\ Arrival => \A n \in Ereports : p_case[n] # 0 => n \in 1 .. Len(rep)
  BY InCase
<1>2. QED
  BY <1>1, PTL

LEMMA AtType ==
  ASSUME TypeOK, NEW a \in Agent, NEW i \in Places(a), At(a, i) # NONE
  PROVE  At(a, i) \in Item
  BY DEF TypeOK, Places, At

PendingAre ==
  \A n : n \in Pending <=> (dpc \in {"fire", "forward"} /\ n = cur) \/ Has("ereport", n)

LEMMA RingsHave == aring \in [Agent -> Seq(Item)] => PendingAre
<1> SUFFICES ASSUME aring \in [Agent -> Seq(Item)] PROVE PendingAre
  OBVIOUS
<1>1. ASSUME NEW a \in Agent, NEW x
      PROVE  x \in Held(a) <=> \E i \in Places(a) : x = At(a, i) /\ x # NONE
  <2>1. aring[a] \in Seq(Item) /\ NONE \notin Item
    BY NoneAssumption
  <2>2. \A i \in 1 .. Len(aring[a]) : aring[a][i] # NONE
    BY <2>1
  <2>3. QED
    BY <2>1, <2>2 DEF Held, SeqRange, Places, At
<1>2. \A x : x \in InFlight <=> \E a \in Agent : \E i \in Places(a) : x = At(a, i) /\ x # NONE
  BY <1>1 DEF InFlight
<1>3. QED
  BY <1>2 DEF PendingAre, Pending, Has, Is

LEMMA RingsHaveNext == (aring \in [Agent -> Seq(Item)])' => PendingAre'
  BY RingsHave, PTL

LEMMA PendingHas == TypeOK => PendingAre
  BY RingsHave DEF TypeOK

LEMMA PendingHasNext == TypeOK' => PendingAre'
  BY RingsHaveNext DEF TypeOK

-----------------------------------------------------------------------------
(* How the places change.                                                  *)

\* A step that touches neither rings nor hands.
LEMMA SamePlaces ==
  ASSUME UNCHANGED <<aring, hand>>
  PROVE  /\ \A a, i : At(a, i)' = At(a, i)
         /\ \A a : Places(a)' = Places(a)
         /\ \A k, n : Has(k, n)' <=> Has(k, n)
  BY DEF At, Places, Has, Is

LEMMA TakePlaces ==
  ASSUME TypeOK, NEW a \in Agent, Take(a)
  PROVE  /\ \A i \in Places(a)' : i + 1 \in Places(a) /\ At(a, i)' = At(a, i + 1)
         /\ \A b \in Agent \ {a} : Places(b)' = Places(b) /\ \A i : At(b, i)' = At(b, i)
         /\ \A k, n : Has(k, n)' <=> Has(k, n)
<1> DEFINE s == aring[a]
<1>1. s \in Seq(Item) /\ s # <<>> /\ hand[a] = NONE
      /\ hand \in [Agent -> Item \cup {NONE}] /\ aring \in [Agent -> Seq(Item)]
  BY DEF Take, TypeOK
<1>2. aring' = [aring EXCEPT ![a] = Tail(s)] /\ hand' = [hand EXCEPT ![a] = s[1]]
  BY <1>1 DEF Take
<1>3. /\ Len(s) \in Nat /\ Len(s) >= 1 /\ Len(Tail(s)) = Len(s) - 1
      /\ \A i \in 1 .. Len(s) - 1 : Tail(s)[i] = s[i + 1]
  BY <1>1
<1>4. Places(a)' = 0 .. Len(s) - 1 /\ Places(a) = 0 .. Len(s)
  BY <1>1, <1>2, <1>3 DEF Places
<1>5. \A i \in Places(a)' : i + 1 \in Places(a) /\ At(a, i)' = At(a, i + 1)
  BY <1>1, <1>2, <1>3, <1>4 DEF At
<1>6. \A b \in Agent \ {a} : Places(b)' = Places(b) /\ \A i : At(b, i)' = At(b, i)
  BY <1>1, <1>2 DEF At, Places
<1>7. \A i \in Places(a) : i # 0 => i - 1 \in Places(a)' /\ At(a, i - 1)' = At(a, i)
  BY <1>3, <1>4, <1>5
<1>8. At(a, 0) = NONE
  BY <1>1 DEF At
<1>9. ASSUME NEW k, NEW n PROVE Has(k, n)' <=> Has(k, n)
  <2>1. ASSUME Has(k, n) PROVE Has(k, n)'
    <3>0. PICK b \in Agent : \E i \in Places(b) : Is(At(b, i), k, n)
      BY <2>1 DEF Has
    <3>1. PICK i \in Places(b) : Is(At(b, i), k, n)
      BY <3>0
    <3>2. CASE b = a
      <4>1. i # 0
        BY <3>1, <3>2, <1>8 DEF Is
      <4>2. i - 1 \in Places(a)' /\ Is(At(a, i - 1), k, n)'
        BY <3>1, <3>2, <4>1, <1>7 DEF Is
      <4>3. QED
        BY <4>2 DEF Has
    <3>3. CASE b # a
      BY <3>1, <3>3, <1>6 DEF Has, Is
    <3>4. QED
      BY <3>2, <3>3
  <2>2. ASSUME Has(k, n)' PROVE Has(k, n)
    <3>0. PICK b \in Agent : \E i \in Places(b)' : Is(At(b, i)', k, n)
      BY <2>2 DEF Has, Is
    <3>1. PICK i \in Places(b)' : Is(At(b, i)', k, n)
      BY <3>0
    <3>2. CASE b = a
      BY <3>1, <3>2, <1>5 DEF Has, Is
    <3>3. CASE b # a
      BY <3>1, <3>3, <1>6 DEF Has, Is
    <3>4. QED
      BY <3>2, <3>3
  <2>3. QED
    BY <2>1, <2>2
<1>10. QED
  BY <1>5, <1>6, <1>9

\* put_to_agents: the item gets a place of its own, behind the others.
LEMMA PutPlaces ==
  ASSUME TypeOK, NEW item \in Item, PutToAgents(item), UNCHANGED hand,
         NEW a \in Agent, a = Sub[rep[item.n].cls], a # NONE
  PROVE  /\ \E last : /\ Places(a)' = Places(a) \cup {last} /\ last \notin Places(a)
                      /\ At(a, last)' = item
         /\ \A i \in Places(a) : At(a, i)' = At(a, i)
         /\ \A b \in Agent \ {a} : Places(b)' = Places(b) /\ \A i : At(b, i)' = At(b, i)
         /\ \A k, n : Has(k, n)' <=> Has(k, n) \/ (item.kind = k /\ item.n = n)
<1>1. aring[a] \in Seq(Item) /\ aring \in [Agent -> Seq(Item)] /\ Len(aring[a]) \in Nat
  BY DEF TypeOK
<1>2. aring' = [aring EXCEPT ![a] = Append(aring[a], item)]
  BY DEF PutToAgents
<1> PICK last : last = Len(aring[a]) + 1
  OBVIOUS
<1>3. Places(a)' = Places(a) \cup {last} /\ last \notin Places(a)
  <2>1. PICK len \in Nat : len = Len(aring[a])
    BY <1>1
  <2>2. aring'[a] = Append(aring[a], item)
    BY <1>1, <1>2
  <2>3. Len(Append(aring[a], item)) = len + 1
    BY <1>1, <2>1, AppendProperties
  <2>4. Places(a) = 0 .. len /\ Places(a)' = 0 .. len + 1 /\ last = len + 1
    BY <2>1, <2>2, <2>3, Zenon DEF Places
  <2>5. 0 .. len + 1 = 0 .. len \cup {len + 1} /\ len + 1 \notin 0 .. len
    OBVIOUS
  <2>6. QED
    BY <2>4, <2>5, Zenon
<1>4. At(a, last)' = item /\ \A i \in Places(a) : At(a, i)' = At(a, i)
  <2>1. aring'[a] = Append(aring[a], item)
    BY <1>1, <1>2
  <2>2. /\ Append(aring[a], item)[Len(aring[a]) + 1] = item
        /\ \A i \in 1 .. Len(aring[a]) : Append(aring[a], item)[i] = aring[a][i]
    <3>1. PICK r \in Seq(Item) : r = aring[a]
      BY <1>1, Zenon
    <3>2. /\ Append(r, item)[Len(r) + 1] = item
          /\ \A i \in 1 .. Len(r) : Append(r, item)[i] = r[i]
      BY AppendProperties
    <3>3. QED
      BY <3>1, <3>2, Zenon
  <2>3. last # 0
    BY <1>1
  <2>4. At(a, last)' = item
    BY <2>1, <2>2, <2>3, Zenon DEF At
  <2>5. \A i \in Places(a) : i = 0 \/ i \in 1 .. Len(aring[a])
    BY <1>1 DEF Places
  <2>6. QED
    BY <2>1, <2>2, <2>4, <2>5, Zenon DEF At
<1>5. \A b \in Agent \ {a} : Places(b)' = Places(b) /\ \A i : At(b, i)' = At(b, i)
  BY <1>1, <1>2 DEF At, Places
<1>6. item # NONE
  BY NoneAssumption
<1>7. ASSUME NEW k, NEW n PROVE Has(k, n)' <=> Has(k, n) \/ (item.kind = k /\ item.n = n)
  <2>1. ASSUME Has(k, n) PROVE Has(k, n)'
    <3>1. PICK b \in Agent : \E i \in Places(b) : Is(At(b, i), k, n)
      BY <2>1, Zenon DEF Has
    <3>2. PICK i \in Places(b) : Is(At(b, i), k, n)
      BY <3>1
    <3>3. At(b, i)' = At(b, i) /\ i \in Places(b)'
      BY <1>3, <1>4, <1>5, Zenon
    <3>4. Is(At(b, i)', k, n)
      BY <3>2, <3>3, Zenon
    <3>5. QED
      BY <3>3, <3>4 DEF Has, Is
  <2>2. ASSUME item.kind = k, item.n = n PROVE Has(k, n)'
    BY <1>3, <1>4, <1>6, <2>2 DEF Has, Is
  <2>3. ASSUME Has(k, n)' PROVE Has(k, n) \/ (item.kind = k /\ item.n = n)
    <3>0. PICK b \in Agent : \E i \in Places(b)' : Is(At(b, i)', k, n)
      BY <2>3 DEF Has, Is
    <3>1. PICK i \in Places(b)' : Is(At(b, i)', k, n)
      BY <3>0
    <3>2. CASE b # a
      BY <3>1, <3>2, <1>5, Zenon DEF Has
    <3>3. CASE b = a /\ i \in Places(a)
      BY <3>1, <3>3, <1>4, Zenon DEF Has
    <3>4. CASE b = a /\ i = last
      BY <3>1, <3>4, <1>4, Zenon DEF Is
    <3>5. QED
      BY <3>1, <3>2, <3>3, <3>4, <1>3, Zenon
  <2>4. QED
    BY <2>1, <2>2, <2>3
<1>8. QED
  BY <1>3, <1>4, <1>5, <1>7

\* The item in hand leaves.
LEMMA HandlePlaces ==
  ASSUME TypeOK, Queued, NEW a \in Agent, Handle(a)
  PROVE  /\ \A b \in Agent : Places(b)' = Places(b)
         /\ At(a, 0) = hand[a] /\ At(a, 0)' = NONE /\ 0 \in Places(a)
         /\ \A b \in Agent : \A i \in Places(b) : At(b, i)' = At(b, i) \/ (b = a /\ i = 0)
         /\ \A k, n : Has(k, n)' <=> Has(k, n) /\ ~ (hand[a].kind = k /\ hand[a].n = n)
<1>1. hand' = [hand EXCEPT ![a] = NONE] /\ aring' = aring /\ hand[a] # NONE
      /\ hand \in [Agent -> Item \cup {NONE}] /\ Len(aring[a]) \in Nat
  BY DEF Handle, TypeOK
<1>2. At(a, 0) = hand[a] /\ At(a, 0)' = NONE /\ 0 \in Places(a)
      /\ \A b \in Agent : Places(b)' = Places(b)
  BY <1>1 DEF At, Places
<1>3. \A b \in Agent : \A i \in Places(b) : At(b, i)' = At(b, i) \/ (b = a /\ i = 0)
  BY <1>1 DEF At
<1>4. ASSUME NEW k, NEW n, Has(k, n)' PROVE Has(k, n) /\ ~ (hand[a].kind = k /\ hand[a].n = n)
  <2>0. PICK b \in Agent : \E i \in Places(b)' : Is(At(b, i)', k, n)
    BY <1>4 DEF Has, Is
  <2>1. PICK i \in Places(b)' : Is(At(b, i)', k, n)
    BY <2>0
  <2>2. i \in Places(b) /\ ~ (b = a /\ i = 0) /\ Is(At(b, i), k, n)
    BY <2>1, <1>2, <1>3 DEF Is
  <2>3. b = Sub[rep[n].cls]
    BY <2>2 DEF Queued, Is
  <2>4. ASSUME hand[a].kind = k, hand[a].n = n PROVE FALSE
    <3>1. Is(At(a, 0), k, n) /\ a = Sub[rep[n].cls]
      BY <1>1, <1>2, <2>4 DEF Queued, Is
    <3>2. QED
      BY <1>2, <2>2, <2>3, <3>1 DEF Queued, Is
  <2>5. QED
    BY <2>2, <2>4 DEF Has
<1>5. ASSUME NEW k, NEW n, Has(k, n), ~ (hand[a].kind = k /\ hand[a].n = n) PROVE Has(k, n)'
  <2>0. PICK b \in Agent : \E i \in Places(b) : Is(At(b, i), k, n)
    BY <1>5 DEF Has
  <2>1. PICK i \in Places(b) : Is(At(b, i), k, n)
    BY <2>0
  <2>2. ~ (b = a /\ i = 0)
    BY <2>1, <1>2, <1>5 DEF Is
  <2>3. QED
    BY <2>1, <2>2, <1>2, <1>3 DEF Has, Is
<1>6. QED
  BY <1>2, <1>3, <1>4, <1>5

-----------------------------------------------------------------------------
(* What a step does not touch stays as it was.                             *)

\* The ereports m_event_using of case c should count.
Used(c) == {n \in Ereports : p_case[n] = c /\ (n \in Pending \/ Sub[rep[n].cls] = NONE)}
CountedBy ==
  \A d \in Dev : list_case[d] # NONE => list_case[d].using = Cardinality(Used(list_case[d].cid))

LEMMA UsedCounts == (UsingExact <=> CountedBy) /\ (UsingExact' <=> CountedBy')
  BY DEF UsingExact, CountedBy, Used

\* The ereports on their way stay, but for some that nobody subscribes to.
LEMMA DroppedCases ==
  ASSUME CaseInv, UNCHANGED <<rep, list_case, p_case, age, evfreed>>, Pending' \subseteq Pending,
         \A n \in Pending \ Pending' : Sub[rep[n].cls] = NONE
  PROVE  CaseInv'
<1>1. Cases' /\ CaseAlive' /\ EventAlive'
  BY DEF CaseInv, Cases, CaseAlive, EventAlive
<1>2. Counts'
  BY DEF CaseInv, Counts, Members, Since
<1>3. \A c : Used(c)' = Used(c)
  BY DEF Used
<1>4. UsingExact'
  BY <1>3, UsedCounts DEF CaseInv, CountedBy
<1>5. QED
  BY <1>1, <1>2, <1>4 DEF CaseInv

LEMMA SameCases ==
  ASSUME CaseInv, UNCHANGED <<rep, list_case, p_case, age, evfreed>>, Pending' = Pending
  PROVE  CaseInv'
  BY DroppedCases

LEMMA SameRecords ==
  ASSUME RecordInv, UNCHANGED <<rep, p_case, out, repaired, datafrees>>,
         \A n \in Ereports : Faulty(n)' => Faulty(n)
  PROVE  RecordInv'
  BY DEF RecordInv, Data, RecordUnique, Answered, Recorded, ByCpumem, RecordFrom

LEMMA SamePending ==
  ASSUME TypeOK, TypeOK', \A n : Has("ereport", n)' <=> Has("ereport", n),
         UNCHANGED cur,
         dpc' \in {"fire", "forward"} <=> dpc \in {"fire", "forward"}
  PROVE  Pending' = Pending
<1>1. \A n : n \in Pending' <=> n \in Pending
  BY PendingHas, PendingHasNext DEF PendingAre
<1>2. QED
  BY <1>1

\* A step that leaves rings, hands and membership of cases alone, and is not
\* about to put something into a ring.
LEMMA SameQueued ==
  ASSUME Queued, UNCHANGED <<rep, p_case, aring, hand>>, dpc' \notin {"fire", "forward"}
  PROVE  Queued'
  BY SamePlaces DEF Queued, Is

-----------------------------------------------------------------------------
(* The steps.                                                              *)

LEMMA PollInv == ASSUME Inv, Poll PROVE Inv'
<1> USE DEF Inv, Poll
<1>1. ring \in Seq(Ereports) /\ ring # <<>> /\ Len(ring) \in Nat /\ Len(ring) >= 1
  BY DEF TypeOK
<1>2. /\ Head(ring) = ring[1] /\ Tail(ring) \in Seq(Ereports) /\ Len(Tail(ring)) = Len(ring) - 1
      /\ \A i \in 1 .. Len(ring) - 1 : Tail(ring)[i] = ring[i + 1]
      /\ ring[1] \in Ereports
  BY <1>1
<1>3. TypeOK'
  <2>1. cur' \in 0 .. MaxEreports /\ dpc' \in {"poll", "insert"}
    <3>1. cur \in 0 .. MaxEreports /\ ring[1] \in 0 .. MaxEreports
      BY <1>2, Sizes DEF TypeOK, Ereports
    <3>2. QED
      BY <1>2, <3>1
  <2>2. ring' \in Seq(Ereports) /\ Len(ring') <= RING_SIZE
    BY <1>1, <1>2, Sizes DEF TypeOK
  <2>3. QED
    BY <2>1, <2>2 DEF TypeOK, memvars
<1>4. Arrival'
  BY <1>1, <1>2 DEF Arrival, TypeOK, Ereports
<1>5. Queued'
  BY SameQueued
<1>6. Pending' = Pending
  <2>1. \A n : n \in Pending' <=> n \in Pending
    BY <1>3, PendingHas, PendingHasNext, SamePlaces DEF PendingAre
  <2>2. QED
    BY <2>1
<1>7. CaseInv'
  BY <1>6, SameCases DEF memvars
<1>8. RecordInv'
  BY SameRecords, SamePlaces DEF memvars, Faulty
<1>9. QED
  BY <1>3, <1>4, <1>5, <1>7, <1>8

LEMMA EndRoundInv == ASSUME Inv, EndRound \/ SweepEnd PROVE Inv'
<1> USE DEF Inv, EndRound, SweepEnd
<1>1. TypeOK'
  BY Sizes, SMTT(30) DEF TypeOK, memvars
<1>2. Arrival' /\ Queued'
  BY SameQueued DEF Arrival
<1>3. Pending' = Pending
  BY <1>1, SamePending, SamePlaces
<1>4. CaseInv' /\ RecordInv'
  BY <1>3, SameCases, SameRecords, SamePlaces DEF memvars, Faulty
<1>5. QED
  BY <1>1, <1>2, <1>4

LEMMA UpdateConfInv == ASSUME Inv, UpdateConf \/ UNCHANGED corevars PROVE Inv'
<1> USE DEF Inv, UpdateConf, corevars
<1>1. TypeOK'
  BY DEF TypeOK
<1>2. Arrival' /\ Queued'
  BY SamePlaces DEF Arrival, Queued, Is
<1>3. Pending' = Pending
  BY <1>1, SamePending, SamePlaces
<1>4. CaseInv' /\ RecordInv'
  BY <1>3, SameCases, SameRecords, SamePlaces DEF Faulty
<1>5. QED
  BY <1>1, <1>2, <1>4

LEMMA TakeInv == ASSUME Inv, NEW a \in Agent, Take(a) PROVE Inv'
<1> USE DEF Inv, Take
<1>1. TypeOK'
  <2>1. aring[a] \in Seq(Item) /\ aring[a] # <<>> /\ Len(aring[a]) <= RING_SIZE
    BY DEF TypeOK
  <2>2. Head(aring[a]) \in Item /\ Tail(aring[a]) \in Seq(Item) /\ Len(Tail(aring[a])) <= RING_SIZE
    BY <2>1, Sizes
  <2>3. QED
    BY <2>2 DEF TypeOK, memvars
<1>2. Arrival'
  BY DEF Arrival, memvars
<1>3. Queued'
  <2> SUFFICES ASSUME NEW b \in Agent, NEW i \in Places(b)', At(b, i)' # NONE
               PROVE  /\ Sub[rep[At(b, i)'.n].cls] = b
                      /\ p_case[At(b, i)'.n] # 0
                      /\ ~ (dpc = "fire" /\ At(b, i)'.n = cur)
                      /\ ~ (dpc = "forward" /\ At(b, i)'.n = cur /\ At(b, i)'.kind = "ereport")
                      /\ \A j \in Places(b)' : Is(At(b, j)', At(b, i)'.kind, At(b, i)'.n) => i = j
    BY DEF Queued, Is
  <2>1. CASE b = a
    <3>1. i + 1 \in Places(a) /\ At(a, i)' = At(a, i + 1)
      BY <2>1, TakePlaces
    <3>2. ASSUME NEW j \in Places(a)', Is(At(a, j)', At(a, i)'.kind, At(a, i)'.n) PROVE i = j
      <4>1. j + 1 \in Places(a) /\ At(a, j)' = At(a, j + 1)
        BY TakePlaces
      <4>2. i + 1 = j + 1
        BY <2>1, <3>1, <3>2, <4>1 DEF Queued, Is
      <4>3. i \in Int /\ j \in Int
        BY <2>1 DEF Places
      <4>4. QED
        BY <4>2, <4>3
    <3>3. QED
      BY <2>1, <3>1, <3>2 DEF Queued
  <2>2. CASE b # a
    <3>1. Places(b)' = Places(b) /\ \A j : At(b, j)' = At(b, j)
      BY <2>2, TakePlaces
    <3>2. QED
      BY <3>1 DEF Queued
  <2>3. QED
    BY <2>1, <2>2
<1>4. Pending' = Pending
  BY <1>1, SamePending, TakePlaces
<1>5. CaseInv' /\ RecordInv'
  BY <1>4, SameCases, SameRecords, TakePlaces DEF memvars, Faulty
<1>6. QED
  BY <1>1, <1>2, <1>3, <1>5

\* What the dispatcher has put into a ring is there once.
LEMMA PutQueued ==
  ASSUME TypeOK, Arrival, Queued, NEW item \in Item, item.n = cur, PutToAgents(item),
         UNCHANGED <<hand, rep, p_case>>,
         \/ dpc = "fire" /\ dpc' = "forward" /\ cur' = cur /\ item.kind = "fault"
         \/ dpc = "forward" /\ dpc' = "poll" /\ item.kind = "ereport"
  PROVE  Queued' /\ aring' \in [Agent -> Seq(Item)] /\ \A a \in Agent : Len(aring'[a]) <= RING_SIZE
<1> DEFINE a == Sub[rep[item.n].cls]
<1>1. cur \in 1 .. Len(rep) /\ p_case[cur] # 0 /\ a \in Agent \cup {NONE}
  BY TemplateParts DEF Arrival
<1>2. CASE a = NONE
  <2>1. aring' = aring
    BY <1>2 DEF PutToAgents
  <2>2. QED
    BY <2>1, SamePlaces DEF Queued, Is, TypeOK
<1>3. CASE a # NONE
  <2>1. PICK b \in Agent : b = a
    BY <1>1, <1>3
  <2> HIDE DEF a
  <2>2. b = Sub[rep[item.n].cls] /\ b # NONE
    BY <1>3, <2>1 DEF a
  <2>3. PICK last : /\ Places(b)' = Places(b) \cup {last} /\ last \notin Places(b)
                    /\ At(b, last)' = item
    BY <2>2, PutPlaces
  <2>4. /\ Places(b)' = Places(b) \cup {last} /\ last \notin Places(b)
        /\ At(b, last)' = item
        /\ \A i \in Places(b) : At(b, i)' = At(b, i)
        /\ \A x \in Agent \ {b} : Places(x)' = Places(x) /\ \A i : At(x, i)' = At(x, i)
    BY <2>3, <2>2, PutPlaces
  <2>5. \A i \in Places(b) : ~Is(At(b, i), item.kind, item.n)
    BY DEF Queued, Is
  <2>6. ASSUME NEW x \in Agent \ {b}, NEW i \in Places(x), At(x, i) # NONE
        PROVE  \A j \in Places(x)' : Is(At(x, j)', At(x, i).kind, At(x, i).n) => i = j
    BY <2>4, <2>6 DEF Queued
  <2>7. ASSUME NEW i \in Places(b), At(b, i) # NONE
        PROVE  \A j \in Places(b)' : Is(At(b, j)', At(b, i).kind, At(b, i).n) => i = j
    <3>1. \A j \in Places(b) : Is(At(b, j)', At(b, i).kind, At(b, i).n) => i = j
      BY <2>4, <2>7 DEF Queued
    <3>2. ~Is(At(b, last)', At(b, i).kind, At(b, i).n)
      BY <2>4, <2>5, <2>7 DEF Is
    <3>3. QED
      BY <2>4, <3>1, <3>2
  <2>8. \A j \in Places(b)' : Is(At(b, j)', item.kind, item.n) => last = j
    BY <2>4, <2>5 DEF Is
  <2>9. ASSUME NEW x \in Agent, NEW i \in Places(x), At(x, i) # NONE
        PROVE  /\ Sub[rep'[At(x, i).n].cls] = x
               /\ p_case'[At(x, i).n] # 0
               /\ ~ (dpc' = "fire" /\ At(x, i).n = cur')
               /\ ~ (dpc' = "forward" /\ At(x, i).n = cur' /\ At(x, i).kind = "ereport")
    BY <2>9 DEF Queued
  <2>10. ASSUME NEW x \in Agent, NEW i \in Places(x)', At(x, i)' # NONE
        PROVE  /\ Sub[rep'[At(x, i)'.n].cls] = x
               /\ p_case'[At(x, i)'.n] # 0
               /\ ~ (dpc' = "fire" /\ At(x, i)'.n = cur')
               /\ ~ (dpc' = "forward" /\ At(x, i)'.n = cur' /\ At(x, i)'.kind = "ereport")
               /\ \A j \in Places(x)' : Is(At(x, j)', At(x, i)'.kind, At(x, i)'.n) => i = j
    <3>1. CASE x = b /\ i = last
      BY <1>1, <2>1, <2>4, <2>8, <3>1 DEF a
    <3>2. CASE x = b /\ i # last
      <4>1. i \in Places(b) /\ At(b, i)' = At(b, i)
        BY <2>4, <3>2
      <4>2. QED
        BY <2>7, <2>9, <2>10, <3>2, <4>1
    <3>3. CASE x # b
      <4>1. i \in Places(x) /\ At(x, i)' = At(x, i)
        BY <2>4, <3>3
      <4>2. QED
        BY <2>6, <2>9, <2>10, <3>3, <4>1
    <3>4. QED
      BY <3>1, <3>2, <3>3
  <2>11. Queued'
    BY <2>10 DEF Queued, Is
  <2>12. aring' \in [Agent -> Seq(Item)] /\ \A x \in Agent : Len(aring'[x]) <= RING_SIZE
    <3>1. aring[b] \in Seq(Item) /\ Len(aring[b]) < RING_SIZE
          /\ aring' = [aring EXCEPT ![b] = Append(aring[b], item)]
      BY <1>3, <2>1 DEF PutToAgents, TypeOK, a
    <3>2. Append(aring[b], item) \in Seq(Item) /\ Len(Append(aring[b], item)) <= RING_SIZE
      BY <3>1, Sizes
    <3>3. QED
      BY <3>1, <3>2 DEF TypeOK
  <2>13. QED
    BY <2>11, <2>12
<1>4. QED
  BY <1>2, <1>3

LEMMA PutHas ==
  ASSUME TypeOK, Arrival, NEW item \in Item, item.n = cur, PutToAgents(item), UNCHANGED hand,
         dpc \in {"fire", "forward"}
  PROVE  \A k, n : Has(k, n)' <=> \/ Has(k, n)
                                  \/ Sub[rep[cur].cls] # NONE /\ item.kind = k /\ cur = n
<1> DEFINE a == Sub[rep[item.n].cls]
<1>1. a \in Agent \cup {NONE}
  BY TemplateParts DEF Arrival
<1>2. CASE a = NONE
  BY <1>2, SamePlaces DEF PutToAgents
<1>3. CASE a # NONE
  BY <1>1, <1>3, PutPlaces
<1>4. QED
  BY <1>2, <1>3

LEMMA FireInv == ASSUME Inv, Fire PROVE Inv'
<1> USE DEF Inv, Fire
<1> DEFINE item == [kind |-> "fault", n |-> cur, refs |-> list_case[rep[cur].dev].fires]
<1>1. cur \in 1 .. Len(rep) /\ cur \in Ereports /\ rep[cur].dev \in Dev
  BY TemplateParts DEF Arrival
<1>2. cur \in Pending
  BY PendingHas DEF PendingAre
<1>3. list_case[rep[cur].dev] \in Case
  BY <1>1, <1>2 DEF CaseInv, CaseAlive, TypeOK
<1>4. item \in Item /\ item.n = cur /\ item.kind = "fault" /\ PutToAgents(item)
  BY <1>1, <1>3 DEF Item, Case
<1> HIDE DEF item
<1>5. Queued' /\ aring' \in [Agent -> Seq(Item)] /\ \A a \in Agent : Len(aring'[a]) <= RING_SIZE
  BY <1>4, PutQueued
<1>6. TypeOK'
  BY <1>5 DEF TypeOK, memvars
<1>7. Arrival'
  BY DEF Arrival
<1>8. Pending' = Pending
  BY <1>4, <1>6, PutHas, SamePending
<1>9. CaseInv'
  BY <1>8, SameCases DEF memvars
<1>10. RecordInv'
  BY <1>4, PutHas, SameRecords DEF memvars, Faulty
<1>11. QED
  BY <1>5, <1>6, <1>7, <1>9, <1>10

LEMMA ForwardInv == ASSUME Inv, Forward PROVE Inv'
<1> USE DEF Inv, Forward
<1> DEFINE item == [kind |-> "ereport", n |-> cur, refs |-> 0]
<1>1. cur \in 1 .. Len(rep) /\ cur \in Ereports
  BY TemplateParts DEF Arrival
<1>2. item \in Item /\ item.n = cur /\ item.kind = "ereport" /\ PutToAgents(item)
  BY <1>1, Sizes DEF Item
<1> HIDE DEF item
<1>3. Queued' /\ aring' \in [Agent -> Seq(Item)] /\ \A a \in Agent : Len(aring'[a]) <= RING_SIZE
  BY <1>2, PutQueued
<1>4. TypeOK'
  BY <1>3, Sizes DEF TypeOK, memvars
<1>5. Arrival'
  BY DEF Arrival
<1>6. /\ \A n : n \in Pending <=> n = cur \/ Has("ereport", n)
      /\ \A n : n \in Pending' <=> Has("ereport", n)'
  BY <1>4, PendingHas, PendingHasNext DEF PendingAre
<1>7. Pending' \subseteq Pending /\ \A n \in Pending \ Pending' : Sub[rep[n].cls] = NONE
  BY <1>2, <1>6, PutHas
<1>8. CaseInv'
  BY <1>7, DroppedCases DEF memvars
<1>9. RecordInv'
  BY <1>2, PutHas, SameRecords DEF memvars, Faulty
<1>10. QED
  BY <1>3, <1>4, <1>5, <1>8, <1>9

\* Only the handlers of cpumem fail to isolate, and they answer faults only.
LEMMA AnswersKind ==
  ASSUME NEW item \in Item, NEW res \in Answers(item)
  PROVE  /\ res \in Result
         /\ res = "ISOLATED_FAILED" => ByCpumem(item.n)
         /\ ByCpumem(item.n) => item.kind = "fault"
<1> DEFINE h == Handler[rep[item.n].cls]
<1>1. CASE h \in CpumemHandler
  <2>1. res \in CpumemAnswers(item)
    BY <1>1 DEF Answers, CpumemHandler, DiskHandler
  <2>2. item.kind # "ereport"
    BY <2>1 DEF CpumemAnswers
  <2>3. res \in CpumemResult(h, item.refs) \cup {"REPAIRED_MANUAL", "ZERO"}
    BY <2>1, <2>2 DEF CpumemAnswers
  <2>4. CpumemResult(h, item.refs) \subseteq Result
    <3>1. CacheResult(item.refs) \subseteq Result
      BY DEF CacheResult, Result, Failure
    <3>2. QED
      BY <3>1 DEF CpumemResult, QpiResult, MempageResult, Result, Failure
  <2>5. QED
    BY <1>1, <2>2, <2>3, <2>4 DEF Item, ByCpumem, Result, Failure
<1>2. CASE h \notin CpumemHandler /\ h \in DiskHandler
  <2>1. res \in DiskAnswers(item)
    BY <1>2 DEF Answers
  <2>2. res \in {"ZERO", "REPAIRED_SUCCESS", "REPAIRED_FAILED"}
    BY <2>1 DEF DiskAnswers, DiskResult
  <2>3. QED
    BY <1>2, <2>2 DEF ByCpumem, Result, Failure
<1>3. CASE h \notin CpumemHandler /\ h \notin DiskHandler
  <2>1. res \in TraceAnswers(item)
    BY <1>3 DEF Answers
  <2>2. QED
    BY <1>3, <2>1 DEF TraceAnswers, ByCpumem, Result, Failure
<1>4. QED
  BY <1>1, <1>2, <1>3

\* Counting.
LEMMA EreportsFinite ==
  ASSUME NEW S, S \subseteq Ereports
  PROVE  IsFiniteSet(S) /\ Cardinality(S) \in 0 .. MaxEreports
<1>1. IsFiniteSet(Ereports) /\ Cardinality(Ereports) = MaxEreports
  BY Sizes, FS_Interval DEF Ereports
<1>2. IsFiniteSet(S) /\ Cardinality(S) <= Cardinality(Ereports)
  BY <1>1, FS_Subset
<1>3. Cardinality(S) \in Nat
  BY <1>2, FS_CardinalityType
<1>4. QED
  BY <1>1, <1>2, <1>3, Sizes

LEMMA PendingDev ==
  ASSUME Inv, NEW n \in Pending
  PROVE  n \in 1 .. Len(rep) /\ n \in Ereports /\ rep[n].dev \in Dev /\ p_case[n] # 0
<1> USE DEF Inv
<1>1. (dpc \in {"fire", "forward"} /\ n = cur) \/ Has("ereport", n)
  BY PendingHas DEF PendingAre
<1>2. CASE dpc \in {"fire", "forward"} /\ n = cur
  BY <1>2, TemplateParts DEF Arrival
<1>3. CASE Has("ereport", n)
  <2>1. n \in Ereports /\ p_case[n] # 0
    BY <1>3, AtType DEF Has, Is, Queued, Item
  <2>2. QED
    BY <2>1, InCase, TemplateParts
<1>4. QED
  BY <1>1, <1>2, <1>3

\* An ereport that is on its way is handled: the case it belongs to has one
\* user less.
LEMMA HandledCases ==
  ASSUME Inv, NEW n \in Pending, Sub[rep[n].cls] # NONE,
         Pending' = Pending \ {n}, UNCHANGED <<rep, p_case, age, evfreed>>,
         list_case' = [list_case EXCEPT ![rep[n].dev].using = @ - 1]
  PROVE  CaseInv' /\ list_case' \in [Dev -> Case \cup {NONE}]
<1> USE DEF Inv, CaseInv
<1> DEFINE d == rep[n].dev
           c == list_case[d]
           u == Cardinality(Used(c.cid))
<1>1. c # NONE /\ c.cid = p_case[n]
  BY DEF CaseAlive
<1>2. p_case[n] # 0 /\ n \in 1 .. Len(rep) /\ d \in Dev
  BY PendingDev
<1>3. c \in Case /\ list_case \in [Dev -> Case \cup {NONE}]
  BY <1>1, <1>2 DEF TypeOK
<1>4. n \in Used(c.cid) /\ Used(c.cid)' = Used(c.cid) \ {n}
  BY <1>1, PendingDev DEF Used
<1>5. IsFiniteSet(Used(c.cid)) /\ u \in 0 .. MaxEreports /\ Used(c.cid) \subseteq Ereports
  BY EreportsFinite DEF Used
<1>6. c.using = u /\ Cardinality(Used(c.cid) \ {n}) = u - 1 /\ u - 1 \in 0 .. MaxEreports
  <2>1. c.using = u
    BY <1>1, <1>2, UsedCounts DEF CountedBy
  <2>2. Cardinality(Used(c.cid) \ {n}) = u - 1
    BY <1>4, <1>5, FS_RemoveElement
  <2>3. Cardinality(Used(c.cid) \ {n}) \in 0 .. MaxEreports
    BY <1>5, EreportsFinite
  <2>4. QED
    BY <2>1, <2>2, <2>3
<1>7. [c EXCEPT !.using = @ - 1] \in Case
  BY <1>3, <1>6 DEF Case
<1>8. list_case' \in [Dev -> Case \cup {NONE}]
  BY <1>3, <1>7
<1>9. /\ \A x \in Dev \ {d} : list_case'[x] = list_case[x]
      /\ list_case'[d] = [c EXCEPT !.using = u - 1] /\ list_case'[d] # NONE
  BY <1>2, <1>3, <1>6, <1>7, NoneAssumption
<1>10. /\ \A x \in Dev : list_case'[x] # NONE <=> list_case[x] # NONE
       /\ \A x \in Dev : list_case[x] # NONE => /\ list_case'[x].cid = list_case[x].cid
                                               /\ list_case'[x].events = list_case[x].events
                                               /\ list_case'[x].fires = list_case[x].fires
       /\ list_case'[d].using = u - 1
  BY <1>1, <1>3, <1>9 DEF Case
<1>11. Cases' /\ CaseAlive' /\ EventAlive' /\ Counts'
  <2>1. Cases'
    BY <1>10 DEF Cases
  <2>2. CaseAlive'
    BY <1>10, PendingDev DEF CaseAlive
  <2>3. EventAlive'
    BY <1>10 DEF EventAlive
  <2>4. Counts'
    <3>1. \A x : Members(x)' = Members(x) /\ \A m : Since(x, m)' = Since(x, m)
      BY DEF Members, Since
    <3>2. QED
      BY <1>10, <3>1 DEF Counts
  <2>5. QED
    BY <2>1, <2>2, <2>3, <2>4
<1>12. ASSUME NEW x \in Dev, list_case[x] # NONE
       PROVE  list_case'[x].using = Cardinality(Used(list_case[x].cid)')
  <2>1. CASE x = d
    BY <1>4, <1>6, <1>10, <2>1
  <2>2. CASE x # d
    <3>1. list_case[x].cid # p_case[n]
      BY <1>1, <1>2, <1>12, <2>2 DEF Cases
    <3>2. Used(list_case[x].cid)' = Used(list_case[x].cid)
      BY <3>1 DEF Used
    <3>3. QED
      BY <1>9, <1>12, <2>2, <3>2, UsedCounts DEF CountedBy
  <2>3. QED
    BY <2>1, <2>2
<1>13. UsingExact'
  <2>1. CountedBy'
    BY <1>10, <1>12 DEF CountedBy, Used
  <2>2. QED
    BY <2>1, UsedCounts
<1>14. QED
  BY <1>8, <1>11, <1>13

LEMMA HandleCases ==
  ASSUME Inv, NEW a \in Agent, Handle(a)
  PROVE  CaseInv' /\ list_case' \in [Dev -> Case \cup {NONE}]
<1> USE DEF Inv
<1>1. hand[a] \in Item /\ hand[a] # NONE /\ UNCHANGED <<rep, p_case, age, dpc, cur, evfreed, aring>>
  BY DEF Handle, TypeOK, memvars
<1> DEFINE n == hand[a].n
<1>2. /\ \A m : m \in Pending <=> (dpc \in {"fire", "forward"} /\ m = cur) \/ Has("ereport", m)
      /\ \A m : m \in Pending' <=> (dpc \in {"fire", "forward"} /\ m = cur) \/ Has("ereport", m)'
  BY <1>1, PendingHas, RingsHaveNext DEF PendingAre, TypeOK
<1>3. /\ 0 \in Places(a) /\ At(a, 0) = hand[a]
      /\ \A k, m : Has(k, m)' <=> Has(k, m) /\ ~ (hand[a].kind = k /\ n = m)
  BY HandlePlaces
<1>4. /\ Sub[rep[n].cls] = a /\ Has(hand[a].kind, n)
      /\ ~ (dpc = "fire" /\ n = cur) /\ ~ (dpc = "forward" /\ n = cur /\ hand[a].kind = "ereport")
  BY <1>1, <1>3 DEF Queued, Has, Is
<1>5. CASE hand[a].kind = "fault"
  <2>1. list_case' = list_case
    BY <1>5 DEF Handle, Release
  <2>2. Pending' = Pending
    <3>1. \A m : m \in Pending' <=> m \in Pending
      BY <1>2, <1>3, <1>5
    <3>2. QED
      BY <3>1
  <2>3. QED
    BY <1>1, <2>1, <2>2, SameCases DEF TypeOK
<1>6. CASE hand[a].kind = "ereport"
  <2>1. n \in Pending
    BY <1>2, <1>4, <1>6
  <2>2. Pending' = Pending \ {n}
    <3>1. \A m : m \in Pending' <=> m \in Pending /\ m # n
      BY <1>2, <1>3, <1>4, <1>6
    <3>2. QED
      BY <3>1
  <2>3. list_case[rep[n].dev] # NONE /\ list_case[rep[n].dev].cid = p_case[n]
    BY <2>1 DEF CaseInv, CaseAlive
  <2>4. list_case' = [list_case EXCEPT ![rep[n].dev].using = @ - 1]
    BY <1>6, <2>3 DEF Handle, Release
  <2>5. Sub[rep[n].cls] # NONE
    BY <1>4, CoreAssumption
  <2>6. QED
    BY <1>1, <2>1, <2>2, <2>4, <2>5, HandledCases
<1>7. QED
  BY <1>1, <1>5, <1>6 DEF Item

LEMMA HandleRecords ==
  ASSUME Inv, NEW a \in Agent, Handle(a)
  PROVE  RecordInv' /\ out' \in [Agent -> Record \cup {NONE}]
<1> USE DEF Inv
<1>1. hand[a] \in Item /\ hand[a] # NONE
      /\ UNCHANGED <<rep, p_case, dpc, cur, repaired, datafrees, aring>>
      /\ out \in [Agent -> Record \cup {NONE}]
  BY DEF Handle, TypeOK, memvars
<1>0. PICK n : n = hand[a].n
  OBVIOUS
<1>2. /\ 0 \in Places(a) /\ At(a, 0) = hand[a]
      /\ \A k, m : Has(k, m)' <=> Has(k, m) /\ ~ (hand[a].kind = k /\ n = m)
  BY <1>0, HandlePlaces
<1>3. /\ Sub[rep[n].cls] = a /\ p_case[n] # 0 /\ Has(hand[a].kind, n) /\ ~ (dpc = "fire" /\ n = cur)
      /\ n \in Ereports
  BY <1>0, <1>1, <1>2 DEF Queued, Has, Is, Item
<1>4. \A m : Faulty(m)' => Faulty(m) /\ ~ (hand[a].kind = "fault" /\ n = m)
  BY <1>1, <1>2, <1>3 DEF Faulty
<1>5. CASE UNCHANGED out
  BY <1>1, <1>4, <1>5, SameRecords
<1>6. ASSUME NEW res \in Answers(hand[a]), out' = [out EXCEPT ![a] = ListEvent(hand[a], res)]
      PROVE  RecordInv' /\ out' \in [Agent -> Record \cup {NONE}]
  <2> DEFINE r == ListEvent(hand[a], res)
  <2>1. /\ res \in Result /\ (res = "ISOLATED_FAILED" => ByCpumem(n))
        /\ ByCpumem(n) => hand[a].kind = "fault"
    BY <1>0, <1>1, <1>6, AnswersKind
  <2>2. r \in Record /\ r.data = n /\ r.result = res
    <3>1. rep[n] \in [dev : Dev, id : Id, cls : Class]
      BY <1>3, InCase, TemplateParts
    <3>2. QED
      BY <1>0, <1>1, <2>1, <3>1, Sizes DEF ListEvent, Record, Item
  <2> HIDE DEF r
  <2>3. out' \in [Agent -> Record \cup {NONE}]
    BY <1>1, <1>6, <2>2 DEF r
  <2>4. out'[a] = r /\ \A b \in Agent \ {a} : out'[b] = out[b]
    BY <1>1, <1>6 DEF r
  <2>5. \A m : Answered(m)' => Answered(m) \/ m = n
    BY <2>2, <2>4 DEF Answered
  <2>6. \A b \in Agent : out'[b] # NONE => RecordFrom(out[b])' /\ Sub[rep'[out'[b].data].cls] = b
    BY <1>1, <1>3, <2>1, <2>2, <2>4 DEF RecordInv, Data, RecordFrom, ByCpumem
  <2>7. ByCpumem(n) => Faulty(n) /\ ~Faulty(n)'
    BY <1>3, <1>4, <2>1 DEF Faulty
  <2>8. \A m \in Ereports : (Recorded(m)' <=> Recorded(m)) /\ (ByCpumem(m)' <=> ByCpumem(m))
    BY <1>1 DEF Recorded, ByCpumem
  <2>9. ASSUME NEW m \in Ereports
        PROVE  /\ datafrees'[m] <= 1
               /\ datafrees'[m] # 0 => p_case'[m] # 0 /\ ByCpumem(m)'
               /\ Recorded(m)' /\ ByCpumem(m)' => datafrees'[m] = 0
               /\ Answered(m)' /\ ByCpumem(m)' => datafrees'[m] = 0 /\ ~Recorded(m)'
               /\ Faulty(m)' /\ ByCpumem(m)' =>
                    datafrees'[m] = 0 /\ ~Recorded(m)' /\ ~Answered(m)'
    BY <1>1, <1>3, <1>4, <2>5, <2>7, <2>8 DEF RecordInv, Data
  <2>10. /\ \A i \in DOMAIN repaired' : RecordFrom(repaired[i])'
         /\ \A i, j \in DOMAIN repaired' :
              ByCpumem(repaired[i].data)' /\ repaired'[i].data = repaired'[j].data => i = j
    BY <1>1 DEF RecordInv, Data, RecordFrom, ByCpumem
  <2>11. Data'
    BY <2>6, <2>9, <2>10 DEF Data, RecordFrom, ByCpumem
  <2>12. QED
    BY <1>1, <2>3, <2>11 DEF RecordInv, RecordUnique
<1>7. QED
  BY <1>1, <1>5, <1>6 DEF Handle

LEMMA HandleInv == ASSUME Inv, NEW a \in Agent, Handle(a) PROVE Inv'
<1>1. TypeOK'
  <2>1. hand' \in [Agent -> Item \cup {NONE}]
    BY DEF Inv, TypeOK, Handle
  <2>2. QED
    BY <2>1, HandleCases, HandleRecords DEF Inv, TypeOK, Handle, memvars
<1>2. Arrival'
  BY DEF Inv, Handle, Arrival
<1>3. Queued'
  <2>1. /\ \A b \in Agent : Places(b)' = Places(b)
        /\ At(a, 0)' = NONE
        /\ \A b \in Agent : \A i \in Places(b) : At(b, i)' = At(b, i) \/ (b = a /\ i = 0)
    BY HandlePlaces DEF Inv
  <2>2. \A b \in Agent : \A i \in Places(b)' : At(b, i)' # NONE => At(b, i)' = At(b, i)
    BY <2>1
  <2>3. UNCHANGED <<rep, p_case, dpc, cur>>
    BY DEF Handle
  <2>4. ASSUME NEW b \in Agent, NEW i \in Places(b)', At(b, i)' # NONE
        PROVE  /\ Sub[rep'[At(b, i)'.n].cls] = b
               /\ p_case'[At(b, i)'.n] # 0
               /\ ~ (dpc' = "fire" /\ At(b, i)'.n = cur')
               /\ ~ (dpc' = "forward" /\ At(b, i)'.n = cur' /\ At(b, i)'.kind = "ereport")
               /\ \A j \in Places(b)' : Is(At(b, j)', At(b, i)'.kind, At(b, i)'.n) => i = j
    <3>1. At(b, i)' = At(b, i) /\ i \in Places(b)
      BY <2>1, <2>2, <2>4
    <3>2. \A j \in Places(b)' : Is(At(b, j)', At(b, i)'.kind, At(b, i)'.n) => i = j
      BY <2>1, <2>2, <2>4, <3>1 DEF Inv, Queued, Is
    <3>3. QED
      BY <2>3, <2>4, <3>1, <3>2 DEF Inv, Queued
  <2>5. QED
    BY <2>4 DEF Queued, Is
<1>4. QED
  BY <1>1, <1>2, <1>3, HandleCases, HandleRecords DEF Inv

LEMMA IsSeq ==
  ASSUME NEW S, NEW f, NEW n \in Nat, f \in [1 .. n -> S]
  PROVE  f \in Seq(S) /\ Len(f) = n
<1>1. f \in Seq(S)
  BY SeqDef
<1>2. DOMAIN f = 1 .. Len(f) /\ Len(f) \in Nat
  BY <1>1
<1>3. 1 .. Len(f) = 1 .. n
  BY <1>2
<1>4. QED
  BY <1>1, <1>2, <1>3

\* agent_ring_put: a new record for a new fault, else only age and count of
\* one of the records change.
LEMMA RingPutParts ==
  ASSUME NEW list \in Seq(Record), NEW new \in Record
  PROVE  /\ RingPut(list, new) \in Seq(Record)
         /\ \/ /\ RingPut(list, new) = Append(list, new)
               /\ \A i \in 1 .. Len(list) : ~SameRecord(list[i], new)
            \/ /\ Len(RingPut(list, new)) = Len(list)
               /\ \A i \in 1 .. Len(list) :
                    LET r == RingPut(list, new)[i]
                    IN /\ r.dev = list[i].dev /\ r.id = list[i].id
                       /\ r.result = list[i].result /\ r.data = list[i].data
<1> DEFINE same == {i \in DOMAIN list : SameRecord(list[i], new)}
<1>1. CASE same = {}
  <2>1. RingPut(list, new) = Append(list, new)
    BY <1>1 DEF RingPut
  <2>2. QED
    BY <1>1, <2>1
<1>2. CASE same # {}
  <2>1. PICK k : RingPut(list, new) =
                   [list EXCEPT ![k] = [@ EXCEPT !.age = new.age, !.refs = new.refs]]
    BY <1>2, Zenon DEF RingPut
  <2> DEFINE e == [list[k] EXCEPT !.age = new.age, !.refs = new.refs]
  <2>2. RingPut(list, new) = [list EXCEPT ![k] = e]
    BY <2>1
  <2>3. Len(list) \in Nat /\ list \in [1 .. Len(list) -> Record]
    OBVIOUS
  <2>4. CASE k \in 1 .. Len(list)
    <3>1. /\ e \in Record /\ e.dev = list[k].dev /\ e.id = list[k].id
          /\ e.result = list[k].result /\ e.data = list[k].data
      <4>1. list[k] \in Record
        BY <2>4
      <4>2. QED
        BY <4>1 DEF Record
    <3> HIDE DEF e
    <3>2. /\ RingPut(list, new) \in Seq(Record) /\ Len(RingPut(list, new)) = Len(list)
          /\ \A i \in 1 .. Len(list) : RingPut(list, new)[i] = IF i = k THEN e ELSE list[i]
      BY <2>2, <2>4, <3>1, ExceptSeq
    <3>3. QED
      BY <3>1, <3>2
  <2>5. CASE k \notin 1 .. Len(list)
    <3> HIDE DEF e
    <3>1. RingPut(list, new) = list
      BY <2>2, <2>3, <2>5
    <3>2. QED
      BY <3>1
  <2>6. QED
    BY <2>4, <2>5
<1>3. QED
  BY <1>1, <1>2

LEMMA AgentRingPutInv == ASSUME Inv, NEW a \in Agent, AgentRingPut(a) PROVE Inv'
<1> USE DEF Inv
<1>1. /\ out \in [Agent -> Record \cup {NONE}] /\ out[a] # NONE /\ repaired \in Seq(Record)
      /\ repaired' = RingPut(repaired, out[a]) /\ out' = [out EXCEPT ![a] = NONE]
      /\ UNCHANGED <<rep, p_case, dpc, cur, datafrees, aring, hand, list_case, age, evfreed>>
  BY DEF AgentRingPut, TypeOK, memvars
<1>2. PICK new \in Record : new = out[a]
  BY <1>1
<1>3. repaired' \in Seq(Record)
  BY <1>1, <1>2, RingPutParts
<1>4. TypeOK'
  <2>1. out' \in [Agent -> Record \cup {NONE}]
    BY <1>1
  <2>2. QED
    BY <1>3, <2>1 DEF TypeOK, AgentRingPut, memvars
<1>5. Arrival' /\ Queued'
  BY <1>1, SamePlaces DEF Arrival, Queued, Is, AgentRingPut
<1>6. CaseInv'
  BY <1>1, <1>4, SamePending, SamePlaces, SameCases
<1>7. /\ \A n : (ByCpumem(n)' <=> ByCpumem(n)) /\ (Faulty(n)' <=> Faulty(n))
      /\ \A n : Answered(n)' => Answered(n)
  BY <1>1, SamePlaces DEF ByCpumem, Faulty, Answered
<1>8. /\ new.data \in Ereports /\ RecordFrom(new) /\ Sub[rep[new.data].cls] = a
      /\ Answered(new.data) /\ ~Answered(new.data)'
  BY <1>1, <1>2 DEF RecordInv, Data, Answered, Record
<1>9. CASE /\ repaired' = Append(repaired, new)
           /\ \A i \in 1 .. Len(repaired) : ~SameRecord(repaired[i], new)
  <2>1. /\ DOMAIN repaired' = DOMAIN repaired \cup {Len(repaired) + 1} /\ Len(repaired) \in Nat
        /\ DOMAIN repaired = 1 .. Len(repaired)
        /\ repaired'[Len(repaired) + 1] = new /\ \A i \in DOMAIN repaired : repaired'[i] = repaired[i]
    BY <1>1, <1>9
  <2>2. \A n : Recorded(n)' => Recorded(n) \/ n = new.data
    BY <2>1 DEF Recorded
  <2>3. ASSUME NEW n \in Ereports
        PROVE  /\ datafrees'[n] <= 1
               /\ datafrees'[n] # 0 => p_case'[n] # 0 /\ ByCpumem(n)'
               /\ Recorded(n)' /\ ByCpumem(n)' => datafrees'[n] = 0
               /\ Answered(n)' /\ ByCpumem(n)' => datafrees'[n] = 0 /\ ~Recorded(n)'
               /\ Faulty(n)' /\ ByCpumem(n)' =>
                    datafrees'[n] = 0 /\ ~Recorded(n)' /\ ~Answered(n)'
    BY <1>1, <1>7, <1>8, <2>2 DEF RecordInv, Data
  <2>4. \A b \in Agent : out'[b] # NONE => RecordFrom(out[b])' /\ Sub[rep'[out'[b].data].cls] = b
    BY <1>1 DEF RecordInv, Data, RecordFrom, ByCpumem
  <2>5. \A i \in DOMAIN repaired' : RecordFrom(repaired[i])'
    BY <1>1, <1>8, <2>1 DEF RecordInv, Data, RecordFrom, ByCpumem
  <2>6. ByCpumem(new.data) => \A i \in DOMAIN repaired : repaired[i].data # new.data
    BY <1>8 DEF RecordInv, Data, Recorded
  <2>7. \A i, j \in DOMAIN repaired' :
          ByCpumem(repaired[i].data)' /\ repaired'[i].data = repaired'[j].data => i = j
    BY <1>1, <2>1, <2>6 DEF RecordInv, Data, ByCpumem
  <2>8. Data'
    BY <2>3, <2>4, <2>5, <2>7 DEF Data
  <2>9. <<new.dev, new.dev>> \in Begins
    BY CoreAssumption DEF Record
  <2>10. RecordUnique'
    BY <1>9, <2>1, <2>9 DEF RecordInv, RecordUnique, SameRecord
  <2>11. QED
    BY <1>4, <1>5, <1>6, <2>8, <2>10 DEF RecordInv
<1>10. CASE /\ Len(repaired') = Len(repaired)
            /\ \A i \in 1 .. Len(repaired) :
                 /\ repaired'[i].dev = repaired[i].dev /\ repaired'[i].id = repaired[i].id
                 /\ repaired'[i].result = repaired[i].result /\ repaired'[i].data = repaired[i].data
  <2>1. DOMAIN repaired' = 1 .. Len(repaired) /\ DOMAIN repaired = 1 .. Len(repaired)
    BY <1>1, <1>3, <1>10
  <2>2. \A n : Recorded(n)' <=> Recorded(n)
    BY <1>10, <2>1 DEF Recorded
  <2>3. ASSUME NEW n \in Ereports
        PROVE  /\ datafrees'[n] <= 1
               /\ datafrees'[n] # 0 => p_case'[n] # 0 /\ ByCpumem(n)'
               /\ Recorded(n)' /\ ByCpumem(n)' => datafrees'[n] = 0
               /\ Answered(n)' /\ ByCpumem(n)' => datafrees'[n] = 0 /\ ~Recorded(n)'
               /\ Faulty(n)' /\ ByCpumem(n)' =>
                    datafrees'[n] = 0 /\ ~Recorded(n)' /\ ~Answered(n)'
    BY <1>1, <1>7, <2>2 DEF RecordInv, Data
  <2>4. \A b \in Agent : out'[b] # NONE => RecordFrom(out[b])' /\ Sub[rep'[out'[b].data].cls] = b
    BY <1>1 DEF RecordInv, Data, RecordFrom, ByCpumem
  <2>5. \A i \in DOMAIN repaired' : RecordFrom(repaired[i])'
    BY <1>1, <1>10, <2>1 DEF RecordInv, Data, RecordFrom, ByCpumem
  <2>6. \A i, j \in DOMAIN repaired' :
          ByCpumem(repaired[i].data)' /\ repaired'[i].data = repaired'[j].data => i = j
    BY <1>1, <1>10, <2>1 DEF RecordInv, Data, ByCpumem
  <2>7. Data'
    BY <2>3, <2>4, <2>5, <2>6 DEF Data
  <2>8. RecordUnique'
    BY <1>10, <2>1 DEF RecordInv, RecordUnique
  <2>9. QED
    BY <1>4, <1>5, <1>6, <2>7, <2>8 DEF RecordInv
<1>11. QED
  BY <1>1, <1>2, <1>9, <1>10, RingPutParts

\* Data' and RecordUnique' when answers and records stay but for their ages.
LEMMA AgedRecords ==
  ASSUME RecordInv, UNCHANGED <<rep, p_case, datafrees>>,
         DOMAIN repaired' = DOMAIN repaired,
         \A i \in DOMAIN repaired :
           /\ repaired'[i].dev = repaired[i].dev /\ repaired'[i].id = repaired[i].id
           /\ repaired'[i].result = repaired[i].result /\ repaired'[i].data = repaired[i].data,
         \A a \in Agent : out'[a] # NONE =>
           out[a] # NONE /\ out'[a].data = out[a].data /\ out'[a].result = out[a].result,
         \A n \in Ereports : Faulty(n)' => Faulty(n)
  PROVE  RecordInv'
<1>1. \A n : (Recorded(n)' => Recorded(n)) /\ (Answered(n)' => Answered(n))
             /\ (ByCpumem(n)' <=> ByCpumem(n))
  BY DEF Recorded, Answered, ByCpumem
<1>2. ASSUME NEW n \in Ereports
      PROVE  /\ datafrees'[n] <= 1
             /\ datafrees'[n] # 0 => p_case'[n] # 0 /\ ByCpumem(n)'
             /\ Recorded(n)' /\ ByCpumem(n)' => datafrees'[n] = 0
             /\ Answered(n)' /\ ByCpumem(n)' => datafrees'[n] = 0 /\ ~Recorded(n)'
             /\ Faulty(n)' /\ ByCpumem(n)' =>
                  datafrees'[n] = 0 /\ ~Recorded(n)' /\ ~Answered(n)'
  BY <1>1 DEF RecordInv, Data
<1>3. \A b \in Agent : out'[b] # NONE => RecordFrom(out[b])' /\ Sub[rep'[out'[b].data].cls] = b
  BY DEF RecordInv, Data, RecordFrom, ByCpumem
<1>4. \A i \in DOMAIN repaired' : RecordFrom(repaired[i])'
  BY DEF RecordInv, Data, RecordFrom, ByCpumem
<1>5. \A i, j \in DOMAIN repaired' :
        ByCpumem(repaired[i].data)' /\ repaired'[i].data = repaired'[j].data => i = j
  BY DEF RecordInv, Data, ByCpumem
<1>6. Data'
  BY <1>2, <1>3, <1>4, <1>5 DEF Data
<1>7. RecordUnique'
  BY DEF RecordInv, RecordUnique
<1>8. QED
  BY <1>6, <1>7 DEF RecordInv

LEMMA OlderRecord ==
  ASSUME NEW r \in Record
  PROVE  LET o == [r EXCEPT !.age = Older(@)]
         IN /\ o \in Record /\ o.dev = r.dev /\ o.id = r.id /\ o.result = r.result
            /\ o.data = r.data
<1>1. Older(r.age) \in 0 .. AgeCap
  BY Sizes DEF Older, Record
<1>2. QED
  BY <1>1 DEF Record

LEMMA TickInv == ASSUME Inv, Tick PROVE Inv'
<1> USE DEF Inv
<1>1. UNCHANGED <<rep, ring, list_case, p_case, dpc, cur, round, pos, aring, hand, memvars>>
  BY DEF Tick
<1>2. repaired \in Seq(Record) /\ Len(repaired) \in Nat /\ DOMAIN repaired = 1 .. Len(repaired)
      /\ out \in [Agent -> Record \cup {NONE}] /\ age \in [Ereports -> 0 .. AgeCap]
  BY DEF TypeOK
<1>3. /\ repaired' \in [1 .. Len(repaired) -> Record]
      /\ \A i \in DOMAIN repaired :
           /\ repaired'[i].dev = repaired[i].dev /\ repaired'[i].id = repaired[i].id
           /\ repaired'[i].result = repaired[i].result /\ repaired'[i].data = repaired[i].data
  <2>1. repaired' = [i \in 1 .. Len(repaired) |-> [repaired[i] EXCEPT !.age = Older(@)]]
    BY <1>2 DEF Tick
  <2>2. \A i \in 1 .. Len(repaired) : repaired[i] \in Record
    BY <1>2
  <2>3. QED
    BY <1>2, <2>1, <2>2, OlderRecord
<1>4. /\ out' \in [Agent -> Record \cup {NONE}]
      /\ \A a \in Agent : out'[a] # NONE =>
           out[a] # NONE /\ out'[a].data = out[a].data /\ out'[a].result = out[a].result
  <2>1. out' = [a \in Agent |-> IF out[a] = NONE THEN NONE ELSE [out[a] EXCEPT !.age = Older(@)]]
    BY DEF Tick
  <2>2. QED
    BY <1>2, <2>1, OlderRecord
<1>5. age' = [n \in Ereports |-> IF p_case[n] = 0 THEN 0 ELSE Older(age[n])]
  BY DEF Tick
<1>6. age' \in [Ereports -> 0 .. AgeCap]
  BY <1>2, <1>5, Sizes DEF Older
<1>7. TypeOK'
  BY <1>1, <1>2, <1>3, <1>4, <1>6, IsSeq DEF TypeOK, memvars
<1>8. Arrival' /\ Queued'
  BY <1>1, SamePlaces DEF Arrival, Queued, Is
<1>9. Pending' = Pending
  BY <1>1, <1>7, SamePlaces, SamePending
<1>10. RecordInv'
  BY <1>1, <1>2, <1>3, <1>4, AgedRecords, SamePlaces DEF Faulty, memvars
<1>11. Cases' /\ CaseAlive' /\ EventAlive'
  BY <1>1, <1>5, <1>9 DEF CaseInv, Cases, CaseAlive, EventAlive, memvars
<1>12. UsingExact'
  <2>1. \A c : Used(c)' = Used(c)
    BY <1>1, <1>9 DEF Used
  <2>2. QED
    BY <1>1, <2>1, UsedCounts DEF CaseInv, CountedBy
<1>13. Counts'
  <2>1. \A n, m \in Ereports : p_case[n] # 0 /\ p_case[m] # 0 /\ age[n] <= age[m] => age'[n] <= age'[m]
    BY <1>2, <1>5, Sizes DEF Older
  <2>2. ASSUME NEW c \in Ereports, NEW m \in Ereports, p_case[m] # 0
        PROVE  Cardinality(Since(c, m)) <= Cardinality(Since(c, m)') /\ Members(c)' = Members(c)
    <3>1. Members(c)' = Members(c)
      BY <1>1 DEF Members
    <3>2. Since(c, m) \subseteq Since(c, m)'
      BY <1>1, <2>1, <2>2, <3>1, Sizes DEF Since, Members, Ereports
    <3>3. Since(c, m)' \subseteq Ereports
      BY DEF Since, Members
    <3>4. QED
      BY <3>1, <3>2, <3>3, EreportsFinite, FS_Subset
  <2>3. ASSUME NEW d \in Dev, list_case[d] # NONE
        PROVE  /\ list_case[d].fires <= Cardinality(Members(list_case[d].cid)')
               /\ \A e \in list_case[d].events :
                    e.count <= Cardinality(Since(list_case[d].cid, e.n)')
    <3>1. list_case[d] \in Case
      BY <2>3 DEF TypeOK
    <3>2. PICK c \in Ereports : c = list_case[d].cid
      BY <3>1 DEF Case
    <3>3. list_case'[d] = list_case[d]
      BY <1>1
    <3>4. \A e \in list_case[d].events : e.n \in Ereports /\ e.count \in Nat /\ p_case[e.n] # 0
      BY <2>3, <3>1, <3>2, Sizes DEF Case, CaseInv, Cases, Ereports
    <3>5. ASSUME NEW e \in list_case[d].events PROVE e.count <= Cardinality(Since(c, e.n)')
      <4>1. e.count <= Cardinality(Since(c, e.n))
        BY <2>3, <3>2, <3>5 DEF CaseInv, Counts
      <4>2. Cardinality(Since(c, e.n)) \in Nat /\ Cardinality(Since(c, e.n)') \in Nat
        BY EreportsFinite, Sizes DEF Since, Members
      <4>3. QED
        BY <2>2, <3>4, <3>5, <4>1, <4>2
    <3>6. list_case[d].fires <= Cardinality(Members(c)')
      BY <1>1, <2>3, <3>2 DEF CaseInv, Counts, Members
    <3>7. QED
      BY <3>2, <3>3, <3>5, <3>6
  <2>4. QED
    BY <1>1, <2>3 DEF Counts
<1>14. QED
  BY <1>7, <1>8, <1>10, <1>11, <1>12, <1>13 DEF CaseInv

LEMMA RaiseInv == ASSUME Inv, NEW t \in Template, Raise(t) PROVE Inv'
<1> USE DEF Inv
<1>1. /\ UNCHANGED <<list_case, p_case, age, dpc, cur, round, pos, aring, hand, out, repaired, memvars>>
      /\ rep \in Seq(Template) /\ Len(rep) \in Nat /\ Len(rep) < MaxEreports
      /\ ring \in Seq(Ereports) /\ Len(ring) \in Nat /\ Len(ring) < RING_SIZE
      /\ rep' = Append(rep, t) /\ ring' = Append(ring, Len(rep) + 1)
  BY DEF Raise, TypeOK
<1>2. Len(rep) + 1 \in Ereports
  BY <1>1, Sizes DEF Ereports
<1>3. /\ rep' \in Seq(Template) /\ Len(rep') = Len(rep) + 1
      /\ \A n \in 1 .. Len(rep) : rep'[n] = rep[n]
      /\ ring' \in Seq(Ereports) /\ Len(ring') = Len(ring) + 1
      /\ ring'[Len(ring) + 1] = Len(rep) + 1 /\ \A i \in 1 .. Len(ring) : ring'[i] = ring[i]
  BY <1>1, <1>2
<1>4. TypeOK'
  BY <1>1, <1>3, Sizes DEF TypeOK, memvars
<1>5. \A n \in Ereports : p_case[n] # 0 => rep'[n] = rep[n]
  BY <1>3, InCase
<1>6. Arrival'
  <2>1. \A n \in Ereports : n > Len(rep') => p_case'[n] = 0
    BY <1>1, <1>3 DEF Arrival, Ereports
  <2>2. p_case[Len(rep) + 1] = 0
    BY <1>1, <1>2 DEF Arrival
  <2>3. \A i \in 1 .. Len(ring) : ring[i] <= Len(rep) /\ ring[i] \in Ereports
    BY <1>1 DEF Arrival
  <2>4. \A i \in 1 .. Len(ring') : /\ ring'[i] <= Len(rep') /\ p_case'[ring'[i]] = 0
                                   /\ dpc' = "insert" => ring'[i] # cur'
    BY <1>1, <1>3, <2>2, <2>3 DEF Arrival, Ereports
  <2>5. \A i, j \in 1 .. Len(ring') : ring'[i] = ring'[j] => i = j
    BY <1>1, <1>3, <2>3 DEF Arrival, Ereports
  <2>6. dpc' \in {"insert", "fire", "forward"} => cur' \in 1 .. Len(rep')
    BY <1>1, <1>3 DEF Arrival
  <2>7. QED
    BY <1>1, <2>1, <2>4, <2>5, <2>6 DEF Arrival
<1>7. Queued'
  <2>1. \A a \in Agent : \A i \in Places(a) : At(a, i) # NONE =>
          At(a, i).n \in Ereports /\ p_case[At(a, i).n] # 0
    BY AtType DEF Queued, Item
  <2>2. \A a \in Agent : \A i \in Places(a) : At(a, i) # NONE => rep'[At(a, i).n] = rep[At(a, i).n]
    BY <1>5, <2>1
  <2>3. ASSUME NEW a \in Agent, NEW i \in Places(a)', At(a, i)' # NONE
        PROVE  /\ Sub[rep'[At(a, i)'.n].cls] = a
               /\ p_case'[At(a, i)'.n] # 0
               /\ ~ (dpc' = "fire" /\ At(a, i)'.n = cur')
               /\ ~ (dpc' = "forward" /\ At(a, i)'.n = cur' /\ At(a, i)'.kind = "ereport")
               /\ \A j \in Places(a)' : Is(At(a, j)', At(a, i)'.kind, At(a, i)'.n) => i = j
    <3>1. At(a, i)' = At(a, i) /\ Places(a)' = Places(a) /\ \A j : At(a, j)' = At(a, j)
      BY <1>1, SamePlaces
    <3>2. PICK x : x = At(a, i)
      OBVIOUS
    <3>3. /\ Sub[rep[x.n].cls] = a /\ p_case[x.n] # 0 /\ ~ (dpc = "fire" /\ x.n = cur)
          /\ ~ (dpc = "forward" /\ x.n = cur /\ x.kind = "ereport")
          /\ \A j \in Places(a) : Is(At(a, j), x.kind, x.n) => i = j
          /\ rep'[x.n] = rep[x.n]
      BY <2>2, <2>3, <3>1, <3>2 DEF Queued
    <3>4. QED
      BY <1>1, <3>1, <3>2, <3>3
  <2>4. QED
    BY <2>3 DEF Queued, Is
<1>8. Pending' = Pending
  BY <1>1, <1>4, SamePlaces, SamePending
<1>9. Cases' /\ CaseAlive' /\ EventAlive'
  <2>1. \A n \in Ereports : p_case[n] # 0 => p_case[n] \in Ereports
    BY Sizes DEF TypeOK, Ereports
  <2>2. \A d \in Dev : list_case[d] # NONE => list_case[d].cid \in Ereports
    BY DEF TypeOK, Case
  <2>3. Cases'
    <3>1. \A n \in Ereports : p_case[n] # 0 => /\ p_case[p_case[n]] # 0
                                               /\ rep'[p_case[n]].dev = rep'[n].dev
      BY <1>5, <2>1 DEF CaseInv, Cases
    <3>2. \A d \in Dev : list_case[d] # NONE =>
            /\ p_case[list_case[d].cid] # 0 /\ rep'[list_case[d].cid].dev = d
            /\ \A e \in list_case[d].events : p_case[e.n] = list_case[d].cid
      BY <1>5, <2>2 DEF CaseInv, Cases
    <3>3. \A n \in Ereports : p_case[n] = 0 => age[n] = 0 /\ n \notin evfreed
      BY DEF CaseInv, Cases
    <3>4. UNCHANGED <<list_case, p_case, age, evfreed>>
      BY <1>1 DEF memvars
    <3>5. QED
      BY <3>1, <3>2, <3>3, <3>4 DEF Cases
  <2>4. \A n \in Pending : rep'[n] = rep[n]
    BY <1>5, PendingDev
  <2>5. CaseAlive' /\ EventAlive'
    BY <1>1, <1>8, <2>4 DEF CaseInv, CaseAlive, EventAlive, memvars
  <2>6. QED
    BY <2>3, <2>5
<1>10. UsingExact' /\ Counts'
  <2>1. \A c \in Ereports : Used(c)' = Used(c) /\ Members(c)' = Members(c)
    <3>1. \A c \in Ereports : c # 0
      BY Sizes DEF Ereports
    <3>2. QED
      BY <1>1, <1>5, <1>8, <3>1 DEF Used, Members
  <2>2. \A c \in Ereports, m \in Ereports : p_case[m] # 0 => Since(c, m)' = Since(c, m)
    <3>1. \A c \in Ereports : c # 0
      BY Sizes DEF Ereports
    <3>2. QED
      BY <1>1, <1>5, <2>1, <3>1 DEF Since, Members
  <2>3. \A d \in Dev : list_case[d] # NONE =>
          /\ list_case[d].cid \in Ereports
          /\ \A e \in list_case[d].events : e.n \in Ereports /\ p_case[e.n] # 0
    <3>1. \A d \in Dev : list_case[d] # NONE => list_case[d] \in Case
      BY DEF TypeOK
    <3>2. \A c \in Ereports : c # 0
      BY Sizes DEF Ereports
    <3>3. QED
      BY <3>1, <3>2 DEF Case, CaseInv, Cases
  <2>4. UsingExact'
    BY <1>1, <2>1, <2>3, UsedCounts DEF CaseInv, CountedBy
  <2>5. Counts'
    BY <1>1, <2>1, <2>2, <2>3 DEF CaseInv, Counts
  <2>6. QED
    BY <2>4, <2>5
<1>11. RecordInv'
  <2>1. \A n \in Ereports : p_case[n] # 0 => (ByCpumem(n)' <=> ByCpumem(n))
    BY <1>5 DEF ByCpumem
  <2>2. \A n \in Ereports : /\ Recorded(n)' <=> Recorded(n)
                            /\ Answered(n)' <=> Answered(n)
                            /\ Faulty(n)' <=> Faulty(n)
    BY <1>1, SamePlaces DEF Recorded, Answered, Faulty
  <2>3. \A n \in Ereports : Recorded(n) \/ Answered(n) \/ Faulty(n) => p_case[n] # 0
    <3>1. \A n \in Ereports : Recorded(n) \/ Answered(n) => p_case[n] # 0
      BY DEF Recorded, Answered, RecordInv, Data, RecordFrom
    <3>2. \A n \in Ereports : Faulty(n) => p_case[n] # 0
      BY DEF Faulty, Has, Is, Queued, Arrival
    <3>3. QED
      BY <3>1, <3>2
  <2>4. ASSUME NEW n \in Ereports
        PROVE  /\ datafrees'[n] <= 1
               /\ datafrees'[n] # 0 => p_case'[n] # 0 /\ ByCpumem(n)'
               /\ Recorded(n)' /\ ByCpumem(n)' => datafrees'[n] = 0
               /\ Answered(n)' /\ ByCpumem(n)' => datafrees'[n] = 0 /\ ~Recorded(n)'
               /\ Faulty(n)' /\ ByCpumem(n)' =>
                    datafrees'[n] = 0 /\ ~Recorded(n)' /\ ~Answered(n)'
    BY <1>1, <2>1, <2>2, <2>3 DEF RecordInv, Data, memvars
  <2>5. /\ \A a \in Agent : out[a] # NONE => out[a].data \in Ereports /\ p_case[out[a].data] # 0
        /\ \A i \in DOMAIN repaired : repaired[i].data \in Ereports /\ p_case[repaired[i].data] # 0
    <3>1. \A i \in DOMAIN repaired : repaired[i] \in Record
      BY DEF TypeOK
    <3>2. \A a \in Agent : out[a] # NONE => out[a] \in Record
      BY DEF TypeOK
    <3>3. QED
      BY <3>1, <3>2 DEF Record, RecordInv, Data, RecordFrom
  <2>6. ASSUME NEW b \in Agent, out'[b] # NONE
        PROVE  RecordFrom(out[b])' /\ Sub[rep'[out'[b].data].cls] = b
    <3>1. /\ out' = out /\ p_case' = p_case /\ RecordFrom(out[b]) /\ Sub[rep[out[b].data].cls] = b
          /\ rep'[out[b].data] = rep[out[b].data]
      BY <1>1, <1>5, <2>5, <2>6 DEF RecordInv, Data
    <3>2. QED
      BY <3>1 DEF RecordFrom, ByCpumem
  <2>7. ASSUME NEW i \in DOMAIN repaired' PROVE RecordFrom(repaired[i])'
    <3>1. /\ repaired' = repaired /\ p_case' = p_case /\ RecordFrom(repaired[i])
          /\ rep'[repaired[i].data] = rep[repaired[i].data]
      BY <1>1, <1>5, <2>5, <2>7 DEF RecordInv, Data
    <3>2. QED
      BY <3>1 DEF RecordFrom, ByCpumem
  <2>8. \A i, j \in DOMAIN repaired' :
          ByCpumem(repaired[i].data)' /\ repaired'[i].data = repaired'[j].data => i = j
    BY <1>1, <1>5, <2>5 DEF RecordInv, Data, ByCpumem
  <2>9. Data'
    BY <2>4, <2>6, <2>7, <2>8 DEF Data
  <2>10. QED
    BY <1>1, <2>9 DEF RecordInv, RecordUnique
<1>12. QED
  BY <1>4, <1>6, <1>7, <1>9, <1>10, <1>11 DEF CaseInv

-----------------------------------------------------------------------------
(***************************************************************************)
(* fmd_case_insert.  Ereport cur of device d joins case c, a new one when  *)
(* d had none; s is the event it is counted by, in place of hit, and f the *)
(* fire count of the case after it.                                        *)
(***************************************************************************)
Insertion(d, c, hit, s, f) ==
  /\ d = rep[cur].dev
  /\ c = IF list_case[d] = NONE THEN NewCase(cur) ELSE list_case[d]
  /\ hit = {e \in c.events : rep[e.n].id = rep[cur].id}
  /\ \/ s = [n |-> cur, count |-> 1]
     \/ \E e \in hit : s = [e EXCEPT !.count = @ + 1]
  /\ f \in {c.fires, c.fires + 1}
  /\ dpc' = "fire" => CanFire(rep[s.n].cls, s.count, IF s.n = cur THEN 0 ELSE age[s.n])
  /\ list_case' = [list_case EXCEPT ![d] =
       [c EXCEPT !.events = (@ \ hit) \cup {s}, !.using = @ + 1, !.fires = f]]
  /\ p_case' = [p_case EXCEPT ![cur] = c.cid]

LEMMA InsertParts ==
  ASSUME Insert
  PROVE  /\ \E d, c, hit, s, f : Insertion(d, c, hit, s, f)
         /\ dpc' \in {"fire", "forward"}
<1> DEFINE d      == rep[cur].dev
           c      == IF list_case[d] = NONE THEN NewCase(cur) ELSE list_case[d]
           hit    == {e \in c.events : rep[e.n].id = rep[cur].id}
           last   == CHOOSE e \in hit : TRUE
           stored == IF hit = {} THEN [n |-> cur, count |-> 1] ELSE [last EXCEPT !.count = @ + 1]
           fire   == CanFire(rep[stored.n].cls, stored.count,
                             IF stored.n = cur THEN 0 ELSE age[stored.n])
           f      == IF fire THEN c.fires + 1 ELSE c.fires
<1>1. /\ list_case' = [list_case EXCEPT ![d] =
           [c EXCEPT !.events = (@ \ hit) \cup {stored}, !.using = @ + 1,
                     !.fires = IF fire THEN @ + 1 ELSE @]]
      /\ p_case' = [p_case EXCEPT ![cur] = c.cid]
      /\ dpc' = IF fire THEN "fire" ELSE "forward"
  BY Zenon DEF Insert
<1>2. stored = [n |-> cur, count |-> 1] \/ \E e \in hit : stored = [e EXCEPT !.count = @ + 1]
  <2>1. hit # {} => last \in hit
    BY Zenon
  <2>2. QED
    BY <2>1, Zenon
<1>3. /\ dpc' \in {"fire", "forward"} /\ (dpc' = "fire" => fire)
      /\ f \in {c.fires, c.fires + 1}
  <2> HIDE DEF fire, c
  <2>1. QED
    BY <1>1
<1>4. list_case' = [list_case EXCEPT ![d] =
        [c EXCEPT !.events = (@ \ hit) \cup {stored}, !.using = @ + 1, !.fires = f]]
  <2> HIDE DEF fire, c, hit, stored
  <2>1. QED
    BY <1>1
<1>5. Insertion(d, c, hit, stored, f)
  <2> HIDE DEF f
  <2>1. QED
    BY <1>1, <1>2, <1>3, <1>4, Zenon DEF Insertion
<1> HIDE DEF d, c, hit, stored, f
<1>6. \E dd, cc, hh, ss, ff : Insertion(dd, cc, hh, ss, ff)
  BY <1>5, Zenon
<1>7. QED
  BY <1>3, <1>6

LEMMA InsertBefore ==
  ASSUME Inv, dpc = "insert", NEW d, NEW c, NEW hit, NEW s, NEW f, Insertion(d, c, hit, s, f)
  PROVE  /\ d \in Dev /\ c \in Case /\ cur \in Ereports /\ cur \in 1 .. Len(rep)
         /\ cur # 0 /\ c.cid # 0
         /\ p_case[cur] = 0 /\ age[cur] = 0 /\ cur \notin evfreed
         /\ c.using = Cardinality(Used(c.cid)) /\ c.fires <= Cardinality(Members(c.cid))
         /\ \A e \in c.events : /\ p_case[e.n] = c.cid /\ e.n # cur
                                /\ e.count <= Cardinality(Since(c.cid, e.n))
                                /\ e.n \in Ereports /\ e.count \in Ereports
         /\ rep[c.cid].dev = d /\ (c.cid = cur \/ p_case[c.cid] # 0)
<1> USE DEF Inv, CaseInv
<1>1. cur \in Ereports /\ cur \in 1 .. Len(rep) /\ p_case[cur] = 0 /\ d \in Dev
  BY TemplateParts DEF Arrival, Insertion
<1>2. age[cur] = 0 /\ cur \notin evfreed /\ cur # 0
  BY <1>1 DEF Cases
<1>3. \A x \in Ereports : x \in Nat \ {0}
  BY Sizes DEF Ereports
<1>4. CASE list_case[d] = NONE
  <2>1. c = [cid |-> cur, fires |-> 0, using |-> 0, events |-> {}]
    BY <1>4 DEF Insertion, NewCase
  <2>2. c \in Case
    BY <1>1, <2>1, Sizes DEF Case
  <2>3. \A n \in Ereports : p_case[n] # cur
    BY <1>1, <1>2 DEF Cases
  <2>4. Used(c.cid) = {} /\ Members(c.cid) = {}
    BY <2>1, <2>3 DEF Used, Members
  <2>5. Cardinality({}) = 0
    BY FS_EmptySet
  <2>6. c.cid = cur /\ c.fires = 0 /\ c.using = 0 /\ c.events = {}
    BY <2>1
  <2>7. rep[cur].dev = d
    BY DEF Insertion
  <2>8. QED
    BY <1>1, <1>2, <2>2, <2>4, <2>5, <2>6, <2>7
<1>5. CASE list_case[d] # NONE
  <2>1. c = list_case[d] /\ c \in Case
    BY <1>1, <1>5 DEF Insertion, TypeOK
  <2>2. c.cid \in Ereports /\ \A e \in c.events : e.n \in Ereports /\ e.count \in Ereports
    BY <2>1 DEF Case
  <2>3. /\ p_case[c.cid] # 0 /\ rep[c.cid].dev = d
        /\ \A e \in c.events : p_case[e.n] = c.cid
    BY <1>1, <1>5, <2>1 DEF Cases
  <2>4. \A e \in c.events : e.n # cur
    BY <1>1, <1>3, <2>2, <2>3
  <2>5. c.using = Cardinality(Used(c.cid))
    BY <1>1, <1>5, <2>1, UsedCounts DEF CountedBy
  <2>6. /\ c.fires <= Cardinality(Members(c.cid))
        /\ \A e \in c.events : e.count <= Cardinality(Since(c.cid, e.n))
    BY <1>1, <1>5, <2>1 DEF Counts
  <2>7. QED
    BY <1>1, <1>2, <1>3, <2>1, <2>2, <2>3, <2>4, <2>5, <2>6
<1>6. QED
  BY <1>4, <1>5

\* The case after the insertion counts one more, and no more than came.
LEMMA InsertCounts ==
  ASSUME Inv, Insert, NEW d, NEW c, NEW hit, NEW s, NEW f, Insertion(d, c, hit, s, f),
         Pending' = Pending \cup {cur}
  PROVE  /\ \A x : x # c.cid /\ x # 0 => Used(x)' = Used(x) /\ Members(x)' = Members(x)
         /\ \A x : x # c.cid /\ x # 0 => \A m : Since(x, m)' = Since(x, m)
         /\ c.using + 1 = Cardinality(Used(c.cid)') /\ c.using + 1 \in 0 .. MaxEreports
         /\ f <= Cardinality(Members(c.cid)') /\ f \in 0 .. MaxEreports
         /\ s.n \in Ereports /\ s.count \in Ereports
         /\ s.n = cur \/ (\E e \in c.events : s.n = e.n)
         /\ s = [n |-> s.n, count |-> s.count]
         /\ s.count <= Cardinality(Since(c.cid, s.n)') /\ p_case'[s.n] = c.cid
         /\ rep[s.n].id = rep[cur].id
         /\ \A e \in c.events : e.count <= Cardinality(Since(c.cid, e.n)')
<1>1. dpc = "insert" /\ UNCHANGED <<rep, age, cur>> /\ p_case' = [p_case EXCEPT ![cur] = c.cid]
      /\ p_case \in [Ereports -> 0 .. MaxEreports]
  BY DEF Insert, Insertion, Inv, TypeOK
<1>2. /\ d \in Dev /\ c \in Case /\ cur \in Ereports /\ cur # 0 /\ c.cid # 0
      /\ p_case[cur] = 0 /\ age[cur] = 0
      /\ c.using = Cardinality(Used(c.cid)) /\ c.fires <= Cardinality(Members(c.cid))
      /\ \A e \in c.events : /\ p_case[e.n] = c.cid /\ e.n # cur
                             /\ e.count <= Cardinality(Since(c.cid, e.n))
                             /\ e.n \in Ereports /\ e.count \in Ereports
  BY <1>1, InsertBefore
<1> PICK k : k = c.cid
  OBVIOUS
<1>3. p_case'[cur] = k /\ \A n \in Ereports \ {cur} : p_case'[n] = p_case[n]
  BY <1>1, <1>2
<1>4. /\ \A x : x # k /\ x # 0 => Used(x)' = Used(x) /\ Members(x)' = Members(x)
      /\ Used(k)' = Used(k) \cup {cur} /\ Members(k)' = Members(k) \cup {cur}
      /\ cur \notin Used(k) /\ cur \notin Members(k)
  BY <1>1, <1>2, <1>3 DEF Used, Members
<1>5. \A x, m : Since(x, m) \subseteq Ereports /\ Members(x) \subseteq Ereports
                /\ Used(x) \subseteq Ereports
  BY DEF Since, Members, Used
<1>6. \A x, m : Since(x, m)' \subseteq Ereports /\ Members(x)' \subseteq Ereports
                /\ Used(x)' \subseteq Ereports
  BY DEF Since, Members, Used
<1>7. c.using + 1 = Cardinality(Used(k)') /\ c.using + 1 \in 0 .. MaxEreports
  <2>1. Cardinality(Used(k) \cup {cur}) = Cardinality(Used(k)) + 1
    BY <1>4, <1>5, EreportsFinite, FS_AddElement
  <2>2. Cardinality(Used(k)') \in 0 .. MaxEreports
    BY <1>6, EreportsFinite
  <2>3. QED
    BY <1>2, <1>4, <2>1, <2>2
<1>8. f <= Cardinality(Members(k)') /\ f \in 0 .. MaxEreports
  <2>1. Cardinality(Members(k) \cup {cur}) = Cardinality(Members(k)) + 1
    BY <1>4, <1>5, EreportsFinite, FS_AddElement
  <2>2. Cardinality(Members(k)') \in 0 .. MaxEreports /\ Cardinality(Members(k)) \in 0 .. MaxEreports
    BY <1>5, <1>6, EreportsFinite
  <2>3. f \in {c.fires, c.fires + 1} /\ c.fires \in 0 .. MaxEreports
    BY <1>2 DEF Insertion, Case
  <2>4. QED
    BY <1>2, <1>4, <2>1, <2>2, <2>3, Sizes
<1>9. \A x : x # k /\ x # 0 => \A m : Since(x, m)' = Since(x, m)
  BY <1>1, <1>4 DEF Since
<1>10. ASSUME NEW e \in c.events PROVE e.count <= Cardinality(Since(k, e.n)')
  <2>1. Since(k, e.n) \subseteq Since(k, e.n)'
    BY <1>1, <1>4 DEF Since
  <2>2. /\ Cardinality(Since(k, e.n)) <= Cardinality(Since(k, e.n)')
        /\ Cardinality(Since(k, e.n)) \in Nat /\ Cardinality(Since(k, e.n)') \in Nat
    BY <1>5, <1>6, <2>1, EreportsFinite, FS_Subset, Sizes
  <2>3. e.count \in Nat /\ e.count <= Cardinality(Since(k, e.n))
    BY <1>2, Sizes DEF Ereports
  <2>4. QED
    BY <2>2, <2>3
<1>11. /\ s.n \in Ereports /\ s.count \in Ereports
       /\ s.n = cur \/ (\E e \in c.events : s.n = e.n)
       /\ s = [n |-> s.n, count |-> s.count]
       /\ s.count <= Cardinality(Since(k, s.n)') /\ p_case'[s.n] = k
       /\ rep[s.n].id = rep[cur].id
  <2>1. CASE s = [n |-> cur, count |-> 1]
    <3>1. s.n = cur /\ s.count = 1
      BY <2>1
    <3>2. {cur} \subseteq Since(k, cur)'
      BY <1>1, <1>2, <1>4, Sizes DEF Since
    <3>3. Cardinality({cur}) = 1 /\ Cardinality({cur}) <= Cardinality(Since(k, cur)')
      BY <1>6, <3>2, EreportsFinite, FS_Subset, FS_Singleton
    <3>4. 1 \in Ereports
      BY <1>2, Sizes DEF Ereports
    <3>5. QED
      BY <1>1, <1>2, <1>3, <2>1, <3>1, <3>3, <3>4
  <2>2. ASSUME NEW e \in hit, s = [e EXCEPT !.count = @ + 1]
        PROVE  /\ s.n \in Ereports /\ s.count \in Ereports
               /\ \E x \in c.events : s.n = x.n
               /\ s = [n |-> s.n, count |-> s.count]
               /\ s.count <= Cardinality(Since(k, s.n)') /\ p_case'[s.n] = k
               /\ rep[s.n].id = rep[cur].id
    <3>1. e \in c.events /\ rep[e.n].id = rep[cur].id
      BY DEF Insertion
    <3>2. e \in [n : Ereports, count : Ereports]
      BY <1>2, <3>1 DEF Case
    <3>3. s.n = e.n /\ s.count = e.count + 1 /\ s = [n |-> s.n, count |-> s.count]
      BY <2>2, <3>2
    <3>4. Since(k, e.n) \cup {cur} \subseteq Since(k, e.n)' /\ cur \notin Since(k, e.n)
      <4>1. age[e.n] \in Nat
        BY <3>2, Sizes DEF Inv, TypeOK
      <4>2. QED
        BY <1>1, <1>2, <1>4, <3>1, <4>1 DEF Since
    <3>5. Cardinality(Since(k, e.n) \cup {cur}) = Cardinality(Since(k, e.n)) + 1
      BY <1>5, <3>4, EreportsFinite, FS_AddElement
    <3>6. Cardinality(Since(k, e.n) \cup {cur}) <= Cardinality(Since(k, e.n)')
      BY <1>6, <3>4, EreportsFinite, FS_Subset
    <3>7. Cardinality(Since(k, e.n)) \in Nat /\ Cardinality(Since(k, e.n)') \in 0 .. MaxEreports
      BY <1>5, <1>6, EreportsFinite, Sizes
    <3>8. e.count \in Nat /\ e.count >= 1 /\ e.count <= Cardinality(Since(k, e.n))
      BY <1>2, <3>1, Sizes DEF Ereports
    <3>9. s.count <= Cardinality(Since(k, e.n)') /\ s.count \in Ereports
      BY <3>3, <3>5, <3>6, <3>7, <3>8, Sizes DEF Ereports
    <3>10. p_case'[e.n] = k
      BY <1>2, <1>3, <3>1
    <3>11. QED
      BY <3>1, <3>2, <3>3, <3>9, <3>10
  <2>3. s = [n |-> cur, count |-> 1] \/ \E e \in hit : s = [e EXCEPT !.count = @ + 1]
    BY DEF Insertion
  <2>4. QED
    BY <2>1, <2>2, <2>3
<1>12. QED
  BY <1>4, <1>7, <1>8, <1>9, <1>10, <1>11

LEMMA InsertPending ==
  ASSUME Inv, Insert
  PROVE  Pending' = Pending \cup {cur} /\ cur \notin Pending
<1>1. dpc = "insert" /\ dpc' \in {"fire", "forward"} /\ UNCHANGED <<cur, aring, hand>>
  BY InsertParts DEF Insert
<1>2. \A k, n : Has(k, n)' <=> Has(k, n)
  BY <1>1, SamePlaces
<1>3. \A n : n \in Pending' <=> n \in Pending \cup {cur}
  BY <1>1, <1>2, PendingHas, RingsHaveNext DEF PendingAre, Inv, TypeOK
<1>4. cur \notin Pending
  BY <1>1, PendingDev DEF Inv, Arrival
<1>5. QED
  BY <1>3, <1>4

LEMMA InsertCases == ASSUME Inv, Insert PROVE CaseInv' /\ list_case' \in [Dev -> Case \cup {NONE}]
<1> USE DEF CaseInv
<1>1. /\ dpc = "insert" /\ UNCHANGED <<rep, age, evfreed, cur>> /\ Pending' = Pending \cup {cur}
      /\ list_case \in [Dev -> Case \cup {NONE}] /\ p_case \in [Ereports -> 0 .. MaxEreports]
      /\ Inv
  BY InsertPending DEF Insert, memvars, Inv, TypeOK
<1>2. PICK d, c, hit, s, f : Insertion(d, c, hit, s, f)
  BY InsertParts
<1>3. /\ d \in Dev /\ c \in Case /\ cur \in Ereports /\ cur # 0 /\ c.cid # 0
      /\ p_case[cur] = 0 /\ age[cur] = 0 /\ cur \notin evfreed
      /\ \A e \in c.events : p_case[e.n] = c.cid /\ e.n # cur /\ e.n \in Ereports
      /\ rep[c.cid].dev = d /\ (c.cid = cur \/ p_case[c.cid] # 0)
  BY <1>1, <1>2, InsertBefore
<1>4. /\ d = rep[cur].dev
      /\ c = IF list_case[d] = NONE THEN NewCase(cur) ELSE list_case[d]
      /\ list_case' = [list_case EXCEPT ![d] =
           [c EXCEPT !.events = (@ \ hit) \cup {s}, !.using = @ + 1, !.fires = f]]
      /\ p_case' = [p_case EXCEPT ![cur] = c.cid]
  BY <1>2 DEF Insertion
<1>5. /\ \A x : x # c.cid /\ x # 0 => Used(x)' = Used(x) /\ Members(x)' = Members(x)
      /\ \A x : x # c.cid /\ x # 0 => \A m : Since(x, m)' = Since(x, m)
      /\ c.using + 1 = Cardinality(Used(c.cid)') /\ c.using + 1 \in 0 .. MaxEreports
      /\ f <= Cardinality(Members(c.cid)') /\ f \in 0 .. MaxEreports
      /\ s.n \in Ereports /\ s.count \in Ereports
      /\ s.n = cur \/ (\E e \in c.events : s.n = e.n)
      /\ s = [n |-> s.n, count |-> s.count]
      /\ s.count <= Cardinality(Since(c.cid, s.n)') /\ p_case'[s.n] = c.cid
      /\ \A e \in c.events : e.count <= Cardinality(Since(c.cid, e.n)')
  BY <1>1, <1>2, InsertCounts
<1>6. PICK new : new = [c EXCEPT !.events = (@ \ hit) \cup {s}, !.using = @ + 1, !.fires = f]
  OBVIOUS
<1>7. /\ new \in Case /\ new # NONE /\ new.cid = c.cid /\ new.using = c.using + 1 /\ new.fires = f
      /\ new.events \subseteq c.events \cup {s}
  <2>1. s \in [n : Ereports, count : Ereports]
    BY <1>5
  <2>2. /\ c.events \subseteq [n : Ereports, count : Ereports]
        /\ c = [cid |-> c.cid, fires |-> c.fires, using |-> c.using, events |-> c.events]
        /\ c.cid \in Ereports
    BY <1>3 DEF Case
  <2>3. new = [cid |-> c.cid, fires |-> f, using |-> c.using + 1, events |-> (c.events \ hit) \cup {s}]
    BY <1>6, <2>2
  <2>4. (c.events \ hit) \cup {s} \in SUBSET [n : Ereports, count : Ereports]
    BY <2>1, <2>2
  <2>5. new \in Case
    BY <1>5, <2>2, <2>3, <2>4 DEF Case
  <2>6. QED
    BY <2>3, <2>5, NoneAssumption
<1>8. /\ list_case' \in [Dev -> Case \cup {NONE}] /\ list_case'[d] = new
      /\ \A x \in Dev \ {d} : list_case'[x] = list_case[x]
  BY <1>1, <1>3, <1>4, <1>6, <1>7
<1>9. p_case'[cur] = c.cid /\ \A n \in Ereports \ {cur} : p_case'[n] = p_case[n]
  BY <1>1, <1>3, <1>4
<1>10. \A x \in Dev \ {d} : list_case[x] # NONE =>
         /\ list_case[x].cid \in Ereports /\ list_case[x].cid # c.cid /\ list_case[x].cid # 0
         /\ list_case[x].cid # cur
  <2>1. \A x \in Dev : list_case[x] # NONE => /\ list_case[x].cid \in Ereports
                                              /\ p_case[list_case[x].cid] # 0
                                              /\ rep[list_case[x].cid].dev = x
    BY DEF Inv, Cases, TypeOK, Case
  <2>2. \A n \in Ereports : n # 0
    BY Sizes DEF Ereports
  <2>3. QED
    BY <1>3, <2>1, <2>2
<1>11. Cases'
  <2>1. ASSUME NEW n \in Ereports, p_case'[n] # 0
        PROVE  p_case'[p_case'[n]] # 0 /\ rep[p_case'[n]].dev = rep[n].dev
    <3>1. CASE n = cur
      <4>1. c.cid \in Ereports
        BY <1>3 DEF Case
      <4>2. QED
        BY <1>3, <1>4, <1>9, <3>1, <4>1
    <3>2. CASE n # cur
      <4>1. /\ p_case[n] \in Ereports /\ p_case[p_case[n]] # 0 /\ rep[p_case[n]].dev = rep[n].dev
            /\ p_case'[n] = p_case[n]
        BY <1>1, <1>9, <2>1, <3>2, Sizes DEF Inv, Cases, Ereports
      <4>2. QED
        BY <1>3, <1>9, <4>1
    <3>3. QED
      BY <3>1, <3>2
  <2>2. \A n \in Ereports : p_case'[n] = 0 => age[n] = 0 /\ n \notin evfreed
    BY <1>3, <1>9 DEF Inv, Cases
  <2>3. ASSUME NEW x \in Dev, list_case'[x] # NONE
        PROVE  /\ p_case'[list_case'[x].cid] # 0 /\ rep[list_case'[x].cid].dev = x
               /\ \A e \in list_case'[x].events : p_case'[e.n] = list_case'[x].cid
    <3>1. CASE x = d
      <4>1. c.cid \in Ereports
        BY <1>3 DEF Case
      <4>2. p_case'[c.cid] # 0
        BY <1>3, <1>9, <4>1
      <4>3. \A e \in new.events : p_case'[e.n] = c.cid
        BY <1>3, <1>5, <1>7, <1>9
      <4>4. QED
        BY <1>3, <1>7, <1>8, <3>1, <4>2, <4>3
    <3>2. CASE x # d
      <4>1. /\ p_case[list_case[x].cid] # 0 /\ rep[list_case[x].cid].dev = x
            /\ \A e \in list_case[x].events : p_case[e.n] = list_case[x].cid
            /\ list_case'[x] = list_case[x] /\ list_case[x] \in Case
        BY <1>1, <1>8, <2>3, <3>2 DEF Inv, Cases
      <4>2. \A e \in list_case[x].events : e.n \in Ereports
        BY <4>1 DEF Case
      <4>3. \A e \in list_case[x].events : e.n # cur
        BY <1>3, <1>8, <1>10, <2>3, <3>2, <4>1
      <4>4. QED
        BY <1>8, <1>9, <1>10, <2>3, <3>2, <4>1, <4>2, <4>3
    <3>3. QED
      BY <3>1, <3>2
  <2>4. QED
    BY <1>1, <2>1, <2>2, <2>3 DEF Cases
<1>12. CaseAlive'
  <2>1. ASSUME NEW n \in Pending
        PROVE  list_case'[rep[n].dev] # NONE /\ list_case'[rep[n].dev].cid = p_case'[n]
    <3>1. /\ list_case[rep[n].dev] # NONE /\ list_case[rep[n].dev].cid = p_case[n]
          /\ n \in Ereports /\ rep[n].dev \in Dev /\ p_case[n] # 0
      BY PendingDev DEF Inv, CaseAlive
    <3>2. p_case'[n] = p_case[n]
      BY <1>3, <1>9, <3>1
    <3>3. CASE rep[n].dev = d
      BY <1>4, <1>7, <1>8, <3>1, <3>2, <3>3
    <3>4. CASE rep[n].dev # d
      BY <1>8, <3>1, <3>2, <3>4
    <3>5. QED
      BY <3>3, <3>4
  <2>2. list_case'[rep[cur].dev] # NONE /\ list_case'[rep[cur].dev].cid = p_case'[cur]
    BY <1>4, <1>7, <1>8, <1>9
  <2>3. QED
    BY <1>1, <2>1, <2>2 DEF CaseAlive
<1>13. EventAlive'
  <2>1. evfreed \cap (Pending \cup {cur}) = {}
    BY <1>3 DEF Inv, EventAlive
  <2>2. \A e \in new.events : e.n \notin evfreed
    <3>1. \A e \in c.events : e.n \notin evfreed
      <4>1. CASE list_case[d] = NONE
        BY <1>4, <4>1 DEF NewCase
      <4>2. CASE list_case[d] # NONE
        BY <1>3, <1>4, <4>2 DEF Inv, EventAlive
      <4>3. QED
        BY <4>1, <4>2
    <3>2. QED
      BY <1>3, <1>5, <1>7, <3>1
  <2>3. \A x \in Dev : list_case'[x] # NONE => evfreed \cap {e.n : e \in list_case'[x].events} = {}
    BY <1>8, <2>2 DEF Inv, EventAlive
  <2>4. QED
    BY <1>1, <2>1, <2>3 DEF EventAlive
<1>14. UsingExact'
  <2>1. ASSUME NEW x \in Dev, list_case'[x] # NONE
        PROVE  list_case'[x].using = Cardinality(Used(list_case[x].cid)')
    <3>1. CASE x = d
      BY <1>5, <1>7, <1>8, <3>1 DEF Used
    <3>2. CASE x # d
      <4>1. PICK k : k = list_case[x].cid
        OBVIOUS
      <4>2. list_case'[x] = list_case[x] /\ Used(k)' = Used(k)
        BY <1>5, <1>8, <1>10, <2>1, <3>2, <4>1
      <4>3. list_case[x].using = Cardinality(Used(k))
        BY <2>1, <4>1, <4>2, UsedCounts DEF Inv, CountedBy
      <4>4. QED
        BY <4>1, <4>2, <4>3 DEF Used
    <3>3. QED
      BY <3>1, <3>2
  <2>2. CountedBy'
    BY <2>1 DEF CountedBy
  <2>3. QED
    BY <2>2, UsedCounts
<1>15. Counts'
  <2>1. ASSUME NEW x \in Dev, list_case'[x] # NONE
        PROVE  /\ list_case'[x].fires <= Cardinality(Members(list_case[x].cid)')
               /\ \A e \in list_case'[x].events :
                    e.count <= Cardinality(Since(list_case[x].cid, e.n)')
    <3>1. CASE x = d
      <4>1. PICK k : k = c.cid
        OBVIOUS
      <4>2. /\ new.fires <= Cardinality(Members(k)')
            /\ \A e \in new.events : e.count <= Cardinality(Since(k, e.n)')
        BY <1>5, <1>7, <4>1
      <4>3. list_case'[x] = new /\ new.cid = k
        BY <1>7, <1>8, <3>1, <4>1
      <4>4. QED
        BY <4>2, <4>3 DEF Members, Since
    <3>2. CASE x # d
      <4>1. PICK k : k = list_case[x].cid
        OBVIOUS
      <4>2. /\ list_case'[x] = list_case[x] /\ Members(k)' = Members(k)
            /\ \A m : Since(k, m)' = Since(k, m)
        BY <1>5, <1>8, <1>10, <2>1, <3>2, <4>1
      <4>3. /\ list_case[x].fires <= Cardinality(Members(k))
            /\ \A e \in list_case[x].events : e.count <= Cardinality(Since(k, e.n))
        BY <2>1, <4>1, <4>2 DEF Inv, Counts
      <4>4. QED
        BY <4>1, <4>2, <4>3 DEF Members, Since
    <3>3. QED
      BY <3>1, <3>2
  <2>2. QED
    BY <2>1 DEF Counts
<1>16. QED
  BY <1>8, <1>11, <1>12, <1>13, <1>14, <1>15

LEMMA InsertInv == ASSUME Inv, Insert PROVE Inv'
<1>1. /\ dpc = "insert" /\ dpc' \in {"fire", "forward"}
      /\ UNCHANGED <<rep, ring, age, cur, round, pos, aring, hand, out, repaired, memvars>>
  BY InsertParts DEF Insert
<1>2. PICK d, c, hit, s, f : Insertion(d, c, hit, s, f)
  BY InsertParts
<1>3. c \in Case /\ cur \in Ereports /\ cur \in 1 .. Len(rep) /\ c.cid # 0 /\ p_case[cur] = 0
  BY <1>1, <1>2, InsertBefore
<1>4. /\ p_case \in [Ereports -> 0 .. MaxEreports]
      /\ p_case' = [p_case EXCEPT ![cur] = c.cid]
  BY <1>2 DEF Inv, TypeOK, Insertion
<1>5. p_case'[cur] # 0 /\ \A n \in Ereports \ {cur} : p_case'[n] = p_case[n]
  BY <1>3, <1>4
<1>6. TypeOK'
  <2>1. p_case' \in [Ereports -> 0 .. MaxEreports]
    BY <1>3, <1>4, Sizes DEF Case, Ereports
  <2>2. QED
    BY <1>1, <2>1, InsertCases DEF Inv, TypeOK, memvars
<1>7. Arrival'
  <2>1. ring \in Seq(Ereports)
    BY DEF Inv, TypeOK
  <2>2. \A i \in 1 .. Len(ring) : ring[i] \in Ereports /\ ring[i] # cur
    BY <1>1, <2>1 DEF Inv, Arrival
  <2>3. \A i \in 1 .. Len(ring) : p_case'[ring[i]] = 0
    BY <1>5, <2>2 DEF Inv, Arrival
  <2>4. \A n \in Ereports : n > Len(rep) => p_case'[n] = 0
    <3>1. Len(rep) \in Nat
      BY DEF Inv, TypeOK
    <3>2. \A n \in Ereports : n > Len(rep) => n # cur
      BY <1>3, <3>1 DEF Ereports
    <3>3. QED
      BY <1>5, <3>2 DEF Inv, Arrival
  <2>5. QED
    BY <1>1, <1>3, <1>5, <2>3, <2>4 DEF Inv, Arrival
<1>8. Queued'
  <2>1. ASSUME NEW a \in Agent, NEW i \in Places(a), At(a, i) # NONE
        PROVE  /\ Sub[rep[At(a, i).n].cls] = a /\ p_case'[At(a, i).n] # 0 /\ At(a, i).n # cur
               /\ \A j \in Places(a) : Is(At(a, j), At(a, i).kind, At(a, i).n) => i = j
    <3>1. At(a, i).n \in Ereports /\ p_case[At(a, i).n] # 0
      BY <2>1, AtType DEF Inv, Queued, Item
    <3>2. p_case'[At(a, i).n] # 0 /\ At(a, i).n # cur
      BY <1>3, <1>5, <3>1
    <3>3. QED
      BY <2>1, <3>2 DEF Inv, Queued
  <2>2. /\ \A a, i : At(a, i)' = At(a, i)
        /\ \A a : Places(a)' = Places(a)
    BY <1>1, SamePlaces
  <2>3. QED
    BY <1>1, <2>1, <2>2 DEF Queued, Is
<1>9. RecordInv'
  <2>1. \A n \in Ereports : Faulty(n)' => Faulty(n) \/ n = cur
    BY <1>1, SamePlaces DEF Faulty
  <2>2. \A n : /\ ByCpumem(n)' <=> ByCpumem(n)
               /\ Recorded(n)' <=> Recorded(n)
               /\ Answered(n)' <=> Answered(n)
    BY <1>1 DEF ByCpumem, Recorded, Answered
  <2>3. ~Recorded(cur) /\ ~Answered(cur) /\ datafrees[cur] = 0
    BY <1>3 DEF Inv, RecordInv, Data, RecordFrom, Recorded, Answered
  <2>4. \A n \in Ereports : p_case[n] # 0 => p_case'[n] # 0
    BY <1>5
  <2>5. ASSUME NEW n \in Ereports
        PROVE  /\ datafrees'[n] <= 1
               /\ datafrees'[n] # 0 => p_case'[n] # 0 /\ ByCpumem(n)'
               /\ Recorded(n)' /\ ByCpumem(n)' => datafrees'[n] = 0
               /\ Answered(n)' /\ ByCpumem(n)' => datafrees'[n] = 0 /\ ~Recorded(n)'
               /\ Faulty(n)' /\ ByCpumem(n)' =>
                    datafrees'[n] = 0 /\ ~Recorded(n)' /\ ~Answered(n)'
    BY <1>1, <2>1, <2>2, <2>3, <2>4 DEF Inv, RecordInv, Data, memvars
  <2>6. ASSUME NEW b \in Agent, out'[b] # NONE
        PROVE  RecordFrom(out[b])' /\ Sub[rep'[out'[b].data].cls] = b
    <3>1. out[b] \in Record /\ out' = out /\ rep' = rep
      BY <1>1, <2>6 DEF Inv, TypeOK
    <3>2. RecordFrom(out[b]) /\ Sub[rep[out[b].data].cls] = b /\ out[b].data \in Ereports
      BY <2>6, <3>1 DEF Inv, RecordInv, Data, Record
    <3>3. QED
      BY <2>4, <3>1, <3>2 DEF RecordFrom, ByCpumem
  <2>7. ASSUME NEW i \in DOMAIN repaired' PROVE RecordFrom(repaired[i])'
    <3>1. repaired[i] \in Record /\ repaired' = repaired /\ rep' = rep
      BY <1>1 DEF Inv, TypeOK
    <3>2. RecordFrom(repaired[i]) /\ repaired[i].data \in Ereports
      BY <3>1 DEF Inv, RecordInv, Data, Record
    <3>3. QED
      BY <2>4, <3>1, <3>2 DEF RecordFrom, ByCpumem
  <2>8. \A i, j \in DOMAIN repaired' :
          ByCpumem(repaired[i].data)' /\ repaired'[i].data = repaired'[j].data => i = j
    BY <1>1 DEF Inv, RecordInv, Data, ByCpumem
  <2>9. Data'
    BY <2>5, <2>6, <2>7, <2>8 DEF Data
  <2>10. QED
    BY <1>1, <2>9 DEF Inv, RecordInv, RecordUnique
<1>10. QED
  BY <1>6, <1>7, <1>8, <1>9, InsertCases DEF Inv

-----------------------------------------------------------------------------
(* queue_delete_proc.                                                      *)

\* list_del: the others stay, in their order.
LEMMA Unlinked ==
  ASSUME NEW S, NEW s \in Seq(S), NEW p \in 1 .. Len(s)
  PROVE  LET t == SubSeq(s, 1, p - 1) \o SubSeq(s, p + 1, Len(s))
         IN /\ t \in Seq(S) /\ Len(t) = Len(s) - 1
            /\ \A i \in 1 .. Len(t) : t[i] = s[IF i < p THEN i ELSE i + 1]
<1>1. Len(s) \in Nat /\ p \in Nat /\ p >= 1 /\ p <= Len(s)
  OBVIOUS
<1>2. /\ SubSeq(s, 1, p - 1) \in Seq(S) /\ Len(SubSeq(s, 1, p - 1)) = p - 1
      /\ \A i \in 1 .. p - 1 : SubSeq(s, 1, p - 1)[i] = s[i]
  BY <1>1
<1>3. /\ SubSeq(s, p + 1, Len(s)) \in Seq(S) /\ Len(SubSeq(s, p + 1, Len(s))) = Len(s) - p
      /\ \A i \in 1 .. Len(s) - p : SubSeq(s, p + 1, Len(s))[i] = s[i + p]
  BY <1>1
<1>4. PICK u \in Seq(S) : u = SubSeq(s, 1, p - 1)
  BY <1>2
<1>5. PICK v \in Seq(S) : v = SubSeq(s, p + 1, Len(s))
  BY <1>3
<1>6. PICK t : t = u \o v
  OBVIOUS
<1>7. /\ t \in Seq(S) /\ Len(t) = Len(u) + Len(v)
      /\ \A i \in 1 .. Len(u) + Len(v) : t[i] = IF i <= Len(u) THEN u[i] ELSE v[i - Len(u)]
  <2>1. /\ u \o v \in Seq(S) /\ Len(u \o v) = Len(u) + Len(v)
        /\ \A i \in 1 .. Len(u) + Len(v) : (u \o v)[i] = IF i <= Len(u) THEN u[i] ELSE v[i - Len(u)]
    BY ConcatProperties
  <2>2. QED
    BY <1>6, <2>1, Zenon
<1>8. /\ Len(u) = p - 1 /\ \A i \in 1 .. p - 1 : u[i] = s[i]
      /\ Len(v) = Len(s) - p /\ \A i \in 1 .. Len(s) - p : v[i] = s[i + p]
  BY <1>2, <1>3, <1>4, <1>5
<1>9. Len(t) = Len(s) - 1
  BY <1>1, <1>7, <1>8
<1>10. ASSUME NEW i \in 1 .. Len(t) PROVE t[i] = s[IF i < p THEN i ELSE i + 1]
  <2>1. i \in Nat /\ i \in 1 .. Len(u) + Len(v)
    BY <1>7
  <2>2. CASE i < p
    <3>1. t[i] = u[i] /\ i \in 1 .. p - 1
      BY <1>1, <1>7, <1>8, <2>1, <2>2
    <3>2. QED
      BY <1>8, <2>2, <3>1
  <2>3. CASE ~ (i < p)
    <3>1. t[i] = v[i - (p - 1)] /\ i - (p - 1) \in 1 .. Len(s) - p
      BY <1>1, <1>7, <1>8, <2>1, <2>3
    <3>2. v[i - (p - 1)] = s[i - (p - 1) + p]
      BY <1>8, <3>1
    <3>3. i - (p - 1) + p = i + 1
      BY <1>1, <2>1
    <3>4. QED
      BY <2>3, <3>1, <3>2, <3>3
  <2>4. QED
    BY <2>2, <2>3
<1>11. QED
  BY <1>4, <1>5, <1>6, <1>7, <1>9, <1>10, Zenon

\* fmd_case_find_and_delete frees events of a case that nobody uses.
LEMMA DeletedCases ==
  ASSUME Inv, NEW r \in Record, UNCHANGED <<rep, p_case, age>>, Pending' = Pending,
         \/ Found(r) /\ list_case' = FindAndDelete(r) /\ evfreed' = evfreed \cup {e.n : e \in Doomed(r)}
         \/ UNCHANGED <<list_case, evfreed>>
  PROVE  /\ CaseInv' /\ list_case' \in [Dev -> Case \cup {NONE}] /\ evfreed' \subseteq Ereports
<1> USE DEF CaseInv
<1>1. CASE UNCHANGED <<list_case, evfreed>>
  BY <1>1, SameCases DEF Inv, TypeOK
<1>2. CASE Found(r) /\ list_case' = FindAndDelete(r) /\ evfreed' = evfreed \cup {e.n : e \in Doomed(r)}
  <2>1. PICK d \in Dev : d = r.dev
    BY DEF Record
  <2>2. PICK c : c = list_case[d]
    OBVIOUS
  <2>3. /\ c # NONE /\ c \in Case /\ c.using = 0 /\ list_case \in [Dev -> Case \cup {NONE}]
        /\ c = [cid |-> c.cid, fires |-> c.fires, using |-> c.using, events |-> c.events]
    BY <1>2, <2>1, <2>2 DEF Found, Inv, TypeOK, Case
  <2>4. /\ c.cid \in Ereports /\ c.cid # 0 /\ p_case[c.cid] # 0 /\ rep[c.cid].dev = d
        /\ \A e \in c.events : e.n \in Ereports /\ p_case[e.n] = c.cid
    <3>1. c.cid \in Ereports /\ \A e \in c.events : e.n \in Ereports
      BY <2>3 DEF Case
    <3>2. \A n \in Ereports : n # 0
      BY Sizes DEF Ereports
    <3>3. QED
      BY <2>2, <2>3, <3>1, <3>2 DEF Inv, Cases
  <2>5. Used(c.cid) = {}
    <3>1. Cardinality(Used(c.cid)) = 0
      BY <2>2, <2>3, UsedCounts DEF Inv, CountedBy
    <3>2. IsFiniteSet(Used(c.cid))
      BY EreportsFinite DEF Used
    <3>3. QED
      BY <3>1, <3>2, FS_EmptySet
  <2>6. \A n \in Pending : n \in Ereports /\ p_case[n] # c.cid /\ rep[n].dev # d
    BY <2>2, <2>5, PendingDev DEF Used, Inv, CaseAlive
  <2>7. PICK gone : gone = Doomed(r)
    OBVIOUS
  <2>8. /\ gone \subseteq c.events
        /\ r.result # "ISOLATED_SUCCESS" => gone = {e \in c.events : rep[e.n].id = r.id}
    <3>1. gone = IF r.result = "ISOLATED_SUCCESS" THEN c.events
                 ELSE {e \in c.events : rep[e.n].id = r.id}
      BY <2>1, <2>2, <2>3, <2>7 DEF Doomed
    <3>2. QED
      BY <3>1
  <2>9. /\ \A x \in Dev \ {d} : list_case'[x] = list_case[x]
        /\ \/ r.result = "ISOLATED_SUCCESS" /\ list_case'[d] = NONE
           \/ /\ r.result # "ISOLATED_SUCCESS"
              /\ list_case'[d] = [c EXCEPT !.events = c.events \ gone]
        /\ list_case' \in [Dev -> Case \cup {NONE}]
    <3>1. CASE r.result = "ISOLATED_SUCCESS"
      <4>1. list_case' = [list_case EXCEPT ![d] = NONE]
        BY <1>2, <2>1, <3>1 DEF FindAndDelete
      <4>2. QED
        BY <2>3, <3>1, <4>1
    <3>2. CASE r.result # "ISOLATED_SUCCESS"
      <4>1. list_case' = [list_case EXCEPT ![d] = [c EXCEPT !.events = c.events \ gone]]
        BY <1>2, <2>1, <2>2, <2>3, <2>7, <3>2 DEF FindAndDelete
      <4>2. [c EXCEPT !.events = c.events \ gone] \in Case
        BY <2>3 DEF Case
      <4>3. QED
        BY <2>3, <3>2, <4>1, <4>2
    <3>3. QED
      BY <3>1, <3>2
  <2>10. /\ \A x \in Dev : list_case'[x] # NONE =>
              /\ list_case[x] # NONE
              /\ list_case'[x].cid = list_case[x].cid /\ list_case'[x].fires = list_case[x].fires
              /\ list_case'[x].using = list_case[x].using
              /\ list_case'[x].events \subseteq list_case[x].events
         /\ list_case'[d] # NONE => list_case'[d].events = c.events \ gone
    BY <2>2, <2>3, <2>9
  <2>11. evfreed' = evfreed \cup {e.n : e \in gone} /\ evfreed \subseteq Ereports
         /\ evfreed' \subseteq Ereports
    BY <1>2, <2>4, <2>7, <2>8 DEF Inv, TypeOK
  <2>12. Cases'
    BY <2>4, <2>8, <2>10, <2>11 DEF Inv, Cases
  <2>13. CaseAlive'
    BY <2>6, <2>9, PendingDev DEF Inv, CaseAlive
  <2>14. EventAlive'
    <3>1. evfreed' \cap Pending = {}
      BY <2>4, <2>6, <2>8, <2>11 DEF Inv, EventAlive
    <3>2. ASSUME NEW x \in Dev, list_case'[x] # NONE, NEW e \in list_case'[x].events
          PROVE  e.n \notin evfreed'
      <4>1. e \in list_case[x].events /\ list_case[x] # NONE /\ e.n \notin evfreed
        BY <2>10, <3>2 DEF Inv, EventAlive
      <4>2. \A g \in gone : g.n # e.n
        <5>1. CASE x = d
          BY <2>8, <2>9, <2>10, <3>2, <5>1
        <5>2. CASE x # d
          BY <2>4, <2>8, <3>2, <4>1, <5>2 DEF Inv, Cases
        <5>3. QED
          BY <5>1, <5>2
      <4>3. QED
        BY <2>11, <4>1, <4>2
    <3>3. QED
      BY <3>1, <3>2 DEF EventAlive
  <2>15. UsingExact' /\ Counts'
    <3>1. \A x : Used(x)' = Used(x) /\ Members(x)' = Members(x) /\ \A m : Since(x, m)' = Since(x, m)
      BY DEF Used, Members, Since
    <3>2. UsingExact'
      BY <2>10, <3>1, UsedCounts DEF Inv, CountedBy
    <3>3. Counts'
      BY <2>10, <3>1 DEF Inv, Counts
    <3>4. QED
      BY <3>2, <3>3
  <2>16. QED
    BY <2>9, <2>11, <2>12, <2>13, <2>14, <2>15
<1>3. QED
  BY <1>1, <1>2

\* A record is unlinked, and its private data freed when it was a failed
\* isolation: nothing else refers to that data.
LEMMA UnlinkedRecords ==
  ASSUME Inv, NEW p \in DOMAIN repaired, UNCHANGED <<rep, p_case, dpc, cur, aring, hand, out>>,
         repaired' \in Seq(Record), Len(repaired') = Len(repaired) - 1,
         \A i \in 1 .. Len(repaired') : repaired'[i] = repaired[IF i < p THEN i ELSE i + 1],
         \/ UNCHANGED datafrees
         \/ /\ repaired[p].result = "ISOLATED_FAILED"
            /\ datafrees' = [datafrees EXCEPT ![repaired[p].data] = @ + 1]
  PROVE  RecordInv' /\ datafrees' \in [Ereports -> Nat]
<1>1. repaired \in Seq(Record) /\ DOMAIN repaired = 1 .. Len(repaired) /\ Len(repaired) \in Nat
      /\ datafrees \in [Ereports -> Nat]
  BY DEF Inv, TypeOK
<1>2. /\ repaired' \in Seq(Record) /\ Len(repaired') = Len(repaired) - 1
      /\ \A i \in 1 .. Len(repaired') : repaired'[i] = repaired[IF i < p THEN i ELSE i + 1]
  OBVIOUS
<1>3. PICK old : old = [i \in 1 .. Len(repaired) - 1 |-> IF i < p THEN i ELSE i + 1]
  OBVIOUS
<1>4. /\ DOMAIN repaired' = 1 .. Len(repaired) - 1
      /\ \A i \in DOMAIN repaired' : /\ old[i] \in DOMAIN repaired /\ old[i] # p
                                     /\ repaired'[i] = repaired[old[i]]
      /\ \A i, j \in DOMAIN repaired' : old[i] = old[j] => i = j
  <2>1. DOMAIN repaired' = 1 .. Len(repaired) - 1
    BY <1>2
  <2>2. \A i \in 1 .. Len(repaired) - 1 : old[i] = IF i < p THEN i ELSE i + 1
    BY <1>3
  <2>3. p \in Nat /\ p >= 1 /\ p <= Len(repaired)
    BY <1>1
  <2>4. \A i \in 1 .. Len(repaired) - 1 : old[i] \in 1 .. Len(repaired) /\ old[i] # p
    BY <1>1, <2>2, <2>3
  <2>5. \A i, j \in 1 .. Len(repaired) - 1 : old[i] = old[j] => i = j
    BY <1>1, <2>2, <2>3
  <2>6. \A i \in 1 .. Len(repaired) - 1 : repaired'[i] = repaired[old[i]]
    BY <1>2, <2>2
  <2>7. QED
    BY <1>1, <2>1, <2>4, <2>5, <2>6
<1>5. \A n \in Ereports : /\ ByCpumem(n)' <=> ByCpumem(n)
                          /\ Faulty(n)' <=> Faulty(n)
                          /\ Answered(n)' <=> Answered(n)
                          /\ Recorded(n)' => Recorded(n)
  BY <1>4, SamePlaces DEF ByCpumem, Faulty, Answered, Recorded
<1>6. PICK m \in Ereports : m = repaired[p].data
  <2>1. repaired[p] \in Record
    BY <1>1
  <2>2. QED
    BY <2>1 DEF Record
<1>7. ByCpumem(m) => /\ datafrees[m] = 0 /\ ~Faulty(m) /\ ~Answered(m) /\ ~Recorded(m)'
  <2>1. Recorded(m)
    BY <1>6 DEF Recorded
  <2>2. ByCpumem(m) => ~Recorded(m)'
    BY <1>4, <1>6 DEF Recorded, Inv, RecordInv, Data
  <2>3. QED
    BY <2>1, <2>2 DEF Inv, RecordInv, Data
<1>8. \/ datafrees' = datafrees
      \/ /\ ByCpumem(m) /\ p_case[m] # 0 /\ datafrees'[m] = 1
         /\ \A n \in Ereports \ {m} : datafrees'[n] = datafrees[n]
         /\ datafrees' \in [Ereports -> Nat]
  <2>1. CASE UNCHANGED datafrees
    BY <2>1
  <2>2. CASE /\ repaired[p].result = "ISOLATED_FAILED"
             /\ datafrees' = [datafrees EXCEPT ![repaired[p].data] = @ + 1]
    <3>1. ByCpumem(m) /\ p_case[m] # 0
      BY <1>6, <2>2 DEF Inv, RecordInv, Data, RecordFrom
    <3>2. datafrees' = [datafrees EXCEPT ![m] = datafrees[m] + 1] /\ datafrees[m] = 0
      BY <1>6, <1>7, <2>2, <3>1
    <3>3. /\ datafrees'[m] = 1 /\ \A n \in Ereports \ {m} : datafrees'[n] = datafrees[n]
          /\ datafrees' \in [Ereports -> Nat]
      BY <1>1, <3>2
    <3>4. QED
      BY <3>1, <3>3
  <2>3. QED
    BY <2>1, <2>2
<1>9. ASSUME NEW n \in Ereports
      PROVE  /\ datafrees'[n] <= 1
             /\ datafrees'[n] # 0 => p_case'[n] # 0 /\ ByCpumem(n)'
             /\ Recorded(n)' /\ ByCpumem(n)' => datafrees'[n] = 0
             /\ Answered(n)' /\ ByCpumem(n)' => datafrees'[n] = 0 /\ ~Recorded(n)'
             /\ Faulty(n)' /\ ByCpumem(n)' =>
                  datafrees'[n] = 0 /\ ~Recorded(n)' /\ ~Answered(n)'
  <2>1. CASE n = m /\ datafrees' # datafrees
    BY <1>5, <1>7, <1>8, <2>1
  <2>2. CASE n # m \/ datafrees' = datafrees
    <3>1. datafrees'[n] = datafrees[n]
      BY <1>8, <2>2
    <3>2. QED
      BY <1>5, <3>1 DEF Inv, RecordInv, Data
  <2>3. QED
    BY <2>1, <2>2
<1>10. \A b \in Agent : out'[b] # NONE => RecordFrom(out[b])' /\ Sub[rep'[out'[b].data].cls] = b
  BY DEF Inv, RecordInv, Data, RecordFrom, ByCpumem
<1>11. ASSUME NEW i \in DOMAIN repaired' PROVE RecordFrom(repaired[i])'
  BY <1>4 DEF Inv, RecordInv, Data, RecordFrom, ByCpumem
<1>12. \A i, j \in DOMAIN repaired' :
         ByCpumem(repaired[i].data)' /\ repaired'[i].data = repaired'[j].data => i = j
  BY <1>4 DEF Inv, RecordInv, Data, ByCpumem
<1>13. Data'
  BY <1>9, <1>10, <1>11, <1>12 DEF Data
<1>14. RecordUnique'
  <2>1. ASSUME NEW i \in DOMAIN repaired', NEW j \in DOMAIN repaired',
               /\ repaired'[i].dev = repaired'[j].dev /\ repaired'[i].id = repaired'[j].id
               /\ repaired'[i].result = repaired'[j].result
        PROVE  i = j
    <3>1. /\ old[i] \in DOMAIN repaired /\ old[j] \in DOMAIN repaired
          /\ repaired'[i] = repaired[old[i]] /\ repaired'[j] = repaired[old[j]]
      BY <1>4
    <3>2. old[i] = old[j]
      BY <2>1, <3>1 DEF Inv, RecordInv, RecordUnique
    <3>3. QED
      BY <1>4, <3>2
  <2>2. QED
    BY <2>1 DEF RecordUnique
<1>15. QED
  BY <1>1, <1>2, <1>8, <1>13, <1>14 DEF RecordInv

LEMMA SweepRecordInv == ASSUME Inv, SweepRecord PROVE Inv'
<1>1. /\ dpc = "sweep" /\ pos <= Len(repaired) /\ pos \in Nat /\ pos >= 1
      /\ repaired \in Seq(Record) /\ Len(repaired) \in Nat
      /\ UNCHANGED <<rep, ring, p_case, age, dpc, cur, round, aring, hand, out, mode>>
  BY DEF SweepRecord, Inv, TypeOK, Arrival
<1>2. pos \in DOMAIN repaired /\ repaired[pos] \in Record
  BY <1>1
<1>3. PICK r \in Record : r = repaired[pos]
  BY <1>2
<1>4. /\ list_case' = IF Deletes(r) THEN FindAndDelete(r) ELSE list_case
      /\ evfreed' = IF Deletes(r) THEN evfreed \cup {e.n : e \in Doomed(r)} ELSE evfreed
      /\ datafrees' = IF Unlinks(r) /\ r.result = "ISOLATED_FAILED"
                        THEN [datafrees EXCEPT ![r.data] = @ + 1] ELSE datafrees
      /\ \/ /\ repaired' = SubSeq(repaired, 1, pos - 1) \o SubSeq(repaired, pos + 1, Len(repaired))
            /\ UNCHANGED pos
         \/ ~Unlinks(r) /\ pos' = pos + 1 /\ UNCHANGED repaired
  BY <1>3 DEF SweepRecord
<1>5. Pending' = Pending
  <2>1. \A n : n \in Pending' <=> n \in Pending
    BY <1>1, SamePlaces, PendingHas, RingsHaveNext DEF PendingAre, Inv, TypeOK
  <2>2. QED
    BY <2>1
<1>6. \/ Found(r) /\ list_case' = FindAndDelete(r) /\ evfreed' = evfreed \cup {e.n : e \in Doomed(r)}
      \/ UNCHANGED <<list_case, evfreed>>
  <2>1. ~Found(r) => FindAndDelete(r) = list_case /\ Doomed(r) = {}
    <3>1. r.dev \in Dev
      BY DEF Record
    <3>2. list_case[r.dev] # NONE => list_case[r.dev].using \in Nat
      BY <3>1, Sizes DEF Inv, TypeOK, Case
    <3>3. QED
      BY <3>2 DEF Found, FindAndDelete, Doomed
  <2>2. QED
    BY <1>4, <2>1
<1>7. CaseInv' /\ list_case' \in [Dev -> Case \cup {NONE}] /\ evfreed' \subseteq Ereports
  BY <1>1, <1>5, <1>6, DeletedCases
<1>8. RecordInv' /\ repaired' \in Seq(Record) /\ datafrees' \in [Ereports -> Nat]
  <2>1. CASE UNCHANGED repaired /\ ~Unlinks(r)
    <3>1. UNCHANGED datafrees
      BY <1>4, <2>1
    <3>2. \A n : Faulty(n)' => Faulty(n)
      BY <1>1, SamePlaces DEF Faulty
    <3>3. QED
      BY <1>1, <2>1, <3>1, <3>2, SameRecords DEF Inv, TypeOK
  <2>2. CASE repaired' = SubSeq(repaired, 1, pos - 1) \o SubSeq(repaired, pos + 1, Len(repaired))
    <3>1. \/ UNCHANGED datafrees
          \/ /\ repaired[pos].result = "ISOLATED_FAILED"
             /\ datafrees' = [datafrees EXCEPT ![repaired[pos].data] = @ + 1]
      BY <1>3, <1>4
    <3>2. /\ repaired' \in Seq(Record) /\ Len(repaired') = Len(repaired) - 1
          /\ \A i \in 1 .. Len(repaired') : repaired'[i] = repaired[IF i < pos THEN i ELSE i + 1]
      <4>1. pos \in 1 .. Len(repaired)
        BY <1>1
      <4>2. QED
        BY <1>1, <2>2, <4>1, Unlinked, Zenon
    <3>3. QED
      BY <1>1, <1>2, <3>1, <3>2, UnlinkedRecords
  <2>3. QED
    BY <1>4, <2>1, <2>2
<1>9. pos' \in Nat /\ pos' >= 1
  <2>1. pos' = pos \/ pos' = pos + 1
    BY <1>4, Zenon
  <2>2. QED
    BY <1>1, <2>1
<1>10. TypeOK'
  BY <1>1, <1>7, <1>8, <1>9 DEF Inv, TypeOK
<1>11. Arrival' /\ Queued'
  BY <1>1, <1>9, SameQueued DEF Inv, Arrival
<1>12. QED
  BY <1>7, <1>8, <1>10, <1>11 DEF Inv

-----------------------------------------------------------------------------
(* The invariant holds at first, and every step keeps it.                  *)

LEMMA InitInv == Init => Inv
<1> SUFFICES ASSUME Init PROVE Inv
  OBVIOUS
<1> USE DEF Init
<1>1. TypeOK
  BY Sizes DEF TypeOK
<1>2. \A a \in Agent : Places(a) = {0} /\ At(a, 0) = NONE
  BY DEF Places, At
<1>3. Arrival /\ Queued
  BY <1>2 DEF Arrival, Queued
<1>4. Pending = {}
  BY <1>1, <1>2, PendingHas DEF PendingAre, Has, Is
<1>5. Cases /\ Counts /\ UsingExact /\ CaseAlive /\ EventAlive
  BY <1>4 DEF Cases, Counts, UsingExact, CaseAlive, EventAlive
<1>6. Data /\ RecordUnique
  BY <1>2 DEF Data, RecordUnique, Recorded, Answered, Faulty, Has, Is
<1>7. QED
  BY <1>1, <1>3, <1>5, <1>6 DEF Inv, CaseInv, RecordInv

LEMMA StepInv == Inv /\ [Next]_corevars => Inv'
<1> SUFFICES ASSUME Inv, [Next]_corevars PROVE Inv'
  OBVIOUS
<1>1. ASSUME NEW t \in Template, Raise(t) PROVE Inv'
  BY <1>1, RaiseInv
<1>2. CASE Tick
  BY <1>2, TickInv
<1>3. CASE Dispatcher
  BY <1>3, PollInv, InsertInv, FireInv, ForwardInv, EndRoundInv, SweepRecordInv DEF Dispatcher
<1>4. ASSUME NEW a \in Agent, DoAgent(a) PROVE Inv'
  BY <1>4, TakeInv, HandleInv, AgentRingPutInv DEF DoAgent
<1>5. CASE UpdateConf \/ UNCHANGED corevars
  BY <1>5, UpdateConfInv
<1>6. QED
  BY <1>1, <1>2, <1>3, <1>4, <1>5 DEF Next

LEMMA AlwaysInv == Spec => []Inv
  BY InitInv, StepInv, PTL DEF Spec

-----------------------------------------------------------------------------
(* What it gives.                                                          *)

\* The type of every variable: no ring outgrows its size, and m_event_using
\* (fmd_case_insert counts up, do_agent down) is never negative.
THEOREM TypeCorrect == Spec => []TypeOK
<1>1. Inv => TypeOK
  BY DEF Inv
<1>2. QED
  BY <1>1, AlwaysInv, PTL

\* m_event_using is the number of ereports of the case that are on their way,
\* or that put_to_agents has dropped for want of a subscriber.
THEOREM UseCounted == Spec => []UsingExact
<1>1. Inv => UsingExact
  BY DEF Inv, CaseInv
<1>2. QED
  BY <1>1, AlwaysInv, PTL

\* do_agent never counts down in a case that the sweep has freed.
THEOREM CaseNotFreed == Spec => []CaseAlive
<1>1. Inv => CaseAlive
  BY DEF Inv, CaseInv
<1>2. QED
  BY <1>1, AlwaysInv, PTL

\* fmd_case_find_and_delete frees no event object that an agent, the
\* dispatcher or a case still refers to.
THEOREM EventNotFreed == Spec => []EventAlive
<1>1. Inv => EventAlive
  BY DEF Inv, CaseInv
<1>2. QED
  BY <1>1, AlwaysInv, PTL

\* queue_delete_proc frees the private data of an ereport at most once, and
\* not while a fault or an answer refers to it.
THEOREM DataNotFreed == Spec => []FaultDataAlive
<1>1. Inv => FaultDataAlive
  <2> SUFFICES ASSUME Inv PROVE FaultDataAlive
    OBVIOUS
  <2>1. ASSUME NEW it \in InFlight, it.kind = "fault" PROVE datafrees[it.n] = 0
    <3>1. PICK a \in Agent : it \in Held(a)
      BY DEF InFlight
    <3>2. /\ aring[a] \in Seq(Item) /\ hand[a] \in Item \cup {NONE}
          /\ \A i \in 1 .. Len(aring[a]) : aring[a][i] \in Item
      BY DEF Inv, TypeOK
    <3>3. PICK i \in Places(a) : it = At(a, i) /\ it \in Item
      BY <3>1, <3>2 DEF Held, SeqRange, Places, At
    <3>4. it # NONE
      BY <3>3, NoneAssumption
    <3>5. Faulty(it.n) /\ it.n \in Ereports
      BY <2>1, <3>3, <3>4 DEF Faulty, Has, Is, Item
    <3>6. QED
      BY <3>5 DEF Inv, RecordInv, Data
  <2>2. ASSUME NEW a \in Agent, out[a] # NONE PROVE datafrees[out[a].data] = 0
    <3>1. out[a].data \in Ereports
      BY <2>2 DEF Inv, TypeOK, Record
    <3>2. QED
      BY <2>2, <3>1 DEF Inv, RecordInv, Data, Answered
  <2>3. QED
    BY <2>1, <2>2 DEF FaultDataAlive, Inv, RecordInv, Data
<1>2. QED
  BY <1>1, AlwaysInv, PTL

\* agent_ring_put and the sweep keep one record per device, code and result.
THEOREM OneRecord == Spec => []RecordUnique
<1>1. Inv => RecordUnique
  BY DEF Inv, RecordInv
<1>2. QED
  BY <1>1, AlwaysInv, PTL

\* fmd_case_canfire diagnoses a fault only when the rules call for one.
THEOREM DiagnosesSoundly == Spec => DiagnosisSound
<1> DEFINE Sound ==
      \/ \E n \in Ereports : Same(n) /\ rep[n].cls \in FaultClass
      \/ \E m \in Ereports :
           /\ Same(m) /\ rep[m].cls \in SerdClass
           /\ Cardinality({n \in Ereports : Same(n) /\ age[n] < T[rep[m].cls]}) >= N[rep[m].cls]
<1>1. ASSUME Inv, Inv', Insert, dpc' = "fire" PROVE Sound
  <2>1. dpc = "insert" /\ UNCHANGED <<rep, age, cur>>
    BY <1>1 DEF Insert
  <2>2. PICK d, c, hit, s, f : Insertion(d, c, hit, s, f)
    BY <1>1, InsertParts
  <2>3. d = rep[cur].dev /\ CanFire(rep[s.n].cls, s.count, IF s.n = cur THEN 0 ELSE age[s.n])
    BY <1>1, <2>2 DEF Insertion
  <2>4. c \in Case /\ c.cid # 0 /\ age[cur] = 0 /\ rep[c.cid].dev = d
    BY <1>1, <2>1, <2>2, InsertBefore
  <2>5. /\ s.n \in Ereports /\ s.count \in Ereports /\ p_case'[s.n] = c.cid
        /\ rep[s.n].id = rep[cur].id /\ s.count <= Cardinality(Since(c.cid, s.n)')
    BY <1>1, <2>2, InsertCounts, InsertPending
  <2>6. \A n \in Ereports : p_case'[n] = c.cid => rep[n].dev = d
    BY <1>1, <2>1, <2>4 DEF Inv, CaseInv, Cases
  <2>7. Same(s.n)
    BY <2>3, <2>4, <2>5, <2>6 DEF Same
  <2>8. CASE rep[s.n].cls \in FaultClass
    BY <2>5, <2>7, <2>8
  <2>9. CASE N[rep[s.n].cls] <= s.count /\ T[rep[s.n].cls] > age[s.n]
    <3>1. PICK k : k = rep[s.n].cls
      OBVIOUS
    <3>2. k \in Class
      <4>1. s.n \in 1 .. Len(rep)
        <5>1. (s.n \in 1 .. Len(rep))'
          BY <1>1, <2>4, <2>5, InCaseNext DEF Inv
        <5>2. QED
          BY <2>1, <5>1
      <4>2. QED
        BY <1>1, <3>1, <4>1, TemplateParts DEF Inv
    <3>3. age[s.n] \in Nat /\ \A n \in Ereports : age[n] \in Nat
      BY <1>1, <2>5, Sizes DEF Inv, TypeOK
    <3>4. N[k] \in Nat /\ T[k] \in Nat /\ (k \notin SerdClass => T[k] = 0)
      BY <3>2, CoreAssumption
    <3>5. k \in SerdClass
      BY <2>9, <3>1, <3>3, <3>4
    <3>6. PICK G : G = {n \in Ereports : Same(n) /\ age[n] < T[k]}
      OBVIOUS
    <3>7. Since(c.cid, s.n)' \subseteq G
      <4>1. ASSUME NEW n \in Since(c.cid, s.n)' PROVE n \in G
        <5>1. n \in Ereports /\ p_case'[n] = c.cid /\ rep[n].id = rep[s.n].id /\ age[n] <= age[s.n]
          BY <2>1 DEF Since, Members
        <5>2. Same(n)
          BY <2>3, <2>4, <2>5, <2>6, <5>1 DEF Same
        <5>3. age[n] < T[k]
          BY <2>9, <3>1, <3>3, <3>4, <5>1
        <5>4. QED
          BY <3>6, <5>1, <5>2, <5>3
      <4>2. QED
        BY <4>1
    <3>8. /\ Cardinality(Since(c.cid, s.n)') <= Cardinality(G)
          /\ Cardinality(Since(c.cid, s.n)') \in Nat /\ Cardinality(G) \in Nat
      <4>1. G \subseteq Ereports
        BY <3>6
      <4>2. QED
        BY <3>7, <4>1, EreportsFinite, FS_Subset, Sizes
    <3>9. s.count \in Nat
      BY <2>5, Sizes DEF Ereports
    <3>10. Cardinality(G) >= N[k]
      BY <2>5, <2>9, <3>1, <3>4, <3>8, <3>9
    <3>11. QED
      BY <2>5, <2>7, <3>1, <3>5, <3>6, <3>10
  <2>10. QED
    BY <2>3, <2>4, <2>8, <2>9 DEF CanFire
<1>2. ASSUME Inv, Inv', [Next]_corevars PROVE [Diagnosing => Sound]_corevars
  <2> HIDE DEF Sound
  <2>1. ASSUME Diagnosing, Next PROVE Insert
    BY <2>1 DEF Diagnosing, Next, Dispatcher, DoAgent, Raise, Tick, Poll, Fire, Forward, EndRound,
                SweepRecord, SweepEnd, Take, Handle, AgentRingPut, UpdateConf
  <2>2. QED
    BY <1>1, <1>2, <2>1 DEF Diagnosing
<1>3. QED
  BY <1>2, AlwaysInv, PTL DEF Spec, DiagnosisSound
=============================================================================
