------------------------------ MODULE FmdCore ------------------------------
(***************************************************************************)
(* The diagnosis core: the dispatcher thread (queue_start in fmd_queue.c), *)
(* the cases it keeps (fmd_case.c), the agent threads (do_agent in         *)
(* evt_agent.c, with the handlers of the cpumem, disk and trace agents)    *)
(* and the repaired list through which the agents answer.                  *)
(*                                                                         *)
(* Ereport n is the n-th one the sources raise; n also names the event     *)
(* object and the private data blob allocated for it, and a case is named  *)
(* by the ereport that created it.  The rings are the FIFO queues of       *)
(* FmdQueueSpec, which FmdRing implements.  Time is kept as ages that      *)
(* saturate at AgeCap, past every threshold they are compared with.        *)
(***************************************************************************)
EXTENDS Naturals, Sequences, FiniteSets

CONSTANTS Dev,          \* devices: (dev_name, dev_id) pairs
          Begins,       \* <<d, e>>: same dev_id, and d's name begins with e's
          Id,           \* fault codes: evt_id
          Class,        \* event classes
          Ereport,      \* the classes that start with "ereport."
          FaultClass,   \* classes of the "fault" lines of the .esc files
          SerdClass,    \* classes of their "engine" lines
          N, T,         \* per class: the SERD threshold and window, else 0
          Handler,      \* per class: how its agent deals with a fault
          Agent,        \* agent modules
          Sub,          \* per class: the first agent that subscribes, or NONE
          Modes,        \* values of evt_handle_mode an administrator sets
          Template,     \* what sources report: [dev, id, cls] records
          REPAIRED_N, REPAIRED_T,
          DELETE_CIRCLE,
          RING_SIZE,
          NONE,
          MaxEreports,  \* bound: ereports raised in a behaviour
          AgeCap        \* bound: ages are told apart up to here

ASSUME CoreAssumption ==
  /\ Template \subseteq [dev : Dev, id : Id, cls : Class]
  /\ Ereport \subseteq Class /\ FaultClass \subseteq Class /\ SerdClass \subseteq Class
  /\ N \in [Class -> Nat] /\ T \in [Class -> Nat]
  /\ \A c \in Class \ SerdClass : N[c] = 0 /\ T[c] = 0
  /\ Handler \in [Class -> {"cache", "qpi", "mempage", "unhandled",
                            "temp", "space", "badblocks", "trace"}]
  /\ Sub \in [Class -> Agent \cup {NONE}] /\ NONE \notin Agent
  /\ Modes \subseteq {"auto", "manual", "define"}
  /\ Begins \subseteq Dev \X Dev /\ \A d \in Dev : <<d, d>> \in Begins
  /\ REPAIRED_N \in Nat /\ REPAIRED_T \in Nat /\ REPAIRED_T <= AgeCap
  /\ \A c \in Class : T[c] <= AgeCap
  /\ DELETE_CIRCLE \in Nat \ {0} /\ RING_SIZE \in Nat \ {0}
  /\ MaxEreports \in Nat /\ AgeCap \in Nat

VARIABLES rep,        \* rep[n]: the template of ereport n
          ring,       \* queue_ring: ereports not yet dispatched
          list_case,  \* per device: its case, or NONE
          p_case,     \* p_case[n]: the case ereport n was added to, 0 before
          age,        \* age[n]: seconds since ereport n was added to its case
          dpc, cur,   \* dispatcher: next step and ereport in hand
          round,      \* the count of queue_start
          pos,        \* the list position of queue_delete_proc
          aring,      \* per agent: its ring
          hand,       \* per agent: the item it is handling, or NONE
          out,        \* per agent: the list event it is about to put, or NONE
          mode,       \* evt_handle_mode of the one agent that looks at it, cpumem
          repaired,   \* queue_repaired_list
          evfreed,    \* ereport objects freed
          datafrees   \* per ereport: how often its data was freed

corevars == <<rep, ring, list_case, p_case, age, dpc, cur, round, pos, aring,
              hand, out, mode, repaired, evfreed, datafrees>>
memvars  == <<mode, evfreed, datafrees>>

Ereports == 1 .. MaxEreports

NewCase(n) == [cid |-> n, fires |-> 0, using |-> 0, events |-> {}]

Init ==
  /\ rep = <<>> /\ ring = <<>>
  /\ list_case = [d \in Dev |-> NONE]
  /\ p_case = [n \in Ereports |-> 0]
  /\ age = [n \in Ereports |-> 0]
  /\ dpc = "poll" /\ cur = 0 /\ round = 1 /\ pos = 0
  /\ aring = [a \in Agent |-> <<>>]
  /\ hand = [a \in Agent |-> NONE]
  /\ out = [a \in Agent |-> NONE]
  /\ mode \in Modes
  /\ repaired = <<>>
  /\ evfreed = {}
  /\ datafrees = [n \in Ereports |-> 0]

-----------------------------------------------------------------------------
(* Sources and the clock.                                                  *)

\* fmd_create_ereport and fmd_queue_dispatch: the source waits for room.
Raise(t) ==
  /\ Len(rep) < MaxEreports
  /\ Len(ring) < RING_SIZE
  /\ rep' = Append(rep, t)
  /\ ring' = Append(ring, Len(rep) + 1)
  /\ UNCHANGED <<list_case, p_case, age, dpc, cur, round, pos, aring, hand, out,
                 repaired, memvars>>

Older(k) == IF k < AgeCap THEN k + 1 ELSE k

Tick ==
  /\ age' = [n \in Ereports |-> IF p_case[n] = 0 THEN 0 ELSE Older(age[n])]
  /\ repaired' = [i \in DOMAIN repaired |-> [repaired[i] EXCEPT !.age = Older(@)]]
  /\ out' = [a \in Agent |-> IF out[a] = NONE THEN NONE
                             ELSE [out[a] EXCEPT !.age = Older(@)]]
  /\ UNCHANGED <<rep, ring, list_case, p_case, dpc, cur, round, pos, aring, hand, memvars>>

-----------------------------------------------------------------------------
(* The dispatcher: one round of queue_start drains the ring, then sweeps   *)
(* the repaired list in every DELETE_CIRCLE-th round.                      *)

\* ring_del and event_disp_dest: a class that is no ereport is lost.
Poll ==
  /\ dpc = "poll"
  /\ ring # <<>>
  /\ ring' = Tail(ring)
  /\ IF rep[Head(ring)].cls \in Ereport
       THEN cur' = Head(ring) /\ dpc' = "insert"
       ELSE UNCHANGED <<cur, dpc>>
  /\ UNCHANGED <<rep, list_case, p_case, age, round, pos, aring, hand, out, repaired, memvars>>

\* Mutant: the engine fires one event early.
CanFireEarly(c, count, howold) ==
  \/ c \in FaultClass \ SerdClass
  \/ N[c] <= count + 1 /\ T[c] > howold

\* fmd_case_canfire, on the event object linked in the case.  A report class
\* has N = T = 0, so its age is never below its window.
CanFire(c, count, howold) ==
  \/ c \in FaultClass \ SerdClass
  \/ N[c] <= count /\ T[c] > howold

\* fmd_case_insert up to put_to_agents: classification, add_case_list,
\* fmd_event_add and the state change of fmd_case_fire.
Insert ==
  /\ dpc = "insert"
  /\ LET d      == rep[cur].dev
         c      == IF list_case[d] = NONE THEN NewCase(cur) ELSE list_case[d]
         hit    == {e \in c.events : rep[e.n].id = rep[cur].id}
         stored == IF hit = {} THEN [n |-> cur, count |-> 1]
                   ELSE LET e == CHOOSE e \in hit : TRUE IN [e EXCEPT !.count = @ + 1]
         fire   == CanFire(rep[stored.n].cls, stored.count,
                           IF stored.n = cur THEN 0 ELSE age[stored.n])
     IN /\ list_case' = [list_case EXCEPT ![d] =
             [c EXCEPT !.events = (@ \ hit) \cup {stored},
                       !.using  = @ + 1,
                       !.fires  = IF fire THEN @ + 1 ELSE @]]
        /\ p_case' = [p_case EXCEPT ![cur] = c.cid]
        /\ dpc' = IF fire THEN "fire" ELSE "forward"
  /\ UNCHANGED <<rep, ring, age, cur, round, pos, aring, hand, out, repaired, memvars>>

\* Mutant: a slot of the agent's ring must stay free.
PutToAgentsSpare(item) ==
  LET a == Sub[rep[item.n].cls]
  IN IF a = NONE
       THEN UNCHANGED aring
       ELSE /\ Len(aring[a]) + 1 < RING_SIZE
            /\ aring' = [aring EXCEPT ![a] = Append(@, item)]

\* put_to_agents: the first subscriber gets the event, and the dispatcher
\* waits for room in its ring; without a subscriber the event is dropped.
PutToAgents(item) ==
  LET a == Sub[rep[item.n].cls]
  IN IF a = NONE
       THEN UNCHANGED aring
       ELSE /\ Len(aring[a]) < RING_SIZE
            /\ aring' = [aring EXCEPT ![a] = Append(@, item)]

\* The fault event of fmd_case_fire: its ev_refs is the case's fire count.
Fire ==
  /\ dpc = "fire"
  /\ PutToAgents([kind |-> "fault", n |-> cur, refs |-> list_case[rep[cur].dev].fires])
  /\ dpc' = "forward"
  /\ UNCHANGED <<rep, ring, list_case, p_case, age, cur, round, pos, hand, out, repaired, memvars>>

\* The ereport itself goes to the agent, to be logged.
Forward ==
  /\ dpc = "forward"
  /\ PutToAgents([kind |-> "ereport", n |-> cur, refs |-> 0])
  /\ dpc' = "poll" /\ cur' = 0
  /\ UNCHANGED <<rep, ring, list_case, p_case, age, round, pos, hand, out, repaired, memvars>>

\* The ring is empty: the round ends.  queue_delete_proc takes
\* evt_repaired_lock, which the dispatcher holds while dpc = "sweep".
EndRound ==
  /\ dpc = "poll"
  /\ ring = <<>>
  /\ IF round = DELETE_CIRCLE
       THEN dpc' = "sweep" /\ pos' = 1 /\ UNCHANGED round
       ELSE round' = round + 1 /\ UNCHANGED <<dpc, pos>>
  /\ UNCHANGED <<rep, ring, list_case, p_case, age, cur, aring, hand, out, repaired, memvars>>

\* What agents answer: LIST_RESULT_MASK is set in the failures and in MANUAL.
Failure == {"ISOLATED_FAILED", "REPAIRED_FAILED", "REPAIRED_MANUAL"}
Result  == Failure \cup {"ISOLATED_SUCCESS", "REPAIRED_SUCCESS", "ZERO"}

\* Mutant: the events of a case in use are freed too.
DoomedBusy(r) ==
  LET c == list_case[r.dev]
  IN IF c = NONE THEN {}
     ELSE IF r.result = "ISOLATED_SUCCESS" THEN c.events
     ELSE {e \in c.events : rep[e.n].id = r.id}

\* The events of the record's case that fmd_case_find_and_delete would free:
\* all of them when the device was isolated, else the one with its evt_id.
\* A case with m_event_using > 0 is passed over.
Doomed(r) ==
  LET c == list_case[r.dev]
  IN IF c = NONE \/ c.using > 0 THEN {}
     ELSE IF r.result = "ISOLATED_SUCCESS" THEN c.events
     ELSE {e \in c.events : rep[e.n].id = r.id}

\* Mutant: m_event_using is not looked at.
FoundBusy(r) ==
  /\ list_case[r.dev] # NONE
  /\ r.result = "ISOLATED_SUCCESS" \/ Doomed(r) # {}

\* fmd_case_find_and_delete returns 0.
Found(r) ==
  /\ list_case[r.dev] # NONE
  /\ list_case[r.dev].using = 0
  /\ r.result = "ISOLATED_SUCCESS" \/ Doomed(r) # {}

\* Mutant: an isolated device loses its events and keeps its case.
FindAndDeleteKeepsCase(r) ==
  IF ~Found(r) THEN list_case
  ELSE [list_case EXCEPT ![r.dev].events = @ \ Doomed(r)]

\* fmd_case_find_and_delete: an isolated device loses its case; otherwise
\* list_empty(pos) asks whether the case is alone on its own list node,
\* which it never is, so the case stays even when its last event has gone.
\* The row that ras_store_rep_event adds for an isolated device is left out:
\* the daemon never reads its database, and the result is ignored.
FindAndDelete(r) ==
  IF ~Found(r) THEN list_case
  ELSE IF r.result = "ISOLATED_SUCCESS" THEN [list_case EXCEPT ![r.dev] = NONE]
  ELSE [list_case EXCEPT ![r.dev].events = @ \ Doomed(r)]

\* The record has aged without the fault coming back too often.
Expired(r) ==
  /\ r.result \in {"REPAIRED_SUCCESS", "ZERO"}
  /\ REPAIRED_T <= r.age
  /\ r.refs < REPAIRED_N

\* The records whose case events queue_delete_proc asks to delete ...
Deletes(r) == r.result \in {"ISOLATED_FAILED", "ISOLATED_SUCCESS"} \/ Expired(r)

\* Mutant: an expired record without case event stays.
UnlinksFoundOnly(r) ==
  \/ r.result = "ISOLATED_FAILED" /\ ~Found(r)
  \/ Expired(r) /\ Found(r)

\* ... and the ones it unlinks and frees; those of a failed isolation take
\* their private data along.
Unlinks(r) == (r.result = "ISOLATED_FAILED" /\ ~Found(r)) \/ Expired(r)

\* Mutant: the list_del of a failed isolation is forgotten.
SweepRecordKeeps ==
  /\ dpc = "sweep"
  /\ pos <= Len(repaired)
  /\ LET r == repaired[pos]
     IN /\ list_case' = IF Deletes(r) THEN FindAndDelete(r) ELSE list_case
        /\ evfreed' = IF Deletes(r) THEN evfreed \cup {e.n : e \in Doomed(r)} ELSE evfreed
        /\ datafrees' = IF Unlinks(r) /\ r.result = "ISOLATED_FAILED"
                          THEN [datafrees EXCEPT ![r.data] = @ + 1] ELSE datafrees
        /\ pos' = pos + 1 /\ UNCHANGED repaired
  /\ UNCHANGED <<rep, ring, p_case, age, dpc, cur, round, aring, hand, out, mode>>

\* One record of queue_delete_proc's loop.
SweepRecord ==
  /\ dpc = "sweep"
  /\ pos <= Len(repaired)
  /\ LET r == repaired[pos]
     IN /\ list_case' = IF Deletes(r) THEN FindAndDelete(r) ELSE list_case
        /\ evfreed' = IF Deletes(r) THEN evfreed \cup {e.n : e \in Doomed(r)} ELSE evfreed
        /\ datafrees' = IF Unlinks(r) /\ r.result = "ISOLATED_FAILED"
                          THEN [datafrees EXCEPT ![r.data] = @ + 1] ELSE datafrees
        /\ IF Unlinks(r)
             THEN /\ repaired' = SubSeq(repaired, 1, pos - 1)
                                 \o SubSeq(repaired, pos + 1, Len(repaired))
                  /\ UNCHANGED pos
             ELSE pos' = pos + 1 /\ UNCHANGED repaired
  /\ UNCHANGED <<rep, ring, p_case, age, dpc, cur, round, aring, hand, out, mode>>

SweepEnd ==
  /\ dpc = "sweep"
  /\ pos > Len(repaired)
  /\ dpc' = "poll" /\ pos' = 0 /\ round' = 1
  /\ UNCHANGED <<rep, ring, list_case, p_case, age, cur, aring, hand, out, repaired, memvars>>

Dispatcher == Poll \/ Insert \/ Fire \/ Forward \/ EndRound \/ SweepRecord \/ SweepEnd

-----------------------------------------------------------------------------
(* Agent a: do_agent.                                                      *)

Take(a) ==
  /\ hand[a] = NONE /\ out[a] = NONE
  /\ aring[a] # <<>>
  /\ hand' = [hand EXCEPT ![a] = Head(aring[a])]
  /\ aring' = [aring EXCEPT ![a] = Tail(@)]
  /\ UNCHANGED <<rep, ring, list_case, p_case, age, dpc, cur, round, pos, out, repaired, memvars>>

\* __handle_cache climbs with ev_refs from a cache flush to taking the CPUs
\* offline, and gives up after that.
CacheResult(refs) ==
  CASE refs = 1 -> {"REPAIRED_SUCCESS", "REPAIRED_FAILED"}
    [] refs = 2 -> {"ISOLATED_SUCCESS", "ISOLATED_FAILED"}
    [] OTHER    -> {"REPAIRED_FAILED"}

\* evt_handle_qpi, and evt_handle_mempage, which looks for a page address first.
QpiResult     == {"ISOLATED_SUCCESS", "ISOLATED_FAILED"}
MempageResult == QpiResult \cup {"REPAIRED_FAILED"}

\* handle_disk_fault_event: only an over-temperature is acted upon.
DiskHandler == {"temp", "space", "badblocks"}
DiskResult(h) ==
  CASE h = "temp"  -> {"REPAIRED_SUCCESS", "REPAIRED_FAILED"}
    [] h = "space" -> {"REPAIRED_SUCCESS"}
    [] OTHER       -> {"REPAIRED_FAILED"}

\* cmea_evt_processing: the handlers of the cpumem agent.
CpumemHandler == {"cache", "qpi", "mempage", "unhandled"}
CpumemResult(h, refs) ==
  CASE h = "cache"   -> CacheResult(refs)
    [] h = "qpi"     -> QpiResult
    [] h = "mempage" -> MempageResult
    [] OTHER         -> {"REPAIRED_FAILED"}

\* cpumem_handle_event, the only one to look at the handle mode.
CpumemAnswers(item) ==
  IF item.kind = "ereport" THEN {}
  ELSE CASE mode = "auto"   -> CpumemResult(Handler[rep[item.n].cls], item.refs)
         [] mode = "manual" -> {"REPAIRED_MANUAL"}
         [] OTHER           -> {"ZERO"}

\* disk_handle_event answers every event, the ereports with result 0.
DiskAnswers(item) ==
  IF item.kind = "ereport" THEN {"ZERO"} ELSE DiskResult(Handler[rep[item.n].cls])

\* trace_handle_event.
TraceAnswers(item) == IF item.kind = "ereport" THEN {} ELSE {"ISOLATED_SUCCESS"}

\* evt_handle of the agents: the possible results of the list event it
\* returns, empty when it returns NULL.
Answers(item) ==
  LET h == Handler[rep[item.n].cls]
  IN CASE h \in CpumemHandler -> CpumemAnswers(item)
       [] h \in DiskHandler   -> DiskAnswers(item)
       [] OTHER               -> TraceAnswers(item)

\* fmd_create_listevent.
ListEvent(item, res) ==
  [dev |-> rep[item.n].dev, id |-> rep[item.n].id, result |-> res,
   refs |-> item.refs, age |-> 0, data |-> item.n]

\* Mutant: faults count down too.
ReleaseAll(item) ==
  LET d == rep[item.n].dev
  IN IF list_case[d] = NONE THEN list_case
     ELSE [list_case EXCEPT ![d].using = @ - 1]

\* atomic_dec of m_event_using, for the ereports only.
Release(item) ==
  LET d == rep[item.n].dev
  IN IF item.kind = "fault" THEN list_case
     ELSE IF list_case[d] = NONE \/ list_case[d].cid # p_case[item.n]
            THEN list_case   \* a write to a freed case: ruled out by CaseAlive
     ELSE [list_case EXCEPT ![d].using = @ - 1]

Handle(a) ==
  /\ hand[a] # NONE
  /\ \/ /\ Answers(hand[a]) = {}
        /\ UNCHANGED out
     \/ \E res \in Answers(hand[a]) :
          out' = [out EXCEPT ![a] = ListEvent(hand[a], res)]
  /\ list_case' = Release(hand[a])
  /\ hand' = [hand EXCEPT ![a] = NONE]
  /\ UNCHANGED <<rep, ring, p_case, age, dpc, cur, round, pos, aring, repaired, memvars>>

\* Mutant: the fire count is compared as well.
SameRecordRefs(r, new) ==
  /\ <<r.dev, new.dev>> \in Begins
  /\ r.id = new.id /\ r.result = new.result /\ r.refs = new.refs

\* The records agent_ring_put takes for the same fault.  The names are
\* compared over the length of the new one only.
SameRecord(r, new) ==
  <<r.dev, new.dev>> \in Begins /\ r.id = new.id /\ r.result = new.result

\* agent_ring_put, under evt_repaired_lock: refresh the first such record,
\* or append the list event.
RingPut(list, new) ==
  LET same == {i \in DOMAIN list : SameRecord(list[i], new)}
  IN IF same = {} THEN Append(list, new)
     ELSE LET i == CHOOSE i \in same : \A j \in same : i <= j
          IN [list EXCEPT ![i] = [@ EXCEPT !.age = new.age, !.refs = new.refs]]

AgentRingPut(a) ==
  /\ out[a] # NONE
  /\ dpc # "sweep"
  /\ repaired' = RingPut(repaired, out[a])
  /\ out' = [out EXCEPT ![a] = NONE]
  /\ UNCHANGED <<rep, ring, list_case, p_case, age, dpc, cur, round, pos, aring, hand, memvars>>

\* agent_module_update_conf, on an administrator's request: the next event
\* is handled in the new mode.
UpdateConf ==
  /\ mode' \in Modes \ {mode}
  /\ UNCHANGED <<rep, ring, list_case, p_case, age, dpc, cur, round, pos, aring, hand, out,
                 repaired, evfreed, datafrees>>

DoAgent(a) == Take(a) \/ Handle(a) \/ AgentRingPut(a)

-----------------------------------------------------------------------------
Next ==
  \/ \E t \in Template : Raise(t)
  \/ Tick
  \/ Dispatcher
  \/ \E a \in Agent : DoAgent(a)
  \/ UpdateConf

Spec == Init /\ [][Next]_corevars

(***************************************************************************)
(* Fairness.  The dispatcher and the agents are threads that always run    *)
(* (weak fairness); evt_repaired_lock is free for a second after every     *)
(* sweep, so an agent that waits for it gets it (strong fairness); time    *)
(* passes.  The sources owe nothing.                                       *)
(***************************************************************************)
Fairness ==
  /\ WF_corevars(Dispatcher)
  /\ \A a \in Agent : WF_corevars(DoAgent(a)) /\ SF_corevars(AgentRingPut(a))
  /\ WF_corevars(Tick)

FairSpec == Spec /\ Fairness

-----------------------------------------------------------------------------
(* Properties.                                                             *)

SeqRange(s) == {s[i] : i \in DOMAIN s}

Item   == [kind : {"fault", "ereport"}, n : Ereports, refs : 0 .. MaxEreports]
Record == [dev : Dev, id : Id, result : Result, refs : 0 .. MaxEreports,
           age : 0 .. AgeCap, data : Ereports]
Case   == [cid : Ereports, fires : 0 .. MaxEreports, using : 0 .. MaxEreports,
           events : SUBSET [n : Ereports, count : Ereports]]

\* The null pointer is none of them.
ASSUME NoneAssumption == NONE \notin Item \cup Record \cup Case

\* Every variable has its type; in particular m_event_using never drops
\* below zero, and no queue outgrows its ring.
TypeOK ==
  /\ rep \in Seq(Template) /\ Len(rep) <= MaxEreports
  /\ ring \in Seq(Ereports) /\ Len(ring) <= RING_SIZE
  /\ list_case \in [Dev -> Case \cup {NONE}]
  /\ p_case \in [Ereports -> 0 .. MaxEreports]
  /\ age \in [Ereports -> 0 .. AgeCap]
  /\ dpc \in {"poll", "insert", "fire", "forward", "sweep"}
  /\ cur \in 0 .. MaxEreports /\ round \in 1 .. DELETE_CIRCLE /\ pos \in Nat
  /\ aring \in [Agent -> Seq(Item)] /\ \A a \in Agent : Len(aring[a]) <= RING_SIZE
  /\ hand \in [Agent -> Item \cup {NONE}]
  /\ out \in [Agent -> Record \cup {NONE}]
  /\ mode \in Modes
  /\ repaired \in Seq(Record)
  /\ evfreed \subseteq Ereports
  /\ datafrees \in [Ereports -> Nat]

\* What an agent has, or will have, to handle.
Held(a)   == SeqRange(aring[a]) \cup ({hand[a]} \ {NONE})
InFlight  == UNION {Held(a) : a \in Agent}
Pending   == {it.n : it \in {x \in InFlight : x.kind = "ereport"}}
             \cup (IF dpc \in {"fire", "forward"} THEN {cur} ELSE {})

\* m_event_using counts exactly the ereports of the case that the dispatcher
\* or an agent still has, plus those no agent subscribes to: put_to_agents
\* drops them after fmd_event_add has counted them, and nobody counts down.
UsingExact ==
  \A d \in Dev : list_case[d] # NONE =>
    list_case[d].using =
      Cardinality({n \in Ereports : /\ p_case[n] = list_case[d].cid
                                    /\ n \in Pending \/ Sub[rep[n].cls] = NONE})

\* do_agent counts down through evt->p_case: the case an ereport belongs to
\* is never freed, nor replaced, while the ereport is on its way.
CaseAlive ==
  \A n \in Pending : /\ list_case[rep[n].dev] # NONE
                     /\ list_case[rep[n].dev].cid = p_case[n]

\* The sweep frees the event objects of a case: never one that an agent or
\* the dispatcher still has, nor one that is still linked in a case.
EventAlive ==
  /\ evfreed \cap Pending = {}
  /\ \A d \in Dev : list_case[d] # NONE =>
       evfreed \cap {e.n : e \in list_case[d].events} = {}

\* A fault shares the private data of its ereport, and so does the list
\* event made from it: whatever the sweep frees, the data of a fault that an
\* agent still has, or of an answer that is not yet in the repaired list, is
\* intact, and no data is freed twice.
FaultDataAlive ==
  /\ \A it \in InFlight : it.kind = "fault" => datafrees[it.n] = 0
  /\ \A a \in Agent : out[a] # NONE => datafrees[out[a].data] = 0
  /\ \A n \in Ereports : datafrees[n] <= 1

\* agent_ring_put keeps one record per device, fault code and result.
RecordUnique ==
  \A i, j \in DOMAIN repaired :
    /\ repaired[i].dev = repaired[j].dev
    /\ repaired[i].id = repaired[j].id
    /\ repaired[i].result = repaired[j].result
    => i = j

\* A fault is diagnosed only when the rules call for one: the class is listed
\* as a fault, or as many ereports of this device and fault code as the SERD
\* engine asks for have come within its window, counted from the ereports
\* themselves and not from the counter and the time stamp the case keeps.
Diagnosing == dpc = "insert" /\ dpc' = "fire"
Same(n)    == p_case'[n] # 0 /\ rep[n].dev = rep[cur].dev /\ rep[n].id = rep[cur].id
DiagnosisSound ==
  [][Diagnosing =>
       \/ \E n \in Ereports : Same(n) /\ rep[n].cls \in FaultClass
       \/ \E m \in Ereports :
            /\ Same(m) /\ rep[m].cls \in SerdClass
            /\ Cardinality({n \in Ereports : Same(n) /\ age[n] < T[rep[m].cls]})
                 >= N[rep[m].cls]]_corevars

\* Every ereport a source raises reaches the agent that subscribes to it and
\* is handled there: no dispatcher, agent and sweep wait for each other.
Handled ==
  \A n \in Ereports :
    (/\ n <= Len(rep) /\ rep[n].cls \in Ereport /\ Sub[rep[n].cls] # NONE)
      ~> (p_case[n] # 0 /\ n \notin Pending)

\* A repair that holds is forgotten: its record leaves the repaired list.
RepairedForgotten ==
  \A d \in Dev, i \in Id :
    LET Waiting == \E r \in SeqRange(repaired) :
                     /\ r.dev = d /\ r.id = i /\ r.refs < REPAIRED_N
                     /\ r.result \in {"REPAIRED_SUCCESS", "ZERO"}
    IN Waiting ~> ~Waiting

\* An isolated device loses its case, once no agent uses the case any more.
IsolatedForgotten ==
  \A d \in Dev :
    (\E r \in SeqRange(repaired) : r.dev = d /\ r.result = "ISOLATED_SUCCESS")
      ~> list_case[d] = NONE

=============================================================================
