----------------------------- MODULE CpumemAgent ----------------------------
(***************************************************************************)
(* What the cpumem agent does about a fault (evtagent/cpumem: cpumem_agent, *)
(* evt_process, cache, sysfs) on top of Kfm: flush a cache, take offline    *)
(* all CPUs that share a cache, one CPU, or a page of memory.               *)
(*                                                                         *)
(* Which CPUs share a cache is read from sysfs once and kept in the table  *)
(* caches, which grows as CPUs are read, though not always far enough; a   *)
(* CPU that is offline has no cache directory.  An administrator may plug  *)
(* and unplug CPUs between any two steps.                                  *)
(***************************************************************************)
EXTENDS Kfm, Sequences

CONSTANTS Kinds,    \* the caches of a CPU in the order of their index directories
          Shares,   \* [cpu][kind]: the CPUs that share that cache
          MIN_CPUS, \* CPUs the table first has room for, 8 in the source
          Fault,    \* fault events the dispatcher may hand to the agent
          MaxPlug   \* bound: how often an administrator plugs or unplugs a CPU

\* A fault names a CPU of the machine, and shared_cpu_map lists the CPU it
\* belongs to.
ASSUME AgentAssumption ==
  /\ None \notin Cpu /\ Cpu \subseteq Nat /\ MIN_CPUS \in Nat
  /\ Kinds \in Seq({Kinds[i] : i \in DOMAIN Kinds})
  /\ \A f \in Fault : f.cpu \in Cpu /\ f.page \in Page \cup {None}
  /\ \A c \in Cpu, i \in DOMAIN Kinds : c \in Shares[c][Kinds[i]]

VARIABLES apc,      \* the agent's step
          fault,    \* the event in hand
          caches,   \* None, or per CPU: None or the list of [kind, map] read so far
          cachelen, \* the CPUs it has room for
          rd,       \* reading the table: directories left, the CPU at, which pass
          mask,     \* CPUs still to be taken offline
          ret,      \* success so far
          result,   \* the LIST_ event sent back
          churn,    \* an administrator has plugged or unplugged since the table was last read
          plugs     \* how often so far

avars == <<apc, fault, caches, cachelen, rd, mask, ret, result, churn, plugs>>
vars  == <<kvars, avars>>

NoRead == [todo |-> {}, cpu |-> None, again |-> FALSE]

Init ==
  /\ KfmInit
  /\ apc = "idle" /\ fault = None /\ caches = None /\ cachelen = 0 /\ rd = NoRead
  /\ mask = {} /\ ret = TRUE /\ result = "none" /\ churn = FALSE /\ plugs = 0

NoCaches   == [c \in Cpu |-> None]
Go(step)   == apc' = step
Answer(r)  == apc' = "done" /\ result' = r

----------------------------------------------------------------------------
\* cpumem_handle_event, __handle_fault_event and the table g_evt_handler:
\* which first step a fault leads to, and what is answered at once.
FirstStep(f) ==
  IF f.mode = "manual" THEN "LIST_REPAIRED_MANUAL"
  ELSE CASE f.type \in {"cache", "tlb"} /\ f.action = 1 -> "flush"
         [] f.type \in {"cache", "tlb"} /\ f.action = 2 -> "lookup"
         [] f.type = "qpi"                              -> "single"
         [] f.type = "mempage" /\ f.page_error          -> "page"
         [] OTHER                                       -> "LIST_REPAIRED_FAILED"

Steps == {"flush", "lookup", "single", "page"}

Take(f) ==
  /\ apc = "idle"
  /\ Begin(Agent)
  /\ fault' = f
  /\ IF FirstStep(f) \in Steps THEN Go(FirstStep(f)) /\ result' = "none"
     ELSE Answer(FirstStep(f))
  /\ bad' = IF f.type = "cache" THEN bad \cup ({f.cpu} \cap online) ELSE bad
  /\ mask' = {} /\ ret' = TRUE
  /\ UNCHANGED <<online, cd, poisoned, nl, module, caches, cachelen, rd, churn, plugs>>

\* The LIST_ event goes back to the dispatcher.
Return ==
  /\ apc = "done"
  /\ Go("idle") /\ Leave(Agent)
  /\ fault' = None /\ result' = "none"
  /\ req' = [req EXCEPT ![Agent] = Idle]
  /\ UNCHANGED <<mutex, g_cache_status, cpus, module, caches, cachelen, rd, mask, ret, churn, plugs>>

----------------------------------------------------------------------------
\* Repair: kfm_cache_flush, and its answer.
Flush ==
  /\ apc = "flush" /\ req[Agent].pc = "idle"
  /\ Send(Agent, "flush", fault.cpu)
  /\ UNCHANGED <<mutex, g_cache_status, cpus, module, busy, avars>>

Flushed ==
  /\ apc = "flush" /\ req[Agent].pc \in {"done", "failed"}
  /\ Answer(IF req[Agent].pc = "done" THEN "LIST_REPAIRED_SUCCESS" ELSE "LIST_REPAIRED_FAILED")
  /\ UNCHANGED <<kvars, fault, caches, cachelen, rd, mask, ret, churn, plugs>>

----------------------------------------------------------------------------
\* cache_to_cpus: read the table when there is none, and once more when it
\* has nothing about the CPU ("Maybe, cpu hotplug, add new cpu").
Lookup ==
  /\ apc = "lookup"
  /\ IF caches = None \/ (caches[fault.cpu] = None /\ ~rd.again)
     THEN /\ Go("read")
          /\ caches' = NoCaches /\ cachelen' = 0
          /\ rd' = [todo |-> Cpu, cpu |-> None, again |-> caches # None]
          /\ churn' = FALSE
          /\ UNCHANGED <<mask, ret>>
     ELSE LET mine == IF caches[fault.cpu] = None THEN <<>> ELSE caches[fault.cpu]
              hits == {i \in 1..Len(mine) : mine[i].kind = fault.kind}
          IN /\ IF hits = {} THEN Go("single") /\ UNCHANGED mask     \* "no find cache"
                ELSE /\ Go("offline")
                     /\ mask' = mine[CHOOSE i \in hits : \A j \in hits : i <= j].map
             /\ rd' = NoRead
             /\ UNCHANGED <<caches, cachelen, churn, ret>>
  /\ UNCHANGED <<kvars, fault, result, plugs>>

\* read_caches: /sys/devices/system/cpu does not open.
ReadFails ==
  /\ apc = "read" /\ rd.todo = Cpu
  /\ caches' = None /\ cachelen' = 0 /\ rd' = NoRead
  /\ Go("single")
  /\ UNCHANGED <<kvars, fault, mask, ret, result, churn, plugs>>

\* more_cpus: the table doubles, once.
Room(c) == IF c < cachelen THEN cachelen
           ELSE 2 * (IF cachelen = 0 THEN MIN_CPUS \div 2 ELSE cachelen)

\* The next cpuN directory, in any order; stat fails for a CPU that is offline.
ReadDir(c) ==
  /\ apc = "read" /\ rd.cpu = None /\ c \in rd.todo
  /\ \/ /\ c \in online /\ c < Room(c)
        /\ rd' = [rd EXCEPT !.todo = @ \ {c}, !.cpu = c]
        /\ caches' = [caches EXCEPT ![c] = <<>>] /\ cachelen' = Room(c)
     \/ /\ c \notin online
        /\ rd' = [rd EXCEPT !.todo = @ \ {c}]
        /\ UNCHANGED <<caches, cachelen>>
  /\ UNCHANGED <<kvars, apc, fault, mask, ret, result, churn, plugs>>

\* The table is still too short for a CPU far beyond the ones read so far: its
\* entry is written behind the table, over the heap.  It is not found again, or
\* the daemon dies of it and is started again with an empty table.
ReadBeyond(c) ==
  /\ apc = "read" /\ rd.cpu = None /\ c \in rd.todo
  /\ c \in online /\ c >= Room(c)
  /\ \/ rd' = [rd EXCEPT !.todo = @ \ {c}] /\ cachelen' = Room(c) /\ UNCHANGED <<apc, busy, fault, caches>>
     \/ /\ Go("idle") /\ Leave(Agent)
        /\ fault' = None /\ caches' = None /\ cachelen' = 0 /\ rd' = NoRead
  /\ UNCHANGED <<cpus, nl, module, mask, ret, result, churn, plugs>>

\* An index directory: type and level, then shared_cpu_map.  A file that has
\* vanished with its CPU reads as the empty string: an unknown kind, a map of length 0.
ReadKind ==
  /\ apc = "read" /\ rd.cpu # None
  /\ LET c == rd.cpu
         n == Len(caches[c])
     IN /\ n > 0 => caches[c][n].map # None
        /\ n < Len(Kinds)
        /\ caches' = [caches EXCEPT ![c] = Append(@, [kind |-> IF c \in online THEN Kinds[n + 1] ELSE None,
                                                      map  |-> None])]
  /\ UNCHANGED <<kvars, apc, fault, cachelen, rd, mask, ret, result, churn, plugs>>

ReadMap ==
  /\ apc = "read" /\ rd.cpu # None
  /\ LET c == rd.cpu
         n == Len(caches[c])
     IN /\ n > 0 /\ caches[c][n].map = None
        /\ caches' = [caches EXCEPT ![c][n].map =
                        IF c \in online THEN Shares[c][Kinds[n]] \cap online ELSE {}]
        /\ rd' = IF n = Len(Kinds) THEN [rd EXCEPT !.cpu = None] ELSE rd
  /\ UNCHANGED <<kvars, apc, fault, cachelen, mask, ret, result, churn, plugs>>

ReadEnd ==
  /\ apc = "read" /\ rd.cpu = None /\ rd.todo = {}
  /\ Go("lookup")
  /\ UNCHANGED <<kvars, fault, caches, cachelen, rd, mask, ret, result, churn, plugs>>

----------------------------------------------------------------------------
\* cpu_offine_on_cache: every CPU of the map, in order; one failure makes the
\* whole a failure, but the rest is tried.

\* Only the faulty CPU: evt_handle_qpi, and a cache the table does not know.
Single ==
  /\ apc = "single"
  /\ mask' = {fault.cpu}
  /\ Go("offline")
  /\ UNCHANGED <<kvars, fault, caches, cachelen, rd, ret, result, churn, plugs>>

NextCpu == CHOOSE c \in mask : \A d \in mask : c <= d

\* do_cpu_offline: nothing to do for a CPU that /proc/cpuinfo does not list;
\* CPU 0 has no file to write to.
CheckCpu ==
  /\ apc = "offline" /\ mask # {}
  /\ IF NextCpu \in online \ {0}
     THEN Go("write") /\ UNCHANGED <<mask, ret>>
     ELSE /\ mask' = mask \ {NextCpu}
          /\ ret' = (ret /\ NextCpu # 0)
          /\ UNCHANGED apc
  /\ UNCHANGED <<kvars, fault, caches, cachelen, rd, result, churn, plugs>>

\* Mutant: the result of the last CPU stands for all.
WriteCpuLast ==
  /\ apc = "write"
  /\ \/ NextCpu \in online /\ online' = online \ {NextCpu} /\ bad' = bad \ {NextCpu} /\ ret' = TRUE
     \/ UNCHANGED <<online, bad>> /\ ret' = FALSE
  /\ mask' = mask \ {NextCpu}
  /\ Go("offline")
  /\ UNCHANGED <<cd, poisoned, nl, module, busy, fault, caches, cachelen, rd, result, churn, plugs>>

\* The write of "0": the kernel takes the CPU down, or refuses.
WriteCpu ==
  /\ apc = "write"
  /\ \/ NextCpu \in online /\ online' = online \ {NextCpu} /\ bad' = bad \ {NextCpu} /\ UNCHANGED ret
     \/ UNCHANGED <<online, bad>> /\ ret' = FALSE
  /\ mask' = mask \ {NextCpu}
  /\ Go("offline")
  /\ UNCHANGED <<cd, poisoned, nl, module, busy, fault, caches, cachelen, rd, result, churn, plugs>>

Offlined ==
  /\ apc = "offline" /\ mask = {}
  /\ Answer(IF ret THEN "LIST_ISOLATED_SUCCESS" ELSE "LIST_ISOLATED_FAILED")
  /\ UNCHANGED <<kvars, fault, caches, cachelen, rd, mask, ret, churn, plugs>>

----------------------------------------------------------------------------
\* memory_page_offline: ask whether the page is poisoned already ...
AskPage ==
  /\ apc = "page" /\ req[Agent].pc = "idle"
  /\ Send(Agent, "get_mempage", fault.page)
  /\ UNCHANGED <<mutex, g_cache_status, cpus, module, busy, avars>>

\* Mutant: a page the kernel does not isolate counts as isolated.
OfflinePageBlind ==
  /\ apc = "page" /\ req[Agent].pc \in {"done", "failed"}
  /\ Answer(IF req[Agent].pc = "failed" THEN "LIST_ISOLATED_FAILED" ELSE "LIST_ISOLATED_SUCCESS")
  /\ UNCHANGED <<kvars, fault, caches, cachelen, rd, mask, ret, churn, plugs>>

\* ... and write it to soft_offline_page, which the kernel may refuse and
\* does for a page that is not there.
OfflinePage ==
  /\ apc = "page" /\ req[Agent].pc \in {"done", "failed"}
  /\ \/ /\ req[Agent].pc = "failed"
        /\ Answer("LIST_ISOLATED_FAILED") /\ UNCHANGED poisoned
     \/ /\ req[Agent].pc = "done" /\ req[Agent].status
        /\ Answer("LIST_ISOLATED_SUCCESS") /\ UNCHANGED poisoned
     \/ /\ req[Agent].pc = "done" /\ ~req[Agent].status /\ fault.page \notin Hole
        /\ Answer("LIST_ISOLATED_SUCCESS") /\ poisoned' = poisoned \cup {fault.page}
     \/ /\ req[Agent].pc = "done" /\ ~req[Agent].status
        /\ Answer("LIST_ISOLATED_FAILED") /\ UNCHANGED poisoned
  /\ UNCHANGED <<online, cd, bad, nl, module, busy, fault, caches, cachelen, rd, mask, ret, churn, plugs>>

----------------------------------------------------------------------------
AgentStep ==
  \/ \E f \in Fault : Take(f)
  \/ Return \/ Flush \/ Flushed
  \/ Lookup \/ ReadFails \/ (\E c \in Cpu : ReadDir(c) \/ ReadBeyond(c)) \/ ReadKind \/ ReadMap \/ ReadEnd
  \/ Single \/ CheckCpu \/ WriteCpu \/ Offlined
  \/ AskPage \/ OfflinePage

\* An administrator at work; churn notes it.
Administrator ==
  /\ plugs < MaxPlug
  /\ Hotplug
  /\ plugs' = plugs + 1
  /\ churn' = TRUE
  /\ UNCHANGED <<apc, fault, caches, cachelen, rd, mask, ret, result>>

\* The module comes and goes.  The agent cares only when it is about to send,
\* so that is when the model lets it.
Module ==
  /\ apc \in {"flush", "page"} /\ req[Agent].pc = "idle"
  /\ ModuleStep
  /\ UNCHANGED avars

Next == AgentStep \/ Administrator \/ Module \/ (Kernel(Agent) /\ UNCHANGED avars)

Spec == Init /\ [][Next]_vars

----------------------------------------------------------------------------
\* A fault of a cache is reported isolated only when the faulty CPU is
\* offline and, if the table knows that CPU and the kind of cache, no CPU that
\* shares the cache runs any more, also for late faults of CPUs isolated
\* before: as long as nobody else plugs or unplugs CPUs behind the back of the
\* table, which is never refreshed for a CPU it knows (cpu_offine_on_cache,
\* cache_to_cpus).
KindKnown == \E i \in DOMAIN Kinds : Kinds[i] = fault.kind
CacheIsolated ==
  result = "LIST_ISOLATED_SUCCESS" /\ fault.type \in {"cache", "tlb"} /\ ~churn /\ caches # None
    => /\ fault.cpu \notin online
       /\ caches[fault.cpu] # None /\ KindKnown => Shares[fault.cpu][fault.kind] \cap online = {}

\* A repair that is reported done is done: the faulty CPU's cache holds
\* nothing from before the fault, and the page is poisoned, whatever hotplug
\* and the removal of the module do meanwhile (__handle_cache, memory_page_offline).
RepairReal ==
  /\ result = "LIST_REPAIRED_SUCCESS" => fault.cpu \notin bad
  /\ result = "LIST_ISOLATED_SUCCESS" /\ fault.type = "mempage" => fault.page \in poisoned
=============================================================================
