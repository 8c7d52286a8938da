------------------------- MODULE CpumemAgent_proofs -------------------------
(***************************************************************************)
(* Proofs about the kernel helper Kfm and about the cpumem agent that uses *)
(* it, for every number of CPUs, pages, tools and faults, every layout of  *)
(* shared caches and any amount of hotplug.                                *)
(***************************************************************************)
EXTENDS CpumemAgent, SequenceTheorems, WellFoundedInduction, TLAPS

ReqPC == {"idle", "lock", "work", "call", "read", "unlock", "done", "failed"}
Cmd   == SetCmd \cup {"none", "get_info", "get_cache", "get_mempage"}
Arg   == Cpu \cup Page \cup Client \cup {None}
Request == [pc : ReqPC, cmd : Cmd, arg : Arg, status : BOOLEAN, truth : BOOLEAN]

NlType ==
  /\ req \in [Client -> Request]
  /\ mutex \in Client \cup {None}
  /\ g_cache_status \in BOOLEAN

\* __kfm_mutex is held by the request that is between mutex_lock and
\* mutex_unlock, and by nobody else.
Holder == \A c \in Client : req[c].pc \in {"work", "call", "read", "unlock"} <=> mutex = c

\* Between the call on the CPU and the read the global is that CPU's answer.
Global ==
  \A c \in Client :
    /\ req[c].pc \in {"call", "read"} => req[c].cmd = "get_cache"
    /\ req[c].pc = "read" => g_cache_status = req[c].truth

KInv == NlType /\ Holder /\ Global /\ StatusTruth

-----------------------------------------------------------------------------
\* A step that leaves requests, mutex and global alone.
LEMMA QuietKInv == KInv /\ UNCHANGED nl => KInv'
  BY DEF KInv, nl, NlType, Holder, Global, StatusTruth

LEMMA IdleRequest == Idle \in Request
  BY DEF Idle, Request, ReqPC, Cmd, Arg

\* A client that is not inside the kernel sends a request, gives up, or exits.
LEMMA OutsideKInv ==
  ASSUME KInv, NEW c \in Client, req[c].pc \in {"idle", "done", "failed"},
         NEW r \in Request, r.pc \in {"idle", "lock", "failed"},
         req' = [req EXCEPT ![c] = r], UNCHANGED <<mutex, g_cache_status>>
  PROVE  KInv'
<1> USE DEF KInv, NlType
<1>1. NlType'
  OBVIOUS
<1>2. Holder'
  BY DEF Holder
<1>3. Global'
  BY DEF Global
<1>4. StatusTruth'
  BY DEF StatusTruth
<1>5. QED
  BY <1>1, <1>2, <1>3, <1>4

LEMMA SendKInv ==
  ASSUME KInv, NEW c \in Client, req[c].pc \in {"idle", "done", "failed"},
         NEW cmd \in Cmd, NEW arg \in Arg, Send(c, cmd, arg),
         UNCHANGED <<mutex, g_cache_status>>
  PROVE  KInv'
<1> DEFINE r == [Idle EXCEPT !.pc = IF loaded THEN "lock" ELSE "failed", !.cmd = cmd, !.arg = arg]
<1>1. r \in Request /\ r.pc \in {"idle", "lock", "failed"}
  BY DEF Idle, Request, ReqPC
<1>2. req' = [req EXCEPT ![c] = r]
  BY DEF Send
<1> HIDE DEF r
<1>3. QED
  BY <1>1, <1>2, OutsideKInv

\* The steps that note an answer in the request.
LEMMA Membership == ASSUME NEW x, NEW S PROVE (x \in S) \in BOOLEAN
  BY SMT

LEMMA NotedType ==
  ASSUME NlType, NEW c \in Client, NEW b \in BOOLEAN
  PROVE  /\ [req EXCEPT ![c].pc = "read", ![c].truth = b] \in [Client -> Request]
         /\ [req EXCEPT ![c].pc = "unlock", ![c].status = b] \in [Client -> Request]
  BY ZenonT(60) DEF NlType, Request, ReqPC

\* The steps of a request inside the kernel: all of them under the mutex.
LEMMA KernelKInv ==
  ASSUME KInv, NEW c \in Client, Kernel(c)
  PROVE  KInv'
<1> USE DEF KInv, NlType, Step
<1>1. CASE Lock(c)
  <2>1. NlType'
    BY <1>1 DEF Lock, Request, ReqPC
  <2>2. Holder'
    BY <1>1, KfmAssumption DEF Lock, Holder, Client
  <2>3. Global' /\ StatusTruth'
    BY <1>1 DEF Lock, Global, StatusTruth, Request
  <2>4. QED
    BY <2>1, <2>2, <2>3
<1>2. CASE Set(c)
  <2>1. NlType'
    BY <1>2 DEF Set, Request, ReqPC
  <2>2. Holder'
    BY <1>2 DEF Set, Holder
  <2>3. Global' /\ StatusTruth'
    BY <1>2 DEF Set, Global, StatusTruth, Request, SetCmd, CacheCmd, AllCmd
  <2>4. QED
    BY <2>1, <2>2, <2>3
<1>3. CASE StatusClear(c)
  <2>1. NlType'
    BY <1>3 DEF StatusClear, Request, ReqPC
  <2>2. Holder'
    BY <1>3 DEF StatusClear, Holder
  <2>3. Global'
    BY <1>3 DEF StatusClear, Holder, Global, Request
  <2>4. StatusTruth'
    BY <1>3 DEF StatusClear, StatusTruth, Request
  <2>5. QED
    BY <2>1, <2>2, <2>3, <2>4
<1>4. CASE StatusCall(c)
  <2>1. CASE req[c].arg \in online
    <3> DEFINE b == (req[c].arg \in cd)
    <3> b \in BOOLEAN
      BY Membership
    <3>1. req' = [req EXCEPT ![c].pc = "read", ![c].truth = b]
          /\ mutex' = mutex /\ g_cache_status' = b
      BY <1>4, <2>1 DEF StatusCall
    <3> HIDE DEF b
    <3>2. NlType'
      BY <3>1, NotedType
    <3>3. Holder'
      BY <1>4, <3>1 DEF StatusCall, Holder
    <3>4. Global'
      BY <1>4, <3>1 DEF StatusCall, Holder, Global, Request
    <3>5. StatusTruth'
      BY <3>1 DEF StatusTruth, Request
    <3>6. QED
      BY <3>2, <3>3, <3>4, <3>5
  <2>2. CASE req[c].arg \notin online
    <3>1. req' = [req EXCEPT ![c].pc = "failed"] /\ mutex' = None
          /\ g_cache_status' = g_cache_status
      BY <1>4, <2>2 DEF StatusCall
    <3>2. NlType'
      BY <3>1 DEF Request, ReqPC
    <3>3. Holder'
      BY <1>4, <3>1, KfmAssumption DEF StatusCall, Holder, Client
    <3>4. Global' /\ StatusTruth'
      BY <3>1 DEF Global, StatusTruth, Request
    <3>5. QED
      BY <3>2, <3>3, <3>4
  <2>3. QED
    BY <2>1, <2>2
<1>5. CASE StatusRead(c)
  <2>1. NlType'
    BY <1>5, ZenonT(60) DEF StatusRead, Request, ReqPC
  <2>2. Holder'
    BY <1>5 DEF StatusRead, Holder
  <2>3. Global' /\ StatusTruth'
    BY <1>5 DEF StatusRead, Global, StatusTruth, Request
  <2>4. QED
    BY <2>1, <2>2, <2>3
<1>6. CASE Info(c)
  <2> DEFINE b == (req[c].arg \in poisoned \ Hole)
  <2>1. NlType'
    <3> b \in BOOLEAN
      BY Membership
    <3>1. req' = [req EXCEPT ![c].pc = "unlock", ![c].status = b]
          /\ UNCHANGED <<mutex, g_cache_status>>
      BY <1>6 DEF Info
    <3> HIDE DEF b
    <3>2. QED
      BY <3>1, NotedType
  <2>2. Holder'
    BY <1>6 DEF Info, Holder
  <2>3. Global' /\ StatusTruth'
    BY <1>6 DEF Info, Global, StatusTruth, Request
  <2>4. QED
    BY <2>1, <2>2, <2>3
<1>7. CASE Unlock(c)
  <2>1. NlType'
    BY <1>7 DEF Unlock, Request, ReqPC
  <2>2. Holder'
    BY <1>7, KfmAssumption DEF Unlock, Holder, Client
  <2>3. Global' /\ StatusTruth'
    BY <1>7 DEF Unlock, Global, StatusTruth, Request
  <2>4. QED
    BY <2>1, <2>2, <2>3
<1>8. QED
  BY <1>1, <1>2, <1>3, <1>4, <1>5, <1>6, <1>7 DEF Kernel

LEMMA InitKInv == KfmInit => KInv
<1> SUFFICES ASSUME KfmInit PROVE KInv
  OBVIOUS
<1>1. NlType
  BY IdleRequest DEF KfmInit, NlType
<1>2. Holder /\ Global /\ StatusTruth
  BY KfmAssumption DEF KfmInit, Holder, Global, StatusTruth, Idle, Client
<1>3. QED
  BY <1>1, <1>2 DEF KInv

\* What kfmadm asks for is a command with an argument of its kind.
LEMMA CommandParts ==
  ASSUME NEW command \in Command
  PROVE  command[1] \in Cmd /\ command[2] \in Arg
  BY DEF Command, Cmd, Arg, SetCmd, CacheCmd, AllCmd

LEMMA KfmadmKInv ==
  ASSUME KInv, online \subseteq Cpu, NEW t \in Tool,
         Kfmadm(t) \/ Modprobe(t) \/ KfmadmCommand(t) \/ KfmadmNextCpu(t) \/ KfmadmExit(t)
  PROVE  KInv'
<1> t \in Client
  BY DEF Client
<1>1. CASE Kfmadm(t)
  <2>1. req[t].pc = "idle"
    BY <1>1 DEF Kfmadm, Idle
  <2>2. QED
    BY <1>1, <2>1, SendKInv DEF Kfmadm, Cmd, Arg
<1>2. CASE Modprobe(t)
  <2> DEFINE r == [Idle EXCEPT !.pc = "lock", !.cmd = "get_info", !.arg = t]
  <2>1. r \in Request /\ r.pc = "lock"
    BY DEF Idle, Request, ReqPC, Cmd, Arg
  <2>2. req' = [req EXCEPT ![t] = r] /\ UNCHANGED <<mutex, g_cache_status>>
        /\ req[t].pc = "failed"
    BY <1>2 DEF Modprobe
  <2> HIDE DEF r
  <2>3. QED
    BY <2>1, <2>2, OutsideKInv
<1>3. CASE KfmadmCommand(t)
  BY <1>3, SendKInv, CommandParts DEF KfmadmCommand
<1>4. CASE KfmadmNextCpu(t)
  <2>1. PICK c \in online : Send(t, "get_cache", c)
    BY <1>4 DEF KfmadmNextCpu
  <2>2. QED
    BY <1>4, <2>1, SendKInv DEF KfmadmNextCpu, Cmd, Arg
<1>5. CASE KfmadmExit(t)
  BY <1>5, OutsideKInv, IdleRequest DEF KfmadmExit, Idle
<1>6. QED
  BY <1>1, <1>2, <1>3, <1>4, <1>5

\* Only hotplug changes which CPUs are online.
LEMMA OnlineKfm == online \subseteq Cpu /\ [KfmNext]_kvars => online' \subseteq Cpu
  BY DEF KfmNext, Hotplug, Unplug, Plug, ModuleStep, ThreadStart, ThreadLoop, ThreadWake,
         ThreadExit, WriteUnload, UnloadHandler, Goes, StopThread, KthreadStop, Stopped, Rmmod,
         Kernel, Lock, Set, StatusClear,
         StatusCall, StatusRead, Info, Unlock, Kfmadm, Modprobe, KfmadmCommand, KfmadmNextCpu,
         KfmadmExit, kvars, cpus

LEMMA ModuleQuiet == ModuleStep => UNCHANGED <<nl, cpus>>
  BY DEF ModuleStep, ThreadStart, ThreadLoop, ThreadWake, ThreadExit, WriteUnload, UnloadHandler,
         StopThread, KthreadStop, Stopped, Rmmod

\* What the kernel module answers about a cache is what the CPU in question
\* answered, for any number of clients, CPUs and plugging: the one global through
\* which kfm_cache_status_on_cpu passes it is safe under __kfm_mutex.
THEOREM StatusTrue == KfmSpec => []StatusTruth
<1>1. KfmInit => KInv /\ online \subseteq Cpu
  BY InitKInv DEF KfmInit
<1>2. KInv /\ online \subseteq Cpu /\ [KfmNext]_kvars => (KInv /\ online \subseteq Cpu)'
  <2> SUFFICES ASSUME KInv, online \subseteq Cpu, [KfmNext]_kvars PROVE KInv'
    BY OnlineKfm
  <2>1. CASE Hotplug
    BY <2>1, QuietKInv DEF Hotplug, Unplug, Plug
  <2>2. CASE ModuleStep
    BY <2>2, QuietKInv, ModuleQuiet
  <2>3. CASE UNCHANGED kvars
    BY <2>3, QuietKInv DEF kvars
  <2>4. QED
    BY <2>1, <2>2, <2>3, KernelKInv, KfmadmKInv DEF KfmNext
<1>3. KInv => StatusTruth
  BY DEF KInv
<1>4. KfmSpec => KfmInit /\ [][KfmNext]_kvars
  BY DEF KfmSpec
<1>5. QED
  BY <1>1, <1>2, <1>3, <1>4, PTL

-----------------------------------------------------------------------------
(***************************************************************************)
(* The agent.  Control says which steps a fault can be in, AgentRequest    *)
(* what the agent's request and the fault in hand have to do with each     *)
(* other.                                                                  *)
(***************************************************************************)
Control ==
  /\ apc \in Steps \cup {"idle", "read", "offline", "write", "done"}
  /\ apc # "idle" => fault \in Fault
  /\ apc \in {"lookup", "read"} => fault.type \in {"cache", "tlb"}
  /\ apc \in {"single", "offline", "write"} => fault.type \in {"cache", "tlb", "qpi"}
  /\ apc = "page" => fault.type = "mempage"
  /\ result \in {"LIST_REPAIRED_SUCCESS", "LIST_ISOLATED_SUCCESS"} => apc = "done"

AgentRequest ==
  LET r == req[Agent]
  IN /\ apc \notin {"flush", "page", "done"} => r.pc = "idle"
     /\ apc = "done" => r.pc \in {"idle", "done", "failed"}
     /\ apc = "flush" /\ r.pc # "idle" =>
          /\ r.cmd = "flush" /\ r.arg = fault.cpu
          /\ r.pc \in {"unlock", "done"} => fault.cpu \notin bad
     /\ apc = "page" /\ r.pc # "idle" =>
          /\ r.cmd = "get_mempage" /\ r.arg = fault.page
          /\ r.pc \in {"unlock", "done"} /\ r.status => fault.page \in poisoned

\* Only a CPU that is online has anything in its cache.
CpuType == online \subseteq Cpu /\ bad \subseteq online

RInv == KInv /\ CpuType /\ Control /\ AgentRequest /\ RepairReal

LEMMA FirstStepKind ==
  ASSUME NEW f
  PROVE  /\ FirstStep(f) \in Steps \cup {"LIST_REPAIRED_MANUAL", "LIST_REPAIRED_FAILED"}
         /\ FirstStep(f) = "lookup" => f.type \in {"cache", "tlb"}
         /\ FirstStep(f) = "single" => f.type = "qpi"
         /\ FirstStep(f) = "page" => f.type = "mempage"
  BY DEF FirstStep, Steps

LEMMA AgentClient == Agent \in Client
  BY DEF Client

\* Every step of the agent that sends nothing leaves the requests alone, or
\* clears its own.
LEMMA AgentKInv == ASSUME RInv, Next PROVE KInv'
<1> USE AgentClient DEF RInv
<1>1. CASE \E f \in Fault : Take(f)
  BY <1>1, QuietKInv DEF Take
<1>2. CASE Return
  BY <1>2, OutsideKInv, IdleRequest DEF Return, AgentRequest, Idle
<1>3. CASE Flush
  <2>1. fault.cpu \in Arg /\ "flush" \in Cmd
    BY <1>3, AgentAssumption DEF Flush, Control, Arg, Cmd, SetCmd, CacheCmd
  <2>2. QED
    BY <1>3, <2>1, SendKInv DEF Flush
<1>4. CASE AskPage
  <2>1. fault.page \in Arg /\ "get_mempage" \in Cmd
    BY <1>4, AgentAssumption DEF AskPage, Control, Arg, Cmd
  <2>2. QED
    BY <1>4, <2>1, SendKInv DEF AskPage
<1>5. CASE Flushed \/ Lookup \/ ReadFails \/ (\E c \in Cpu : ReadDir(c)) \/ ReadKind \/ ReadMap
           \/ ReadEnd \/ Single \/ CheckCpu \/ Offlined
  <2>1. UNCHANGED kvars
    BY <1>5 DEF Flushed, Lookup, ReadFails, ReadDir, ReadKind, ReadMap, ReadEnd, Single,
                CheckCpu, Offlined
  <2>2. QED
    BY <2>1, QuietKInv DEF kvars
<1>6. CASE WriteCpu \/ OfflinePage
  BY <1>6, QuietKInv DEF WriteCpu, OfflinePage
<1>7. CASE Administrator
  BY <1>7, QuietKInv DEF Administrator, Hotplug, Unplug, Plug
<1>8. CASE Module
  BY <1>8, QuietKInv, ModuleQuiet DEF Module
<1>9. CASE Kernel(Agent)
  BY <1>9, KernelKInv
<1>10. CASE \E c \in Cpu : ReadBeyond(c)
  BY <1>10, QuietKInv DEF ReadBeyond
<1>11. QED
  BY <1>1, <1>2, <1>3, <1>4, <1>5, <1>6, <1>7, <1>8, <1>9, <1>10 DEF Next, AgentStep

LEMMA AgentCpuType == ASSUME RInv, Next PROVE CpuType'
<1> USE DEF RInv, CpuType
<1>1. CASE \E f \in Fault : Take(f)
  BY <1>1 DEF Take
<1>2. CASE WriteCpu
  BY <1>2 DEF WriteCpu
<1>3. CASE Administrator
  BY <1>3 DEF Administrator, Hotplug, Unplug, Plug
<1>4. CASE Kernel(Agent)
  BY <1>4 DEF Kernel, Lock, Set, StatusClear, StatusCall, StatusRead, Info, Unlock, cpus
<1>5. CASE Return \/ Flush \/ Flushed \/ Lookup \/ ReadFails \/ (\E c \in Cpu : ReadDir(c))
           \/ ReadKind \/ ReadMap \/ ReadEnd \/ Single \/ CheckCpu \/ Offlined \/ AskPage
           \/ OfflinePage
  BY <1>5 DEF Return, Flush, Flushed, Lookup, ReadFails, ReadDir, ReadKind, ReadMap, ReadEnd,
              Single, CheckCpu, Offlined, AskPage, OfflinePage, kvars, cpus
<1>6. CASE Module
  BY <1>6, ModuleQuiet DEF Module, cpus
<1>7. CASE \E c \in Cpu : ReadBeyond(c)
  BY <1>7 DEF ReadBeyond, cpus
<1>8. QED
  BY <1>1, <1>2, <1>3, <1>4, <1>5, <1>6, <1>7 DEF Next, AgentStep

LEMMA AgentControl == ASSUME RInv, Next PROVE Control'
<1> USE DEF RInv, Control, Steps, Go, Answer
<1>1. CASE \E f \in Fault : Take(f)
  BY <1>1, FirstStepKind DEF Take
<1>2. CASE Return \/ Flush \/ Flushed \/ Lookup \/ ReadFails \/ (\E c \in Cpu : ReadDir(c))
           \/ ReadKind \/ ReadMap \/ ReadEnd
  BY <1>2 DEF Return, Flush, Flushed, Lookup, ReadFails, ReadDir, ReadKind, ReadMap, ReadEnd, avars
<1>3. CASE Single \/ CheckCpu \/ WriteCpu \/ Offlined \/ AskPage \/ OfflinePage
  BY <1>3 DEF Single, CheckCpu, WriteCpu, Offlined, AskPage, OfflinePage, avars
<1>4. CASE Administrator \/ Module \/ (Kernel(Agent) /\ UNCHANGED avars)
  BY <1>4 DEF Administrator, Module, avars
<1>5. CASE \E c \in Cpu : ReadBeyond(c)
  BY <1>5 DEF ReadBeyond
<1>6. QED
  BY <1>1, <1>2, <1>3, <1>4, <1>5 DEF Next, AgentStep

\* A step of the kernel on the agent's request: a flush leaves nothing old in
\* the cache, and the answer about a page is about that page.
LEMMA KernelRequest ==
  ASSUME RInv, Kernel(Agent), UNCHANGED avars
  PROVE  AgentRequest' /\ bad' \subseteq bad /\ poisoned' = poisoned
<1> USE AgentClient DEF RInv, KInv, NlType, CpuType, Control, AgentRequest, avars, Step, cpus
<1>1. CASE Lock(Agent)
  BY <1>1 DEF Lock, Request
<1>2. CASE Set(Agent)
  BY <1>2 DEF Set, Request, SetCmd, CacheCmd, AllCmd, Reached
<1>3. CASE StatusClear(Agent)
  BY <1>3 DEF StatusClear, Request
<1>4. CASE StatusCall(Agent) \/ StatusRead(Agent)
  <2>1. req[Agent].pc \in {"call", "read"} /\ req[Agent].cmd = "get_cache"
    BY <1>4 DEF StatusCall, StatusRead, Global
  <2>2. FALSE
    BY <2>1
  <2>3. QED
    BY <2>2
<1>5. CASE Info(Agent)
  <2> DEFINE b == (req[Agent].arg \in poisoned \ Hole)
  <2>1. b \in BOOLEAN /\ (b => req[Agent].arg \in poisoned)
    BY Membership
  <2>2. /\ req' = [req EXCEPT ![Agent].pc = "unlock", ![Agent].status = b]
        /\ req[Agent].pc = "work" /\ req[Agent].cmd # "flush" /\ UNCHANGED cpus
    BY <1>5 DEF Info
  <2> HIDE DEF b
  <2>3. QED
    BY <2>1, <2>2 DEF Request
<1>6. CASE Unlock(Agent)
  BY <1>6 DEF Unlock, Request
<1>7. QED
  BY <1>1, <1>2, <1>3, <1>4, <1>5, <1>6 DEF Kernel

LEMMA AgentAgentRequest == ASSUME RInv, Next PROVE AgentRequest'
<1> USE AgentClient DEF RInv, Control, AgentRequest, Steps, Go, Answer
<1>1. CASE \E f \in Fault : Take(f)
  BY <1>1, FirstStepKind DEF Take, nl
<1>2. CASE Return
  BY <1>2 DEF Return, Idle, KInv, NlType
<1>3. CASE Flush
  BY <1>3 DEF Flush, Send, Idle, KInv, NlType, Request, avars
<1>4. CASE AskPage
  BY <1>4 DEF AskPage, Send, Idle, KInv, NlType, Request, avars
<1>5. CASE Flushed \/ Lookup \/ ReadFails \/ (\E c \in Cpu : ReadDir(c)) \/ ReadKind \/ ReadMap
           \/ ReadEnd \/ Single \/ CheckCpu \/ Offlined
  BY <1>5 DEF Flushed, Lookup, ReadFails, ReadDir, ReadKind, ReadMap, ReadEnd, Single, CheckCpu,
              Offlined, kvars, nl, cpus
<1>6. CASE WriteCpu \/ OfflinePage
  BY <1>6 DEF WriteCpu, OfflinePage, nl
<1>7. CASE Administrator
  BY <1>7 DEF Administrator, Hotplug, Unplug, Plug, nl
<1>8. CASE Module
  BY <1>8, ModuleQuiet DEF Module, avars, nl, cpus
<1>9. CASE Kernel(Agent) /\ UNCHANGED avars
  BY <1>9, KernelRequest
<1>10. CASE \E c \in Cpu : ReadBeyond(c)
  BY <1>10 DEF ReadBeyond, nl
<1>11. QED
  BY <1>1, <1>2, <1>3, <1>4, <1>5, <1>6, <1>7, <1>8, <1>9, <1>10 DEF Next, AgentStep

LEMMA AgentRepairReal == ASSUME RInv, Next PROVE RepairReal'
<1> USE DEF RInv, RepairReal, Go, Answer
<1>1. CASE \E f \in Fault : Take(f)
  BY <1>1, FirstStepKind DEF Take, Steps
<1>2. CASE Return
  BY <1>2 DEF Return
<1>3. CASE Flushed
  BY <1>3 DEF Flushed, kvars, cpus, AgentRequest
<1>4. CASE OfflinePage
  BY <1>4 DEF OfflinePage, AgentRequest
<1>5. CASE Offlined
  BY <1>5 DEF Offlined, Control
<1>6. CASE Flush \/ AskPage \/ Lookup \/ ReadFails \/ (\E c \in Cpu : ReadDir(c)) \/ ReadKind
           \/ ReadMap \/ ReadEnd \/ Single \/ CheckCpu
  BY <1>6 DEF Flush, AskPage, Lookup, ReadFails, ReadDir, ReadKind, ReadMap, ReadEnd, Single,
              CheckCpu, avars, kvars, cpus
<1>7. CASE WriteCpu
  BY <1>7 DEF WriteCpu
<1>8. CASE Administrator
  BY <1>8 DEF Administrator, Hotplug, Unplug, Plug
<1>9. CASE Module
  BY <1>9, ModuleQuiet DEF Module, avars, cpus
<1>10. CASE Kernel(Agent) /\ UNCHANGED avars
  BY <1>10, KernelRequest DEF avars
<1>11. CASE \E c \in Cpu : ReadBeyond(c)
  BY <1>11 DEF ReadBeyond, Control
<1>12. QED
  BY <1>1, <1>2, <1>3, <1>4, <1>5, <1>6, <1>7, <1>8, <1>9, <1>10, <1>11 DEF Next, AgentStep

LEMMA InitRInv == Init => RInv
<1> SUFFICES ASSUME Init PROVE RInv
  OBVIOUS
<1>1. KInv /\ CpuType
  BY InitKInv DEF Init, KfmInit, CpuType
<1>2. Control /\ AgentRequest /\ RepairReal
  BY AgentClient DEF Init, KfmInit, Control, AgentRequest, RepairReal, Idle, Steps
<1>3. QED
  BY <1>1, <1>2 DEF RInv

LEMMA StepRInv == RInv /\ [Next]_vars => RInv'
<1> SUFFICES ASSUME RInv, [Next]_vars PROVE RInv'
  OBVIOUS
<1>1. CASE Next
  BY <1>1, AgentKInv, AgentCpuType, AgentControl, AgentAgentRequest, AgentRepairReal DEF RInv
<1>2. CASE UNCHANGED vars
  BY <1>2, QuietKInv DEF RInv, vars, kvars, avars, cpus, nl, CpuType, Control, AgentRequest,
                         RepairReal
<1>3. QED
  BY <1>1, <1>2

\* A repair the agent reports done is done, for every number of CPUs and
\* pages and every sequence of faults, whatever hotplug and the module's
\* removal do between its steps (__handle_cache, memory_page_offline).
THEOREM RepairsAreReal == Spec => []RepairReal
<1>1. RInv => RepairReal
  BY DEF RInv
<1>2. QED
  BY <1>1, InitRInv, StepRInv, PTL DEF Spec

-----------------------------------------------------------------------------
(***************************************************************************)
(* The table of shared caches.  While nobody but the agent itself takes    *)
(* CPUs down, the table says of every CPU it knows which caches it has, in *)
(* the order of their directories, and with whom it shares them as far as  *)
(* they run; only the last entry of the CPU just being read may still lack *)
(* its map.                                                                *)
(***************************************************************************)
Kind  == {Kinds[i] : i \in DOMAIN Kinds}
Entry == [kind : Kind \cup {None}, map : (SUBSET Cpu) \cup {None}]
Table == [Cpu -> Seq(Entry) \cup {None}]

TableType ==
  /\ rd \in [todo : SUBSET Cpu, cpu : Cpu \cup {None}, again : BOOLEAN]
  /\ caches \in Table \cup {None}
  /\ apc = "read" => caches \in Table
  /\ apc = "read" /\ rd.cpu # None => caches[rd.cpu] \in Seq(Entry)

Reading(c) == apc = "read" /\ rd.cpu = c

RowRight(c) ==
  LET row == caches[c]
  IN /\ row \in Seq(Entry)
     /\ Len(row) <= Len(Kinds)
     /\ Reading(c) \/ Len(row) = Len(Kinds)
     /\ \A i \in 1..Len(row) :
          /\ row[i].kind = Kinds[i]
          /\ \/ Reading(c) /\ i = Len(row) /\ row[i].map = None
             \/ Shares[c][Kinds[i]] \cap online \subseteq row[i].map

TableRight ==
  (apc = "read" \/ caches # None) /\ ~churn =>
    \A c \in Cpu : /\ caches[c] # None \/ Reading(c) => RowRight(c)
                   /\ Reading(c) => c \in online

\* The CPUs the agent goes on to take down are all that must go: those that
\* share the faulty cache if the table knows it, else the faulty one.
Isolating == fault.type \in {"cache", "tlb"} /\ ~churn /\ caches # None
InTable   == caches[fault.cpu] # None /\ KindKnown

MaskRight ==
  /\ apc = "single" /\ Isolating => ~InTable
  /\ apc \in {"offline", "write"} /\ Isolating /\ ret =>
       /\ fault.cpu \in online => fault.cpu \in mask
       /\ InTable => Shares[fault.cpu][fault.kind] \cap online \subseteq mask

TInv == TableType /\ TableRight /\ MaskRight /\ CacheIsolated

LEMMA MinOfNaturals ==
  ASSUME NEW T, T \subseteq Nat, T # {}
  PROVE  (CHOOSE i \in T : \A j \in T : i <= j) \in T
<1> DEFINE R == {ss \in Nat \X Nat : ss[1] < ss[2]}
<1>1. IsWellFoundedOn(R, Nat)
  BY NatLessThanWellFounded DEF OpToRel
<1>2. \E i \in T : \A j \in T : ~ (<<j, i>> \in R)
  <2> HIDE DEF R
  <2> QED
    BY <1>1, WFMin
<1>3. \A i \in Nat, j \in Nat : j < i => <<j, i>> \in R
  OBVIOUS
<1> HIDE DEF R
<1>4. \E i \in T : \A j \in T : i <= j
  <2>1. PICK i \in T : \A j \in T : ~ (<<j, i>> \in R)
    BY <1>2
  <2>2. \A j \in T : i <= j
    <3> SUFFICES ASSUME NEW j \in T PROVE i <= j
      OBVIOUS
    <3>1. i \in Nat /\ j \in Nat /\ ~ (j < i)
      BY <1>3, <2>1
    <3>2. QED
      BY <3>1
  <2>3. QED
    BY <2>2
<1>5. QED
  BY <1>4

LEMMA KindsSeq == Kinds \in Seq(Kind)
  BY AgentAssumption DEF Kind

\* A step of others, or of the agent outside the table: as long as it takes
\* CPUs down only, what the table and the mask say stays true.
LEMMA ShrinkTable ==
  ASSUME TInv, UNCHANGED <<caches, churn>>, online' \subseteq online,
         \/ apc # "read" /\ apc' # "read"
         \/ apc = "read" /\ apc' = "read" /\ UNCHANGED <<rd, online>>
  PROVE  TableRight'
<1> SUFFICES ASSUME apc = "read" \/ caches # None, ~churn, NEW c \in Cpu
             PROVE  /\ caches[c] # None \/ Reading(c)' => RowRight(c)'
                    /\ Reading(c)' => c \in online'
  BY DEF TableRight
<1>1. Reading(c)' <=> Reading(c)
  BY DEF Reading
<1>2. Reading(c) => c \in online
  BY DEF TInv, TableRight
<1>3. Reading(c)' => c \in online'
  BY <1>1, <1>2 DEF Reading
<1>4. ASSUME caches[c] # None \/ Reading(c) PROVE RowRight(c)'
  <2>1. RowRight(c)
    BY <1>4 DEF TInv, TableRight
  <2>2. QED
    BY <1>1, <2>1 DEF RowRight
<1>5. QED
  BY <1>1, <1>3, <1>4

LEMMA TableBoolean == ASSUME NEW x, NEW y PROVE (x # y) \in BOOLEAN
  OBVIOUS

LEMMA LookupTInv == ASSUME RInv, TInv, Lookup PROVE TInv'
<1> fault \in Fault /\ fault.cpu \in Cpu /\ fault.type \in {"cache", "tlb"} /\ apc = "lookup"
  BY AgentAssumption DEF RInv, Control, Lookup
<1> USE DEF Go, NoRead
<1>1. CASE caches = None \/ (caches[fault.cpu] = None /\ ~rd.again)
  <2> DEFINE b == (caches # None)
  <2>1. b \in BOOLEAN
    BY TableBoolean
  <2>2. /\ apc' = "read" /\ caches' = NoCaches /\ UNCHANGED <<kvars, fault, result>>
        /\ rd' = [todo |-> Cpu, cpu |-> None, again |-> b]
    BY <1>1 DEF Lookup
  <2> HIDE DEF b
  <2>3. TableType'
    BY <2>1, <2>2 DEF TableType, Table, NoCaches
  <2>4. TableRight'
    BY <2>2, AgentAssumption DEF TableRight, Reading, NoCaches
  <2>5. MaskRight' /\ CacheIsolated'
    BY <2>2 DEF MaskRight, CacheIsolated, RInv, Control
  <2>6. QED
    BY <2>3, <2>4, <2>5 DEF TInv
<1>2. CASE ~ (caches = None \/ (caches[fault.cpu] = None /\ ~rd.again))
  <2> DEFINE mine == IF caches[fault.cpu] = None THEN <<>> ELSE caches[fault.cpu]
             hits == {i \in 1..Len(mine) : mine[i].kind = fault.kind}
             hit  == CHOOSE i \in hits : \A j \in hits : i <= j
  <2>1. /\ UNCHANGED <<kvars, fault, result, caches, churn, ret>> /\ rd' = NoRead
        /\ hits = {} => apc' = "single"
        /\ hits # {} => apc' = "offline" /\ mask' = mine[hit].map
    BY <1>2 DEF Lookup
  <2>2. caches \in Table /\ caches # None
    BY <1>2 DEF TInv, TableType
  <2>3. apc' \in {"single", "offline"}
    BY <2>1
  <2>4. TableType'
    BY <2>1, <2>3 DEF TInv, TableType
  <2>5. TableRight'
    BY <2>1, <2>3, ShrinkTable DEF kvars, cpus
  <2>6. CacheIsolated'
    BY <2>1 DEF CacheIsolated, RInv, Control
  <2>7. ASSUME ~churn, caches[fault.cpu] # None PROVE RowRight(fault.cpu) /\ ~Reading(fault.cpu)
    BY <2>2, <2>7 DEF TInv, TableRight, Reading
  <2>8. ASSUME hits = {} PROVE MaskRight'
    <3> SUFFICES ASSUME ~churn, caches[fault.cpu] # None, KindKnown PROVE FALSE
      BY <2>1, <2>8 DEF MaskRight, Isolating, InTable, KindKnown
    <3>1. PICK i \in DOMAIN Kinds : Kinds[i] = fault.kind
      BY DEF KindKnown
    <3>2. i \in 1..Len(mine) /\ mine[i].kind = Kinds[i]
      BY <2>7, <3>1, KindsSeq DEF RowRight
    <3>3. QED
      BY <2>8, <3>1, <3>2
  <2>9. ASSUME hits # {} PROVE MaskRight'
    <3>1. hit \in hits
      <4>1. hits \subseteq Nat
        OBVIOUS
      <4> HIDE DEF hits
      <4>2. QED
        BY <2>9, <4>1, MinOfNaturals
    <3>2. mask' = mine[hit].map /\ mine[hit].kind = fault.kind /\ hit \in 1..Len(mine)
      BY <2>1, <2>9, <3>1
    <3> HIDE DEF hit
    <3>3. caches[fault.cpu] # None /\ mine = caches[fault.cpu]
      BY <3>2
    <3>4. ASSUME ~churn PROVE Shares[fault.cpu][fault.kind] \cap online \subseteq mask'
                              /\ fault.cpu \in Shares[fault.cpu][fault.kind]
      <4>1. RowRight(fault.cpu) /\ ~Reading(fault.cpu)
        BY <2>7, <3>3, <3>4
      <4>2. hit \in DOMAIN Kinds /\ mine[hit].kind = Kinds[hit]
            /\ Shares[fault.cpu][Kinds[hit]] \cap online \subseteq mine[hit].map
        BY <3>2, <3>3, <4>1, KindsSeq DEF RowRight
      <4>3. \A c \in Cpu, i \in DOMAIN Kinds : c \in Shares[c][Kinds[i]]
        BY AgentAssumption
      <4> HIDE DEF hits, mine
      <4>4. QED
        BY <3>2, <4>2, <4>3
    <3>5. apc' = "offline" /\ UNCHANGED <<online, fault, churn>>
      BY <2>1, <2>9 DEF kvars, cpus
    <3>6. QED
      BY <3>4, <3>5 DEF MaskRight, Isolating
  <2>10. QED
    BY <2>4, <2>5, <2>6, <2>8, <2>9 DEF TInv
<1>3. QED
  BY <1>1, <1>2

\* Reading the table disturbs nothing else.
LEMMA ReadQuiet ==
  ASSUME RInv, apc = "read", UNCHANGED <<kvars, result>>, apc' \in {"read", "lookup"}
  PROVE  MaskRight' /\ CacheIsolated'
  BY DEF RInv, Control, MaskRight, CacheIsolated

LEMMA ReadFailsTInv == ASSUME RInv, TInv, ReadFails PROVE TInv'
<1> USE DEF ReadFails, Go, NoRead
<1>1. TableType'
  BY DEF TInv, TableType
<1>2. TableRight' /\ MaskRight'
  BY DEF TableRight, MaskRight, Isolating
<1>3. CacheIsolated'
  BY DEF CacheIsolated
<1>4. QED
  BY <1>1, <1>2, <1>3 DEF TInv

LEMMA ReadDirTInv == ASSUME RInv, TInv, NEW d \in Cpu, ReadDir(d) PROVE TInv'
<1> USE DEF ReadDir, TInv, TableType
<1> rd.cpu = None /\ apc = "read" /\ apc' = "read" /\ caches \in Table
  OBVIOUS
<1>0. UNCHANGED <<online, churn>>
  BY DEF kvars, cpus
<1>1. CASE d \in online
  <2>1. rd' = [rd EXCEPT !.todo = @ \ {d}, !.cpu = d] /\ caches' = [caches EXCEPT ![d] = <<>>]
    BY <1>1
  <2>2. <<>> \in Seq(Entry)
    OBVIOUS
  <2>3. TableType'
    BY <2>1, <2>2 DEF Table
  <2>4. ASSUME ~churn, NEW c \in Cpu, caches'[c] # None \/ Reading(c)'
        PROVE  RowRight(c)'
    <3>1. CASE c = d
      <4>1. caches'[c] = <<>> /\ Reading(c)'
        BY <2>1, <3>1 DEF Table, Reading
      <4>2. QED
        BY <4>1, KindsSeq DEF RowRight
    <3>2. CASE c # d
      <4>1. caches'[c] = caches[c] /\ caches[c] # None /\ ~Reading(c)' /\ ~Reading(c)
        BY <2>1, <2>4, <3>2, AgentAssumption DEF Table, Reading
      <4>2. RowRight(c)
        BY <4>1, <2>4 DEF TableRight
      <4>3. QED
        BY <1>0, <4>1, <4>2 DEF RowRight
    <3>3. QED
      BY <3>1, <3>2
  <2>5. \A c \in Cpu : Reading(c)' => c \in online'
    BY <1>0, <1>1, <2>1 DEF Reading
  <2>6. TableRight'
    BY <1>0, <2>4, <2>5 DEF TableRight
  <2>7. QED
    BY <2>3, <2>6, ReadQuiet
<1>2. CASE d \notin online
  <2>1. rd' = [rd EXCEPT !.todo = @ \ {d}] /\ caches' = caches
    BY <1>2
  <2>2. TableType'
    BY <2>1
  <2>3. rd'.cpu = rd.cpu
    BY <2>1
  <2>4. \A c : Reading(c)' <=> Reading(c)
    BY <2>3 DEF Reading
  <2>5. TableRight'
    BY <1>0, <2>1, <2>4 DEF TableRight, RowRight
  <2>6. QED
    BY <2>2, <2>5, ReadQuiet
<1>3. QED
  BY <1>1, <1>2

\* A CPU that is written behind the table has no row in it.
LEMMA ReadBeyondTInv == ASSUME RInv, TInv, NEW d \in Cpu, ReadBeyond(d) PROVE TInv'
<1> USE DEF ReadBeyond, TInv, TableType
<1> rd.cpu = None /\ apc = "read" /\ caches \in Table /\ UNCHANGED <<online, churn, result>>
  BY DEF cpus
<1>1. CASE rd' = [rd EXCEPT !.todo = @ \ {d}] /\ UNCHANGED <<apc, busy, fault, caches>>
  <2>1. TableType'
    BY <1>1
  <2>2. rd'.cpu = rd.cpu
    BY <1>1
  <2>3. \A c : Reading(c)' <=> Reading(c)
    BY <1>1, <2>2 DEF Reading
  <2>4. TableRight'
    BY <1>1, <2>3 DEF TableRight, RowRight
  <2>5. MaskRight' /\ CacheIsolated'
    BY <1>1 DEF RInv, Control, MaskRight, CacheIsolated
  <2>6. QED
    BY <2>1, <2>4, <2>5
<1>2. CASE Go("idle") /\ caches' = None /\ rd' = NoRead
  <2>1. TableType' /\ TableRight'
    BY <1>2 DEF Go, NoRead, TableRight
  <2>2. MaskRight' /\ CacheIsolated'
    BY <1>2 DEF Go, RInv, Control, MaskRight, CacheIsolated
  <2>3. QED
    BY <2>1, <2>2
<1>3. QED
  BY <1>1, <1>2

\* The CPU whose row is being read, and the row.
LEMMA RowRead ==
  ASSUME TInv, apc = "read", rd.cpu # None
  PROVE  /\ rd.cpu \in Cpu /\ caches \in Table /\ caches[rd.cpu] \in Seq(Entry)
         /\ Len(caches[rd.cpu]) \in Nat
         /\ ~churn => rd.cpu \in online /\ RowRight(rd.cpu)
<1>1. rd.cpu \in Cpu /\ caches \in Table /\ caches[rd.cpu] \in Seq(Entry)
  BY DEF TInv, TableType
<1>2. QED
  BY <1>1 DEF TInv, TableRight, Reading

\* One row of the table changes while it is read.
LEMMA RowTInv ==
  ASSUME RInv, TInv, apc = "read", NEW d \in Cpu, rd.cpu = d, NEW row \in Seq(Entry),
         caches' = [caches EXCEPT ![d] = row], UNCHANGED <<kvars, apc, result, churn>>,
         rd' = rd \/ rd' = [rd EXCEPT !.cpu = None],
         ~churn => RowRight(d)'
  PROVE  TInv'
<1> rd.cpu # None
  BY AgentAssumption
<1> USE DEF TInv, TableType
<1>0. online' = online
  BY DEF kvars, cpus
<1>1. TableType'
  BY RowRead DEF Table
<1>2. ASSUME ~churn, NEW c \in Cpu, caches'[c] # None \/ Reading(c)'
      PROVE  RowRight(c)' /\ (Reading(c)' => c \in online')
  <2>1. CASE c = d
    BY <1>0, <1>2, <2>1, RowRead
  <2>2. CASE c # d
    <3>1. caches'[c] = caches[c] /\ ~Reading(c)' /\ ~Reading(c)
      BY <2>2, RowRead, AgentAssumption DEF Reading, Table
    <3>2. RowRight(c)
      BY <1>2, <3>1 DEF TableRight
    <3>3. QED
      BY <1>0, <3>1, <3>2 DEF RowRight
  <2>3. QED
    BY <2>1, <2>2
<1>3. TableRight'
  BY <1>2 DEF TableRight
<1>4. QED
  BY <1>1, <1>3, ReadQuiet

LEMMA ReadKindTInv == ASSUME RInv, TInv, ReadKind PROVE TInv'
<1>0. PICK c \in Cpu : c = rd.cpu
  BY RowRead DEF ReadKind
<1> DEFINE n == Len(caches[c])
           k == IF c \in online THEN Kinds[n + 1] ELSE None
           e == [kind |-> k, map |-> None]
           row == Append(caches[c], e)
<1>1. /\ apc = "read" /\ rd.cpu # None /\ UNCHANGED <<kvars, apc, result, churn, rd>>
      /\ n > 0 => caches[c][n].map # None
      /\ n < Len(Kinds) /\ caches' = [caches EXCEPT ![c] = row]
  BY <1>0 DEF ReadKind
<1>2. /\ c \in Cpu /\ caches \in Table /\ caches[c] \in Seq(Entry) /\ n \in Nat
      /\ ~churn => c \in online /\ RowRight(c)
  BY <1>0, <1>1, RowRead
<1> k \in Kind \cup {None} /\ (c \in online => k = Kinds[n + 1])
  BY <1>1, <1>2, KindsSeq
<1> HIDE DEF k
<1>3. e \in Entry /\ e.map = None /\ (c \in online => e.kind = Kinds[n + 1])
  BY DEF Entry
<1> HIDE DEF e
<1>4. /\ row \in Seq(Entry) /\ Len(row) = n + 1 /\ row[n + 1] = e
      /\ \A i \in 1..n : row[i] = caches[c][i]
  BY <1>2, <1>3, AppendProperties
<1> HIDE DEF row
<1>5. caches'[c] = row /\ Reading(c) /\ Reading(c)' /\ online' = online
  BY <1>0, <1>1, <1>2 DEF Table, Reading, kvars, cpus
<1>6. ASSUME ~churn PROVE RowRight(c)'
  <2>1. RowRight(c) /\ c \in online
    BY <1>2, <1>6
  <2>2. \A i \in 1..n : /\ row[i].kind = Kinds[i]
                        /\ Shares[c][Kinds[i]] \cap online \subseteq row[i].map
    BY <1>1, <1>4, <2>1 DEF RowRight
  <2>3. Len(Kinds) \in Nat
    BY KindsSeq
  <2> HIDE DEF n
  <2>4. QED
    BY <1>1, <1>2, <1>3, <1>4, <1>5, <2>1, <2>2, <2>3 DEF RowRight
<1>7. QED
  BY <1>0, <1>1, <1>4, <1>6, RowTInv

LEMMA ReadMapTInv == ASSUME RInv, TInv, ReadMap PROVE TInv'
<1>0. PICK c \in Cpu : c = rd.cpu
  BY RowRead DEF ReadMap
<1> DEFINE n == Len(caches[c])
           m == IF c \in online THEN Shares[c][Kinds[n]] \cap online ELSE {}
           e == [caches[c][n] EXCEPT !.map = m]
           row == [caches[c] EXCEPT ![n] = e]
<1>1. /\ apc = "read" /\ rd.cpu # None /\ UNCHANGED <<kvars, apc, result, churn>>
      /\ n > 0 /\ caches' = [caches EXCEPT ![c] = row]
      /\ rd' = IF n = Len(Kinds) THEN [rd EXCEPT !.cpu = None] ELSE rd
  BY <1>0 DEF ReadMap
<1>2. /\ c \in Cpu /\ caches \in Table /\ caches[c] \in Seq(Entry) /\ n \in Nat /\ n \in 1..n
      /\ ~churn => c \in online /\ RowRight(c)
  BY <1>0, <1>1, RowRead
<1> caches[c][n] \in Entry
  BY <1>2
<1>3. m \in SUBSET Cpu /\ (c \in online => m = Shares[c][Kinds[n]] \cap online)
  BY DEF RInv, CpuType
<1> HIDE DEF m
<1>4. e \in Entry /\ e.map = m /\ e.kind = caches[c][n].kind
  BY <1>3 DEF Entry
<1> HIDE DEF e
<1>5. /\ row \in Seq(Entry) /\ Len(row) = n
      /\ \A i \in 1..n : row[i] = IF i = n THEN e ELSE caches[c][i]
  BY <1>2, <1>4, ExceptSeq
<1> HIDE DEF row
<1>6. caches'[c] = row /\ Reading(c) /\ (Reading(c)' \/ n = Len(Kinds)) /\ online' = online
  BY <1>0, <1>1, <1>2 DEF Table, Reading, kvars, cpus
<1>7. ASSUME ~churn PROVE RowRight(c)'
  <2>1. RowRight(c) /\ c \in online
    BY <1>2, <1>7
  <2>2. \A i \in 1..n : /\ row[i].kind = Kinds[i]
                        /\ Shares[c][Kinds[i]] \cap online \subseteq row[i].map
    BY <1>2, <1>3, <1>4, <1>5, <2>1 DEF RowRight
  <2>3. Len(Kinds) \in Nat /\ n <= Len(Kinds)
    BY <2>1, KindsSeq DEF RowRight
  <2> HIDE DEF n
  <2>4. QED
    BY <1>2, <1>5, <1>6, <2>2, <2>3 DEF RowRight
<1>8. QED
  BY <1>0, <1>1, <1>5, <1>7, RowTInv

LEMMA ReadEndTInv == ASSUME RInv, TInv, ReadEnd PROVE TInv'
<1> USE DEF ReadEnd, Go, TInv
<1>1. TableType'
  BY DEF TableType
<1>2. TableRight'
  BY AgentAssumption DEF TableRight, RowRight, Reading, kvars, cpus
<1>3. QED
  BY <1>1, <1>2, ReadQuiet

\* A step outside the reading of the table leaves its type alone.
LEMMA SameTable ==
  ASSUME TInv, UNCHANGED <<caches, rd>>, apc' = "read" => apc = "read"
  PROVE  TableType'
  BY DEF TInv, TableType

LEMMA SingleTInv == ASSUME RInv, TInv, Single PROVE TInv'
<1> USE DEF Single, Go
<1>1. TableType' /\ TableRight'
  BY SameTable, ShrinkTable DEF kvars, cpus
<1>2. MaskRight'
  BY DEF TInv, MaskRight, Isolating, InTable, KindKnown
<1>3. CacheIsolated'
  BY DEF CacheIsolated, RInv, Control
<1>4. QED
  BY <1>1, <1>2, <1>3 DEF TInv

\* A CPU leaves the mask when it does not run, or with a failure noted.
LEMMA CheckCpuTInv == ASSUME RInv, TInv, CheckCpu PROVE TInv'
<1> USE DEF CheckCpu, Go
<1>1. TableType' /\ TableRight'
  BY SameTable, ShrinkTable DEF kvars, cpus
<1>2. MaskRight'
  <2>1. UNCHANGED <<fault, caches, churn, online>> /\ apc = "offline"
    BY DEF kvars, cpus
  <2>2. CASE NextCpu \in online \ {0}
    BY <2>1, <2>2 DEF TInv, MaskRight, Isolating, InTable, KindKnown
  <2>3. CASE NextCpu \notin online \ {0}
    <3>1. mask' = mask \ {NextCpu} /\ apc' = apc /\ (ret' => ret /\ NextCpu \notin online)
      BY <2>3
    <3>2. QED
      BY <2>1, <3>1 DEF TInv, MaskRight, Isolating, InTable, KindKnown
  <2>4. QED
    BY <2>2, <2>3
<1>3. CacheIsolated'
  BY DEF CacheIsolated, RInv, Control
<1>4. QED
  BY <1>1, <1>2, <1>3 DEF TInv

LEMMA WriteCpuTInv == ASSUME RInv, TInv, WriteCpu PROVE TInv'
<1> USE DEF WriteCpu, Go
<1>1. TableType' /\ TableRight'
  BY SameTable, ShrinkTable
<1>2. MaskRight'
  BY DEF TInv, MaskRight, Isolating, InTable, KindKnown
<1>3. CacheIsolated'
  BY DEF CacheIsolated, RInv, Control
<1>4. QED
  BY <1>1, <1>2, <1>3 DEF TInv

LEMMA OfflinedTInv == ASSUME RInv, TInv, Offlined PROVE TInv'
<1> USE DEF Offlined, Answer
<1>1. TableType' /\ TableRight'
  BY SameTable, ShrinkTable DEF kvars, cpus
<1>2. MaskRight'
  BY DEF MaskRight
<1>3. CacheIsolated'
  BY DEF CacheIsolated, KindKnown, TInv, MaskRight, Isolating, InTable, kvars, cpus
<1>4. QED
  BY <1>1, <1>2, <1>3 DEF TInv

\* Steps that begin, end or answer a fault without taking CPUs down.
LEMMA OtherTInv ==
  ASSUME RInv, TInv,
         \/ \E f \in Fault : Take(f)
         \/ Return \/ Flush \/ Flushed \/ AskPage \/ OfflinePage
  PROVE  TInv'
<1> USE DEF Go, Answer
<1>1. UNCHANGED <<online, caches, rd, churn>> /\ apc \notin {"read", "offline", "write", "single"}
      /\ apc' \notin {"read", "offline", "write"}
  BY FirstStepKind DEF Take, Return, Flush, Flushed, AskPage, OfflinePage, kvars, cpus, avars, Steps
<1>2. TableType' /\ TableRight'
  BY <1>1, SameTable, ShrinkTable
<1>3. MaskRight'
  <2>1. CASE \E f \in Fault : Take(f)
    BY <1>1, <2>1, FirstStepKind DEF Take, MaskRight, Isolating, Steps
  <2>2. CASE Return \/ Flush \/ Flushed \/ AskPage \/ OfflinePage
    BY <1>1, <2>2 DEF Return, Flush, Flushed, AskPage, OfflinePage, MaskRight, avars
  <2>3. QED
    BY <2>1, <2>2
<1>4. CacheIsolated'
  <2>1. CASE \E f \in Fault : Take(f)
    BY <2>1, FirstStepKind DEF Take, CacheIsolated, Steps
  <2>2. CASE Return \/ Flushed
    BY <2>2 DEF Return, Flushed, CacheIsolated
  <2>3. CASE Flush \/ AskPage
    BY <2>3, <1>1 DEF Flush, AskPage, CacheIsolated, RInv, Control, avars
  <2>4. CASE OfflinePage
    BY <2>4 DEF OfflinePage, CacheIsolated, RInv, Control
  <2>5. QED
    BY <2>1, <2>2, <2>3, <2>4
<1>5. QED
  BY <1>2, <1>3, <1>4 DEF TInv

LEMMA EnvironmentTInv ==
  ASSUME TInv, Administrator \/ Module \/ (Kernel(Agent) /\ UNCHANGED avars) \/ UNCHANGED vars
  PROVE  TInv'
<1>1. CASE Administrator
  <2>1. churn' /\ UNCHANGED <<apc, caches, rd>>
    BY <1>1 DEF Administrator
  <2>2. QED
    BY <2>1, SameTable DEF TInv, TableRight, MaskRight, Isolating, CacheIsolated
<1>2. CASE Module \/ (Kernel(Agent) /\ UNCHANGED avars) \/ UNCHANGED vars
  <2>1. UNCHANGED <<online, avars>>
    BY <1>2, ModuleQuiet DEF Module, Kernel, Lock, Set, StatusClear, StatusCall, StatusRead, Info,
                             Unlock, vars, kvars, cpus
  <2>2. TableType' /\ TableRight'
    BY <2>1, SameTable, ShrinkTable DEF avars
  <2>3. MaskRight' /\ CacheIsolated'
    BY <2>1 DEF avars, TInv, MaskRight, Isolating, InTable, KindKnown, CacheIsolated
  <2>4. QED
    BY <2>2, <2>3 DEF TInv
<1>3. QED
  BY <1>1, <1>2

LEMMA InitTInv == Init => TInv
<1> SUFFICES ASSUME Init PROVE TInv
  OBVIOUS
<1>1. TableType /\ TableRight
  BY DEF Init, NoRead, TableType, TableRight
<1>2. MaskRight /\ CacheIsolated
  BY DEF Init, MaskRight, CacheIsolated
<1>3. QED
  BY <1>1, <1>2 DEF TInv

LEMMA StepTInv == RInv /\ TInv /\ [Next]_vars => TInv'
  BY LookupTInv, ReadFailsTInv, ReadDirTInv, ReadBeyondTInv, ReadKindTInv, ReadMapTInv, ReadEndTInv,
     SingleTInv, CheckCpuTInv, WriteCpuTInv, OfflinedTInv, OtherTInv, EnvironmentTInv
     DEF Next, AgentStep

\* A cache fault the agent reports isolated is isolated, for every layout of
\* shared caches, every numbering of the CPUs and every sequence of faults, as
\* long as nobody plugs CPUs behind the back of the table (cpu_offine_on_cache,
\* cache_to_cpus).  Of a faulty CPU the table has lost, because its number was
\* beyond what more_cpus made room for, only that CPU itself is promised.
THEOREM IsolationIsReal == Spec => []CacheIsolated
<1>1. TInv => CacheIsolated
  BY DEF TInv
<1>2. QED
  BY <1>1, InitRInv, StepRInv, InitTInv, StepTInv, PTL DEF Spec
=============================================================================
