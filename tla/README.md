# A TLA+ model of fms

fms is a fault management system for Linux: a daemon, `fmd`, whose *event
source* threads probe the hardware, whose *dispatcher* collects what they report
in *cases* and diagnoses faults, and whose *agent* threads repair or isolate the
faulty device. `fmadm` administers it, the kernel module `kfm` flushes caches and
tells about pages for it, `fmtopo` prints the machine. This directory models the
daemon's concurrent core, the protocols around it, the sources that feed it and
the agent and module that act for it, and checks the models with TLC. Every safety
property that a run checks is proved with TLAPS too, for every value of the constants.

## 1. Inventory

| Part | Source | State | Operations | Hard because |
|---|---|---|---|---|
| Event ring | `include/fmd_ring.h`, `fmd_queue.h` | slots, front/rear/count, two semaphores, a mutex | ring_init, ring_add, ring_del, ring_stat | many producers; `ring_stat` unlocked; results ignored |
| Timers and source threads | `fms/main.c`, `fmd_common.c`, `evtlib/evt_src.c` | ticks and mutex per source | fmd_timer_fire, evtsrc_start, do_evtsrc, evt_handle | lost signals, spurious wake-ups, probes that hang |
| Dispatcher and sweep | `fms/fmd_queue.c` | main ring, agent list, repaired list, round counter | queue_start, fmd_proc_event, put_to_agents, queue_delete_proc | blocks on full rings with a lock held; frees what agents use |
| Cases | `lib/libcase/fmd_case.c` | list of cases, each with events, fire count, use count | insert, canfire, fire, find_and_delete | object lifetimes, thresholds, windows |
| Agents | `evtlib/evt_agent.c`, `evtagent/*` | a ring, a handle mode, a configuration file | do_agent, agent_ring_put, update_conf | answers race with the sweep; partial failure |
| cpumem agent | `evtagent/cpumem` | the table of shared caches, CPUs and pages it took offline | flush, cpu offline, page offline | hotplug in between; a stale table; partial failure |
| kfm | `evtlib/kfm` | a mutex, a global cache status, a thread, a sysctl | netlink commands, unload, `kfmadm` | rmmod and hotplug under a request |
| Daemon start and stop | `fms/main.c`, `fmd_common.c` | `/var/run/fms.pid` | get/set_running_pid, kill_daemon, signal_term | check and write are apart; crashes |
| Administration | `evtsrc/adm`, `lib/libadm`, `tools/fmsadm` | one POSIX message queue | adm_probe, fmd_adm_* | requests and replies share the queue |
| Configuration editor | `tools/fmsadm/config.c` | `<source>.conf` | `config -i`, `-m`, `-b` | truncates, then writes; two editors |
| Modules | `evtlib/fmd_module.c`, `fmd_common.c` | `fmd.fmd_module` | load, unload | refused loads repeated; freeing under a running thread |
| Event classes | `lib/libesc`, `*.esc`, `*.conf`, `fms/fmd_queue.c` | class tables and subscriptions | classify, match, dispatch | one class built in C, listed in two files, compared by prefix |
| MCE decoding | `evtsrc/cpumem` | type of the CPU, the kernel's log | read the log, decode, post | bit fields, ids put together from them, order of records |
| DMI tables | `evtsrc/cpumem/dmi.c`, `libtopo/dmi.c` | ranges of addresses per DIMM | walk, sort, look up | malformed tables, boundaries, overlap |
| Disk and inject sources | `evtsrc/disk`, `evtsrc/inject` | none | probe | answers of commands cut by position |
| Event database | `lib/libcase/ev_record.c` | SQLite statements | open, store | what a statement keeps bound; partial failure |
| Topology | `lib/libtopo`, `tools/fmstopo` | lists per kind of device, a tree of paths | scan, build, print | directory order, hotplug during the scan, narrow bit fields |
| Messages, dictionary, injection tools, logging | `lib/libmsg`, `libdict`, `tools/fmsinject`, `libfmd/logging.c` | - | - | vendored, generated or output only |

**Interaction.** The main thread counts seconds and signals each source whose
interval is over (condition variable). The source probes and puts ereports into
the main ring (semaphores). The dispatcher takes them out, adds them to the case
of their device, perhaps diagnoses a fault, and puts fault and ereport into the
ring of the subscribed agent. The agent handles them and appends a *list event*
with its result to the repaired list (mutex). When the main ring is empty, every
`DELETE_CIRCLE`-th round, the dispatcher sweeps that list and deletes events and
cases. Ereport, fault and list event share one private data blob; the case counts
the ereports that agents still have (`m_event_using`, atomic). The adm source
reads and changes the lists of all of them on behalf of `fmadm`. The cpumem source reads the
kernel's machine-check log, decodes each record into a class and an id, and finds the
DIMM of an address in the DMI ranges; the dispatcher stores what it takes out of
the main ring in the event database. The cpumem agent asks `kfm` over netlink and
writes to sysfs, where administrators plug CPUs too.

**What makes each part correct.** Ring: nothing lost, duplicated or reordered;
no refusal. Timers: every source due is signalled, no source stops another.
Core: nothing is freed while someone may use it, nothing twice; a fault is
diagnosed exactly by the rules; everything is handled in the end. Start: one
daemon, and the pid file names it. Administration: every command ends and what it
reports is so. Configuration: what was acknowledged survives, an interval is never
0. Sources: what is posted is something an agent handles, is counted with its like
and names the right CPU, DIMM or disk. Agent and kfm: what is reported as isolated or
repaired is. Topology: a device is printed where it is.

## 2. Modules and the code

| Module | Models | Composition |
|---|---|---|
| `FmdQueueSpec` | abstract: a bounded FIFO queue with producers that offer and a consumer that holds one item | |
| `FmdRing` | `ring_t` and its protocol, one action per library call | implements `FmdQueueSpec` (`INSTANCE ... WITH`) |
| `FmdRing_proofs` | the theorems | extends `FmdRing` |
| `FmdCore` | dispatcher, cases, sweep, agents, repaired list | uses rings as the FIFO queues that `FmdRing` implements |
| `FmdCore_proofs` | the theorems | extends `FmdCore` |
| `FmdTimer` | main loop and source threads | its `SubmitOne` is `Submit` of `FmdRing` |
| `FmdStart` | pid file | |
| `FmdMain_proofs` | the theorems about both of these | extends `FmdTimer` and `FmdStart` |
| `FmdAdm` | `fmadm`, the queue `/fmadm` and the adm source | its `AddEvent`/`DropEvent` stand for `FmdCore` |
| `FmdAdm_proofs` | the theorems | extends `FmdAdm` |
| `AgentConf` | `<agent>_mod.conf` | its mode is `mode` of `FmdCore` |
| `AgentConf_proofs` | the theorems | extends `AgentConf` |
| `Kfm` | the kernel module and `kfmadm`, hotplug | |
| `CpumemAgent` | the treatment of a fault by the cpumem agent, step by step | extends `Kfm`: the agent is one more client of the module |
| `CpumemAgent_proofs` | the theorems about `Kfm` and about the agent | extends `CpumemAgent` |
| `EventClass` | shipped classes, subscriptions and how they are matched | |
| `EvRecord` | the event database | extends `EventClass` |
| `Dmi` | the DIMM ranges of the cpumem source | |
| `Mce` | decoding of a machine-check record into an event | extends `EvRecord` and `Dmi` |
| `Sources` | loading, log, cpumem, disk and inject probes, interval editors, database: one machine from the hardware to the row | extends `Mce` |
| `Sources_proofs` | the theorems about `Sources` and the modules it is made of | extends `Sources` |
| `Topo` | scan of the machine and the tree | |
| `Topo_proofs` | the theorems | extends `Topo` |
| `MC*` | the constants of the runs | one per module that is run |

`PROJECT.json` maps every definition to its lines. Conventions:

* An action is the whole of what the code does between two points at which
  another thread can see or change something: a library call in `FmdRing`,
  `FmdTimer` and `FmdStart`, a step under one lock in `FmdCore`, a write to sysfs or a
  message in `CpumemAgent` and `Kfm`, a directory entry in `Topo`, a record in `Sources`.
* Names are the code's (`ring_vaild`, `m_event_using` is `using`, `ev_refs` is `refs`).
* Objects that are freed stay in the model as entries of `evfreed` and
  `datafrees`, so that a use after free is a state, not an error.
* `FmdCore`: ereport *n* names the event object, its data and, for the first of a
  device, the case. Time is an age per event that saturates at `AgeCap`, past
  every value it is compared with. `Sub` gives the subscriber, `Begins` the pairs
  of device names that the prefix comparison of `agent_ring_put` takes for equal.
  Handlers are sets of possible results, since whether a repair works is up to the
  hardware.
* `FmdAdm`: a message is a record; a reader tells texts apart only by the
  words it searches for. That a reply taken back by the server reads as a request
  (case list: `atoi(NULL)`, module list: again a module list, text: "is illegal
  cmd") is in the model. Each such echo of a text makes it longer in a buffer of
  `malloc(128)`: a text carries how often it was echoed, and past `EchoMax` echoes it is
  sent on, refused by `mq_send` or the end of the daemon.
* `AgentConf`: a line is of a kind; a last line without newline is of a kind of its
  own, and what is appended goes on with it (`Added`).
* `CpumemAgent`: the table of caches has room for `cachelen` CPUs, as `more_cpus` makes
  it; an entry beyond is written and lost, or costs the daemon its life (`ReadBeyond`).
* Undefined behaviour is a choice of outcomes where they can be named, as in these two and in
  `kthread_stop` of a thread that has ended (`KthreadStop` in `Kfm`). Where they cannot
  the run enters a state of which nothing is said: `SocketsOverflow` in `Topo`.
* `Sources`: a line of `df` is a disk's name with a number, that of a partition or of the
  device itself (`own`: `/dev/md1`).
* `Mce` keeps the MCA code as a number and takes its fields by division, as the shifts
  and masks of `p4.c` do; of the rest of a status word the bits that choose an event.
  A class is a record (top, dev, kind, sfx) instead of a dotted text; the prefix
  comparisons are tables of what starts with what. `Word` stands for 2^32.
* `Topo` and `Mce` keep the widths of bit fields and of one-byte handles.
* What a read past an array returns is a value of any kind (`OutOfBounds`).
* Definitions with the comment "Mutant" are deliberate bugs, used to show that
  each property can fail; no specification uses them.

## 3. Runs

| Run | Checks | Shows |
|---|---|---|
| `ring` | TypeOK, SemaphoreBalance, NoRefusal, FifoQueue, Delivered | 2 producers, ring of 2, 4 event objects: the ring is a bounded FIFO queue, never refuses, and loses no wake-up |
| `core_cpu` | UsingExact, CaseAlive, EventAlive, FaultDataAlive, RecordUnique, DiagnosisSound | 3 ereports of a CPU and a memory page in three handle modes: repair, isolation, logging, sweep, late answers |
| `core_mix` | Handled, RepairedForgotten, IsolatedForgotten | 3 devices, prefix names, no subscriber, no ereport; every ereport is handled, records and cases go away |
| `timer` | FiringIsDue, LockHeld, Detected | 2 sources, one due every second, one that may hang; errors are found in spite of lost signals |
| `start` | PidFileNamesDaemon | 4 starts one after the other, crashes and stops everywhere |
| `adm` | NobodyStranded, RequestsEnd | 2 clients whose commands cross, queue of 2, up to 3 kills, an echo that outgrows its buffer: every request ends, unless more messages were destroyed than left behind |
| `adm_lone` | LoneClientTruth, NoneMissed | one client: what is reported is so; pages of 2 over up to 5 events, events added meanwhile |
| `conf` | AckDurable, ConfKept, MemoryAgrees | every file of up to 3 lines, the last with or without its newline, every failure, a crash anywhere |
| `kfm` | StatusTruth, UnloadReturns | 2 `kfmadm`, hotplug, 2 writers of the unload sysctl and rmmod: a cache status is that of the CPU asked; a lone writer that finds the thread asleep returns with the thread gone |
| `cpumem` | CacheIsolated, RepairReal | cache, TLB, QPI and page faults on 3 CPUs, a table with room for 2 at first, while an administrator plugs: what is reported as isolated or repaired is |
| `topo` | CpuShown, MemHasChip, DimmPlaced, PciPlaced | 5 machines, every directory order, CPUs going offline during the scan |
| `sources` | ClassesAgree, CountedTogether, DimmRight, CpuTypeStable, IntervalPositive, DiskNamed, RecordTells | 22 machines from the kernel's log, the DMI table, `df` or an injected event to the row of the database |

**Bounds.** `RING_SIZE` 1 or 2 instead of 128: full and empty rings, wrap-around
and blocking all happen with two slots, and the theorems cover every size.
`MaxEreports` 2 or 3: a device needs one ereport to open a case, a second to
reach a threshold of two and to be isolated, and a third to race with the sweep
of the first two. `AgeCap` 1 equals the largest window, so ages inside
and outside of it both occur. `FAF_NUM` 2 with up to five events gives first,
middle, last, full and empty pages. `MQ_MAX` 2 makes the queue fill up, and `MaxKills` 3
exceeds it, so that the queue can be full of what killed clients left behind. `EchoMax` 1 instead of
about 7 lets a text outgrow its buffer at the second echo. Of the commands of `adm` one (load) has an answer of
its own and one (config) is echoed; the theorems are about any. Three
lines hold a directive twice with something else around it, or before a last line without newline. Intervals 1 and 2
make timers due alone and together. `MaxBusy` 2: at most two of the tools, the agent
and the writers of the sysctl are active at a time, which is what a race in the module needs.
`MaxPlug` 2 allows a CPU to go and come back behind the agent. `MIN_CPUS` 2 instead of 8:
the directory of CPU 2 may come first and is then beyond the table. `SocketMax` 2 instead of 16.
The machines of `topo` are a regular two-node server; a board without NUMA with
nested bridges; one with a second PCI domain and numbers too wide for their
fields; one without SMBIOS tables that has two bridges on bus 0, a device behind each and one beside
them; and one with three sockets on a node, one more than `SocketMax`. Each machine of `sources` has the inputs of one concern: every form of an MCA
code on two CPUs, the Haswell banks, other and refused CPUs, eight DMI tables
(overlapping, nested, truncated, out of order...), five lists of partitions and whole devices, interval
arguments up to overflow, injected classes. `LogLen` 2 makes the kernel's
log overflow, `Word` 65536 makes an address and an interval wrap within TLC's
integers. Symmetry is used where the model values are
interchangeable (the invocations of `start`), in no run with liveness properties.

**Deadlock** is checked except in five configurations: in `start` all invocations
may be over; in `adm` the server blocks in `mq_send` when killed clients have left the queue full and
nobody receives (section 4); in `adm_lone` a case-list client waits for ever when the server has
taken its own reply and died of it; `topo` is a program that ends; in
`sources` the daemon may have died of a record it cannot name, or nothing is left to report.

**Where a property stops.** Some properties have a premise, because without it
the code does not keep them; each such premise names a behaviour of section 4.
CacheIsolated supposes that no administrator plugs CPUs once the agent has read its
table, and that the table knows the kind of the cache; ConfKept compares the file line
by line with the one at the start, but for the lines of the directive and for a last line without newline,
which is ended or, when blank, becomes the directive. AckDurable and MemoryAgrees leave out the files
whose last line is a comment without newline and that have no directive (`Swallows`).
NobodyStranded and RequestsEnd stop where the server has destroyed more messages than killed
clients left behind (`lost > kills`): a case list it took back, or an echo past its buffer.
UnloadReturns is about a writer that is alone (`Alone`) and finds the thread asleep.
The CPUs of MemHasChip and DimmPlaced are at most `SocketMax` sockets per node. The numbering of threads in
CpuShown is about cores of at most two threads (`TwoThreads`), the most the sibling loop knows.
DimmPlaced is about machines with one socket and one SMBIOS array per node, numbered alike, whose devices
have handles of one byte in the order of their arrays (`Regular`): `fmd_topo_walk_mem` has no other
link between a node and a device than their order. PciPlaced is about machines with one domain whose bridges sit on
bus 0, with slots below 8 and functions below 4 behind them (`FlatPci`). There each device that is listed has a path
of its own and, once `fmd_topo_walk_subpci` has run (`hung`), is below a bridge if and only if its
bus is the secondary bus of that bridge. DiskNamed supposes numbers of one digit, and no whole device whose
name ends in 1 to 9 (`PlainNames`; and the model a `df` that lists a device once, and no disk along with its
partitions);
CountedTogether is about caches and TLBs, RecordTells about CPU events; ClassesAgree
excepts the uncorrected suffix and `fault.cpu`; IntervalPositive excepts arguments
that overflow an int; PidFileNamesDaemon is checked for starts that do not overlap.
DimmRight is proved for tables in which no range ends before it starts: `dmi_sanity_check`
compares each range with its neighbour only, and a range turned round lets two others overlap
across it.

## 4. What the models show besides

The models follow the code in these points too, and no property asks for them to
be different.

*Core.* `fmd_case_find_and_delete` answers -1 for a case in use as for no case, and
the sweep then frees the data of an ereport that waits in an agent's ring to be logged
(`fmd_queue.c:169`). It tests `list_empty` on the case's own node, so a case
whose last event is gone stays, with its fire count (`fmd_case.c:291`). The record of
an isolated device is never deleted, its `list_del` being commented out, and is
applied to every later case of the device (`fmd_queue.c:192`).

*Start and administration.* Two starts that overlap both pass the check of the pid
file and run (`main.c:184`). A text that the server takes back is echoed with 16 bytes more, in
`malloc(128)`: after about seven times it overruns the heap, and once longer than `mq_msgsize` it is
dropped (`evtsrc.adm.c:503`). When more clients were killed than the queue holds messages, the server blocks in
`mq_send` for the next one as new clients do, and nobody receives (`Jammed`, `evtsrc.adm.c:510`). With 20, 40, ... events the case list fails after reading
all (`fmd_adm.c:250`). An event deleted between two pages moves another one to a page
already read (`fmd_adm.c:310`). `config -m` reports success although the server answers
"illegal cmd" (`fmd_adm.c:393`). `faulty -t repaired` walks a database that was never
opened and fails before it asks (`faulty.c:283`). `config -b` copies from a null pointer.
`config -i` leaves an empty file behind when killed between `fopen` and `fputs`, and
4294967296 becomes an interval of 0. `fmd_module_finit` is never called and nothing
closed: a source refused at its first load is accepted at the second
(`cpumem_evtsrc.c:325`).

*Agent configuration.* A directive that is added to a file whose last line lacks its newline goes on
with that line (`evt_agent.c:289`, `296`): part of a comment, it is acknowledged, in memory, and lost at the next start.

*cpumem and kfm.* The table of caches doubles once for a CPU, however great its number: from CPU 8
on, a directory that is listed too early is written behind the table and forgotten (`cache.c:143`). Nothing keeps
two writers of the unload sysctl, or one and the thread's own exit, apart: `kthread_stop` may be given a
task that is gone (`kfm_core.c:39-43`). An empty `shared_cpu_map`, read while a CPU goes down, makes
an isolation that offlines nothing succeed. After hotplug the table of caches is
stale; a CPU that was offline when it was read is treated alone. A flush on an offline CPU
succeeds silently. rmmod before the thread has counted itself leaves it running
(`kfm_core.c:51`). `get_cmd` may return 0 without a reply (`kfm_ctl.c:288`), and `kfmadm -L`
without options uses a result nobody set.

*Sources.* ATOM CPUs are selected but have no decoder. An MCA code without a
mnemonic ends the daemon with the rest of the buffer (`p4.c:347`). Uncorrected errors
are posted as `_uc` and listed as `_ue`; thermal events are posted as `fault.cpu.*`,
which the dispatcher drops (`fmd_queue.c:108`). Bus and base errors share ids with
caches and TLBs. The last byte of a DIMM's range names no DIMM (`dmi.c:564`). With ten
partitions and more the name of the disk is wrong, and so is that of a whole device that ends in a digit, `/dev/md1` or `/dev/loop1`
(`disk_evtsrc.c:106`; the code's test of the digit is `atoi` of the last character, so `/dev/md0` is left alone), `grep` takes `sda1` for `sda10`, and
without the disk tool every disk is unhealthy. Injected ids are those of other disk
events. In the database no disk event is found by its prefix (`ev_record.c:423`), a 64-bit
id is bound as an int, and an event that is only reported keeps the level of the row before.

*Topology.* The scratch array of sockets is `{-1}`, that is -1 and zeros, and is scanned one too far:
a socket 0 that is not a node's first counts as known (`dmi.c:355`); more than 16 sockets on a node overrun it. Reads run past the handle arrays when SMBIOS and the CPUs
disagree. Handles are cut to one byte; slots above 7 and functions above 3 behind a bridge merge devices;
nested bridges depend on the directory order (`pci.c:366`); a PCI domain that is no node
ends the tree (`topo_tree.c:502`) and `fmtopo` with it; the result of the scan (`_fmd_topo`), which fails
for a directory it cannot open, nobody looks at.

## 5. Fairness

* Threads run: weak fairness of the dispatcher, agents, main loop, source threads
  and the adm server. They are ordinary threads that nothing suspends.
* A mutex, semaphore or message queue that becomes available again and again is
  obtained in the end: strong fairness of the lock and wait actions. The holders
  keep the locks for a few instructions and then sleep for a second or more; the
  kernel serves blocked `mq_receive` callers in order.
* Time passes (`Tick` in `FmdCore`). Ereports owe nothing: sources may fall silent.
* A probe returns, except for sources in `Hung` (the adm, hotplug and inject
  sources block in `mq_receive`). Nothing is assumed of spurious wake-ups,
  crashes, kills or administrators.
* `Kfm`: the kernel schedules the post thread and the process that wrote the sysctl
  (`KfmFairness`). Nothing is assumed of tools, hotplug or rmmod.

## 6. Proofs

`FmdRing_proofs` proves, for every finite set of producers, every set of events
and every `RING_SIZE > 0`:

* `TypeCorrect`, `Exclusion`, `Balanced`, `NeverRefused`: `Spec => []P` for
  TypeOK, MutexInv, SemaphoreBalance and NoRefusal;
* `ImplementsQueue`: `Spec => Queue!QSpec`, so events are handed over exactly
  once and in the order of `ring_add`;
* `NoHalt`: while an event is in the ring or on its way in, some thread gets past its
  `sem_wait`, its mutex and `ring_stat`. It is the safety half of Delivered, and what the
  accounting below is good for: a thread that nobody lets on would have to lack a unit that
  some other thread, which can go on, is about to post.

The inductive invariant is `IInv == TypeOK /\ MutexInv /\ SemaphoreBalance`.
NoRefusal is not inductive by itself: that `count < RING_SIZE` when a producer is
in `ring_add` follows only from counting. Each slot is free (`ring_vaild`), claimed
by a producer past `sem_wait`, counted, or about to be given back by the consumer,
and these add up to `RING_SIZE`; a producer in `ring_add` is one of the claimed, so
`count` is below. Symmetrically for `ring_del`. The accounting moves one unit
per step, and for that the steps inside `ring_add` and `ring_del` must not overlap,
which is MutexInv. Refinement adds the index invariant `rear = (front + count) %
RING_SIZE`: the slot that `ring_add` writes is none of those in use, and `ring_del`
removes the head of the abstract queue. The assumptions are the `ASSUME`s of
`FmdRing`: a positive size, finitely many producers, NULL and the consumer apart
from the producers.

`FmdMain_proofs` proves, for every set of sources, order of the timer list and
positive intervals:

* `TypeCorrect`: `Spec => []TypeOK`, in which no counter passes its interval and
  `evt_handle` never counts below zero;
* `FiresWhenDue`: `Spec => []FiringIsDue`; `LocksAreShort`: `Spec => []LockHeld`.

The inductive invariant is `IInv == TypeOK /\ FiringIsDue /\ LockHeld /\ Bounded`.
That a counter stays within its interval rests on FiringIsDue (before `Tick` no
counter stands at its interval, so one more second cannot pass it), which in turn
needs `Bounded`: while a timer is being fired, the position in
the list names one. `Bounded` also says that a thread that submits has an event
left, from which the end of `evt_handle`'s walk follows. The only assumption is
`TimerAssumption`: the list names every source, intervals are positive, and the main
thread and "nobody" are no sources. A source may stand in the list more than once.

It proves too, for any number of invocations of `fmd`: `StartTypeCorrect`; and for starts
that do not overlap (`Serial`), `PidFileTrue` (PidFileNamesDaemon) and `OneDaemonRuns`,
that two daemons never run. The invariant adds who may be
where: one start at a time, a named daemon is the one in the file, what
`get_running_pid` has read is still true or nobody is named, and who found nobody is
alone with the file. Without `Serial` the theorem is false (section 4).

`FmdCore_proofs` proves, for every set of devices, classes and agents, every ring size
and any number of ereports: `TypeCorrect` (TypeOK), `UseCounted` (UsingExact),
`CaseNotFreed` (CaseAlive), `EventNotFreed` (EventAlive), `DataNotFreed`
(FaultDataAlive), `OneRecord` (RecordUnique), `DiagnosesSoundly` (the action property
DiagnosisSound). None is inductive. The invariant is an account of where each
ereport is: `Arrival` (once in the main ring or with the dispatcher, before it has a
case), `Queued` (at most once as an ereport and once as a fault with the agent that
subscribes, after it has one), `Cases` (what a case links is of its device), `Counts`
(a case has fired and an event has counted at most as often as ereports came) and
`Data` (the private data passes from the fault to the answer to the record, and is freed
with that one). `m_event_using` is then the cardinality of a set of places, and each step
moves one ereport. Assumptions: `CoreAssumption`, `NoneAssumption` (NONE is no
message, record or case).

`CpumemAgent_proofs` proves, for every number of CPUs, pages, tools and faults, every
layout of shared caches, any room for them and any amount of hotplug: `StatusTrue` (`KfmSpec =>
[]StatusTruth`), from who holds `__kfm_mutex` and what the global is between call and
read; `RepairsAreReal` (RepairReal), which adds at which step of the agent its request
can be in which state; `IsolationIsReal` (CacheIsolated), which adds that the table of
caches agrees with the machine as far as it has been read (`TableRight`) and that the mask
under way contains all that must go (`MaskRight`). An entry beyond the table is one
that the table does not have, and only of caches that the table knows is anything promised. The assumptions are
`KfmAssumption` and `AgentAssumption` (a fault names a CPU, a CPU shares its own caches).

`AgentConf_proofs` proves, for files of any length and any set of modes: `TypeCorrect`,
`AckLasts` (AckDurable), `FileKept` (ConfKept), `ModeAgrees` (MemoryAgrees). The
invariant says line by line what the temporary file holds of the old one, while the loop runs and
after the directive was added, perhaps to an unterminated line (`Copied`), and
relates the memory to what `parse_config` would read (`Memory`). Assumptions:
`ConfAssumption`, `AbsentAssumption` (no file is not a file).

`FmdAdm_proofs` proves, for any clients, commands, queue and page sizes and room for echoes:

* `TypeCorrect`, and `NobodyIsStranded` (NobodyStranded), for any number of clients that are
  killed and take each other's answers. The invariant (`Conserved`) counts: those who wait and
  those who were killed are as many as the messages in the queue, with the server and destroyed;
* `JamTakesKills`: the server blocks with nobody to receive only after more than `MQ_MAX` kills,
  from the same count;

and under hypotheses that are the code's limits:

* `LoneClientIsToldTruth` (LoneClientTruth), for one client that is not killed: with
  two, a client reads the other's answer. The invariant: one message is on its way, and
  fits the request (`Fits`);
* `NoneIsMissed` (NoneMissed), for the same client while the daemon deletes no event: what
  the pages so far lack is on the page under way or after it (`Promised`).

`Sources_proofs` proves, for every machine (CPU, records, SMBIOS table, list of
partitions, injected classes), any editors and any length of the log:

* `IntervalIsPositive` (IntervalPositive): every line of the file and of every editor's
  buffer is a positive number that fits, or no interval (`ConfInv`);
* `CpuTypeIsStable` (CpuTypeStable): what is in the log and in the buffer are records of
  this machine, and nothing is decoded before the CPU was looked at (`CpuInv`);
* `DiskIsNamed` (DiskNamed, where the cut digit is a partition's: `PlainNames`), `CachesCountAlone` (CountedTogether), `ClassesAlwaysAgree`
  (ClassesAgree, when `fminject` sends the kinds of the disk source or `read_error`): the shape of
  every message that `decode_mca`, the Haswell tables and the thermal decoder can
  make, hence of every event (`EventInv`), against the lines of the esc files;
* `DimmIsRight` (DimmRight, for tables in which no range ends before it starts): ranges
  that passed the check are disjoint, by induction along the sorted list
  (`DimmInv`); `qsort` is only known to permute them;
* `RecordsTell` (RecordTells): what waits on the ring was posted, a CPU's event id is a number
  below 16 plus the CPU times `Word`, so the lower half and dev_id give it back, and
  every row is that of an event that was posted (`RecordInv`).

Assumptions: `WordAssumption` (an even number of at least 4096) and `MachineAssumption` (the CPUs
of a machine are alike, a record tells the cpuid or 0, tables are lists of numbers, `df` as above).

`Topo_proofs` proves, for every machine (any number of CPUs, nodes, SMBIOS structures, PCI
devices, bridges and interfaces), every order of the directories and any CPUs taken offline meanwhile:

* `CpusAreShown` (CpuShown). `CpuInv`: the entries of `list_cpu` are those of different CPUs, each with the
  place sysfs gives it, and a CPU that is still online is listed or still to be read. After the sibling loop a core's
  pair is flagged and its greater processor is thread 1, by an invariant of the rounds: an entry that is
  flagged is paired right, one that is not is as it was read. `TreeInv`: the paths of the printed tree are
  those of the lists, and a path of four elements with a core in it comes from a CPU;
* `DimmsHaveChips` (MemHasChip). `MemInv`: a DIMM's chassis and socket are those of some entry of
  `list_cpu`, because `SocketsOf` only collects such sockets and the loops run over
  nothing else, whatever is read past the arrays of handles. A node with more than `SocketMax` sockets ends in
`SocketsOverflow`, after which there is no list to speak of;
* `DimmsArePlaced` (DimmPlaced, on machines that are `Regular`). A counting argument. The three nested loops emit blocks, one
  per node, as long as the array of that rank says (`SlotBlocks`); the devices of arrays of a
  lower rank are exactly those of the blocks before (`BeforeIs`, `BlockIs`), so the p-th handle of the sorted
  list, p in block i, is that of a device whose array has rank i (`NthDevice`). Blocks together are as long as the
  list of devices, hence no overrun;
* `DevicesArePlaced` (PciPlaced, on machines that are `FlatPci`). `PciInv`: a device is at home, or below the one
  bridge whose secondary bus is its own (`InPlace`), and below it for sure once the bridges were walked. A device moved to bus 0 is moved by no other bridge, since no bridge has
  0 behind it, so the order of bridges does not matter; paths then determine addresses, and
  addresses devices and the bridge they are below.

The assumption is `TopoAssumption`: numbers are natural, a PCI address has the widths of the bus, and a directory
has one entry per name. Loops over lists are recursive functions here; that such a function has the value its
equation says, and what it is after the last round, comes from a lemma about loops
(`LoopExists`, `Rounds`) instead of an induction.

Facts about data that would need induction are proved by the least counterexample
(`LeastNat`, from the well-foundedness of `<` on the naturals): that neighbours which
do not overlap make all ranges disjoint, that a loop over a list keeps what its rounds keep, and that
`FlattenSeq`, a recursive function of the community modules, has a value and is a sequence of the
elements of its parts, in the order of the parts.

MutexInv of the ring and TypeOK of the timers, the core, the start, the administration
and the agent's configuration are proved and not checked by a run of their own.

Model-checked only: liveness (Delivered, Handled, RepairedForgotten, IsolatedForgotten, Detected,
RequestsEnd, UnloadReturns). Fairness and ENABLED are outside the prover's reach; of Delivered
the safety half is proved (`NoHalt`).

## 7. Not modelled

Vendored and generated code (`libdict`, the fminject lexer and parser), logging,
formatting and message texts, the shell commands of the disk agent: I/O without
state of their own. `libfmd_adm` and `libfmd_msg` are older copies that nothing links;
the hotplug source does not compile (`mdq`) and its tool only sends to it; the inject agent
exports `fmd_module_ini` and is never loaded; `ras_store_norep_event`,
`disk_badblocks_check`, `memdev.c`, `file_lock` and, as `DEBUG_MODE` is 1 (`main.c:28`), `rv_b2daemon` are
never called. `ras_store_rep_event`, which the sweep calls for a device that was isolated
(`fmd_case.c:253`), adds a row to a table that the daemon never reads, and its result is ignored. What unloading a module does to its running thread is left out: it frees the ring and the
module under it, and every behaviour would end there.

Simplifications inside the modelled parts: the clock does not step; the adm source's
walk over the case list is one step although it takes no lock; the disk does not fill
up while a configuration is written; pids are not reused; a `.conf` or `.esc` file is the shipped
one, but for the interval; the DMI entry point is found or not in one step; of twenty page
flags in `Kfm` those the agent looks at.

## 8. Plan

Done: the ring and the timers with their proofs, the core, start and stop,
administration, agent configuration, kfm and the cpumem agent, classes, MCE and DMI
decoding, disk and inject sources, the event database, the configuration editor,
topology; proofs of every safety property that a run checks. Left:

1. `FmdCore` on top of `FmdRing`: the core takes its rings as the queues that `FmdRing` is
   proved to implement. The dispatcher's `Fire` puts the fault and offers the ereport in one step, so
   stating the core as a user of `FmdQueueSpec` needs a step between the two.
2. `FmdAdm` for several clients: which of the answers a client may take for its own.
