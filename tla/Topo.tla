-------------------------------- MODULE Topo --------------------------------
(***************************************************************************)
(* Hardware topology (lib/libtopo, shown by tools/fmstopo): walk sysfs and *)
(* the SMBIOS tables into flat lists of CPUs, DIMMs, PCI devices and       *)
(* disks, hang PCI devices below their bridges, and build the tree that    *)
(* fmtopo prints.                                                          *)
(*                                                                         *)
(* readdir returns entries in no particular order, and CPUs may be taken   *)
(* offline (the cpumem agent does it) while their directories are read.    *)
(* Lists have their head first, as list_add leaves them.  Ids keep the     *)
(* widths of the bit fields of fmd_topo.h.                                 *)
(***************************************************************************)
EXTENDS Integers, Sequences, FiniteSets, SequencesExt, FiniteSetsExt

CONSTANTS Machines,   \* what sysfs and SMBIOS say, one record per machine
          SocketMax   \* entries of the scratch array for a node's sockets, 16 in the source

ASSUME SocketAssumption == SocketMax \in Nat \ {0}

\* Numbers are natural, a PCI address has the widths of the bus, and a
\* directory has one entry per name.
ASSUME TopoAssumption ==
  \A x \in Machines :
    /\ DOMAIN x.cpu \subseteq Nat
    /\ \A c \in DOMAIN x.cpu :
         x.cpu[c].node \in Nat /\ x.cpu[c].socket \in Nat /\ x.cpu[c].core \in Nat
    /\ x.dmi \in Seq(Range(x.dmi))
    /\ \A i \in DOMAIN x.dmi :
         /\ x.dmi[i].handle \in Nat
         /\ x.dmi[i].type = 16 => x.dmi[i].devices \in Nat
         /\ x.dmi[i].type = 17 => x.dmi[i].array \in Nat
    /\ \A d \in DOMAIN x.pci :
         /\ x.pci[d].domain \in Nat /\ x.pci[d].bus \in 0..255 /\ x.pci[d].slot \in 0..31
         /\ x.pci[d].func \in 0..7 /\ x.pci[d].secondary \in 0..255
         /\ \A e \in DOMAIN x.pci \ {d} :
              \/ x.pci[d].domain # x.pci[e].domain \/ x.pci[d].bus # x.pci[e].bus
              \/ x.pci[d].slot # x.pci[e].slot \/ x.pci[d].func # x.pci[e].func
    /\ IsFiniteSet(x.net)

VARIABLES m,          \* the machine
          online,     \* its CPUs that are online
          pc,         \* the step of fmtopo
          todo,       \* directory entries not read yet
          list_cpu, list_mem, list_pci, list_pci_bridge, list_storage,
          overrun,    \* fmd_topo_walk_mem has read past one of its arrays
          hung,       \* devices have been hung below their bridges
          tree        \* the set of paths of the tree, prefixes included

vars == <<m, online, pc, todo, list_cpu, list_mem, list_pci, list_pci_bridge,
          list_storage, overrun, hung, tree>>
lists == <<list_cpu, list_mem, list_pci, list_pci_bridge, list_storage>>

Init ==
  /\ m \in Machines
  /\ online = DOMAIN m.cpu
  /\ pc = "cpu"
  /\ todo = DOMAIN m.cpu
  /\ list_cpu = <<>> /\ list_mem = <<>> /\ list_pci = <<>>
  /\ list_pci_bridge = <<>> /\ list_storage = <<>>
  /\ overrun = FALSE /\ hung = FALSE
  /\ tree = {}

----------------------------------------------------------------------------
\* CPUs

\* The node a CPU is listed under: all under node 0 when the kernel has no
\* /sys/devices/system/node and _fmd_topo walks the plain cpu directory.
NodeOf(c) == IF m.numa THEN m.cpu[c].node ELSE 0

\* fmd_topo_read_cpu: an offline CPU has no topology directory.
CpuEntry(c) ==
  [processor |-> c, chassis |-> NodeOf(c) % 256, socket |-> m.cpu[c].socket % 256,
   core |-> m.cpu[c].core % 256, thread |-> 0, flag |-> 0]

ReadCpu(c) ==
  /\ pc = "cpu" /\ c \in todo
  /\ todo' = todo \ {c}
  /\ list_cpu' = IF c \in online THEN <<CpuEntry(c)>> \o list_cpu ELSE list_cpu
  /\ UNCHANGED <<m, online, pc, list_mem, list_pci, list_pci_bridge,
                 list_storage, overrun, hung, tree>>

\* The agent takes a CPU offline; CPU 0 cannot be.
Offline(c) ==
  /\ pc = "cpu" /\ c \in online \ {0}
  /\ online' = online \ {c}
  /\ UNCHANGED <<m, pc, todo, lists, overrun, hung, tree>>

Sibling(p, q) == p.chassis = q.chassis /\ p.socket = q.socket /\ p.core = q.core

\* Mutant: the smaller processor of a pair becomes thread 1.
PairCpuLower(l, i) ==
  LET sib == {j \in DOMAIN l \ {i} : Sibling(l[i], l[j])}
  IN IF l[i].flag = 1 \/ sib = {} THEN l
     ELSE LET j     == Min(sib)
              upper == IF l[j].processor > l[i].processor THEN i ELSE j
          IN [k \in DOMAIN l |->
                IF k \notin {i, j} THEN l[k]
                ELSE [l[k] EXCEPT !.flag = 1, !.thread = IF k = upper THEN 1 ELSE @]]

\* One round of the outer loop over list_cpu: the first other sibling is
\* paired with the CPU, and the greater processor of the two is thread 1.
PairCpu(l, i) ==
  LET sib == {j \in DOMAIN l \ {i} : Sibling(l[i], l[j])}
  IN IF l[i].flag = 1 \/ sib = {} THEN l
     ELSE LET j     == Min(sib)
              upper == IF l[j].processor > l[i].processor THEN j ELSE i
          IN [k \in DOMAIN l |->
                IF k \notin {i, j} THEN l[k]
                ELSE [l[k] EXCEPT !.flag = 1, !.thread = IF k = upper THEN 1 ELSE @]]

\* list_cpu after the outer loop.
Paired ==
  LET round[i \in 0..Len(list_cpu)] == IF i = 0 THEN list_cpu ELSE PairCpu(round[i - 1], i)
  IN round[Len(list_cpu)]

SetThreads ==
  /\ pc = "cpu" /\ todo = {}
  /\ list_cpu' = Paired
  /\ pc' = "dmi"
  /\ UNCHANGED <<m, online, todo, list_mem, list_pci, list_pci_bridge,
                 list_storage, overrun, hung, tree>>

----------------------------------------------------------------------------
\* Memory: SMBIOS structures of type 16 (array), 17 (device) and 20 (device
\* mapped address); processors and array addresses are parsed and not used.

\* dmi_table stops at the first structure that does not fit in the table.
\* Its lists are sets of places in the table: a list has the last one first.
Parsed == {i \in DOMAIN m.dmi : \A j \in 1..i : m.dmi[j].whole}

\* A structure's own handle keeps only its low byte.
Own(i)    == m.dmi[i].handle % 256
OfType(t) == {i \in Parsed : m.dmi[i].type = t}
Arrays    == {i \in OfType(16) : m.dmi[i].system}   \* use: system memory

\* Ranges of less than 512 are taken to be in megabytes.
Kilobytes(d) == IF d.end - d.start < 512
                THEN [start |-> d.start * 1024, end |-> d.end * 1024]
                ELSE [start |-> d.start, end |-> d.end]

\* Mutant: the handles stay in list order.
HandleUnsorted(l, n) == Own(CHOOSE i \in l : Cardinality({j \in l : j >= i}) = n)

\* The n-th handle of a list once it is sorted (qsort with comp).
Handle(l, n) ==
  Min({h \in {Own(i) : i \in l} : Cardinality({i \in l : Own(i) <= h}) >= n})

\* The distinct sockets of a node in list order.  The scratch array is
\* initialised to {-1}, that is -1 followed by zeros, and the scan looks at
\* one element too many: socket 0 counts as known once another is recorded,
\* until the array is full.
SocketsOf(i) ==
  LET known[k \in 0..Len(list_cpu)] ==
        IF k = 0 THEN <<>>
        ELSE LET s == known[k - 1]
                 c == list_cpu[k]
             IN IF c.chassis # i \/ c.socket \in Range(s) \/ (c.socket = 0 /\ Len(s) \in 1..(SocketMax - 1))
                THEN s ELSE Append(s, c.socket)
  IN known[Len(list_cpu)]

MaxChassis == Max({0} \cup {list_cpu[k].chassis : k \in DOMAIN list_cpu})

\* Which array a socket's DIMMs are counted by.
ArrayIndex(i, socket) ==
  IF Cardinality(Arrays) = Len(SocketsOf(i)) * (MaxChassis + 1) THEN socket ELSE i

\* The number of DIMMs of a socket: g is what lies behind the end of array_handle.
DimmCount(i, socket, g) ==
  LET at     == ArrayIndex(i, socket)
      handle == IF at < Cardinality(Arrays) THEN Handle(Arrays, at + 1) ELSE g
      found  == {k \in Arrays : Own(k) = handle}
  IN IF found = {} THEN 0 ELSE m.dmi[Min(found)].devices  \* the last of the list

\* <<chassis, socket, dimm>> in the order of the three nested loops.
DimmSlots(g) ==
  LET dimms(i, s) == [k \in 1..DimmCount(i, s, g) |-> <<i, s, k - 1>>]
      node(i)     == FlattenSeq([j \in DOMAIN SocketsOf(i) |-> dimms(i, SocketsOf(i)[j])])
  IN FlattenSeq([i \in 1..(MaxChassis + 1) |-> node(i - 1)])

\* Mutant: the index of the socket is stored, not its id.
MemEntryIndex(n, slot, g) ==
  [chassis |-> slot[1] % 256, socket |-> 0, dimm |-> slot[3] % 256, start |-> 0, end |-> 0]

\* The n-th DIMM gets the n-th device handle and that device's last mapped range.
MemEntry(n, slot, g) ==
  LET handle == IF n <= Cardinality(OfType(17)) THEN Handle(OfType(17), n) ELSE g
      maps   == {k \in OfType(20) : m.dmi[k].device = handle}
      range  == IF maps = {} THEN [start |-> 0, end |-> 0] ELSE Kilobytes(m.dmi[Min(maps)])
  IN [chassis |-> slot[1] % 256, socket |-> slot[2], dimm |-> slot[3] % 256,
      start |-> range.start, end |-> range.end]

OutOfBounds(g) ==
  \/ Len(DimmSlots(g)) > Cardinality(OfType(17))
  \/ \E i \in 0..MaxChassis : \E s \in Range(SocketsOf(i)) : ArrayIndex(i, s) >= Cardinality(Arrays)

\* More sockets than the scratch array holds: they are written behind it.
TooManySockets == \E i \in 0..MaxChassis : Len(SocketsOf(i)) > SocketMax

\* fmd_topo_dmi: an empty table fails, and so does /dev/mem (kept from the
\* caller in locked-down kernels); fmtopo goes on to the tree all the same.
WalkMem ==
  /\ pc = "dmi" /\ ~TooManySockets
  /\ \E g \in {-1} \cup {Own(i) : i \in DOMAIN m.dmi} :
       /\ list_mem' = Reverse([n \in DOMAIN DimmSlots(g) |-> MemEntry(n, DimmSlots(g)[n], g)])
       /\ overrun' = OutOfBounds(g)
  /\ m.dmi # <<>>
  /\ pc' = "pci" /\ todo' = DOMAIN m.pci
  /\ UNCHANGED <<m, online, list_cpu, list_pci, list_pci_bridge, list_storage, hung, tree>>

DmiFails ==
  /\ pc = "dmi"
  /\ pc' = "tree"
  /\ UNCHANGED <<m, online, todo, lists, overrun, hung, tree>>

\* Without EFI and without an anchor below 1 MB there is no table to read, and
\* that is a success.
DmiAbsent ==
  /\ pc = "dmi" /\ m.dmi = <<>>
  /\ pc' = "pci" /\ todo' = DOMAIN m.pci
  /\ UNCHANGED <<m, online, lists, overrun, hung, tree>>

\* The frame of fmd_topo_walk_mem is overwritten: nothing is known of the run
\* from here on, and no property says anything about it.
SocketsOverflow ==
  /\ pc = "dmi" /\ m.dmi # <<>> /\ TooManySockets
  /\ pc' = "undefined"
  /\ UNCHANGED <<m, online, todo, lists, overrun, hung, tree>>

----------------------------------------------------------------------------
\* PCI devices

\* fmd_topo_walk_pci: the address from the directory's name, and (by
\* fmd_scan_pci_dev) the secondary bus of a PCI bridge; -1 stands for no name.
PciEntry(d) ==
  [chassis |-> m.pci[d].domain % 256, hostbridge |-> m.pci[d].bus % 256,
   slot |-> m.pci[d].slot % 256, func |-> m.pci[d].func % 16,
   subdomain |-> 0, subbus |-> IF m.pci[d].class = "bridge_pci" THEN m.pci[d].secondary % 256 ELSE 0,
   subslot |-> 0, subfunc |-> 0, dev |-> d, name |-> "none"]

\* fmd_scan_pci_storage: the disks below a controller.  A directory that
\* cannot be opened ends the scan with what it has; the path is printed from
\* the 8-bit ids, so beyond domain 255 there is no such directory.
Disks(d, found) ==
  SetToSeq({[hostbridge |-> m.pci[d].bus % 256, slot |-> m.pci[d].slot % 256, disk |-> k]
            : k \in IF m.pci[d].domain < 256 THEN found ELSE {}})

\* fmd_scan_pci_dev: bridges, storage controllers and all others part.
WalkPci(d) ==
  /\ pc = "pci" /\ d \in todo
  /\ todo' = todo \ {d}
  /\ \/ /\ m.pci[d].class = "bridge_pci"
        /\ list_pci_bridge' = <<PciEntry(d)>> \o list_pci_bridge
        /\ UNCHANGED <<list_pci, list_storage>>
     \/ /\ m.pci[d].class = "storage"
        /\ \E found \in SUBSET m.pci[d].disks : list_storage' = Disks(d, found) \o list_storage
        /\ UNCHANGED <<list_pci, list_pci_bridge>>
     \/ /\ m.pci[d].class \notin {"bridge_pci", "storage"}
        /\ list_pci' = <<PciEntry(d)>> \o list_pci
        /\ UNCHANGED <<list_pci_bridge, list_storage>>
     \/ UNCHANGED <<list_pci, list_pci_bridge, list_storage>>   \* its config does not open
  /\ UNCHANGED <<m, online, pc, list_cpu, list_mem, overrun, hung, tree>>

\* fmd_topo_walk_net: an interface's name goes to the first device that the
\* driver of the interface lists, the interface's own or not.
NameNet(l, n) ==
  [k \in DOMAIN l |-> IF l[k].chassis = m.pci[n.first].domain /\ l[k].hostbridge = m.pci[n.first].bus
                         /\ l[k].slot = m.pci[n.first].slot /\ l[k].func = m.pci[n.first].func
                      THEN [l[k] EXCEPT !.name = n.name] ELSE l[k]]

\* fmd_topo_net: every interface in turn.
Named(nets) ==
  LET upto[n \in 0..Len(nets)] == IF n = 0 THEN list_pci ELSE NameNet(upto[n - 1], nets[n])
  IN upto[Len(nets)]

\* fmd_topo_walk_subpci: a device on a bridge's secondary bus moves to the
\* bridge's own place, its slot and function becoming the sub-slot and -function.
Below(p, b) ==
  IF p.hostbridge = b.subbus /\ p.chassis = b.subdomain
  THEN [p EXCEPT !.chassis = b.chassis, !.hostbridge = b.hostbridge,
                 !.subslot = p.slot % 8, !.subfunc = p.func % 4,
                 !.slot = b.slot, !.func = b.func,
                 !.subdomain = b.subdomain, !.subbus = b.subbus]
  ELSE p

\* Mutant: the loop over the bridges ends with the first one.
HungFirst(p) == IF list_pci_bridge = <<>> THEN p ELSE Below(p, Head(list_pci_bridge))

Hung(p) ==
  LET by[n \in 0..Len(list_pci_bridge)] ==
        IF n = 0 THEN p ELSE Below(by[n - 1], list_pci_bridge[n])
  IN by[Len(list_pci_bridge)]

SubPci(l) == [k \in DOMAIN l |-> Hung(l[k])]

\* The rest of fmd_topo_pci: /sys/class/net, whose failure skips the bridges.
WalkNet ==
  /\ pc = "pci" /\ todo = {}
  /\ \/ (\E nets \in SetToSeqs(m.net) : list_pci' = SubPci(Named(nets))) /\ hung' = TRUE
     \/ UNCHANGED <<list_pci, hung>>
  /\ pc' = "tree"
  /\ UNCHANGED <<m, online, todo, list_cpu, list_mem, list_pci_bridge,
                 list_storage, overrun, tree>>

----------------------------------------------------------------------------
\* The tree.  Each level looks its id up in the parent's list and adds a node
\* when there is none: adding a path adds its prefixes that are missing.

Node(name, value) == <<name, value>>
Paths(p)          == {SubSeq(p, 1, n) : n \in 1..Len(p)}

CpuPath(c) == <<Node("chassis", c.chassis), Node("chip", c.socket), Node("core", c.core),
                Node("thread", c.processor)>>

PciPath(p) == <<Node("chassis", p.chassis), Node("hostbridge", p.hostbridge),
                Node("slot", p.slot), Node("func", p.func)>>

SubPath(p) == IF p.subbus = 0 /\ p.subdomain = 0 THEN <<>>
              ELSE <<Node("hostbridge", p.subbus), Node("slot", p.subslot), Node("func", p.subfunc)>>

MemPath(d) == <<Node("chassis", d.chassis), Node("chip", d.socket),
                Node("memory-controller", 0), Node("dimm", d.dimm)>>

CpuTree == UNION {Paths(CpuPath(list_cpu[i])) : i \in DOMAIN list_cpu}
PciTree == UNION {Paths(PciPath(list_pci[i]) \o SubPath(list_pci[i])) : i \in DOMAIN list_pci}
MemTree == UNION {Paths(MemPath(list_mem[i])) : i \in DOMAIN list_mem}

\* A PCI device needs its chassis and a DIMM its chip; only CPUs make those.
PciOrphan == \E i \in DOMAIN list_pci : SubSeq(PciPath(list_pci[i]), 1, 1) \notin CpuTree
MemOrphan == \E i \in DOMAIN list_mem : SubSeq(MemPath(list_mem[i]), 1, 2) \notin CpuTree

\* topo_tree_create; fmtopo exits when it fails.
CreateTree ==
  /\ pc = "tree"
  /\ IF PciOrphan \/ MemOrphan
     THEN pc' = "exit" /\ UNCHANGED tree
     ELSE pc' = "print" /\ tree' = CpuTree \cup PciTree \cup MemTree
  /\ UNCHANGED <<m, online, todo, lists, overrun, hung>>

\* print_topo_tree for one node: the chips with their cores and DIMMs; PCI is left out.
Printed(id) == {p \in tree : p[1] = Node("chassis", id) /\ (Len(p) > 1 => p[2][1] = "chip")}

Next ==
  \/ \E c \in DOMAIN m.cpu : ReadCpu(c) \/ Offline(c)
  \/ SetThreads
  \/ WalkMem
  \/ DmiFails
  \/ DmiAbsent
  \/ SocketsOverflow
  \/ \E d \in DOMAIN m.pci : WalkPci(d)
  \/ WalkNet
  \/ CreateTree

Spec == Init /\ [][Next]_vars

----------------------------------------------------------------------------
\* What the tool owes its reader.

Threads == {p \in UNION {Printed(id) : id \in 0..255} : Len(p) = 4 /\ p[3][1] = "core"}

\* No three CPUs have the same low bytes of node, socket and core: what the
\* sibling loop, which only knows pairs, expects.
TwoThreads ==
  \A c, d, e \in DOMAIN m.cpu :
    Sibling(CpuEntry(c), CpuEntry(d)) /\ Sibling(CpuEntry(c), CpuEntry(e)) => c = d \/ c = e \/ d = e

\* Every CPU that stayed online during the walk is printed, once, below its
\* own node, chip and core, whatever order the directories came in and
\* whichever other CPUs were taken offline under the walk; and of the two
\* threads of a core the greater processor number is thread 1
\* (fmd_topo_cpu, the sibling loop of _fmd_topo, fmd_topo_tree).
CpuShown ==
  pc = "print" =>
    /\ \A c \in online : {p \in Threads : p[4][2] = c} = {CpuPath(CpuEntry(c))}
    /\ TwoThreads =>
         \A i \in DOMAIN list_cpu :
           list_cpu[i].thread = 1 <=> \E j \in DOMAIN list_cpu :
                                        /\ Sibling(list_cpu[i], list_cpu[j])
                                        /\ list_cpu[j].processor < list_cpu[i].processor

\* Every DIMM that fmd_topo_walk_mem invents has the chip it hangs below, even
\* where it reads past its arrays: the tree is refused only for a PCI device
\* whose domain is not the number of a node with CPUs.
MemHasChip ==
  /\ pc \in {"pci", "tree"} => ~MemOrphan
  /\ pc = "exit" => PciOrphan

\* The machines whose tables look the way fmd_topo_walk_mem expects: one
\* socket and one array per node, numbered alike, every device in one of the
\* arrays, as many as its array says, in the order of the arrays; handles of
\* one byte.
Regular ==
  /\ m.numa /\ \A c \in DOMAIN m.cpu : m.cpu[c].socket = m.cpu[c].node
  /\ \A i \in DOMAIN m.dmi : m.dmi[i].whole /\ m.dmi[i].handle < 256
  /\ {list_cpu[k].chassis : k \in DOMAIN list_cpu} = 0..(Cardinality(Arrays) - 1)
  /\ \A i, j \in Arrays : m.dmi[i].handle = m.dmi[j].handle => i = j
  /\ \A i \in OfType(17) : \E a \in Arrays : m.dmi[i].array = m.dmi[a].handle
  /\ \A i, j \in OfType(17) : m.dmi[i].array < m.dmi[j].array => m.dmi[i].handle < m.dmi[j].handle
  /\ \A a \in Arrays :
       m.dmi[a].devices = Cardinality({i \in OfType(17) : m.dmi[i].array = m.dmi[a].handle})

\* On such a machine no array is read past its end, and a DIMM hangs below
\* the node whose memory array the SMBIOS table puts it in, with the address
\* range mapped to it (qsort and the running index of fmd_topo_walk_mem).
DimmPlaced ==
  pc = "pci" /\ Regular =>
    /\ ~overrun
    /\ \A i \in DOMAIN list_mem :
         list_mem[i].end > 0 =>
           \E d \in OfType(17) : \E r \in OfType(20) :
             /\ m.dmi[r].device = m.dmi[d].handle
             /\ Kilobytes(m.dmi[r]) = [start |-> list_mem[i].start, end |-> list_mem[i].end]
             /\ list_mem[i].chassis = Cardinality({a \in Arrays : m.dmi[a].handle < m.dmi[d].array})

\* A machine whose bridges all sit on bus 0 of domain 0, each with a bus of
\* its own behind it, and whose devices below bridges have slots below 8 and
\* functions below 4.
FlatPci ==
  \A d \in DOMAIN m.pci :
    /\ m.pci[d].domain = 0
    /\ m.pci[d].class = "bridge_pci" =>
         /\ m.pci[d].bus = 0 /\ m.pci[d].secondary # 0
         /\ \A e \in DOMAIN m.pci : m.pci[e].class = "bridge_pci"
                                      /\ m.pci[e].secondary = m.pci[d].secondary => e = d
    /\ m.pci[d].bus # 0 => m.pci[d].slot < 8 /\ m.pci[d].func < 4

\* On such a machine re-hanging devices below bridges, in whatever order
\* devices and bridges were found, merges no two of them into one tree node,
\* and once it has been done a device is below a bridge exactly when its bus is
\* the one behind that bridge (the loops of fmd_topo_walk_subpci).
IsBelow(p, b) == p.subbus = b.subbus /\ PciPath(p) = PciPath(b)
PciPlaced ==
  pc = "print" /\ FlatPci =>
    /\ \A i, j \in DOMAIN list_pci :
         i # j => PciPath(list_pci[i]) \o SubPath(list_pci[i]) # PciPath(list_pci[j]) \o SubPath(list_pci[j])
    /\ hung =>
         \A i \in DOMAIN list_pci, k \in DOMAIN list_pci_bridge :
           IsBelow(list_pci[i], list_pci_bridge[k])
             <=> m.pci[list_pci[i].dev].bus = list_pci_bridge[k].subbus
=============================================================================
