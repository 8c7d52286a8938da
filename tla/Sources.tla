------------------------------- MODULE Sources -------------------------------
(***************************************************************************)
(* The cpumem and the disk source on a machine, from the file their        *)
(* interval is read from to the row of the database: fmsadm config -i,      *)
(* which rewrites that file (tools/fmsadm/config.c), loading the source     *)
(* (fmd_module.c, cpumem_init, evt_src.c), the kernel's log of machine      *)
(* checks, the probes of the cpumem, the disk and the inject source         *)
(* (cpumem_evtsrc.c, evtsrc/disk, evtsrc/inject), and the dispatcher that   *)
(* records what they post.                                                  *)
(***************************************************************************)
EXTENDS Mce, EvRecord

CONSTANTS Machine,   \* the machines looked at
          Editor,    \* invocations of fmsadm config
          LogLen     \* records the kernel keeps: MCE_LOG_LEN

\* A machine: vendor, cpuid, parsed (/proc/cpuinfo has all lines looked for),
\* table (SMBIOS), record (machine checks that happen), checks (bound: how
\* many), df (the partitions listed), interval (arguments of fmsadm config),
\* inject (classes that fminject sends).  The CPUs of a machine are alike, a record
\* tells the cpuid or 0, table and df are lists, addresses are natural numbers, and
\* df lists a device once and no disk with its partitions.
ASSUME MachineAssumption ==
  \A h \in Machine :
    /\ h.cpuid \in Nat /\ h.interval \subseteq Int
    /\ \A r \in h.record : /\ r.mca \in Nat /\ r.cpu \in Nat /\ r.addr \in Nat
                             /\ r.vendor = h.vendor /\ r.cpuid \in {0, h.cpuid}
    /\ Len(h.table) \in Nat /\ DOMAIN h.table = 1..Len(h.table)
    /\ \A i \in DOMAIN h.table : First(h.table[i]) \in Nat /\ Final(h.table[i]) \in Nat
    /\ Len(h.df) \in Nat /\ DOMAIN h.df = 1..Len(h.df)
    /\ \A i \in DOMAIN h.df : h.df[i].part \in Nat
    /\ \A i, j \in DOMAIN h.df : i # j /\ h.df[i].disk = h.df[j].disk =>
         h.df[i].part # h.df[j].part /\ (h.df[i].part = 0 => h.df[i].own)

VARIABLES machine,
          file,      \* the lines of the source's conf file: an interval, or Other
          ed,        \* per editor: its step and the lines it has in its buffer
          loaded,    \* the source is loaded
          interval,  \* mod_interval
          checked,   \* is_cpu_supported has been called before
          cputype, do_dmi, ranges,
          klog, overflow, checks,  \* the kernel's log
          buf,       \* md.buf: records read and not yet decoded
          head,      \* events of this probe
          posted,    \* events ever put on the daemon's ring
          ring,      \* those that wait there
          dead       \* the daemon has crashed

conf   == <<file, ed>>
setup  == <<loaded, interval, checked, cputype, do_dmi, ranges>>
kernel == <<klog, overflow, checks>>
probe  == <<buf, head>>
queue  == <<posted, ring>>
vars   == <<machine, conf, setup, kernel, probe, queue, dead, db>>

Other == -1     \* a line that is no interval, and a word that is no number

Init ==
  /\ machine \in Machine
  /\ file = <<Other, 3, Other>>
  /\ ed = [e \in Editor |-> [pc |-> "new", buf |-> <<>>]]
  /\ loaded = FALSE /\ interval = 0 /\ checked = FALSE
  /\ cputype = "GENERIC" /\ do_dmi = FALSE /\ ranges = <<>>
  /\ klog = <<>> /\ overflow = FALSE /\ checks = 0
  /\ buf = <<>> /\ head = <<>> /\ posted = {} /\ ring = <<>>
  /\ dead = FALSE
  /\ DbInit

-----------------------------------------------------------------------------
(* fmsadm config -i: fmd_add_src_conf.                                     *)

\* Mutant: a number is enough.
IsDigitZero(arg) == arg >= 0

\* is_digit: a number that is not 0, of whatever length.
IsDigit(arg) == arg > 0

\* All lines are read, the interval replaced if the argument is legal ...
EditRead(e, arg) ==
  /\ ed[e].pc = "new"
  /\ ed' = [ed EXCEPT ![e] =
              [pc  |-> "open",
               buf |-> [i \in DOMAIN file |->
                          IF file[i] # Other /\ IsDigit(arg) THEN arg ELSE file[i]]]]
  /\ UNCHANGED <<machine, file, setup, kernel, probe, queue, dead, db>>

\* ... the file is opened a second time, which empties it ...
EditTruncate(e) ==
  /\ ed[e].pc = "open"
  /\ file' = <<>>
  /\ ed' = [ed EXCEPT ![e].pc = "write"]
  /\ UNCHANGED <<machine, setup, kernel, probe, queue, dead, db>>

\* ... and written.  What another editor has written in between is overwritten
\* from its start: all of it stays when nothing is written, else at most the end
\* of a line.
EditWrite(e) ==
  /\ ed[e].pc = "write"
  /\ file' \in CASE ed[e].buf = <<>>                  -> {file}
                 [] ed[e].buf # <<>> /\ file = <<>>  -> {ed[e].buf}
                 [] OTHER -> {ed[e].buf, Append(ed[e].buf, Other)}
  /\ ed' = [ed EXCEPT ![e] = [pc |-> "done", buf |-> <<>>]]
  /\ UNCHANGED <<machine, setup, kernel, probe, queue, dead, db>>

\* The tool is interrupted.
EditKilled(e) ==
  /\ ed[e].pc \in {"open", "write"}
  /\ ed' = [ed EXCEPT ![e] = [pc |-> "done", buf |-> <<>>]]
  /\ UNCHANGED <<machine, file, setup, kernel, probe, queue, dead, db>>

-----------------------------------------------------------------------------
(* Loading: fmd_module_init of the source.                                 *)

Atoi(n) == LET w == n % Word IN IF w >= Word \div 2 THEN w - Word ELSE w

\* src_module_conf: line i has the first interval of the file.
FirstInterval(i) == file[i] # Other /\ \A j \in 1..(i - 1) : file[j] = Other

\* is_cpu_supported: the type of the CPU, and whether the source goes on; a
\* second call always says yes.
Supported ==
  checked \/ ~machine.parsed \/ machine.vendor # "AMD" \/ CpuInfo(machine.cpuid).family < 16
Selected ==
  LET info == CpuInfo(machine.cpuid)
  IN CASE checked \/ ~machine.parsed -> cputype
       [] ~checked /\ machine.parsed /\ machine.vendor = "Intel" -> SelectIntel(info)
       [] OTHER -> IF machine.vendor = "AMD" /\ info.family = 15 THEN "K8" ELSE cputype

\* get_efi_base_addr, opendmi: no entry point, no anchor, or no way to map it ...
DmiMissing == UNCHANGED <<do_dmi, ranges>>

\* ... or the tables are read, unless they are there from an earlier call.
DmiFound ==
  /\ ~do_dmi
  /\ \E r \in Sorted(machine.table) :
       /\ do_dmi' = SanityCheck(machine.table, r)
       /\ ranges' = IF do_dmi' THEN r ELSE <<>>

\* checkdmi, and closedmi when the tables do not pass.
CheckDmi == DmiMissing \/ DmiFound

\* cpumem_init: mcedata_init may fail for want of the device.
CpumemInit(ok) ==
  /\ checked' = TRUE
  /\ cputype' = Selected
  /\ IF Supported THEN CheckDmi ELSE UNCHANGED <<do_dmi, ranges>>
  /\ ok => Supported

\* evtsrc_init: src_module_conf fails for want of an interval.
EvtsrcInit ==
  /\ \E i \in DOMAIN file : FirstInterval(i) /\ interval' = Atoi(file[i])
  /\ loaded' = TRUE

\* fmd_init_module, at the start or by fmsadm load, which may be repeated.
Load ==
  /\ ~loaded /\ ~dead
  /\ \/ CpumemInit(TRUE) /\ EvtsrcInit
     \/ CpumemInit(FALSE) /\ UNCHANGED <<loaded, interval>>
  /\ UNCHANGED <<machine, conf, kernel, probe, queue, dead, db>>

-----------------------------------------------------------------------------
(* Machine checks.                                                         *)

\* The kernel logs a record while there is room, and notes when there is none.
KernelLog(r) ==
  /\ checks < machine.checks
  /\ checks' = checks + 1
  /\ IF Len(klog) < LogLen THEN klog' = Append(klog, r) /\ UNCHANGED overflow
     ELSE overflow' = TRUE /\ UNCHANGED klog
  /\ UNCHANGED <<machine, conf, setup, probe, queue, dead, db>>

\* process_mcefd: read takes all there is; a full log has its flag looked at.
ReadLog ==
  /\ loaded /\ ~dead /\ buf = <<>> /\ head = <<>> /\ klog # <<>>
  /\ buf' = klog /\ klog' = <<>>
  /\ overflow' = (overflow /\ Len(klog) # LogLen)
  /\ UNCHANGED <<machine, conf, setup, checks, head, queue, dead, db>>

\* resolveaddr.
Memdev(r) == IF r.addr # 0 /\ do_dmi THEN FindAddr(machine.table, ranges, r.addr) ELSE {}

\* One record of the loop.  A crash takes the events of the records before
\* with it.
Decode ==
  /\ buf # <<>> /\ ~dead
  /\ LET r    == Head(buf)
         type == McePrepare(cputype, r)
     IN /\ cputype' = type
        /\ IF Fatal(Messages(type, r))
           THEN dead' = TRUE /\ head' = <<>> /\ buf' = <<>>
           ELSE /\ head' = head \o DumpMce(type, r, Memdev(r))
                /\ buf' = Tail(buf)
                /\ UNCHANGED dead
  /\ UNCHANGED <<machine, conf, loaded, interval, checked, do_dmi, ranges, kernel, queue, db>>

\* evt_handle puts the events of a list on the ring, in order.
Handle(events) ==
  /\ posted' = posted \cup ToSet(events)
  /\ ring' = ring \o events

Post ==
  /\ buf = <<>> /\ head # <<>>
  /\ Handle(head) /\ head' = <<>>
  /\ UNCHANGED <<machine, conf, setup, kernel, buf, dead, db>>

-----------------------------------------------------------------------------
(* Disks.  A line of df is a disk's name with a number: that of a          *)
(* partition (0: none, /dev/sda), or of the device itself (own: /dev/md0,  *)
(* /dev/loop1).  It is full, holds /boot, or has a long name (/dev/mapper, *)
(* nvme).                                                                  *)

\* grep takes the number as the start of a longer one, and no number for any.
SameLine(p, q) ==
  /\ p.disk = q.disk
  /\ \/ p.part = 0 /\ ~p.own
     \/ p.part = q.part
     \/ p.part # 0 /\ p.part \in {q.part \div 10, q.part \div 100}

\* disk_space_check looks at the first line that grep finds in a new df.
SpaceCheck(df, p) ==
  \E i \in DOMAIN df : /\ SameLine(p, df[i]) /\ df[i].full
                       /\ \A j \in 1..(i - 1) : ~SameLine(p, df[j])

DiskEvent(name, id, kind) ==
  [name |-> name, dev_id |-> 0, evt_id |-> id, class |-> Ereport("disk", kind, "")]

\* Mutant: the digit is cut off before the space is looked at.
SpaceEventsLate(df, p) ==
  IF SpaceCheck(df, p) /\ ~p.boot
  THEN <<DiskEvent(<<p.disk, p.part \div 10>>, 1, "space-insufficient")>>
  ELSE <<>>

SpaceEvents(df, p) ==
  IF SpaceCheck(df, p) /\ ~p.boot
  THEN <<DiskEvent(<<p.disk, p.part>>, 1, "space-insufficient")>>
  ELSE <<>>

\* The last digit is cut off unless it is 0, of a device's own name too: the path
\* is then that of no device.  (atoi reads on behind the digit, a single char; the
\* byte there is taken not to be a digit.)
DiskPath(p) == IF p.part % 10 = 0 THEN <<p.disk, p.part>> ELSE <<p.disk, p.part \div 10>>

\* disk_unhealthy_check and disk_temperature_check of the path, if it is short.
SmartEvents(p, sick, hot) ==
  (IF ~p.long /\ DiskPath(p) \in sick THEN <<DiskEvent(DiskPath(p), 2, "unhealthy")>> ELSE <<>>)
  \o (IF ~p.long /\ DiskPath(p) \in hot THEN <<DiskEvent(DiskPath(p), 3, "over-temperature")>> ELSE <<>>)

ProbeEvents(df, i, sick, hot) == SpaceEvents(df, df[i]) \o SmartEvents(df[i], sick, hot)

\* disk_probe.  A partition unmounted since leaves grep without a line, and the
\* empty answer is copied with a length of minus two.
DiskProbe ==
  LET df == machine.df
  IN /\ ~dead /\ df # <<>> /\ ring = <<>>
     /\ \/ \E sick, hot \in SUBSET {DiskPath(df[i]) : i \in DOMAIN df} :
             /\ Handle(FlattenSeq([i \in DOMAIN df |-> ProbeEvents(df, i, sick, hot)]))
             /\ UNCHANGED dead
        \/ dead' = TRUE /\ UNCHANGED queue
     /\ UNCHANGED <<machine, conf, setup, kernel, probe, db>>

\* inject_probe: one message of the queue /fmd becomes an event of /dev/sdb.
InjectId(kind) ==
  CASE kind = "unhealthy" -> 1
    [] kind = "space-insufficient" -> 2
    [] kind = "over-temperature" -> 3
    [] OTHER -> 0
InjectProbe(kind) ==
  /\ ~dead /\ ring = <<>>
  /\ Handle(<<DiskEvent(<<"b", 0>>, InjectId(kind), kind)>>)
  /\ UNCHANGED <<machine, conf, setup, kernel, probe, dead, db>>

-----------------------------------------------------------------------------
(* The dispatcher: queue_start opens the database, then takes the events.  *)

QueueStart == OpenDb /\ ~dead /\ UNCHANGED <<machine, conf, setup, kernel, probe, queue, dead>>

\* fmd_proc_event, fmd_case_insert: the cases themselves are those of FmdCore.
ProcEvent ==
  /\ opened /\ ~dead /\ ring # <<>>
  /\ ring' = Tail(ring)
  /\ IF Accepted(Head(ring).class) THEN Store(Head(ring)) ELSE UNCHANGED db
  /\ UNCHANGED <<machine, conf, setup, kernel, probe, posted, dead>>

-----------------------------------------------------------------------------
Edit == \E e \in Editor :
          \/ \E arg \in machine.interval : EditRead(e, arg)
          \/ EditTruncate(e) \/ EditWrite(e) \/ EditKilled(e)

Next == Edit \/ Load \/ (\E r \in machine.record : KernelLog(r)) \/ ReadLog \/ Decode \/ Post
        \/ DiskProbe \/ (\E k \in machine.inject : InjectProbe(k)) \/ QueueStart \/ ProcEvent

Spec == Init /\ [][Next]_vars

-----------------------------------------------------------------------------
(* Properties.                                                             *)

Cpus == {e \in posted : e.class.dev = "cpu"}

\* Every event but those of uncorrected errors (posted with the suffix _uc,
\* listed with _ue) and those of caches at the hardware's threshold (fault.cpu)
\* is of a class an esc file lists, goes to one agent, and when the class can
\* lead to a fault that agent has something to do about it, the read errors that
\* only fminject sends excepted.
ClassesAgree ==
  \A e \in posted :
    Accepted(e.class) /\ e.class.sfx # "_uc" =>
      /\ e.class \in List("event") \cup List("engine") \cup List("fault")
      /\ Cardinality(Takers(e.class)) = 1
      /\ EventType(e.class) # "EVENT_REPORT" /\ e.class.kind # "read_error" =>
           \A a \in Takers(e.class) : e.class.kind \in Handled[a]

\* Errors are counted per device and event id: the cache and TLB errors that
\* are counted together are those of one CPU, one level and one type, so that
\* the fault isolates the cache that had the errors.
CountedTogether ==
  \A e, f \in Cpus :
    /\ {e.class.kind, f.class.kind} \subseteq {"cache", "tlb"}
    /\ e.name = f.name /\ e.dev_id = f.dev_id /\ e.evt_id = f.evt_id
    => e.cpu = f.cpu /\ e.clevel = f.clevel /\ (e.ctype = f.ctype \/ {e.ctype, f.ctype} = {3, 4})

\* The DIMM in the log is the one: no range of another device holds the address.
DimmRight ==
  \A e \in Cpus : \A h \in e.memdev :
    \A i \in Collected(machine.table, "range") :
      LET r == machine.table[i] IN First(r) <= e.addr /\ e.addr <= Final(r) => r.dev = h

\* Records are decoded for the CPU they come from: the type that /proc/cpuinfo
\* gives at the start and the type that every record gives are one, and only
\* an unreadable /proc/cpuinfo leaves it open until the first record.
CpuTypeStable ==
  machine.vendor = "Intel" /\ checked =>
    \/ cputype = SelectIntel(CpuInfo(machine.cpuid))
    \/ cputype = "GENERIC" /\ ~machine.parsed

\* A loaded source has an interval its timer can fire at, whatever editors,
\* killed ones too, do to the file (an argument that fits an int provided).
IntervalPositive ==
  loaded /\ (\A n \in machine.interval : n < Word \div 2) => interval > 0

\* The device as a whole.
WholeDevice(p) == IF p.own THEN <<p.disk, p.part>> ELSE <<p.disk, 0>>

\* No number has two digits, and no device's own name ends in a digit that
\* disk_probe would cut off.
PlainNames(df) == \A i \in DOMAIN df : df[i].part < 10 /\ (df[i].own => df[i].part = 0)

NamedAfter(e, p) ==
  IF e.class.kind = "space-insufficient"
  THEN e.name = <<p.disk, p.part>> /\ p.full /\ ~p.boot
  ELSE e.name = WholeDevice(p)

\* With such names, events about space name a full partition or device that is
\* not /boot, and the others the whole device of a line of df.
DiskNamed ==
  PlainNames(machine.df) /\ machine.inject = {} =>
    \A e \in posted : e.class.dev = "disk" =>
      \E i \in DOMAIN machine.df : NamedAfter(e, machine.df[i])

\* A row of the table of CPUs belongs to one counter, of the device and event id
\* of an event that was posted: only the lower half of an event id is kept, but
\* the CPU in the upper half is in dev_id as well.  What counts towards a fault
\* has its level, although statements keep what was bound before.
Counters(r) ==
  {<<e.dev_id, e.evt_id>> : e \in {f \in posted :
     TableOf(f) = r.table /\ f.class = r.class /\ f.dev_id = r.dev_id /\ f.evt_id % Word = r.evt_id}}

RecordTells ==
  \A r \in rows :
    /\ r.class \in List("engine") => r.level = "Minor"
    /\ r.table = "cpu_event" => Cardinality(Counters(r)) = 1
=============================================================================
