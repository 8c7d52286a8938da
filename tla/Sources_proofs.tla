--------------------------- MODULE Sources_proofs ----------------------------
(***************************************************************************)
(* Proofs about the sources, for every machine, any number of editors and  *)
(* any length of the kernel's log.                                         *)
(***************************************************************************)
EXTENDS Sources, FiniteSetTheorems, SequenceTheorems, WellFoundedInduction, TLAPS

-----------------------------------------------------------------------------
(* The invariants.                                                         *)

\* What the conf file and the editors' buffers hold, line by line.
Fit == \A n \in machine.interval : n < Word \div 2
Line == {n \in Int : n = Other \/ (n > 0 /\ (Fit => n < Word \div 2))}

ConfType ==
  /\ file \in Seq(Line)
  /\ ed \in [Editor -> [pc : {"new", "open", "write", "done"}, buf : Seq(Line)]]

ConfInv == machine \in Machine /\ ConfType /\ IntervalPositive

\* The records on their way are those of the machine; nothing is decoded before
\* the CPU was looked at.
CpuInv ==
  /\ machine \in Machine
  /\ klog \in Seq(machine.record) /\ buf \in Seq(machine.record)
  /\ ~checked => cputype = "GENERIC" /\ ~loaded /\ buf = <<>>
  /\ CpuTypeStable

\* What a message and an event of a CPU may say.  Those of a cache or TLB have level
\* and type in their id.
Shape(kind, sfx) ==
  \/ sfx \in {"_ce", "_uc"} /\ kind \in Logged \cup {"cache", "tlb"}
  \/ sfx = "" /\ kind \in {"mempage", "tmp_high", "tmp_low"}
Counts(id, clevel, ctype) ==
  /\ id \in 0 .. 15 /\ clevel = id % 4
  /\ ctype = id \div 4 \/ (ctype = 4 /\ id \div 4 = 3)

MsgKind == Logged \cup {"cache", "tlb", "mempage", "tmp_high", "tmp_low", NoMnemonic}

MsgRecord ==
  [name : {"cpu", "memory", ""}, kind : MsgKind, sfx : {"_ce", "_uc", ""},
   id : Nat, clevel : Nat, ctype : Nat, page : BOOLEAN]

Msg ==
  {m \in MsgRecord :
     /\ m.kind # NoMnemonic => Shape(m.kind, m.sfx)
     /\ m.name = "cpu" => m.page = FALSE /\ m.id < 16
     /\ m.kind \in {"cache", "tlb"} => m.name = "cpu" /\ m.page = FALSE /\ Counts(m.id, m.clevel, m.ctype)}

CpuEvent(e) ==
  /\ e.class = Class(e.class.top, "cpu", e.class.kind, e.class.sfx)
  /\ e.class.dev = "cpu" /\ Shape(e.class.kind, e.class.sfx)
  /\ e.class.kind \in {"cache", "tlb"} =>
       /\ e.cpu \in Nat /\ e.dev_id = e.cpu
       /\ \E id \in Nat : e.evt_id = id + e.cpu * Word /\ Counts(id, e.clevel, e.ctype)

\* The kinds the disk source posts.
DiskKind == {"unhealthy", "space-insufficient", "over-temperature"}
OfDisk(e) == \E kind \in DiskKind \cup machine.inject : e.class = Ereport("disk", kind, "")

EventInv ==
  /\ CpuInv
  /\ head \in Seq(ToSet(head)) /\ \A e \in ToSet(head) : CpuEvent(e)
  /\ \A e \in posted : CpuEvent(e) \/ OfDisk(e)
  /\ DiskNamed

-----------------------------------------------------------------------------
(* The interval.                                                           *)

LEMMA WordSize == Word \in Nat /\ Word >= 4096 /\ Word \div 2 \in Nat /\ Word \div 2 >= 2048 /\ Word \div 2 <= Word
  BY WordAssumption

\* atoi is the identity on what fits.
LEMMA AtoiFits ==
  ASSUME NEW n \in Nat, n < Word \div 2
  PROVE  Atoi(n) = n
<1>1. n % Word = n
  BY WordSize
<1>2. QED
  BY <1>1, WordSize DEF Atoi

LEMMA SameLines ==
  ASSUME machine' = machine
  PROVE  Line' = Line
  BY DEF Line, Fit

LEMMA ConfInit == Init => ConfInv
<1> SUFFICES ASSUME Init PROVE ConfInv
  OBVIOUS
<1>1. Other \in Line /\ 3 \in Line
  BY WordSize DEF Line, Other
<1>2. <<Other, 3, Other>> \in Seq(Line)
  BY <1>1
<1>3. file \in Seq(Line)
  BY <1>2 DEF Init
<1>4. <<>> \in Seq(Line)
  OBVIOUS
<1>5. ed \in [Editor -> [pc : {"new", "open", "write", "done"}, buf : Seq(Line)]]
  BY <1>4 DEF Init
<1>6. QED
  BY <1>3, <1>5 DEF Init, ConfInv, ConfType, IntervalPositive

\* The lines an editor has in its buffer are lines of the file, or a legal argument.
LEMMA BufferLines ==
  ASSUME NEW s \in Seq(Line), NEW arg \in machine.interval, machine \in Machine
  PROVE  [i \in DOMAIN s |-> IF s[i] # Other /\ IsDigit(arg) THEN arg ELSE s[i]] \in Seq(Line)
<1>1. arg \in Int
  BY MachineAssumption
<1>2. IsDigit(arg) => arg \in Line
  BY <1>1 DEF IsDigit, Line, Fit
<1>3. DOMAIN s = 1 .. Len(s) /\ Len(s) \in Nat /\ \A i \in DOMAIN s : s[i] \in Line
  OBVIOUS
<1>4. PICK n \in Nat : DOMAIN s = 1 .. n
  BY <1>3
<1>5. QED
  BY <1>2, <1>3, <1>4

LEMMA ConfNext == ConfInv /\ [Next]_vars => ConfInv'
<1> SUFFICES ASSUME ConfInv, [Next]_vars PROVE ConfInv'
  OBVIOUS
<1>1. machine' = machine
  BY DEF Next, Edit, EditRead, EditTruncate, EditWrite, EditKilled, Load, KernelLog, ReadLog, Decode, Post,
         DiskProbe, InjectProbe, QueueStart, ProcEvent, vars
<1>2. PICK L : L = Line /\ L = Line'
  BY <1>1, SameLines
<1>3. /\ machine \in Machine /\ file \in Seq(L) /\ IntervalPositive
      /\ ed \in [Editor -> [pc : {"new", "open", "write", "done"}, buf : Seq(L)]]
  BY <1>2 DEF ConfInv, ConfType
<1>4. SUFFICES /\ file' \in Seq(L) /\ IntervalPositive'
               /\ ed' \in [Editor -> [pc : {"new", "open", "write", "done"}, buf : Seq(L)]]
  BY <1>1, <1>2, <1>3 DEF ConfInv, ConfType
<1>5. ASSUME UNCHANGED <<loaded, interval>> PROVE IntervalPositive'
  BY <1>1, <1>3, <1>5 DEF IntervalPositive
<1>6. <<>> \in Seq(L)
  OBVIOUS
<1>7. ASSUME NEW e \in Editor, NEW arg \in machine.interval, EditRead(e, arg)
      PROVE  /\ file' \in Seq(L) /\ IntervalPositive'
             /\ ed' \in [Editor -> [pc : {"new", "open", "write", "done"}, buf : Seq(L)]]
  <2>1. PICK b : b = [i \in DOMAIN file |-> IF file[i] # Other /\ IsDigit(arg) THEN arg ELSE file[i]]
    OBVIOUS
  <2>2. b \in Seq(L)
    BY <1>2, <1>3, <2>1, BufferLines
  <2>3. ed' = [ed EXCEPT ![e] = [pc |-> "open", buf |-> b]] /\ UNCHANGED <<file, loaded, interval>>
    BY <1>7, <2>1 DEF EditRead, setup
  <2>4. QED
    BY <1>3, <1>5, <2>2, <2>3
<1>8. ASSUME NEW e \in Editor, EditTruncate(e)
      PROVE  /\ file' \in Seq(L) /\ IntervalPositive'
             /\ ed' \in [Editor -> [pc : {"new", "open", "write", "done"}, buf : Seq(L)]]
  <2>1. file' = <<>> /\ ed' = [ed EXCEPT ![e].pc = "write"] /\ UNCHANGED <<loaded, interval>>
    BY <1>8 DEF EditTruncate, setup
  <2>2. ed' \in [Editor -> [pc : {"new", "open", "write", "done"}, buf : Seq(L)]]
    BY <1>3, <2>1
  <2>3. file' \in Seq(L)
    BY <1>6, <2>1, Zenon
  <2>4. QED
    BY <1>5, <2>1, <2>2, <2>3
<1>9. ASSUME NEW e \in Editor, EditWrite(e) \/ EditKilled(e)
      PROVE  /\ file' \in Seq(L) /\ IntervalPositive'
             /\ ed' \in [Editor -> [pc : {"new", "open", "write", "done"}, buf : Seq(L)]]
  <2>1. ed' = [ed EXCEPT ![e] = [pc |-> "done", buf |-> <<>>]] /\ UNCHANGED <<loaded, interval>>
    BY <1>9 DEF EditWrite, EditKilled, setup
  <2>2. ed' \in [Editor -> [pc : {"new", "open", "write", "done"}, buf : Seq(L)]]
    BY <1>3, <1>6, <2>1
  <2>3. PICK b \in Seq(L) : b = ed[e].buf
    BY <1>3
  <2>4. file' = file \/ file' = b \/ file' = Append(b, Other)
    BY <1>9, <2>3 DEF EditWrite, EditKilled
  <2>5. Other \in L
    BY <1>2 DEF Line, Other
  <2>6. Append(b, Other) \in Seq(L)
    BY <2>5, AppendProperties
  <2>7. file' \in Seq(L)
    BY <1>3, <2>4, <2>6, Zenon
  <2>8. QED
    BY <1>5, <2>1, <2>2, <2>7
<1>10. CASE Load
  <2>1. UNCHANGED <<file, ed>>
    BY <1>10 DEF Load, conf
  <2>2. IntervalPositive'
    <3>1. CASE UNCHANGED <<loaded, interval>>
      BY <1>5, <3>1
    <3>2. CASE EvtsrcInit
      <4>1. PICK i \in DOMAIN file : file[i] # Other /\ interval' = Atoi(file[i])
        BY <3>2 DEF EvtsrcInit, FirstInterval
      <4>2. file[i] \in Line
        BY <1>2, <1>3
      <4>3. PICK n : n = file[i]
        OBVIOUS
      <4>4. ASSUME Fit PROVE interval' > 0
        <5>1. n \in Nat /\ n > 0 /\ n < Word \div 2
          BY <4>1, <4>2, <4>3, <4>4 DEF Line
        <5>2. interval' = n
          BY <4>1, <4>3, <5>1, AtoiFits
        <5>3. QED
          BY <5>1, <5>2
      <4>5. QED
        BY <1>1, <4>4 DEF IntervalPositive, Fit
    <3>3. QED
      BY <1>10, <3>1, <3>2 DEF Load
  <2>3. QED
    BY <1>3, <2>1, <2>2
<1>11. CASE \/ \E r \in machine.record : KernelLog(r)
            \/ ReadLog \/ Decode \/ Post \/ DiskProbe \/ QueueStart \/ ProcEvent
            \/ \E k \in machine.inject : InjectProbe(k)
  <2>1. UNCHANGED <<file, ed, loaded, interval>>
    BY <1>11 DEF KernelLog, ReadLog, Decode, Post, DiskProbe, InjectProbe, QueueStart, ProcEvent, conf, setup
  <2>2. QED
    BY <1>3, <1>5, <2>1
<1>12. CASE UNCHANGED vars
  <2>1. UNCHANGED <<file, ed, loaded, interval>>
    BY <1>12 DEF vars, conf, setup
  <2>2. QED
    BY <1>3, <1>5, <2>1
<1>13. QED
  BY <1>7, <1>8, <1>9, <1>10, <1>11, <1>12 DEF Next, Edit

\* Whatever any number of editors, killed ones too, do to the conf file, a source
\* that is loaded from it has an interval at which its timer fires, if the arguments
\* of fmsadm config fit an int.
THEOREM IntervalIsPositive == Spec => []IntervalPositive
<1>1. ConfInv => IntervalPositive
  BY DEF ConfInv
<1>2. QED
  BY <1>1, ConfInit, ConfNext, PTL DEF Spec


-----------------------------------------------------------------------------
(* The type of the CPU.                                                    *)

LEMMA FieldNat ==
  ASSUME NEW v \in Nat
  PROVE  Field(v, 8, 4) \in Nat /\ Field(v, 4, 4) \in Nat /\ Field(v, 16, 4) \in Nat /\ Field(v, 20, 8) \in Nat
  BY DEF Field

\* Other than family 6 and 15 the model does not matter.
LEMMA ModelOpen ==
  ASSUME NEW c, NEW d, c.family = d.family, c.family \in Nat, c.family \notin {6, 15}
  PROVE  SelectIntel(c) = SelectIntel(d)
<1>1. CASE c.family > 6
  <2>1. SelectIntel(c) = "INTEL"
    BY <1>1 DEF SelectIntel
  <2>2. SelectIntel(d) = "INTEL"
    BY <1>1 DEF SelectIntel
  <2>3. QED
    BY <2>1, <2>2
<1>2. CASE ~ (c.family > 6)
  <2>1. SelectIntel(c) = "GENERIC"
    BY <1>2 DEF SelectIntel
  <2>2. SelectIntel(d) = "GENERIC"
    BY <1>2 DEF SelectIntel
  <2>3. QED
    BY <2>1, <2>2
<1>3. QED
  BY <1>1, <1>2

\* parse_cpuid and /proc/cpuinfo put the extended model in for different families;
\* the type comes out the same, for every cpuid.
LEMMA SameType ==
  ASSUME NEW cpuid \in Nat
  PROVE  SelectIntel(ParseCpuid(cpuid)) = SelectIntel(CpuInfo(cpuid))
<1>1. PICK b \in Nat, x \in Nat : b = Field(cpuid, 8, 4) /\ x = Field(cpuid, 20, 8)
  BY FieldNat
<1>2. PICK f \in Nat : f = IF b = 15 THEN b + x ELSE b
  OBVIOUS
<1>3. ParseCpuid(cpuid).family = f /\ CpuInfo(cpuid).family = f
  BY <1>1, <1>2 DEF ParseCpuid, CpuInfo
<1>4. CASE f \in {6, 15}
  <2>1. b >= 6
    BY <1>2, <1>4
  <2>2. ParseCpuid(cpuid) = CpuInfo(cpuid)
    BY <1>1, <1>2, <1>4, <2>1 DEF ParseCpuid, CpuInfo
  <2>3. QED
    BY <2>2
<1>5. CASE f \notin {6, 15}
  BY <1>3, <1>5, ModelOpen
<1>6. QED
  BY <1>4, <1>5

LEMMA CpuInit == Init => CpuInv
<1> SUFFICES ASSUME Init PROVE CpuInv
  OBVIOUS
<1>1. klog \in Seq(machine.record) /\ buf \in Seq(machine.record)
  BY DEF Init
<1>2. QED
  BY <1>1 DEF Init, CpuInv, CpuTypeStable

LEMMA CpuNext == CpuInv /\ [Next]_vars => CpuInv'
<1> SUFFICES ASSUME CpuInv, [Next]_vars PROVE CpuInv'
  OBVIOUS
<1>1. machine' = machine
  BY DEF Next, Edit, EditRead, EditTruncate, EditWrite, EditKilled, Load, KernelLog, ReadLog, Decode, Post,
         DiskProbe, InjectProbe, QueueStart, ProcEvent, vars
<1>2. PICK R : R = machine.record
  OBVIOUS
<1>3. /\ machine \in Machine /\ klog \in Seq(R) /\ buf \in Seq(R) /\ CpuTypeStable
      /\ ~checked => cputype = "GENERIC" /\ ~loaded /\ buf = <<>>
  BY <1>2 DEF CpuInv
<1>4. SUFFICES /\ klog' \in Seq(R) /\ buf' \in Seq(R) /\ CpuTypeStable'
               /\ ~checked' => cputype' = "GENERIC" /\ ~loaded' /\ buf' = <<>>
  BY <1>1, <1>2, <1>3, Zenon DEF CpuInv
<1>5. <<>> \in Seq(R)
  OBVIOUS
<1>6. CASE Load
  <2>1. checked' /\ cputype' = Selected /\ UNCHANGED <<klog, buf>>
    BY <1>6 DEF Load, CpumemInit, kernel, probe
  <2>2. CpuTypeStable'
    BY <1>1, <1>3, <2>1 DEF CpuTypeStable, Selected
  <2>3. QED
    BY <1>3, <2>1, <2>2
<1>7. ASSUME NEW r \in machine.record, KernelLog(r)
      PROVE  /\ klog' \in Seq(R) /\ buf' \in Seq(R) /\ CpuTypeStable'
             /\ ~checked' => cputype' = "GENERIC" /\ ~loaded' /\ buf' = <<>>
  <2>1. klog' = klog \/ klog' = Append(klog, r)
    BY <1>7 DEF KernelLog
  <2>2. Append(klog, r) \in Seq(R)
    BY <1>2, <1>3, AppendProperties
  <2>3. klog' \in Seq(R)
    BY <1>3, <2>1, <2>2, Zenon
  <2>4. UNCHANGED <<buf, checked, cputype, loaded>>
    BY <1>7 DEF KernelLog, probe, setup
  <2>5. QED
    BY <1>1, <1>3, <2>3, <2>4 DEF CpuTypeStable
<1>8. CASE ReadLog
  <2>1. loaded /\ buf' = klog /\ klog' = <<>> /\ UNCHANGED <<checked, cputype, loaded>>
    BY <1>8 DEF ReadLog, setup
  <2>2. klog' \in Seq(R)
    BY <1>5, <2>1, Zenon
  <2>3. QED
    BY <1>1, <1>3, <2>1, <2>2 DEF CpuTypeStable
<1>9. CASE Decode
  <2>1. buf # <<>> /\ cputype' = McePrepare(cputype, Head(buf)) /\ UNCHANGED <<klog, checked, loaded>>
    BY <1>9 DEF Decode, kernel
  <2>2. buf' = <<>> \/ buf' = Tail(buf)
    BY <1>9 DEF Decode
  <2>3. Head(buf) \in R /\ Tail(buf) \in Seq(R)
    BY <1>3, <2>1, HeadTailProperties
  <2>4. buf' \in Seq(R)
    BY <1>5, <2>2, <2>3, Zenon
  <2>5. PICK r \in R : r = Head(buf)
    BY <2>3
  <2>6. r.vendor = machine.vendor /\ r.cpuid \in {0, machine.cpuid} /\ machine.cpuid \in Nat
    BY <1>2, <1>3, MachineAssumption
  <2>7. checked
    BY <1>3, <2>1
  <2>8. CpuTypeStable'
    <3>1. CASE r.cpuid = 0
      BY <1>1, <1>3, <2>1, <2>5, <3>1 DEF McePrepare, CpuTypeStable
    <3>2. CASE r.cpuid # 0
      <4>1. machine.vendor = "Intel" => cputype' = SelectIntel(ParseCpuid(machine.cpuid))
        BY <2>1, <2>5, <2>6, <3>2 DEF McePrepare, SetupCpuid
      <4>2. SelectIntel(ParseCpuid(machine.cpuid)) = SelectIntel(CpuInfo(machine.cpuid))
        BY <2>6, SameType
      <4>3. QED
        BY <1>1, <4>1, <4>2 DEF CpuTypeStable
    <3>3. QED
      BY <3>1, <3>2
  <2>9. QED
    BY <1>3, <2>1, <2>4, <2>7, <2>8
<1>10. CASE Edit \/ Post \/ DiskProbe \/ QueueStart \/ ProcEvent
            \/ \E k \in machine.inject : InjectProbe(k)
  <2>1. UNCHANGED <<klog, buf, checked, cputype, loaded>>
    BY <1>10 DEF Edit, EditRead, EditTruncate, EditWrite, EditKilled, Post, DiskProbe, InjectProbe,
                 QueueStart, ProcEvent, setup, kernel, probe
  <2>2. QED
    BY <1>1, <1>3, <2>1 DEF CpuTypeStable
<1>11. CASE UNCHANGED vars
  <2>1. UNCHANGED <<klog, buf, checked, cputype, loaded>>
    BY <1>11 DEF vars, setup, kernel, probe
  <2>2. QED
    BY <1>1, <1>3, <2>1 DEF CpuTypeStable
<1>12. QED
  BY <1>6, <1>7, <1>8, <1>9, <1>10, <1>11 DEF Next

\* On an Intel machine every record is decoded for the CPU it comes from, for every
\* cpuid, record and order of loads, refused ones too: /proc/cpuinfo and the cpuid
\* of a record select one type (is_cpu_supported, mce_prepare).
THEOREM CpuTypeIsStable == Spec => []CpuTypeStable
<1>1. CpuInv => CpuTypeStable
  BY DEF CpuInv
<1>2. QED
  BY <1>1, CpuInit, CpuNext, PTL DEF Spec


-----------------------------------------------------------------------------
(* The messages of a record.                                               *)

LEMMA SuffixIs ==
  ASSUME NEW r
  PROVE  Suffix(r) \in {"_ce", "_uc"}
  BY DEF Suffix

LEMMA SmallIds ==
  0 \in Nat /\ 0 < 16 /\ 1 \in Nat /\ 1 < 16 /\ \A i \in Nat : i < 16 => i \in 0 .. 15
  OBVIOUS

\* A message that is no cache's or TLB's.
LEMMA SimpleMsg ==
  ASSUME NEW name \in {"cpu", "memory"}, NEW kind \in MsgKind, NEW sfx \in {"_ce", "_uc", ""},
         Shape(kind, sfx), kind \notin {"cache", "tlb"}, NEW i \in Nat, i < 16
  PROVE  Message(name, kind, sfx) \in Msg /\ [Message(name, kind, sfx) EXCEPT !.id = i] \in Msg
<1>1. ASSUME NEW m \in MsgRecord, m.kind = kind, m.sfx = sfx, m.page = FALSE, m.id < 16 PROVE m \in Msg
  BY <1>1, Zenon DEF Msg
<1>2. PICK m : m = Message(name, kind, sfx)
  OBVIOUS
<1>3. m \in MsgRecord /\ m.kind = kind /\ m.sfx = sfx /\ m.page = FALSE /\ m.id < 16
  <2>1. m \in MsgRecord
    BY <1>2 DEF Message, MsgRecord
  <2>2. m.kind = kind /\ m.sfx = sfx /\ m.page = FALSE /\ m.id = 0
    BY <1>2 DEF Message
  <2>3. QED
    BY <2>1, <2>2, SmallIds, Zenon
<1>4. PICK n : n = [Message(name, kind, sfx) EXCEPT !.id = i]
  OBVIOUS
<1>5. n \in MsgRecord /\ n.kind = kind /\ n.sfx = sfx /\ n.page = FALSE /\ n.id < 16
  <2>1. n \in MsgRecord
    BY <1>4 DEF Message, MsgRecord
  <2>2. n.kind = kind /\ n.sfx = sfx /\ n.page = FALSE /\ n.id = i
    BY <1>4 DEF Message
  <2>3. QED
    BY <2>1, <2>2
<1>6. QED
  BY <1>1, <1>2, <1>3, <1>4, <1>5, Zenon

LEMMA PlainMsg ==
  ASSUME NEW r, NEW kind \in Logged, NEW name \in {"cpu", "memory"}, NEW i \in Nat, i < 16
  PROVE  /\ Message(name, kind, Suffix(r)) \in Msg
         /\ [Message(name, kind, Suffix(r)) EXCEPT !.id = i] \in Msg
<1>1. kind \notin {"cache", "tlb"} /\ kind \in MsgKind
  BY DEF Logged, MsgKind
<1>2. PICK s \in {"_ce", "_uc"} : s = Suffix(r)
  BY SuffixIs
<1>3. Shape(kind, s)
  BY <1>2 DEF Shape
<1>4. QED
  BY <1>1, <1>2, <1>3, SimpleMsg

LEMMA BareMsg ==
  /\ Message("", NoMnemonic, "") \in Msg
  /\ [Message("memory", "mempage", "") EXCEPT !.page = TRUE] \in Msg
  /\ [Message("cpu", "tmp_high", "") EXCEPT !.id = 1] \in Msg
  /\ Message("cpu", "tmp_low", "") \in Msg
<1>1. Message("", NoMnemonic, "") \in Msg /\ [Message("memory", "mempage", "") EXCEPT !.page = TRUE] \in Msg
  BY DEF Message, Msg, MsgRecord, MsgKind, Shape, NoMnemonic
<1>2. \A kind \in {"tmp_high", "tmp_low"} : Shape(kind, "") /\ kind \in MsgKind /\ kind \notin {"cache", "tlb"}
  BY DEF Shape, MsgKind
<1>3. QED
  BY <1>1, <1>2, SmallIds, SimpleMsg

LEMMA CacheMsgIs ==
  ASSUME NEW kind \in {"cache", "tlb"}, NEW sfx \in {"_ce", "_uc"},
         NEW id \in Nat, NEW l \in Nat, NEW t \in Nat, Counts(id, l, t)
  PROVE  [Message("cpu", kind, sfx) EXCEPT !.clevel = l, !.ctype = t, !.id = id] \in Msg
<1>1. Shape(kind, sfx) /\ kind \in MsgKind
  BY DEF Shape, MsgKind
<1>2. PICK m : m = [Message("cpu", kind, sfx) EXCEPT !.clevel = l, !.ctype = t, !.id = id]
  OBVIOUS
<1>3. m \in MsgRecord
  BY <1>1, <1>2 DEF Message, MsgRecord
<1>4. m.name = "cpu" /\ m.kind = kind /\ m.sfx = sfx /\ m.page = FALSE /\ m.id = id /\ m.clevel = l /\ m.ctype = t
  BY <1>2 DEF Message
<1>5. m \in Msg
  <2>1. m.kind # NoMnemonic => Shape(m.kind, m.sfx)
    BY <1>1, <1>4, Zenon
  <2>2. m.kind \in {"cache", "tlb"} => m.name = "cpu" /\ m.page = FALSE /\ Counts(m.id, m.clevel, m.ctype)
    BY <1>4, Zenon
  <2>3. id < 16
    BY DEF Counts
  <2>4. m.page = FALSE /\ m.id < 16
    BY <1>4, <2>3, Zenon
  <2>5. QED
    BY <1>3, <2>1, <2>2, <2>4, Zenon DEF Msg
<1>6. QED
  BY <1>2, <1>5

\* The id of a cache or TLB error has the level and the type of the code.
LEMMA CacheMsgs ==
  ASSUME NEW r, NEW mca \in Nat
  PROVE  /\ \A kind \in {"cache", "tlb"} : CacheMsg(r, kind, mca) \in Msg
         /\ GenericCache(r, mca) \in Msg
<1>1. /\ mca % 16 \in 0 .. 15 /\ LL(mca) \in 0 .. 3 /\ TT(mca) \in 0 .. 3
      /\ LL(mca) = (mca % 16) % 4 /\ TT(mca) = (mca % 16) \div 4
  BY DEF LL, TT, Field
<1>2. PICK id \in Nat, l \in Nat, t \in Nat : id = mca % 16 /\ l = LL(mca) /\ t = TT(mca)
  BY <1>1
<1>3. Counts(id, l, t)
  BY <1>1, <1>2 DEF Counts
<1>4. Counts(12 + l, l, 4) /\ 12 + l \in Nat /\ 4 \in Nat
  BY <1>1, <1>2 DEF Counts
<1>5. PICK s \in {"_ce", "_uc"} : s = Suffix(r)
  BY SuffixIs
<1>6. ASSUME NEW kind \in {"cache", "tlb"} PROVE CacheMsg(r, kind, mca) \in Msg
  <2>1. [Message("cpu", kind, s) EXCEPT !.clevel = l, !.ctype = t, !.id = id] \in Msg
    BY <1>3, CacheMsgIs
  <2>2. QED
    BY <1>2, <1>5, <2>1, Zenon DEF CacheMsg, OfCpu
<1>7. GenericCache(r, mca) \in Msg
  <2>1. [Message("cpu", "cache", s) EXCEPT !.clevel = l, !.ctype = 4, !.id = 12 + l] \in Msg
    BY <1>4, CacheMsgIs
  <2>2. QED
    BY <1>2, <1>5, <2>1, Zenon DEF GenericCache, OfCpu
<1>8. QED
  BY <1>6, <1>7

LEMMA OneMsg ==
  ASSUME NEW m \in Msg
  PROVE  <<m>> \in Seq(Msg)
  OBVIOUS

LEMMA McaMsgs ==
  ASSUME NEW r, r.mca \in Nat
  PROVE  DecodeMca(r) \in Seq(Msg)
<1> DEFINE mca  == r.mca - 4096 * Field(r.mca, 12, 1)
           none == <<>>
           base == <<OfCpu(r, BaseMca[mca])>>
           gen  == <<GenericCache(r, mca)>>
           tlb  == <<CacheMsg(r, "tlb", mca)>>
           cach == <<CacheMsg(r, "cache", mca)>>
           intl == <<OfCpu(r, IF mca = 1024 THEN "internal_timer" ELSE "internal_unclassified")>>
           bus  == <<[OfCpu(r, "bus") EXCEPT !.id = LL(mca)]>>
           memc == <<MemoryController(r)>>
           null == <<Message("", NoMnemonic, "")>>
<1>1. DecodeMca(r) =
        CASE mca = 0              -> none
          [] mca \in 1..6         -> base
          [] mca \in 12..15       -> gen
          [] mca \div 2^4 = 1     -> tlb
          [] mca \div 2^8 = 1     -> cach
          [] mca \div 2^10 = 1    -> intl
          [] mca \div 2^11 = 1    -> bus
          [] mca \div 2^7 = 1     -> memc
          [] OTHER                -> null
  BY DEF DecodeMca, TestPrefix
<1>2. mca \in Nat
  <2>1. Field(r.mca, 12, 1) = (r.mca \div 4096) % 2
    BY DEF Field
  <2>2. 4096 * ((r.mca \div 4096) % 2) <= r.mca /\ (r.mca \div 4096) % 2 \in Nat
    OBVIOUS
  <2>3. QED
    BY <2>1, <2>2
<1> HIDE DEF mca
<1>3. none \in Seq(Msg)
  OBVIOUS
<1>4. ASSUME mca \in 1..6 PROVE base \in Seq(Msg)
  <2>1. BaseMca[mca] \in Logged
    BY <1>4 DEF BaseMca, Logged
  <2>2. OfCpu(r, BaseMca[mca]) \in Msg
    BY <2>1, SmallIds, PlainMsg DEF OfCpu
  <2>3. QED
    BY <2>2, OneMsg
<1>5. gen \in Seq(Msg) /\ tlb \in Seq(Msg) /\ cach \in Seq(Msg)
  BY <1>2, CacheMsgs, OneMsg
<1>6. intl \in Seq(Msg)
  <2>1. PICK k \in Logged : k = IF mca = 1024 THEN "internal_timer" ELSE "internal_unclassified"
    BY DEF Logged
  <2>2. <<OfCpu(r, k)>> \in Seq(Msg)
    BY SmallIds, PlainMsg, OneMsg DEF OfCpu
  <2>3. QED
    BY <2>1, <2>2, Zenon
<1>7. bus \in Seq(Msg)
  <2>1. "bus" \in Logged /\ LL(mca) \in Nat /\ LL(mca) < 16
    BY <1>2 DEF Logged, LL
  <2>2. QED
    BY <2>1, PlainMsg, OneMsg DEF OfCpu
<1>8. memc \in Seq(Msg)
  <2>1. "mem" \in Logged
    BY DEF Logged
  <2>2. MemoryController(r) \in Msg
    BY <2>1, SmallIds, PlainMsg, BareMsg DEF MemoryController
  <2>3. QED
    BY <2>2, OneMsg
<1>9. null \in Seq(Msg)
  BY BareMsg, OneMsg
<1> HIDE DEF none, base, gen, tlb, cach, intl, bus, memc, null
<1>10. PICK S : S = Seq(Msg)
  OBVIOUS
<1>11. DecodeMca(r) \in S
  BY <1>1, <1>3, <1>4, <1>5, <1>6, <1>7, <1>8, <1>9, <1>10
<1>12. QED
  BY <1>10, <1>11

\* decode_bitfield makes as many messages as fields tell something.
LEMMA BitfieldMsgs ==
  ASSUME NEW r, NEW n \in Nat, NEW fields, DOMAIN fields = 1 .. n, NEW kind \in Logged
  PROVE  DecodeBitfield(r, fields, kind) \in Seq(Msg)
<1>1. PICK told \in SUBSET (1 .. n) :
        told = {k \in DOMAIN fields : fields[k].zero \/ r.bits \cap fields[k].bits # {}}
  OBVIOUS
<1>2. IsFiniteSet(1 .. n)
  BY FS_Interval
<1>3. IsFiniteSet(told)
  BY <1>2, FS_Subset
<1>4. PICK c \in Nat : c = Cardinality(told)
  BY <1>3, FS_CardinalityType
<1>5. OfCpu(r, kind) \in Msg
  BY SmallIds, PlainMsg DEF OfCpu
<1>6. [i \in 1 .. c |-> OfCpu(r, kind)] \in Seq(Msg)
  BY <1>5
<1>7. QED
  BY <1>1, <1>4, <1>6, Zenon DEF DecodeBitfield

LEMMA RecordMsgs ==
  ASSUME NEW r, r.mca \in Nat, NEW type
  PROVE  Messages(type, r) \in Seq(Msg)
<1>1. <<>> \in Seq(Msg)
  OBVIOUS
<1>2. DecodeThermal(r) \in Seq(Msg)
  BY BareMsg, OneMsg, Zenon DEF DecodeThermal
<1>3. HswDecodeModel(r) \in Seq(Msg)
  <2>1. "pcu" \in Logged /\ "qpi" \in Logged /\ "mc" \in Logged
    BY DEF Logged
  <2>2. DOMAIN PcuMc4 = 1 .. 1 /\ DOMAIN QpiMc = 1 .. 1 /\ DOMAIN MemctrlMc9 = 1 .. 10
    BY DEF PcuMc4, QpiMc, MemctrlMc9
  <2>3. 1 \in Nat /\ 10 \in Nat
    OBVIOUS
  <2>4. /\ DecodeBitfield(r, PcuMc4, "pcu") \in Seq(Msg) /\ DecodeBitfield(r, QpiMc, "qpi") \in Seq(Msg)
        /\ DecodeBitfield(r, MemctrlMc9, "mc") \in Seq(Msg)
    BY <2>1, <2>2, <2>3, BitfieldMsgs
  <2>5. QED
    BY <1>1, <2>4, Zenon DEF HswDecodeModel
<1>4. DecodeMca(r) \in Seq(Msg)
  BY McaMsgs
<1>5. HswDecodeModel(r) \o DecodeMca(r) \in Seq(Msg) /\ <<>> \o DecodeMca(r) \in Seq(Msg)
  BY <1>1, <1>3, <1>4, ConcatProperties
<1>6. DecodeIntelMc(type, r) \in Seq(Msg)
  BY <1>2, <1>5, Zenon DEF DecodeIntelMc
<1>7. QED
  BY <1>1, <1>6, Zenon DEF Messages


-----------------------------------------------------------------------------
(* The events.                                                             *)

LEMMA EventIs ==
  ASSUME NEW r, r.cpu \in Nat, NEW m \in Msg, m.kind # NoMnemonic, NEW d
  PROVE  CpuEvent(EventOf(r, m, d))
<1>1. PICK e : e = EventOf(r, m, d)
  OBVIOUS
<1>2. /\ e.class.dev = "cpu" /\ e.class.kind = m.kind /\ e.class.sfx = m.sfx
      /\ e.cpu = r.cpu /\ e.clevel = m.clevel /\ e.ctype = m.ctype
      /\ m.name = "cpu" => e.dev_id = r.cpu
      /\ m.page = FALSE => e.evt_id = m.id + r.cpu * Word
  BY <1>1 DEF EventOf, Class
<1>3. Shape(m.kind, m.sfx)
  BY DEF Msg
<1>4. m.kind \in {"cache", "tlb"} => m.name = "cpu" /\ m.page = FALSE /\ Counts(m.id, m.clevel, m.ctype)
  BY DEF Msg
<1>5. m.id \in Nat
  BY DEF Msg, MsgRecord
<1>6. e.class = Class(e.class.top, "cpu", e.class.kind, e.class.sfx)
  <2>1. PICK top : top = IF Yellow(r) THEN "fault" ELSE "ereport"
    OBVIOUS
  <2>2. e.class = Class(top, "cpu", m.kind, m.sfx)
    BY <1>1, <2>1 DEF EventOf
  <2>3. e.class.top = top
    BY <2>2 DEF Class
  <2>4. QED
    BY <1>2, <2>2, <2>3
<1>7. CpuEvent(e)
  BY <1>2, <1>3, <1>4, <1>5, <1>6, Zenon DEF CpuEvent
<1>8. QED
  BY <1>1, <1>7

LEMMA OwnSet ==
  ASSUME NEW S, NEW s \in Seq(S)
  PROVE  s \in Seq(ToSet(s)) /\ ToSet(s) \subseteq S
<1>1. DOMAIN s = 1 .. Len(s) /\ Len(s) \in Nat /\ \A i \in 1 .. Len(s) : s[i] \in S
  OBVIOUS
<1>2. \A i \in 1 .. Len(s) : s[i] \in ToSet(s)
  BY <1>1 DEF ToSet
<1>3. s \in [1 .. Len(s) -> ToSet(s)]
  BY <1>1, <1>2
<1>4. s \in Seq(ToSet(s))
  BY <1>1, <1>3
<1>5. QED
  BY <1>1, <1>4 DEF ToSet

LEMMA BothSets ==
  ASSUME NEW S, NEW s \in Seq(S), NEW T, NEW t \in Seq(T)
  PROVE  s \o t \in Seq(ToSet(s \o t)) /\ ToSet(s \o t) \subseteq S \cup T
<1>1. s \in Seq(S \cup T) /\ t \in Seq(S \cup T)
  OBVIOUS
<1>2. s \o t \in Seq(S \cup T)
  BY <1>1, ConcatProperties
<1>3. PICK u : u = s \o t
  OBVIOUS
<1>4. QED
  BY <1>2, <1>3, OwnSet

LEMMA SmallSets ==
  /\ <<>> \in Seq(ToSet(<<>>)) /\ ToSet(<<>>) = {}
  /\ \A x : <<x>> \in Seq({x}) /\ ToSet(<<x>>) = {x}
  BY DEF ToSet

\* The events of a record that does not end the daemon.
LEMMA RecordEvents ==
  ASSUME NEW r, r.mca \in Nat, r.cpu \in Nat, NEW type, NEW d, ~Fatal(Messages(type, r))
  PROVE  LET es == DumpMce(type, r, d)
         IN es \in Seq(ToSet(es)) /\ \A e \in ToSet(es) : CpuEvent(e)
<1>1. PICK ms \in Seq(Msg) : ms = Messages(type, r)
  BY RecordMsgs
<1>2. PICK n \in Nat : DOMAIN ms = 1 .. n
  OBVIOUS
<1>3. \A i \in 1 .. n : ms[i] \in Msg /\ ms[i].kind # NoMnemonic
  BY <1>1, <1>2 DEF Fatal
<1>4. PICK es : es = [i \in 1 .. n |-> EventOf(r, ms[i], d)]
  OBVIOUS
<1>5. es = DumpMce(type, r, d)
  BY <1>1, <1>2, <1>4 DEF DumpMce
<1>6. \A i \in 1 .. n : CpuEvent(es[i])
  BY <1>3, <1>4, EventIs
<1>7. DOMAIN es = 1 .. n
  BY <1>4
<1>8. \A e \in ToSet(es) : CpuEvent(e)
  BY <1>6, <1>7 DEF ToSet
<1>9. es \in [1 .. n -> ToSet(es)]
  BY <1>4, <1>7 DEF ToSet
<1>10. es \in Seq(ToSet(es))
  BY <1>9
<1>11. QED
  BY <1>5, <1>8, <1>10

\* What stands for induction: a set of naturals that is not empty has a least one.
LEMMA LeastNat ==
  ASSUME NEW T \in SUBSET Nat, T # {}
  PROVE  \E x \in T : \A y \in T : x <= y
<1>1. PICK R : R = OpToRel(<, Nat)
  OBVIOUS
<1>2. IsWellFoundedOn(R, Nat)
  BY <1>1, NatLessThanWellFounded
<1>3. PICK x \in T : \A y \in T : ~ (<<y, x>> \in R)
  BY <1>2, WFMin
<1>4. \A y \in T : <<y, x>> \in R <=> y < x
  BY <1>1 DEF OpToRel
<1>5. \A y \in T : ~ (y < x)
  BY <1>3, <1>4, Zenon
<1>6. \A y \in T : y \in Nat
  OBVIOUS
<1>7. \A y \in T : x <= y
  BY <1>5, <1>6
<1>8. QED
  BY <1>7, Zenon

\* FlattenSeq: the recursive function it is defined by exists.
LEMMA FlattenExists ==
  ASSUME NEW n \in Nat, NEW s, NEW k \in 1 .. n
  PROVE  \E g : g = [i \in 1 .. k |-> IF i = 1 THEN s[i] ELSE g[i - 1] \o s[i]]
<1> DEFINE Good(m) == \E g : g = [i \in 1 .. m |-> IF i = 1 THEN s[i] ELSE g[i - 1] \o s[i]]
<1>1. SUFFICES ASSUME ~Good(k) PROVE FALSE
  OBVIOUS
<1>2. PICK T : T = {m \in 1 .. n : ~Good(m)}
  OBVIOUS
<1> HIDE DEF Good
<1>3. T \in SUBSET Nat /\ k \in T
  BY <1>1, <1>2
<1>4. PICK m \in T : \A l \in T : m <= l
  BY <1>3, LeastNat
<1>5. m \in 1 .. n /\ ~Good(m)
  BY <1>2
<1>6. Good(1)
  <2>1. PICK g : g = [i \in 1 .. 1 |-> s[i]]
    OBVIOUS
  <2>2. g = [i \in 1 .. 1 |-> IF i = 1 THEN s[i] ELSE g[i - 1] \o s[i]]
    BY <2>1
  <2>3. QED
    BY <2>2 DEF Good
<1>7. m # 1
  BY <1>5, <1>6
<1>8. PICK l \in 1 .. n : m = l + 1
  BY <1>5, <1>7
<1>9. Good(l)
  <2>1. ~ (m <= l)
    BY <1>8
  <2>2. QED
    BY <1>2, <1>4, <2>1, Zenon
<1>10. PICK g : g = [i \in 1 .. l |-> IF i = 1 THEN s[i] ELSE g[i - 1] \o s[i]]
  BY <1>9 DEF Good
<1>11. PICK f : f = [i \in 1 .. m |-> IF i = m THEN g[l] \o s[m] ELSE g[i]]
  OBVIOUS
<1>12. ASSUME NEW i \in 1 .. m PROVE f[i] = IF i = 1 THEN s[i] ELSE f[i - 1] \o s[i]
  <2>1. CASE i = m
    <3>1. i # 1 /\ i - 1 = l /\ l \in 1 .. m /\ l # m
      BY <1>5, <1>7, <1>8, <2>1
    <3>2. f[i] = g[l] \o s[m] /\ f[l] = g[l]
      BY <1>11, <1>12, <2>1, <3>1
    <3>3. QED
      BY <2>1, <3>1, <3>2, Zenon
  <2>2. CASE i # m
    <3>1. i \in 1 .. l /\ (i # 1 => i - 1 \in 1 .. m /\ i - 1 # m)
      BY <1>5, <1>8, <1>12, <2>2
    <3>2. f[i] = g[i] /\ (i # 1 => f[i - 1] = g[i - 1])
      BY <1>11, <1>12, <2>2, <3>1
    <3>3. g[i] = IF i = 1 THEN s[i] ELSE g[i - 1] \o s[i]
      BY <1>10, <3>1
    <3>4. QED
      BY <3>2, <3>3, Zenon
  <2>3. QED
    BY <2>1, <2>2
<1>13. f = [i \in 1 .. m |-> IF i = 1 THEN s[i] ELSE f[i - 1] \o s[i]]
  BY <1>11, <1>12
<1>14. Good(m)
  BY <1>13 DEF Good
<1>15. QED
  BY <1>5, <1>14

\* FlattenSeq makes one sequence of the sequences of a sequence.
LEMMA FlattenType ==
  ASSUME NEW n \in Nat, NEW S, NEW s \in [1 .. n -> Seq(S)]
  PROVE  FlattenSeq(s) \in Seq(S)
<1>1. s \in Seq(Seq(S)) /\ Len(s) = n
  OBVIOUS
<1>2. CASE n = 0
  <2>1. s = <<>>
    BY <1>1, <1>2
  <2>2. <<>> \in Seq(S)
    OBVIOUS
  <2>3. FlattenSeq(s) = s
    BY <1>1, <1>2, Zenon DEF FlattenSeq
  <2>4. QED
    BY <2>1, <2>2, <2>3, Zenon
<1>3. CASE n # 0
  <2>1. PICK g : g = CHOOSE f : f = [i \in 1 .. Len(s) |-> IF i = 1 THEN s[i] ELSE f[i - 1] \o s[i]]
    OBVIOUS
  <2>2. FlattenSeq(s) = g[n]
    BY <1>1, <1>3, <2>1, Zenon DEF FlattenSeq
  <2>3. n \in 1 .. n
    BY <1>3
  <2>4. \E f : f = [i \in 1 .. n |-> IF i = 1 THEN s[i] ELSE f[i - 1] \o s[i]]
    BY <2>3, FlattenExists
  <2>5. g = [i \in 1 .. n |-> IF i = 1 THEN s[i] ELSE g[i - 1] \o s[i]]
    BY <1>1, <2>1, <2>4, Zenon
  <2>6. SUFFICES ASSUME g[n] \notin Seq(S) PROVE FALSE
    BY <2>2, Zenon
  <2>7. PICK T : T = {m \in 1 .. n : g[m] \notin Seq(S)}
    OBVIOUS
  <2>8. T \in SUBSET Nat /\ n \in T
    BY <2>3, <2>6, <2>7
  <2>9. PICK m \in T : \A l \in T : m <= l
    BY <2>8, LeastNat
  <2>10. m \in 1 .. n /\ g[m] \notin Seq(S) /\ s[m] \in Seq(S)
    BY <2>7
  <2>11. m # 1
    <3>1. m = 1 => g[m] = s[m]
      BY <2>5, <2>10
    <3>2. QED
      BY <2>10, <3>1, Zenon
  <2>12. PICK l \in 1 .. n : l = m - 1
    BY <2>10, <2>11
  <2>13. g[m] = g[l] \o s[m]
    BY <2>5, <2>10, <2>11, <2>12
  <2>14. ~ (m <= l)
    BY <2>10, <2>12
  <2>15. g[l] \in Seq(S)
    BY <2>7, <2>9, <2>14, Zenon
  <2>16. PICK a \in Seq(S), b \in Seq(S) : a = g[l] /\ b = s[m]
    BY <2>10, <2>15, Zenon
  <2>17. a \o b \in Seq(S)
    BY ConcatProperties
  <2>18. QED
    BY <2>10, <2>13, <2>16, <2>17, Zenon
<1>4. QED
  BY <1>2, <1>3
\* disk_probe: what the events of one line of df are.
LEMMA LineEvents ==
  ASSUME NEW df, NEW i, NEW sick, NEW hot
  PROVE  /\ ProbeEvents(df, i, sick, hot) \in Seq(ToSet(ProbeEvents(df, i, sick, hot)))
         /\ \A e \in ToSet(ProbeEvents(df, i, sick, hot)) :
              \/ /\ e = DiskEvent(<<df[i].disk, df[i].part>>, 1, "space-insufficient")
                 /\ SpaceCheck(df, df[i]) /\ ~df[i].boot
              \/ e = DiskEvent(DiskPath(df[i]), 2, "unhealthy")
              \/ e = DiskEvent(DiskPath(df[i]), 3, "over-temperature")
<1>1. PICK p : p = df[i]
  OBVIOUS
<1>2. PICK x, y, z : /\ x = DiskEvent(<<p.disk, p.part>>, 1, "space-insufficient")
                     /\ y = DiskEvent(DiskPath(p), 2, "unhealthy")
                     /\ z = DiskEvent(DiskPath(p), 3, "over-temperature")
  OBVIOUS
<1>3. PICK a : a = SpaceEvents(df, p)
  OBVIOUS
<1>4. PICK b : b = IF ~p.long /\ DiskPath(p) \in sick THEN <<y>> ELSE <<>>
  OBVIOUS
<1>5. PICK c : c = IF ~p.long /\ DiskPath(p) \in hot THEN <<z>> ELSE <<>>
  OBVIOUS
<1>6. ProbeEvents(df, i, sick, hot) = a \o (b \o c)
  BY <1>1, <1>2, <1>3, <1>4, <1>5, Zenon DEF ProbeEvents, SmartEvents
<1>7. PICK X : X = {w \in {x} : SpaceCheck(df, p) /\ ~p.boot}
  OBVIOUS
<1>8. a \in Seq(X)
  <2>1. CASE SpaceCheck(df, p) /\ ~p.boot
    <3>1. a = <<x>>
      BY <1>2, <1>3, <2>1, Zenon DEF SpaceEvents
    <3>2. X = {x}
      BY <1>7, <2>1
    <3>3. QED
      BY <3>1, <3>2, SmallSets, Zenon
  <2>2. CASE ~ (SpaceCheck(df, p) /\ ~p.boot)
    <3>1. a = <<>>
      BY <1>3, <2>2, Zenon DEF SpaceEvents
    <3>2. <<>> \in Seq(X)
      OBVIOUS
    <3>3. QED
      BY <3>1, <3>2, Zenon
  <2>3. QED
    BY <2>1, <2>2
<1>9. b \in Seq({y}) /\ c \in Seq({z})
  <2>1. <<>> \in Seq({y}) /\ <<>> \in Seq({z}) /\ <<y>> \in Seq({y}) /\ <<z>> \in Seq({z})
    OBVIOUS
  <2>2. b \in {<<y>>, <<>>} /\ c \in {<<z>>, <<>>}
    BY <1>4, <1>5, Zenon
  <2>3. QED
    BY <2>1, <2>2, Zenon
<1>10. b \o c \in Seq(ToSet(b \o c)) /\ ToSet(b \o c) \subseteq {y} \cup {z}
  BY <1>9, BothSets
<1>11. PICK bc : bc = b \o c
  OBVIOUS
<1>12. a \o bc \in Seq(ToSet(a \o bc)) /\ ToSet(a \o bc) \subseteq X \cup ToSet(bc)
  BY <1>8, <1>10, <1>11, BothSets
<1>13. ASSUME NEW e \in ToSet(ProbeEvents(df, i, sick, hot)) PROVE e \in X \cup {y} \cup {z}
  BY <1>6, <1>10, <1>11, <1>12, <1>13, Zenon
<1>14. \A e \in ToSet(ProbeEvents(df, i, sick, hot)) :
         \/ e = x /\ SpaceCheck(df, p) /\ ~p.boot
         \/ e = y
         \/ e = z
  BY <1>7, <1>13, Zenon
<1>15. QED
  BY <1>1, <1>2, <1>6, <1>11, <1>12, <1>14, Zenon

\* What disk_probe puts on the ring are the events of the lines of df.
LEMMA ProbePosts ==
  ASSUME machine \in Machine, DiskProbe
  PROVE  /\ \A e \in posted' : \/ e \in posted
                               \/ \E i \in DOMAIN machine.df : \E sick, hot : e \in ToSet(ProbeEvents(machine.df, i, sick, hot))
         /\ ring \in Seq(posted) => ring' \in Seq(posted')
<1>1. CASE UNCHANGED queue
  BY <1>1 DEF queue
<1>2. ASSUME NEW sick, NEW hot,
             Handle(FlattenSeq([i \in DOMAIN machine.df |-> ProbeEvents(machine.df, i, sick, hot)]))
      PROVE  /\ \A e \in posted' : e \in posted \/ \E i \in DOMAIN machine.df : e \in ToSet(ProbeEvents(machine.df, i, sick, hot))
             /\ ring \in Seq(posted) => ring' \in Seq(posted')
  <2>1. PICK n \in Nat : DOMAIN machine.df = 1 .. n
    BY MachineAssumption
  <2>2. PICK s : s = [i \in 1 .. n |-> ProbeEvents(machine.df, i, sick, hot)]
    OBVIOUS
  <2>3. PICK S : S = UNION {ToSet(ProbeEvents(machine.df, i, sick, hot)) : i \in 1 .. n}
    OBVIOUS
  <2>4. ASSUME NEW i \in 1 .. n PROVE ProbeEvents(machine.df, i, sick, hot) \in Seq(S)
    <3>1. PICK es : es = ProbeEvents(machine.df, i, sick, hot)
      OBVIOUS
    <3>2. es \in Seq(ToSet(es))
      BY <3>1, LineEvents, Zenon
    <3>3. ToSet(es) \subseteq S
      BY <2>3, <2>4, <3>1
    <3>4. es \in Seq(S)
      BY <3>2, <3>3
    <3>5. QED
      BY <3>1, <3>4, Zenon
  <2>5. s \in [1 .. n -> Seq(S)]
    BY <2>2, <2>4
  <2>6. PICK f \in Seq(S) : f = FlattenSeq(s)
    BY <2>5, FlattenType
  <2>7. f \in Seq(ToSet(f)) /\ ToSet(f) \subseteq S
    BY OwnSet
  <2>8. posted' = posted \cup ToSet(f) /\ ring' = ring \o f
    BY <1>2, <2>1, <2>2, <2>6, Zenon DEF Handle
  <2>9. \A e \in S : \E i \in 1 .. n : e \in ToSet(ProbeEvents(machine.df, i, sick, hot))
    BY <2>3
  <2>10. ASSUME ring \in Seq(posted) PROVE ring' \in Seq(posted')
    <3>1. ring \in Seq(posted') /\ f \in Seq(posted')
      BY <2>7, <2>8, <2>10
    <3>2. ring \o f \in Seq(posted')
      BY <3>1, ConcatProperties
    <3>3. QED
      BY <2>8, <3>2, Zenon
  <2>11. QED
    BY <2>1, <2>7, <2>8, <2>9, <2>10, Zenon
<1>3. QED
  BY <1>1, <1>2, Zenon DEF DiskProbe

\* With plain names grep finds the line that was asked for.
LEMMA FullLine ==
  ASSUME NEW h \in Machine, PlainNames(h.df),
         NEW i \in DOMAIN h.df, SpaceCheck(h.df, h.df[i])
  PROVE  h.df[i].full
<1>1. PICK k \in DOMAIN h.df : SameLine(h.df[i], h.df[k]) /\ h.df[k].full
  BY DEF SpaceCheck
<1>2. PICK p, q : p = h.df[i].part /\ q = h.df[k].part
  OBVIOUS
<1>3. p \in Nat /\ q \in Nat /\ q < 10
  BY <1>2, MachineAssumption DEF PlainNames
<1>4. h.df[i].disk = h.df[k].disk /\ (p = q \/ (p = 0 /\ ~h.df[i].own) \/ (p # 0 /\ p \in {q \div 10, q \div 100}))
  BY <1>1, <1>2, Zenon DEF SameLine
<1>5. q \div 10 = 0 /\ q \div 100 = 0
  BY <1>3
<1>6. i # k => p # q /\ (p = 0 => h.df[i].own)
  BY <1>2, <1>4, MachineAssumption
<1>7. i = k
  BY <1>4, <1>5, <1>6
<1>8. QED
  BY <1>1, <1>7, Zenon

LEMMA WholeDisk ==
  ASSUME NEW h \in Machine, PlainNames(h.df), NEW i \in DOMAIN h.df
  PROVE  DiskPath(h.df[i]) = WholeDevice(h.df[i])
<1>1. PICK p : p = h.df[i].part
  OBVIOUS
<1>2. p \in Nat /\ p < 10 /\ (h.df[i].own => p = 0)
  BY <1>1, MachineAssumption DEF PlainNames
<1>3. p \div 10 = 0 /\ (p % 10 = 0 => p = 0) /\ (p = 0 => p % 10 = 0)
  BY <1>2
<1>4. QED
  BY <1>1, <1>2, <1>3, Zenon DEF DiskPath, WholeDevice

LEMMA EventInit == Init => EventInv
<1> SUFFICES ASSUME Init PROVE EventInv
  OBVIOUS
<1>1. CpuInv
  BY CpuInit
<1>2. head = <<>> /\ posted = {}
  BY DEF Init
<1>3. head \in Seq(ToSet(head)) /\ ToSet(head) = {}
  BY <1>2, SmallSets, Zenon
<1>4. QED
  BY <1>1, <1>2, <1>3 DEF EventInv, DiskNamed

\* An event about a disk, from the source itself, has the name it should have.
NamedRight(e) ==
  PlainNames(machine.df) /\ machine.inject = {} =>
    \E k \in DOMAIN machine.df : NamedAfter(e, machine.df[k])

\* What the disk source posts has the shape and, with plain names, the name it
\* should have.
LEMMA ProbeNamed ==
  ASSUME machine \in Machine, NEW i \in DOMAIN machine.df, NEW sick, NEW hot,
         NEW e \in ToSet(ProbeEvents(machine.df, i, sick, hot))
  PROVE  OfDisk(e) /\ (PlainNames(machine.df) => NamedAfter(e, machine.df[i]))
<1>1. CASE /\ e = DiskEvent(<<machine.df[i].disk, machine.df[i].part>>, 1, "space-insufficient")
           /\ SpaceCheck(machine.df, machine.df[i]) /\ ~machine.df[i].boot
  <2>1. /\ e.name = <<machine.df[i].disk, machine.df[i].part>>
        /\ e.class = Ereport("disk", "space-insufficient", "") /\ e.class.kind = "space-insufficient"
    <3>1. PICK name : name = <<machine.df[i].disk, machine.df[i].part>>
      OBVIOUS
    <3>2. e = DiskEvent(name, 1, "space-insufficient")
      BY <1>1, <3>1
    <3>3. /\ e.name = name /\ e.class.kind = "space-insufficient"
          /\ e.class = Ereport("disk", "space-insufficient", "")
      BY <3>2 DEF DiskEvent, Ereport, Class
    <3>4. QED
      BY <3>1, <3>3
  <2>2. OfDisk(e)
    BY <2>1, Zenon DEF OfDisk, DiskKind
  <2>3. PlainNames(machine.df) => machine.df[i].full
    BY <1>1, FullLine
  <2>4. QED
    BY <1>1, <2>1, <2>2, <2>3, Zenon DEF NamedAfter
<1>2. CASE \/ e = DiskEvent(DiskPath(machine.df[i]), 2, "unhealthy")
           \/ e = DiskEvent(DiskPath(machine.df[i]), 3, "over-temperature")
  <2>1. PICK kind \in {"unhealthy", "over-temperature"} :
          e.name = DiskPath(machine.df[i]) /\ e.class = Ereport("disk", kind, "") /\ e.class.kind = kind
    <3>1. PICK name : name = DiskPath(machine.df[i])
      OBVIOUS
    <3>2. e = DiskEvent(name, 2, "unhealthy") \/ e = DiskEvent(name, 3, "over-temperature")
      BY <1>2, <3>1
    <3>3. PICK kind \in {"unhealthy", "over-temperature"}, id \in {2, 3} : e = DiskEvent(name, id, kind)
      BY <3>2
    <3>4. e.name = name /\ e.class.kind = kind /\ e.class = Ereport("disk", kind, "")
      BY <3>3 DEF DiskEvent, Ereport, Class
    <3>5. QED
      BY <3>1, <3>4
  <2>2. OfDisk(e)
    BY <2>1 DEF OfDisk, DiskKind
  <2>3. e.class.kind # "space-insufficient"
    BY <2>1
  <2>4. PlainNames(machine.df) => e.name = WholeDevice(machine.df[i])
    BY <2>1, WholeDisk, Zenon
  <2>5. QED
    BY <2>2, <2>3, <2>4, Zenon DEF NamedAfter
<1>3. QED
  BY <1>1, <1>2, LineEvents

LEMMA NamedIs == DiskNamed <=> \A e \in posted : e.class.dev = "disk" => NamedRight(e)
  BY DEF DiskNamed, NamedRight

\* New events do not disturb what is known of the old ones.
LEMMA PostedGrows ==
  ASSUME machine' = machine, DiskNamed, \A e \in posted : CpuEvent(e) \/ OfDisk(e),
         \A e \in posted' : e \in posted \/ CpuEvent(e) \/ (OfDisk(e) /\ NamedRight(e))
  PROVE  (\A e \in posted : CpuEvent(e) \/ OfDisk(e))' /\ DiskNamed'
<1>1. \A e : OfDisk(e)' <=> OfDisk(e)
  BY DEF OfDisk
<1>2. \A e : NamedRight(e)' <=> NamedRight(e)
  BY DEF NamedRight, NamedAfter
<1>3. \A e : CpuEvent(e)' <=> CpuEvent(e)
  BY DEF CpuEvent
<1>4. \A e : CpuEvent(e) => e.class.dev # "disk"
  BY DEF CpuEvent
<1>5. \A e \in posted : e.class.dev = "disk" => NamedRight(e)
  BY NamedIs
<1>6. \A e \in posted' : e.class.dev = "disk" => NamedRight(e)
  BY <1>4, <1>5
<1>7. DiskNamed' <=> \A e \in posted' : e.class.dev = "disk" => NamedRight(e)'
  BY DEF DiskNamed, NamedRight
<1>8. QED
  BY <1>1, <1>2, <1>3, <1>6, <1>7

LEMMA EventNext == EventInv /\ [Next]_vars => EventInv'
<1> SUFFICES ASSUME EventInv, [Next]_vars PROVE EventInv'
  OBVIOUS
<1>1. machine' = machine
  BY DEF Next, Edit, EditRead, EditTruncate, EditWrite, EditKilled, Load, KernelLog, ReadLog, Decode, Post,
         DiskProbe, InjectProbe, QueueStart, ProcEvent, vars
<1>2. CpuInv /\ CpuInv'
  BY CpuNext DEF EventInv
<1>3. /\ machine \in Machine /\ buf \in Seq(machine.record) /\ DiskNamed
      /\ head \in Seq(ToSet(head)) /\ \A e \in ToSet(head) : CpuEvent(e)
      /\ \A e \in posted : CpuEvent(e) \/ OfDisk(e)
  BY <1>2 DEF EventInv, CpuInv
<1>4. SUFFICES ASSUME TRUE
               PROVE  /\ head' \in Seq(ToSet(head')) /\ \A e \in ToSet(head') : CpuEvent(e)
                      /\ \A e \in posted' : e \in posted \/ CpuEvent(e) \/ (OfDisk(e) /\ NamedRight(e))
  <2>1. (\A e \in posted : CpuEvent(e) \/ OfDisk(e))' /\ DiskNamed'
    BY <1>1, <1>3, <1>4, PostedGrows
  <2>2. (\A e \in ToSet(head) : CpuEvent(e))'
    BY <1>4 DEF CpuEvent
  <2>3. QED
    BY <1>2, <1>4, <2>1, <2>2 DEF EventInv
<1>5. CASE Decode
  <2>1. posted' = posted /\ buf # <<>>
    BY <1>5 DEF Decode, queue
  <2>2. PICK r \in machine.record : r = Head(buf)
    BY <1>3, <2>1, HeadTailProperties
  <2>3. r.mca \in Nat /\ r.cpu \in Nat
    BY <1>3, MachineAssumption
  <2>4. PICK type, d : type = McePrepare(cputype, r) /\ d = Memdev(r)
    OBVIOUS
  <2>5. CASE head' = <<>>
    BY <2>1, <2>5, SmallSets, Zenon
  <2>6. CASE ~Fatal(Messages(type, r)) /\ head' = head \o DumpMce(type, r, d)
    <3>1. PICK es : es = DumpMce(type, r, d)
      OBVIOUS
    <3>2. es \in Seq(ToSet(es)) /\ \A e \in ToSet(es) : CpuEvent(e)
      BY <2>3, <2>6, <3>1, RecordEvents, Zenon
    <3>3. head \o es \in Seq(ToSet(head \o es)) /\ ToSet(head \o es) \subseteq ToSet(head) \cup ToSet(es)
      BY <1>3, <3>2, BothSets
    <3>4. \A e \in ToSet(head \o es) : CpuEvent(e)
      BY <1>3, <3>2, <3>3, Zenon
    <3>5. QED
      BY <2>1, <2>6, <3>1, <3>3, <3>4, Zenon
  <2>7. head' = <<>> \/ (~Fatal(Messages(type, r)) /\ head' = head \o DumpMce(type, r, d))
    BY <1>5, <2>2, <2>4, Zenon DEF Decode
  <2>8. QED
    BY <2>5, <2>6, <2>7
<1>6. CASE Post
  <2>1. posted' = posted \cup ToSet(head) /\ head' = <<>>
    BY <1>6 DEF Post, Handle
  <2>2. QED
    BY <1>3, <2>1, SmallSets, Zenon
<1>7. CASE DiskProbe
  <2>1. head' = head
    BY <1>7 DEF DiskProbe, probe
  <2>2. ASSUME NEW e \in posted' PROVE e \in posted \/ CpuEvent(e) \/ (OfDisk(e) /\ NamedRight(e))
    <3>1. SUFFICES ASSUME e \notin posted PROVE OfDisk(e) /\ NamedRight(e)
      BY Zenon
    <3>2. PICK i \in DOMAIN machine.df : \E sick, hot : e \in ToSet(ProbeEvents(machine.df, i, sick, hot))
      BY <1>3, <1>7, <2>2, <3>1, ProbePosts, Zenon
    <3>3. QED
      BY <1>3, <3>2, ProbeNamed, Zenon DEF NamedRight
  <2>3. QED
    BY <1>3, <2>1, <2>2, Zenon
<1>8. ASSUME NEW kind \in machine.inject, InjectProbe(kind)
      PROVE  /\ head' \in Seq(ToSet(head')) /\ \A e \in ToSet(head') : CpuEvent(e)
             /\ \A e \in posted' : e \in posted \/ CpuEvent(e) \/ (OfDisk(e) /\ NamedRight(e))
  <2>1. PICK d : d = DiskEvent(<<"b", 0>>, InjectId(kind), kind)
    OBVIOUS
  <2>2. head' = head /\ posted' = posted \cup ToSet(<<d>>)
    BY <1>8, <2>1, Zenon DEF InjectProbe, Handle, probe
  <2>3. ToSet(<<d>>) = {d}
    BY SmallSets, Zenon
  <2>4. d.class = Ereport("disk", kind, "")
    BY <2>1 DEF DiskEvent
  <2>5. OfDisk(d)
    BY <2>4 DEF OfDisk
  <2>6. NamedRight(d)
    BY <1>8 DEF NamedRight
  <2>7. QED
    BY <1>3, <2>2, <2>3, <2>5, <2>6, Zenon
<1>9. ASSUME UNCHANGED <<head, posted>>
      PROVE  /\ head' \in Seq(ToSet(head')) /\ \A e \in ToSet(head') : CpuEvent(e)
             /\ \A e \in posted' : e \in posted \/ CpuEvent(e) \/ (OfDisk(e) /\ NamedRight(e))
  BY <1>3, <1>9, Zenon
<1>10. CASE Edit \/ Load \/ (\E r \in machine.record : KernelLog(r)) \/ ReadLog \/ QueueStart \/ ProcEvent
             \/ UNCHANGED vars
  <2>1. UNCHANGED <<head, posted>>
    BY <1>10 DEF Edit, EditRead, EditTruncate, EditWrite, EditKilled, Load, KernelLog, ReadLog, QueueStart,
                 ProcEvent, vars, probe, queue
  <2>2. QED
    BY <1>9, <2>1
<1>11. QED
  BY <1>5, <1>6, <1>7, <1>8, <1>10 DEF Next

\* disk_probe, for every df in which no number has two digits and no device's own
\* name ends in 1 to 9, and for every set of sick and hot disks: the events about
\* space name a full partition or device that is not /boot, and the others the whole
\* device of a line.
THEOREM DiskIsNamed == Spec => []DiskNamed
<1>1. EventInv => DiskNamed
  BY DEF EventInv
<1>2. QED
  BY <1>1, EventInit, EventNext, PTL DEF Spec

LEMMA OneCounter ==
  ASSUME NEW c \in Nat, NEW i \in Nat, NEW j \in Nat, NEW l, NEW t, NEW m, NEW u,
         Counts(i, l, t), Counts(j, m, u), i + c * Word = j + c * Word
  PROVE  l = m /\ (t = u \/ {t, u} = {3, 4})
<1>1. PICK x \in Nat : x = c * Word
  BY WordSize
<1>2. i = j
  BY <1>1
<1>3. l = m
  BY <1>2 DEF Counts
<1>4. t = u \/ (t = 4 /\ u = 3) \/ (t = 3 /\ u = 4)
  BY <1>2 DEF Counts
<1>5. QED
  BY <1>3, <1>4

LEMMA CpuIs ==
  ASSUME EventInv, NEW e \in Cpus
  PROVE  CpuEvent(e)
<1>1. e \in posted /\ e.class.dev = "cpu"
  BY DEF Cpus
<1>2. ASSUME OfDisk(e) PROVE FALSE
  <2>1. PICK kind : e.class = Ereport("disk", kind, "")
    BY <1>2 DEF OfDisk
  <2>2. e.class.dev = "disk"
    <3>1. Ereport("disk", kind, "").dev = "disk"
      BY DEF Ereport, Class
    <3>2. QED
      BY <2>1, <3>1
  <2>3. QED
    BY <1>1, <2>2
<1>3. QED
  BY <1>1, <1>2 DEF EventInv

\* Whatever machine checks come in whatever order: two cache or TLB errors with one
\* device and one event id, which share a SERD counter, are of one CPU, one level and
\* one type (decode_mca, cpumem_fm_event_post).
THEOREM CachesCountAlone == Spec => []CountedTogether
<1>1. EventInv => CountedTogether
  <2>1. SUFFICES ASSUME EventInv, NEW e \in Cpus, NEW f \in Cpus,
                        e.class.kind \in {"cache", "tlb"}, f.class.kind \in {"cache", "tlb"},
                        e.dev_id = f.dev_id, e.evt_id = f.evt_id
                 PROVE  e.cpu = f.cpu /\ e.clevel = f.clevel /\ (e.ctype = f.ctype \/ {e.ctype, f.ctype} = {3, 4})
    BY DEF CountedTogether
  <2>2. CpuEvent(e) /\ CpuEvent(f)
    BY <2>1, CpuIs
  <2>3. e.cpu = f.cpu /\ e.cpu \in Nat
    BY <2>1, <2>2 DEF CpuEvent
  <2>4. PICK i \in Nat : e.evt_id = i + e.cpu * Word /\ Counts(i, e.clevel, e.ctype)
    BY <2>1, <2>2, Zenon DEF CpuEvent
  <2>5. PICK j \in Nat : f.evt_id = j + f.cpu * Word /\ Counts(j, f.clevel, f.ctype)
    BY <2>1, <2>2, Zenon DEF CpuEvent
  <2>6. i + e.cpu * Word = j + e.cpu * Word
    BY <2>1, <2>3, <2>4, <2>5, Zenon
  <2>7. QED
    BY <2>3, <2>4, <2>5, <2>6, OneCounter
<1>2. QED
  BY <1>1, EventInit, EventNext, PTL DEF Spec

-----------------------------------------------------------------------------
(* The classes.                                                            *)

LEMMA InList ==
  ASSUME NEW dir, NEW c, <<dir, c>> \in CpuLine \cup DiskLine
  PROVE  c \in List(dir)
  BY DEF List

\* The lines of the esc files, one directive at a time.
LEMMA Lines ==
  /\ \A k \in Logged : Ereport("cpu", k, "_ce") \in List("event")
  /\ \A k \in {"tmp_high", "tmp_low"} : Ereport("cpu", k, "") \in List("event")
  /\ \A k \in {"cache", "tlb"} : Ereport("cpu", k, "_ce") \in List("engine")
  /\ Ereport("cpu", "mempage", "") \in List("engine")
  /\ Ereport("disk", "unhealthy", "") \in List("event")
  /\ \A k \in {"space-insufficient", "over-temperature"} : Ereport("disk", k, "") \in List("fault")
  /\ Ereport("disk", "read_error", "") \in List("engine")
<1> DEFINE Logs   == {<<"event", Ereport("cpu", k, s)>> : k \in Logged, s \in {"_ce", "_ue"}}
           Temps  == {<<"event", Ereport("cpu", k, "")>> : k \in {"tmp_high", "tmp_low"}}
           Caches == {<<"engine", Ereport("cpu", k, s)>> : k \in {"cache", "tlb"}, s \in {"_ce", "_ue"}}
           Pages  == {<<"engine", Ereport("cpu", "mempage", "")>>}
<1>0. CpuLine = Logs \cup Temps \cup Caches \cup Pages
  BY DEF CpuLine
<1>a. \A k \in Logged : <<"event", Ereport("cpu", k, "_ce")>> \in Logs
  OBVIOUS
<1>b. \A k \in {"tmp_high", "tmp_low"} : <<"event", Ereport("cpu", k, "")>> \in Temps
  OBVIOUS
<1>c. \A k \in {"cache", "tlb"} : <<"engine", Ereport("cpu", k, "_ce")>> \in Caches
  OBVIOUS
<1>d. <<"engine", Ereport("cpu", "mempage", "")>> \in Pages
  OBVIOUS
<1> HIDE DEF Logs, Temps, Caches, Pages
<1>1. ASSUME NEW k \in Logged PROVE Ereport("cpu", k, "_ce") \in List("event")
  <2>1. <<"event", Ereport("cpu", k, "_ce")>> \in CpuLine \cup DiskLine
    BY <1>0, <1>a
  <2>2. QED
    BY <2>1, InList, Zenon
<1>2. ASSUME NEW k \in {"tmp_high", "tmp_low"} PROVE Ereport("cpu", k, "") \in List("event")
  <2>1. <<"event", Ereport("cpu", k, "")>> \in CpuLine \cup DiskLine
    BY <1>0, <1>b
  <2>2. QED
    BY <2>1, InList, Zenon
<1>3. ASSUME NEW k \in {"cache", "tlb"} PROVE Ereport("cpu", k, "_ce") \in List("engine")
  <2>1. <<"engine", Ereport("cpu", k, "_ce")>> \in CpuLine \cup DiskLine
    BY <1>0, <1>c
  <2>2. QED
    BY <2>1, InList, Zenon
<1>4. Ereport("cpu", "mempage", "") \in List("engine")
  <2>1. <<"engine", Ereport("cpu", "mempage", "")>> \in CpuLine \cup DiskLine
    BY <1>0, <1>d
  <2>2. QED
    BY <2>1, InList, Zenon
<1>5. Ereport("disk", "unhealthy", "") \in List("event")
  <2>1. <<"event", Ereport("disk", "unhealthy", "")>> \in DiskLine
    BY Zenon DEF DiskLine
  <2>2. QED
    BY <2>1, InList, Zenon
<1>6. ASSUME NEW k \in {"space-insufficient", "over-temperature"} PROVE Ereport("disk", k, "") \in List("fault")
  <2>1. <<"fault", Ereport("disk", k, "")>> \in
          {<<"fault", Ereport("disk", l, "")>> : l \in {"space-insufficient", "over-temperature", "badblocks"}}
    OBVIOUS
  <2>2. QED
    BY <2>1, InList, Zenon DEF DiskLine
<1>7. Ereport("disk", "read_error", "") \in List("engine")
  <2>1. <<"engine", Ereport("disk", "read_error", "")>> \in {<<"engine", Ereport("disk", l, "")>> : l \in {"read_error", "write_error"}}
    OBVIOUS
  <2>2. QED
    BY <2>1, InList, Zenon DEF DiskLine
<1>8. QED
  BY <1>1, <1>2, <1>3, <1>4, <1>5, <1>6, <1>7, Zenon

\* The classes of CPUs that can lead to a fault.
LEMMA CpuLineIs ==
  \A l \in CpuLine :
    \/ \E c : l = <<"event", c>>
    \/ \E k \in {"cache", "tlb", "mempage"}, s \in {"_ce", "_ue", ""} : l = <<"engine", Ereport("cpu", k, s)>>
<1> DEFINE Logs   == {<<"event", Ereport("cpu", k, s)>> : k \in Logged, s \in {"_ce", "_ue"}}
           Temps  == {<<"event", Ereport("cpu", k, "")>> : k \in {"tmp_high", "tmp_low"}}
           Caches == {<<"engine", Ereport("cpu", k, s)>> : k \in {"cache", "tlb"}, s \in {"_ce", "_ue"}}
           Pages  == {<<"engine", Ereport("cpu", "mempage", "")>>}
<1>1. CpuLine = Logs \cup Temps \cup Caches \cup Pages
  BY DEF CpuLine
<1>2. \A l \in Logs : \E k \in Logged, s \in {"_ce", "_ue"} : l = <<"event", Ereport("cpu", k, s)>>
  OBVIOUS
<1>3. \A l \in Temps : \E c : l = <<"event", c>>
  BY Zenon
<1>4. \A l \in Caches :
        \E k \in {"cache", "tlb"}, s \in {"_ce", "_ue"} : l = <<"engine", Ereport("cpu", k, s)>>
  OBVIOUS
<1>5. \A l \in Pages : l = <<"engine", Ereport("cpu", "mempage", "")>>
  BY Zenon
<1> HIDE DEF Logs, Temps, Caches, Pages
<1>6. ASSUME NEW l \in CpuLine
      PROVE  \/ \E c : l = <<"event", c>>
             \/ \E k \in {"cache", "tlb", "mempage"}, s \in {"_ce", "_ue", ""} : l = <<"engine", Ereport("cpu", k, s)>>
  <2>1. CASE l \in Logs
    BY <1>2, <2>1, Zenon
  <2>2. CASE l \in Caches
    BY <1>4, <2>2, Zenon
  <2>3. CASE l \in Pages
    BY <1>5, <2>3, Zenon
  <2>4. QED
    BY <1>1, <1>3, <1>6, <2>1, <2>2, <2>3, Zenon
<1>7. QED
  BY <1>6, Zenon

LEMMA DiskLineIs ==
  \A l \in DiskLine : \E d, k : l = <<d, Ereport("disk", k, "")>>
<1> DEFINE E == {<<"event", Ereport("disk", "unhealthy", "")>>}
           F == {<<"fault", Ereport("disk", k, "")>> : k \in {"space-insufficient", "over-temperature", "badblocks"}}
           G == {<<"engine", Ereport("disk", k, "")>> : k \in {"read_error", "write_error"}}
<1>1. DiskLine = E \cup F \cup G
  BY DEF DiskLine
<1>2. \A l \in E : \E d, k : l = <<d, Ereport("disk", k, "")>>
  BY Zenon
<1>3. \A l \in F : \E d, k : l = <<d, Ereport("disk", k, "")>>
  BY Zenon
<1>4. \A l \in G : \E d, k : l = <<d, Ereport("disk", k, "")>>
  BY Zenon
<1> HIDE DEF E, F, G
<1>5. QED
  BY <1>1, <1>2, <1>3, <1>4, Zenon

LEMMA CpuEngines ==
  ASSUME NEW c \in List("engine") \cup List("fault"), c.dev = "cpu"
  PROVE  c.kind \in {"cache", "tlb", "mempage"}
<1>1. PICK l \in CpuLine \cup DiskLine : l[1] \in {"engine", "fault"} /\ c = l[2]
  BY DEF List
<1>2. ASSUME NEW d, l = <<"event", d>> PROVE FALSE
  BY <1>1, <1>2
<1>3. ASSUME NEW k \in {"cache", "tlb", "mempage"}, NEW s, l = <<"engine", Ereport("cpu", k, s)>>
      PROVE  c.kind \in {"cache", "tlb", "mempage"}
  <2>1. c = Ereport("cpu", k, s)
    BY <1>1, <1>3
  <2>2. QED
    BY <2>1 DEF Ereport, Class
<1>4. ASSUME NEW d, NEW k, l = <<d, Ereport("disk", k, "")>> PROVE FALSE
  <2>1. c = Ereport("disk", k, "")
    BY <1>1, <1>4
  <2>2. c.dev = "disk"
    BY <2>1 DEF Ereport, Class
  <2>3. QED
    BY <2>2
<1>5. CASE l \in CpuLine
  BY <1>2, <1>3, <1>5, CpuLineIs, Zenon
<1>6. CASE l \in DiskLine
  BY <1>4, <1>6, DiskLineIs, Zenon
<1>7. QED
  BY <1>5, <1>6

\* One agent takes the class.
LEMMA CpuTaken ==
  ASSUME NEW c, c.dev = "cpu", c.kind \in Logged \cup {"cache", "tlb", "mempage", "tmp_high", "tmp_low"}
  PROVE  Takers(c) = {"cpumem"}
<1>1. DOMAIN Subscribed = {"cpumem", "disk"}
  BY DEF Subscribed
<1>2. Subscribed["cpumem"] = {<<"cpu", k>> : k \in Logged \cup {"tmp", "cache", "tlb", "mempage", "internal"}}
  BY DEF Subscribed
<1>3. \A sub \in Subscribed["disk"] : sub[1] = "disk"
  BY DEF Subscribed
<1>4. \E sub \in Subscribed["cpumem"] : Matches(c, sub)
  <2>1. CASE c.kind \in {"tmp_high", "tmp_low"}
    <3>1. <<"cpu", "tmp">> \in Subscribed["cpumem"]
      BY <1>2
    <3>2. <<c.kind, "tmp">> \in Longer
      BY <2>1 DEF Longer
    <3>3. Matches(c, <<"cpu", "tmp">>)
      BY <3>2 DEF Matches
    <3>4. QED
      BY <3>1, <3>3
  <2>2. CASE c.kind \in Logged \cup {"cache", "tlb", "mempage"}
    <3>1. <<"cpu", c.kind>> \in Subscribed["cpumem"]
      BY <1>2, <2>2
    <3>2. Matches(c, <<"cpu", c.kind>>)
      BY DEF Matches
    <3>3. QED
      BY <3>1, <3>2
  <2>3. QED
    BY <2>1, <2>2
<1>5. ~ \E sub \in Subscribed["disk"] : Matches(c, sub)
  BY <1>3 DEF Matches
<1>6. QED
  BY <1>1, <1>4, <1>5 DEF Takers

LEMMA DiskTaken ==
  ASSUME NEW c, c.dev = "disk", c.kind \in DiskKind \cup {"read_error"}
  PROVE  Takers(c) = {"disk"}
<1>1. DOMAIN Subscribed = {"cpumem", "disk"}
  BY DEF Subscribed
<1>2. \A sub \in Subscribed["cpumem"] : sub[1] = "cpu"
  BY DEF Subscribed
<1>3. <<"disk", c.kind>> \in Subscribed["disk"]
  BY DEF Subscribed, DiskKind
<1>4. Matches(c, <<"disk", c.kind>>)
  BY DEF Matches
<1>5. ~ \E sub \in Subscribed["cpumem"] : Matches(c, sub)
  BY <1>2 DEF Matches
<1>6. QED
  BY <1>1, <1>3, <1>4, <1>5 DEF Takers

LEMMA CpuAgrees ==
  ASSUME NEW e, CpuEvent(e), Accepted(e.class), e.class.sfx # "_uc"
  PROVE  /\ e.class \in List("event") \cup List("engine") \cup List("fault")
         /\ Cardinality(Takers(e.class)) = 1
         /\ EventType(e.class) # "EVENT_REPORT" => \A a \in Takers(e.class) : e.class.kind \in Handled[a]
<1>1. PICK c, kind, sfx : c = e.class /\ kind = c.kind /\ sfx = c.sfx
  OBVIOUS
<1>2. c.dev = "cpu" /\ Shape(kind, sfx) /\ c.top = "ereport" /\ sfx # "_uc"
  BY <1>1 DEF CpuEvent, Accepted
<1>3. c = Ereport("cpu", kind, sfx)
  BY <1>1, <1>2 DEF CpuEvent, Ereport
<1>4. \/ sfx = "_ce" /\ kind \in Logged
      \/ sfx = "" /\ kind \in {"tmp_high", "tmp_low"}
      \/ sfx = "_ce" /\ kind \in {"cache", "tlb"}
      \/ sfx = "" /\ kind = "mempage"
  BY <1>2 DEF Shape
<1>5. c \in List("event") \cup List("engine") \cup List("fault")
  <2>1. c \in List("event") \/ c \in List("engine")
    BY <1>3, <1>4, Lines, Zenon
  <2>2. QED
    BY <2>1
<1>6. kind \in Logged \cup {"cache", "tlb", "mempage", "tmp_high", "tmp_low"}
  BY <1>4
<1>7. Takers(c) = {"cpumem"}
  BY <1>1, <1>2, <1>6, CpuTaken
<1>8. Cardinality(Takers(c)) = 1
  BY <1>7, FS_Singleton, Zenon
<1>9. ASSUME EventType(c) # "EVENT_REPORT" PROVE kind \in Handled["cpumem"]
  <2>1. c \in List("engine") \cup List("fault")
    BY <1>9 DEF EventType
  <2>2. kind \in {"cache", "tlb", "mempage"}
    BY <1>1, <1>2, <2>1, CpuEngines
  <2>3. QED
    BY <2>2 DEF Handled
<1>10. QED
  BY <1>1, <1>5, <1>7, <1>8, <1>9, Zenon

LEMMA DiskAgrees ==
  ASSUME NEW kind \in DiskKind \cup {"read_error"}, NEW e, e.class = Ereport("disk", kind, "")
  PROVE  /\ e.class \in List("event") \cup List("engine") \cup List("fault")
         /\ Cardinality(Takers(e.class)) = 1
         /\ e.class.kind # "read_error" => \A a \in Takers(e.class) : e.class.kind \in Handled[a]
<1>1. PICK c : c = Ereport("disk", kind, "")
  OBVIOUS
<1>2. c.dev = "disk" /\ c.kind = kind
  BY <1>1 DEF Ereport, Class
<1>3. kind \in {"unhealthy", "space-insufficient", "over-temperature", "read_error"}
  BY DEF DiskKind
<1>4. c \in List("event") \/ c \in List("engine") \/ c \in List("fault")
  BY <1>1, <1>3, Lines, Zenon
<1>5. Takers(c) = {"disk"}
  BY <1>2, DiskTaken
<1>6. Cardinality(Takers(c)) = 1
  BY <1>5, FS_Singleton, Zenon
<1>7. kind # "read_error" => kind \in Handled["disk"]
  BY <1>3 DEF Handled
<1>8. e.class = c
  BY <1>1
<1>9. QED
  BY <1>2, <1>4, <1>5, <1>6, <1>7, <1>8, Zenon

\* Whatever the sources post, for every machine check and every disk: what the
\* dispatcher takes is in the esc files, goes to one agent, and that agent has something
\* to do about what can become a fault.  fminject is taken to send the classes that the
\* disk source posts and read errors.
THEOREM ClassesAlwaysAgree ==
  ASSUME \A h \in Machine : h.inject \subseteq DiskKind \cup {"read_error"}
  PROVE  Spec => []ClassesAgree
<1>1. EventInv => ClassesAgree
  <2>1. SUFFICES ASSUME EventInv, NEW e \in posted, Accepted(e.class), e.class.sfx # "_uc"
                 PROVE  /\ e.class \in List("event") \cup List("engine") \cup List("fault")
                        /\ Cardinality(Takers(e.class)) = 1
                        /\ EventType(e.class) # "EVENT_REPORT" /\ e.class.kind # "read_error" =>
                             \A a \in Takers(e.class) : e.class.kind \in Handled[a]
    BY Zenon DEF ClassesAgree
  <2>2. CASE CpuEvent(e)
    BY <2>1, <2>2, CpuAgrees, Zenon
  <2>3. CASE OfDisk(e)
    <3>1. machine \in Machine
      BY <2>1 DEF EventInv, CpuInv
    <3>2. PICK kind \in DiskKind \cup machine.inject : e.class = Ereport("disk", kind, "")
      BY <2>3 DEF OfDisk
    <3>3. kind \in DiskKind \cup {"read_error"}
      BY <3>1
    <3>4. QED
      BY <3>2, <3>3, DiskAgrees, Zenon
  <2>4. QED
    BY <2>1, <2>2, <2>3 DEF EventInv
<1>2. QED
  BY <1>1, EventInit, EventNext, PTL DEF Spec

-----------------------------------------------------------------------------
(* The DIMM of an address.                                                 *)

\* Neighbours that do not overlap make all ranges disjoint, if none ends before it
\* starts.
LEMMA Disjoint ==
  ASSUME NEW n \in Nat, NEW lo \in [1 .. n -> Nat], NEW hi \in [1 .. n -> Nat],
         \A k \in 1 .. n : lo[k] <= hi[k], \A k \in 2 .. n : lo[k] > hi[k - 1],
         NEW i \in 1 .. n, NEW j \in 1 .. n, i < j
  PROVE  hi[i] < lo[j]
<1>1. SUFFICES ASSUME ~ (hi[i] < lo[j]) PROVE FALSE
  OBVIOUS
<1>2. PICK T : T = {k \in 1 .. n : i < k /\ ~ (hi[i] < lo[k])}
  OBVIOUS
<1>3. T \in SUBSET Nat /\ j \in T
  BY <1>1, <1>2
<1>4. PICK k \in T : \A l \in T : k <= l
  BY <1>3, LeastNat
<1>5. k \in 2 .. n /\ i < k /\ ~ (hi[i] < lo[k]) /\ lo[k] > hi[k - 1]
  BY <1>2
<1>6. k - 1 \in 1 .. n /\ i <= k - 1
  BY <1>5
<1>7. PICK l : l = k - 1
  OBVIOUS
<1>8. l \notin T
  <2>1. ~ (k <= l)
    BY <1>5, <1>7
  <2>2. QED
    BY <1>4, <2>1, Zenon
<1>9. i = l \/ hi[i] < lo[l]
  BY <1>2, <1>6, <1>7, <1>8
<1>10. /\ hi[i] \in Nat /\ lo[k] \in Nat /\ hi[l] \in Nat /\ lo[l] \in Nat
       /\ lo[l] <= hi[l] /\ hi[l] < lo[k] /\ ~ (hi[i] < lo[k])
  BY <1>5, <1>6, <1>7
<1>11. QED
  BY <1>9, <1>10

\* What dmi_sanity_check leaves: all ranges of the table, none overlapping its neighbour.
GoodRanges(r) ==
  /\ \E n \in Nat : DOMAIN r = 1 .. n
  /\ \A k \in DOMAIN r : \E i \in Collected(machine.table, "range") : r[k] = machine.table[i]
  /\ \A i \in Collected(machine.table, "range") : \E k \in DOMAIN r : r[k] = machine.table[i]
  /\ \A k \in DOMAIN r : k >= 2 => First(r[k]) > Final(r[k - 1])

MemRight(e) ==
  \A h \in e.memdev : \A i \in Collected(machine.table, "range") :
    First(machine.table[i]) <= e.addr /\ e.addr <= Final(machine.table[i]) => machine.table[i].dev = h

DimmInv ==
  /\ EventInv
  /\ do_dmi => GoodRanges(ranges)
  /\ \A e \in ToSet(head) \cup Cpus : MemRight(e)

\* No range ends before it starts.
Upright == \A h \in Machine : \A i \in DOMAIN h.table : First(h.table[i]) <= Final(h.table[i])

LEMMA SortedGood ==
  ASSUME machine \in Machine, NEW r \in Sorted(machine.table), NoOverlap(r)
  PROVE  GoodRanges(r)
<1>1. PICK t : t = machine.table
  OBVIOUS
<1>2. PICK I : I = Collected(t, "range")
  OBVIOUS
<1>3. PICK m \in Nat : DOMAIN t = 1 .. m
  BY <1>1, MachineAssumption
<1>4. I \subseteq 1 .. m
  BY <1>2, <1>3 DEF Collected, Walked
<1>5. IsFiniteSet(I)
  <2>1. 1 \in Int /\ m \in Int
    BY <1>3
  <2>2. IsFiniteSet(1 .. m)
    BY <2>1, FS_Interval, Zenon
  <2>3. QED
    BY <1>4, <2>2, FS_Subset, Zenon
<1>6. PICK n \in Nat : n = Cardinality(I)
  BY <1>5, FS_CardinalityType
<1>7. PICK p \in Bijection(1 .. n, I) : r = [i \in 1 .. n |-> t[p[i]]]
  BY <1>1, <1>2, <1>6 DEF Sorted
<1>8. p \in [1 .. n -> I] /\ \A i \in I : \E k \in 1 .. n : p[k] = i
  BY <1>7 DEF Bijection, Injection, Surjection
<1>9. DOMAIN r = 1 .. n
  BY <1>7
<1>10. \A k \in 1 .. n : r[k] = t[p[k]]
  BY <1>7
<1>11. Len(r) = n
  <2>1. PICK V : V = {t[i] : i \in I}
    OBVIOUS
  <2>2. r \in [1 .. n -> V]
    BY <1>7, <1>8, <2>1
  <2>3. r \in Seq(V) /\ Len(r) = n
    BY <2>2
  <2>4. QED
    BY <2>3
<1>12. \A k \in 1 .. n : k >= 2 => First(r[k]) > Final(r[k - 1])
  BY <1>11 DEF NoOverlap
<1>13. \A k \in 1 .. n : \E i \in I : r[k] = t[i]
  BY <1>8, <1>10
<1>14. \A i \in I : \E k \in 1 .. n : r[k] = t[i]
  BY <1>8, <1>10
<1>15. QED
  BY <1>1, <1>2, <1>9, <1>12, <1>13, <1>14 DEF GoodRanges

\* dmi_find_addr: at most one range holds an address.
LEMMA RightDimm ==
  ASSUME Upright, machine \in Machine, NEW r, GoodRanges(r), NEW a \in Nat,
         NEW h \in FindAddr(machine.table, r, a), NEW i \in Collected(machine.table, "range"),
         First(machine.table[i]) <= a, a <= Final(machine.table[i])
  PROVE  machine.table[i].dev = h
<1>1. PICK t : t = machine.table
  OBVIOUS
<1>2. PICK k \in DOMAIN r : h = r[k].dev /\ First(r[k]) <= a /\ a < Final(r[k])
  BY DEF FindAddr
<1>3. PICK j \in DOMAIN r : r[j] = t[i]
  BY <1>1 DEF GoodRanges
<1>4. PICK n \in Nat : DOMAIN r = 1 .. n
  BY DEF GoodRanges
<1>5. \A x \in 1 .. n : \E y \in DOMAIN t : r[x] = t[y]
  BY <1>1, <1>4 DEF GoodRanges, Collected, Walked
<1>6. \A y \in DOMAIN t : First(t[y]) \in Nat /\ Final(t[y]) \in Nat /\ First(t[y]) <= Final(t[y])
  BY <1>1, MachineAssumption DEF Upright
<1>7. \A x \in 1 .. n : First(r[x]) \in Nat /\ Final(r[x]) \in Nat /\ First(r[x]) <= Final(r[x])
  BY <1>5, <1>6
<1>8. PICK lo \in [1 .. n -> Nat], hi \in [1 .. n -> Nat] :
        \A x \in 1 .. n : lo[x] = First(r[x]) /\ hi[x] = Final(r[x])
  <2>1. [x \in 1 .. n |-> First(r[x])] \in [1 .. n -> Nat] /\ [x \in 1 .. n |-> Final(r[x])] \in [1 .. n -> Nat]
    BY <1>7
  <2>2. QED
    BY <2>1
<1>9. \A x \in 1 .. n : lo[x] <= hi[x]
  BY <1>7, <1>8
<1>10. ASSUME NEW x \in 2 .. n PROVE lo[x] > hi[x - 1]
  <2>1. x \in 1 .. n /\ x - 1 \in 1 .. n /\ x >= 2
    BY <1>10
  <2>2. First(r[x]) > Final(r[x - 1])
    BY <1>4, <2>1 DEF GoodRanges
  <2>3. QED
    BY <1>8, <2>1, <2>2
<1>11. j \in 1 .. n /\ k \in 1 .. n
  BY <1>2, <1>3, <1>4
<1>12. ~ (k < j)
  <2>1. SUFFICES ASSUME k < j PROVE FALSE
    OBVIOUS
  <2>2. hi[k] < lo[j]
    BY <1>9, <1>10, <1>11, <2>1, Disjoint
  <2>3. a < hi[k] /\ lo[j] <= a /\ hi[k] \in Nat /\ lo[j] \in Nat
    BY <1>1, <1>2, <1>3, <1>8, <1>11
  <2>4. QED
    BY <2>2, <2>3
<1>13. ~ (j < k)
  <2>1. SUFFICES ASSUME j < k PROVE FALSE
    OBVIOUS
  <2>2. hi[j] < lo[k]
    BY <1>9, <1>10, <1>11, <2>1, Disjoint
  <2>3. a <= hi[j] /\ lo[k] <= a /\ hi[j] \in Nat /\ lo[k] \in Nat
    BY <1>1, <1>2, <1>3, <1>8, <1>11
  <2>4. QED
    BY <2>2, <2>3
<1>14. j = k
  BY <1>11, <1>12, <1>13
<1>15. QED
  BY <1>1, <1>2, <1>3, <1>14

LEMMA EventsOfRecord ==
  ASSUME NEW r, NEW type, NEW d
  PROVE  \A e \in ToSet(DumpMce(type, r, d)) : e.memdev = d /\ e.addr = r.addr
<1>1. \A m : EventOf(r, m, d).memdev = d /\ EventOf(r, m, d).addr = r.addr
  BY DEF EventOf
<1>2. \A e \in ToSet(DumpMce(type, r, d)) : \E m : e = EventOf(r, m, d)
  BY DEF ToSet, DumpMce
<1>3. QED
  BY <1>1, <1>2


LEMMA DimmInit == Init => DimmInv
<1> SUFFICES ASSUME Init PROVE DimmInv
  OBVIOUS
<1>1. EventInv
  BY EventInit
<1>2. head = <<>> /\ posted = {} /\ do_dmi = FALSE
  BY DEF Init
<1>3. ToSet(head) = {} /\ Cpus = {}
  BY <1>2, SmallSets, Zenon DEF Cpus
<1>4. QED
  BY <1>1, <1>2, <1>3 DEF DimmInv

\* checkdmi: tables are used only when they passed the check.
LEMMA DimmTables ==
  ASSUME machine \in Machine, machine' = machine, do_dmi => GoodRanges(ranges), [Next]_vars, do_dmi'
  PROVE  GoodRanges(ranges')
<1>1. CASE UNCHANGED <<do_dmi, ranges>>
  BY <1>1
<1>2. CASE DmiFound
  <2>1. PICK r \in Sorted(machine.table) :
          do_dmi' = SanityCheck(machine.table, r) /\ ranges' = IF do_dmi' THEN r ELSE <<>>
    BY <1>2, Zenon DEF DmiFound
  <2>2. NoOverlap(r) /\ ranges' = r
    BY <2>1, Zenon DEF SanityCheck
  <2>3. QED
    BY <2>2, SortedGood, Zenon
<1>3. UNCHANGED <<do_dmi, ranges>> \/ DmiFound
  <2>1. CASE Load
    BY <2>1, Zenon DEF Load, CpumemInit, CheckDmi, DmiMissing
  <2>2. CASE Edit \/ (\E r \in machine.record : KernelLog(r)) \/ ReadLog \/ Decode \/ Post \/ DiskProbe
             \/ (\E k \in machine.inject : InjectProbe(k)) \/ QueueStart \/ ProcEvent \/ UNCHANGED vars
    BY <2>2 DEF Edit, EditRead, EditTruncate, EditWrite, EditKilled, KernelLog, ReadLog, Decode, Post, DiskProbe,
                InjectProbe, QueueStart, ProcEvent, vars, setup
  <2>3. QED
    BY <2>1, <2>2 DEF Next
<1>4. QED
  BY <1>1, <1>2, <1>3

LEMMA DimmNext == ASSUME Upright PROVE DimmInv /\ [Next]_vars => DimmInv'
<1> SUFFICES ASSUME DimmInv, [Next]_vars PROVE DimmInv'
  OBVIOUS
<1>1. machine' = machine
  BY DEF Next, Edit, EditRead, EditTruncate, EditWrite, EditKilled, Load, KernelLog, ReadLog, Decode, Post,
         DiskProbe, InjectProbe, QueueStart, ProcEvent, vars
<1>2. EventInv /\ EventInv'
  BY EventNext DEF DimmInv
<1>3. /\ machine \in Machine /\ buf \in Seq(machine.record) /\ head \in Seq(ToSet(head))
      /\ do_dmi => GoodRanges(ranges)
      /\ \A e \in ToSet(head) \cup Cpus : MemRight(e)
  BY <1>2 DEF DimmInv, EventInv, CpuInv
<1>4. do_dmi' => GoodRanges(ranges')
  BY <1>1, <1>3, DimmTables
<1>5. SUFFICES ASSUME TRUE
               PROVE  /\ \A e \in ToSet(head') : MemRight(e)
                      /\ \A e \in posted' : e \in posted \cup ToSet(head) \/ e.class.dev # "cpu"
  <2>1. \A e : MemRight(e)' <=> MemRight(e)
    BY <1>1 DEF MemRight
  <2>2. GoodRanges(ranges)' <=> GoodRanges(ranges')
    BY <1>1 DEF GoodRanges
  <2>3. \A e \in Cpus' : e \in Cpus \/ e \in ToSet(head)
    BY <1>5 DEF Cpus
  <2>4. \A e \in ToSet(head') \cup Cpus' : MemRight(e)
    BY <1>3, <1>5, <2>3, Zenon
  <2>5. (\A e \in ToSet(head) \cup Cpus : MemRight(e))' <=> \A e \in ToSet(head') \cup Cpus' : MemRight(e)'
    BY Zenon
  <2>6. (do_dmi => GoodRanges(ranges))'
    BY <1>4, <2>2, Zenon
  <2>7. QED
    BY <1>2, <2>1, <2>4, <2>5, <2>6, Zenon DEF DimmInv
<1>6. CASE Decode
  <2>1. posted' = posted /\ buf # <<>>
    BY <1>6 DEF Decode, queue
  <2>2. PICK r \in machine.record : r = Head(buf)
    BY <1>3, <2>1, HeadTailProperties
  <2>3. r.mca \in Nat /\ r.cpu \in Nat /\ r.addr \in Nat
    BY <1>3, MachineAssumption
  <2>4. PICK type, d : type = McePrepare(cputype, r) /\ d = Memdev(r)
    OBVIOUS
  <2>5. CASE head' = <<>>
    BY <2>1, <2>5, SmallSets, Zenon
  <2>6. CASE ~Fatal(Messages(type, r)) /\ head' = head \o DumpMce(type, r, d)
    <3>1. PICK es : es = DumpMce(type, r, d)
      OBVIOUS
    <3>2. es \in Seq(ToSet(es))
      BY <2>3, <2>6, <3>1, RecordEvents, Zenon
    <3>3. ToSet(head \o es) \subseteq ToSet(head) \cup ToSet(es)
      BY <1>3, <3>2, BothSets
    <3>4. \A h \in d : do_dmi /\ h \in FindAddr(machine.table, ranges, r.addr)
      BY <2>4, Zenon DEF Memdev
    <3>5. ASSUME NEW h \in d, NEW i \in Collected(machine.table, "range"),
                 First(machine.table[i]) <= r.addr, r.addr <= Final(machine.table[i])
          PROVE  machine.table[i].dev = h
      BY <1>3, <2>3, <3>4, <3>5, RightDimm
    <3>6. \A e \in ToSet(es) : e.memdev = d /\ e.addr = r.addr
      <4>1. \A e \in ToSet(DumpMce(type, r, d)) : e.memdev = d /\ e.addr = r.addr
        BY EventsOfRecord
      <4>2. QED
        BY <3>1, <4>1, Zenon
    <3>7. \A e \in ToSet(es) : MemRight(e)
      BY <3>5, <3>6 DEF MemRight
    <3>8. QED
      BY <1>3, <2>1, <2>6, <3>1, <3>3, <3>7, Zenon
  <2>7. head' = <<>> \/ (~Fatal(Messages(type, r)) /\ head' = head \o DumpMce(type, r, d))
    BY <1>6, <2>2, <2>4, Zenon DEF Decode
  <2>8. QED
    BY <2>5, <2>6, <2>7
<1>7. CASE Post
  <2>1. posted' = posted \cup ToSet(head) /\ head' = <<>>
    BY <1>7 DEF Post, Handle
  <2>2. QED
    BY <2>1, SmallSets, Zenon
<1>8. ASSUME head' = head, \A e \in posted' : e \in posted \/ e.class.dev = "disk"
      PROVE  /\ \A e \in ToSet(head') : MemRight(e)
             /\ \A e \in posted' : e \in posted \cup ToSet(head) \/ e.class.dev # "cpu"
  BY <1>3, <1>8
<1>9. CASE DiskProbe
  <2>1. head' = head
    BY <1>9 DEF DiskProbe, probe
  <2>2. ASSUME NEW e \in posted' PROVE e \in posted \/ e.class.dev = "disk"
    <3>1. SUFFICES ASSUME e \notin posted PROVE e.class.dev = "disk"
      BY Zenon
    <3>2. PICK i \in DOMAIN machine.df : \E sick, hot : e \in ToSet(ProbeEvents(machine.df, i, sick, hot))
      BY <1>3, <1>9, <2>2, <3>1, ProbePosts, Zenon
    <3>3. OfDisk(e)
      BY <1>3, <3>2, ProbeNamed
    <3>4. PICK kind : e.class = Ereport("disk", kind, "")
      BY <3>3, Zenon DEF OfDisk
    <3>5. Ereport("disk", kind, "").dev = "disk"
      BY DEF Ereport, Class
    <3>6. QED
      BY <3>4, <3>5, Zenon
  <2>3. QED
    BY <1>8, <2>1, <2>2, Zenon
<1>10. ASSUME NEW kind \in machine.inject, InjectProbe(kind)
       PROVE  head' = head /\ \A e \in posted' : e \in posted \/ e.class.dev = "disk"
  <2>1. PICK d : d = DiskEvent(<<"b", 0>>, InjectId(kind), kind)
    OBVIOUS
  <2>2. head' = head /\ posted' = posted \cup ToSet(<<d>>)
    BY <1>10, <2>1, Zenon DEF InjectProbe, Handle, probe
  <2>3. ToSet(<<d>>) = {d}
    BY SmallSets, Zenon
  <2>4. d.class.dev = "disk"
    BY <2>1 DEF DiskEvent, Ereport, Class
  <2>5. QED
    BY <2>2, <2>3, <2>4, Zenon
<1>11. CASE Edit \/ Load \/ (\E r \in machine.record : KernelLog(r)) \/ ReadLog \/ QueueStart \/ ProcEvent
             \/ UNCHANGED vars
  <2>1. UNCHANGED <<head, posted>>
    BY <1>11 DEF Edit, EditRead, EditTruncate, EditWrite, EditKilled, Load, KernelLog, ReadLog, QueueStart,
                 ProcEvent, vars, probe, queue
  <2>2. QED
    BY <1>8, <2>1
<1>12. QED
  BY <1>6, <1>7, <1>8, <1>9, <1>10, <1>11 DEF Next

\* dmi_sanity_check, dmi_find_addr, for every SMBIOS table in which no range ends before
\* it starts, and whatever order qsort leaves the ranges in: the DIMM that a logged
\* error names is the one whose range holds the address.  Only neighbours are
\* compared, so the proof is by induction along the sorted ranges.
THEOREM DimmIsRight == ASSUME Upright PROVE Spec => []DimmRight
<1>1. DimmInv => DimmRight
  BY DEF DimmInv, MemRight, DimmRight
<1>2. DimmInv /\ [Next]_vars => DimmInv'
  BY DimmNext
<1>3. QED
  BY <1>1, <1>2, DimmInit, PTL DEF Spec


-----------------------------------------------------------------------------
(* The rows of the database.                                               *)

\* The event id of a CPU's event has the CPU above the lower half.
Numbered(e) ==
  e.name = <<"cpu", 0>> => e.dev_id \in Nat /\ \E id \in 0 .. 15 : e.evt_id = id + e.dev_id * Word

\* The row is one of an event that was posted.
RowOf(r, f) ==
  TableOf(f) = r.table /\ f.class = r.class /\ f.dev_id = r.dev_id /\ f.evt_id % Word = r.evt_id

RecordInv ==
  /\ EventInv
  /\ \A e \in ToSet(head) \cup posted : Numbered(e)
  /\ ring \in Seq(posted)
  /\ \A r \in rows : r.class \in List("engine") => r.level = "Minor"
  /\ \A r \in rows : \E f \in posted : RowOf(r, f)

\* The lower half of an id with the CPU above it.
LEMMA LowHalf ==
  ASSUME NEW W \in Nat, W >= 16, NEW d \in Nat, NEW i \in Nat, i < 16
  PROVE  (i + d * W) % W = i
<1>1. PICK a \in Nat : a = i + d * W
  OBVIOUS
<1>2. PICK q \in Int, r \in Int : q = a \div W /\ r = a % W
  OBVIOUS
<1>3. a = W * q + r /\ 0 <= r /\ r < W
  BY <1>2
<1>4. W * (q - d) = i - r
  BY <1>1, <1>3
<1>5. PICK k \in Int : k = q - d
  OBVIOUS
<1>6. ~ (k >= 1)
  BY <1>3, <1>4, <1>5
<1>7. ~ (k <= -1)
  BY <1>3, <1>4, <1>5
<1>8. k = 0
  BY <1>5, <1>6, <1>7
<1>9. QED
  BY <1>1, <1>2, <1>4, <1>5, <1>8

LEMMA RecordNumbered ==
  ASSUME NEW r, r.mca \in Nat, r.cpu \in Nat, NEW type, NEW d
  PROVE  \A e \in ToSet(DumpMce(type, r, d)) : Numbered(e)
<1>1. PICK ms \in Seq(Msg) : ms = Messages(type, r)
  BY RecordMsgs
<1>2. \A e \in ToSet(DumpMce(type, r, d)) : \E i \in DOMAIN ms : e = EventOf(r, ms[i], d)
  BY <1>1 DEF ToSet, DumpMce
<1>3. \A i \in DOMAIN ms : ms[i] \in Msg
  OBVIOUS
<1>4. ASSUME NEW m \in Msg, NEW e, e = EventOf(r, m, d), e.name = <<"cpu", 0>>
      PROVE  e.dev_id \in Nat /\ \E id \in 0 .. 15 : e.evt_id = id + e.dev_id * Word
  <2>1. e.name = <<m.name, 0>>
    BY <1>4 DEF EventOf
  <2>2. m.name = "cpu"
    BY <1>4, <2>1
  <2>3. m.page = FALSE /\ m.id < 16 /\ m.id \in Nat
    BY <2>2 DEF Msg, MsgRecord
  <2>4. e.dev_id = r.cpu /\ e.evt_id = m.id + r.cpu * Word
    BY <1>4, <2>2, <2>3 DEF EventOf
  <2>5. m.id \in 0 .. 15
    BY <2>3, SmallIds, Zenon
  <2>6. QED
    BY <2>4, <2>5, Zenon
<1>5. QED
  BY <1>2, <1>3, <1>4, Zenon DEF Numbered

LEMMA DiskNumbered ==
  ASSUME NEW name, NEW id \in 0 .. 15, NEW kind
  PROVE  Numbered(DiskEvent(name, id, kind))
<1>1. PICK e : e = DiskEvent(name, id, kind)
  OBVIOUS
<1>2. e.dev_id = 0 /\ e.evt_id = id
  BY <1>1 DEF DiskEvent
<1>3. id = id + 0 * Word
  BY WordSize
<1>4. 0 \in Nat
  OBVIOUS
<1>5. QED
  BY <1>1, <1>2, <1>3, <1>4, Zenon DEF Numbered

LEMMA RecordInit == Init => RecordInv
<1> SUFFICES ASSUME Init PROVE RecordInv
  OBVIOUS
<1>1. EventInv
  BY EventInit
<1>2. head = <<>> /\ posted = {} /\ ring = <<>> /\ rows = {}
  BY DEF Init, DbInit
<1>3. ToSet(head) = {}
  BY <1>2, SmallSets, Zenon
<1>4. <<>> \in Seq(posted)
  OBVIOUS
<1>5. ring \in Seq(posted)
  BY <1>2, <1>4, Zenon
<1>6. QED
  BY <1>1, <1>2, <1>3, <1>5, Zenon DEF RecordInv

\* queue_start and the dispatcher: a row is made of the event at the head of the ring.
LEMMA RowsNext ==
  ASSUME RecordInv, [Next]_vars
  PROVE  \A r \in rows' : r \in rows \/ \E e \in posted : RowOf(r, e) /\ (r.class \in List("engine") => r.level = "Minor")
<1>1. CASE ProcEvent
  <2>1. CASE Store(Head(ring))
    <3>1. PICK e \in posted : e = Head(ring)
      <4>1. ring \in Seq(posted) /\ ring # <<>>
        BY <1>1 DEF RecordInv, ProcEvent
      <4>2. QED
        BY <4>1, HeadTailProperties
    <3>2. PICK t, l : t = TableOf(e) /\ l = LevelOf(e, level[t])
      OBVIOUS
    <3>3. rows' \in {rows, rows \cup {Row(t, e, l)}}
      BY <2>1, <3>1, <3>2, Zenon DEF Store, db
    <3>4. PICK r : r = Row(t, e, l)
      OBVIOUS
    <3>5. r.table = t /\ r.class = e.class /\ r.dev_id = e.dev_id /\ r.evt_id = e.evt_id % Word /\ r.level = l
      BY <3>4 DEF Row
    <3>6. RowOf(r, e)
      BY <3>2, <3>5, Zenon DEF RowOf
    <3>7. e.class \in List("engine") => l = "Minor"
      <4>1. e.class \in List("engine") => EventType(e.class) = "EVENT_SERD"
        BY DEF EventType
      <4>2. EventType(e.class) = "EVENT_SERD" => LevelOf(e, level[t]) = "Minor"
        BY DEF LevelOf
      <4>3. QED
        BY <3>2, <4>1, <4>2, Zenon
    <3>8. QED
      BY <3>3, <3>4, <3>5, <3>6, <3>7, Zenon
  <2>2. CASE UNCHANGED db
    BY <2>2 DEF db
  <2>3. QED
    BY <1>1, <2>1, <2>2, Zenon DEF ProcEvent
<1>2. CASE Edit \/ Load \/ (\E r \in machine.record : KernelLog(r)) \/ ReadLog \/ Decode \/ Post \/ DiskProbe
           \/ (\E k \in machine.inject : InjectProbe(k)) \/ QueueStart \/ UNCHANGED vars
  <2>1. rows' = rows
    BY <1>2 DEF Edit, EditRead, EditTruncate, EditWrite, EditKilled, Load, KernelLog, ReadLog, Decode, Post,
                DiskProbe, InjectProbe, QueueStart, OpenDb, vars, db
  <2>2. QED
    BY <2>1
<1>3. QED
  BY <1>1, <1>2 DEF Next

LEMMA RecordNext == RecordInv /\ [Next]_vars => RecordInv'
<1> SUFFICES ASSUME RecordInv, [Next]_vars PROVE RecordInv'
  OBVIOUS
<1>1. EventInv /\ EventInv'
  BY EventNext DEF RecordInv
<1>2. /\ machine \in Machine /\ buf \in Seq(machine.record) /\ head \in Seq(ToSet(head))
      /\ ring \in Seq(posted) /\ \A e \in ToSet(head) \cup posted : Numbered(e)
  BY <1>1 DEF RecordInv, EventInv, CpuInv
<1>3. SUFFICES ASSUME TRUE
               PROVE  /\ posted \subseteq posted' /\ ring' \in Seq(posted')
                      /\ \A e \in ToSet(head') \cup posted' : Numbered(e)
  <2>1. \A e : Numbered(e)' <=> Numbered(e)
    BY DEF Numbered
  <2>2. \A r, f : RowOf(r, f)' <=> RowOf(r, f)
    BY DEF RowOf
  <2>3. /\ \A r \in rows : r.class \in List("engine") => r.level = "Minor"
        /\ \A r \in rows : \E f \in posted : RowOf(r, f)
    BY DEF RecordInv
  <2>4. /\ \A r \in rows' : r.class \in List("engine") => r.level = "Minor"
        /\ \A r \in rows' : \E f \in posted' : RowOf(r, f)
    BY <1>3, <2>3, RowsNext, Zenon
  <2>5. (\A e \in ToSet(head) \cup posted : Numbered(e))' <=> \A e \in ToSet(head') \cup posted' : Numbered(e)'
    BY Zenon
  <2>6. (\A r \in rows : \E f \in posted : RowOf(r, f))' <=> \A r \in rows' : \E f \in posted' : RowOf(r, f)'
    BY Zenon
  <2>7. QED
    BY <1>1, <1>3, <2>1, <2>2, <2>4, <2>5, <2>6, Zenon DEF RecordInv
<1>4. ASSUME NEW T, NEW es \in Seq(T), posted' = posted \cup T, ring' = ring \o es PROVE ring' \in Seq(posted')
  <2>1. ring \in Seq(posted') /\ es \in Seq(posted')
    BY <1>2, <1>4
  <2>2. ring \o es \in Seq(posted')
    BY <2>1, ConcatProperties
  <2>3. QED
    BY <1>4, <2>2, Zenon
<1>5. CASE Decode
  <2>1. posted' = posted /\ ring' = ring /\ buf # <<>>
    BY <1>5 DEF Decode, queue
  <2>2. PICK r \in machine.record : r = Head(buf)
    BY <1>2, <2>1, HeadTailProperties
  <2>3. r.mca \in Nat /\ r.cpu \in Nat
    BY <1>2, MachineAssumption
  <2>4. PICK type, d : type = McePrepare(cputype, r) /\ d = Memdev(r)
    OBVIOUS
  <2>5. CASE head' = <<>>
    BY <1>2, <2>1, <2>5, SmallSets, Zenon
  <2>6. CASE ~Fatal(Messages(type, r)) /\ head' = head \o DumpMce(type, r, d)
    <3>1. PICK es : es = DumpMce(type, r, d)
      OBVIOUS
    <3>2. es \in Seq(ToSet(es))
      BY <2>3, <2>6, <3>1, RecordEvents, Zenon
    <3>3. ToSet(head \o es) \subseteq ToSet(head) \cup ToSet(es)
      BY <1>2, <3>2, BothSets
    <3>4. \A e \in ToSet(es) : Numbered(e)
      BY <2>3, <3>1, RecordNumbered, Zenon
    <3>5. \A e \in ToSet(head') : Numbered(e)
      BY <1>2, <2>6, <3>1, <3>3, <3>4, Zenon
    <3>6. QED
      BY <1>2, <2>1, <3>5
  <2>7. head' = <<>> \/ (~Fatal(Messages(type, r)) /\ head' = head \o DumpMce(type, r, d))
    BY <1>5, <2>2, <2>4, Zenon DEF Decode
  <2>8. QED
    BY <2>5, <2>6, <2>7
<1>6. CASE Post
  <2>1. posted' = posted \cup ToSet(head) /\ ring' = ring \o head /\ head' = <<>>
    BY <1>6 DEF Post, Handle
  <2>2. ring' \in Seq(posted')
    BY <1>2, <1>4, <2>1, Zenon
  <2>3. ToSet(head') = {}
    BY <2>1, SmallSets, Zenon
  <2>4. QED
    BY <1>2, <2>1, <2>2, <2>3
<1>7. CASE DiskProbe
  <2>1. head' = head /\ posted \subseteq posted'
    BY <1>7 DEF DiskProbe, probe, queue, Handle
  <2>2. ring' \in Seq(posted')
    BY <1>2, <1>7, ProbePosts
  <2>3. ASSUME NEW e \in posted' PROVE Numbered(e)
    <3>1. CASE e \in posted
      BY <1>2, <3>1
    <3>2. CASE e \notin posted
      <4>1. PICK i \in DOMAIN machine.df : \E sick, hot : e \in ToSet(ProbeEvents(machine.df, i, sick, hot))
        BY <1>2, <1>7, <2>3, <3>2, ProbePosts, Zenon
      <4>2. PICK sick, hot : e \in ToSet(ProbeEvents(machine.df, i, sick, hot))
        BY <4>1
      <4>3. 1 \in 0 .. 15 /\ 2 \in 0 .. 15 /\ 3 \in 0 .. 15
        OBVIOUS
      <4>4. QED
        BY <4>2, <4>3, LineEvents, DiskNumbered, Zenon
    <3>3. QED
      BY <3>1, <3>2
  <2>4. QED
    BY <1>2, <2>1, <2>2, <2>3, Zenon
<1>8. ASSUME NEW kind \in machine.inject, InjectProbe(kind)
      PROVE  /\ posted \subseteq posted' /\ ring' \in Seq(posted')
             /\ \A e \in ToSet(head') \cup posted' : Numbered(e)
  <2>1. PICK id \in 0 .. 15 : id = InjectId(kind)
    BY DEF InjectId
  <2>2. PICK d : d = DiskEvent(<<"b", 0>>, id, kind)
    OBVIOUS
  <2>3. head' = head /\ posted' = posted \cup ToSet(<<d>>) /\ ring' = ring \o <<d>>
    BY <1>8, <2>1, <2>2, Zenon DEF InjectProbe, Handle, probe
  <2>4. ToSet(<<d>>) = {d} /\ <<d>> \in Seq({d})
    BY SmallSets, Zenon
  <2>5. Numbered(d)
    BY <2>2, DiskNumbered, Zenon
  <2>6. ring' \in Seq(posted')
    BY <1>4, <2>3, <2>4, Zenon
  <2>7. QED
    BY <1>2, <2>3, <2>4, <2>5, <2>6
<1>9. CASE ProcEvent
  <2>1. head' = head /\ posted' = posted /\ ring' = Tail(ring) /\ ring # <<>>
    BY <1>9 DEF ProcEvent, probe
  <2>2. Tail(ring) \in Seq(posted)
    BY <1>2, <2>1, HeadTailProperties
  <2>3. QED
    BY <1>2, <2>1, <2>2, Zenon
<1>10. CASE Edit \/ Load \/ (\E r \in machine.record : KernelLog(r)) \/ ReadLog \/ QueueStart \/ UNCHANGED vars
  <2>1. UNCHANGED <<head, posted, ring>>
    BY <1>10 DEF Edit, EditRead, EditTruncate, EditWrite, EditKilled, Load, KernelLog, ReadLog, QueueStart,
                 vars, probe, queue
  <2>2. head' = head /\ posted' = posted /\ ring' = ring
    BY <2>1
  <2>3. QED
    BY <1>2, <2>2, Zenon
<1>11. QED
  BY <1>5, <1>6, <1>7, <1>8, <1>9, <1>10 DEF Next

LEMMA OneCounterOfRow ==
  ASSUME RecordInv, NEW r \in rows, r.table = "cpu_event"
  PROVE  Cardinality(Counters(r)) = 1
<1>1. PICK f \in posted : RowOf(r, f)
  BY DEF RecordInv
<1>2. \A e \in posted : RowOf(r, e) => e.name = <<"cpu", 0>>
  <2>1. SUFFICES ASSUME NEW e \in posted, TableOf(e) = "cpu_event" PROVE e.name = <<"cpu", 0>>
    BY DEF RowOf
  <2>2. CASE e.name = <<"memory", 0>>
    BY <2>1, <2>2 DEF TableOf
  <2>3. CASE e.name # <<"memory", 0>> /\ e.name # <<"cpu", 0>>
    BY <2>1, <2>3, Zenon DEF TableOf, NoTable
  <2>4. QED
    BY <2>2, <2>3
<1>3. \A e \in posted : Numbered(e)
  BY DEF RecordInv
<1>4. Word \in Nat /\ Word >= 16
  BY WordSize
<1>5. ASSUME NEW e \in posted, RowOf(r, e)
      PROVE  <<e.dev_id, e.evt_id>> = <<f.dev_id, f.evt_id>>
  <2>1. e.dev_id = r.dev_id /\ e.evt_id % Word = r.evt_id /\ f.dev_id = r.dev_id /\ f.evt_id % Word = r.evt_id
    BY <1>1, <1>5 DEF RowOf
  <2>2. PICK d \in Nat, i \in 0 .. 15 : e.dev_id = d /\ e.evt_id = i + d * Word
    BY <1>2, <1>3, <1>5, Zenon DEF Numbered
  <2>3. PICK c \in Nat, j \in 0 .. 15 : f.dev_id = c /\ f.evt_id = j + c * Word
    BY <1>1, <1>2, <1>3, Zenon DEF Numbered
  <2>4. c = d
    BY <2>1, <2>2, <2>3, Zenon
  <2>5. i \in Nat /\ i < 16 /\ j \in Nat /\ j < 16
    OBVIOUS
  <2>6. (i + d * Word) % Word = i /\ (j + c * Word) % Word = j
    BY <1>4, <2>5, LowHalf
  <2>7. i = j
    BY <2>1, <2>2, <2>3, <2>6, Zenon
  <2>8. QED
    BY <2>2, <2>3, <2>4, <2>7, Zenon
<1>6. PICK x : x = <<f.dev_id, f.evt_id>>
  OBVIOUS
<1>7. PICK F : F = {e \in posted : RowOf(r, e)}
  OBVIOUS
<1>8. Counters(r) = {<<e.dev_id, e.evt_id>> : e \in F}
  BY <1>7, Zenon DEF Counters, RowOf
<1>9. f \in F /\ \A e \in F : <<e.dev_id, e.evt_id>> = x
  BY <1>1, <1>5, <1>6, <1>7, Zenon
<1>10. Counters(r) = {x}
  BY <1>6, <1>8, <1>9
<1>11. QED
  BY <1>10, FS_Singleton, Zenon

\* ras_events_handle, for any number of events in any order: a row of the table of CPUs
\* is that of one counter, although only half of the event id is stored, and what
\* counts towards a fault has its level, although statements keep what was bound before.
THEOREM RecordsTell == Spec => []RecordTells
<1>1. RecordInv => RecordTells
  BY OneCounterOfRow DEF RecordInv, RecordTells
<1>2. QED
  BY <1>1, RecordInit, RecordNext, PTL DEF Spec
=============================================================================
