-------------------------------- MODULE Mce ----------------------------------
(***************************************************************************)
(* Decoding of a machine check record (evtsrc/cpumem: cpumem_evtsrc, p4,    *)
(* haswell, intel, bitfield, evtlib/cpumem.c): from the banks' registers to *)
(* the events that are posted.                                             *)
(*                                                                         *)
(* A record holds its bank and CPU; of the status register the error code  *)
(* mca (16 bits), the set bits of the bits 16 to 31 and the flags UC,      *)
(* ADDRV and the tracking field; the address; and the cpuid, 0 when an old *)
(* kernel does not tell.  Descriptions are left out.                       *)
(***************************************************************************)
EXTENDS Naturals, Sequences, SequencesExt, EvRecord, Dmi

-----------------------------------------------------------------------------
(* The type of the CPU.                                                    *)

Field(v, low, width) == (v \div 2^low) % 2^width

\* Mutant: the extended model is forgotten.
ParseCpuidShort(cpuid) == [family |-> Field(cpuid, 8, 4), model |-> Field(cpuid, 4, 4)]

ParseCpuid(cpuid) ==
  LET base == Field(cpuid, 8, 4)
      fam  == IF base = 15 THEN base + Field(cpuid, 20, 8) ELSE base
  IN [family |-> fam,
      model  |-> Field(cpuid, 4, 4)
                   + IF fam \in {6, 15} THEN 16 * Field(cpuid, 16, 4) ELSE 0]

\* What /proc/cpuinfo says for the same cpuid.
CpuInfo(cpuid) ==
  LET base == Field(cpuid, 8, 4)
  IN [family |-> IF base = 15 THEN base + Field(cpuid, 20, 8) ELSE base,
      model  |-> Field(cpuid, 4, 4) + IF base >= 6 THEN 16 * Field(cpuid, 16, 4) ELSE 0]

\* select_intel_cputype, the models decoded alike under one name.
Atom   == {28, 38, 39, 53, 54, 55, 74, 76, 77, 90, 93}
SelectIntel(c) ==
  CASE c.family = 15                        -> IF c.model = 6 THEN "TULSA" ELSE "P4"
    [] c.family = 6 /\ c.model < 15         -> "P6OLD"
    [] c.family = 6 /\ c.model \in {15, 23} -> "CORE2"
    [] c.family = 6 /\ c.model = 29         -> "DUNNINGTON"
    [] c.family = 6 /\ c.model \in {26, 30, 37, 44} -> "NEHALEM"
    [] c.family = 6 /\ c.model \in {46, 47} -> "XEON75XX"
    [] c.family = 6 /\ c.model \in {42, 45} -> "SANDY_BRIDGE"
    [] c.family = 6 /\ c.model \in {58, 62} -> "IVY_BRIDGE"
    [] c.family = 6 /\ c.model \in {60, 69, 70} -> "HASWELL"
    [] c.family = 6 /\ c.model = 63         -> "HASWELL_EPEX"
    [] c.family = 6 /\ c.model \in {61, 79, 86} -> "BROADWELL"
    [] c.family = 6 /\ c.model = 87         -> "KNIGHTS_LANDING"
    [] c.family = 6 /\ c.model \in Atom     -> "ATOM"
    [] c.family > 6 /\ c.family # 15        -> "INTEL"
    [] OTHER -> IF c.family = 6 THEN IF c.model > 26 THEN "INTEL" ELSE "P6OLD" ELSE "GENERIC"

IntelCpus == {"P6OLD", "CORE2", "NEHALEM", "DUNNINGTON", "TULSA", "P4", "INTEL", "XEON75XX",
              "SANDY_BRIDGE", "IVY_BRIDGE", "HASWELL", "HASWELL_EPEX", "BROADWELL",
              "KNIGHTS_LANDING"}

\* setup_cpuid and mce_cpuid: a record that tells its cpuid sets the type.
SetupCpuid(vendor, cpuid) ==
  IF vendor = "Intel" THEN SelectIntel(ParseCpuid(cpuid)) ELSE "GENERIC"
McePrepare(cputype, r) == IF r.cpuid = 0 THEN cputype ELSE SetupCpuid(r.vendor, r.cpuid)

-----------------------------------------------------------------------------
(* The messages of a record.                                               *)

\* struct mc_msg as memset leaves it; NoMnemonic is a null pointer.
NoMnemonic == "null"
Message(name, kind, sfx) ==
  [name |-> name, kind |-> kind, sfx |-> sfx, id |-> 0, clevel |-> 0, ctype |-> 0, page |-> FALSE]

\* FMS_MCI_STATUS_UC.
Suffix(r) == IF r.uc THEN "_uc" ELSE "_ce"
OfCpu(r, kind) == Message("cpu", kind, Suffix(r))

\* fms_decode_base_mca.
BaseMca == <<"unclassified", "mrom_parity", "external", "frc", "internal_parity", "smm_hcav">>

LL(mca) == mca % 4
TT(mca) == Field(mca, 2, 2)
TestPrefix(nr, mca) == mca \div 2^nr = 1

\* Mutant: the type of the cache is not part of the id.
CacheMsgLevel(r, kind, mca) ==
  [OfCpu(r, kind) EXCEPT !.clevel = LL(mca), !.ctype = TT(mca), !.id = LL(mca)]

\* The cache and TLB branches of decode_mca.
CacheMsg(r, kind, mca) ==
  [OfCpu(r, kind) EXCEPT !.clevel = LL(mca), !.ctype = TT(mca), !.id = mca % 16]

\* Mutant: the branch as it was before, with a mnemonic of its own.
GenericCacheOwn(r, mca) ==
  [OfCpu(r, "gcache_hierarchy") EXCEPT !.clevel = LL(mca), !.ctype = 4, !.id = 12 + LL(mca)]

\* Level known, type unknown: -1 in the code, 4 here.
GenericCache(r, mca) ==
  [OfCpu(r, "cache") EXCEPT !.clevel = LL(mca), !.ctype = 4, !.id = 12 + LL(mca)]

\* decode_memory_controller: a corrected error with an address is one of a page.
MemoryController(r) ==
  IF r.addrv /\ ~r.uc THEN [Message("memory", "mempage", "") EXCEPT !.page = TRUE]
  ELSE Message("memory", "mem", Suffix(r))

\* decode_mca.  Bit 12 only says that other errors are filtered.  A code of no
\* known form is counted as a message that nothing was written to.
DecodeMca(r) ==
  LET mca == r.mca - 4096 * Field(r.mca, 12, 1)
  IN CASE mca = 0             -> <<>>
       [] mca \in 1..6        -> <<OfCpu(r, BaseMca[mca])>>
       [] mca \in 12..15      -> <<GenericCache(r, mca)>>
       [] TestPrefix(4, mca)  -> <<CacheMsg(r, "tlb", mca)>>
       [] TestPrefix(8, mca)  -> <<CacheMsg(r, "cache", mca)>>
       [] TestPrefix(10, mca) -> <<OfCpu(r, IF mca = 1024 THEN "internal_timer"
                                              ELSE "internal_unclassified")>>
       [] TestPrefix(11, mca) -> <<[OfCpu(r, "bus") EXCEPT !.id = LL(mca)]>>
       [] TestPrefix(7, mca)  -> <<MemoryController(r)>>
       [] OTHER               -> <<Message("", NoMnemonic, "")>>

\* The bits of a field, and whether its table has a text for the value 0: of the
\* power unit it has ("no error"); of the memory controllers every bit is a field.
PcuMc4     == <<[bits |-> 24..31, zero |-> TRUE]>>
QpiMc      == <<[bits |-> 16..21, zero |-> FALSE]>>
MemctrlMc9 == [i \in 1..10 |-> [bits |-> {15 + i}, zero |-> FALSE]]

\* decode_bitfield: a message for every field but those of value 0 without text.
DecodeBitfield(r, fields, kind) ==
  LET told == {k \in DOMAIN fields : fields[k].zero \/ r.bits \cap fields[k].bits # {}}
  IN [i \in 1..Cardinality(told) |-> OfCpu(r, kind)]

HswDecodeModel(r) ==
  CASE r.bank = 4              -> DecodeBitfield(r, PcuMc4, "pcu")
    [] r.bank \in {5, 20, 21}  -> DecodeBitfield(r, QpiMc, "qpi")
    [] r.bank \in 9..16        -> DecodeBitfield(r, MemctrlMc9, "mc")
    [] OTHER                   -> <<>>

ThermalBank == 128
DecodeThermal(r) ==
  IF r.mca % 2 = 1 THEN <<[Message("cpu", "tmp_high", "") EXCEPT !.id = 1]>>
  ELSE <<Message("cpu", "tmp_low", "")>>

DecodeIntelMc(cputype, r) ==
  IF r.bank = ThermalBank THEN DecodeThermal(r)
  ELSE (IF cputype = "HASWELL_EPEX" THEN HswDecodeModel(r) ELSE <<>>) \o DecodeMca(r)

Messages(cputype, r) == IF cputype \in IntelCpus THEN DecodeIntelMc(cputype, r) ELSE <<>>

-----------------------------------------------------------------------------
(* The events of a record.                                                 *)

\* The event of one message of dump_mce and cpumem_fm_event_post: the id is the
\* page, or the CPU and the id of the message.  A cache whose corrected errors
\* have reached the hardware's own threshold (yellow) is reported as a fault.
Yellow(r) == r.tes /\ ~r.uc /\ r.track = 2
EventOf(r, m, memdev) ==
  [name   |-> <<m.name, 0>>,
   dev_id |-> IF m.name = "cpu" THEN r.cpu ELSE 0,
   evt_id |-> IF m.page THEN r.addr - (r.addr % 4096) ELSE m.id + r.cpu * Word,
   class  |-> Class(IF Yellow(r) THEN "fault" ELSE "ereport", "cpu", m.kind, m.sfx),
   cpu    |-> r.cpu, addr |-> r.addr, memdev |-> memdev,
   clevel |-> m.clevel, ctype |-> m.ctype]

\* dump_mce.  Copying a mnemonic that is null ends the daemon.
Fatal(msgs) == \E i \in DOMAIN msgs : msgs[i].kind = NoMnemonic
DumpMce(cputype, r, memdev) ==
  LET msgs == Messages(cputype, r)
  IN [i \in DOMAIN msgs |-> EventOf(r, msgs[i], memdev)]
=============================================================================
