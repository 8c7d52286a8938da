----------------------------- MODULE MCSources -------------------------------
EXTENDS Sources

Entry(type, handle, start, end, dev, loc) ==
  [type |-> type, handle |-> handle, short |-> FALSE, start |-> start, end |-> end,
   wide |-> <<>>, dev |-> dev, size |-> 1, loc |-> loc]
Dimm(handle, loc)            == Entry("dimm", handle, 0, 0, 0, loc)
MapRange(handle, start, end, dev) == Entry("range", handle, start, end, dev, 0)

\* Two DIMMs one after the other, listed the other way round; a DIMM that is not
\* plugged, and an entry that is too short.
Apart   == <<Dimm(1, 1), Dimm(2, 2), MapRange(3, 8, 15, 2), MapRange(4, 0, 7, 1),
             [Dimm(5, 3) EXCEPT !.size = 0], [MapRange(6, 0, 15, 2) EXCEPT !.short = TRUE]>>
\* Ranges that overlap, one given in bytes, one that holds another, interleaved
\* ones, and a table that is cut off or has a locator twice.
Overlap == <<Dimm(1, 1), Dimm(2, 2), MapRange(3, 0, 9, 1), MapRange(4, 8, 15, 2)>>
Wide    == <<Dimm(1, 1), Dimm(2, 2), [MapRange(3, 0, 0, 1) EXCEPT !.wide = <<0, 8191>>],
             [MapRange(4, 0, 0, 2) EXCEPT !.wide = <<8192, 16383>>]>>
Inside  == <<Dimm(1, 1), Dimm(2, 2), MapRange(3, 0, 15, 1), MapRange(4, 4, 7, 2)>>
Three   == <<Dimm(1, 1), Dimm(2, 2), Dimm(3, 3), MapRange(4, 0, 7, 1), MapRange(5, 8, 15, 2)>>
Cut     == <<Dimm(1, 1), MapRange(3, 0, 7, 1), [Dimm(9, 1) EXCEPT !.type = "truncated"],
             MapRange(4, 4, 15, 2)>>
Twice   == <<Dimm(1, 1), Dimm(2, 1), MapRange(3, 0, 7, 1), MapRange(4, 8, 15, 2)>>
NoEntry == <<MapRange(3, 0, 7, 7), Dimm(2, 2), MapRange(4, 8, 15, 2)>>

Record(bank, cpu, mca, cpuid) ==
  [bank |-> bank, cpu |-> cpu, mca |-> mca, bits |-> {}, uc |-> FALSE, addrv |-> FALSE,
   track |-> 0, tes |-> FALSE, addr |-> 0, cpuid |-> cpuid, vendor |-> "Intel"]
At(r, a) == [r EXCEPT !.addr = a, !.addrv = TRUE]
Hard(r)  == [r EXCEPT !.uc = TRUE]

Hsw == 198386   \* 0x306F2, Haswell EP
Snb == 132823   \* 0x206D7, Sandy Bridge EP
Tul == 3940     \* 0xF64, Tulsa
K8  == 3952     \* 0xF70
Amd == 6295328  \* 0x600F20, family 21

Plain == [vendor |-> "Intel", cpuid |-> Snb, parsed |-> TRUE, table |-> <<>>, record |-> {},
          checks |-> 0, df |-> <<>>, interval |-> {}, inject |-> {}]

\* Every form of an error code, of two CPUs where that matters, with and
\* without bit 12.
Codes == {0, 1, 4, 12, 13, 17, 22, 256 + 9, 256 + 10, 256 + 14, 1024, 1025, 2048 + 5,
          4096 + 256 + 10}
SnbMachine ==
  [Plain EXCEPT !.record = {Record(1, c, m, Snb) : c \in {0, 1}, m \in Codes}
                             \cup {Hard(Record(1, 0, 256 + 9, Snb)), Record(1, 0, 7, Snb),
                                   [Record(1, 0, 256 + 9, Snb) EXCEPT !.tes = TRUE, !.track = 2],
                                   Record(ThermalBank, 1, 0, Snb), Record(ThermalBank, 1, 1, Snb)},
                !.checks = 2]
HswMachine ==
  [Plain EXCEPT !.cpuid = Hsw,
                !.record = {Record(4, 0, 0, Hsw), Record(4, 0, 1026, 0),
                            [Record(5, 0, 0, Hsw) EXCEPT !.bits = {16, 20}],
                            Hard([Record(20, 1, 2048, Hsw) EXCEPT !.bits = {30}]),
                            [Record(9, 1, 0, Hsw) EXCEPT !.bits = {16, 17}],
                            At(Record(9, 1, 128 + 1, Hsw), 5000), Hard(Record(9, 1, 128, Hsw)), At(Record(9, 0, 128, Hsw), Word + 5000),
                            Record(6, 1, 256 + 6, Hsw)},
                !.checks = 3]
OldMachine == [Plain EXCEPT !.cpuid = Tul, !.record = {Record(1, 0, 256 + 9, k) : k \in {0, Tul}},
                            !.checks = 3]
Unparsed   == [OldMachine EXCEPT !.parsed = FALSE]
AmdMachine == [Plain EXCEPT !.vendor = "AMD", !.cpuid = Amd, !.checks = 1,
                 !.record = {[Record(1, 0, 256 + 9, Amd) EXCEPT !.vendor = "AMD"]}]
K8Machine  == [AmdMachine EXCEPT !.cpuid = K8,
                 !.record = {[Record(1, 0, 256 + 9, K8) EXCEPT !.vendor = "AMD"]}]

\* Addresses at the ends of the ranges, in both of two and in none.
Memory(table) ==
  [Plain EXCEPT !.table = table, !.checks = 1,
                !.record = {At(Record(9, 0, 128, Snb), a) :
                              a \in {0, 5000, 8191, 8192, 9000, 12000, 16383, 20000}}]

Part(disk, part, full) == [disk |-> disk, part |-> part, own |-> FALSE, full |-> full, boot |-> FALSE, long |-> FALSE]
Own(disk, part, full)  == [Part(disk, part, full) EXCEPT !.own = TRUE]
Disks ==
  {<<[Part("a", 1, TRUE) EXCEPT !.boot = TRUE], Part("a", 2, TRUE), Part("a", 3, FALSE), Part("b", 0, FALSE)>>,
   <<Part("a", 1, FALSE), Part("a", 2, TRUE), [Part("m", 0, TRUE) EXCEPT !.long = TRUE]>>,
   <<Part("a", 10, TRUE), Part("a", 1, FALSE), Part("a", 11, FALSE)>>,
   <<Part("a", 1, TRUE), Own("m", 0, TRUE), Part("b", 0, TRUE)>>,
   <<Own("m", 0, FALSE), Own("m", 1, TRUE), Own("m", 12, TRUE)>>}

Edited(args) == [Plain EXCEPT !.interval = args]

MCMachine == {SnbMachine, HswMachine, OldMachine, Unparsed, AmdMachine, K8Machine,
              Edited({-1, 0, 2, 5}), Edited({2, Word, Word - 4})}
             \cup {Memory(t) : t \in {Apart, Overlap, Wide, Inside, Three, Cut, Twice, NoEntry}}
             \cup {[Plain EXCEPT !.df = d] : d \in Disks}
             \cup {[Plain EXCEPT !.inject = {"unhealthy", "space-insufficient", "read_error"}]}
=============================================================================
