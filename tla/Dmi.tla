-------------------------------- MODULE Dmi ----------------------------------
(***************************************************************************)
(* The SMBIOS tables as the cpumem source uses them (evtsrc/cpumem/dmi.c):  *)
(* which DIMM a physical address belongs to.                               *)
(*                                                                         *)
(* A table is a sequence of entries.  Ranges map addresses to the handle   *)
(* of a device, in kilobytes or, when start_addr is all ones, in bytes     *)
(* (wide); DIMMs have a size and a locator, which may be missing (0).      *)
(***************************************************************************)
EXTENDS Naturals, Sequences, FiniteSets, SequencesExt, FiniteSetsExt

Range64(e) == IF e.wide # <<>> THEN e.wide ELSE <<e.start * 1024, e.end * 1024 + 1023>>
First(e)   == Range64(e)[1]
Final(e)   == Range64(e)[2]

\* check_entry ends every walk at the first entry that is cut off.
Walked(table) == {i \in DOMAIN table : \A j \in 1..i : table[j].type # "truncated"}

\* dmi_collect: entries of a type that are long enough, no DIMM of size 0.
Collected(table, type) ==
  {i \in Walked(table) : /\ table[i].type = type /\ ~table[i].short
                         /\ type = "dimm" => table[i].size > 0}

\* cmp_range: -1, 0, 1 from the start of one range and the end of the other.
Before(a, b) == First(a) < Final(b)
After(a, b)  == First(a) > Final(b)

\* qsort: sorted where the comparison orders the ranges, any order where it
\* contradicts itself.
Sorted(table) ==
  LET found   == Collected(table, "range")
      n       == Cardinality(found)
      perms   == Bijection(1..n, found)
      ordered == {p \in perms : \A i, j \in 1..n : i < j =>
                    Before(table[p[i]], table[p[j]]) /\ After(table[p[j]], table[p[i]])}
  IN {[i \in 1..n |-> table[p[i]]] : p \in IF ordered = {} THEN perms ELSE ordered}

\* dmi_sanity_check: ranges that do not overlap, not just two of them for more
\* than two DIMMs, and locators that tell the DIMMs apart.
\* Mutant: only the starts of neighbouring ranges are compared.
NoOverlapStarts(r) == \A k \in 2..Len(r) : First(r[k]) >= First(r[k - 1])

NoOverlap(r) == \A k \in 2..Len(r) : First(r[k]) > Final(r[k - 1])

Locators(table, dimms) ==
  /\ \A i \in dimms : table[i].loc # 0
  /\ \A i, j \in dimms : i # j => table[i].loc # table[j].loc

SanityCheck(table, r) ==
  LET dimms == Collected(table, "dimm")
  IN /\ r # <<>>
     /\ NoOverlap(r)
     /\ ~(Len(r) = 2 /\ Cardinality(dimms) > 2)
     /\ Locators(table, dimms)

\* fill_handles: whether an entry has the handle.
HandleToEntry(table, h) == \E i \in Walked(table) : table[i].handle = h

\* dmi_find_addr and dmi_decodeaddr: the device of the first range around the
\* address, its last byte excepted, that names an entry of the table.
FindAddr(table, r, addr) ==
  LET hits == {i \in DOMAIN r : /\ First(r[i]) <= addr /\ addr < Final(r[i])
                                /\ HandleToEntry(table, r[i].dev)}
  IN {r[i].dev : i \in {k \in hits : \A l \in hits : k <= l}}
=============================================================================
