--------------------------- MODULE MCCpumemAgent ----------------------------
(***************************************************************************)
(* CpumemAgent for TLC: three CPUs, of which 1 and 2 share a second level  *)
(* cache, and one fault of each sort, one of them in a cache the table     *)
(* does not list.                                                          *)
(***************************************************************************)
EXTENDS CpumemAgent, TLC

MCKinds  == <<"L1", "L2">>
MCShares == [c \in Cpu |-> "L1" :> {c} @@ "L2" :> IF c = 0 THEN {0} ELSE {1, 2}]

F(type, action, c, kind, page) ==
  [type |-> type, action |-> action, cpu |-> c, kind |-> kind, page |-> page,
   page_error |-> TRUE, mode |-> "auto"]

MCFault == {F("cache", 1, 2, "L2", None), F("cache", 2, 2, "L2", None), F("tlb", 2, 1, "L2", None),
            F("cache", 2, 2, "L3", None), F("qpi", 2, 0, "L1", None), F("bus", 2, 2, "L1", None)}
           \cup {F("mempage", 0, 1, "L1", p) : p \in Page}
           \cup {[F("cache", 2, 2, "L2", None) EXCEPT !.mode = "manual"]}

=============================================================================
