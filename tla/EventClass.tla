----------------------------- MODULE EventClass ------------------------------
(***************************************************************************)
(* Event classes, ereport.cpu.cache_ce and the like: which of them the esc *)
(* files name (libesc), which agents subscribe to them (agent_module_conf, *)
(* fmd_sub_matches) and what the dispatcher makes of an event of a class    *)
(* (event_disp_dest, fmd_case_insert).                                     *)
(*                                                                         *)
(* A class is the record of its parts.  A subscription ends in ".*" and    *)
(* matches every class that starts with the rest of it.                    *)
(***************************************************************************)
EXTENDS Naturals, FiniteSets

Class(top, dev, kind, sfx) == [top |-> top, dev |-> dev, kind |-> kind, sfx |-> sfx]
Ereport(dev, kind, sfx)    == Class("ereport", dev, kind, sfx)

\* The lines of fms_conf/escdir: the directive and the class.
Logged   == {"unclassified", "mrom_parity", "external", "frc", "internal_parity", "smm_hcav",
             "internal_timer", "internal_unclassified", "mem", "mc", "pcu", "bus", "unknown",
             "qpi"}
CpuLine  == {<<"event", Ereport("cpu", k, s)>> : k \in Logged, s \in {"_ce", "_ue"}}
              \cup {<<"event", Ereport("cpu", k, "")>> : k \in {"tmp_high", "tmp_low"}}
              \cup {<<"engine", Ereport("cpu", k, s)>> : k \in {"cache", "tlb"}, s \in {"_ce", "_ue"}}
              \cup {<<"engine", Ereport("cpu", "mempage", "")>>}
DiskLine == {<<"event", Ereport("disk", "unhealthy", "")>>}
              \cup {<<"fault", Ereport("disk", k, "")>> :
                      k \in {"space-insufficient", "over-temperature", "badblocks"}}
              \cup {<<"engine", Ereport("disk", k, "")>> : k \in {"read_error", "write_error"}}

\* esc_parsefile puts every line on the list of its directive.
List(directive) == {l[2] : l \in {k \in CpuLine \cup DiskLine : k[1] = directive}}

\* fmd_case_insert: the lists of faults and of engines decide the type of an
\* event, the second over the first; what is on neither is only reported.
EventType(c) ==
  CASE c \in List("engine") -> "EVENT_SERD"
    [] c \notin List("engine") /\ c \in List("fault") -> "EVENT_FAULT"
    [] OTHER -> "EVENT_REPORT"

\* event_disp_dest: everything else is lost.
Accepted(c) == c.top = "ereport"

-----------------------------------------------------------------------------
\* The subscribe lines of the agents (the inject agent has no fmd_module_init
\* and is never loaded, the trace agent asks for classes nobody posts).
Subscribed ==
  [cpumem |-> {<<"cpu", k>> : k \in Logged \cup {"tmp", "cache", "tlb", "mempage", "internal"}},
   disk   |-> {<<"disk", k>> : k \in {"unhealthy", "space-insufficient", "over-temperature",
                                       "badblocks", "read_error", "write_error"}}]

\* The kinds that start with a word that is subscribed to.
Longer == {<<"mempage", "mem">>, <<"tmp_high", "tmp">>, <<"tmp_low", "tmp">>,
           <<"internal_parity", "internal">>, <<"internal_timer", "internal">>,
           <<"internal_unclassified", "internal">>}

\* fmd_sub_matches and put_to_agents.
Matches(c, sub) == c.dev = sub[1] /\ (c.kind = sub[2] \/ <<c.kind, sub[2]>> \in Longer)
Takers(c) == {a \in DOMAIN Subscribed : \E sub \in Subscribed[a] : Matches(c, sub)}

\* cmea_evt_processing and handle_disk_fault_event: the faults an agent has
\* something to do about.
Handled ==
  [cpumem |-> {"cache", "tlb", "qpi", "mempage"},
   disk   |-> {"over-temperature", "space-insufficient", "unhealthy"}]
=============================================================================
