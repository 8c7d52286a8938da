------------------------------- MODULE FmdAdm -------------------------------
(***************************************************************************)
(* Administration: the fmadm tool (tools/fmsadm with lib/libadm/fmd_adm.c) *)
(* and the adm event source of the daemon (adm_probe in evtsrc.adm.c).     *)
(* Both use ONE message queue, "/fmadm", in both directions: whoever calls *)
(* mq_receive first gets the oldest message, be it a request or a reply.   *)
(* A client may take its own request, or another client's reply; the       *)
(* server may take its own reply.  The queue outlives both.                *)
(*                                                                         *)
(* A message is a record with an op: the requests "caselist", "modlist",   *)
(* "load", "unload" and "config" of the tool; the replies "cases" and      *)
(* "mods" with their sections, and "text", of which the readers tell apart *)
(* only whether it contains the word "failed".  A text that the server     *)
(* takes back grows, so it also carries how often it was echoed: its       *)
(* buffer has room for EchoMax echoes.  The command "update" of the server *)
(* is left out: no client sends it.                                        *)
(***************************************************************************)
EXTENDS Naturals, Sequences, FiniteSets, SequencesExt

CONSTANTS Client,     \* processes that run fmadm
          Module,     \* module names, adm_src.so excepted
          Event,      \* events of the cases, as the listing shows them
          Command,    \* commands the clients give: requests
          FAF_NUM,    \* events per page of a case list, 20 in the source
          MQ_MAX,     \* messages the queue holds, 10 by default
          EchoMax,    \* times " is illegal cmd " fits in malloc(128): 7 for an answer
          NONE,
          MaxKills,   \* bound: clients killed while they wait
          Inserts, Removes   \* whether the daemon adds or deletes events meanwhile

ASSUME AdmAssumption ==
  /\ FAF_NUM \in Nat \ {0} /\ MQ_MAX \in Nat \ {0} /\ MaxKills \in Nat /\ EchoMax \in Nat
  /\ Inserts \in BOOLEAN /\ Removes \in BOOLEAN
  /\ IsFiniteSet(Client)

VARIABLES mq,         \* the message queue
          held,       \* the message adm_probe is at, NONE between two probes
          down,       \* the daemon has crashed
          loaded,     \* fmd.fmd_module
          events,     \* the events of fmd.list_case in the order of the walk
          request,    \* per client: the request it waits on, or NONE
          nextpage,   \* per client: the page of a case list to ask for next, or NONE
          got,        \* per client: adm->cs_list
          base,       \* per client: the events there during the whole listing
          report,     \* per client: outcome of its last command, or NONE
          kills,      \* clients killed so far
          lost        \* messages destroyed so far, neither sent nor received

srvvars == <<held, down, loaded>>
clivars == <<request, nextpage, got, base, report>>
vars    == <<mq, held, down, loaded, events, request,
              nextpage, got, base, report, kills, lost>>

Init ==
  /\ mq = <<>> /\ held = NONE /\ down = FALSE
  /\ loaded \in SUBSET Module
  /\ events \in {s \in SeqOf(Event, Cardinality(Event)) : IsInjective(s)}
  /\ request = [c \in Client |-> NONE]
  /\ nextpage = [c \in Client |-> NONE]
  /\ got = [c \in Client |-> {}]
  /\ base = [c \in Client |-> {}]
  /\ report = [c \in Client |-> NONE]
  /\ kills = 0 /\ lost = 0

CaseList(num)      == [op |-> "caselist", num |-> num]
Text(failed, echo) == [op |-> "text", failed |-> failed, echo |-> echo]
Cases(page)        == [op |-> "cases", secs |-> page]
Mods(names)        == [op |-> "mods", secs |-> names]

\* What the tool sends and what the server sends; what a command ends with.
Request == [op : {"load", "unload"}, mod : Module] \cup [op : {"modlist", "config"}]
           \cup [op : {"caselist"}, num : Nat]
Reply   == [op : {"text"}, failed : BOOLEAN, echo : 0 .. EchoMax] \cup [op : {"cases"}, secs : Seq(Event)]
           \cup [op : {"mods"}, secs : SUBSET Module]
Message == Request \cup Reply
Outcome == [cmd : Request \cup {[op |-> "repaired"]}, ok : BOOLEAN, answer : Message \cup {NONE}]

ASSUME MessageAssumption ==
  /\ Command \subseteq Request \cup {[op |-> "repaired"]}
  /\ \A r \in Command : r.op = "caselist" => r = CaseList(0)
  /\ NONE \notin Message /\ NONE \notin Outcome /\ NONE \notin Nat

-----------------------------------------------------------------------------
(* The server: one adm_probe per signal of its timer.                      *)

\* mq_receive.
Receive ==
  /\ ~down /\ held = NONE
  /\ mq # <<>>
  /\ held' = Head(mq) /\ mq' = Tail(mq)
  /\ UNCHANGED <<down, loaded, events, clivars, kills, lost>>

\* Mutant: the page starts one event late.
PageLate(num) == SubSeq(events, num + 2, Min({num + FAF_NUM + 1, Len(events)}))

\* fmd_get_caselist: the events after the num-th, at most FAF_NUM.
Page(num) == SubSeq(events, num + 1, Min({num + FAF_NUM, Len(events)}))

\* mq_send of the reply; the probe ends.
Send(reply) ==
  /\ Len(mq) < MQ_MAX
  /\ mq' = Append(mq, reply)
  /\ held' = NONE

\* A case list: the reply.  Its header is the text of the request without the
\* arguments, so a reply that comes back makes atoi(NULL) end the daemon.
DoCaseList ==
  /\ held # NONE /\ held.op = "caselist"
  /\ Send(Cases(Page(held.num)))
  /\ UNCHANGED <<down, loaded, events, clivars, kills, lost>>

OwnCaseList ==
  /\ held # NONE /\ held.op = "cases"
  /\ held' = NONE /\ down' = TRUE /\ lost' = lost + 1
  /\ UNCHANGED <<mq, loaded, events, clivars, kills>>

\* A module list; a reply that comes back reads like the request.
DoModList ==
  /\ held # NONE /\ held.op \in {"modlist", "mods"}
  /\ Send(Mods(loaded))
  /\ UNCHANGED <<down, loaded, events, clivars, kills, lost>>

\* Mutant: a module that does not initialise is reported as loaded.
DoLoadLies ==
  /\ held # NONE /\ held.op = "load"
  /\ \/ /\ held.mod \notin loaded
        /\ loaded' = loaded \cup {held.mod}
     \/ UNCHANGED loaded
  /\ Send(Text(FALSE, 0))
  /\ UNCHANGED <<down, events, clivars, kills, lost>>

\* evt_load_module: refused when loaded already, and fmd_init_module may fail.
DoLoad ==
  /\ held # NONE /\ held.op = "load"
  /\ \/ /\ held.mod \notin loaded
        /\ loaded' = loaded \cup {held.mod}
        /\ Send(Text(FALSE, 0))
     \/ /\ UNCHANGED loaded
        /\ Send(Text(TRUE, 0))
  /\ UNCHANGED <<down, events, clivars, kills, lost>>

\* evt_unload_module.
DoUnload ==
  /\ held # NONE /\ held.op = "unload"
  /\ loaded' = loaded \ {held.mod}
  /\ Send(Text(held.mod \notin loaded, 0))
  /\ UNCHANGED <<down, events, clivars, kills, lost>>

\* The reply to anything else, a text reply included: "<it> is illegal cmd ".
\* The tool's "config" is such a message, the server's word for it is "update".
Illegal == held # NONE /\ held.op \in {"config", "text"}
Failed  == held.op = "text" /\ held.failed
Echo    == IF held.op = "text" THEN held.echo + 1 ELSE 1

\* Mutant: an unknown command is dropped without an answer.
DoIllegalSilent ==
  /\ Illegal
  /\ held' = NONE
  /\ UNCHANGED <<mq, down, loaded, events, clivars, kills, lost>>

\* sprintf into malloc(128).  Past its end the heap is overwritten: the text is
\* sent all the same, or the daemon dies with it, or mq_send refuses it as longer
\* than mq_msgsize.
DoIllegal ==
  /\ Illegal
  /\ \/ Echo <= EchoMax /\ Send(Text(Failed, Echo)) /\ UNCHANGED <<down, lost>>
     \/ Echo > EchoMax /\ Send(Text(Failed, EchoMax)) /\ UNCHANGED <<down, lost>>
     \/ /\ Echo > EchoMax
        /\ held' = NONE /\ lost' = lost + 1
        /\ down' \in BOOLEAN
        /\ UNCHANGED mq
  /\ UNCHANGED <<loaded, events, clivars, kills>>

\* Someone starts the daemon again: its memory is fresh, the queue is not.
Restart ==
  /\ down
  /\ down' = FALSE
  /\ loaded' \in SUBSET Module /\ events' = <<>>
  /\ base' = [c \in Client |-> {}]
  /\ UNCHANGED <<mq, held, request, nextpage, got, report, kills, lost>>

Handle == DoCaseList \/ OwnCaseList \/ DoModList \/ DoLoad \/ DoUnload \/ DoIllegal

(* The dispatcher and the sweep work on the cases between two requests.    *)

\* fmd_case_insert puts an event at the head of its case, wherever that is.
AddEvent ==
  /\ Inserts
  /\ \E e \in Event \ ToSet(events), i \in 1 .. Len(events) + 1 :
       events' = InsertAt(events, i, e)
  /\ UNCHANGED <<mq, srvvars, clivars, kills, lost>>

\* The sweep deletes one.
DropEvent ==
  /\ Removes
  /\ \E i \in DOMAIN events :
       /\ events' = RemoveAt(events, i)
       /\ base' = [c \in Client |-> base[c] \ {events[i]}]
  /\ UNCHANGED <<mq, srvvars, request, nextpage, got, report, kills, lost>>

-----------------------------------------------------------------------------
(* Client c: fmd_adm_get_list sends the command and receives a message.    *)

Ask(c, r) ==
  /\ Len(mq) < MQ_MAX
  /\ mq' = Append(mq, r)
  /\ request' = [request EXCEPT ![c] = r]

\* fmd_adm_open and the command's request.
Run(c, r) ==
  /\ request[c] = NONE /\ nextpage[c] = NONE
  /\ Ask(c, r)
  /\ got' = [got EXCEPT ![c] = {}]
  /\ base' = [base EXCEPT ![c] = ToSet(events)]
  /\ report' = [report EXCEPT ![c] = NONE]
  /\ UNCHANGED <<srvvars, nextpage, events, kills, lost>>

\* fmadm load, unload, modinfo, config -m and faulty -t happenning.  A path that
\* does not exist, a name that is no module's and the adm module are refused
\* before anything is sent: Module has none of them.
LoadModule(c, r)    == r.op = "load" /\ Run(c, r)
UnloadModule(c, r)  == r.op = "unload" /\ Run(c, r)
GetModuleInfo(c, r) == r.op = "modlist" /\ Run(c, r)
ConfigModule(c, r)  == r.op = "config" /\ Run(c, r)
CmdFaulty(c, r)     == r.op = "caselist" /\ Run(c, r)

\* faulty fails before it asks the daemon when the dictionary cannot be opened,
\* and with -t repaired always: it walks a database that it has not opened.
FaultyFails(c, r) ==
  /\ r.op \in {"caselist", "repaired"}
  /\ request[c] = NONE /\ nextpage[c] = NONE
  /\ report' = [report EXCEPT ![c] = [cmd |-> r, ok |-> FALSE, answer |-> NONE]]
  /\ got' = [got EXCEPT ![c] = {}]
  /\ UNCHANGED <<mq, srvvars, request, nextpage, base, events, kills, lost>>

Main(c, r) ==
  \/ LoadModule(c, r) \/ UnloadModule(c, r) \/ GetModuleInfo(c, r) \/ ConfigModule(c, r)
  \/ CmdFaulty(c, r) \/ FaultyFails(c, r)

\* fmd_adm_case_iter, after a full page and a second's sleep.
NextPage(c) ==
  /\ nextpage[c] # NONE
  /\ Ask(c, CaseList(nextpage[c]))
  /\ nextpage' = [nextpage EXCEPT ![c] = NONE]
  /\ UNCHANGED <<srvvars, events, got, base, report, kills, lost>>

\* The command of client c ends with this outcome.
Done(c, ok) ==
  /\ request' = [request EXCEPT ![c] = NONE]
  /\ report' = [report EXCEPT ![c] = [cmd |-> request[c], ok |-> ok, answer |-> Head(mq)]]

Answered(c, op) == request[c] # NONE /\ request[c].op = op /\ mq # <<>>

\* fmd_adm_load_module: a text with "LOAD:" in it is a request, one with
\* "failed" a refusal, and all else a success.
TakeLoad(c) ==
  /\ Answered(c, "load")
  /\ mq' = Tail(mq)
  /\ Done(c, /\ Head(mq).op \notin {"load", "unload"}
             /\ ~(Head(mq).op = "text" /\ Head(mq).failed))
  /\ UNCHANGED <<srvvars, events, nextpage, got, base, kills, lost>>

\* fmd_adm_unload_module and fmd_adm_config_module look for "UNLOAD:".
TakeText(c) ==
  /\ Answered(c, "unload") \/ Answered(c, "config")
  /\ mq' = Tail(mq)
  /\ Done(c, /\ Head(mq).op # "unload"
             /\ ~(Head(mq).op = "text" /\ Head(mq).failed))
  /\ UNCHANGED <<srvvars, events, nextpage, got, base, kills, lost>>

\* fmd_adm_mod_iter: a message without sections is an error.
TakeMods(c) ==
  /\ Answered(c, "modlist")
  /\ mq' = Tail(mq)
  /\ Done(c, \/ Head(mq).op = "mods" /\ Head(mq).secs # {}
             \/ Head(mq).op = "cases" /\ Head(mq).secs # <<>>)
  /\ UNCHANGED <<srvvars, events, nextpage, got, base, kills, lost>>

\* fmd_adm_case_iter: a page without events is an error, a full page is
\* followed by the request for the next one, any other is the last.
TakeCases(c) ==
  /\ Answered(c, "caselist")
  /\ mq' = Tail(mq)
  /\ LET m    == Head(mq)
         page == IF m.op = "cases" THEN m.secs ELSE <<>>
     IN /\ got' = [got EXCEPT ![c] = @ \cup ToSet(page)]
        /\ \/ /\ Len(page) = FAF_NUM
              /\ request' = [request EXCEPT ![c] = NONE]
              /\ nextpage' = [nextpage EXCEPT ![c] = request[c].num + FAF_NUM]
              /\ UNCHANGED report
           \/ /\ Len(page) # FAF_NUM
              /\ Done(c, page # <<>> \/ (m.op = "mods" /\ m.secs # {}))
              /\ UNCHANGED nextpage
  /\ UNCHANGED <<srvvars, events, base, kills, lost>>

Take(c) == TakeLoad(c) \/ TakeText(c) \/ TakeMods(c) \/ TakeCases(c)

\* A client is killed while it waits: its message stays.
Kill(c) ==
  /\ request[c] # NONE
  /\ kills < MaxKills /\ kills' = kills + 1
  /\ request' = [request EXCEPT ![c] = NONE]
  /\ UNCHANGED <<mq, srvvars, events, nextpage, got, base, report, lost>>

-----------------------------------------------------------------------------
Next ==
  \/ Receive \/ Handle \/ Restart \/ AddEvent \/ DropEvent
  \/ \E c \in Client : (\E r \in Command : Main(c, r)) \/ NextPage(c) \/ Take(c) \/ Kill(c)

Spec == Init /\ [][Next]_vars

(***************************************************************************)
(* Fairness.  The timer of the adm source fires every interval, so the     *)
(* server receives and answers (weak fairness); a process blocked in       *)
(* mq_receive or mq_send gets its turn if it may go on again and again     *)
(* (strong fairness: the kernel serves the waiters in order).              *)
(***************************************************************************)
Fairness ==
  /\ WF_vars(Receive) /\ SF_vars(Handle)
  /\ \A c \in Client : SF_vars(Take(c))

FairSpec == Spec /\ Fairness

-----------------------------------------------------------------------------
(* Properties.                                                             *)

\* Every variable has its type; the queue never holds more than MQ_MAX messages.
TypeOK ==
  /\ mq \in Seq(Message) /\ Len(mq) <= MQ_MAX
  /\ held \in Message \cup {NONE} /\ down \in BOOLEAN
  /\ loaded \subseteq Module /\ events \in Seq(Event)
  /\ request \in [Client -> Request \cup {NONE}]
  /\ nextpage \in [Client -> Nat \cup {NONE}]
  /\ got \in [Client -> SUBSET Event] /\ base \in [Client -> SUBSET Event]
  /\ report \in [Client -> Outcome \cup {NONE}]
  /\ kills \in 0 .. MaxKills /\ lost \in Nat

Waiting == {c \in Client : request[c] # NONE}
Reported(c, op) == report[c] # NONE /\ report[c].cmd.op = op /\ report[c].ok

\* There is a message for everyone who waits: in the queue or in the hands of
\* the server, whoever takes whose answer.  It is short only by those messages
\* that the server destroyed, and the ones that killed clients left make up for
\* as many.
NobodyStranded ==
  lost <= kills => Cardinality(Waiting) <= Len(mq) + IF held = NONE THEN 0 ELSE 1

\* Every request ends, also when clients cross each other's answers, a killed
\* client leaves its own behind and the server answers that again and again;
\* unless more messages were destroyed than were left behind.
RequestsEnd == \A c \in Client : request[c] # NONE ~> request[c] = NONE \/ lost > kills

\* The server blocks in mq_send and nobody is left to receive.
Jammed == held # NONE /\ Len(mq) = MQ_MAX /\ Waiting = {}

\* What a lone client reports is so: a module reported as loaded is loaded, one
\* reported as unloaded is not, and a module list names the modules; also when
\* the client or the server has taken its own message.
LoneClientTruth ==
  \A c \in Client :
    /\ Reported(c, "load") => report[c].cmd.mod \in loaded
    /\ Reported(c, "unload") => report[c].cmd.mod \notin loaded
    /\ Reported(c, "modlist") => report[c].answer = Mods(loaded)

\* What get_cases_from_fmd hands to the printing: all that was got, unless the
\* tool has died.
Shown(c) == IF Reported(c, "caselist") THEN got[c] ELSE {}

\* "show faulty summary for each faulty event": a listing that succeeds shows
\* every event that was there from its first page to its last.
NoneMissed ==
  \A c \in Client : Reported(c, "caselist") => base[c] \subseteq Shown(c)
=============================================================================
