--------------------------------- MODULE Kfm --------------------------------
(***************************************************************************)
(* The kernel helper of the cpumem agent (evtlib/kfm/kfm): a generic       *)
(* netlink family that flushes, disables and enables CPU caches and reads  *)
(* page flags, and a thread that will post events one day and until then   *)
(* keeps the module in the kernel.  Its users are the agent, through       *)
(* libkfm_cpumem, and the tool kfmadm.                                     *)
(*                                                                         *)
(* A request runs under __kfm_mutex; the answer about a cache goes through *)
(* the global g_cache_status, filled in by a call on the CPU in question.  *)
(* CPUs come and go (hotplug) whenever they like, CPU 0 excepted.          *)
(***************************************************************************)
EXTENDS Naturals, FiniteSets

CONSTANTS Cpu,       \* CPU numbers; 0 has no "online" file
          Page,      \* page frames
          Hole,      \* those of them without a struct page
          Tool,      \* invocations of kfmadm
          Agent,     \* the cpumem agent as a client
          Writer,    \* processes that write /proc/sys/fm/unload
          None,
          MaxBusy    \* bound: how many of the agent, the tools and the writers work at a time

ASSUME KfmAssumption ==
  /\ 0 \in Cpu /\ Hole \subseteq Page /\ Agent \notin Tool /\ None \notin Tool \cup {Agent}
  /\ Writer \cap (Tool \cup {Agent}) = {}

Client == Tool \cup {Agent}

VARIABLES online,          \* CPUs online
          cd,              \* CPUs whose CR0.CD is set: caches disabled
          bad,             \* CPUs whose cache holds lines from before their last cache fault
          poisoned,        \* pages with PG_hwpoison
          mutex,           \* holder of __kfm_mutex, or None
          g_cache_status,  \* the global answer
          req,             \* per client: its request
          loaded,          \* the module is in the kernel
          thread,          \* where the post thread is
          post_task, g_post_event, should_stop, sysctl_kfm_unload,
          unloader,        \* per writer: where in kfm_sysctl_unload_handler it is
          busy             \* who is at work

cpus   == <<online, cd, bad, poisoned>>
nl     == <<mutex, g_cache_status, req>>
module == <<loaded, thread, post_task, g_post_event, should_stop, sysctl_kfm_unload, unloader>>
kvars  == <<cpus, nl, module, busy>>

Idle == [pc |-> "idle", cmd |-> "none", arg |-> None, status |-> FALSE, truth |-> FALSE]

KfmInit ==
  /\ online = Cpu /\ cd = {} /\ bad = {} /\ poisoned = {}
  /\ mutex = None /\ g_cache_status = FALSE
  /\ req = [c \in Client |-> Idle]
  /\ loaded = TRUE /\ thread = "new" /\ post_task = TRUE
  /\ g_post_event = FALSE /\ should_stop = FALSE /\ sysctl_kfm_unload = FALSE
  /\ unloader = [w \in Writer |-> "idle"]
  /\ busy = {}

Begin(who) == Cardinality(busy) < MaxBusy /\ who \notin busy /\ busy' = busy \cup {who}
Leave(who) == busy' = busy \ {who}

----------------------------------------------------------------------------
\* CPU hotplug by an administrator.  A CPU that goes down writes its cache
\* back, and one that comes up starts with its caches on.
Unplug(c) ==
  /\ c \in online \ {0}
  /\ online' = online \ {c}
  /\ bad' = bad \ {c}
  /\ UNCHANGED <<cd, poisoned, nl, module, busy>>

Plug(c) ==
  /\ c \in Cpu \ online
  /\ online' = online \cup {c}
  /\ cd' = cd \ {c}
  /\ UNCHANGED <<bad, poisoned, nl, module, busy>>

----------------------------------------------------------------------------
\* Requests

CacheCmd == {"flush", "disable", "enable"}
AllCmd   == {"flush_all", "disable_all", "enable_all"}
SetCmd   == CacheCmd \cup AllCmd \cup {"mempage_online"}

Step(c, s) == req' = [req EXCEPT ![c].pc = s]

\* kfm_nl_process_message up to the send: genl_ctrl_resolve finds the family
\* while the module is loaded; without it the call fails.
Send(c, cmd, arg) ==
  req' = [req EXCEPT ![c] = [Idle EXCEPT !.pc = IF loaded THEN "lock" ELSE "failed",
                                         !.cmd = cmd, !.arg = arg]]

\* Mutant: nobody takes the mutex the comment doubts ("need lock??").
LockNot(c) ==
  /\ req[c].pc = "lock"
  /\ mutex' = mutex
  /\ Step(c, "work")
  /\ UNCHANGED <<g_cache_status, cpus, module, busy>>

\* kfm_use_count_inc where it is called, then mutex_lock.
Lock(c) ==
  /\ req[c].pc = "lock"
  /\ mutex = None
  /\ mutex' = c
  /\ Step(c, "work")
  /\ UNCHANGED <<g_cache_status, cpus, module, busy>>

\* The operations of kfm_cache.c: a call on a CPU that is offline does nothing,
\* and nobody looks at its result.  Disabling writes the cache back too.
Reached(r) == IF r.cmd \in AllCmd THEN online ELSE {r.arg} \cap online

\* kfm_genl_set_cmd: kfm_mempage_online has an empty body.
Set(c) ==
  LET r == req[c]
  IN /\ r.pc = "work" /\ r.cmd \in SetCmd
     /\ bad' = IF r.cmd \in {"flush", "flush_all", "disable", "disable_all"}
               THEN bad \ Reached(r) ELSE bad
     /\ cd' = CASE r.cmd \in {"disable", "disable_all"} -> cd \cup Reached(r)
                [] r.cmd \in {"enable", "enable_all"}   -> cd \ Reached(r)
                [] OTHER                                -> cd
     /\ Step(c, "unlock")
     /\ UNCHANGED <<online, poisoned, mutex, g_cache_status, module, busy>>

\* kfm_genl_get_cmd for a cache: kfm_cache_status_on_cpu clears the global,
\* has the CPU fill it in, and reads it.
StatusClear(c) ==
  /\ req[c].pc = "work" /\ req[c].cmd = "get_cache"
  /\ g_cache_status' = FALSE
  /\ Step(c, "call")
  /\ UNCHANGED <<mutex, cpus, module, busy>>

StatusCall(c) ==
  /\ req[c].pc = "call"
  /\ IF req[c].arg \in online
     THEN /\ g_cache_status' = (req[c].arg \in cd)
          /\ req' = [req EXCEPT ![c].pc = "read", ![c].truth = (req[c].arg \in cd)]
          /\ UNCHANGED mutex
     ELSE /\ Step(c, "failed") /\ mutex' = None     \* out_err: no such CPU
          /\ UNCHANGED g_cache_status
  /\ UNCHANGED <<cpus, module, busy>>

StatusRead(c) ==
  /\ req[c].pc = "read"
  /\ req' = [req EXCEPT ![c].pc = "unlock", ![c].status = g_cache_status]
  /\ UNCHANGED <<mutex, g_cache_status, cpus, module, busy>>

\* kfm_genl_get_cmd for the version, and for a page: is it there, and is it poisoned
\* (kfm_stable_page_flags copies some twenty more bits nobody looks at).
Info(c) ==
  /\ req[c].pc = "work" /\ req[c].cmd \in {"get_info", "get_mempage"}
  /\ req' = [req EXCEPT ![c].pc = "unlock", ![c].status = (req[c].arg \in poisoned \ Hole)]
  /\ UNCHANGED <<mutex, g_cache_status, cpus, module, busy>>

Unlock(c) ==
  /\ req[c].pc = "unlock"
  /\ mutex' = None
  /\ Step(c, "done")
  /\ UNCHANGED <<g_cache_status, cpus, module, busy>>

Kernel(c) == Lock(c) \/ Set(c) \/ StatusClear(c) \/ StatusCall(c) \/ StatusRead(c)
             \/ Info(c) \/ Unlock(c)

----------------------------------------------------------------------------
\* kfmadm: which commands take a CPU and which a page (commands_v_options).
Command ==
  {<<cmd, c>> : cmd \in CacheCmd \cup {"get_cache"}, c \in Cpu}
    \cup {<<cmd, None>> : cmd \in AllCmd}
    \cup {<<cmd, p>> : cmd \in {"get_mempage", "mempage_online"}, p \in Page}

\* It asks for the module's version ...
Kfmadm(t) ==
  /\ Begin(t)
  /\ req[t] = Idle
  /\ Send(t, "get_info", None)
  /\ UNCHANGED <<mutex, g_cache_status, cpus, module>>

\* ... when that fails it has the module loaded, kfm_init registers the
\* family and creates the thread, and it asks once more ...
Modprobe(t) ==
  /\ req[t].pc = "failed" /\ req[t].cmd = "get_info" /\ req[t].arg = None
  /\ loaded' = TRUE
  /\ req' = [req EXCEPT ![t] = [Idle EXCEPT !.pc = "lock", !.cmd = "get_info", !.arg = t]]
  /\ IF loaded THEN UNCHANGED <<thread, post_task, g_post_event, should_stop, sysctl_kfm_unload>>
     ELSE /\ thread' = "new" /\ post_task' = TRUE
          /\ g_post_event' = FALSE /\ should_stop' = FALSE /\ sysctl_kfm_unload' = FALSE
  /\ UNCHANGED <<mutex, g_cache_status, cpus, unloader, busy>>

\* ... and then it sends its command.
KfmadmCommand(t) ==
  /\ req[t].pc = "done" /\ req[t].cmd = "get_info"
  /\ \E command \in Command : Send(t, command[1], command[2])
  /\ UNCHANGED <<mutex, g_cache_status, cpus, module, busy>>

\* list_cache_info for all CPUs: the next one /proc/cpuinfo lists.
KfmadmNextCpu(t) ==
  /\ req[t].pc = "done" /\ req[t].cmd = "get_cache"
  /\ \E c \in online : c > req[t].arg /\ Send(t, "get_cache", c)
  /\ UNCHANGED <<mutex, g_cache_status, cpus, module, busy>>

\* It prints the answer, or the error, and exits.
KfmadmExit(t) ==
  /\ req[t].pc \in {"done", "failed"}
  /\ req[t].cmd # "get_info"
  /\ Leave(t)
  /\ req' = [req EXCEPT ![t] = Idle]
  /\ UNCHANGED <<mutex, g_cache_status, cpus, module>>

----------------------------------------------------------------------------
\* The post thread and the way out.

\* It counts itself as a user of the module first; a thread that is told to
\* stop before it has run never does.
ThreadStart ==
  /\ thread = "new" /\ ~should_stop
  /\ thread' = "loop"
  /\ UNCHANGED <<cpus, nl, loaded, post_task, g_post_event, should_stop,
                 sysctl_kfm_unload, unloader, busy>>

\* The head of the loop of kfm_post_evt_thread, then wait_event_interruptible,
\* which sleeps only while g_post_event is unset; all signals but SIGKILL and
\* SIGSTOP are blocked and a kernel thread ignores those.
ThreadLoop ==
  /\ thread = "loop"
  /\ thread' = IF should_stop \/ sysctl_kfm_unload THEN "exit"
               ELSE IF g_post_event THEN "loop" ELSE "wait"
  /\ UNCHANGED <<cpus, nl, loaded, post_task, g_post_event, should_stop,
                 sysctl_kfm_unload, unloader, busy>>

\* kthread_stop wakes it up; it goes on if the condition holds by then.
ThreadWake ==
  /\ thread = "wait" /\ should_stop /\ g_post_event
  /\ thread' = "loop"
  /\ UNCHANGED <<cpus, nl, loaded, post_task, g_post_event, should_stop,
                 sysctl_kfm_unload, unloader, busy>>

ThreadExit ==
  /\ thread = "exit"
  /\ thread' = "gone" /\ post_task' = FALSE
  /\ UNCHANGED <<cpus, nl, loaded, g_post_event, should_stop, sysctl_kfm_unload, unloader, busy>>

\* Writer w writes v to /proc/sys/fm/unload: proc_dointvec.  (A read comes down
\* to writing the value that is there.)
WriteUnload(w, v) ==
  /\ loaded /\ unloader[w] = "idle"
  /\ Begin(w)
  /\ sysctl_kfm_unload' = v
  /\ unloader' = [unloader EXCEPT ![w] = "written"]
  /\ UNCHANGED <<cpus, nl, loaded, thread, post_task, g_post_event, should_stop>>

\* Writer w goes on to s, and is back in user space when that is "idle".
Goes(w, s) ==
  /\ unloader' = [unloader EXCEPT ![w] = s]
  /\ IF s = "idle" THEN Leave(w) ELSE UNCHANGED busy

\* ... and the rest of kfm_sysctl_unload_handler, which tests what is there by
\* now.  None of this is under a lock.
UnloadHandler(w) ==
  /\ unloader[w] = "written"
  /\ Goes(w, IF sysctl_kfm_unload THEN "exit" ELSE "idle")
  /\ UNCHANGED <<cpus, nl, loaded, thread, post_task, g_post_event, should_stop, sysctl_kfm_unload>>

\* Mutant: the condition the thread waits for is never set.
StopThreadAsleep(w) ==
  /\ unloader[w] = "exit"
  /\ Goes(w, IF post_task THEN "stop" ELSE "idle")
  /\ UNCHANGED <<cpus, nl, loaded, thread, post_task, g_post_event, should_stop, sysctl_kfm_unload>>

\* kfm_post_evt_thread_exit: is there a thread?  Then the condition it waits for.
StopThread(w) ==
  /\ unloader[w] = "exit"
  /\ g_post_event' = (g_post_event \/ post_task)
  /\ Goes(w, IF post_task THEN "stop" ELSE "idle")
  /\ UNCHANGED <<cpus, nl, loaded, thread, post_task, should_stop, sysctl_kfm_unload>>

\* kthread_stop(post_task): tell the thread and wake it up.  When it has ended
\* since the test, or was stopped before it ever ran and left post_task as it
\* was, this is a null or a freed task: undefined.  The writer gets away with it
\* or dies here, and the kernel then counts it as inside the handler for ever.
KthreadStop(w) ==
  /\ unloader[w] = "stop"
  /\ \/ thread # "gone" /\ should_stop' = TRUE /\ Goes(w, "stopping")
     \/ thread = "gone" /\ UNCHANGED should_stop /\ \E s \in {"idle", "oops"} : Goes(w, s)
  /\ UNCHANGED <<cpus, nl, loaded, thread, post_task, g_post_event, sysctl_kfm_unload>>

\* kthread_stop returns when the thread has ended, or was never to run.
Stopped(w) ==
  /\ unloader[w] = "stopping"
  /\ thread \in {"new", "gone"}
  /\ thread' = "gone"
  /\ Goes(w, "idle")
  /\ UNCHANGED <<cpus, nl, loaded, post_task, g_post_event, should_stop, sysctl_kfm_unload>>

\* rmmod, refused while the thread or a set command counts as a user;
\* kfm_cleanup takes the family and the sysctl away, waiting for requests and
\* writers inside, but not for a thread that has not counted itself yet: that
\* one is lost with the module's code.  The variables go with the module.
InUse == (\E c \in Client : req[c].pc \in {"lock", "work", "unlock"} /\ req[c].cmd \in SetCmd)
         \/ thread \in {"loop", "wait", "exit"}

Rmmod ==
  /\ loaded /\ ~InUse
  /\ \A w \in Writer : unloader[w] = "idle"
  /\ \A c \in Client : req[c].pc \notin {"lock", "work", "call", "read", "unlock"}
  /\ loaded' = FALSE
  /\ thread' = IF thread = "new" THEN "lost" ELSE thread
  /\ post_task' = FALSE /\ g_post_event' = FALSE /\ should_stop' = FALSE /\ sysctl_kfm_unload' = FALSE
  /\ UNCHANGED <<cpus, nl, unloader, busy>>

Hotplug == \E c \in Cpu : Unplug(c) \/ Plug(c)

ModuleStep ==
  \/ ThreadStart \/ ThreadLoop \/ ThreadWake \/ ThreadExit
  \/ \E w \in Writer : \/ \E v \in BOOLEAN : WriteUnload(w, v)
                       \/ UnloadHandler(w) \/ StopThread(w) \/ KthreadStop(w) \/ Stopped(w)
  \/ Rmmod

KfmNext ==
  \/ Hotplug \/ ModuleStep
  \/ \E c \in Client : Kernel(c)
  \/ \E t \in Tool : Kfmadm(t) \/ Modprobe(t) \/ KfmadmCommand(t) \/ KfmadmNextCpu(t)
                     \/ KfmadmExit(t)

\* The kernel schedules its thread and the callers it serves.
KfmFairness ==
  /\ WF_kvars(ThreadStart \/ ThreadLoop \/ ThreadWake \/ ThreadExit)
  /\ \A w \in Writer : WF_kvars(UnloadHandler(w) \/ StopThread(w) \/ KthreadStop(w) \/ Stopped(w))

KfmSpec == KfmInit /\ [][KfmNext]_kvars /\ KfmFairness

----------------------------------------------------------------------------
\* The status a client is told is that of the CPU it asked about at the
\* moment that CPU was asked, although all answers go through one global and
\* clients, hotplug and disabling interleave (kfm_cache_status_on_cpu).
StatusTruth ==
  \A c \in Client : req[c].pc \in {"unlock", "done"} /\ req[c].cmd = "get_cache"
                      => req[c].status = req[c].truth

\* Whoever writes to the unload sysctl while the post thread sleeps gets the
\* prompt back: the thread leaves its wait and ends, so that the module can be
\* removed (kfm_post_evt_thread_exit against kfm_post_evt_thread).  Another
\* writer at the same time, or a thread that is awake and sees the sysctl
\* itself, may end the thread before it is stopped: then nothing is promised.
Alone(w) == \A o \in Writer \ {w} : unloader[o] = "idle"
UnloadReturns ==
  \A w \in Writer : (unloader[w] = "exit" /\ thread = "wait" /\ Alone(w))
                      ~> ((unloader[w] = "idle" /\ thread = "gone") \/ ~Alone(w))
=============================================================================
