------------------------------ MODULE FmdTimer ------------------------------
(***************************************************************************)
(* How event sources are driven: the main loop of fms/main.c counts the    *)
(* timers once a second and signals the condition variable of each timer   *)
(* that is due (fmd_timer_fire); the thread of the source (evtsrc_start in *)
(* evt_src.c) waits for the signal, probes its hardware and submits what   *)
(* it found (do_evtsrc, evt_handle).                                       *)
(*                                                                         *)
(* A signal finds the thread only if it is waiting: one that comes while   *)
(* the thread is still probing is lost, and pthread_cond_wait may return   *)
(* without any signal.                                                     *)
(***************************************************************************)
EXTENDS Naturals, Sequences

CONSTANTS Src,         \* event sources
          Timers,      \* the order of fmd.fmd_timer: a sequence of the sources
          interval,    \* per source: seconds between two signals
          Main,        \* the main thread
          Free,        \* "nobody", for a mutex
          Hung,        \* sources whose probe may never return
          MaxPending   \* bound: hardware events waiting for a probe

ASSUME TimerAssumption ==
  /\ Timers \in Seq(Src)
  /\ \A s \in Src : \E i \in DOMAIN Timers : Timers[i] = s
  /\ interval \in [Src -> Nat \ {0}]
  /\ Main \notin Src /\ Free \notin Src /\ Main # Free
  /\ Hung \subseteq Src /\ MaxPending \in Nat

VARIABLES ticks,      \* per source: seconds since its timer fired
          mpc, mpos,  \* main: next step, and its place in fmd.fmd_timer
          timer_lock, \* per source: the thread that holds the mutex, or Free
          spc,        \* per source: next step of its thread
          pending,    \* per source: hardware events no probe has read
          carried     \* per source: events read and not yet submitted

mainvars == <<mpc, mpos>>
vars     == <<ticks, mpc, mpos, timer_lock, spc, pending, carried>>

Due == Timers[mpos]

Init ==
  /\ ticks = [s \in Src |-> 0]
  /\ mpc = "tick" /\ mpos = 1
  /\ timer_lock = [s \in Src |-> Free]
  /\ spc = [s \in Src |-> "lock"]
  /\ pending = [s \in Src |-> 0]
  /\ carried = [s \in Src |-> 0]

-----------------------------------------------------------------------------
(* The main loop.                                                          *)

\* Mutant: the comparison misses an interval of one second.
TickLate ==
  /\ mpc = "tick"
  /\ mpos <= Len(Timers)
  /\ ticks' = [ticks EXCEPT ![Due] = @ + 1]
  /\ IF ticks[Due] = interval[Due]
       THEN mpc' = "lock" /\ UNCHANGED mpos
       ELSE mpos' = mpos + 1 /\ UNCHANGED mpc
  /\ UNCHANGED <<timer_lock, spc, pending, carried>>

\* One timer of the loop: a second has passed for it.
Tick ==
  /\ mpc = "tick"
  /\ mpos <= Len(Timers)
  /\ ticks' = [ticks EXCEPT ![Due] = @ + 1]
  /\ IF ticks[Due] + 1 = interval[Due]
       THEN mpc' = "lock" /\ UNCHANGED mpos
       ELSE mpos' = mpos + 1 /\ UNCHANGED mpc
  /\ UNCHANGED <<timer_lock, spc, pending, carried>>

\* fmd_timer_fire: lock ...
FireLock ==
  /\ mpc = "lock"
  /\ timer_lock[Due] = Free
  /\ timer_lock' = [timer_lock EXCEPT ![Due] = Main]
  /\ mpc' = "signal"
  /\ UNCHANGED <<ticks, mpos, spc, pending, carried>>

\* Mutant: the signal is sent to a thread that is not waiting any more.
FireSignalLost ==
  /\ mpc = "signal"
  /\ mpc' = "unlock"
  /\ UNCHANGED <<ticks, mpos, timer_lock, spc, pending, carried>>

\* ... signal: it wakes the thread if the thread waits, else it is lost ...
FireSignal ==
  /\ mpc = "signal"
  /\ spc' = IF spc[Due] = "wait" THEN [spc EXCEPT ![Due] = "relock"] ELSE spc
  /\ mpc' = "unlock"
  /\ UNCHANGED <<ticks, mpos, timer_lock, pending, carried>>

\* ... unlock; the main loop resets the counter and goes on to the next timer.
FireUnlock ==
  /\ mpc = "unlock"
  /\ timer_lock' = [timer_lock EXCEPT ![Due] = Free]
  /\ ticks' = [ticks EXCEPT ![Due] = 0]
  /\ mpc' = "tick" /\ mpos' = mpos + 1
  /\ UNCHANGED <<spc, pending, carried>>

\* sleep(1) at the end of the list.
Sleep ==
  /\ mpc = "tick"
  /\ mpos > Len(Timers)
  /\ mpos' = 1
  /\ UNCHANGED <<ticks, mpc, timer_lock, spc, pending, carried>>

MainLoop == Tick \/ FireLock \/ FireSignal \/ FireUnlock \/ Sleep

-----------------------------------------------------------------------------
(* The thread of source s: evtsrc_start.                                   *)

SrcLock(s) ==
  /\ spc[s] = "lock"
  /\ timer_lock[s] = Free
  /\ timer_lock' = [timer_lock EXCEPT ![s] = s]
  /\ spc' = [spc EXCEPT ![s] = "enter"]
  /\ UNCHANGED <<ticks, mainvars, pending, carried>>

\* pthread_cond_wait gives up the mutex and waits, in one step.
CondWait(s) ==
  /\ spc[s] = "enter"
  /\ timer_lock' = [timer_lock EXCEPT ![s] = Free]
  /\ spc' = [spc EXCEPT ![s] = "wait"]
  /\ UNCHANGED <<ticks, mainvars, pending, carried>>

\* POSIX allows pthread_cond_wait to return without a signal; no predicate
\* is tested, so the thread takes it for one.
SpuriousWakeup(s) ==
  /\ spc[s] = "wait"
  /\ spc' = [spc EXCEPT ![s] = "relock"]
  /\ UNCHANGED <<ticks, mainvars, timer_lock, pending, carried>>

\* Mutant: the thread goes on without the mutex.
RelockFree(s) ==
  /\ spc[s] = "relock"
  /\ timer_lock' = [timer_lock EXCEPT ![s] = s]
  /\ spc' = [spc EXCEPT ![s] = "unlock"]
  /\ UNCHANGED <<ticks, mainvars, pending, carried>>

\* pthread_cond_wait returns with the mutex held ...
Relock(s) ==
  /\ spc[s] = "relock"
  /\ timer_lock[s] = Free
  /\ timer_lock' = [timer_lock EXCEPT ![s] = s]
  /\ spc' = [spc EXCEPT ![s] = "unlock"]
  /\ UNCHANGED <<ticks, mainvars, pending, carried>>

\* ... which is released before do_evtsrc.
SrcUnlock(s) ==
  /\ spc[s] = "unlock"
  /\ timer_lock' = [timer_lock EXCEPT ![s] = Free]
  /\ spc' = [spc EXCEPT ![s] = "probe"]
  /\ UNCHANGED <<ticks, mainvars, pending, carried>>

\* do_evtsrc: evt_probe reads what the hardware has; a NULL list means there
\* was nothing, and the thread waits again.
Probe(s) ==
  /\ spc[s] = "probe"
  /\ carried' = [carried EXCEPT ![s] = pending[s]]
  /\ pending' = [pending EXCEPT ![s] = 0]
  /\ spc' = [spc EXCEPT ![s] = IF pending[s] = 0 THEN "lock" ELSE "submit"]
  /\ UNCHANGED <<ticks, mainvars, timer_lock>>

\* evt_handle: every event of the list goes to fmd_queue_dispatch, one after
\* the other; the ring may make the thread wait for each.
SubmitOne(s) ==
  /\ spc[s] = "submit"
  /\ carried' = [carried EXCEPT ![s] = @ - 1]
  /\ spc' = [spc EXCEPT ![s] = IF carried[s] = 1 THEN "lock" ELSE "submit"]
  /\ UNCHANGED <<ticks, mainvars, timer_lock, pending>>

\* The hardware reports an error.
Occur(s) ==
  /\ pending[s] < MaxPending
  /\ pending' = [pending EXCEPT ![s] = @ + 1]
  /\ UNCHANGED <<ticks, mainvars, timer_lock, spc, carried>>

SrcStep(s) ==
  SrcLock(s) \/ CondWait(s) \/ Relock(s) \/ SrcUnlock(s) \/ SubmitOne(s)

-----------------------------------------------------------------------------
Next ==
  \/ MainLoop
  \/ \E s \in Src : SrcStep(s) \/ Probe(s) \/ SpuriousWakeup(s) \/ Occur(s)

Spec == Init /\ [][Next]_vars

(***************************************************************************)
(* Fairness.  The threads run (weak fairness) and a mutex that is released *)
(* again and again is obtained (strong fairness: both parties hold it for  *)
(* a few instructions per second).  A probe returns, except in the sources *)
(* of Hung, whose hardware or message queue may block for ever.  Nothing   *)
(* is assumed of spurious wake-ups.                                        *)
(***************************************************************************)
Fairness ==
  /\ WF_vars(MainLoop) /\ SF_vars(FireLock)
  /\ \A s \in Src : /\ WF_vars(SrcStep(s))
                    /\ SF_vars(SrcLock(s)) /\ SF_vars(Relock(s))
                    /\ s \notin Hung => WF_vars(Probe(s))

FairSpec == Spec /\ Fairness

-----------------------------------------------------------------------------
(* Properties.                                                             *)

SrcPC == {"lock", "enter", "wait", "relock", "unlock", "probe", "submit"}

\* Every variable has its type, and no counter passes its interval: the main
\* loop asks for equality, so a counter that did would never fire again.
TypeOK ==
  /\ ticks \in [Src -> Nat] /\ \A s \in Src : ticks[s] <= interval[s]
  /\ mpc \in {"tick", "lock", "signal", "unlock"} /\ mpos \in 1 .. Len(Timers) + 1
  /\ timer_lock \in [Src -> Src \cup {Main, Free}]
  /\ spc \in [Src -> SrcPC]
  /\ pending \in [Src -> 0 .. MaxPending] /\ carried \in [Src -> 0 .. MaxPending]

\* A timer stands at its interval only while the main loop is firing it, and
\* the main loop fires only a timer that is due.
FiringIsDue ==
  \A s \in Src : ticks[s] = interval[s] <=> (mpc # "tick" /\ Due = s)

\* timer_lock[s] is held exactly by the thread between lock and unlock, and
\* never by a source that waits or probes: a source that blocks in its probe
\* does not stop the main loop, and with it the clock of all the others.
LockHeld ==
  \A s \in Src :
    /\ timer_lock[s] = s <=> spc[s] \in {"enter", "unlock"}
    /\ timer_lock[s] = Main <=> (mpc \in {"signal", "unlock"} /\ Due = s)

\* Every hardware error is read by a probe and handed to the dispatcher: the
\* lost signals cost a source some intervals but never all, and a source that
\* hangs in its probe takes no other along.
Detected ==
  \A s \in Src \ Hung : pending[s] > 0 ~> (spc[s] = "submit" /\ carried[s] = 1)
=============================================================================
