--------------------------- MODULE FmdMain_proofs ---------------------------
(***************************************************************************)
(* Proofs about the two halves of fms/main.c.                              *)
(*                                                                         *)
(* FmdStart, for every set of invocations: as long as nobody starts fmd    *)
(* while another start is on its way (Serial), the pid file names the      *)
(* daemon that runs, whatever crashes and whoever is stopped.              *)
(*                                                                         *)
(* FmdTimer, for every set of sources, order of the timer list and         *)
(* intervals: the main loop and a source thread never hold a timer's mutex *)
(* at the same time nor across a wait or a probe, and no counter is ever   *)
(* stepped past its interval.                                              *)
(***************************************************************************)
EXTENDS FmdStart, FmdTimer, TLAPS

-----------------------------------------------------------------------------
(* The start: FmdStart.                                                    *)

\* A daemon that has written its pid.
Named(i) == pc[i] \in {"signal", "loop", "unlink"}

\* An invocation that has looked at the file and found nobody.
Cleared(i) == pc[i] \in {"open", "write"}

\* At most one invocation is between the check and the main loop.
OneStart == \A i, j \in Inst : Starting(i) /\ Starting(j) => i = j

\* The file holds the pid of the daemon that has written it.
FileNames == \A i \in Inst : Named(i) => pid_file = i

\* What get_running_pid read is still in the file when kill(pid, 0) is called,
\* unless the daemon it named has unlinked the file and is gone.
SeenFresh ==
  \A i \in Inst : pc[i] = "kill0" =>
    \/ seen[i] = pid_file
    \/ \A j \in Inst : ~Named(j)

\* An invocation that found nobody is alone with the file, and has it open
\* while it writes.
Alone ==
  \A i \in Inst :
    /\ Cleared(i) => \A j \in Inst : ~Named(j)
    /\ pc[i] = "write" => i \in writers

StartIInv == StartTypeOK /\ OneStart /\ FileNames /\ SeenFresh /\ Alone

-----------------------------------------------------------------------------
\* A pid in the file is that of a process that is past writing it.
Written == pid_file \in Inst => pc[pid_file] \in {"signal", "loop", "unlink", "gone"}

\* The variables have their types, also when starts overlap.  That the signal
\* of fmd -k, which goes to the pid in the file, never ends a process with the
\* file open needs Written.
THEOREM StartTypeCorrect == StartSpec => []StartTypeOK
<1>1. StartInit => StartTypeOK /\ Written
  BY StartAssumption DEF StartInit, StartTypeOK, PC, Written
<1>2. StartTypeOK /\ Written /\ [StartNext]_startvars => (StartTypeOK /\ Written)'
  <2> SUFFICES ASSUME StartTypeOK, Written, [StartNext]_startvars PROVE (StartTypeOK /\ Written)'
    OBVIOUS
  <2> USE StartAssumption DEF StartTypeOK, PC, Goto, Written
  <2>1. ASSUME NEW i \in Inst, Invocation(i) PROVE (StartTypeOK /\ Written)'
    BY <2>1 DEF Invocation, Start, ReadPid, KillZero, OpenPidFile, WritePid,
                InstallHandler, LeaveLoop, Unlink, Crash
  <2>2. CASE KillDaemon
    BY <2>2 DEF KillDaemon, Running
  <2>3. CASE UNCHANGED startvars
    BY <2>3 DEF startvars
  <2>4. QED
    BY <2>1, <2>2, <2>3 DEF StartNext
<1>3. QED
  BY <1>1, <1>2, PTL DEF StartSpec

LEMMA StartInitIInv == StartInit => StartIInv
  BY DEF StartInit, StartIInv, StartTypeOK, PC, OneStart, FileNames, SeenFresh, Alone, Starting, Named, Cleared

\* One step of one invocation, StartTypeOK' being known.
LEMMA InvocationIInv ==
  ASSUME Serial, StartIInv, StartTypeOK', NEW i \in Inst, Invocation(i)
  PROVE  StartIInv'
<1> USE DEF StartIInv, StartTypeOK, Goto
<1>1. CASE Start(i)
  BY <1>1 DEF Start, OneStart, FileNames, SeenFresh, Alone, Starting, Named, Cleared
<1>2. CASE ReadPid(i)
  BY <1>2 DEF ReadPid, OneStart, FileNames, SeenFresh, Alone, Starting, Named, Cleared
<1>3. CASE KillZero(i)
  <2>1. Cleared(i)' => \A j \in Inst : ~Named(j)
    BY <1>3 DEF KillZero, FileNames, SeenFresh, Named, Cleared, Alive
  <2>2. QED
    BY <1>3, <2>1 DEF KillZero, OneStart, FileNames, SeenFresh, Alone, Starting, Named, Cleared
<1>4. CASE OpenPidFile(i)
  <2>1. OneStart' /\ FileNames' /\ SeenFresh'
    BY <1>4 DEF OpenPidFile, OneStart, FileNames, SeenFresh, Alone, Starting, Named, Cleared
  <2>2. Alone'
    BY <1>4 DEF OpenPidFile, OneStart, Alone, Starting, Named, Cleared
  <2>3. QED
    BY <2>1, <2>2
<1>5. CASE WritePid(i)
  <2>1. i \in writers /\ \A j \in Inst : ~Named(j)
    BY <1>5 DEF WritePid, Alone, Cleared
  <2>2. OneStart' /\ FileNames' /\ SeenFresh'
    BY <1>5, <2>1 DEF WritePid, OneStart, FileNames, SeenFresh, Starting, Named
  <2>3. Alone'
    BY <1>5, <2>1 DEF WritePid, OneStart, Alone, Starting, Named, Cleared
  <2>4. QED
    BY <2>2, <2>3
<1>6. CASE InstallHandler(i)
  BY <1>6 DEF InstallHandler, OneStart, FileNames, SeenFresh, Alone, Starting, Named, Cleared
<1>7. CASE LeaveLoop(i)
  BY <1>7 DEF LeaveLoop, OneStart, FileNames, SeenFresh, Alone, Starting, Named, Cleared
<1>8. CASE Unlink(i)
  <2>1. \A j \in Inst : Named(j) => j = i
    BY <1>8 DEF Unlink, FileNames, Named
  <2>2. \A j \in Inst : ~Cleared(j)
    BY <1>8 DEF Unlink, Alone, Named
  <2>3. QED
    BY <1>8, <2>1, <2>2 DEF Unlink, OneStart, FileNames, SeenFresh, Alone, Starting, Named, Cleared
<1>9. CASE Crash(i)
  BY <1>9 DEF Crash, OneStart, FileNames, SeenFresh, Alone, Starting, Named, Cleared
<1>10. QED
  BY <1>1, <1>2, <1>3, <1>4, <1>5, <1>6, <1>7, <1>8, <1>9 DEF Invocation

\* SIGTERM ends at most one process and changes no file.
LEMMA KillIInv ==
  ASSUME StartIInv, StartTypeOK', KillDaemon
  PROVE  StartIInv'
  BY DEF KillDaemon, Goto, StartIInv, StartTypeOK, OneStart, FileNames, SeenFresh, Alone,
         Starting, Named, Cleared

\* When starts do not overlap, a running daemon is always the one named by the
\* pid file: crashes between truncation and write, signals before the handler
\* is installed, refused starts and stops included, for any number of starts.
THEOREM PidFileTrue == Serial => (StartSpec => []PidFileNamesDaemon)
<1> SUFFICES ASSUME Serial PROVE StartSpec => []PidFileNamesDaemon
  OBVIOUS
<1>1. StartIInv /\ StartTypeOK' /\ [StartNext]_startvars => StartIInv'
  <2> SUFFICES ASSUME StartIInv, StartTypeOK', [StartNext]_startvars PROVE StartIInv'
    OBVIOUS
  <2>1. CASE UNCHANGED startvars
    BY <2>1 DEF startvars, StartIInv, StartTypeOK, OneStart, FileNames, SeenFresh, Alone, Starting, Named, Cleared
  <2>2. QED
    BY <2>1, InvocationIInv, KillIInv DEF StartNext
<1>2. StartIInv => PidFileNamesDaemon
  BY DEF StartIInv, FileNames, PidFileNamesDaemon, Named, Running
<1>3. QED
  BY <1>1, <1>2, StartInitIInv, StartTypeCorrect, PTL DEF StartSpec

\* Of two daemons that run one would not be named by the file, so only one
\* runs, and fmd -k reaches it.
THEOREM OneDaemonRuns ==
  Serial => (StartSpec => [](\A i, j \in Inst : Running(i) /\ Running(j) => i = j))
<1>1. PidFileNamesDaemon => \A i, j \in Inst : Running(i) /\ Running(j) => i = j
  BY DEF PidFileNamesDaemon
<1>2. QED
  BY <1>1, PidFileTrue, PTL

-----------------------------------------------------------------------------
(* The main loop and the threads it wakes: FmdTimer.                       *)

\* While a timer is fired there is one, and a thread that submits has
\* something to submit: what the main loop's position and the end of a list
\* of events rest on.
Bounded ==
  /\ mpc # "tick" => mpos <= Len(Timers)
  /\ \A s \in Src : spc[s] = "submit" => carried[s] > 0

IInv == TypeOK /\ FiringIsDue /\ LockHeld /\ Bounded

\* The timer at a position of the list is one of the sources.
LEMMA DueInSrc ==
  ASSUME mpos \in 1 .. Len(Timers)
  PROVE  Due \in Src
  BY TimerAssumption DEF Due

LEMMA LenNat == Len(Timers) \in Nat
  BY TimerAssumption

\* A counter below its interval may be stepped once more.
LEMMA NextSecond ==
  ASSUME NEW a \in Nat, NEW b \in Nat, a < b
  PROVE  a + 1 \in Nat /\ a + 1 <= b
  OBVIOUS

LEMMA InitIInv == Init => IInv
  BY TimerAssumption, LenNat
  DEF Init, IInv, TypeOK, FiringIsDue, LockHeld, Bounded, SrcPC

\* The steps of the main loop.
LEMMA MainIInv == IInv /\ MainLoop => IInv'
<1> SUFFICES ASSUME IInv, MainLoop PROVE IInv'
  OBVIOUS
<1> USE TimerAssumption, LenNat DEF IInv, TypeOK, Bounded
<1>1. CASE Tick
  <2>1. Due \in Src
    BY <1>1, DueInSrc DEF Tick
  <2>2. ticks[Due] < interval[Due]
    BY <1>1, <2>1 DEF Tick, FiringIsDue
  <2>3. /\ ticks' \in [Src -> Nat]
        /\ \A s \in Src : ticks'[s] <= interval[s]
    <3>1. ticks[Due] + 1 \in Nat /\ ticks[Due] + 1 <= interval[Due]
      <4>1. ticks[Due] \in Nat /\ interval[Due] \in Nat
        BY <2>1
      <4>2. QED
        BY <2>2, <4>1, NextSecond
    <3>2. ticks' = [ticks EXCEPT ![Due] = ticks[Due] + 1]
      BY <1>1 DEF Tick
    <3>3. ticks' \in [Src -> Nat]
      BY <3>1, <3>2
    <3>4. ASSUME NEW s \in Src PROVE ticks'[s] <= interval[s]
      <4>1. CASE s = Due
        BY <3>1, <3>2, <4>1
      <4>2. CASE s # Due
        BY <3>2, <4>2
      <4>3. QED
        BY <4>1, <4>2
    <3>5. QED
      BY <3>3, <3>4
  <2>4. CASE ticks[Due] + 1 = interval[Due]
    <3>1. mpos' = mpos /\ mpc' = "lock" /\ Due' = Due
      BY <1>1, <2>4 DEF Tick, Due
    <3>2. FiringIsDue'
      BY <1>1, <2>1, <2>4, <3>1 DEF Tick, FiringIsDue
    <3>3. LockHeld'
      BY <1>1, <3>1 DEF Tick, LockHeld
    <3>4. mpos' \in 1 .. Len(Timers) + 1
      BY <1>1, <3>1 DEF Tick
    <3>5. TypeOK' /\ Bounded'
      BY <1>1, <2>3, <3>1, <3>4 DEF Tick
    <3>6. QED
      BY <3>2, <3>3, <3>5
  <2>5. CASE ticks[Due] + 1 # interval[Due]
    <3>1. mpos' = mpos + 1 /\ mpc' = "tick"
      BY <1>1, <2>5 DEF Tick
    <3>2. FiringIsDue'
      BY <1>1, <2>1, <2>2, <2>5, <3>1 DEF Tick, FiringIsDue
    <3>3. LockHeld'
      BY <1>1, <3>1 DEF Tick, LockHeld
    <3>4. mpos' \in 1 .. Len(Timers) + 1
      BY <1>1, <3>1 DEF Tick
    <3>5. TypeOK' /\ Bounded'
      BY <1>1, <2>3, <3>1, <3>4 DEF Tick
    <3>6. QED
      BY <3>2, <3>3, <3>5
  <2>6. QED
    BY <2>4, <2>5
<1>2. CASE FireLock
  <2>1. Due \in Src /\ Due' = Due
    BY <1>2, DueInSrc DEF FireLock, Due
  <2>2. FiringIsDue' /\ LockHeld'
    BY <1>2, <2>1, ZenonT(60) DEF FireLock, FiringIsDue, LockHeld
  <2>3. QED
    BY <1>2, <2>1, <2>2 DEF FireLock
<1>3. CASE FireSignal
  <2>1. Due \in Src /\ Due' = Due
    BY <1>3, DueInSrc DEF FireSignal, Due
  <2>2. FiringIsDue' /\ LockHeld'
    BY <1>3, <2>1 DEF FireSignal, FiringIsDue, LockHeld
  <2>3. QED
    BY <1>3, <2>1, <2>2 DEF FireSignal, SrcPC
<1>4. CASE FireUnlock
  <2>1. Due \in Src
    BY <1>4, DueInSrc DEF FireUnlock
  <2>2. FiringIsDue'
    BY <1>4, <2>1 DEF FireUnlock, FiringIsDue
  <2>3. ASSUME NEW s \in Src
        PROVE  timer_lock'[s] # Main
               /\ (timer_lock'[s] = s <=> spc[s] \in {"enter", "unlock"})
    <3>1. CASE s = Due
      BY <1>4, <3>1 DEF FireUnlock, LockHeld
    <3>2. CASE s # Due
      BY <1>4, <2>1, <3>2 DEF FireUnlock, LockHeld
    <3>3. QED
      BY <3>1, <3>2
  <2>4. LockHeld'
    BY <1>4, <2>3 DEF FireUnlock, LockHeld
  <2>5. /\ ticks' \in [Src -> Nat]
        /\ \A s \in Src : ticks'[s] <= interval[s]
    <3>1. ticks' = [ticks EXCEPT ![Due] = 0]
      BY <1>4 DEF FireUnlock
    <3>2. ticks' \in [Src -> Nat]
      BY <3>1
    <3>3. ASSUME NEW s \in Src PROVE ticks'[s] <= interval[s]
      BY <3>1
    <3>4. QED
      BY <3>2, <3>3
  <2>6. TypeOK' /\ Bounded'
    <3>1. timer_lock' \in [Src -> Src \cup {Main, Free}]
      BY <1>4 DEF FireUnlock
    <3>2. mpos' \in 1 .. Len(Timers) + 1
      BY <1>4 DEF FireUnlock
    <3>3. QED
      BY <1>4, <2>5, <3>1, <3>2 DEF FireUnlock
  <2>7. QED
    BY <2>2, <2>4, <2>6
<1>5. CASE Sleep
  BY <1>5 DEF Sleep, FiringIsDue, LockHeld
<1>6. QED
  BY <1>1, <1>2, <1>3, <1>4, <1>5 DEF MainLoop

\* The steps of a source's thread, and the hardware's.
LEMMA SrcIInv ==
  ASSUME IInv, NEW s \in Src,
         SrcStep(s) \/ Probe(s) \/ SpuriousWakeup(s) \/ Occur(s)
  PROVE  IInv'
<1>1. mpc' = mpc /\ mpos' = mpos /\ Due' = Due /\ ticks' = ticks
  BY DEF SrcStep, SrcLock, CondWait, Relock, SrcUnlock, SubmitOne, Probe,
         SpuriousWakeup, Occur, mainvars, Due
<1>2. FiringIsDue'
  BY <1>1 DEF FiringIsDue, IInv
<1>3. CASE SrcLock(s)
  <2>1. TypeOK'
    BY <1>1, <1>3 DEF SrcLock, IInv, TypeOK, SrcPC
  <2>2. LockHeld'
    BY <1>1, <1>3, TimerAssumption, SMTT(30) DEF SrcLock, IInv, TypeOK, LockHeld
  <2>3. Bounded'
    BY <1>1, <1>3 DEF SrcLock, IInv, TypeOK, Bounded
  <2>4. QED
    BY <1>2, <2>1, <2>2, <2>3 DEF IInv
<1>4. CASE CondWait(s)
  <2>1. TypeOK'
    BY <1>1, <1>4 DEF CondWait, IInv, TypeOK, SrcPC
  <2>2. LockHeld'
    <3>1. timer_lock[s] = s /\ s # Main /\ s # Free
      BY <1>4, TimerAssumption DEF CondWait, IInv, LockHeld
    <3>2. ASSUME NEW t \in Src, t # s
          PROVE  timer_lock'[t] = timer_lock[t] /\ spc'[t] = spc[t]
      BY <1>4, <3>2 DEF CondWait, IInv, TypeOK
    <3>3. timer_lock'[s] = Free /\ spc'[s] \notin {"enter", "unlock"}
      BY <1>4 DEF CondWait, IInv, TypeOK
    <3>4. QED
      BY <1>1, <3>1, <3>2, <3>3, TimerAssumption DEF IInv, LockHeld
  <2>3. Bounded'
    BY <1>1, <1>4 DEF CondWait, IInv, TypeOK, Bounded
  <2>4. QED
    BY <1>2, <2>1, <2>2, <2>3 DEF IInv
<1>5. CASE Relock(s)
  <2>1. TypeOK'
    BY <1>1, <1>5 DEF Relock, IInv, TypeOK, SrcPC
  <2>2. LockHeld'
    BY <1>1, <1>5, TimerAssumption, SMTT(30) DEF Relock, IInv, TypeOK, LockHeld
  <2>3. Bounded'
    BY <1>1, <1>5 DEF Relock, IInv, TypeOK, Bounded
  <2>4. QED
    BY <1>2, <2>1, <2>2, <2>3 DEF IInv
<1>6. CASE SrcUnlock(s)
  <2>1. TypeOK'
    BY <1>1, <1>6 DEF SrcUnlock, IInv, TypeOK, SrcPC
  <2>2. LockHeld'
    <3>1. timer_lock[s] = s /\ s # Main /\ s # Free
      BY <1>6, TimerAssumption DEF SrcUnlock, IInv, LockHeld
    <3>2. ASSUME NEW t \in Src, t # s
          PROVE  timer_lock'[t] = timer_lock[t] /\ spc'[t] = spc[t]
      BY <1>6, <3>2 DEF SrcUnlock, IInv, TypeOK
    <3>3. timer_lock'[s] = Free /\ spc'[s] \notin {"enter", "unlock"}
      BY <1>6 DEF SrcUnlock, IInv, TypeOK
    <3>4. QED
      BY <1>1, <3>1, <3>2, <3>3, TimerAssumption DEF IInv, LockHeld
  <2>3. Bounded'
    BY <1>1, <1>6 DEF SrcUnlock, IInv, TypeOK, Bounded
  <2>4. QED
    BY <1>2, <2>1, <2>2, <2>3 DEF IInv
<1>7. CASE SubmitOne(s)
  <2>1. TypeOK'
    <3>1. carried[s] - 1 \in 0 .. MaxPending
      <4>1. carried[s] \in 0 .. MaxPending /\ carried[s] > 0
        BY <1>7 DEF SubmitOne, IInv, TypeOK, Bounded
      <4>2. MaxPending \in Nat
        BY TimerAssumption
      <4>3. QED
        BY <4>1, <4>2
    <3>2. carried' \in [Src -> 0 .. MaxPending]
      BY <1>7, <3>1 DEF SubmitOne, IInv, TypeOK
    <3>3. spc' \in [Src -> SrcPC]
      BY <1>7 DEF SubmitOne, IInv, TypeOK, SrcPC
    <3>4. QED
      BY <1>1, <1>7, <3>2, <3>3 DEF SubmitOne, IInv, TypeOK
  <2>2. LockHeld'
    BY <1>1, <1>7, TimerAssumption DEF SubmitOne, IInv, TypeOK, LockHeld
  <2>3. Bounded'
    <3>1. ASSUME NEW t \in Src, spc'[t] = "submit" PROVE carried'[t] > 0
      <4>1. CASE t = s
        BY <1>7, <3>1, <4>1, TimerAssumption DEF SubmitOne, IInv, TypeOK, Bounded
      <4>2. CASE t # s
        BY <1>7, <3>1, <4>2 DEF SubmitOne, IInv, TypeOK, Bounded
      <4>3. QED
        BY <4>1, <4>2
    <3>2. QED
      BY <1>1, <3>1 DEF IInv, Bounded
  <2>4. QED
    BY <1>2, <2>1, <2>2, <2>3 DEF IInv
<1>8. CASE Probe(s)
  <2>1. TypeOK'
    <3>1. 0 \in 0 .. MaxPending
      BY TimerAssumption
    <3>2. /\ carried' \in [Src -> 0 .. MaxPending]
          /\ pending' \in [Src -> 0 .. MaxPending]
      BY <1>8, <3>1 DEF Probe, IInv, TypeOK
    <3>3. spc' \in [Src -> SrcPC]
      BY <1>8 DEF Probe, IInv, TypeOK, SrcPC
    <3>4. QED
      BY <1>1, <1>8, <3>2, <3>3 DEF Probe, IInv, TypeOK
  <2>2. LockHeld'
    BY <1>1, <1>8, TimerAssumption DEF Probe, IInv, TypeOK, LockHeld
  <2>3. Bounded'
    <3>1. ASSUME NEW t \in Src, spc'[t] = "submit" PROVE carried'[t] > 0
      <4>1. CASE t = s
        BY <1>8, <3>1, <4>1, TimerAssumption DEF Probe, IInv, TypeOK
      <4>2. CASE t # s
        BY <1>8, <3>1, <4>2 DEF Probe, IInv, TypeOK, Bounded
      <4>3. QED
        BY <4>1, <4>2
    <3>2. QED
      BY <1>1, <3>1 DEF IInv, Bounded
  <2>4. QED
    BY <1>2, <2>1, <2>2, <2>3 DEF IInv
<1>9. CASE SpuriousWakeup(s)
  <2>1. TypeOK'
    BY <1>1, <1>9 DEF SpuriousWakeup, IInv, TypeOK, SrcPC
  <2>2. LockHeld'
    BY <1>1, <1>9, TimerAssumption DEF SpuriousWakeup, IInv, TypeOK, LockHeld
  <2>3. Bounded'
    BY <1>1, <1>9 DEF SpuriousWakeup, IInv, TypeOK, Bounded
  <2>4. QED
    BY <1>2, <2>1, <2>2, <2>3 DEF IInv
<1>10. CASE Occur(s)
  <2>1. TypeOK'
    <3>1. pending[s] + 1 \in 0 .. MaxPending
      <4>1. pending[s] \in 0 .. MaxPending /\ pending[s] < MaxPending
        BY <1>10 DEF Occur, IInv, TypeOK
      <4>2. MaxPending \in Nat
        BY TimerAssumption
      <4>3. QED
        BY <4>1, <4>2
    <3>2. pending' \in [Src -> 0 .. MaxPending]
      BY <1>10, <3>1 DEF Occur, IInv, TypeOK
    <3>3. QED
      BY <1>1, <1>10, <3>2 DEF Occur, IInv, TypeOK
  <2>2. LockHeld'
    BY <1>1, <1>10, TimerAssumption DEF Occur, IInv, TypeOK, LockHeld
  <2>3. Bounded'
    BY <1>1, <1>10 DEF Occur, IInv, TypeOK, Bounded
  <2>4. QED
    BY <1>2, <2>1, <2>2, <2>3 DEF IInv
<1>11. QED
  BY <1>3, <1>4, <1>5, <1>6, <1>7, <1>8, <1>9, <1>10 DEF SrcStep

LEMMA StutterIInv == IInv /\ UNCHANGED vars => IInv'
  BY DEF IInv, TypeOK, FiringIsDue, LockHeld, Bounded, Due, vars

LEMMA StepIInv == IInv /\ [Next]_vars => IInv'
  BY MainIInv, SrcIInv, StutterIInv DEF Next

\* The conjunction is an invariant of the main loop and the source threads.
THEOREM Invariance == Spec => []IInv
  BY InitIInv, StepIInv, PTL DEF Spec

\* Type correctness: no counter of the main loop passes its interval, and
\* evt_handle never goes past the end of the list a probe returned.
THEOREM TypeCorrect == Spec => []TypeOK
<1>1. IInv => TypeOK
  BY DEF IInv
<1>2. QED
  BY <1>1, Invariance, PTL

\* The main loop fires every timer that has reached its interval, in that
\* second, and no other: the comparison by equality misses none.
THEOREM FiresWhenDue == Spec => []FiringIsDue
<1>1. IInv => FiringIsDue
  BY DEF IInv
<1>2. QED
  BY <1>1, Invariance, PTL

\* A timer's mutex is held only between lock and unlock of the main loop or
\* of the source's own thread, never across a wait or a probe.
THEOREM LocksAreShort == Spec => []LockHeld
<1>1. IInv => LockHeld
  BY DEF IInv
<1>2. QED
  BY <1>1, Invariance, PTL
=============================================================================
