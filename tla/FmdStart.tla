------------------------------ MODULE FmdStart ------------------------------
(***************************************************************************)
(* Start and stop of the daemon (main, get_running_pid, set_running_pid,   *)
(* kill_daemon and signal_term in fms/main.c): the pid file                *)
(* /var/run/fms.pid is what keeps a second daemon out and what "fmd -k"    *)
(* uses to find the first.                                                 *)
(*                                                                         *)
(* An invocation of fmd is named by its pid; pids are not reused.  It is   *)
(* the daemon itself, since DEBUG_MODE is 1 and rv_b2daemon never called.  *)
(* Nothing makes the check of the file and the write to it one step.       *)
(***************************************************************************)
EXTENDS Naturals, FiniteSets

CONSTANTS Inst,           \* invocations of fmd
          Absent, Empty,  \* no pid file, and one without a pid in it
          Serial          \* TRUE: nobody starts fmd while another start is on its way

ASSUME StartAssumption ==
  Absent \notin Inst /\ Empty \notin Inst /\ Absent # Empty /\ Serial \in BOOLEAN

VARIABLES pc,        \* per invocation: its next step
          seen,      \* per invocation: what get_running_pid read
          pid_file,  \* the file: Absent, Empty, or the pid it holds
          writers,   \* invocations that have the present file open for writing
          stop_flag  \* per invocation: set by signal_term

startvars == <<pc, seen, pid_file, writers, stop_flag>>

Alive(i)    == pc[i] \notin {"new", "gone"}
Starting(i) == pc[i] \in {"read", "kill0", "open", "write", "signal"}
Running(i)  == pc[i] \in {"loop", "unlink"}

StartInit ==
  /\ pc = [i \in Inst |-> "new"]
  /\ seen = [i \in Inst |-> Absent]
  /\ pid_file \in {Absent, Empty}
  /\ writers = {}
  /\ stop_flag = [i \in Inst |-> FALSE]

Goto(i, step) == pc' = [pc EXCEPT ![i] = step]

\* Somebody runs fmd.
Start(i) ==
  /\ pc[i] = "new"
  /\ Serial => \A j \in Inst : ~Starting(j)
  /\ Goto(i, "read")
  /\ UNCHANGED <<seen, pid_file, writers, stop_flag>>

\* get_running_pid: fopen and fscanf ...
ReadPid(i) ==
  /\ pc[i] = "read"
  /\ seen' = [seen EXCEPT ![i] = pid_file]
  /\ Goto(i, "kill0")
  /\ UNCHANGED <<pid_file, writers, stop_flag>>

\* Mutant: the answer of kill(pid, 0) is read the wrong way round.
KillZeroBlind(i) ==
  /\ pc[i] = "kill0"
  /\ Goto(i, "open")
  /\ UNCHANGED <<seen, pid_file, writers, stop_flag>>

\* ... and kill(pid, 0): a pid of a live process ends this invocation.
KillZero(i) ==
  /\ pc[i] = "kill0"
  /\ Goto(i, IF seen[i] \in Inst /\ Alive(seen[i]) THEN "gone" ELSE "open")
  /\ UNCHANGED <<seen, pid_file, writers, stop_flag>>

\* set_running_pid: fopen(PID_FILE, "w+") truncates; when it fails main exits.
OpenPidFile(i) ==
  /\ pc[i] = "open"
  /\ \/ /\ pid_file' = Empty
        /\ writers' = writers \cup {i}
        /\ Goto(i, "write")
     \/ /\ Goto(i, "gone")
        /\ UNCHANGED <<pid_file, writers>>
  /\ UNCHANGED <<seen, stop_flag>>

\* set_running_pid: fprintf and fclose.  A file that has been unlinked since
\* takes the pid with it.
WritePid(i) ==
  /\ pc[i] = "write"
  /\ pid_file' = IF i \in writers THEN i ELSE pid_file
  /\ writers' = writers \ {i}
  /\ Goto(i, "signal")
  /\ UNCHANGED <<seen, stop_flag>>

\* signal(SIGTERM, signal_term), then the modules are loaded and the main
\* loop is entered.
InstallHandler(i) ==
  /\ pc[i] = "signal"
  /\ Goto(i, "loop")
  /\ UNCHANGED <<seen, pid_file, writers, stop_flag>>

\* fmd -k: SIGTERM to the pid in the file, if it is alive.  Before the handler
\* is installed the signal ends the daemon at once, and the file stays.
KillDaemon ==
  /\ pid_file \in Inst /\ Alive(pid_file)
  /\ IF Running(pid_file)
       THEN stop_flag' = [stop_flag EXCEPT ![pid_file] = TRUE] /\ UNCHANGED pc
       ELSE Goto(pid_file, "gone") /\ UNCHANGED stop_flag
  /\ UNCHANGED <<seen, pid_file, writers>>

\* while (!stop_flag).
LeaveLoop(i) ==
  /\ pc[i] = "loop" /\ stop_flag[i]
  /\ Goto(i, "unlink")
  /\ UNCHANGED <<seen, pid_file, writers, stop_flag>>

\* unlink(PID_FILE): whatever file is there by then; main returns.
Unlink(i) ==
  /\ pc[i] = "unlink"
  /\ pid_file' = Absent /\ writers' = {}
  /\ Goto(i, "gone")
  /\ UNCHANGED <<seen, stop_flag>>

\* The process dies at any point and leaves the file as it is.
Crash(i) ==
  /\ Alive(i)
  /\ Goto(i, "gone")
  /\ writers' = writers \ {i}
  /\ UNCHANGED <<seen, pid_file, stop_flag>>

Invocation(i) ==
  \/ Start(i) \/ ReadPid(i) \/ KillZero(i) \/ OpenPidFile(i)
  \/ WritePid(i) \/ InstallHandler(i) \/ LeaveLoop(i) \/ Unlink(i) \/ Crash(i)

StartNext == (\E i \in Inst : Invocation(i)) \/ KillDaemon

StartSpec == StartInit /\ [][StartNext]_startvars

-----------------------------------------------------------------------------
(* Properties.                                                             *)

PC == {"new", "read", "kill0", "open", "write", "signal", "loop",
       "unlink", "gone"}

\* Every variable has its type, and only a daemon that is about to write its
\* pid has the file open.
StartTypeOK ==
  /\ pc \in [Inst -> PC]
  /\ seen \in [Inst -> Inst \cup {Absent, Empty}]
  /\ pid_file \in Inst \cup {Absent, Empty}
  /\ writers \subseteq {i \in Inst : pc[i] = "write"}
  /\ stop_flag \in [Inst -> BOOLEAN]

\* fmd -k finds the daemon that runs, and a second start meets its pid:
\* crashes, stale files, refused starts and stops leave the pid of the
\* running daemon in the file.  It follows that only one runs.
PidFileNamesDaemon == \A i \in Inst : Running(i) => pid_file = i
=============================================================================
