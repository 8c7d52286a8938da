----------------------------- MODULE AgentConf ------------------------------
(***************************************************************************)
(* The configuration file of an agent, <agent>_mod.conf, in evt_agent.c:   *)
(* parse_config reads it when the agent is loaded, update_conf rewrites it *)
(* while the agent runs: the lines are copied to a temporary file, with    *)
(* the new value in the place of the old, and the temporary file is        *)
(* renamed over the old one.  Every call may fail, and the daemon may die  *)
(* between any two of them.                                                *)
(*                                                                         *)
(* A line is a comment, blank, the event_handle_mode directive with or     *)
(* without an option, or anything else; MAXLINE is never reached.  The     *)
(* last line of a file may lack its newline, and what is written next then *)
(* goes on with it.                                                        *)
(***************************************************************************)
EXTENDS Naturals, Sequences, SequencesExt

CONSTANTS Option,      \* words given as handle mode, in the file or in a request
          Mode,        \* those set_evt_handle_mode knows
          Default,     \* EVENT_HANDLE_MODE_AUTO
          Absent,      \* no file
          MaxLines     \* bound: lines of the first file

ASSUME ConfAssumption ==
  /\ Mode \subseteq Option /\ Default \in Mode
  /\ MaxLines \in Nat

VARIABLES conf,   \* the lines of the file, or Absent
          first,  \* the lines it had at the start
          tmp,    \* what has been written to the temporary file, or Absent
          rest,   \* the lines update_conf has yet to read
          mem,    \* evt_handle_mode in memory; Absent when the agent is not loaded
          value,  \* the value to set
          found,  \* direct_update
          upc,    \* update_conf: its next step, or "idle"
          ack,    \* the value of the last update that returned 0, or Absent
          drift   \* a rename has failed since the file was last read or replaced

vars == <<conf, first, tmp, rest, mem, value, found, upc, ack, drift>>

Comment    == [kind |-> "comment"]
CommentEof == [kind |-> "comment at eof"]   \* a last line without newline
Blank      == [kind |-> "blank"]
BlankEof   == [kind |-> "blank at eof"]
Bare       == [kind |-> "bare"]             \* the directive without an option
Other      == [kind |-> "other"]
Handle(v)  == [kind |-> "mode", opt |-> v]
Line       == {Comment, CommentEof, Blank, BlankEof, Bare, Other} \cup {Handle(v) : v \in Option}

\* update_conf finds its directive; a newline is written behind it in any case.
IsDirective(l) == l.kind \in {"mode", "bare"}

\* No file is neither a file nor a mode.
ASSUME AbsentAssumption == Absent \notin Option \cup Seq(Line)

Lines(file) == IF file = Absent THEN <<>> ELSE file

-----------------------------------------------------------------------------
(* parse_config: every known value is set as it is met, so the last one    *)
(* counts; an unknown directive or value makes the agent refuse to load.   *)

Known(lines) == {i \in DOMAIN lines : lines[i].kind = "mode" /\ lines[i].opt \in Mode}
Reads(lines) ==
  IF Known(lines) = {} THEN Default
  ELSE lines[CHOOSE i \in Known(lines) : \A j \in Known(lines) : j <= i].opt

Loads(lines) ==
  \A i \in DOMAIN lines :
    lines[i] # Other /\ (lines[i].kind = "mode" => lines[i].opt \in Mode)

\* agent_module_conf2: an agent that is not loaded has no mode.
Load(lines) == IF Loads(lines) THEN Reads(lines) ELSE Absent

-----------------------------------------------------------------------------
\* Only the last line can lack its newline.
File == {lines \in SeqOf(Line, MaxLines) :
           \A i \in DOMAIN lines : i < Len(lines) => lines[i] \notin {CommentEof, BlankEof}}

Init ==
  /\ conf \in File \cup {Absent}
  /\ first = Lines(conf)
  /\ tmp = Absent /\ rest = <<>>
  /\ mem = Load(Lines(conf))
  /\ value = Default /\ found = FALSE /\ upc = "idle" /\ ack = Absent /\ drift = FALSE

\* agent_module_update_conf: a request for a loaded agent.
Begin(v) ==
  /\ upc = "idle" /\ mem # Absent
  /\ value' = v /\ found' = FALSE /\ upc' = "open" /\ ack' = Absent
  /\ UNCHANGED <<conf, first, tmp, rest, mem, drift>>

Fail == upc' = "idle" /\ UNCHANGED <<first, mem, value, found, ack>>

\* fopen, which creates a file that does not exist.
OpenConf ==
  /\ upc = "open"
  /\ conf' = Lines(conf) /\ rest' = Lines(conf)
  /\ upc' = "mkstemp"
  /\ UNCHANGED <<first, tmp, mem, value, found, ack, drift>>

OpenFails ==
  /\ upc = "open"
  /\ Fail /\ UNCHANGED <<conf, tmp, rest, drift>>

\* mkstemp and fdopen.
MakeTemp ==
  /\ upc = "mkstemp"
  /\ tmp' = <<>> /\ upc' = "copy"
  /\ UNCHANGED <<conf, first, rest, mem, value, found, ack, drift>>

MakeTempFails ==
  /\ upc = "mkstemp"
  /\ Fail /\ UNCHANGED <<conf, tmp, rest, drift>>

\* One line of the loop that is not the directive.
CopyLine ==
  /\ upc = "copy" /\ rest # <<>>
  /\ ~IsDirective(Head(rest))
  /\ tmp' = Append(tmp, Head(rest)) /\ rest' = Tail(rest)
  /\ UNCHANGED <<conf, first, mem, value, found, upc, ack, drift>>

\* Mutant: the memory is changed before the value is looked at.
SetValueBlind(written) ==
  /\ mem' = value
  /\ IF value \in Mode
       THEN tmp' = written /\ UNCHANGED upc
       ELSE tmp' = Absent /\ upc' = "idle"

\* set_func and fprintf, or "goto out", which removes the temporary file.
SetValue(written) ==
  IF value \in Mode
    THEN mem' = value /\ tmp' = written /\ UNCHANGED upc
    ELSE tmp' = Absent /\ upc' = "idle" /\ UNCHANGED mem

\* Mutant: only the first line of the directive is replaced.
ReplaceLineOnce ==
  /\ upc = "copy" /\ rest # <<>>
  /\ IsDirective(Head(rest))
  /\ IF found THEN tmp' = Append(tmp, Head(rest)) /\ UNCHANGED <<mem, upc>>
     ELSE SetValue(Append(tmp, Handle(value)))
  /\ rest' = Tail(rest) /\ found' = TRUE
  /\ UNCHANGED <<conf, first, value, ack, drift>>

\* One line of the loop that is the directive.
ReplaceLine ==
  /\ upc = "copy" /\ rest # <<>>
  /\ IsDirective(Head(rest))
  /\ SetValue(Append(tmp, Handle(value)))
  /\ rest' = Tail(rest) /\ found' = TRUE
  /\ UNCHANGED <<conf, first, value, ack, drift>>

\* A line written behind the others.  It becomes part of a last line that has no
\* newline: of a comment for good, while blanks before a directive do no harm.
Added(lines, l) ==
  LET n == Len(lines)
  IN IF n = 0 \/ lines[n] \notin {CommentEof, BlankEof} THEN Append(lines, l)
     ELSE [lines EXCEPT ![n] = IF lines[n] = CommentEof THEN Comment ELSE l]

\* The end of the loop with the directive not found: it is added.
AddLine ==
  /\ upc = "copy" /\ rest = <<>> /\ ~found
  /\ SetValue(Added(tmp, Handle(value)))
  /\ found' = TRUE
  /\ UNCHANGED <<conf, first, rest, value, ack, drift>>

CloseFiles ==
  /\ upc = "copy" /\ rest = <<>> /\ found
  /\ upc' = "rename"
  /\ UNCHANGED <<conf, first, tmp, rest, mem, value, found, ack, drift>>

\* Mutant: the old file is truncated before the new one is in its place.
RenameInPlace ==
  /\ upc = "rename"
  /\ IF conf # <<>>
       THEN /\ conf' = <<>>
            /\ UNCHANGED <<tmp, upc, ack, drift>>
       ELSE /\ conf' = tmp /\ tmp' = Absent
            /\ upc' = "idle" /\ ack' = value /\ drift' = FALSE
  /\ UNCHANGED <<first, rest, mem, value, found>>

Rename ==
  /\ upc = "rename"
  /\ conf' = tmp /\ tmp' = Absent
  /\ upc' = "idle" /\ ack' = value /\ drift' = FALSE
  /\ UNCHANGED <<first, rest, mem, value, found>>

\* A failed rename: "goto out" closes both files once more and returns -1, if
\* the second fclose does not end the daemon (Die).  The memory keeps the value.
RenameFailed ==
  /\ upc = "rename"
  /\ tmp' = Absent /\ drift' = TRUE
  /\ Fail /\ UNCHANGED <<conf, rest>>

\* The daemon dies and is started again; a temporary file is left behind.
Die ==
  /\ upc' = "idle" /\ tmp' = Absent /\ rest' = <<>> /\ found' = FALSE
  /\ mem' = Load(Lines(conf)) /\ drift' = FALSE
  /\ UNCHANGED <<conf, first, value, ack>>

UpdateConf ==
  \/ OpenConf \/ OpenFails \/ MakeTemp \/ MakeTempFails \/ CopyLine \/ ReplaceLine
  \/ AddLine \/ CloseFiles \/ Rename \/ RenameFailed

Next == (\E v \in Option : Begin(v)) \/ UpdateConf \/ Die

Spec == Init /\ [][Next]_vars

-----------------------------------------------------------------------------
(* Properties.                                                             *)

\* Every variable has its type; a temporary file exists only inside the loop
\* and until the rename.
TypeOK ==
  /\ conf = Absent \/ conf \in Seq(Line)
  /\ tmp = Absent \/ tmp \in Seq(Line)
  /\ tmp # Absent <=> upc \in {"copy", "rename"}
  /\ rest \in Seq(Line) /\ first \in Seq(Line)
  /\ mem \in Mode \cup {Absent} /\ value \in Option /\ found \in BOOLEAN
  /\ upc \in {"idle", "open", "mkstemp", "copy", "rename"}
  /\ ack \in Mode \cup {Absent} /\ drift \in BOOLEAN

\* The added directive would become part of a comment.
Swallows(lines) ==
  /\ lines # <<>> /\ lines[Len(lines)] = CommentEof
  /\ \A i \in DOMAIN lines : ~IsDirective(lines[i])

\* An update that returned 0 outlives the daemon: until the next update, a
\* restart reads that value back, however many lines named the directive, and
\* when there was none.  (Not so when the first file ends in a comment without a
\* newline and has no directive: the first update is acknowledged and lost.)
AckDurable ==
  ack # Absent /\ ~Swallows(first) => Reads(Lines(conf)) = ack /\ Load(Lines(conf)) = ack

\* Whatever fails and whenever the daemon dies, the file keeps every line that
\* is not the directive, at its place, and gets no others, but that a last line
\* without newline is ended or, when blank, becomes the directive; and a file the
\* agent could be loaded from stays one.
Becomes(l, m) ==
  IF IsDirective(l) THEN IsDirective(m)
  ELSE \/ m = l
       \/ l = CommentEof /\ m = Comment
       \/ l = BlankEof /\ IsDirective(m)
KeepsTheRest(old, new) ==
  /\ Len(old) <= Len(new)
  /\ \A i \in 1 .. Len(new) :
       IF i <= Len(old) THEN Becomes(old[i], new[i]) ELSE IsDirective(new[i])
ConfKept ==
  /\ KeepsTheRest(first, Lines(conf))
  /\ Loads(first) => Loads(Lines(conf))

\* Between updates the agent works in the mode a restart would give it, also
\* after updates that failed; only a failed rename, which comes after the memory
\* has changed, leaves the two apart, and the next update that works or the next
\* restart brings them together again.  (And not so where AckDurable is not.)
MemoryAgrees == upc = "idle" /\ ~drift /\ ~Swallows(first) => mem = Load(Lines(conf))
=============================================================================
