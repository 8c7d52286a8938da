------------------------------ MODULE MCFmdAdm ------------------------------
(* FmdAdm for TLC: the commands the clients of a run give.                 *)
EXTENDS FmdAdm

CONSTANTS m1, m2

Loads    == {[op |-> o, mod |-> m] : o \in {"load", "unload"}, m \in Module}
ModCmds  == Loads \cup {[op |-> "modlist"]}
CrossCmds == {[op |-> "load", mod |-> m1], [op |-> "config"]}
TextCmds == ModCmds \cup {[op |-> "config"]}
CaseCmds == {CaseList(0), [op |-> "repaired"]}
AllCmds  == TextCmds \cup CaseCmds
=============================================================================
