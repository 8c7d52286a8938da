----------------------------- MODULE MCFmdTimer -----------------------------
(* FmdTimer for TLC: a source that is due at every second, and one that is  *)
(* not and may hang.                                                        *)
EXTENDS FmdTimer

CONSTANTS s1, s2

MCSrc      == {s1, s2}
MCTimers   == <<s2, s1>>
MCInterval == [s \in MCSrc |-> IF s = s1 THEN 1 ELSE 2]
=============================================================================
