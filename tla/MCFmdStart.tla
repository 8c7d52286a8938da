----------------------------- MODULE MCFmdStart -----------------------------
(* FmdStart for TLC: the invocations are interchangeable.                  *)
EXTENDS FmdStart, TLC

Sym == Permutations(Inst)
=============================================================================
