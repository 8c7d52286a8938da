----------------------------- MODULE MCFmdRing ------------------------------
(* FmdRing for TLC: two source threads, a ring of two slots, and more event *)
(* objects than the ring holds.                                             *)
EXTENDS FmdRing

CONSTANTS p1, p2

MCProducer == {p1, p2}
=============================================================================
