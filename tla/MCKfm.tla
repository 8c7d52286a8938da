-------------------------------- MODULE MCKfm -------------------------------
(* Kfm for TLC: two invocations of kfmadm on two CPUs, and two processes   *)
(* that write to the unload sysctl.                                        *)
EXTENDS Kfm, TLC
=============================================================================
