------------------------------- MODULE MCAgent -------------------------------
(***************************************************************************)
(* Agent for TLC.  Two collectors, two metrics in a batch and two times    *)
(* let a batch straddle a cutoff while the other collector waits for the   *)
(* lock; two starts let a second process find what a first one left.  A    *)
(* retention of zero, in units of this coarse clock, is one that is over   *)
(* as soon as the clock advances.                                          *)
(***************************************************************************)
EXTENDS Agent
=============================================================================
