----------------------------- MODULE MCManager -----------------------------
(***************************************************************************)
(* Manager for TLC.  Its state space is finite without any bound; three    *)
(* collectors let one be blocked in a call, one wait in the select and one *)
(* not have run yet.  Symmetry is not used: the run checks liveness.       *)
(***************************************************************************)
EXTENDS Manager

=============================================================================
