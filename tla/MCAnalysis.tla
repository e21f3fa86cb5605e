------------------------------ MODULE MCAnalysis ------------------------------
(***************************************************************************)
(* Analysis for TLC: three batches (CPU, memory, containers make a report) *)
(* over three seconds; the window and the retention of one second let a    *)
(* row leave the table while an analysis that must see it is in progress.  *)
(***************************************************************************)
EXTENDS Analysis
=============================================================================
