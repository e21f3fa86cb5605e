--------------------------- MODULE MCDiskSampling ---------------------------
(***************************************************************************)
(* DiskSampling for TLC.  An interval is two units of time, so a call can  *)
(* end inside one.  Calls of up to five units drop two ticks; the clock    *)
(* goes on for six intervals, enough for two such calls.                   *)
(***************************************************************************)
EXTENDS DiskSampling
=============================================================================
