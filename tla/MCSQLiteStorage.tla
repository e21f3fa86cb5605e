--------------------------- MODULE MCSQLiteStorage ---------------------------
(***************************************************************************)
(* SQLiteStorage for TLC: three goroutines, each of which may write and    *)
(* clean up (in the agent one only cleans up), and batches that share a    *)
(* timestamp with, lie before or straddle a cutoff.  The state space is    *)
(* finite without a bound: rows that were deleted or refused can be        *)
(* submitted again as new ones.                                            *)
(***************************************************************************)
EXTENDS SQLiteStorage

MCRow == [id : {1, 2}, ts : {1, 2}]

Old1 == [id |-> 1, ts |-> 1]
New1 == [id |-> 1, ts |-> 2]
Old2 == [id |-> 2, ts |-> 1]
New2 == [id |-> 2, ts |-> 2]

MCBatch == {<<Old1, New1>>, <<Old2>>, <<New2>>}
=============================================================================
