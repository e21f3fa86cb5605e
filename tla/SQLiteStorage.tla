---------------------------- MODULE SQLiteStorage ----------------------------
(***************************************************************************)
(* pkg/storage/sqlite.go as several goroutines use it at once: WriteMetrics*)
(* is a deferred SQL transaction with one INSERT for each metric, and      *)
(* DeleteOldMetrics is two statements, DELETE and VACUUM, each of them a   *)
(* transaction.  Every call has a connection of its own (database/sql opens*)
(* as many as are in use), so calls meet only at SQLite's write lock.      *)
(*                                                                         *)
(* External, as this code uses it: in WAL mode one connection at a time    *)
(* holds the write lock, from its first INSERT (or from the start of DELETE*)
(* and VACUUM) to its commit or rollback; a statement that cannot get the  *)
(* lock gives up after the driver's busy timeout; what is not committed is *)
(* gone when the process dies; DB.Close lets statements in progress end,   *)
(* those that wait for the lock included, but no other starts.             *)
(***************************************************************************)
EXTENDS Integers, Sequences

CONSTANTS
  Client,      \* the goroutines that use the storage
  Row,         \* rows; r.ts is the column timestamp
  Batch,       \* the sequences of metrics a WriteMetrics call may be given
  Cutoff,      \* the times DeleteOldMetrics may be given
  Nobody       \* the owner of the lock when it is free

\* collectAndStore never passes an empty slice (manager.go:115-117).
ASSUME StorageAssumption ==
  /\ Nobody \notin Client
  /\ \A r \in Row : r.ts \in Int
  /\ Batch \subseteq Seq(Row) \ {<<>>}
  /\ Cutoff \subseteq Int

VARIABLES
  db,          \* the committed rows of the table metrics
  lock,        \* who holds the write lock
  open,        \* between sql.Open and db.Close
  call         \* the call each goroutine is in

vars == <<db, lock, open, call>>

(***************************************************************************)
(* A call: where it is, the metrics of a WriteMetrics, how many of them    *)
(* are inserted, and the argument of a DeleteOldMetrics.                   *)
(***************************************************************************)
Stages == {"idle", "insert", "delete", "vacuum"}
Call == [at : Stages, batch : Seq(Row), n : Nat, before : Int]
NoCall == [at |-> "idle", batch |-> <<>>, n |-> 0, before |-> 0]

RowsOf(b) == {b[i] : i \in DOMAIN b}

\* What the calls of WriteMetrics in progress are to store.
Pending == [c \in Client |->
              IF call[c].at = "insert" THEN RowsOf(call[c].batch) ELSE {}]

Init ==
  /\ db = {}
  /\ lock = Nobody
  /\ open = FALSE
  /\ call = [c \in Client |-> NoCall]

-----------------------------------------------------------------------------
\* The call of c ends: connection and lock are given back.
Returns(c) ==
  /\ call' = [call EXCEPT ![c] = NoCall]
  /\ lock' = IF lock = c THEN Nobody ELSE lock

\* NewSQLiteStorage, in a process in which nothing uses the storage yet.
Open ==
  /\ ~open /\ \A c \in Client : call[c] = NoCall
  /\ open' = TRUE
  /\ UNCHANGED <<db, lock, call>>

(***************************************************************************)
(* WriteMetrics up to the loop.  A failure of Begin changes nothing, one   *)
(* of Prepare is a WriteFails.  The rows are new: each gets an id of its   *)
(* own from AUTOINCREMENT.                                                 *)
(***************************************************************************)
WriteMetrics(c, b) ==
  /\ open /\ call[c] = NoCall
  /\ RowsOf(b) \cap db = {} /\ \A d \in Client : RowsOf(b) \cap Pending[d] = {}
  /\ call' = [call EXCEPT ![c] = [NoCall EXCEPT !.at = "insert", !.batch = b]]
  /\ UNCHANGED <<db, lock, open>>

\* Mutant of Exec: no transaction, every INSERT is committed at once.
ExecAutocommit(c) ==
  /\ call[c].at = "insert" /\ call[c].n < Len(call[c].batch)
  /\ lock = Nobody
  /\ call' = [call EXCEPT ![c].n = @ + 1]
  /\ db' = db \cup {call[c].batch[call[c].n + 1]}
  /\ UNCHANGED <<lock, open>>

\* Mutant of Exec: one INSERT too many.
ExecOnceMore(c) ==
  /\ call[c].at = "insert" /\ call[c].n <= Len(call[c].batch)
  /\ lock \in {c, Nobody}
  /\ lock' = c
  /\ call' = [call EXCEPT ![c].n = @ + 1]
  /\ UNCHANGED <<db, open>>

\* stmt.Exec: the first INSERT of the transaction takes the write lock.
Exec(c) ==
  /\ call[c].at = "insert" /\ call[c].n < Len(call[c].batch)
  /\ lock \in {c, Nobody}
  /\ lock' = c
  /\ call' = [call EXCEPT ![c].n = @ + 1]
  /\ UNCHANGED <<db, open>>

\* tx.Commit
Commit(c) ==
  /\ call[c].at = "insert" /\ call[c].n = Len(call[c].batch)
  /\ db' = db \cup RowsOf(call[c].batch)
  /\ Returns(c)
  /\ UNCHANGED open

\* Mutant of WriteFails: the deferred Rollback is forgotten.
WriteFailsHolding(c) ==
  /\ call[c].at = "insert"
  /\ call' = [call EXCEPT ![c] = NoCall]
  /\ UNCHANGED <<db, lock, open>>

\* Mutant of WriteFails: a wait for the lock never times out.
WriteFailsUnlocked(c) ==
  /\ call[c].at = "insert" /\ lock = c
  /\ Returns(c)
  /\ UNCHANGED <<db, open>>

(***************************************************************************)
(* Prepare, an Exec (which may have waited for the lock in vain) or Commit *)
(* returns an error: the deferred Rollback undoes the inserts.             *)
(***************************************************************************)
WriteFails(c) ==
  /\ call[c].at = "insert"
  /\ Returns(c)
  /\ UNCHANGED <<db, open>>

-----------------------------------------------------------------------------
DeleteOldMetrics(c, t) ==
  /\ open /\ call[c] = NoCall
  /\ call' = [call EXCEPT ![c] = [NoCall EXCEPT !.at = "delete", !.before = t]]
  /\ UNCHANGED <<db, lock, open>>

\* DELETE or VACUUM gets the write lock.
Lock(c) ==
  /\ call[c].at \in {"delete", "vacuum"}
  /\ lock = Nobody
  /\ lock' = c
  /\ UNCHANGED <<db, open, call>>

\* DELETE FROM metrics WHERE timestamp < before; then VACUUM begins, or fails
\* if the storage has been closed.
DeleteDone(c) ==
  /\ call[c].at = "delete" /\ lock = c
  /\ db' = {r \in db : r.ts >= call[c].before}
  /\ IF open THEN call' = [call EXCEPT ![c].at = "vacuum"] /\ lock' = Nobody
             ELSE Returns(c)
  /\ UNCHANGED open

\* VACUUM rewrites the file, not the rows.
VacuumDone(c) ==
  /\ call[c].at = "vacuum" /\ lock = c
  /\ Returns(c)
  /\ UNCHANGED <<db, open>>

\* DELETE or VACUUM returns an error.
CleanupFails(c) ==
  /\ call[c].at \in {"delete", "vacuum"}
  /\ Returns(c)
  /\ UNCHANGED <<db, open>>

-----------------------------------------------------------------------------
\* db.Close
Close ==
  /\ open
  /\ open' = FALSE
  /\ UNCHANGED <<db, lock, call>>

\* The process ends, whatever it was doing.
Crash ==
  /\ open' = FALSE
  /\ lock' = Nobody
  /\ call' = [c \in Client |-> NoCall]
  /\ UNCHANGED db

\* A step of a call that has started.
Step(c) ==
  \/ Exec(c)
  \/ Commit(c)
  \/ WriteFails(c)
  \/ Lock(c)
  \/ DeleteDone(c)
  \/ VacuumDone(c)
  \/ CleanupFails(c)

Next ==
  \/ Open
  \/ Close
  \/ Crash
  \/ \E c \in Client :
       \/ \E b \in Batch : WriteMetrics(c, b)
       \/ \E t \in Cutoff : DeleteOldMetrics(c, t)
       \/ Step(c)

\* A call that has started goes on: every wait in it is bounded.
Fairness == \A c \in Client : WF_vars(Step(c))

Spec == Init /\ [][Next]_vars /\ Fairness

-----------------------------------------------------------------------------
TypeOK ==
  /\ db \subseteq Row
  /\ lock \in Client \cup {Nobody}
  /\ open \in BOOLEAN
  /\ call \in [Client -> Call]
  /\ \A c \in Client : call[c].n <= Len(call[c].batch)

(***************************************************************************)
(* A goroutine with uncommitted inserts holds the write lock, so there is  *)
(* one at most; and who holds the lock is in the middle of a call: no      *)
(* error path of WriteMetrics or DeleteOldMetrics returns with the lock    *)
(* held (sqlite.go:73-79, 82-111, 173-180).                                *)
(***************************************************************************)
LockDiscipline ==
  \A c \in Client :
    /\ call[c].n > 0 => lock = c
    /\ lock = c => \/ call[c].n > 0
                   \/ call[c].at \in {"delete", "vacuum"}

(***************************************************************************)
(* Whatever fails, times out, is interleaved or crashes, the table is one  *)
(* MetricStore allows: a batch is stored whole, once, or not at all        *)
(* (sqlite.go:68-114), and a cleanup removes only the oldest rows          *)
(* (sqlite.go:172-181).                                                    *)
(***************************************************************************)
Abstract == INSTANCE MetricStore WITH rows <- db, asked <- Pending

ImplementsMetricStore == Abstract!Spec

(***************************************************************************)
(* Every call returns, even when others take the lock again and again:     *)
(* the busy timeout bounds a wait (sqlite.go:101-110, 173-180).            *)
(***************************************************************************)
CallsReturn == \A c \in Client : call[c].at # "idle" ~> call[c].at = "idle"
=============================================================================
