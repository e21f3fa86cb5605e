-------------------------------- MODULE Agent --------------------------------
(***************************************************************************)
(* The agent of cmd/agent/main.go: the collectors of the Manager and the   *)
(* cleanup goroutine use one SQLiteStorage, in a process that starts, is   *)
(* told to stop, may die at any point and may be started again on the same *)
(* database.                                                               *)
(*                                                                         *)
(* Time is a clock that may advance between any two steps; tickers fire    *)
(* whenever they like, so nothing here depends on the length of an         *)
(* interval.  It does not go backwards (no clock adjustment).              *)
(***************************************************************************)
EXTENDS Integers, Sequences, FiniteSets

CONSTANTS
  Collector,   \* the enabled collectors
  Cleaner,     \* the goroutine of runCleanup
  Nobody,      \* the owner of a free write lock
  Retention,   \* retention_days, in the clock's unit
  MaxTime,     \* bound on the clock
  MaxBatch,    \* bound on the metrics of a collection
  MaxRound,    \* bound on the batches a collector makes
  MaxStarts    \* bound on the starts of the process

\* LoadConfig gives a missing retention a default (config.go:86-88).
ASSUME AgentAssumption ==
  /\ IsFiniteSet(Collector) /\ Collector # {}
  /\ Cleaner \notin Collector /\ Nobody \notin Collector \cup {Cleaner}
  /\ Retention \in Nat /\ MaxTime \in Nat
  /\ MaxBatch \in Nat \ {0} /\ MaxRound \in Nat /\ MaxStarts \in Nat

VARIABLES
  pc, ticks, ctx, wg, stop,    \* the Manager's
  db, lock, open, call,        \* the SQLiteStorage's
  main,                        \* where main() is; "down": there is no process
  got,                         \* what the Collect in progress has measured
  now,                         \* the clock
  round,                       \* how many batches each collector has made
  starts,                      \* how often the process was started
  sent,                        \* history: the batches given to WriteMetrics
  purged                       \* history: the latest cutoff of a DELETE

mgrVars == <<pc, ticks, ctx, wg, stop>>
storeVars == <<db, lock, open, call>>
history == <<sent, purged>>
vars == <<mgrVars, storeVars, main, got, now, round, starts, history>>

\* A row; src, no and i tell it from every other row.
Row == [src : Collector, no : 1 .. MaxRound, i : 1 .. MaxBatch, ts : 0 .. MaxTime]
Batch == UNION {[1 .. k -> Row] : k \in 1 .. MaxBatch}

Mgr == INSTANCE Manager
Store == INSTANCE SQLiteStorage
           WITH Client <- Collector \cup {Cleaner}, Cutoff <- Int

Init ==
  /\ Mgr!Init
  /\ Store!Init
  /\ main = "down"
  /\ got = [c \in Collector |-> <<>>]
  /\ now = 0
  /\ round = [c \in Collector |-> 0]
  /\ starts = 0
  /\ sent = {}
  /\ purged = 0

-----------------------------------------------------------------------------
MainGoes(from, to) == main = from /\ main' = to

\* main() up to manager.Start(); a log.Fatalf on the way is a Crash.
Boot ==
  /\ starts < MaxStarts
  /\ MainGoes("down", "booting")
  /\ Store!Open
  /\ starts' = starts + 1
  /\ UNCHANGED <<mgrVars, got, now, round, history>>

StartCollector(c) ==
  /\ main = "booting"
  /\ Mgr!Start(c)
  /\ UNCHANGED <<storeVars, main, got, now, round, starts, history>>

\* go runCleanup, signal.Notify; main waits on sigChan.  A signal that comes
\* before Notify kills the process: a Crash.
StartCleanup ==
  /\ \A c \in Collector : pc[c] # "absent"
  /\ MainGoes("booting", "running")
  /\ UNCHANGED <<mgrVars, storeVars, got, now, round, starts, history>>

\* SIGINT or SIGTERM; main calls manager.Stop().
Signal ==
  /\ MainGoes("running", "stopping")
  /\ Mgr!Stop
  /\ UNCHANGED <<storeVars, got, now, round, starts, history>>

StopReturns ==
  /\ MainGoes("stopping", "stopped")
  /\ Mgr!StopReturns
  /\ UNCHANGED <<storeVars, got, now, round, starts, history>>

\* The deferred store.Close() of main.
Close ==
  /\ MainGoes("stopped", "closed")
  /\ Store!Close
  /\ UNCHANGED <<mgrVars, got, now, round, starts, history>>

\* The process is gone, and every goroutine with it, the cleaner too.
Die ==
  /\ main' = "down"
  /\ Store!Crash
  /\ pc' = [c \in Collector |-> "absent"]
  /\ ticks' = [c \in Collector |-> FALSE]
  /\ ctx' = "live" /\ wg' = 0 /\ stop' = "notcalled"
  /\ got' = [c \in Collector |-> <<>>]
  /\ UNCHANGED <<now, round, starts, history>>

\* main returns.
Exit == main = "closed" /\ Die

Crash == main # "down" /\ Die

-----------------------------------------------------------------------------
\* The steps of a collector's goroutine outside Collect and WriteMetrics.
Loop(c) ==
  /\ Mgr!NewTicker(c) \/ Mgr!OnTick(c) \/ Mgr!OnDone(c)
  /\ UNCHANGED <<storeVars, main, got, now, round, starts, history>>

\* NewMetric takes the time of each metric by itself (metrics/types.go:31).
Measure(c) ==
  /\ pc[c] = "collect"
  /\ round[c] < MaxRound /\ Len(got[c]) < MaxBatch
  /\ got' = [got EXCEPT ![c] = Append(@, [src |-> c, no |-> round[c] + 1,
                                          i |-> Len(@) + 1, ts |-> now])]
  /\ UNCHANGED <<mgrVars, storeVars, main, now, round, starts, history>>

\* Collect returns what it measured and WriteMetrics begins.
CollectMetrics(c) ==
  /\ got[c] # <<>>
  /\ Mgr!CollectMetrics(c)
  /\ Store!WriteMetrics(c, got[c])
  /\ sent' = sent \cup {Store!RowsOf(got[c])}
  /\ got' = [got EXCEPT ![c] = <<>>]
  /\ round' = [round EXCEPT ![c] = @ + 1]
  /\ UNCHANGED <<main, now, starts, purged>>

\* Collect fails or has nothing, or Begin fails: what was measured is dropped.
CollectNothing(c) ==
  /\ Mgr!CollectNothing(c)
  /\ got' = [got EXCEPT ![c] = <<>>]
  /\ UNCHANGED <<storeVars, main, now, round, starts, history>>

Insert(c) ==
  /\ pc[c] = "write"
  /\ Store!Exec(c)
  /\ UNCHANGED <<mgrVars, main, got, now, round, starts, history>>

\* WriteMetrics returns, with or without an error.
WriteReturns(c) ==
  /\ Mgr!WriteReturns(c)
  /\ Store!Commit(c) \/ Store!WriteFails(c)
  /\ UNCHANGED <<main, got, now, round, starts, history>>

TickerFires(c) ==
  /\ Mgr!TickerFires(c)
  /\ UNCHANGED <<storeVars, main, got, now, round, starts, history>>

-----------------------------------------------------------------------------
\* Mutant of CleanupTick: the cutoff is rounded up.
CleanupTickAhead ==
  /\ main \in {"running", "stopping", "stopped"}
  /\ Store!DeleteOldMetrics(Cleaner, now - Retention + 1)
  /\ UNCHANGED <<mgrVars, main, got, now, round, starts, history>>

(***************************************************************************)
(* The ticker of runCleanup fires: the cutoff is taken now, the statements *)
(* run later.  Nothing waits for this goroutine: it goes on during Stop    *)
(* and Close, and a tick after Close only logs an error.                   *)
(***************************************************************************)
CleanupTick ==
  /\ main \in {"running", "stopping", "stopped"}
  /\ Store!DeleteOldMetrics(Cleaner, now - Retention)
  /\ UNCHANGED <<mgrVars, main, got, now, round, starts, history>>

CleanupDeletes ==
  /\ Store!DeleteDone(Cleaner)
  /\ purged' = IF call[Cleaner].before > purged
                 THEN call[Cleaner].before ELSE purged
  /\ UNCHANGED <<mgrVars, main, got, now, round, starts, sent>>

CleanupGoesOn ==
  /\ \/ Store!Lock(Cleaner)
     \/ Store!VacuumDone(Cleaner)
     \/ Store!CleanupFails(Cleaner)
  /\ UNCHANGED <<mgrVars, main, got, now, round, starts, history>>

\* Time passes.
ClockTick ==
  /\ now < MaxTime
  /\ now' = now + 1
  /\ UNCHANGED <<mgrVars, storeVars, main, got, round, starts, history>>

-----------------------------------------------------------------------------
Goroutine(c) ==
  \/ Loop(c)
  \/ Measure(c)
  \/ CollectMetrics(c)
  \/ CollectNothing(c)
  \/ Insert(c)
  \/ WriteReturns(c)

Next ==
  \/ Boot
  \/ StartCleanup
  \/ Signal
  \/ StopReturns
  \/ Close
  \/ Exit
  \/ Crash
  \/ CleanupTick
  \/ CleanupDeletes
  \/ CleanupGoesOn
  \/ ClockTick
  \/ \E c \in Collector : StartCollector(c) \/ Goroutine(c) \/ TickerFires(c)

(***************************************************************************)
(* As in Manager and SQLiteStorage.  The cleaner is given no fairness: a   *)
(* VACUUM may take as long as it likes, since writers time out.            *)
(***************************************************************************)
Fairness ==
  /\ WF_vars(StartCleanup) /\ WF_vars(StopReturns)
  /\ WF_vars(Close) /\ WF_vars(Exit)
  /\ \A c \in Collector : /\ WF_vars(StartCollector(c))
                          /\ WF_vars(Goroutine(c))
                          /\ SF_vars(Loop(c) /\ Mgr!OnDone(c))

Spec == Init /\ [][Next]_vars /\ Fairness

-----------------------------------------------------------------------------
TypeOK ==
  /\ Mgr!TypeOK
  /\ Store!TypeOK
  /\ main \in {"down", "booting", "running", "stopping", "stopped", "closed"}
  /\ \A c \in Collector : got[c] = <<>> \/ got[c] \in Batch
  /\ now \in 0 .. MaxTime
  /\ round \in [Collector -> 0 .. MaxRound]
  /\ starts \in 0 .. MaxStarts
  /\ purged \in 0 .. MaxTime

(***************************************************************************)
(* A collector that runs finds the database open, and when main closes it  *)
(* no collector is in a call or holds the write lock: the deferred Close   *)
(* (main.go:46-50) comes after every write that Stop found in progress     *)
(* (manager.go:80-85) has been committed or rolled back.                   *)
(***************************************************************************)
CloseAfterWriters ==
  \A c \in Collector :
    /\ Mgr!Running(c) => open
    /\ main \in {"stopped", "closed"} =>
         pc[c] = "done" /\ call[c].at = "idle" /\ lock # c

(***************************************************************************)
(* Every batch given to WriteMetrics is in the table as a whole, except    *)
(* for what a cleanup has removed, or not at all: through lock timeouts,   *)
(* failures, shutdown and crashes between any two inserts, and although    *)
(* a batch may straddle the cutoff (sqlite.go:68-114, 173).                *)
(***************************************************************************)
AllOrNothing ==
  \A b \in sent :
    \/ b \cap db = {}
    \/ \A r \in b : r \in db \/ r.ts < purged

(***************************************************************************)
(* No row disappears before its retention is over, although the cutoff is  *)
(* taken before the DELETE gets the lock and rows are written in between   *)
(* (main.go:93-96, sqlite.go:173).                                         *)
(***************************************************************************)
DeletesOnlyExpired == [][\A r \in db \ db' : r.ts + Retention < now]_vars

(***************************************************************************)
(* Once the signal is received the process ends: neither ticks, nor writes *)
(* in progress, nor a cleanup that holds the write lock keep it from it    *)
(* (main.go:71-76).                                                        *)
(***************************************************************************)
ShutdownCompletes == main = "stopping" ~> main = "down"
=============================================================================
