---------------------------- MODULE Agent_proofs ----------------------------
(***************************************************************************)
(* Proofs about Agent, for any finite set of collectors, any retention and *)
(* any bounds.  A step of the agent is a step of the Manager, or the end   *)
(* of the process, and a step of the SQLiteStorage, or leaves them alone:  *)
(* what is proved of these two holds in the agent.  The invariant adds     *)
(* what relates them to each other and to main.                            *)
(***************************************************************************)
EXTENDS Agent, FiniteSetTheorems, TLAPS

MgrP == INSTANCE Manager_proofs
StoreP == INSTANCE SQLiteStorage_proofs
            WITH Client <- Collector \cup {Cleaner}, Cutoff <- Int

\* main opens and closes the database and calls Stop in between.
MainOK ==
  /\ main \in {"down", "booting", "running", "stopping", "stopped", "closed"}
  /\ open <=> main \in {"booting", "running", "stopping", "stopped"}
  /\ main \in {"down", "booting", "running"} => stop = "notcalled"
  /\ main = "stopping" => stop = "waiting"
  /\ main \in {"stopped", "closed"} => stop = "returned"
  /\ main = "down" => \A c \in Collector : pc[c] = "absent"

\* A collector is in WriteMetrics when its goroutine is, the cleaner never.
CallsMatch ==
  /\ \A c \in Collector :
       call[c].at = IF pc[c] = "write" THEN "insert" ELSE "idle"
  /\ call[Cleaner].at # "insert"

Counts ==
  /\ now \in 0 .. MaxTime /\ purged \in 0 .. MaxTime
  /\ starts \in 0 .. MaxStarts /\ round \in [Collector -> 0 .. MaxRound]

\* What a Collect has measured so far is part of the next batch.
GotOK ==
  /\ got \in [Collector -> Batch \cup {<<>>}]
  /\ \A c \in Collector :
       got[c] # <<>> =>
         /\ pc[c] = "collect" /\ round[c] < MaxRound
         /\ \A r \in Store!RowsOf(got[c]) : r.src = c /\ r.no = round[c] + 1

(***************************************************************************)
(* The batches that were sent have no row in common, since each has its    *)
(* collector and number; the table and the calls in progress have nothing  *)
(* else.                                                                   *)
(***************************************************************************)
SentOK ==
  /\ \A b \in sent : b \subseteq Row /\ \A r \in b : r.no <= round[r.src]
  /\ \A a, b \in sent : a = b \/ a \cap b = {}
  /\ db \subseteq UNION sent
  /\ \A c \in Collector :
       call[c].at = "insert" => Store!RowsOf(call[c].batch) \in sent

\* The cutoff of a DELETE that waits for the lock was taken in the past.
CutoffOK == call[Cleaner].at = "delete" => call[Cleaner].before <= now - Retention

IInv ==
  /\ MgrP!IInv /\ StoreP!IInv
  /\ MainOK /\ CallsMatch /\ Counts /\ GotOK /\ SentOK /\ AllOrNothing /\ CutoffOK

-----------------------------------------------------------------------------
\* What Manager and SQLiteStorage assume of their constants.
LEMMA CollectorAssumed == MgrP!CollectorAssumption
BY AgentAssumption DEF IsFiniteSet, MgrP!IsFiniteSet, MgrP!CollectorAssumption

LEMMA BatchIsSeq == Batch \subseteq Seq(Row) \ {<<>>}
<1> SUFFICES ASSUME NEW k \in 1 .. MaxBatch, NEW b \in [1 .. k -> Row]
             PROVE  b \in Seq(Row) /\ b # <<>>
  BY AgentAssumption DEF Batch
<1> QED
  BY AgentAssumption

LEMMA StorageAssumed == StoreP!StorageAssumption
<1>1. \A r \in Row : r.ts \in Int
  BY AgentAssumption DEF Row
<1>2. Nobody \notin Collector \cup {Cleaner}
  BY AgentAssumption
<1> QED
  BY <1>1, <1>2, BatchIsSeq DEF StoreP!StorageAssumption

\* The variables of the two components, as the steps need them.
LEMMA Typed ==
  ASSUME IInv
  PROVE  /\ pc \in [Collector -> Mgr!Stages] /\ ticks \in [Collector -> BOOLEAN]
         /\ db \subseteq Row /\ call \in [Collector \cup {Cleaner} -> Store!Call]
BY DEF IInv, MgrP!IInv, MgrP!Shape, MgrP!Stages, Mgr!Stages,
   StoreP!IInv, StoreP!TypeOK, StoreP!Call, Store!Call, StoreP!Stages, Store!Stages

-----------------------------------------------------------------------------
(***************************************************************************)
(* The components' steps.                                                  *)
(***************************************************************************)
LEMMA MgrInit ==
  /\ MgrP!Init => MgrP!IInv
  /\ MgrP!Init' => MgrP!IInv'
<1>1. MgrP!Init => MgrP!IInv
  BY MgrP!InvInit, CollectorAssumed
<1>2. MgrP!Init' => MgrP!IInv'
  BY <1>1, PTL
<1> QED
  BY <1>1, <1>2

\* The end of the process takes the Manager back to its initial state.
LEMMA DieResets == Die => MgrP!Init'
BY DEF Die, MgrP!Init

LEMMA MgrStep ==
  ASSUME Next, ~Exit, ~Crash
  PROVE  [MgrP!Next]_MgrP!vars
<1> USE DEF mgrVars, MgrP!vars
<1>1. CASE Boot \/ StartCleanup \/ Close \/ CleanupTick \/ CleanupDeletes \/ CleanupGoesOn \/ ClockTick
  BY <1>1 DEF Boot, StartCleanup, Close, CleanupTick, CleanupDeletes, CleanupGoesOn, ClockTick
<1>2. CASE Signal
  BY <1>2 DEF Signal, Mgr!Stop, MgrP!Stop, MgrP!Next
<1>3. CASE StopReturns
  BY <1>3 DEF StopReturns, Mgr!StopReturns, MgrP!StopReturns, MgrP!Next
<1>4. ASSUME NEW c \in Collector, StartCollector(c) PROVE MgrP!Next
  BY <1>4 DEF StartCollector, Mgr!Start, MgrP!Start, Mgr!Goto, MgrP!Goto, MgrP!Next
<1>5. ASSUME NEW c \in Collector, TickerFires(c) PROVE MgrP!Next
  BY <1>5 DEF TickerFires, Mgr!TickerFires, MgrP!TickerFires, MgrP!Next
<1>6. ASSUME NEW c \in Collector, Goroutine(c) PROVE [MgrP!Next]_MgrP!vars
  <2> USE DEF Mgr!Goto, MgrP!Goto, MgrP!Next, MgrP!Run
  <2>1. CASE Loop(c)
    BY <2>1 DEF Loop, Mgr!NewTicker, MgrP!NewTicker, Mgr!OnTick, MgrP!OnTick,
       Mgr!OnDone, MgrP!OnDone
  <2>2. CASE Measure(c) \/ Insert(c)
    BY <2>2 DEF Measure, Insert
  <2>3. CASE CollectMetrics(c)
    BY <2>3 DEF CollectMetrics, Mgr!CollectMetrics, MgrP!CollectMetrics
  <2>4. CASE CollectNothing(c)
    BY <2>4 DEF CollectNothing, Mgr!CollectNothing, MgrP!CollectNothing
  <2>5. CASE WriteReturns(c)
    BY <2>5 DEF WriteReturns, Mgr!WriteReturns, MgrP!WriteReturns
  <2> QED
    BY <1>6, <2>1, <2>2, <2>3, <2>4, <2>5 DEF Goroutine
<1> QED
  BY <1>1, <1>2, <1>3, <1>4, <1>5, <1>6 DEF Next

LEMMA StoreStep ==
  ASSUME IInv, Next
  PROVE  [StoreP!Next]_StoreP!vars
<1> USE DEF storeVars, StoreP!vars
<1>1. CASE StartCleanup \/ Signal \/ StopReturns \/ ClockTick
  BY <1>1 DEF StartCleanup, Signal, StopReturns, ClockTick
<1>2. CASE Boot \/ Close \/ Exit \/ Crash
  BY <1>2 DEF Boot, Close, Exit, Crash, Die, Store!Open, StoreP!Open, Store!Close,
     StoreP!Close, Store!Crash, StoreP!Crash, StoreP!Next, Store!NoCall, StoreP!NoCall
<1>3. CASE CleanupTick
  <2>1. now - Retention \in Int
    BY AgentAssumption DEF IInv, Counts
  <2> QED
    BY <1>3, <2>1 DEF CleanupTick, Store!DeleteOldMetrics, StoreP!DeleteOldMetrics,
       Store!NoCall, StoreP!NoCall, StoreP!Next
<1>4. CASE CleanupDeletes
  BY <1>4 DEF CleanupDeletes, Store!DeleteDone, StoreP!DeleteDone, Store!Returns,
     StoreP!Returns, Store!NoCall, StoreP!NoCall, StoreP!Step, StoreP!Next
<1>5. CASE CleanupGoesOn
  BY <1>5 DEF CleanupGoesOn, Store!Lock, StoreP!Lock, Store!VacuumDone, StoreP!VacuumDone,
     Store!CleanupFails, StoreP!CleanupFails, Store!Returns, StoreP!Returns,
     Store!NoCall, StoreP!NoCall, StoreP!Step, StoreP!Next
<1>6. ASSUME NEW c \in Collector,
             StartCollector(c) \/ TickerFires(c) \/ Loop(c) \/ Measure(c) \/ CollectNothing(c)
      PROVE  UNCHANGED StoreP!vars
  BY <1>6 DEF StartCollector, TickerFires, Loop, Measure, CollectNothing
<1>7. ASSUME NEW c \in Collector, CollectMetrics(c) PROVE StoreP!Next
  <2>1. got[c] \in Batch
    BY <1>7 DEF CollectMetrics, IInv, GotOK
  <2> QED
    BY <1>7, <2>1 DEF CollectMetrics, Store!WriteMetrics, StoreP!WriteMetrics,
       Store!RowsOf, StoreP!RowsOf, Store!Pending, StoreP!Pending,
       Store!NoCall, StoreP!NoCall, StoreP!Next
<1>8. ASSUME NEW c \in Collector, Insert(c) PROVE StoreP!Next
  BY <1>8 DEF Insert, Store!Exec, StoreP!Exec, StoreP!Step, StoreP!Next
<1>9. ASSUME NEW c \in Collector, WriteReturns(c) PROVE StoreP!Next
  BY <1>9 DEF WriteReturns, Store!Commit, StoreP!Commit, Store!WriteFails, StoreP!WriteFails,
     Store!Returns, StoreP!Returns, Store!RowsOf, StoreP!RowsOf,
     Store!NoCall, StoreP!NoCall, StoreP!Step, StoreP!Next
<1> QED
  BY <1>1, <1>2, <1>3, <1>4, <1>5, <1>6, <1>7, <1>8, <1>9 DEF Next, Goroutine

LEMMA ComponentsKept == IInv /\ [Next]_vars => MgrP!IInv' /\ StoreP!IInv'
<1> SUFFICES ASSUME IInv, [Next]_vars PROVE MgrP!IInv' /\ StoreP!IInv'
  OBVIOUS
<1>1. [StoreP!Next]_StoreP!vars
  BY StoreStep DEF vars, storeVars, StoreP!vars
<1>2. StoreP!IInv'
  BY <1>1, StoreP!InvStep, StorageAssumed DEF IInv
<1>3. CASE Exit \/ Crash
  BY <1>2, <1>3, DieResets, MgrInit DEF Exit, Crash
<1>4. CASE ~Exit /\ ~Crash
  <2>1. [MgrP!Next]_MgrP!vars
    BY <1>4, MgrStep DEF vars, mgrVars, MgrP!vars
  <2> QED
    BY <1>2, <2>1, MgrP!InvStep, CollectorAssumed DEF IInv
<1> QED
  BY <1>3, <1>4

-----------------------------------------------------------------------------
(***************************************************************************)
(* What relates the components.                                            *)
(***************************************************************************)
Glue ==
  /\ MainOK /\ CallsMatch /\ Counts /\ GotOK /\ SentOK /\ AllOrNothing /\ CutoffOK

LEMMA InvInit == Init => IInv
<1> SUFFICES ASSUME Init PROVE IInv
  OBVIOUS
<1>1. MgrP!IInv
  BY MgrInit DEF Init, Mgr!Init, MgrP!Init
<1>2. StoreP!IInv
  <2>1. StoreP!Init
    BY DEF Init, Store!Init, StoreP!Init, Store!NoCall, StoreP!NoCall
  <2> QED
    BY <2>1, StoreP!InvInit, StorageAssumed
<1>3. MainOK /\ CallsMatch /\ GotOK /\ AllOrNothing /\ CutoffOK
  BY DEF Init, Mgr!Init, Store!Init, Store!NoCall, MainOK, CallsMatch, GotOK,
     AllOrNothing, CutoffOK
<1>4. Counts
  BY AgentAssumption DEF Init, Counts
<1>5. SentOK
  BY DEF Init, Store!Init, Store!NoCall, SentOK
<1> QED
  BY <1>1, <1>2, <1>3, <1>4, <1>5 DEF IInv

\* main's own steps, and the clock's.
LEMMA GlueMain ==
  ASSUME IInv, Boot \/ StartCleanup \/ Signal \/ StopReturns \/ Close \/ ClockTick
  PROVE  Glue'
<1> USE DEF IInv, Glue, MainGoes, mgrVars, storeVars, history
<1>1. UNCHANGED <<pc, db, call, got, round, sent, purged>>
  BY DEF Boot, StartCleanup, Signal, StopReturns, Close, ClockTick,
     Store!Open, Store!Close, Mgr!Stop, Mgr!StopReturns
<1>2. CallsMatch' /\ GotOK' /\ SentOK' /\ AllOrNothing'
  BY <1>1 DEF CallsMatch, GotOK, SentOK, AllOrNothing
<1>3. MainOK'
  BY DEF MainOK, Boot, StartCleanup, Signal, StopReturns, Close, ClockTick,
     Store!Open, Store!Close, Mgr!Stop, Mgr!StopReturns
<1>4. now' \in 0 .. MaxTime /\ now <= now' /\ starts' \in 0 .. MaxStarts
  BY AgentAssumption DEF Counts, Boot, StartCleanup, Signal, StopReturns, Close, ClockTick
<1>5. Counts'
  BY <1>1, <1>4 DEF Counts
<1>6. CutoffOK'
  <2>1. call[Cleaner].before \in Int
    BY Typed DEF Store!Call
  <2> QED
    BY <1>1, <1>4, <2>1, AgentAssumption DEF CutoffOK, Counts
<1> QED
  BY <1>2, <1>3, <1>5, <1>6

\* The end of the process: nothing is pending, nothing has been measured.
LEMMA GlueDies ==
  ASSUME IInv, Die
  PROVE  Glue'
<1>1. UNCHANGED <<db, now, round, starts, sent, purged>>
  BY DEF Die, Store!Crash, history
<1>2. MainOK' /\ CallsMatch' /\ CutoffOK'
  BY DEF Die, Store!Crash, Store!NoCall, MainOK, CallsMatch, CutoffOK
<1>3. GotOK'
  BY DEF Die, GotOK
<1>4. SentOK'
  BY <1>1 DEF Die, Store!Crash, Store!NoCall, IInv, SentOK
<1>5. Counts' /\ AllOrNothing'
  BY <1>1 DEF IInv, Counts, AllOrNothing
<1> QED
  BY <1>2, <1>3, <1>4, <1>5 DEF Glue

(***************************************************************************)
(* The cleaner: a row that a DELETE removes is below the latest cutoff,    *)
(* and cutoffs are never in the future.                                    *)
(***************************************************************************)
LEMMA GlueCleaner ==
  ASSUME IInv, CleanupTick \/ CleanupDeletes \/ CleanupGoesOn
  PROVE  Glue'
<1> USE DEF IInv, Glue, mgrVars, history
<1>1. UNCHANGED <<pc, stop, open, main, got, now, round, starts, sent>>
  BY DEF CleanupTick, CleanupDeletes, CleanupGoesOn, Store!DeleteOldMetrics,
     Store!DeleteDone, Store!Lock, Store!VacuumDone, Store!CleanupFails
<1>2. \E k : /\ call' = [call EXCEPT ![Cleaner] = k]
             /\ \/ k = [Store!NoCall EXCEPT !.at = "delete", !.before = now - Retention]
                \/ k = [call[Cleaner] EXCEPT !.at = "vacuum"]
                \/ k = Store!NoCall
                \/ k = call[Cleaner]
  <2>1. CASE CleanupTick
    BY <2>1 DEF CleanupTick, Store!DeleteOldMetrics
  <2>2. CASE CleanupDeletes
    BY <2>2 DEF CleanupDeletes, Store!DeleteDone, Store!Returns
  <2>3. CASE Store!Lock(Cleaner)
    BY <2>3, Typed DEF Store!Lock
  <2>4. CASE Store!VacuumDone(Cleaner) \/ Store!CleanupFails(Cleaner)
    BY <2>4 DEF Store!VacuumDone, Store!CleanupFails, Store!Returns
  <2> QED
    BY <2>1, <2>2, <2>3, <2>4 DEF CleanupGoesOn
<1>3. /\ \A c \in Collector : call'[c] = call[c]
      /\ \/ call'[Cleaner].at = "delete" /\ call'[Cleaner].before = now - Retention
         \/ call'[Cleaner].at \in {"vacuum", "idle"}
         \/ call'[Cleaner] = call[Cleaner]
  <2>1. call \in [Collector \cup {Cleaner} -> Store!Call] /\ Cleaner \notin Collector
    BY Typed, AgentAssumption
  <2>2. PICK k : /\ call' = [call EXCEPT ![Cleaner] = k]
                 /\ \/ k = [Store!NoCall EXCEPT !.at = "delete", !.before = now - Retention]
                    \/ k = [call[Cleaner] EXCEPT !.at = "vacuum"]
                    \/ k = Store!NoCall
                    \/ k = call[Cleaner]
    BY <1>2
  <2>3. call'[Cleaner] = k /\ \A c \in Collector : call'[c] = call[c]
    BY <2>1, <2>2
  <2>4. [call[Cleaner] EXCEPT !.at = "vacuum"].at = "vacuum"
    BY <2>1 DEF Store!Call
  <2>5. [Store!NoCall EXCEPT !.at = "delete", !.before = now - Retention].at = "delete"
    BY DEF Store!NoCall
  <2>6. [Store!NoCall EXCEPT !.at = "delete", !.before = now - Retention].before = now - Retention
    BY DEF Store!NoCall
  <2>7. Store!NoCall.at = "idle"
    BY DEF Store!NoCall
  <2> QED
    BY <2>2, <2>3, <2>4, <2>5, <2>6, <2>7
<1>4. MainOK' /\ CallsMatch' /\ GotOK'
  BY <1>1, <1>3 DEF MainOK, CallsMatch, GotOK
<1>5. CASE CleanupDeletes
  <2>1. /\ call[Cleaner].at = "delete" /\ call[Cleaner].before \in Int
        /\ db' = {r \in db : r.ts >= call[Cleaner].before}
        /\ purged' = IF call[Cleaner].before > purged
                       THEN call[Cleaner].before ELSE purged
        /\ call'[Cleaner].at \in {"vacuum", "idle"}
    BY <1>5, Typed DEF CleanupDeletes, Store!DeleteDone, Store!Returns, Store!NoCall, Store!Call
  <2>2. Counts'
    BY <1>1, <2>1, AgentAssumption DEF Counts, CutoffOK
  <2>3. SentOK'
    BY <1>1, <1>3, <2>1 DEF SentOK
  <2>4. AllOrNothing'
    <3>1. \A b \in sent : \A r \in b : r.ts \in Int
      BY DEF SentOK, Row
    <3>2. purged \in Int
      BY DEF Counts
    <3>3. \A r : r.ts \in Int /\ r.ts < purged => r.ts < purged'
      BY <2>1, <3>2
    <3>4. \A r : r.ts \in Int /\ r \in db => r \in db' \/ r.ts < purged'
      BY <2>1, <3>2
    <3> QED
      BY <1>1, <2>1, <3>1, <3>3, <3>4 DEF AllOrNothing
  <2>5. CutoffOK'
    BY <2>1 DEF CutoffOK
  <2> QED
    BY <1>4, <2>2, <2>3, <2>4, <2>5
<1>6. CASE CleanupTick \/ CleanupGoesOn
  <2>1. UNCHANGED <<db, purged>>
    BY <1>6 DEF CleanupTick, CleanupGoesOn, Store!DeleteOldMetrics, Store!Lock,
       Store!VacuumDone, Store!CleanupFails
  <2>2. Counts' /\ SentOK' /\ AllOrNothing'
    BY <1>1, <1>3, <2>1 DEF Counts, SentOK, AllOrNothing
  <2>3. CutoffOK'
    BY <1>1, <1>3, AgentAssumption DEF CutoffOK, Counts
  <2> QED
    BY <1>4, <2>2, <2>3
<1> QED
  BY <1>5, <1>6

\* A goroutine that goes from one stage to another outside its two calls.
LEMMA GlueGoto ==
  ASSUME IInv, NEW c \in Collector, NEW from, NEW to,
         Mgr!Goto(c, from, to), from \notin {"collect", "write"}, to # "write", main # "down",
         UNCHANGED <<stop, storeVars, main, got, now, round, starts, history>>
  PROVE  Glue'
<1>1. /\ pc[c] = from /\ pc'[c] = to
      /\ \A d \in Collector : d # c => pc'[d] = pc[d]
  BY Typed DEF Mgr!Goto
<1>2. CallsMatch' /\ GotOK'
  BY <1>1 DEF IInv, CallsMatch, GotOK, storeVars
<1> QED
  BY <1>2 DEF IInv, Glue, MainOK, Counts, SentOK, AllOrNothing, CutoffOK, storeVars, history

\* One more metric.
LEMMA AppendIsBatch ==
  ASSUME NEW g \in Batch \cup {<<>>}, Len(g) < MaxBatch, NEW r \in Row
  PROVE  /\ Append(g, r) \in Batch
         /\ \A x \in Store!RowsOf(Append(g, r)) : x = r \/ x \in Store!RowsOf(g)
<1>1. g \in Seq(Row)
  <2>1. CASE g = <<>>
    BY <2>1
  <2>2. CASE g \in Batch
    BY <2>2, BatchIsSeq
  <2> QED
    BY <2>1, <2>2
<1> DEFINE k == Len(g) + 1
           b == Append(g, r)
<1>2. k \in 1 .. MaxBatch /\ b \in Seq(Row) /\ Len(b) = k
  BY <1>1, AgentAssumption
<1>3. \A j \in 1 .. k : b[j] = r \/ (j \in DOMAIN g /\ b[j] = g[j])
  BY <1>1
<1> HIDE DEF k, b
<1>4. b \in [1 .. k -> Row] /\ DOMAIN b = 1 .. k
  BY <1>2
<1>5. b \in Batch
  BY <1>2, <1>4 DEF Batch
<1>6. \A x \in Store!RowsOf(b) : x = r \/ x \in Store!RowsOf(g)
  BY <1>3, <1>4 DEF Store!RowsOf
<1> QED
  BY <1>5, <1>6 DEF b

LEMMA GlueMeasure ==
  ASSUME IInv, NEW c \in Collector, Measure(c)
  PROVE  Glue'
<1> DEFINE r == [src |-> c, no |-> round[c] + 1, i |-> Len(got[c]) + 1, ts |-> now]
<1>1. /\ pc[c] = "collect" /\ round[c] < MaxRound /\ Len(got[c]) < MaxBatch
      /\ got' = [got EXCEPT ![c] = Append(got[c], r)]
      /\ UNCHANGED <<mgrVars, storeVars, main, now, round, starts, history>>
  BY DEF Measure
<1>2. got \in [Collector -> Batch \cup {<<>>}]
  BY DEF IInv, GotOK
<1>3. r \in Row
  <2>1. got[c] \in Seq(Row)
    <3>1. got[c] \in Batch \/ got[c] = <<>>
      BY <1>2
    <3>2. <<>> \in Seq(Row)
      OBVIOUS
    <3> QED
      BY <3>1, <3>2, BatchIsSeq
  <2>2. Len(got[c]) \in Nat
    BY <2>1
  <2>3. round[c] \in 0 .. MaxRound /\ now \in 0 .. MaxTime
    BY DEF IInv, Counts
  <2> QED
    BY <1>1, <2>2, <2>3, AgentAssumption DEF Row
<1> HIDE DEF r
<1>4. /\ Append(got[c], r) \in Batch
      /\ \A x \in Store!RowsOf(Append(got[c], r)) : x = r \/ x \in Store!RowsOf(got[c])
  BY <1>1, <1>2, <1>3, AppendIsBatch
<1>5. \A x \in Store!RowsOf(got[c]) : x.src = c /\ x.no = round[c] + 1
  <2>1. CASE got[c] = <<>>
    BY <2>1 DEF Store!RowsOf
  <2>2. CASE got[c] # <<>>
    BY <2>2 DEF IInv, GotOK
  <2> QED
    BY <2>1, <2>2
<1>6. GotOK'
  <2>1. got' \in [Collector -> Batch \cup {<<>>}]
    BY <1>1, <1>2, <1>4
  <2>2. SUFFICES ASSUME NEW d \in Collector, got'[d] # <<>>
        PROVE  /\ pc[d] = "collect" /\ round[d] < MaxRound
               /\ \A x \in Store!RowsOf(got'[d]) : x.src = d /\ x.no = round[d] + 1
    BY <1>1, <2>1 DEF GotOK, mgrVars
  <2>3. CASE d = c
    <3>1. r.src = c /\ r.no = round[c] + 1
      BY DEF r
    <3> QED
      BY <1>1, <1>2, <1>4, <1>5, <2>3, <3>1
  <2>4. CASE d # c
    BY <1>1, <1>2, <2>2, <2>4 DEF IInv, GotOK
  <2> QED
    BY <2>3, <2>4
<1> QED
  BY <1>1, <1>6 DEF IInv, Glue, MainOK, CallsMatch, Counts, SentOK, AllOrNothing, CutoffOK,
     mgrVars, storeVars, history

(***************************************************************************)
(* A batch is sent.  Its rows have a number that no row sent before has,   *)
(* so it has no row in common with another batch.                          *)
(***************************************************************************)
LEMMA GlueCollectMetrics ==
  ASSUME IInv, NEW c \in Collector, CollectMetrics(c)
  PROVE  Glue'
<1> DEFINE b == Store!RowsOf(got[c])
<1>1. /\ got[c] # <<>> /\ Mgr!Goto(c, "collect", "write")
      /\ got' = [got EXCEPT ![c] = <<>>]
      /\ round' = [round EXCEPT ![c] = @ + 1]
      /\ sent' = sent \cup {b} /\ b \cap db = {}
      /\ call' = [call EXCEPT ![c] = [Store!NoCall EXCEPT !.at = "insert", !.batch = got[c]]]
      /\ UNCHANGED <<stop, open, db, lock, main, now, starts, purged>>
  BY DEF CollectMetrics, Mgr!CollectMetrics, Store!WriteMetrics
<1>2. /\ \A d \in Collector : pc'[d] = IF d = c THEN "write" ELSE pc[d]
      /\ \A d \in Collector : got'[d] = IF d = c THEN <<>> ELSE got[d]
      /\ \A d \in Collector : round'[d] = IF d = c THEN round[d] + 1 ELSE round[d]
      /\ pc[c] = "collect"
  BY <1>1, Typed DEF Mgr!Goto, IInv, GotOK, Counts
<1>3. /\ call'[c].at = "insert" /\ call'[c].batch = got[c]
      /\ \A d \in Collector \cup {Cleaner} : d # c => call'[d] = call[d]
  BY <1>1, Typed DEF Store!NoCall
<1>4. Cleaner # c
  BY AgentAssumption
<1>5. \A d \in Collector : round[d] \in 0 .. MaxRound
  BY DEF IInv, Counts
<1>6. /\ got[c] \in Batch /\ round[c] < MaxRound
      /\ \A r \in b : r.src = c /\ r.no = round[c] + 1
  BY <1>1 DEF IInv, GotOK
<1>7. b \subseteq Row
  <2>1. got[c] \in Seq(Row)
    BY <1>6, BatchIsSeq
  <2> QED
    BY <2>1 DEF Store!RowsOf
<1>8. \A a \in sent : a \subseteq Row /\ \A r \in a : r.no <= round[r.src]
  BY DEF IInv, SentOK
<1>9. \A r \in Row : r.src \in Collector /\ r.no \in Int
  BY DEF Row
<1>10. \A a \in sent : a \cap b = {}
  <2>1. SUFFICES ASSUME NEW a \in sent, NEW r \in a, r \in b PROVE FALSE
    OBVIOUS
  <2>2. r.no <= round[c] /\ r.no = round[c] + 1
    BY <1>6, <1>8, <2>1
  <2> QED
    BY <1>5, <2>2
<1> HIDE DEF b
<1>11. MainOK'
  BY <1>1, <1>2 DEF IInv, MainOK
<1>12. CallsMatch'
  BY <1>2, <1>3, <1>4 DEF IInv, CallsMatch
<1>13. Counts'
  <2>1. round' \in [Collector -> 0 .. MaxRound]
    BY <1>1, <1>5, <1>6, AgentAssumption DEF IInv, Counts
  <2> QED
    BY <1>1, <2>1 DEF IInv, Counts
<1>14. GotOK'
  BY <1>1, <1>2 DEF IInv, GotOK
<1>15. SentOK'
  <2>1. \A a \in sent' : a \subseteq Row /\ \A r \in a : r.no <= round'[r.src]
    <3>1. \A r \in b : r.no <= round'[r.src]
      BY <1>2, <1>5, <1>6
    <3>2. \A a \in sent : \A r \in a : r.no <= round'[r.src]
      <4>1. \A d \in Collector : round[d] <= round'[d]
        BY <1>2, <1>5
      <4>2. SUFFICES ASSUME NEW a \in sent, NEW r \in a PROVE r.no <= round'[r.src]
        OBVIOUS
      <4>3. r.src \in Collector /\ r.no \in Int /\ r.no <= round[r.src]
        BY <1>8, <1>9
      <4>4. round[r.src] \in Int /\ round'[r.src] \in Int
        BY <1>2, <1>5, <4>3
      <4> QED
        BY <4>1, <4>3, <4>4
    <3> QED
      BY <1>1, <1>7, <1>8, <3>1, <3>2
  <2>2. \A x, y \in sent' : x = y \/ x \cap y = {}
    BY <1>1, <1>10 DEF IInv, SentOK
  <2>3. db' \subseteq UNION sent'
    BY <1>1 DEF IInv, SentOK
  <2>4. \A d \in Collector : call'[d].at = "insert" => Store!RowsOf(call'[d].batch) \in sent'
    BY <1>1, <1>3 DEF IInv, SentOK, b
  <2> QED
    BY <2>1, <2>2, <2>3, <2>4 DEF SentOK
<1>16. AllOrNothing'
  BY <1>1 DEF IInv, AllOrNothing
<1>17. CutoffOK'
  BY <1>1, <1>3, <1>4 DEF IInv, CutoffOK
<1> QED
  BY <1>11, <1>12, <1>13, <1>14, <1>15, <1>16, <1>17 DEF Glue

\* What was measured is dropped.
LEMMA GlueCollectNothing ==
  ASSUME IInv, NEW c \in Collector, CollectNothing(c)
  PROVE  Glue'
<1>1. /\ Mgr!Goto(c, "collect", "select") /\ got' = [got EXCEPT ![c] = <<>>]
      /\ UNCHANGED <<stop, storeVars, main, now, round, starts, history>>
  BY DEF CollectNothing, Mgr!CollectNothing
<1>2. /\ \A d \in Collector : pc'[d] = IF d = c THEN "select" ELSE pc[d]
      /\ pc[c] = "collect"
      /\ \A d \in Collector : got'[d] = IF d = c THEN <<>> ELSE got[d]
  BY <1>1, Typed DEF Mgr!Goto, IInv, GotOK
<1>3. MainOK' /\ CallsMatch'
  BY <1>1, <1>2 DEF storeVars, IInv, MainOK, CallsMatch
<1>4. GotOK'
  BY <1>1, <1>2 DEF IInv, GotOK
<1> QED
  BY <1>1, <1>3, <1>4 DEF IInv, Glue, Counts, SentOK, AllOrNothing, CutoffOK,
     storeVars, history

\* An INSERT, of which nobody knows before the commit.
LEMMA GlueInsert ==
  ASSUME IInv, NEW c \in Collector, Insert(c)
  PROVE  Glue'
<1>1. /\ call' = [call EXCEPT ![c].n = @ + 1]
      /\ UNCHANGED <<mgrVars, open, db, main, got, now, round, starts, history>>
  BY DEF Insert, Store!Exec
<1>2. \A d \in Collector \cup {Cleaner} :
        call'[d].at = call[d].at /\ call'[d].batch = call[d].batch
          /\ call'[d].before = call[d].before
  BY <1>1, Typed DEF Store!Call
<1>3. CallsMatch' /\ CutoffOK' /\ SentOK'
  BY <1>1, <1>2 DEF IInv, CallsMatch, CutoffOK, SentOK, mgrVars, history
<1> QED
  BY <1>1, <1>3 DEF IInv, Glue, MainOK, GotOK, Counts, AllOrNothing, mgrVars, history

(***************************************************************************)
(* The end of WriteMetrics: a commit stores one of the batches that were   *)
(* sent, with all its rows, and no row of another.                         *)
(***************************************************************************)
LEMMA GlueWriteReturns ==
  ASSUME IInv, NEW c \in Collector, WriteReturns(c)
  PROVE  Glue'
<1>1. /\ Mgr!Goto(c, "write", "select") /\ call' = [call EXCEPT ![c] = Store!NoCall]
      /\ UNCHANGED <<stop, open, main, got, now, round, starts, sent, purged>>
  BY DEF WriteReturns, Mgr!WriteReturns, Store!Commit, Store!WriteFails, Store!Returns, history
<1>2. /\ \A d \in Collector : pc'[d] = IF d = c THEN "select" ELSE pc[d]
      /\ pc[c] = "write"
      /\ call'[c].at = "idle"
      /\ \A d \in Collector \cup {Cleaner} : d # c => call'[d] = call[d]
      /\ Cleaner # c
  BY <1>1, Typed, AgentAssumption DEF Mgr!Goto, Store!NoCall
<1>3. MainOK' /\ CallsMatch' /\ CutoffOK' /\ GotOK' /\ Counts'
  BY <1>1, <1>2 DEF IInv, MainOK, CallsMatch, CutoffOK, GotOK, Counts
<1>4. db' = db \/ \E b \in sent : db' = db \cup b
  BY DEF WriteReturns, Store!Commit, Store!WriteFails, IInv, SentOK
<1>5. SentOK'
  BY <1>1, <1>2, <1>4 DEF IInv, SentOK
<1>6. AllOrNothing'
  <2>1. ASSUME NEW b \in sent, db' = db \cup b PROVE AllOrNothing'
    <3>1. SUFFICES ASSUME NEW a \in sent
          PROVE  a \cap db' = {} \/ \A r \in a : r \in db' \/ r.ts < purged
      BY <1>1 DEF AllOrNothing
    <3>2. a = b \/ a \cap b = {}
      BY DEF IInv, SentOK
    <3> QED
      BY <2>1, <3>2 DEF IInv, AllOrNothing
  <2> QED
    BY <1>1, <1>4, <2>1 DEF IInv, AllOrNothing
<1> QED
  BY <1>3, <1>5, <1>6 DEF Glue

LEMMA InvStep == IInv /\ [Next]_vars => IInv'
<1> SUFFICES ASSUME IInv, [Next]_vars PROVE IInv'
  OBVIOUS
<1>1. MgrP!IInv' /\ StoreP!IInv'
  BY ComponentsKept
<1>2. Glue'
  <2> USE DEF IInv
  <2>1. CASE Boot \/ StartCleanup \/ Signal \/ StopReturns \/ Close \/ ClockTick
    BY <2>1, GlueMain
  <2>2. CASE Exit \/ Crash
    BY <2>2, GlueDies DEF Exit, Crash
  <2>3. CASE CleanupTick \/ CleanupDeletes \/ CleanupGoesOn
    BY <2>3, GlueCleaner
  <2>4. ASSUME NEW c \in Collector, StartCollector(c) PROVE Glue'
    <3>1. Mgr!Goto(c, "absent", "spawned") /\ main = "booting"
      BY <2>4 DEF StartCollector, Mgr!Start
    <3> QED
      BY <2>4, <3>1, GlueGoto DEF StartCollector, Mgr!Start
  <2>5. ASSUME NEW c \in Collector, TickerFires(c) PROVE Glue'
    BY <2>5 DEF TickerFires, Mgr!TickerFires, Glue, MainOK, CallsMatch, Counts, GotOK,
       SentOK, AllOrNothing, CutoffOK, storeVars, history
  <2>6. ASSUME NEW c \in Collector, Loop(c) PROVE Glue'
    <3>1. main # "down"
      BY <2>6 DEF Loop, Mgr!NewTicker, Mgr!OnTick, Mgr!OnDone, Mgr!Goto, MainOK
    <3>2. \E from, to : /\ Mgr!Goto(c, from, to)
                        /\ from \notin {"collect", "write"} /\ to # "write"
      BY <2>6 DEF Loop, Mgr!NewTicker, Mgr!OnTick, Mgr!OnDone
    <3>3. UNCHANGED <<stop, storeVars, main, got, now, round, starts, history>>
      BY <2>6 DEF Loop, Mgr!NewTicker, Mgr!OnTick, Mgr!OnDone
    <3> QED
      BY <3>1, <3>2, <3>3, GlueGoto
  <2>7. ASSUME NEW c \in Collector, Measure(c) PROVE Glue'
    BY <2>7, GlueMeasure
  <2>8. ASSUME NEW c \in Collector, CollectMetrics(c) PROVE Glue'
    BY <2>8, GlueCollectMetrics
  <2>9. ASSUME NEW c \in Collector, CollectNothing(c) PROVE Glue'
    BY <2>9, GlueCollectNothing
  <2>10. ASSUME NEW c \in Collector, Insert(c) PROVE Glue'
    BY <2>10, GlueInsert
  <2>11. ASSUME NEW c \in Collector, WriteReturns(c) PROVE Glue'
    BY <2>11, GlueWriteReturns
  <2>12. CASE UNCHANGED vars
    BY <2>12 DEF vars, mgrVars, storeVars, history, Glue, MainOK, CallsMatch, Counts, GotOK,
       SentOK, AllOrNothing, CutoffOK
  <2> QED
    BY <2>1, <2>2, <2>3, <2>4, <2>5, <2>6, <2>7, <2>8, <2>9, <2>10, <2>11, <2>12
    DEF Next, Goroutine
<1> QED
  BY <1>1, <1>2 DEF IInv, Glue

LEMMA Invariance == Spec => []IInv
BY InvInit, InvStep, PTL DEF Spec

-----------------------------------------------------------------------------
(***************************************************************************)
(* The agent's variables are well typed, those of the Manager and of the   *)
(* SQLiteStorage too (main.go:22-102).                                     *)
(***************************************************************************)
THEOREM TypeCorrect == Spec => []TypeOK
<1>1. IInv => TypeOK
  <2> SUFFICES ASSUME IInv PROVE TypeOK
    OBVIOUS
  <2>1. Mgr!TypeOK
    <3>1. MgrP!TypeOK
      BY MgrP!InvTypes, CollectorAssumed DEF IInv
    <3>2. MgrP!Cardinality(Collector) = Mgr!Cardinality(Collector)
      BY DEF MgrP!Cardinality, Mgr!Cardinality
    <3> QED
      BY <3>1, <3>2 DEF MgrP!TypeOK, Mgr!TypeOK, MgrP!Stages, Mgr!Stages
  <2>2. Store!TypeOK
    BY DEF IInv, StoreP!IInv, StoreP!TypeOK, Store!TypeOK, StoreP!Call, Store!Call,
       StoreP!Stages, Store!Stages
  <2> QED
    BY <2>1, <2>2 DEF IInv, MainOK, Counts, GotOK, TypeOK
<1> QED
  BY <1>1, Invariance, PTL

(***************************************************************************)
(* The database is closed after every write of a collector has ended       *)
(* (main.go:46-50, manager.go:80-85).                                      *)
(***************************************************************************)
THEOREM ClosedAfterWriters == Spec => []CloseAfterWriters
<1>1. IInv => CloseAfterWriters
  <2> SUFFICES ASSUME IInv, NEW c \in Collector
               PROVE  /\ Mgr!Running(c) => open
                      /\ main \in {"stopped", "closed"} =>
                           pc[c] = "done" /\ call[c].at = "idle" /\ lock # c
    BY DEF CloseAfterWriters
  <2>1. main \in {"stopped", "closed"} => pc[c] = "done"
    BY DEF IInv, MainOK, MgrP!IInv, MgrP!StopMeansQuiet
  <2>2. main = "down" => pc[c] = "absent"
    BY DEF IInv, MainOK
  <2>3. Mgr!Running(c) => open
    BY <2>1, <2>2 DEF IInv, MainOK, Mgr!Running
  <2>4. pc[c] = "done" => call[c].at = "idle"
    BY DEF IInv, CallsMatch
  <2>5. call[c].at = "idle" => lock # c
    BY DEF IInv, StoreP!IInv, StoreP!LockDiscipline, StoreP!BatchOK
  <2> QED
    BY <2>1, <2>3, <2>4, <2>5
<1> QED
  BY <1>1, Invariance, PTL

(***************************************************************************)
(* A batch is in the table as a whole, except for what a cleanup removed,  *)
(* or not at all (sqlite.go:68-114, 173).                                  *)
(***************************************************************************)
THEOREM BatchesAreWhole == Spec => []AllOrNothing
<1>1. IInv => AllOrNothing
  BY DEF IInv
<1> QED
  BY <1>1, Invariance, PTL

(***************************************************************************)
(* Rows are deleted only when their retention is over, however long the    *)
(* DELETE waited for the lock (main.go:93-96, sqlite.go:173).              *)
(***************************************************************************)
THEOREM OnlyExpiredDeleted == Spec => DeletesOnlyExpired
<1>1. IInv /\ [Next]_vars => [\A r \in db \ db' : r.ts + Retention < now]_vars
  <2> SUFFICES ASSUME IInv, Next, NEW r \in db \ db'
               PROVE  r.ts + Retention < now
    OBVIOUS
  <2>1. ~ (db \subseteq db')
    OBVIOUS
  <2>2. CleanupDeletes
    <3>1. ~(Boot \/ StartCleanup \/ Signal \/ StopReturns \/ Close \/ Exit \/ Crash
              \/ CleanupTick \/ CleanupGoesOn \/ ClockTick)
      BY <2>1 DEF Boot, StartCleanup, Signal, StopReturns, Close, Exit, Crash, Die,
         CleanupTick, CleanupGoesOn, ClockTick, storeVars, Store!Open, Store!Close,
         Store!Crash, Store!DeleteOldMetrics, Store!Lock, Store!VacuumDone,
         Store!CleanupFails
    <3>2. \A c \in Collector : ~(StartCollector(c) \/ TickerFires(c) \/ Goroutine(c))
      BY <2>1 DEF StartCollector, TickerFires, Goroutine, Loop, Measure, CollectMetrics,
         CollectNothing, Insert, WriteReturns, storeVars, Store!WriteMetrics, Store!Exec,
         Store!Commit, Store!WriteFails
    <3> QED
      BY <3>1, <3>2 DEF Next
  <2>3. /\ call[Cleaner].at = "delete"
        /\ db' = {s \in db : s.ts >= call[Cleaner].before}
    BY <2>2 DEF CleanupDeletes, Store!DeleteDone
  <2>4. call[Cleaner].before \in Int /\ r.ts \in Int /\ now \in Int
    BY Typed DEF Store!Call, Row, IInv, Counts
  <2>5. call[Cleaner].before <= now - Retention
    BY <2>3 DEF IInv, CutoffOK
  <2> QED
    BY <2>3, <2>4, <2>5, AgentAssumption
<1> QED
  BY <1>1, Invariance, PTL DEF Spec, DeletesOnlyExpired

(***************************************************************************)
(* The storage under the agent, with its shutdowns and crashes, implements *)
(* the abstract MetricStore (storage.go, main.go:22-102).                  *)
(***************************************************************************)
THEOREM AgentImplementsMetricStore == Spec => Store!ImplementsMetricStore
<1>1. Init => StoreP!Abstract!Init
  <2>1. Init => StoreP!Init
    BY DEF Init, Store!Init, StoreP!Init, Store!NoCall, StoreP!NoCall
  <2> QED
    BY <2>1, StoreP!RefineInit, StorageAssumed
<1>2. IInv /\ [Next]_vars => [StoreP!Abstract!Next]_StoreP!Abstract!vars
  <2> SUFFICES ASSUME IInv, [Next]_vars
               PROVE  [StoreP!Abstract!Next]_StoreP!Abstract!vars
    OBVIOUS
  <2>1. [StoreP!Next]_StoreP!vars
    BY StoreStep DEF vars, storeVars, StoreP!vars
  <2> QED
    BY <2>1, StoreP!RefineStep, StorageAssumed DEF IInv
<1>3. Spec => StoreP!Abstract!Init /\ [][StoreP!Abstract!Next]_StoreP!Abstract!vars
  BY <1>1, <1>2, Invariance, PTL DEF Spec
<1>4. StoreP!Abstract!Init <=> Store!Abstract!Init
  BY DEF StoreP!Abstract!Init, Store!Abstract!Init, StoreP!Pending, Store!Pending,
     StoreP!RowsOf, Store!RowsOf
<1>5. [StoreP!Abstract!Next]_StoreP!Abstract!vars => [Store!Abstract!Next]_Store!Abstract!vars
  BY DEF StoreP!Abstract!Next, Store!Abstract!Next, StoreP!Abstract!vars, Store!Abstract!vars,
     StoreP!Abstract!Submit, Store!Abstract!Submit, StoreP!Abstract!Store, Store!Abstract!Store,
     StoreP!Abstract!Refuse, Store!Abstract!Refuse, StoreP!Abstract!Expire, Store!Abstract!Expire,
     StoreP!Abstract!Forget, Store!Abstract!Forget, StoreP!Pending, Store!Pending,
     StoreP!RowsOf, Store!RowsOf
<1> QED
  BY <1>3, <1>4, <1>5, PTL DEF Store!ImplementsMetricStore, Store!Abstract!Spec

(***************************************************************************)
(* The rows that a Collect measures are in no other call and not in the    *)
(* table.  WriteMetrics of SQLiteStorage is guarded by that, since each    *)
(* INSERT makes a row of its own (sqlite.go:52, 82-107): in the agent the  *)
(* guard never holds a collector back.                                     *)
(***************************************************************************)
MeasuredRowsAreNew ==
  \A c \in Collector :
    /\ Store!RowsOf(got[c]) \cap db = {}
    /\ \A d \in Collector \cup {Cleaner} : Store!RowsOf(got[c]) \cap Store!Pending[d] = {}

\* So each batch is written once, however often processes start and die.
THEOREM WritesAreOfNewRows == Spec => []MeasuredRowsAreNew
<1>1. IInv => MeasuredRowsAreNew
  <2> SUFFICES ASSUME IInv, NEW c \in Collector
               PROVE  /\ Store!RowsOf(got[c]) \cap db = {}
                      /\ \A d \in Collector \cup {Cleaner} :
                           Store!RowsOf(got[c]) \cap Store!Pending[d] = {}
    BY DEF MeasuredRowsAreNew
  <2>1. CASE got[c] = <<>>
    BY <2>1 DEF Store!RowsOf
  <2>2. CASE got[c] # <<>>
    <3>1. \A r \in Store!RowsOf(got[c]) : r.src = c /\ r.no = round[c] + 1
      BY <2>2 DEF IInv, GotOK
    <3>2. round[c] \in Int
      BY DEF IInv, Counts
    <3>3. \A b \in sent : b \cap Store!RowsOf(got[c]) = {}
      BY <3>1, <3>2 DEF IInv, SentOK
    <3>4. \A d \in Collector \cup {Cleaner} :
            Store!Pending[d] = {} \/ Store!Pending[d] \in sent
      BY DEF IInv, SentOK, CallsMatch, Store!Pending
    <3> QED
      BY <3>3, <3>4 DEF IInv, SentOK
  <2> QED
    BY <2>1, <2>2
<1> QED
  BY <1>1, Invariance, PTL
=============================================================================
