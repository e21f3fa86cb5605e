------------------------ MODULE SQLiteStorage_proofs ------------------------
(***************************************************************************)
(* Proofs about SQLiteStorage, for every set of goroutines, rows, batches  *)
(* and cutoffs: typing, the lock discipline, and that the table implements *)
(* the abstract MetricStore.                                               *)
(***************************************************************************)
EXTENDS SQLiteStorage, TLAPS

(***************************************************************************)
(* Only a WriteMetrics call has a batch, which is one of Batch (so it is   *)
(* not empty): Commit and WriteFails then map to Store and Refuse, which   *)
(* need something that was asked for.                                      *)
(***************************************************************************)
BatchOK ==
  \A c \in Client :
    /\ call[c].at = "insert" => call[c].batch \in Batch
    /\ call[c].at # "insert" => call[c].n = 0

IInv == TypeOK /\ LockDiscipline /\ BatchOK

-----------------------------------------------------------------------------
\* A batch is a non-empty sequence, so it has at least one row, of Row.
LEMMA BatchRows ==
  ASSUME NEW b \in Batch
  PROVE  b \in Seq(Row) /\ RowsOf(b) \subseteq Row /\ RowsOf(b) # {}
<1>1. b \in Seq(Row) /\ b # <<>>
  BY StorageAssumption
<1>2. \A i \in DOMAIN b : b[i] \in Row
  BY <1>1
<1>3. 1 \in DOMAIN b
  BY <1>1
<1> QED
  BY <1>1, <1>2, <1>3 DEF RowsOf

LEMMA NoCallIsCall == NoCall \in Call /\ NoCall.n <= Len(NoCall.batch)
<1>1. <<>> \in Seq(Row) /\ Len(<<>>) = 0
  OBVIOUS
<1> QED
  BY <1>1 DEF NoCall, Call, Stages

-----------------------------------------------------------------------------
\* The invariant survives the end of a call that has left db in Row.
LEMMA InvReturns ==
  ASSUME IInv, NEW c \in Client, Returns(c), db' \subseteq Row, open' = open
  PROVE  IInv'
<1>1. TypeOK'
  BY NoCallIsCall DEF IInv, TypeOK, Returns
<1>2. LockDiscipline'
  <2>1. \A d \in Client : call'[d] = IF d = c THEN NoCall ELSE call[d]
    BY DEF Returns, IInv, TypeOK
  <2>2. NoCall.n = 0 /\ NoCall.at = "idle"
    BY DEF NoCall
  <2>3. SUFFICES ASSUME NEW d \in Client
        PROVE /\ call'[d].n > 0 => lock' = d
              /\ lock' = d => \/ call'[d].n > 0
                             \/ call'[d].at \in {"delete", "vacuum"}
    BY DEF LockDiscipline
  <2>4. CASE d = c
    BY <2>1, <2>2, <2>4, StorageAssumption DEF Returns
  <2>5. CASE d # c
    BY <2>1, <2>5, StorageAssumption DEF Returns, IInv, LockDiscipline
  <2> QED
    BY <2>4, <2>5
<1>3. BatchOK'
  BY DEF IInv, TypeOK, BatchOK, Returns, NoCall
<1> QED
  BY <1>1, <1>2, <1>3 DEF IInv

LEMMA InvInit == Init => IInv
<1> SUFFICES ASSUME Init PROVE IInv
  OBVIOUS
<1>1. TypeOK
  BY NoCallIsCall DEF Init, TypeOK
<1>2. LockDiscipline
  <2>1. SUFFICES ASSUME NEW c \in Client
        PROVE  ~(call[c].n > 0) /\ lock # c
    BY <2>1 DEF LockDiscipline
  <2>2. call[c].n = 0
    BY DEF Init, NoCall
  <2> QED
    BY <2>2, StorageAssumption DEF Init
<1>3. BatchOK
  BY DEF Init, BatchOK, NoCall
<1> QED
  BY <1>1, <1>2, <1>3 DEF IInv

LEMMA InvStep == IInv /\ [Next]_vars => IInv'
<1> SUFFICES ASSUME IInv, [Next]_vars PROVE IInv'
  OBVIOUS
<1>1. CASE Open
  BY <1>1 DEF Open, IInv, TypeOK, LockDiscipline, BatchOK
<1>2. CASE Close
  BY <1>2 DEF Close, IInv, TypeOK, LockDiscipline, BatchOK
<1>3. CASE Crash
  <2>1. TypeOK'
    BY <1>3, NoCallIsCall DEF Crash, IInv, TypeOK, NoCall
  <2>2. LockDiscipline' /\ BatchOK'
    BY <1>3, StorageAssumption DEF Crash, LockDiscipline, BatchOK, NoCall
  <2> QED
    BY <2>1, <2>2 DEF IInv
<1>4. ASSUME NEW c \in Client, NEW b \in Batch, WriteMetrics(c, b) PROVE IInv'
  <2>1. [NoCall EXCEPT !.at = "insert", !.batch = b] \in Call
    BY NoCallIsCall, BatchRows DEF NoCall, Call, Stages
  <2>2. TypeOK'
    BY <1>4, <2>1, BatchRows DEF WriteMetrics, IInv, TypeOK, NoCall, Call
  <2>3. LockDiscipline'
    BY <1>4 DEF WriteMetrics, IInv, TypeOK, LockDiscipline, NoCall
  <2>4. BatchOK'
    BY <1>4 DEF WriteMetrics, IInv, TypeOK, BatchOK, NoCall
  <2> QED
    BY <2>2, <2>3, <2>4 DEF IInv
<1>5. ASSUME NEW c \in Client, NEW t \in Cutoff, DeleteOldMetrics(c, t) PROVE IInv'
  <2>1. [NoCall EXCEPT !.at = "delete", !.before = t] \in Call
    BY NoCallIsCall, StorageAssumption DEF NoCall, Call, Stages
  <2>2. TypeOK'
    BY <1>5, <2>1 DEF DeleteOldMetrics, IInv, TypeOK, NoCall, Call
  <2>3. LockDiscipline'
    BY <1>5 DEF DeleteOldMetrics, IInv, TypeOK, LockDiscipline, NoCall
  <2>4. BatchOK'
    BY <1>5 DEF DeleteOldMetrics, IInv, TypeOK, BatchOK, NoCall
  <2> QED
    BY <2>2, <2>3, <2>4 DEF IInv
<1>6. ASSUME NEW c \in Client, Exec(c) PROVE IInv'
  <2>1. call[c] \in Call /\ Len(call[c].batch) \in Nat
    BY DEF IInv, TypeOK, Call
  <2>2. [call[c] EXCEPT !.n = @ + 1] \in Call
    BY <2>1 DEF Call
  <2>3. TypeOK'
    BY <1>6, <2>1, <2>2 DEF Exec, IInv, TypeOK, Call
  <2>4. LockDiscipline'
    BY <1>6, <2>1, StorageAssumption DEF Exec, IInv, TypeOK, LockDiscipline, Call
  <2>5. BatchOK'
    BY <1>6, <2>1 DEF Exec, IInv, TypeOK, BatchOK, Call
  <2> QED
    BY <2>3, <2>4, <2>5 DEF IInv
<1>7. ASSUME NEW c \in Client, Commit(c) PROVE IInv'
  <2>1. RowsOf(call[c].batch) \subseteq Row
    BY <1>7, BatchRows DEF Commit, IInv, BatchOK
  <2> QED
    BY <1>7, <2>1, InvReturns DEF Commit, IInv, TypeOK
<1>8. ASSUME NEW c \in Client, WriteFails(c) PROVE IInv'
  BY <1>8, InvReturns DEF WriteFails, IInv, TypeOK
<1>9. ASSUME NEW c \in Client, Lock(c) PROVE IInv'
  BY <1>9, StorageAssumption DEF Lock, IInv, TypeOK, LockDiscipline, BatchOK
<1>10. ASSUME NEW c \in Client, DeleteDone(c) PROVE IInv'
  <2>1. call[c] \in Call /\ [call[c] EXCEPT !.at = "vacuum"] \in Call
    BY DEF IInv, TypeOK, Call, Stages
  <2>2. CASE open
    <3>1. /\ call[c].at = "delete" /\ lock = c /\ lock' = Nobody /\ open' = open
          /\ call' = [call EXCEPT ![c].at = "vacuum"] /\ db' \subseteq db
      BY <1>10, <2>2 DEF DeleteDone
    <3>2. TypeOK'
      BY <2>1, <3>1 DEF IInv, TypeOK, Call
    <3>3. LockDiscipline'
      BY <2>1, <3>1, StorageAssumption DEF IInv, TypeOK, LockDiscipline, BatchOK, Call
    <3>4. BatchOK'
      BY <2>1, <3>1 DEF IInv, TypeOK, BatchOK, Call
    <3> QED
      BY <3>2, <3>3, <3>4 DEF IInv
  <2>3. CASE ~open
    <3>1. db' \subseteq Row /\ open' = open /\ Returns(c)
      BY <1>10, <2>3 DEF DeleteDone, IInv, TypeOK
    <3> QED
      BY <3>1, InvReturns DEF IInv, TypeOK
  <2> QED
    BY <2>2, <2>3
<1>11. ASSUME NEW c \in Client, VacuumDone(c) PROVE IInv'
  BY <1>11, InvReturns DEF VacuumDone, IInv, TypeOK
<1>12. ASSUME NEW c \in Client, CleanupFails(c) PROVE IInv'
  BY <1>12, InvReturns DEF CleanupFails, IInv, TypeOK
<1>13. CASE UNCHANGED vars
  BY <1>13 DEF vars, IInv, TypeOK, LockDiscipline, BatchOK
<1> QED
  BY <1>1, <1>2, <1>3, <1>4, <1>5, <1>6, <1>7, <1>8, <1>9, <1>10, <1>11, <1>12, <1>13
  DEF Next, Step

-----------------------------------------------------------------------------
(***************************************************************************)
(* The refinement.  What a step does to Pending decides which step of      *)
(* MetricStore it is: the beginning of a WriteMetrics is a Submit, Commit  *)
(* a Store, WriteFails a Refuse, DeleteDone an Expire, Crash a Forget, and *)
(* all others are stuttering.                                              *)
(***************************************************************************)
LEMMA PendingEnds ==
  ASSUME IInv, NEW c \in Client, Returns(c)
  PROVE  Pending' = [Pending EXCEPT ![c] = {}]
<1>1. \A d \in Client : Pending'[d] = IF d = c THEN {} ELSE Pending[d]
  BY DEF Returns, IInv, TypeOK, Pending, NoCall
<1> QED
  BY <1>1 DEF Pending

\* A call that is not in the loop has nothing pending, one that is has.
LEMMA PendingOf ==
  ASSUME IInv, NEW c \in Client
  PROVE  /\ call[c].at # "insert" => Pending[c] = {}
         /\ call[c].at = "insert" => /\ Pending[c] = RowsOf(call[c].batch)
                                    /\ Pending[c] # {}
BY BatchRows DEF Pending, IInv, BatchOK

LEMMA RefineInit == Init => Abstract!Init
BY DEF Init, Abstract!Init, Pending, NoCall

LEMMA RefineStep == IInv /\ [Next]_vars => [Abstract!Next]_Abstract!vars
<1> SUFFICES ASSUME IInv, [Next]_vars PROVE [Abstract!Next]_Abstract!vars
  OBVIOUS
<1>1. CASE Open
  BY <1>1 DEF Open, Abstract!vars, Pending
<1>2. CASE Close
  BY <1>2 DEF Close, Abstract!vars, Pending
<1>3. CASE Crash
  <2>1. Abstract!Forget
    BY <1>3 DEF Crash, Abstract!Forget, Pending, NoCall
  <2> QED
    BY <2>1 DEF Abstract!Next
<1>4. ASSUME NEW c \in Client, NEW b \in Batch, WriteMetrics(c, b)
      PROVE  Abstract!Submit(c)
  <2>1. call[c].at = "idle" /\ Pending[c] = {}
    BY <1>4, PendingOf DEF WriteMetrics, NoCall
  <2>2. \A d \in Client : call'[d] = IF d = c THEN [NoCall EXCEPT !.at = "insert", !.batch = b] ELSE call[d]
    BY <1>4 DEF WriteMetrics, IInv, TypeOK
  <2>3. Pending' = [Pending EXCEPT ![c] = RowsOf(b)]
    BY <2>2 DEF Pending, NoCall
  <2>4. RowsOf(b) \in (SUBSET Row) \ {{}}
    BY BatchRows
  <2> QED
    BY <1>4, <2>1, <2>3, <2>4 DEF WriteMetrics, Abstract!Submit
<1>5. ASSUME NEW c \in Client, NEW t \in Cutoff, DeleteOldMetrics(c, t)
      PROVE  UNCHANGED Abstract!vars
  <2>1. \A d \in Client : Pending'[d] = Pending[d]
    BY <1>5 DEF DeleteOldMetrics, IInv, TypeOK, NoCall, Pending
  <2>2. Pending' = Pending
    BY <2>1 DEF Pending
  <2> QED
    BY <1>5, <2>2 DEF DeleteOldMetrics, Abstract!vars
<1>6. ASSUME NEW c \in Client, Exec(c) PROVE UNCHANGED Abstract!vars
  <2>1. \A d \in Client : /\ call'[d].at = call[d].at
                           /\ call'[d].batch = call[d].batch
    BY <1>6 DEF Exec, IInv, TypeOK, Call
  <2> QED
    BY <1>6, <2>1 DEF Exec, Abstract!vars, Pending
<1>7. ASSUME NEW c \in Client, Commit(c) PROVE Abstract!Store(c)
  BY <1>7, PendingEnds, PendingOf DEF Commit, Abstract!Store
<1>8. ASSUME NEW c \in Client, WriteFails(c) PROVE Abstract!Refuse(c)
  BY <1>8, PendingEnds, PendingOf DEF WriteFails, Abstract!Refuse
<1>9. ASSUME NEW c \in Client, Lock(c) PROVE UNCHANGED Abstract!vars
  BY <1>9 DEF Lock, Abstract!vars, Pending
<1>10. ASSUME NEW c \in Client, DeleteDone(c) PROVE Abstract!Expire
  <2>1. Pending[c] = {}
    BY <1>10, PendingOf DEF DeleteDone
  <2>2. Pending' = Pending
    <3>1. CASE open
      <4>1. \A d \in Client : Pending'[d] = Pending[d]
        BY <1>10, <3>1 DEF DeleteDone, IInv, TypeOK, Call, Pending
      <4> QED
        BY <4>1 DEF Pending
    <3>2. CASE ~open
      BY <1>10, <2>1, <3>2, PendingEnds DEF DeleteDone, Pending
    <3> QED
      BY <3>1, <3>2
  <2>3. call[c].before \in Int /\ \A r \in db : r.ts \in Int
    BY StorageAssumption DEF IInv, TypeOK, Call
  <2>4. \A old \in db \ db', r \in db' : old.ts < r.ts
    BY <1>10, <2>3 DEF DeleteDone
  <2>5. db' \in SUBSET db
    BY <1>10 DEF DeleteDone
  <2> QED
    BY <2>2, <2>4, <2>5 DEF Abstract!Expire
<1>11. ASSUME NEW c \in Client, VacuumDone(c) \/ CleanupFails(c)
       PROVE  UNCHANGED Abstract!vars
  <2>1. Pending[c] = {} /\ Returns(c) /\ db' = db
    BY <1>11, PendingOf DEF VacuumDone, CleanupFails
  <2>2. Pending' = Pending
    BY <2>1, PendingEnds DEF Pending
  <2> QED
    BY <2>1, <2>2 DEF Abstract!vars
<1>12. CASE UNCHANGED vars
  BY <1>12 DEF vars, Abstract!vars, Pending
<1> QED
  BY <1>1, <1>2, <1>3, <1>4, <1>5, <1>6, <1>7, <1>8, <1>9, <1>10, <1>11, <1>12
  DEF Next, Step, Abstract!Next

-----------------------------------------------------------------------------
LEMMA Invariance == Spec => []IInv
BY InvInit, InvStep, PTL DEF Spec

-----------------------------------------------------------------------------
(***************************************************************************)
(* Every variable of the storage is well typed (sqlite.go:68-185).         *)
(***************************************************************************)
THEOREM TypeCorrect == Spec => []TypeOK
<1>1. IInv => TypeOK
  BY DEF IInv
<1> QED
  BY <1>1, Invariance, PTL

(***************************************************************************)
(* Uncommitted inserts exist only under the write lock, and the lock is    *)
(* held only during a call (sqlite.go:73-79, 95-113, 173-180).             *)
(***************************************************************************)
THEOREM LockIsDisciplined == Spec => []LockDiscipline
<1>1. IInv => LockDiscipline
  BY DEF IInv
<1> QED
  BY <1>1, Invariance, PTL

(***************************************************************************)
(* The table of the transactional storage behaves as MetricStore: batches  *)
(* are stored whole and at most once, or not at all, under any             *)
(* interleaving, failure and crash (sqlite.go:68-114, 172-181).            *)
(***************************************************************************)
THEOREM Refinement == Spec => ImplementsMetricStore
<1>1. Spec => Abstract!Init /\ [][Abstract!Next]_Abstract!vars
  BY RefineInit, RefineStep, Invariance, PTL DEF Spec
<1> QED
  BY <1>1 DEF ImplementsMetricStore, Abstract!Spec
=============================================================================
