----------------------------- MODULE MetricStore -----------------------------
(***************************************************************************)
(* What the interface Storage of pkg/storage/storage.go promises to the    *)
(* collectors, said without transactions, locks or statements: the metrics *)
(* of a WriteMetrics call are stored all together, at most once, or not at *)
(* all; DeleteOldMetrics removes the oldest rows and nothing else.         *)
(***************************************************************************)
EXTENDS Integers

CONSTANTS Client,     \* the goroutines that use the storage
          Row         \* the rows the table can hold, with a timestamp .ts

VARIABLES rows,       \* the table metrics
          asked       \* what a WriteMetrics call in progress is to store

vars == <<rows, asked>>

Init ==
  /\ rows = {}
  /\ asked = [c \in Client |-> {}]

\* A call starts.  NewMetric makes its metrics, so none was seen before.
Submit(c) ==
  /\ asked[c] = {}
  /\ \E b \in (SUBSET Row) \ {{}} :
       /\ b \cap rows = {} /\ \A d \in Client : b \cap asked[d] = {}
       /\ asked' = [asked EXCEPT ![c] = b]
  /\ UNCHANGED rows

\* The call returns nil.
Store(c) ==
  /\ asked[c] # {}
  /\ rows' = rows \cup asked[c]
  /\ asked' = [asked EXCEPT ![c] = {}]

\* The call returns an error.
Refuse(c) ==
  /\ asked[c] # {}
  /\ asked' = [asked EXCEPT ![c] = {}]
  /\ UNCHANGED rows

\* Some of the oldest rows are deleted.
Expire ==
  /\ \E kept \in SUBSET rows :
       /\ \A old \in rows \ kept, r \in kept : old.ts < r.ts
       /\ rows' = kept
  /\ UNCHANGED asked

\* The process ends in the middle of calls, which never return.
Forget ==
  /\ asked' = [c \in Client |-> {}]
  /\ UNCHANGED rows

Next ==
  \/ \E c \in Client : Submit(c) \/ Store(c) \/ Refuse(c)
  \/ Expire
  \/ Forget

Spec == Init /\ [][Next]_vars
=============================================================================
