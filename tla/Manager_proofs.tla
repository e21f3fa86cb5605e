--------------------------- MODULE Manager_proofs ---------------------------
(***************************************************************************)
(* Proofs about Manager, for every finite set of collectors.               *)
(*                                                                         *)
(* WaitGroupExact and StopMeansQuiet are inductive together with the typing*)
(* of the variables and one more fact: a Stop that has been called finds   *)
(* every goroutine started and the context cancelled.                      *)
(***************************************************************************)
EXTENDS Manager, FiniteSetTheorems, TLAPS

Live == {c \in Collector : Running(c)}

Shape ==
  /\ pc \in [Collector -> Stages]
  /\ ticks \in [Collector -> BOOLEAN]
  /\ ctx \in {"live", "cancelled"}
  /\ stop \in {"notcalled", "waiting", "returned"}

StopAfterStart == stop # "notcalled" => \A c \in Collector : pc[c] # "absent"

IInv == Shape /\ WaitGroupExact /\ StopAfterStart /\ StopMeansQuiet

-----------------------------------------------------------------------------
(***************************************************************************)
(* The set of running goroutines is finite, and its cardinality is a       *)
(* number between 0 and that of Collector.                                 *)
(***************************************************************************)
LEMMA LiveIsFinite ==
  /\ IsFiniteSet(Live)
  /\ Cardinality(Live) \in 0 .. Cardinality(Collector)
<1>1. Live \subseteq Collector
  BY DEF Live
<1>2. IsFiniteSet(Live) /\ Cardinality(Live) <= Cardinality(Collector)
  BY <1>1, CollectorAssumption, FS_Subset
<1>3. Cardinality(Live) \in Nat /\ Cardinality(Collector) \in Nat
  BY <1>2, CollectorAssumption, FS_CardinalityType
<1> QED
  BY <1>2, <1>3

(***************************************************************************)
(* A step that keeps a goroutine running, and moves no other, keeps the    *)
(* set of running goroutines; one that starts or ends it adds or removes   *)
(* one element.                                                            *)
(***************************************************************************)
LEMMA LiveStays ==
  ASSUME Shape, NEW c \in Collector, NEW from \in Stages, NEW to \in Stages,
         Goto(c, from, to), from \notin {"absent", "done"}, to \notin {"absent", "done"}
  PROVE  Live' = Live
BY DEF Shape, Goto, Live, Running, Stages

LEMMA LiveGrows ==
  ASSUME Shape, NEW c \in Collector, Goto(c, "absent", "spawned")
  PROVE  Cardinality(Live') = Cardinality(Live) + 1
<1>1. Live' = Live \cup {c} /\ c \notin Live
  BY DEF Shape, Goto, Live, Running, Stages
<1> QED
  BY <1>1, LiveIsFinite, FS_AddElement

LEMMA LiveShrinks ==
  ASSUME Shape, NEW c \in Collector, Goto(c, "select", "done")
  PROVE  Cardinality(Live') = Cardinality(Live) - 1
<1>1. Live' = Live \ {c} /\ c \in Live
  BY DEF Shape, Goto, Live, Running, Stages
<1> QED
  BY <1>1, LiveIsFinite, FS_RemoveElement

\* A counter of zero means that no goroutine runs.
LEMMA ZeroMeansNone ==
  ASSUME WaitGroupExact, wg = 0
  PROVE  \A c \in Collector : ~Running(c)
<1>1. Live = {}
  BY LiveIsFinite, FS_EmptySet DEF WaitGroupExact, Live
<1> QED
  BY <1>1 DEF Live

-----------------------------------------------------------------------------
LEMMA InvInit == Init => IInv
<1> SUFFICES ASSUME Init PROVE IInv
  OBVIOUS
<1>1. Live = {}
  BY DEF Init, Live, Running
<1>2. WaitGroupExact
  BY <1>1, FS_EmptySet DEF Init, WaitGroupExact, Live
<1> QED
  BY <1>2 DEF Init, IInv, Shape, Stages, StopAfterStart, StopMeansQuiet

(***************************************************************************)
(* A step of a goroutine between two stages in which it runs: the set of   *)
(* running goroutines does not change.  Stop cannot have returned, since   *)
(* then every goroutine would be done.                                     *)
(***************************************************************************)
LEMMA InvInnerStep ==
  ASSUME IInv, NEW c \in Collector, NEW from \in Stages, NEW to \in Stages,
         Goto(c, from, to), from \notin {"absent", "done"}, to \notin {"absent", "done"},
         ticks' \in [Collector -> BOOLEAN], UNCHANGED <<ctx, wg, stop>>
  PROVE  IInv'
<1>1. pc[c] = from /\ pc' = [pc EXCEPT ![c] = to]
  BY DEF Goto
<1>2. Shape'
  BY <1>1 DEF IInv, Shape
<1>3. WaitGroupExact'
  <2>1. Live' = Live
    BY LiveStays DEF IInv
  <2> QED
    BY <2>1 DEF IInv, WaitGroupExact, Live
<1>4. StopAfterStart'
  BY <1>1 DEF IInv, Shape, StopAfterStart
<1>5. StopMeansQuiet'
  BY <1>1 DEF IInv, Shape, StopMeansQuiet
<1> QED
  BY <1>2, <1>3, <1>4, <1>5 DEF IInv

LEMMA InvStep == IInv /\ [Next]_vars => IInv'
<1> SUFFICES ASSUME IInv, [Next]_vars PROVE IInv'
  OBVIOUS
<1> USE DEF Stages
<1>1. ASSUME NEW c \in Collector, Start(c) PROVE IInv'
  <2>1. stop = "notcalled"
    BY <1>1 DEF Start, Goto, IInv, StopAfterStart
  <2>2. Shape' /\ StopAfterStart' /\ StopMeansQuiet'
    BY <1>1, <2>1 DEF Start, Goto, IInv, Shape, StopAfterStart, StopMeansQuiet
  <2>3. WaitGroupExact'
    BY <1>1, LiveGrows DEF Start, IInv, WaitGroupExact, Live
  <2> QED
    BY <2>2, <2>3 DEF IInv
<1>2. ASSUME NEW c \in Collector, NewTicker(c) PROVE IInv'
  BY <1>2, InvInnerStep DEF NewTicker, IInv, Shape
<1>3. ASSUME NEW c \in Collector, CollectMetrics(c) PROVE IInv'
  BY <1>3, InvInnerStep DEF CollectMetrics, IInv, Shape
<1>4. ASSUME NEW c \in Collector, CollectNothing(c) PROVE IInv'
  BY <1>4, InvInnerStep DEF CollectNothing, IInv, Shape
<1>5. ASSUME NEW c \in Collector, WriteReturns(c) PROVE IInv'
  BY <1>5, InvInnerStep DEF WriteReturns, IInv, Shape
<1>6. ASSUME NEW c \in Collector, OnTick(c) PROVE IInv'
  BY <1>6, InvInnerStep DEF OnTick, IInv, Shape
<1>7. ASSUME NEW c \in Collector, OnDone(c) PROVE IInv'
  <2>1. Shape' /\ StopAfterStart' /\ StopMeansQuiet'
    BY <1>7 DEF OnDone, Goto, IInv, Shape, StopAfterStart, StopMeansQuiet
  <2>2. WaitGroupExact'
    BY <1>7, LiveShrinks DEF OnDone, IInv, WaitGroupExact, Live
  <2> QED
    BY <2>1, <2>2 DEF IInv
<1>8. ASSUME NEW c \in Collector, TickerFires(c) PROVE IInv'
  <2>1. Live' = Live
    BY <1>8 DEF TickerFires, Live, Running
  <2> QED
    BY <1>8, <2>1 DEF TickerFires, IInv, Shape, WaitGroupExact, Live, StopAfterStart, StopMeansQuiet
<1>9. CASE Stop
  <2>1. Live' = Live
    BY <1>9 DEF Stop, Live, Running
  <2> QED
    BY <1>9, <2>1 DEF Stop, IInv, Shape, WaitGroupExact, Live, StopAfterStart, StopMeansQuiet
<1>10. CASE StopReturns
  <2>1. \A c \in Collector : ~Running(c)
    BY <1>10, ZeroMeansNone DEF StopReturns, IInv
  <2>2. \A c \in Collector : pc[c] = "done"
    BY <1>10, <2>1 DEF StopReturns, IInv, StopAfterStart, Running
  <2>3. Live' = Live
    BY <1>10 DEF StopReturns, Live, Running
  <2> QED
    BY <1>10, <2>2, <2>3 DEF StopReturns, IInv, Shape, WaitGroupExact, Live, StopAfterStart, StopMeansQuiet
<1>11. CASE UNCHANGED vars
  <2>1. Live' = Live
    BY <1>11 DEF vars, Live, Running
  <2> QED
    BY <1>11, <2>1 DEF vars, IInv, Shape, WaitGroupExact, Live, StopAfterStart, StopMeansQuiet
<1> QED
  BY <1>1, <1>2, <1>3, <1>4, <1>5, <1>6, <1>7, <1>8, <1>9, <1>10, <1>11 DEF Next, Run

LEMMA InvTypes == IInv => TypeOK
BY LiveIsFinite DEF IInv, Shape, WaitGroupExact, Live, TypeOK

LEMMA Invariance == Spec => []IInv
BY InvInit, InvStep, PTL DEF Spec

-----------------------------------------------------------------------------
(***************************************************************************)
(* The variables are well typed; in particular the WaitGroup's counter is  *)
(* never negative (which would panic) and never above the number of        *)
(* collectors (manager.go:74 and 88).                                      *)
(***************************************************************************)
THEOREM TypeCorrect == Spec => []TypeOK
BY InvTypes, Invariance, PTL

(***************************************************************************)
(* The WaitGroup counts the goroutines that run (manager.go:74 and 88).    *)
(***************************************************************************)
THEOREM WaitGroupCounts == Spec => []WaitGroupExact
<1>1. IInv => WaitGroupExact
  BY DEF IInv
<1> QED
  BY <1>1, Invariance, PTL

(***************************************************************************)
(* When Stop has returned, every goroutine is done (manager.go:80-85).     *)
(***************************************************************************)
THEOREM StopIsQuiet == Spec => []StopMeansQuiet
<1>1. IInv => StopMeansQuiet
  BY DEF IInv
<1> QED
  BY <1>1, Invariance, PTL
=============================================================================
