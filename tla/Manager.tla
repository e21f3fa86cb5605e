------------------------------ MODULE Manager ------------------------------
(***************************************************************************)
(* The collector manager of pkg/collector/manager.go: one goroutine per    *)
(* enabled collector, each with its own time.Ticker, a context that Stop   *)
(* cancels and a WaitGroup that Stop waits on.                             *)
(*                                                                         *)
(* What a collector measures and what the storage does with it is left to  *)
(* other modules: here Collect and WriteMetrics are calls that eventually  *)
(* return, with or without an error.                                       *)
(***************************************************************************)
EXTENDS Integers, FiniteSets

CONSTANT Collector     \* m.collectors: one goroutine is started for each

\* NewManager refuses a configuration without collectors (manager.go:62-64).
ASSUME CollectorAssumption == IsFiniteSet(Collector) /\ Collector # {}

VARIABLES
  pc,       \* where the goroutine of each collector is
  ticks,    \* is a tick buffered in the collector's ticker.C (capacity 1)?
  ctx,      \* m.ctx: "live" until m.cancel()
  wg,       \* the counter of m.wg
  stop      \* the call of Stop: "notcalled", "waiting" in wg.Wait, "returned"

vars == <<pc, ticks, ctx, wg, stop>>

(***************************************************************************)
(* The stages of a goroutine: not started; started but before NewTicker;   *)
(* in Collect; in WriteMetrics; in the select; returned.                   *)
(***************************************************************************)
Stages == {"absent", "spawned", "collect", "write", "select", "done"}

Init ==
  /\ pc = [c \in Collector |-> "absent"]
  /\ ticks = [c \in Collector |-> FALSE]
  /\ ctx = "live"
  /\ wg = 0
  /\ stop = "notcalled"

Running(c) == pc[c] \notin {"absent", "done"}

-----------------------------------------------------------------------------
Goto(c, from, to) == pc[c] = from /\ pc' = [pc EXCEPT ![c] = to]

\* Mutant of Start: wg.Add is forgotten.
StartUncounted(c) ==
  /\ Goto(c, "absent", "spawned")
  /\ UNCHANGED <<ticks, ctx, wg, stop>>

(***************************************************************************)
(* One iteration of the loop of Start: wg.Add(1), then a new goroutine,    *)
(* which may run before the next one is started.                           *)
(***************************************************************************)
Start(c) ==
  /\ Goto(c, "absent", "spawned")
  /\ wg' = wg + 1
  /\ UNCHANGED <<ticks, ctx, stop>>

\* The ticker is created and the first collection is made at once.
NewTicker(c) ==
  /\ Goto(c, "spawned", "collect")
  /\ UNCHANGED <<ticks, ctx, wg, stop>>

\* Collect returned metrics: they are handed to WriteMetrics.
CollectMetrics(c) ==
  /\ Goto(c, "collect", "write")
  /\ UNCHANGED <<ticks, ctx, wg, stop>>

\* Mutant of CollectNothing: an error ends the goroutine.
CollectNothingEnds(c) ==
  /\ Goto(c, "collect", "done")
  /\ wg' = wg - 1
  /\ UNCHANGED <<ticks, ctx, stop>>

\* Collect returned an error or no metric: collectAndStore returns early.
CollectNothing(c) ==
  /\ Goto(c, "collect", "select")
  /\ UNCHANGED <<ticks, ctx, wg, stop>>

\* WriteMetrics returned; its error is only logged, the metrics are dropped.
WriteReturns(c) ==
  /\ Goto(c, "write", "select")
  /\ UNCHANGED <<ticks, ctx, wg, stop>>

\* case <-ticker.C
OnTick(c) ==
  /\ ticks[c]
  /\ Goto(c, "select", "collect")
  /\ ticks' = [ticks EXCEPT ![c] = FALSE]
  /\ UNCHANGED <<ctx, wg, stop>>

\* Mutant of OnDone: a buffered tick is served before ctx.Done.
OnDoneLast(c) ==
  /\ ctx = "cancelled" /\ ~ticks[c]
  /\ Goto(c, "select", "done")
  /\ wg' = wg - 1
  /\ UNCHANGED <<ticks, ctx, stop>>

\* Mutant of OnDone: wg.Done is called twice.
OnDoneTwice(c) ==
  /\ ctx = "cancelled"
  /\ Goto(c, "select", "done")
  /\ ticks' = [ticks EXCEPT ![c] = FALSE]
  /\ wg' = wg - 2
  /\ UNCHANGED <<ctx, stop>>

(***************************************************************************)
(* case <-m.ctx.Done(): the deferred ticker.Stop and wg.Done run.  When a  *)
(* tick is buffered too, the select may take either case.                  *)
(***************************************************************************)
OnDone(c) ==
  /\ ctx = "cancelled"
  /\ Goto(c, "select", "done")
  /\ ticks' = [ticks EXCEPT ![c] = FALSE]
  /\ wg' = wg - 1
  /\ UNCHANGED <<ctx, stop>>

\* The runtime fires a running ticker; a tick that finds the buffer full is
\* dropped, which changes nothing.
TickerFires(c) ==
  /\ pc[c] \in {"collect", "write", "select"}
  /\ ~ticks[c]
  /\ ticks' = [ticks EXCEPT ![c] = TRUE]
  /\ UNCHANGED <<pc, ctx, wg, stop>>

\* Stop, up to wg.Wait().  main calls it once, after Start has returned.
Stop ==
  /\ stop = "notcalled"
  /\ \A c \in Collector : pc[c] # "absent"
  /\ ctx' = "cancelled"
  /\ stop' = "waiting"
  /\ UNCHANGED <<pc, ticks, wg>>

\* Mutant of StopReturns: Stop does not wait.
StopReturnsAtOnce ==
  /\ stop = "waiting"
  /\ stop' = "returned"
  /\ UNCHANGED <<pc, ticks, ctx, wg>>

\* wg.Wait() returns when the counter is zero.
StopReturns ==
  /\ stop = "waiting"
  /\ wg = 0
  /\ stop' = "returned"
  /\ UNCHANGED <<pc, ticks, ctx, wg>>

Run(c) ==
  \/ NewTicker(c)
  \/ CollectMetrics(c)
  \/ CollectNothing(c)
  \/ WriteReturns(c)
  \/ OnTick(c)
  \/ OnDone(c)

Next ==
  \/ Stop
  \/ StopReturns
  \/ \E c \in Collector : Start(c) \/ Run(c) \/ TickerFires(c)

(***************************************************************************)
(* Fairness.  Goroutines run when they can, Collect reads pseudo-files and *)
(* returns, WriteMetrics returns because every wait for the database lock  *)
(* has a timeout, tickers fire for ever.  Go's select chooses uniformly at *)
(* random among the ready cases, so a case that is ready again and again   *)
(* is taken eventually: strong fairness for ctx.Done.                      *)
(***************************************************************************)
Fairness ==
  /\ WF_vars(StopReturns)
  /\ \A c \in Collector : /\ WF_vars(Start(c))
                          /\ WF_vars(Run(c))
                          /\ WF_vars(TickerFires(c))
                          /\ SF_vars(OnDone(c))

Spec == Init /\ [][Next]_vars /\ Fairness

-----------------------------------------------------------------------------
(***************************************************************************)
(* Types.  A WaitGroup whose counter becomes negative panics, so wg is a   *)
(* natural number and never exceeds the number of goroutines.              *)
(***************************************************************************)
TypeOK ==
  /\ pc \in [Collector -> Stages]
  /\ ticks \in [Collector -> BOOLEAN]
  /\ ctx \in {"live", "cancelled"}
  /\ wg \in 0 .. Cardinality(Collector)
  /\ stop \in {"notcalled", "waiting", "returned"}

(***************************************************************************)
(* The counter of the WaitGroup is the number of goroutines that run, in   *)
(* every state: Start counts a goroutine before it can run (manager.go:74) *)
(* and a goroutine is uncounted only by its last step (manager.go:88).     *)
(***************************************************************************)
WaitGroupExact == wg = Cardinality({c \in Collector : Running(c)})

(***************************************************************************)
(* Once Stop has returned no collector runs and none will: nothing is in   *)
(* the middle of WriteMetrics when main goes on to close the database.     *)
(* (manager.go:80-85 against the goroutines of 87-106)                     *)
(***************************************************************************)
StopMeansQuiet == stop = "returned" => \A c \in Collector : pc[c] = "done"

(***************************************************************************)
(* Stop always returns, however often a tick is ready together with        *)
(* ctx.Done in the select of a goroutine (manager.go:99-104).              *)
(***************************************************************************)
StopTerminates == stop = "waiting" ~> stop = "returned"

(***************************************************************************)
(* A goroutine that starts makes its first collection, even when Stop is   *)
(* called before it runs (manager.go:95-96); and as long as the context    *)
(* lives every collector collects again and again: an error of Collect or  *)
(* of WriteMetrics never ends the loop (manager.go:110-122).               *)
(***************************************************************************)
KeepsSampling ==
  \A c \in Collector :
    /\ pc[c] = "spawned" ~> pc[c] = "collect"
    /\ (stop = "notcalled") ~> (pc[c] = "collect" \/ stop # "notcalled")

=============================================================================
