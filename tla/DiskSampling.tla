---------------------------- MODULE DiskSampling ----------------------------
(***************************************************************************)
(* When a collector takes its readings, and what that does to a rate: the  *)
(* loop of manager.go's runCollector with its time.Ticker on an explicit   *)
(* clock, and the disk utilization that disk.go derives from two readings  *)
(* of a device's busy time.                                                *)
(*                                                                         *)
(* The ticker fires every Interval into a channel of capacity one and drops*)
(* a tick that does not fit.  A WriteMetrics call may last up to MaxCall:  *)
(* it waits for the write lock that another collector or VACUUM holds,     *)
(* until the busy timeout of the driver.  A goroutine that can run does so *)
(* before the clock advances.  The names of the specification are not Init *)
(* and Next, so that one module can be about the two tickers of the agent, *)
(* this one and that of Cleanup.                                           *)
(***************************************************************************)
EXTENDS Integers

CONSTANTS
  Interval,    \* collection.interval
  MaxCall,     \* the longest collectAndStore, the reading being its start
  MaxTime,     \* bound on the clock
  None         \* no earlier reading, no utilization

ASSUME SamplingAssumption ==
  /\ Interval \in Nat \ {0} /\ MaxCall \in Nat /\ MaxTime \in Nat
  /\ None \notin Int

VARIABLES
  now, next, tick,     \* the clock, when the ticker fires, is a tick buffered
  until,               \* the call in progress returns then, or None: in select
  busy,                \* the device's busy time, ReadStat's IOTime
  lastBusy,            \* the IOTime in d.lastStats, or None
  utilization,         \* the last disk.utilization_percent, or None
  lastAt, readings,    \* history: when the last reading was, how many
  share,               \* history: the true utilization between the last two
  prompt               \* history: no call has lasted an interval or longer

ticker == <<next, tick>>
samplingVars == <<now, ticker, until, busy, lastBusy, utilization,
                  lastAt, readings, share, prompt>>

\* The goroutine starts: NewTicker, then the first collection at once.
SamplingInit ==
  /\ now = 0
  /\ next = Interval
  /\ tick = TRUE
  /\ until = None
  /\ busy = 0
  /\ lastBusy = None
  /\ utilization = None
  /\ lastAt = 0 /\ readings = 0 /\ share = None
  /\ prompt = TRUE

\* Mutant of Utilization: the result is not capped.
UtilizationUncapped(diff) == (100 * diff) \div Interval

\* calculateDiskMetrics: percent of the configured interval, at most 100.
Utilization(diff) ==
  LET percent == (100 * diff) \div Interval
  IN  IF percent > 100 THEN 100 ELSE percent

\* Mutant of Collect: the buffered tick is not consumed.
CollectAgain ==
  /\ until = None /\ tick
  /\ utilization' = IF lastBusy = None THEN None ELSE Utilization(busy - lastBusy)
  /\ lastBusy' = busy
  /\ \E d \in 1 .. MaxCall : until' = now + d /\ prompt' = (prompt /\ d < Interval)
  /\ lastAt' = now /\ readings' = readings + 1
  /\ share' = IF lastBusy = None THEN None
              ELSE (100 * (busy - lastBusy)) \div (now - lastAt)
  /\ UNCHANGED <<now, ticker, busy>>

(***************************************************************************)
(* The select takes the tick (the first collection, which needs none, is   *)
(* the tick buffered in SamplingInit), the counter is read and the metrics go to   *)
(* WriteMetrics.                                                           *)
(***************************************************************************)
Collect ==
  /\ until = None /\ tick
  /\ tick' = FALSE
  /\ utilization' = IF lastBusy = None THEN None ELSE Utilization(busy - lastBusy)
  /\ lastBusy' = busy
  /\ \E d \in 0 .. MaxCall : until' = now + d /\ prompt' = (prompt /\ d < Interval)
  /\ lastAt' = now /\ readings' = readings + 1
  /\ share' = IF lastBusy = None THEN None
              ELSE (100 * (busy - lastBusy)) \div (now - lastAt)
  /\ UNCHANGED <<now, next, busy>>

\* Mutant of CallReturns: a tick that came during the call is thrown away.
CallReturnsDraining ==
  /\ until = now
  /\ until' = None
  /\ tick' = FALSE
  /\ UNCHANGED <<now, next, busy, lastBusy, utilization, lastAt, readings, share, prompt>>

CallReturns ==
  /\ until = now
  /\ until' = None
  /\ UNCHANGED <<now, ticker, busy, lastBusy, utilization, lastAt, readings, share, prompt>>

\* A unit of time passes, in which the device is busy or not.
ClockTick ==
  /\ now < MaxTime
  /\ until # now /\ ~(until = None /\ tick)
  /\ now' = now + 1
  /\ busy' \in {busy, busy + 1}
  /\ IF now' = next THEN tick' = TRUE /\ next' = next + Interval
                    ELSE UNCHANGED ticker
  /\ UNCHANGED <<until, lastBusy, utilization, lastAt, readings, share, prompt>>

SamplingNext == Collect \/ CallReturns \/ ClockTick

SamplingSpec == SamplingInit /\ [][SamplingNext]_samplingVars

-----------------------------------------------------------------------------
TypeOK ==
  /\ now \in 0 .. MaxTime /\ next \in now + 1 .. now + Interval
  /\ tick \in BOOLEAN
  /\ until \in {None} \cup now .. now + MaxCall
  /\ busy \in 0 .. now /\ lastBusy \in {None} \cup 0 .. busy
  /\ utilization \in {None} \cup 0 .. 100
  /\ lastAt \in 0 .. now

(***************************************************************************)
(* Readings keep the pace of the ticker, however ticks and long calls      *)
(* overlap: ticks are dropped and readings never catch up in a burst, one  *)
(* for each tick and one at the start at most; and two readings are never  *)
(* further apart than the longer of the interval and the longest call      *)
(* (manager.go:90-105).                                                    *)
(***************************************************************************)
ReadingsKeepPace ==
  /\ readings <= now \div Interval + 1
  /\ readings > 0 =>
       now - lastAt <= IF Interval > MaxCall THEN Interval ELSE MaxCall

(***************************************************************************)
(* As long as no call has lasted an interval, the utilization is the share *)
(* of the time between the two readings in which the device was busy: a    *)
(* tick is then served when it fires, and the fixed divisor is right       *)
(* (manager.go:98-104, disk.go:103-149).  Not so after a call that lasted  *)
(* longer, which a wait for the lock can do at the documented interval of  *)
(* 5s (docs/configuration.md:133): a late reading covers more or less than *)
(* an interval, and disk.go:105 and 147 divide by the configured one.      *)
(***************************************************************************)
ExactWhenPrompt ==
  prompt /\ utilization # None /\ share # None => utilization = share
=============================================================================
