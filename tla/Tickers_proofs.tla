--------------------------- MODULE Tickers_proofs ---------------------------
(***************************************************************************)
(* Proofs about the two modules with a clock and a time.Ticker.  First     *)
(* Cleanup, for any configuration files, retentions and period; then       *)
(* DiskSampling, for any interval and longest call.                        *)
(***************************************************************************)
EXTENDS Cleanup, DiskSampling, TLAPS

Shape ==
  /\ file \in Files /\ wanted \in BOOLEAN /\ told \in Int /\ ages \subseteq 0 .. MaxAge
  /\ phase \in 0 .. Period - 1 /\ lived \in 0 .. Period
  /\ due \in BOOLEAN /\ failed \in BOOLEAN

\* The configuration in force keeps rows for as long as its file said.
AsTold == Running => config \in Config /\ config.retention = told

\* The ticker: its first tick is a whole period after the start.
TickerOK ==
  /\ due => Running /\ phase = 0
  /\ lived < Period => phase = lived /\ ~due /\ ~failed
  /\ ~Running => lived = 0

Kept == IF told > 0 THEN told ELSE 0

\* After a cleanup the oldest row grows older with the phase.
Bounded ==
  ~due /\ lived = Period /\ ~failed => \A a \in ages : a <= Kept + phase

IInv == Shape /\ AsTold /\ TickerOK /\ Bounded

-----------------------------------------------------------------------------
\* Numbers that a file leaves out get their defaults, and nothing else does.
LEMMA Loaded ==
  ASSUME NEW f \in File, f # BadFile, f # NoFile
  PROVE  /\ LoadConfig(f) \in Config /\ LoadConfig(f) # Failed
         /\ LoadConfig(f).interval = SaidInterval(f)
         /\ LoadConfig(f).retention = Said(f)
         /\ LoadConfig(f).enabled = {c \in Collector \cup {Process} : f.collector[c] = "on"}
<1> DEFINE i == IF f.interval = 0 THEN DefaultInterval ELSE f.interval
           r == IF f.retention = 0 THEN DefaultRetention ELSE f.retention
           on == {c \in Collector \cup {Process} : f.collector[c] = "on"}
<1>1. f.interval \in Int /\ f.retention \in Int
  BY DEF File
<1>2. LoadConfig(f) = [Unmarshal(f) EXCEPT !.interval = i, !.retention = r]
  BY DEF LoadConfig, Unmarshal
<1>3. i \in Int /\ r \in Int /\ on \in SUBSET (Collector \cup {Process})
  BY <1>1, StartupAssumption
<1>4. Unmarshal(f) \in Config /\ Unmarshal(f).enabled = on
  BY <1>1, <1>3 DEF Unmarshal, Config
<1>5. i = SaidInterval(f) /\ r = Said(f)
  BY DEF SaidInterval, Said
<1> HIDE DEF i, r, on
<1>6. /\ LoadConfig(f) \in Config
      /\ LoadConfig(f).interval = i /\ LoadConfig(f).retention = r
      /\ LoadConfig(f).enabled = on
  BY <1>2, <1>3, <1>4 DEF Config
<1> QED
  BY <1>5, <1>6, FailedAssumption DEF on

\* A process has in force what its file said; a file that is not read at
\* all, or without a retention, means the default.
LEMMA StartAsSaid ==
  ASSUME NEW f \in File \cup {NoFile, BadFile}, Start(f) # Failed
  PROVE  Start(f) \in Config /\ Start(f).retention = Said(f)
<1>1. CASE f = NoFile
  <2>1. Start(f) = DefaultConfig
    BY <1>1 DEF Start
  <2>2. DefaultConfig \in Config /\ DefaultConfig.retention = DefaultRetention
    BY StartupAssumption DEF DefaultConfig, Config
  <2> QED
    BY <1>1, <2>1, <2>2 DEF Said
<1>2. CASE f # NoFile
  <2>1. f # BadFile /\ Start(f) = LoadConfig(f)
    BY <1>2 DEF Start, LoadConfig
  <2> QED
    BY <1>2, <2>1, Loaded
<1> QED
  BY <1>1, <1>2

LEMMA SaidIsInt == \A f \in Files : Said(f) \in Int
BY CleanupAssumption, StartupAssumption DEF Said, File

LEMMA InvInit == Init => IInv
<1> SUFFICES ASSUME Init PROVE IInv
  OBVIOUS
<1>1. due \in BOOLEAN /\ failed \in BOOLEAN /\ wanted \in BOOLEAN
  BY DEF Init
<1>2. Shape
  BY <1>1, CleanupAssumption, StartupAssumption DEF Init, Shape
<1>3. ~due /\ ~failed
  BY DEF Init
<1> QED
  BY <1>2, <1>3 DEF Init, IInv, AsTold, TickerOK, Bounded, Running

LEMMA InvHour ==
  ASSUME IInv, Hour
  PROVE  IInv'
<1>1. /\ ~due /\ UNCHANGED <<file, wanted, config, failed, told>>
      /\ IF Running
           THEN /\ phase' = (phase + 1) % Period
                /\ due' = (phase + 1 = Period)
                /\ lived' = IF lived = Period THEN Period ELSE lived + 1
           ELSE UNCHANGED <<phase, due, lived>>
  BY DEF Hour
<1>2. \A a \in ages' : a = 0 \/ \E b \in ages : a = b \/ a = b + 1
  BY DEF Hour
<1>3. ages' \subseteq 0 .. MaxAge
  BY CleanupAssumption DEF Hour, IInv, Shape
<1>4. phase + 1 < Period => (phase + 1) % Period = phase + 1
  BY CleanupAssumption DEF IInv, Shape
<1>5. phase + 1 = Period => (phase + 1) % Period = 0
  BY CleanupAssumption DEF IInv, Shape
<1>6. CASE Running
  <2>1. phase \in 0 .. Period - 1 /\ lived \in 0 .. Period /\ Period \in Nat
    BY CleanupAssumption DEF IInv, Shape
  <2>2. phase' \in 0 .. Period - 1 /\ lived' \in 0 .. Period
    BY <1>1, <1>4, <1>5, <1>6, <2>1
  <2>3. due' \in BOOLEAN /\ (due' <=> phase + 1 = Period)
    BY <1>1, <1>6
  <2>4. Shape'
    BY <1>1, <1>3, <2>2, <2>3 DEF IInv, Shape
  <2>5. AsTold' /\ Running'
    BY <1>1, <1>6 DEF IInv, AsTold, Running
  <2>6. TickerOK'
    <3>1. due' => phase' = 0
      BY <1>1, <1>5, <1>6, <2>3
    <3>2. lived' < Period => lived < Period /\ lived' = lived + 1 /\ phase = lived /\ ~failed
      BY <1>1, <1>6, <2>1 DEF IInv, TickerOK
    <3>3. lived' < Period => phase' = lived' /\ ~due' /\ ~failed'
      BY <1>1, <1>4, <1>6, <2>1, <2>3, <3>2
    <3> QED
      BY <2>5, <3>1, <3>3 DEF TickerOK
  <2>7. Bounded'
    <3>1. SUFFICES ASSUME ~due', lived' = Period, ~failed', NEW a \in ages'
          PROVE  a <= Kept + phase'
      BY <1>1 DEF Bounded, Kept
    <3>2. phase' = phase + 1
      BY <1>1, <1>4, <1>6, <2>1, <2>3, <3>1
    <3>3. lived = Period
      <4>1. CASE lived < Period
        BY <1>1, <1>6, <2>1, <2>3, <3>1, <4>1 DEF IInv, TickerOK
      <4> QED
        BY <2>1, <4>1
    <3>4. \A b \in ages : b \in Int /\ b <= Kept + phase
      BY <1>1, <3>1, <3>3 DEF IInv, Shape, Bounded
    <3>5. Kept \in Nat
      BY DEF IInv, Shape, Kept
    <3> QED
      BY <1>2, <2>1, <3>2, <3>4, <3>5
  <2> QED
    BY <2>4, <2>5, <2>6, <2>7 DEF IInv
<1>7. CASE ~Running
  <2>1. UNCHANGED <<phase, due, lived>>
    BY <1>1, <1>7
  <2>2. Shape'
    BY <1>1, <1>3, <2>1 DEF IInv, Shape
  <2>3. lived' # Period
    BY <1>7, <2>1, CleanupAssumption DEF IInv, TickerOK
  <2> QED
    BY <1>1, <2>1, <2>2, <2>3 DEF IInv, AsTold, TickerOK, Bounded, Running
<1> QED
  BY <1>6, <1>7

LEMMA InvStep == IInv /\ [Next]_vars => IInv'
<1> SUFFICES ASSUME IInv, [Next]_vars PROVE IInv'
  OBVIOUS
<1> USE DEF IInv, process
<1>1. CASE Hour
  BY <1>1, InvHour
<1>2. CASE DeleteOldMetrics
  <2>1. /\ due /\ ~due' /\ ~failed' /\ ages' = ages \ Expired
        /\ UNCHANGED <<file, wanted, config, phase, lived, told>>
    BY <1>2 DEF DeleteOldMetrics
  <2>2. Shape'
    <3>1. due' \in BOOLEAN /\ failed' \in BOOLEAN
      BY <1>2 DEF DeleteOldMetrics
    <3> QED
      BY <2>1, <3>1 DEF Shape
  <2>3. AsTold' /\ TickerOK'
    BY <2>1 DEF AsTold, TickerOK, Running
  <2>4. Bounded'
    <3>1. config.retention = told /\ phase = 0
      BY <2>1 DEF TickerOK, AsTold
    <3>2. \A a \in ages' : a <= told /\ a \in Int
      BY <2>1, <3>1 DEF Expired, Shape
    <3> QED
      BY <2>1, <3>1, <3>2 DEF Bounded, Kept, Shape
  <2> QED
    BY <2>2, <2>3, <2>4
<1>3. CASE DeleteFails
  <2>1. /\ due /\ ~due' /\ failed' /\ due' \in BOOLEAN /\ failed' \in BOOLEAN
        /\ ages' \subseteq ages
        /\ UNCHANGED <<file, wanted, config, phase, lived, told>>
    BY <1>3 DEF DeleteFails
  <2> QED
    BY <2>1 DEF Shape, AsTold, TickerOK, Bounded, Running
<1>4. CASE Die \/ Stop
  <2>1. /\ config' = Failed /\ phase' = 0 /\ lived' = 0 /\ ~due' /\ ~failed'
        /\ due' \in BOOLEAN /\ failed' \in BOOLEAN
        /\ UNCHANGED <<file, ages, told>>
    BY <1>4 DEF Die, Stop, Ends
  <2>2. wanted' \in BOOLEAN
    BY <1>4 DEF Die, Stop, Shape
  <2> QED
    BY <2>1, <2>2, CleanupAssumption DEF Shape, AsTold, TickerOK, Bounded, Running
<1>5. CASE StartProcess
  <2>1. /\ ~Running /\ Start(file) # Failed /\ config' = Start(file)
        /\ told' = Said(file)
        /\ UNCHANGED <<file, wanted, ages, phase, due, lived, failed>>
    BY <1>5 DEF StartProcess
  <2>2. lived = 0 /\ lived # Period
    BY <2>1, CleanupAssumption DEF TickerOK
  <2>3. config' \in Config /\ config'.retention = told' /\ told' \in Int
    BY <2>1, StartAsSaid, SaidIsInt, CleanupAssumption DEF Shape
  <2> QED
    BY <2>1, <2>2, <2>3 DEF Shape, AsTold, TickerOK, Bounded, Running
<1>6. CASE EditFile \/ Enable
  <2>1. /\ file' \in Files /\ wanted' \in BOOLEAN
        /\ UNCHANGED <<ages, config, phase, due, lived, failed, told>>
    BY <1>6 DEF EditFile, Enable, Shape
  <2> QED
    BY <2>1 DEF Shape, AsTold, TickerOK, Bounded, Running, Kept
<1>7. CASE UNCHANGED vars
  BY <1>7 DEF vars, Shape, AsTold, TickerOK, Bounded, Running, Kept
<1> QED
  BY <1>1, <1>2, <1>3, <1>4, <1>5, <1>6, <1>7 DEF Next

LEMMA Invariance == Spec => []IInv
BY InvInit, InvStep, PTL DEF Spec

-----------------------------------------------------------------------------
(***************************************************************************)
(* How far what the documentation says of a file holds, of all the files   *)
(* there can be.  An agent that starts has the documented interval, for    *)
(* which a ticker can be made, and retention; it runs no collector that the*)
(* file is not documented to enable, and all of these exactly if the file  *)
(* leaves none to its default.  A documented file starts an agent unless it*)
(* leaves to their defaults all the collectors that are not off; a file    *)
(* that the documentation does not describe never starts one               *)
(* (config.go:72-98, main.go:78-86, manager.go:24-67, 92; README.md:135,   *)
(* docs/configuration.md:25-109).                                          *)
(***************************************************************************)
THEOREM DocumentedUpToDefaults ==
  ASSUME NEW f \in File \cup {NoFile, BadFile}
  PROVE  /\ Start(f) # Failed =>
              /\ Documented(f)
              /\ Start(f).interval = SaidInterval(f) /\ Start(f).interval > 0
              /\ Start(f).retention = Said(f)
              /\ Start(f).enabled \cap Collector \subseteq SaidCollectors(f)
              /\ Start(f).enabled \cap Collector = SaidCollectors(f) <=> Complete(f)
         /\ Documented(f) =>
              (Start(f) = Failed <=>
                 f # NoFile /\ \A c \in SaidCollectors(f) : f.collector[c] = "left out")
<1>1. CASE f = NoFile
  <2>1. /\ DefaultConfig \in Config /\ NewManager(DefaultConfig)
        /\ TickerIsMade(DefaultConfig)
        /\ DefaultConfig.interval = DefaultInterval /\ DefaultInterval > 0
        /\ DefaultConfig.enabled \cap Collector = Collector
    BY StartupAssumption DEF DefaultConfig, Config, NewManager, TickerIsMade
  <2>2. Start(f) = DefaultConfig /\ Start(f) # Failed
    BY <1>1, <2>1, FailedAssumption DEF Start
  <2>3. SaidCollectors(f) = Collector /\ SaidInterval(f) = DefaultInterval /\ Complete(f)
    BY <1>1 DEF SaidCollectors, SaidInterval, Complete
  <2>4. f # BadFile
    BY <1>1, StartupAssumption
  <2> QED
    BY <1>1, <2>1, <2>2, <2>3, <2>4, StartAsSaid, StartupAssumption DEF Documented
<1>2. CASE f # NoFile /\ f = BadFile
  BY <1>2 DEF Start, LoadConfig, Documented
<1>3. CASE f # NoFile /\ f # BadFile
  <2> DEFINE on == {c \in Collector \cup {Process} : f.collector[c] = "on"}
             cfg == LoadConfig(f)
  <2>1. /\ f \in File /\ cfg # Failed /\ cfg.interval = SaidInterval(f)
        /\ cfg.retention = Said(f) /\ cfg.enabled = on
    BY <1>3, Loaded
  <2>2. \A c \in Collector : f.collector[c] \in {"on", "off", "left out"}
    BY <2>1 DEF File, Switches
  <2>3. /\ SaidCollectors(f) = {c \in Collector : f.collector[c] # "off"}
        /\ Complete(f) <=> \A c \in Collector : f.collector[c] # "left out"
        /\ Documented(f) <=> SaidInterval(f) > 0 /\ SaidCollectors(f) # {}
    BY <1>3 DEF SaidCollectors, Complete, Documented
  <2>4. /\ on \cap Collector \subseteq SaidCollectors(f)
        /\ on \cap Collector = SaidCollectors(f) <=> Complete(f)
        /\ on \cap Collector = {} <=> \A c \in SaidCollectors(f) : f.collector[c] = "left out"
    BY <2>2, <2>3
  <2> HIDE DEF on, cfg
  <2>5. Start(f) = IF on \cap Collector # {} /\ SaidInterval(f) > 0 THEN cfg ELSE Failed
    BY <1>3, <2>1 DEF Start, NewManager, TickerIsMade, cfg
  <2> QED
    BY <1>3, <2>1, <2>3, <2>4, <2>5
<1> QED
  BY <1>1, <1>2, <1>3

(***************************************************************************)
(* What a process has in force is what its file says or the default of a   *)
(* number that the file leaves out (config.go:72-98).                      *)
(***************************************************************************)
THEOREM RetentionAsTold == Spec => []AsTold
<1>1. IInv => AsTold
  BY DEF IInv
<1> QED
  BY <1>1, Invariance, PTL

(***************************************************************************)
(* Rows outlive their retention by at most one period of the ticker when   *)
(* the process has lived for one and its last cleanup succeeded            *)
(* (main.go:89-96, config.go:87).                                          *)
(***************************************************************************)
THEOREM OverstayIsBounded == Spec => []OverstayBounded
<1>1. IInv => OverstayBounded
  <2> SUFFICES ASSUME IInv, ~due, lived = Period, ~failed, NEW a \in ages
               PROVE  a <= Kept + Period
    BY DEF OverstayBounded, Kept
  <2>1. a <= Kept + phase
    BY DEF IInv, Bounded
  <2>2. a \in Int /\ Kept \in Int /\ phase \in Int /\ phase < Period /\ Period \in Int
    BY CleanupAssumption DEF IInv, Shape, Kept
  <2> QED
    BY <2>1, <2>2
<1> QED
  BY <1>1, Invariance, PTL

(***************************************************************************)
(* A cleanup deletes only what is older than the file said at the start of *)
(* the process (config.go:87-89, 105, main.go:93-96).                      *)
(***************************************************************************)
THEOREM DeletedAsTold == Spec => DeletesAsTold
<1>1. IInv /\ [Next]_vars => [due => \A a \in ages \ ages' : a > told]_vars
  <2> SUFFICES ASSUME IInv, Next, due, NEW a \in ages \ ages' PROVE a > told
    OBVIOUS
  <2>1. DeleteOldMetrics \/ DeleteFails
    BY DEF Next, Hour, Die, Stop, Ends, Enable, StartProcess, EditFile
  <2>2. a > config.retention
    BY <2>1 DEF DeleteOldMetrics, DeleteFails, Expired
  <2> QED
    BY <2>2 DEF IInv, TickerOK, AsTold
<1> QED
  BY <1>1, Invariance, PTL DEF Spec, DeletesAsTold
-----------------------------------------------------------------------------
(***************************************************************************)
(* The ticker of runCollector: DiskSampling, for any interval, longest     *)
(* call and time.  Its properties are inductive once each state says where *)
(* the ticker is (OnGrid), that a buffered tick is counted among those that*)
(* fired (OnePerTick), how long ago the last reading was when no tick is   *)
(* buffered (Recent), and that calls which are shorter than the interval   *)
(* leave every reading at a tick (Prompt).                                 *)
(***************************************************************************)
\* The quotient of natural numbers, of which the provers know the equation.
LEMMA DivRange ==
  ASSUME NEW a \in Nat, NEW b \in Nat \ {0}
  PROVE  a \div b \in Nat /\ b * (a \div b) <= a /\ a < b * (a \div b) + b
OBVIOUS

LEMMA DivUnique ==
  ASSUME NEW a \in Nat, NEW b \in Nat \ {0}, NEW q \in Nat, b * q <= a, a < b * q + b
  PROVE  a \div b = q
OBVIOUS

\* Busy for a of the b units, in percent.
LEMMA ShareIsPercent ==
  ASSUME NEW a \in Nat, NEW b \in Nat \ {0}
  PROVE  /\ (100 * a) \div b \in Nat
         /\ a <= b => (100 * a) \div b <= 100
OBVIOUS

\* The ticker fires at the multiples of the interval.
OnGrid == next = Interval * (now \div Interval) + Interval

\* A buffered tick is a reading to come, unless it is dropped.
OnePerTick == readings + (IF tick THEN 1 ELSE 0) <= now \div Interval + 1

\* Without a buffered tick the ticker has not fired since the last reading; a
\* call in progress began at that reading.
Recent ==
  /\ readings \in Nat
  /\ readings = 0 => now = 0 /\ tick /\ until = None /\ lastBusy = None
  /\ readings > 0 =>
       /\ lastBusy # None /\ busy - lastBusy <= now - lastAt
       /\ ~tick => next <= lastAt + Interval
       /\ until # None => until <= lastAt + MaxCall

\* As long as calls are shorter than the interval, readings are at the ticks.
Prompt ==
  prompt /\ readings > 0 =>
    IF tick THEN until = None /\ now = lastAt + Interval /\ next = now + Interval
    ELSE next = lastAt + Interval /\ (until # None => until < next)

SamplingInv ==
  /\ TypeOK /\ OnGrid /\ OnePerTick /\ Recent /\ Prompt
  /\ ReadingsKeepPace /\ ExactWhenPrompt

LEMMA SamplingInvInit == SamplingInit => SamplingInv
<1> SUFFICES ASSUME SamplingInit PROVE SamplingInv
  OBVIOUS
<1>1. 0 \div Interval = 0
  BY SamplingAssumption, DivUnique
<1>2. TypeOK /\ OnGrid /\ OnePerTick
  BY <1>1, SamplingAssumption DEF SamplingInit, TypeOK, OnGrid, OnePerTick
<1>3. Recent /\ Prompt /\ ExactWhenPrompt
  BY SamplingAssumption DEF SamplingInit, Recent, Prompt, ExactWhenPrompt
<1>4. ReadingsKeepPace
  BY <1>1, SamplingAssumption DEF SamplingInit, ReadingsKeepPace
<1> QED
  BY <1>2, <1>3, <1>4 DEF SamplingInv

LEMMA CollectStep == SamplingInv /\ Collect => SamplingInv'
<1> SUFFICES ASSUME SamplingInv, Collect PROVE SamplingInv'
  OBVIOUS
<1>1. /\ Interval \in Nat \ {0} /\ MaxCall \in Nat /\ MaxTime \in Nat /\ None \notin Int
      /\ now \in Nat /\ now <= MaxTime /\ next \in now + 1 .. now + Interval /\ tick
      /\ busy \in 0 .. now /\ lastAt \in 0 .. now /\ readings \in Nat /\ until = None
      /\ lastBusy \in {None} \cup 0 .. busy
  BY SamplingAssumption DEF SamplingInv, TypeOK, Collect, Recent
<1>2. /\ tick' = FALSE /\ now' = now /\ next' = next /\ busy' = busy
      /\ lastBusy' = busy /\ lastAt' = now /\ readings' = readings + 1
      /\ utilization' = IF lastBusy = None THEN None ELSE Utilization(busy - lastBusy)
      /\ share' = IF lastBusy = None THEN None
                  ELSE (100 * (busy - lastBusy)) \div (now - lastAt)
  BY DEF Collect
<1>3. PICK d \in 0 .. MaxCall : until' = now + d /\ prompt' = (prompt /\ d < Interval)
  BY DEF Collect
<1>4. TypeOK'
  <2>1. utilization' \in {None} \cup 0 .. 100
    <3>1. CASE lastBusy = None
      BY <1>2, <3>1
    <3>2. CASE lastBusy # None
      <4> DEFINE percent == (100 * (busy - lastBusy)) \div Interval
      <4>1. busy - lastBusy \in Nat
        BY <1>1, <3>2
      <4>2. percent \in Nat
        BY <1>1, <4>1, ShareIsPercent
      <4>3. utilization' = IF percent > 100 THEN 100 ELSE percent
        BY <1>2, <3>2 DEF Utilization
      <4> HIDE DEF percent
      <4> QED
        BY <4>2, <4>3
    <3> QED
      BY <3>1, <3>2
  <2> QED
    <3>1. until' \in {None} \cup now' .. now' + MaxCall
      BY <1>1, <1>2, <1>3
    <3>2. tick' \in BOOLEAN
      BY <1>2
    <3> QED
      BY <1>1, <1>2, <2>1, <3>1, <3>2 DEF TypeOK
<1>5. OnGrid'
  BY <1>2 DEF SamplingInv, OnGrid
<1>6. OnePerTick'
  <2>1. now \div Interval \in Nat
    BY <1>1, DivRange
  <2> QED
    BY <1>1, <1>2, <2>1 DEF SamplingInv, OnePerTick
<1>7. Recent'
  BY <1>1, <1>2, <1>3 DEF Recent
<1>8. ReadingsKeepPace'
  <2>1. now \div Interval \in Nat
    BY <1>1, DivRange
  <2> QED
    BY <1>1, <1>2, <2>1 DEF SamplingInv, OnePerTick, ReadingsKeepPace
<1>9. prompt => next = now + Interval
  <2>1. CASE readings = 0
    <3>1. now = 0 /\ 0 \div Interval = 0
      BY <1>1, <2>1, DivUnique DEF SamplingInv, Recent
    <3> QED
      BY <1>1, <3>1 DEF SamplingInv, OnGrid
  <2>2. CASE readings > 0
    BY <1>1, <2>2 DEF SamplingInv, Prompt
  <2> QED
    BY <1>1, <2>1, <2>2
<1>10. Prompt'
  <2> SUFFICES ASSUME prompt'
               PROVE  next' = lastAt' + Interval /\ until' < next'
    BY <1>2 DEF Prompt
  <2>1. prompt /\ d < Interval
    BY <1>3
  <2> QED
    BY <1>1, <1>2, <1>3, <1>9, <2>1
<1>11. ExactWhenPrompt'
  <2> SUFFICES ASSUME prompt, lastBusy # None PROVE utilization' = share'
    BY <1>2, <1>3 DEF ExactWhenPrompt
  <2>1. readings > 0
    BY <1>1 DEF SamplingInv, Recent
  <2>2. now - lastAt = Interval
    BY <1>1, <2>1 DEF SamplingInv, Prompt
  <2>3. busy - lastBusy \in Nat /\ busy - lastBusy <= Interval
    BY <1>1, <2>1, <2>2 DEF SamplingInv, Recent
  <2> DEFINE percent == (100 * (busy - lastBusy)) \div Interval
  <2>4. percent \in Nat /\ percent <= 100
    BY <1>1, <2>3, ShareIsPercent
  <2>5. utilization' = (IF percent > 100 THEN 100 ELSE percent) /\ share' = percent
    BY <1>2, <2>2 DEF Utilization
  <2> HIDE DEF percent
  <2> QED
    BY <2>4, <2>5
<1> QED
  BY <1>4, <1>5, <1>6, <1>7, <1>8, <1>10, <1>11 DEF SamplingInv

LEMMA CallReturnsStep == SamplingInv /\ CallReturns => SamplingInv'
<1> SUFFICES ASSUME SamplingInv, CallReturns PROVE SamplingInv'
  OBVIOUS
<1>1. /\ until = now /\ until' = None
      /\ UNCHANGED <<now, next, tick, busy, lastBusy, utilization,
                     lastAt, readings, share, prompt>>
  BY DEF CallReturns, ticker
<1>2. None \notin Int /\ now \in Int
  BY SamplingAssumption DEF SamplingInv, TypeOK
<1>3. TypeOK'
  BY <1>1 DEF SamplingInv, TypeOK
<1>4. OnGrid' /\ OnePerTick' /\ ReadingsKeepPace' /\ ExactWhenPrompt'
  BY <1>1 DEF SamplingInv, OnGrid, OnePerTick, ReadingsKeepPace, ExactWhenPrompt
<1>5. Recent' /\ Prompt'
  BY <1>1, <1>2 DEF SamplingInv, Recent, Prompt
<1> QED
  BY <1>3, <1>4, <1>5 DEF SamplingInv

LEMMA ClockTickStep == SamplingInv /\ ClockTick => SamplingInv'
<1> SUFFICES ASSUME SamplingInv, ClockTick PROVE SamplingInv'
  OBVIOUS
<1>1. /\ Interval \in Nat \ {0} /\ MaxCall \in Nat /\ MaxTime \in Nat /\ None \notin Int
      /\ now \in Nat /\ now < MaxTime /\ next \in now + 1 .. now + Interval
      /\ tick \in BOOLEAN
      /\ busy \in 0 .. now /\ lastAt \in 0 .. now /\ readings \in Nat
      /\ lastBusy \in {None} \cup 0 .. busy
      /\ until \in {None} \cup now .. now + MaxCall /\ until # now
  BY SamplingAssumption DEF SamplingInv, TypeOK, ClockTick, Recent
<1>2. until = None => ~tick
  BY DEF ClockTick
<1>3. /\ now' = now + 1 /\ busy' \in {busy, busy + 1}
      /\ UNCHANGED <<until, lastBusy, utilization, lastAt, readings, share, prompt>>
      /\ now' = next => tick' = TRUE /\ next' = next + Interval
      /\ now' # next => UNCHANGED <<next, tick>>
  BY DEF ClockTick, ticker
<1>4. readings > 0
  BY <1>1, <1>2 DEF SamplingInv, Recent
<1> DEFINE k == now \div Interval
<1>5. k \in Nat /\ next = Interval * k + Interval
  BY <1>1, DivRange DEF SamplingInv, OnGrid
<1>6. now' \div Interval = IF now' = next THEN k + 1 ELSE k
  <2> HIDE DEF k
  <2>1. CASE now' = next
    <3>1. Interval * (k + 1) = Interval * k + Interval
      BY <1>1, <1>5
    <3> DEFINE m == k + 1
    <3>2. m \in Nat /\ now' \in Nat /\ now' = Interval * m
      BY <1>1, <1>5, <2>1, <3>1
    <3> HIDE DEF m
    <3>3. now' \div Interval = m
      BY <1>1, <3>2, DivUnique
    <3> QED
      BY <2>1, <3>3 DEF m
  <2>2. CASE now' # next
    <3>1. now' \in Nat /\ Interval * k <= now /\ now' < Interval * k + Interval
      BY <1>1, <1>3, <1>5, <2>2, DivRange DEF k
    <3> DEFINE m == Interval * k
    <3>2. m \in Int
      BY <1>1, <1>5
    <3>3. m <= now'
      <4> HIDE DEF m
      <4> QED
        BY <1>1, <1>3, <3>1, <3>2 DEF m
    <3> QED
      BY <1>1, <1>5, <2>2, <3>1, <3>3, DivUnique
  <2> QED
    BY <2>1, <2>2
<1>7. OnGrid'
  <2>1. Interval * (k + 1) = Interval * k + Interval
    BY <1>1, <1>5
  <2> HIDE DEF k
  <2> QED
    BY <1>3, <1>5, <1>6, <2>1 DEF OnGrid
<1>8. TypeOK'
  <2> HIDE DEF k
  <2>1. now' \in 0 .. MaxTime /\ busy' \in 0 .. now' /\ lastAt' \in 0 .. now'
    BY <1>1, <1>3
  <2>2. tick' \in BOOLEAN
    BY <1>1, <1>3
  <2>3. next' \in now' + 1 .. now' + Interval
    BY <1>1, <1>3
  <2>4. until' \in {None} \cup now' .. now' + MaxCall
    BY <1>1, <1>3
  <2>5. lastBusy' \in {None} \cup 0 .. busy'
    BY <1>1, <1>3
  <2>6. utilization' \in {None} \cup 0 .. 100
    BY <1>3 DEF SamplingInv, TypeOK
  <2> QED
    BY <2>1, <2>2, <2>3, <2>4, <2>5, <2>6 DEF TypeOK
<1>9. readings + (IF tick THEN 1 ELSE 0) <= k + 1
  BY DEF SamplingInv, OnePerTick
<1>10. OnePerTick'
  <2> HIDE DEF k
  <2> QED
    BY <1>1, <1>3, <1>5, <1>6, <1>9 DEF OnePerTick
<1>11. /\ lastBusy # None /\ busy - lastBusy <= now - lastAt
       /\ ~tick => next <= lastAt + Interval
       /\ until # None => until <= lastAt + MaxCall
  BY <1>4 DEF SamplingInv, Recent
<1>12. Recent'
  BY <1>1, <1>3, <1>4, <1>11 DEF Recent
<1>13. ReadingsKeepPace'
  <2>1. now' - lastAt <= IF Interval > MaxCall THEN Interval ELSE MaxCall
    BY <1>1, <1>2, <1>3, <1>11
  <2> HIDE DEF k
  <2>2. readings <= now' \div Interval + 1
    BY <1>1, <1>5, <1>6, <1>9
  <2> QED
    BY <1>3, <2>1, <2>2 DEF ReadingsKeepPace
<1>14. Prompt'
  <2> SUFFICES ASSUME prompt
               PROVE  IF tick'
                      THEN until = None /\ now' = lastAt + Interval /\ next' = now' + Interval
                      ELSE next' = lastAt + Interval /\ (until # None => until < next')
    BY <1>3 DEF Prompt
  <2>1. ~tick /\ next = lastAt + Interval /\ (until # None => until < next)
    BY <1>2, <1>4 DEF SamplingInv, Prompt
  <2>2. CASE now' = next
    BY <1>1, <1>3, <2>1, <2>2
  <2>3. CASE now' # next
    BY <1>3, <2>1, <2>3
  <2> QED
    BY <2>2, <2>3
<1>15. ExactWhenPrompt'
  BY <1>3 DEF SamplingInv, ExactWhenPrompt
<1> QED
  BY <1>7, <1>8, <1>10, <1>12, <1>13, <1>14, <1>15 DEF SamplingInv

LEMMA SamplingInvStep == SamplingInv /\ [SamplingNext]_samplingVars => SamplingInv'
<1>1. SamplingInv /\ UNCHANGED samplingVars => SamplingInv'
  BY DEF SamplingInv, TypeOK, OnGrid, OnePerTick, Recent, Prompt,
         ReadingsKeepPace, ExactWhenPrompt, samplingVars, ticker
<1> QED
  BY <1>1, CollectStep, CallReturnsStep, ClockTickStep DEF SamplingNext

LEMMA SamplingInvariance == SamplingSpec => []SamplingInv
BY SamplingInvInit, SamplingInvStep, PTL DEF SamplingSpec

(***************************************************************************)
(* The ticker's next time is ahead by an interval at most, a call returns  *)
(* within MaxCall, and disk.utilization_percent is a percentage            *)
(* (manager.go:90-105, disk.go:143-149).                                   *)
(***************************************************************************)
THEOREM SamplingTypeCorrect == SamplingSpec => []TypeOK
<1>1. SamplingInv => TypeOK
  BY DEF SamplingInv
<1> QED
  BY <1>1, SamplingInvariance, PTL

(***************************************************************************)
(* However long calls are, there is at most one reading for each tick and  *)
(* one at the start, and the last one is no longer ago than the interval   *)
(* or the longest call (manager.go:90-105).                                *)
(***************************************************************************)
THEOREM PaceIsKept == SamplingSpec => []ReadingsKeepPace
<1>1. SamplingInv => ReadingsKeepPace
  BY DEF SamplingInv
<1> QED
  BY <1>1, SamplingInvariance, PTL

(***************************************************************************)
(* As long as every call was shorter than the interval, the utilization is *)
(* the share of the time in which the device was busy: readings are then   *)
(* an interval apart, and the cap of 100 percent changes nothing           *)
(* (manager.go:98-104, disk.go:103-149).                                   *)
(***************************************************************************)
THEOREM PromptIsExact == SamplingSpec => []ExactWhenPrompt
<1>1. SamplingInv => ExactWhenPrompt
  BY DEF SamplingInv
<1> QED
  BY <1>1, SamplingInvariance, PTL
=============================================================================
