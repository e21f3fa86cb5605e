# A TLA+ verification project for Instvisor

Instvisor is a resource monitor written in Go. An agent (`cmd/agent`) samples
CPU, memory, disk, network and Docker containers at a fixed interval, stores the
samples in an SQLite database and deletes old ones. A second program
(`cmd/analyze`) reads the database and recommends a size for the host.

This directory holds TLA+ modules of the agent, TLC configurations that check
them on small instances, and TLAPS proofs of the properties that matter most for
every instance. `PROJECT.json` maps every definition to the lines of source it
models.

    tlc -workers 2 -config MCAgent.cfg MCAgent      # model-check a run
    tlapm Manager_proofs.tla                        # check the proofs of a module

## 1. The system

| Part | Source | State | Operations | Talks to |
|---|---|---|---|---|
| Agent process | `cmd/agent/main.go` | where `main` is | start, wait for a signal, stop, deferred `Close`, exit | all below |
| Collector manager | `pkg/collector/manager.go` | a goroutine, a ticker for each collector; context; WaitGroup | `Start`, `runCollector`, `collectAndStore`, `Stop` | collectors and storage, by calls |
| Retention | `main.go:88-102`, `sqlite.go:172-181` | a ticker of 24 hours | `runCleanup` | storage; nothing waits for it |
| Storage | `pkg/storage` | a table, SQLite's write lock, open transactions | `WriteMetrics`, `DeleteOldMetrics`, `QueryMetrics`, `Close` | SQLite through `database/sql` |
| CPU, disk, network collectors | `cpu.go`, `disk.go`, `network.go` | the counters of the last reading | `Collect` | files under `/proc` |
| Container collector | `container.go` | the counters of the last reading for each container | `Collect` | cgroup v2 files that come and go |
| Memory collector | `memory.go` | none | `Collect` | `/proc/meminfo` |
| Configuration and start-up | `pkg/config`, `main.go:76-82`, `NewManager` | the file | `LoadConfig`, `DefaultConfig`, `NewManager` | the agent |
| Analyzer, container analyzer | `pkg/analyzer` | none | statistics and pattern over a period | storage, by several queries |
| Recommender | `recommender.go` | none | sizing, instance tables, insights | the analysis |
| analyze command, system information | `cmd/analyze`, `system_info.go` | none | flags or detected sizes, one analysis, printing | analyzer, recommender |

Collectors share nothing with each other; each belongs to one goroutine. The
goroutines meet at the storage (in fact at SQLite's write lock, since each call
has a connection of its own), at the WaitGroup and at the context. The cleanup
goroutine meets the others at the lock only: `Stop` does not wait for it. The
analyze command is another process: it meets the agent only in the database.

What is hard here, and what makes each part correct:

* **Manager.** A `select` that finds a tick and the cancellation ready together;
  a WaitGroup that must agree with the goroutines; errors that must not end a
  loop. Correct: `Stop` returns, nothing runs afterwards, and until then every
  collector goes on sampling.
* **Storage.** Errors, lock timeouts, and crashes in the middle of a transaction;
  cleanups that interleave with writers. Correct: a batch is stored whole, once,
  or not at all; a cleanup removes only what is old; no path leaks the lock;
  every call returns.
* **Agent.** All of this together, with shutdown, death at any step and restart.
  Correct: the database is closed after the last write; after a signal the
  process ends.
* **Retention.** A ticker that starts again with each process, and cleanups that
  fail. Correct: old rows go in the end, and the time they overstay is bounded.
* **Collectors with baselines.** Reads that fail, names that appear and disappear
  during a scan, counters that start again, readings that come late. Correct: a
  difference is the use between two readings, and is reported once.
* **Start-up.** Fields that are left out, files that are missing or damaged,
  values nobody validates; a running process keeps the settings of a file that
  has changed. Correct: a documented file brings the agent up, and nothing is
  deleted that the file said to keep.
* **Analyzer.** Several queries, each of another state of a table that the agent
  changes; any of them may fail or be empty. Correct: every query sees the whole
  window, and a report rests on samples.
* **Arithmetic.** Unsigned differences of counters read at different moments,
  percentiles of few samples, means of zero, rounding at integers, tables made
  of cascades of conditions. Correct: percentages are percentages, sizes keep
  the headroom and agree with what else is printed.

`PROJECT.json` lists each hazard at its line with the properties that cover it,
or why none does.

## 2. Modules

| Module | Models | Actions (code) |
|---|---|---|
| `Manager` | `manager.go` | `Start` (loop of `Start`), `NewTicker`, `CollectMetrics`/`CollectNothing` (returns of `Collect`), `WriteReturns`, `OnTick`/`OnDone` (the cases of the `select`), `Stop`, `StopReturns` (`wg.Wait`); `TickerFires` is the runtime |
| `MetricStore` | what `storage.go` promises | `Submit`, `Store`, `Refuse`, `Expire`, `Forget`: batches as sets, no transactions or locks |
| `SQLiteStorage` | `sqlite.go`, for several goroutines | `WriteMetrics`, `Exec` (one INSERT), `Commit`, `WriteFails` (any error, with the deferred `Rollback`), `DeleteOldMetrics`, `Lock`, `DeleteDone`, `VacuumDone`, `CleanupFails`, `Open`, `Close`, `Crash` |
| `Agent` | `main.go`, composed from INSTANCEs of `Manager` and `SQLiteStorage` | `Boot`, `StartCollector`, `StartCleanup`, `Signal`, `StopReturns`, `Close`, `Exit`, `Crash`; the goroutines' steps join one of the manager with one of the storage; `CleanupTick`, `CleanupDeletes`, `CleanupGoesOn` |
| `Startup` | `config.go`, `NewManager`, the file a process starts with; operators | `Unmarshal`, `LoadConfig`, `NewManager`, `TickerIsMade`, `Start`; `Said`, `SaidInterval`, `SaidCollectors` and `Documented` are what the documentation says of a file, `Complete` where the two agree |
| `Cleanup` | retention on a clock of hours, over `Startup` | `Hour`, `DeleteOldMetrics`, `DeleteFails`, `StartProcess`, `Die`, `Stop` (SIGTERM), `Enable` (`systemctl start`, boot), `EditFile` |
| `Analysis` | `cmd/analyze`, the queries of `analyzer.go` and `container_analyzer.go` | `AnalyzePeriod`, `QueryCPU`, `QueryMemory`, `QueryDisk`, `AnalyzeContainers`, `GetUniqueContainers`, `ContainerCPU`, `ContainerMemory`, `Report`; the agent beside it is an INSTANCE of `MetricStore`: `Submit`, `WriteReturns`, `Expire` |
| `ContainerCollector` | the scans of `container.go` | `Glob`, `CollectCPU`, `CollectIO` for one path each; containers that start, stop, restart and work |
| `RateCollector` | the scans of `disk.go`, `network.go` and `cpu.go` | `OpenFile`, `ReadLine`, `Finish`, `ReadFails`; names that work, appear and disappear |
| `DiskSampling` | the loop of `runCollector` on a clock, with the utilization of `disk.go` | `Collect`, `CallReturns`, `ClockTick`; its specification is `SamplingSpec` |
| `Unsigned`, `CPUUsage`, `MemoryUsage` | the arithmetic of `cpu.go`, `memory.go` and a container's memory; operators | `CalculateCPUUsage`, `MemInfo`, `MemUsed`, `UsagePercent`, `ContainerUsagePercent` |
| `Statistics` | percentiles and pattern of `analyzer.go`; operators | `Percentile`, `Spread`, `DetectPattern` |
| `Sizing` | `recommender.go`, observations of `analyzer.go`; operators | `Observation`, `Need`, `CeilFloat`, `RecommendedCPUs`, `RecommendedMemory`, `Advice`, `SuggestAWS`, `SuggestOTC`, `TopN`, `CPUInsight`, `MemoryInsight` |
| `Arithmetic` | the last five over bounded inputs | one action for each computation: `CollectCPU`, `CollectMemory`, ..., `AnalyzeMetric`, `SizeCPU`, `SizeMemory`, `SuggestInstances`, `CompareContainers`; `Clear` |
| `Manager_proofs`, `SQLiteStorage_proofs`, `Agent_proofs`, `Tickers_proofs` (of `Cleanup`, `Startup` and `DiskSampling`), `ContainerCollector_proofs`, `RateCollector_proofs`, `Analysis_proofs`, `Arithmetic_proofs` | | theorems and proofs (section 4) |
| `MC...` | | instances for TLC |

Definitions whose comment begins with *Mutant of* are in no specification: each
is a plausible bug in the definition it names, and the properties of the runs
are known to tell it apart (`PROJECT.json`, "mutants"). Variables called
*history* in their comment serve only to state properties; no guard reads them,
except that a container knows whether it existed before.

What is external is modelled from the way the code uses it:

* **SQLite in WAL mode** (`sqlite.go:28`): one connection at a time holds the write
  lock, from its first INSERT (the driver begins deferred transactions) or from
  the start of a DELETE or VACUUM to commit or rollback; a statement that waits
  too long fails by the driver's busy timeout; what is not committed is gone
  when the process dies. `DB.Close` lets the statements in progress end, one that
  waits for the lock included, and no other starts: the VACUUM of a DELETE that
  ends after it fails.
* **Go**: tickers have a buffer of one and drop ticks; a `select` with several
  ready cases takes any of them; the death of `main` ends every goroutine.
* **The kernel**: counters grow and start at zero with a new device or cgroup;
  anything may come and go between the reading of two lines or files.

Data is abstracted to what the properties tell apart. A metric is its source,
number and time (`NewMetric` takes the time of each metric by itself, so a batch
can straddle a cutoff); names, units, values and labels are left out. The eight
counters of a network interface, and the four of `io.stat`, are read, kept and
subtracted together and are one. `uint64` subtraction is subtraction modulo a
`Modulus` that is larger than every counter. `float64` results are exact numbers
(percentiles in hundredths, a standard deviation by its square, a percentage by
its two parts), except in the sizing, where rounding shows. There the numbers
that come in, which are any `float64`, are multiples of one part in `Precision` of a
percent or a gigabyte, and what is computed from them may be off by one in `Ulp`,
so that `math.Ceil` may give the next integer or one less (`CeilFloat`).

How the modules hang together: `SQLiteStorage` implements `MetricStore`; `Agent`
composes `Manager` with `SQLiteStorage`; `Analysis` composes a reader with
`MetricStore` (and is shown to do nothing that this does not allow); `Cleanup` composes `Startup` with the life of processes.

## 3. Runs

| Run | Instance | Shows |
|---|---|---|
| `manager` | 3 collectors | `WaitGroupExact`, `StopMeansQuiet`; `StopTerminates` and `KeepsSampling` under fairness |
| `storage` | 3 goroutines, batches of one and two rows over 3 times, 3 cutoffs | `LockDiscipline`; the table implements `MetricStore`; `CallsReturn` |
| `agent` | 2 collectors, batches of up to 2, 2 times, 2 process starts | `CloseAfterWriters`, `AllOrNothing`, `DeletesOnlyExpired`; `ShutdownCompletes` |
| `cleanup` | period 3; 2 collectors, 7 files with retentions 2, -5 and the default 4 | `OverstayBounded` and `DeletesAsTold` through deaths, stops, failed cleanups and edited files; `ExpiredAreDeleted` if the process again and again lives for a period; `ComesUp` for files that leave no collector out |
| `container` | 2 containers | `ExactAfterReading` in spite of failed reads and restarts; `ExactOrTotal` without restarts; `ForgetsOldContainers` |
| `container_partial` | the same, each start with an ID of its own | **violation** of `DeltaFromLastReading` |
| `rates` | a partition and 2 disks | `EachUnitOnce` in spite of failed scans; `ForgetsAbsent` |
| `rates_configured` | `nvme0n1` configured | **violation** of `ConfiguredIsRead` |
| `sampling` | calls of up to 2.5 intervals | `ReadingsKeepPace`, `ExactWhenPrompt` |
| `analysis` | 2 containers, 3 batches in 3 seconds | `SeesWholeWindow`, `ListedSamplesCount`, `RecommendsFromSamples` beside writes and cleanups; `AnalysisEnds` |
| `analysis_cores` | a core with rows of its own | **violation** of `OneSamplePerCollection` |
| `arithmetic` | inputs up to the bounds below | `PercentagesAddUp`, `MemoryNearTruth`, `PercentilesCover`, `BurstsHavePeaks`, `HeadroomIsKept`, `AdviceAgrees`, `TablesHaveNoGaps` |

Each state machine has a type invariant (`TypeOK`) that its passing run checks,
except `Cleanup` and `Arithmetic`, where it would say nothing of its own. In
`Manager` it also says that the WaitGroup never becomes negative, which would
panic.

### Bounds

* `manager`: the state is finite, nothing is bounded. Three collectors include
  every relation of one goroutine to two others; the proofs hold for any number.
* `storage`: two writers and a cleaner can all be in calls at once and every
  one can take the lock from every other; a batch of two rows is the smallest
  that can be written in part; the refinement is proved for any batch.
* `agent` (`MaxTime`, `MaxBatch`, `MaxRound`, `MaxStarts`): two times let a batch
  straddle a cutoff, two starts let a process find what another one left. A
  larger instance (three times, retention 1, 1.8 million states) was checked for
  safety too; the liveness check of that one takes too long to repeat.
* `cleanup`: a period of three and retentions of two and four let a row expire at
  every phase of the ticker, and `MaxAge` is above every retention plus the
  period, so the states `OverstayBounded` forbids are told apart. There is a
  file of each kind that the code treats differently: none, damaged, without
  numbers, complete with a collector off and `process` on, with a negative
  retention and a collector left out, with a negative interval, and with
  `process` on and every collector left out, which is documented and fails.
* `container`, `rates` (`MaxUse`, `MaxWork` 1): a counter is seen before and after a
  change and a scan can fall between the changes of two counters; both also
  pass with 2 (12 million states each).
* `sampling` (`MaxTime`): six intervals contain two calls that each drop ticks.
* `analysis` (`MaxTime`, `MaxBatches`): three batches (CPU, memory, containers)
  are what a report with containers needs, and three seconds with a window and
  a retention of one let a row leave the window, and the table, while an
  analysis is in progress. Rows of cores are in `analysis_cores` only: to the
  other properties they are rows like any other.
* `arithmetic`: two readings of up to 2 jiffies, with an iowait that may decrease,
  hosts of up to 5 pages, up to 5 samples of 0 to 6, and 3 containers on up to
  `MaxCores` cores. Sizes are computed for P95 in tenths of a percent (`Precision`
  10): every whole percent and 0.1 above and below every multiple of five, hence
  on both sides of the thresholds 30, 40, 80 and 85; up to 36 cores; memories up
  to 68 GB in halves and 0.1 above and below every gigabyte; four values of
  headroom, the default ones among them; and an error of one in 100000 (`Ulp`),
  far above that of `float64`. The limits of `AdviceAgrees`, 24 cores and 44 GB
  for the default headroom, and every boundary of the tables of types lie inside.

### Fairness

Written beside each specification, and justified by the code's scheduling:

* A goroutine that can run does (weak fairness of its steps); calls return since
  `/proc` files are finite and waits for the database lock time out.
* Go's `select` chooses uniformly among ready cases: the cancellation, which
  stays ready, is eventually chosen (strong fairness of `OnDone`). With weak
  fairness only, `StopTerminates` would fail, as it should.
* `Agent` gives no fairness to the cleaner: `ShutdownCompletes` must hold with a
  VACUUM that never ends. Nor are signals or the clock fair.
* `Cleanup` assumes that a cleanup that is tried again and again succeeds
  sometimes (strong fairness of `DeleteOldMetrics`), which is what the code
  relies on: it never retries before the next day. And systemd starts the agent
  while it is `wanted` (weak fairness of `StartProcess`): the unit has
  `Restart=on-failure`, and with `RestartSec=5s` systemd's limit of starts is never
  reached. A clean exit, after SIGTERM, is no failure: after `Stop` nothing is
  started until somebody enables the agent again, which is not fair.
* `Analysis` assumes only that an analysis in progress goes on (weak fairness of
  `Analyze`): in WAL mode reads do not wait for the write lock, and every loop
  is over a finite set. Nothing is assumed of the agent.

### Disagreements between code and documentation

Shown by the three runs that expect a violation:

1. *Partial reads of a container* (`container.go:108`). If one of `cpu.stat` and
   `io.stat` cannot be read, the entry that is kept has a zero for the other one.
   The next scan reports the whole cumulative total as the use of one interval.
   Besides a restart under the same ID this is the only way: without the two
   faults the documented rate is proved (`DeltasUnlessFaults`).
2. *NVMe disks* (`disk.go:76`). `isPartition` skips every name that ends in a digit,
   also `nvme0n1`, which the documentation gives as an example to configure.
3. *Samples of cores* (`analyzer.go:35`). With `per_core`, the default, the rows of
   the host and of every core have the same name, and the query asks for no
   label: the statistics of "CPU" are those of all these rows together.

Shown by a proviso that a property needs, and would fail without:

* `AdviceAgrees`: "Calculate percentage of host resources" (`container_analyzer.go:90`)
  divides a container's CPU, in percent of one core, by the host's, in percent of
  all cores. No container above the documented 60 percent
  (`docs/container-metrics-docs.md:611`) is passed over, but the converse is stated
  for no number of cores: on two, a container with a third of the CPU in use
  "dominates". Memory in gigabytes is divided by memory in percent, and nothing
  is stated of it: on a host with 17 GB, 2 percent of them used, a container with
  0.25 GB, three quarters of what is used, does not dominate.
* `ExactOrTotal`: `docker restart` keeps the ID and starts the counters again
  (`container.go:194`). The unsigned difference wraps to almost 2^64, and the
  test `usageDiff >= 0` cannot fail. The differences of disks and interfaces
  wrap in the same way (`EachUnitOnce`).
* `ExactWhenPrompt`: rates divide by the configured interval (`disk.go:105`); a
  call that lasts longer makes readings late and the percentage wrong.
* `ExpiredAreDeleted`: the ticker of the cleanup starts again with the process,
  so an agent that is restarted every day never deletes anything
  (`main.go:89-92`).
* `ComesUp`: `README.md:135` says "All fields are optional - sensible defaults
  apply", and `docs/configuration.md:46-109` has every collector enabled by default.
  In the code a collector that the file leaves out is off (`config.go:78-98` fills
  in numbers only), and a file that leaves out all that it does not turn off, as
  one with nothing but an interval, starts no agent (`manager.go:60-64`). So
  `ComesUp` is stated for files that leave no collector out (`Complete`); without
  that it is false of the run's last file. How far code and documentation agree
  is a theorem (`DocumentedUpToDefaults`). A negative interval is not rejected and
  panics in `time.NewTicker` (`manager.go:90`).
* `DeletesAsTold`: a negative `retention_days` is not rejected and deletes
  everything (`main.go:93`). The documented zero means the default. In
  `OverstayBounded` a negative retention counts as zero: such a cleanup leaves
  nothing, and what is there has come since.
* `PercentagesAddUp`: the kernel does not promise that iowait grows. When it
  decreases, `cpu.iowait` wraps to almost 2^64 percent (`cpu.go:162`), but nothing
  else does, and `cpu.usage` stays a percentage if busy time has grown by as much.
* `AdviceAgrees`: sizes are whole, so advice and observation agree only where what
  the threshold of the observation needs (80 percent of the cores, say, and the
  headroom) leaves room for it. With the default headroom a CPU is not called
  reducible and heavily utilized at once on up to 24 cores, and no gigabyte is
  taken from a memory under pressure up to 44 GB; but 26 cores used to 80.1 percent
  need 24.99, and 64 GB used to 85.2 percent 62.7 (`recommender.go:74, 115`). Below
  two gigabytes, memory that is said to be underutilized may also be warned of as
  insufficient (`recommender.go:120`).
* `PercentilesCover`: "95% of samples below this" (`docs/recommendations.md:42`)
  is exact for many samples only.

* `HeadroomIsKept`: `docs/recommendations.md:155-158` rounds 4.03 cores to 4; the
  code takes 5, as a size with room for the headroom must.
* `EachUnitOnce`: if a scan fails before the line of a name, the name has no entry
  in the new map (`disk.go:98`, `network.go:113`, `cpu.go:107`), and its units
  until the next reading are in no metric. The property is about a name as long
  as it keeps its entry.

Met while reading, and checked by no property: `docs/container-metrics-docs.md:683-692`
and `776-784` print "evenly distributed" when no container has 30 percent of the
host, where the code wants the first three together below 30 (`recommender.go:206`),
and "usage is well-distributed" and "focus on the top 3" can be printed together
(`recommender.go:167-214`); `docs/recommendations.md` gives a confidence of 70% to
scheduled workloads where it is 60%, and calls a compute-optimised type too small
in memory, a check the code does not make for that family; `-use-p99` is
documented and does not exist, nor do the variables `INSTVISOR_DB_PATH`,
`INSTVISOR_INTERVAL` and `INSTVISOR_RETENTION` (`docs/configuration.md:714-736`) or
a configuration in `./agent.yaml` (`docs/configuration.md:13`): what `Startup` calls
the file is all there is.

## 4. Proofs

TLC checks small instances; these theorems hold for every value of the constants
that the named assumptions allow. Every safety property of a passing run is
stated by one. Each proof module has the same outline: an inductive invariant
(`IInv`) that TLC has checked too, a lemma for each action that needs one,
`InvInit`, `InvStep`, `Invariance`, and theorems that follow from it.

**`Manager_proofs`**, from `CollectorAssumption` (a finite set of collectors, not
empty: `NewManager` refuses to have none).

* `TypeCorrect`, `WaitGroupCounts`, `StopIsQuiet`: `TypeOK`, `WaitGroupExact` and
  `StopMeansQuiet` are invariants of `Spec`.
* Inductive invariant: `IInv == Shape /\ WaitGroupExact /\ StopAfterStart /\ StopMeansQuiet`.
  `StopMeansQuiet` alone is not inductive. That `wg.Wait` sees zero means "none
  runs" only because the counter is exact (`WaitGroupExact`), and "none runs"
  means "all are done" only because `Stop` comes after `Start` has started all of
  them (`StopAfterStart`). `TypeOK`'s bound on the counter follows from its being
  the cardinality of a subset; `Shape` is the rest of `TypeOK`.
* The cardinality lemmas (`LiveGrows`, `LiveShrinks`, `ZeroMeansNone`) reduce the
  steps to facts of `FiniteSetTheorems`.

**`SQLiteStorage_proofs`**, from `StorageAssumption` (batches are non-empty sequences
of rows; the name of nobody is no client's).

* `TypeCorrect`, `LockIsDisciplined`: `TypeOK` and `LockDiscipline` are invariants.
* `Refinement`: `Spec => ImplementsMetricStore`, with the mapping that shows the
  committed rows as `rows` and, for each goroutine, the rows of its unfinished
  `WriteMetrics` as `asked`.
* Inductive invariant: `IInv == TypeOK /\ LockDiscipline /\ BatchOK`. `BatchOK` says
  that a call in the loop of INSERTs has one of the batches, hence not an empty
  one: that is what lets `Commit` map to `Store` and an error to `Refuse`, both of
  which need something that was asked for. INSERTs, and taking the lock, map to
  stuttering; DELETE maps to `Expire`, because its cutoff separates the rows it
  removes from those it keeps.

**`Agent_proofs`**, from `AgentAssumption` (finitely many collectors, a retention
that is not negative, bounds of any size).

* `TypeCorrect`, `ClosedAfterWriters`, `BatchesAreWhole`, `OnlyExpiredDeleted`: the four
  safety properties of the run `agent`, the last one an action property.
* `AgentImplementsMetricStore`: the refinement is inherited by the composition.
* `WritesAreOfNewRows`: the guard of `WriteMetrics` in `SQLiteStorage`, that the rows
  are new, never blocks a collector of the agent, so the model loses no
  behaviour by it.
* Nothing of the two components is proved again: their proof modules are
  INSTANCEs (`MgrP`, `StoreP`), a step of the agent is shown to be a step of each
  or to leave it alone, and the end of a process, which is no step of the
  manager, leads to an initial state of it. `IInv` adds to the invariants of both
  what relates them: `MainOK` (the database is open just when `main` is between
  opening it and the deferred `Close`), `CallsMatch` (a collector is in
  `WriteMetrics` just when its goroutine is), `GotOK` and `SentOK` (batches have
  rows of their own, so that "whole or not at all" can be lost only by a partial
  commit or delete), `CutoffOK` (the cutoff of a DELETE that waits was taken in
  the past).

**`Tickers_proofs`**: first `Cleanup`, from `CleanupAssumption`, `StartupAssumption` and
`FailedAssumption` (any files, numbers in them included that nobody validates;
`MaxAge` above every retention plus the period); then `DiskSampling`, from
`SamplingAssumption`. The module extends both, which share no variable.

* `OverstayIsBounded`, `DeletedAsTold`, and `RetentionAsTold`: the configuration in
  force has the retention that its file meant.
* `DocumentedUpToDefaults`: code and documentation compared for all the files there
  can be. What the documentation says is written down from the documentation
  (`Said`, `SaidInterval`, `SaidCollectors`, `Documented`), what the code does from the
  code (`Start`). An agent that starts has the interval and the retention that are
  documented, and of the collectors a subset, all of them just if the file is
  `Complete`; a documented file fails to start an agent just if it leaves out every
  collector that it does not turn off.
* `IInv == Shape /\ AsTold /\ TickerOK /\ Bounded`. A row may outlive its retention
  by the phase of the ticker (`Bounded`), which is less than a period; and
  `TickerOK` is needed because the bound holds only once the process has lived
  for a period.
* The first attempt failed: with a retention below minus a period `OverstayBounded`
  was false, which an instance with -1 could not show. The property now counts
  a negative retention as zero, and the run has one of -5.

* `SamplingTypeCorrect`, `PaceIsKept`, `PromptIsExact`: the three invariants of the run
  `sampling`, for any interval and longest call. `SamplingInv` adds where
  the ticker is (`OnGrid`), that a buffered tick is one that has fired and not been
  read (`OnePerTick`), how long ago the last reading can be while no tick is
  buffered (`Recent`), and that short calls leave every reading at a tick
  (`Prompt`). `None` had to be told apart from a time (`SamplingAssumption`).

**`ContainerCollector_proofs`**, from `ContainerAssumption` (counters below the
modulus).

* `TypeCorrect`, `RatesAreExact`, `OldContainersForgotten`, `RatesExactOrTotal`, for any
  containers.
* `IInv` adds `ReadingsKept` (what was read of a counter, or the zero that stands
  for "nothing was", is in the previous map until the scan gets to it, and in the
  new one afterwards), `ScanOrder` and `OnlyFound` (where the scan is). The zero is
  what makes a rate exact or the whole total and nothing else; it is why
  `ScanOrder` says that the I/O of a new entry is zero until it is read.
* `DeltasUnlessFaults`: with `ReadsFail` and `SameID` false, `DeltaFromLastReading`,
  which the run `container_partial` refutes, holds. `NothingMissed` is the
  additional invariant: a running container in a map was read when the map was
  made. Containers may still come and go between the two files of a scan.

**`RateCollector_proofs`**, from `RateAssumption`.

* `TypeCorrect`, `UnitsReportedOnce`, `AbsentForgotten`, for any names, filters and
  counters. `IInv` adds `NotAbove` for both maps, `ResultExact` (the result is the
  difference of the maps, for the names that both have) and `OnlyListed`.

**`Analysis_proofs`**, from `AnalysisAssumption` and `AnswerAssumption` (`None` is not
an answer; TLC evaluates it like the others).

* `TypeCorrect`, `WholeWindowSeen`, `ListedSamplesAreCounted`, `ReportsHaveSamples`, for
  any cores, containers, period, retention and number of batches.
* `IInv` adds `Control` and `NotYet` (which queries have an answer at each stage),
  `Samples` (a stage is reached only with samples of CPU and memory: this is what
  `RecommendsFromSamples` needs), and `Retained`: a row that has left the table is
  one that the retention allows to go. Without that, nothing is known of what
  a later query finds.
* `AnalysisReadsAMetricStore`: `Spec => Store!Spec`. The guards of `Submit` and `Expire`
  in `Analysis` are of its own making (one batch of a series a second, a cutoff);
  that they imply those of `MetricStore`, new rows and the oldest first, needs
  `AskedOwn` and that no two collectors share a series.

**`Arithmetic_proofs`**, from `ArithmeticAssumption`, `SizingAssumption` and
`ModulusAssumption` (a word of any width; five times a counter of jiffies fits into
it; any `Precision` and `Ulp`).

* `CPUPercentages`, `MemoryIsNear`, `PercentilesAreCovered`, `BurstyHasAPeak`,
  `SizesKeepHeadroom`, `AdviceIsConsistent`, `EverySizeHasAType`: the seven properties
  of the run, for samples of any number and size, any headroom, and any finite
  set of containers. Computations keep no state, so the properties are inductive
  together; the work is in the operators.
* *Sizes.* The conclusion holds of every usage above (or below) a threshold since
  what it needs grows with it (`NeedIsMonotone`) and so do the bounds of what is
  computed instead (`RoundingIsMonotone`): `RoundedAgrees` puts the two together. With
  `Precision` a power of two large enough and `Ulp` below 2^50 the theorems are about
  every `float64` that is not denormal.
* *Order statistics.* `Sorted` is a CHOOSE: that a value with its two cardinalities
  exists (`SortedExists`) is shown with the smallest one that has enough samples
  up to it. From that follow the order of the percentiles
  (`PercentileMonotone`, with the interpolation) and what P95 covers
  (`PercentileCovers95`).
* *Sums.* `FoldFunction` of the community modules recurs over subsets of the domain.
  That such a function exists (`SumsExist`), and what a sum is bounded by
  (`SumBounded`, `SumConstant`), is shown from a least counterexample
  (`LeastNumber`, from `WFMin`), since the induction theorems of the library take
  an operator as a parameter, which the provers cannot instantiate. The sum of the
  squares is at most the largest sample times the sum; so a standard deviation
  above half of the mean needs a sample a quarter above it (`CvCancels`).

**Only model-checked**: liveness (`StopTerminates`, `KeepsSampling`, `CallsReturn`,
`ShutdownCompletes`, `ExpiredAreDeleted`, `ComesUp`, `AnalysisEnds`), which rests
on fairness and ENABLED and is beyond the prover, and the three violations.

## 5. Not modelled

* Durability at a power failure (`synchronous=NORMAL`, pragmas on one connection of
  the pool only, `sqlite.go:29-38`): a crash here is the death of the process.
* Adjustments of the system clock: the clock of `Agent` never goes backwards.
* The rounding of `float64` in comparisons of quotients (the classes of `detectPattern`,
  the shares of containers): they are compared as exact fractions.
* Counters other than iowait that decrease without starting again.
* Values that are copied from a file to a metric: load averages, the labels of
  containers (`getContainerInfo`), the host name.
* The few seconds between the windows of the host's and the containers' part of
  an analysis: `Analysis` has the two ends, but compares nothing across them.
* Printing, flags, wording, installation and CI have no logic worth a model.

## 6. State

Every component with logic of its own is modelled. Every safety property of the
passing runs, invariant or action property, is a theorem; the proofs and TLC
look at the same definitions. What could follow:

1. Shorter proofs: `ContainerCollector` and `RateCollector` both keep a map of the
   last readings, and share the argument of what that map remembers.
2. The windows of the host's and the containers' part of an analysis compared
   with each other (section 5).
3. A converse of the 60 percent in `AdviceAgrees`, and a part on memory, once the
   shares are computed in one unit.
