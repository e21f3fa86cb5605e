------------------------------ MODULE Analysis ------------------------------
(***************************************************************************)
(* cmd/analyze: one analysis is a sequence of QueryMetrics calls           *)
(* (pkg/analyzer/analyzer.go, container_analyzer.go), each of which sees   *)
(* one state of the table, while the agent, another process, goes on       *)
(* storing batches and deleting what is too old.  The agent's side is the  *)
(* abstract MetricStore, which SQLiteStorage implements.                   *)
(*                                                                         *)
(* Time is in seconds, the resolution of the column timestamp.  What is    *)
(* computed from the values of the rows is in Statistics and Sizing.       *)
(***************************************************************************)
EXTENDS Integers, FiniteSets

CONSTANTS
  Core,          \* the cores with rows of their own (per_core)
  Container,
  Aggregate,     \* the label of a row that is about the whole host
  Any,           \* nil labels: a query takes every row of the name
  None,          \* no answer, no container
  Period,        \* how far back the analysis looks (-days)
  Retention,     \* retention_days of the agent
  MaxTime,       \* bound on the clock
  MaxBatches     \* bound on the batches the agent stores

ASSUME AnalysisAssumption ==
  /\ Period \in Nat /\ Retention \in Nat /\ MaxTime \in Nat /\ MaxBatches \in Nat
  /\ Aggregate \notin Core \cup Container
  /\ Any \notin Core \cup Container \cup {Aggregate}
  /\ None \notin Container

HostCPU == "cpu.usage"
HostMemory == "memory.usage_percent"
HostDisk == "disk.utilization_percent"
CtrCPU == "container.cpu.usage_percent"
CtrMemory == "container.memory.usage_bytes"

Name == {HostCPU, HostMemory, HostDisk, CtrCPU, CtrMemory}

Row ==
  [name : Name,
   label : {Aggregate} \cup Core \cup Container, ts : 0 .. MaxTime]

Of(name, label) == [name |-> name, label |-> label]

\* None is told apart from every answer, which has rows of one name.
ASSUME AnswerAssumption ==
  \A n \in Name : \A answer \in SUBSET {r \in Row : r.name = n} : answer # None

HostQuery == {Of(n, Any) : n \in {HostCPU, HostMemory, HostDisk}}
Unique == Of(CtrCPU, Any)
Query ==
  HostQuery \cup {Unique}
    \cup {Of(n, c) : n \in {CtrCPU, CtrMemory}, c \in Container}

VARIABLES
  rows, asked,       \* the variables of MetricStore
  now, batches,      \* the clock; how many batches there have been
  pc,                \* where the analysis is
  hostEnd, ctrEnd,   \* the end of the window of its two parts
  todo, this,        \* the containers left, the one whose memory comes next
  got,               \* the answer to each query, or None
  before             \* history: the table when the analysis began

agent == <<rows, asked, batches>>
windows == <<hostEnd, ctrEnd, before>>
vars == <<agent, now, pc, windows, todo, this, got>>

Collectors == {"cpu", "memory", "disk", "container"}

Store == INSTANCE MetricStore WITH Client <- Collectors

Init ==
  /\ Store!Init
  /\ now = 0 /\ batches = 0
  /\ pc = "ended"
  /\ hostEnd = 0 /\ ctrEnd = 0
  /\ todo = {} /\ this = None
  /\ got = [q \in Query |-> None]
  /\ before = {}

-----------------------------------------------------------------------------
(***************************************************************************)
(* The agent.  A batch has the rows of one collection: the CPU collector   *)
(* gives the host and every core a row of the same name (a line without    *)
(* progress has none), a container can lack either of its rows.            *)
(***************************************************************************)
Series(c) ==
  CASE c = "cpu"       -> {Of(HostCPU, l) : l \in {Aggregate} \cup Core}
    [] c = "memory"    -> {Of(HostMemory, Aggregate)}
    [] c = "disk"      -> {Of(HostDisk, Aggregate)}
    [] c = "container" -> {Of(n, l) : n \in {CtrCPU, CtrMemory}, l \in Container}

\* WriteMetrics is called with a batch of this second, its collector's first.
Submit(c) ==
  /\ batches < MaxBatches
  /\ asked[c] = {}
  /\ \A r \in rows : Of(r.name, r.label) \in Series(c) => r.ts < now
  /\ \E some \in (SUBSET Series(c)) \ {{}} :
       asked' = [asked EXCEPT ![c] =
                   {[name |-> s.name, label |-> s.label, ts |-> now] : s \in some}]
  /\ batches' = batches + 1
  /\ UNCHANGED <<rows, now, pc, windows, todo, this, got>>

WriteReturns(c) ==
  /\ Store!Store(c) \/ Store!Refuse(c)
  /\ UNCHANGED <<batches, now, pc, windows, todo, this, got>>

\* DeleteOldMetrics, with a cutoff that may have been computed earlier.
Expire ==
  /\ \E cutoff \in 0 .. now - Retention : rows' = {r \in rows : r.ts >= cutoff}
  /\ rows' # rows
  /\ UNCHANGED <<asked, batches, now, pc, windows, todo, this, got>>

ClockTick ==
  /\ now < MaxTime
  /\ now' = now + 1
  /\ UNCHANGED <<agent, pc, windows, todo, this, got>>

-----------------------------------------------------------------------------
(***************************************************************************)
(* QueryMetrics: both ends of the window belong to it.                     *)
(***************************************************************************)
Matches(r, q, end) ==
  /\ r.name = q.name
  /\ q.label \in {Any, r.label}
  /\ r.ts \in end - Period .. end

\* Mutant of QueryMetrics: the start of the window does not belong to it.
QueryMetricsOpen(q, end) ==
  {r \in rows : Matches(r, q, end) /\ r.ts > end - Period}

QueryMetrics(q, end) == {r \in rows : Matches(r, q, end)}

Answer(q, end) == got' = [got EXCEPT ![q] = QueryMetrics(q, end)]

\* AnalyzePeriod: the time is taken once for its three queries.
AnalyzePeriod ==
  /\ pc = "ended"
  /\ pc' = "cpu"
  /\ hostEnd' = now /\ before' = rows
  /\ got' = [q \in Query |-> None]
  /\ UNCHANGED <<agent, now, ctrEnd, todo, this>>

\* A metric without which there is no analysis: an error, or no data, is fatal.
Needed(name, at, next) ==
  /\ pc = at
  /\ LET q == Of(name, Any) IN
       \/ QueryMetrics(q, hostEnd) # {} /\ Answer(q, hostEnd) /\ pc' = next
       \/ UNCHANGED got /\ pc' = "ended"
  /\ UNCHANGED <<agent, now, windows, todo, this>>

QueryCPU == Needed(HostCPU, "cpu", "memory")

\* Mutant of QueryMemory: an error is ignored, as for the disk.
QueryMemoryOptional ==
  /\ pc = "memory"
  /\ Answer(Of(HostMemory, Any), hostEnd) \/ UNCHANGED got
  /\ pc' = "disk"
  /\ UNCHANGED <<agent, now, windows, todo, this>>

QueryMemory == Needed(HostMemory, "memory", "disk")

\* The disk may be missing from the analysis.
QueryDisk ==
  /\ pc = "disk"
  /\ Answer(Of(HostDisk, Any), hostEnd) \/ UNCHANGED got
  /\ pc' = "containers"
  /\ UNCHANGED <<agent, now, windows, todo, this>>

\* AnalyzeContainers takes the time again.
AnalyzeContainers ==
  /\ pc = "containers"
  /\ ctrEnd' = now
  /\ pc' = "unique"
  /\ UNCHANGED <<agent, now, hostEnd, before, todo, this, got>>

\* getUniqueContainers; an error, and no container, leave the host's analysis.
GetUniqueContainers ==
  /\ pc = "unique"
  /\ \/ /\ Answer(Unique, ctrEnd)
        /\ todo' = {r.label : r \in QueryMetrics(Unique, ctrEnd)}
     \/ UNCHANGED <<got, todo>>
  /\ pc' = IF todo' = {} THEN "report" ELSE "container"
  /\ UNCHANGED <<agent, now, windows, this>>

NextContainer == pc' = IF todo' = {} THEN "report" ELSE "container"

\* Mutant of ContainerCPU: the window of the host is used.
ContainerCPUOfHost(c) ==
  /\ pc = "container" /\ this = None /\ c \in todo
  /\ Answer(Of(CtrCPU, c), hostEnd)
  /\ this' = c
  /\ UNCHANGED <<agent, now, pc, windows, todo>>

\* analyzeContainer for one of them, in the order of a map; after an error it
\* is skipped.
ContainerCPU(c) ==
  /\ pc = "container" /\ this = None /\ c \in todo
  /\ \/ Answer(Of(CtrCPU, c), ctrEnd) /\ this' = c /\ UNCHANGED <<pc, todo>>
     \/ /\ todo' = todo \ {c}
        /\ NextContainer
        /\ UNCHANGED <<got, this>>
  /\ UNCHANGED <<agent, now, windows>>

\* Mutant of ContainerMemory: after an error the container is tried again.
ContainerMemoryRetries ==
  /\ this # None
  /\ \/ Answer(Of(CtrMemory, this), ctrEnd) /\ todo' = todo \ {this}
     \/ UNCHANGED <<got, todo>>
  /\ this' = None
  /\ NextContainer
  /\ UNCHANGED <<agent, now, windows>>

\* Mutant of ContainerMemory: the container is not left.
ContainerMemoryForgets ==
  /\ this # None
  /\ Answer(Of(CtrMemory, this), ctrEnd) \/ UNCHANGED got
  /\ todo' = todo \ {this}
  /\ NextContainer
  /\ UNCHANGED <<agent, now, windows, this>>

\* Its memory; without an answer the container's memory stays zero.
ContainerMemory ==
  /\ this # None
  /\ Answer(Of(CtrMemory, this), ctrEnd) \/ UNCHANGED got
  /\ todo' = todo \ {this} /\ this' = None
  /\ NextContainer
  /\ UNCHANGED <<agent, now, windows>>

\* GenerateRecommendation and the printing, then the process ends.
Report ==
  /\ pc = "report"
  /\ pc' = "ended"
  /\ UNCHANGED <<agent, now, windows, todo, this, got>>

Analyze ==
  \/ QueryCPU \/ QueryMemory \/ QueryDisk
  \/ AnalyzeContainers \/ GetUniqueContainers
  \/ \E c \in Container : ContainerCPU(c)
  \/ ContainerMemory \/ Report

Next ==
  \/ AnalyzePeriod
  \/ Analyze
  \/ \E c \in Collectors : Submit(c) \/ WriteReturns(c)
  \/ Expire
  \/ ClockTick

\* An analysis goes on once it has begun: reads do not wait for the write lock.
\* Nothing is assumed of the agent.
Spec == Init /\ [][Next]_vars /\ WF_vars(Analyze)

-----------------------------------------------------------------------------
TypeOK ==
  /\ rows \subseteq Row /\ asked \in [Collectors -> SUBSET Row]
  /\ now \in 0 .. MaxTime /\ batches \in 0 .. MaxBatches
  /\ pc \in {"ended", "cpu", "memory", "disk", "containers", "unique",
             "container", "report"}
  /\ hostEnd \in 0 .. now /\ ctrEnd \in 0 .. now
  /\ todo \subseteq Container /\ this \in todo \cup {None}
  /\ \A q \in Query : got[q] = None \/ got[q] \subseteq Row

WindowEnd(q) == IF q \in HostQuery THEN hostEnd ELSE ctrEnd

(***************************************************************************)
(* An answer has every row of its window that was in the table when the    *)
(* analysis began, although the queries see different states of the table, *)
(* except what the agent has deleted since, which is only what its         *)
(* retention allows; and no row outside the window (analyzer.go:26-50,     *)
(* container_analyzer.go:61-83, sqlite.go:117-124).                        *)
(***************************************************************************)
SeesWholeWindow ==
  \A q \in Query : got[q] # None =>
    /\ \A r \in before :
         Matches(r, q, WindowEnd(q)) /\ r.ts + Retention >= now => r \in got[q]
    /\ \A r \in got[q] : Matches(r, q, WindowEnd(q))

(***************************************************************************)
(* The samples for which a container was listed are all in its statistics, *)
(* unless they have expired between the two queries.  So a container that  *)
(* is listed has samples as long as the agent keeps rows for longer than   *)
(* the period of the analysis (container_analyzer.go:73-86, 139-157).      *)
(***************************************************************************)
ListedSamplesCount ==
  got[Unique] # None =>
    \A r \in got[Unique] :
      got[Of(CtrCPU, r.label)] # None /\ r.ts + Retention >= now
        => r \in got[Of(CtrCPU, r.label)]

(***************************************************************************)
(* A recommendation is only made from CPU and memory samples: the pointers *)
(* analysis.CPU and analysis.Memory that recommender.go:57-58 follows are  *)
(* never nil, whichever query failed and whatever was deleted meanwhile    *)
(* (analyzer.go:35-45, 80-83).                                             *)
(***************************************************************************)
RecommendsFromSamples ==
  pc = "report" =>
    \A n \in {HostCPU, HostMemory} : got[Of(n, Any)] \notin {None, {}}

(***************************************************************************)
(* Every analysis ends, in a report or with an error, whatever the agent   *)
(* does meanwhile and whichever queries fail (container_analyzer.go:82-87).*)
(***************************************************************************)
AnalysisEnds == pc # "ended" ~> pc = "ended"

(***************************************************************************)
(* A collection gives one CPU sample: "7 days x 24 hours x 60 minutes x 4  *)
(* samples/min = 40,320 CPU samples" (docs/recommendations.md:24).  Not so *)
(* with per_core, the default: the rows of the cores have the name of the  *)
(* row of the host, and the query asks for no label (analyzer.go:35), so   *)
(* its percentiles are those of the cores and the host together.           *)
(***************************************************************************)
OneSamplePerCollection ==
  got[Of(HostCPU, Any)] # None =>
    \A r, s \in got[Of(HostCPU, Any)] : r.ts = s.ts => r = s
=============================================================================
