----------------------------- MODULE Arithmetic -----------------------------
(***************************************************************************)
(* The computations of the program that keep no state, over bounded        *)
(* inputs: each action is one computation with an input of its kind, and   *)
(* Clear makes room for the next one.                                      *)
(***************************************************************************)
EXTENDS CPUUsage, MemoryUsage, Statistics, Sizing

CONSTANTS
  MaxJiffies,    \* bound on the counters of /proc/stat
  MaxPages,      \* bound on the pages of the host
  MaxSamples,    \* bound on the number of samples
  MaxValue,      \* bound on a sample, and on the 95th percentile of a container
  MaxCores,      \* bound on the cores of the host
  MaxGigabytes,  \* bound on the memory of a type
  Memory,        \* the sizes of the memory of a host, in parts of a gigabyte
  Usage,         \* the 95th percentiles that are sized by, in parts of a percent
  Headroom,      \* the values of the flags for headroom, likewise
  Containers     \* the containers that are compared

ASSUME ArithmeticAssumption ==
  /\ 5 * MaxJiffies < Modulus /\ MaxPages < Modulus
  /\ {MaxJiffies, MaxPages, MaxSamples, MaxValue, MaxCores, MaxGigabytes}
       \subseteq Nat
  /\ Memory \subseteq Nat /\ Usage \subseteq Nat /\ Headroom \subseteq Nat
  /\ IsFiniteSet(Containers)

VARIABLES
  kind,          \* what was computed, or "nothing"
  in,            \* from what
  out            \* the result

vars == <<kind, in, out>>

Init == kind = "nothing" /\ in = None /\ out = None

Compute(k, input, result) == kind' = k /\ in' = input /\ out' = result

Clear == kind # "nothing" /\ kind' = "nothing" /\ in' = None /\ out' = None

-----------------------------------------------------------------------------
\* Two readings of a CPU, between which no counter has decreased but iowait,
\* of which the kernel does not promise it.
CollectCPU ==
  \E last \in [Fields -> 0 .. MaxJiffies] :
    \E current \in {c \in [Fields -> 0 .. MaxJiffies] :
                      \A f \in Fields \ {"iowait"} : c[f] >= last[f]} :
      Compute("cpu", [last |-> last, current |-> current],
              CalculateCPUUsage(last, current))

\* A reading of /proc/meminfo while n pages change their kind: those counters
\* are new that are read after the change.
CollectMemory ==
  \E m \in {x \in [Kinds -> 0 .. MaxPages] : Pages(x) <= MaxPages} :
    \E a, b \in Kinds : \E n \in 0 .. m[a] :
      \E late \in {{}, {"cached"}, {"cached", "buffers"}, Counters} :
        LET info == MemInfo(m, Move(m, n, a, b), late)
            used == MemUsed(Pages(m), info)
        IN  /\ a # b
            /\ Compute("memory", [used |-> m["used"], moved |-> n, total |-> Pages(m)],
                       [used |-> used, percent |-> UsagePercent(used, Pages(m))])

\* Swap, and a container's memory.limit: two numbers, either may be zero.
CollectSwap ==
  \E total \in 0 .. MaxPages : \E free \in 0 .. total :
    LET used == SwapUsed(total, free) IN
      Compute("memory", [used |-> total - free, moved |-> 0, total |-> total],
              [used |-> used, percent |-> UsagePercent(used, total)])

CollectContainerMemory ==
  \E limit \in {Unlimited} \cup 0 .. MaxPages :
    \E current \in 0 .. IF limit = Unlimited THEN MaxPages ELSE limit :
      Compute("memory", [used |-> current, moved |-> 0, total |-> current],
              [used |-> current, percent |-> ContainerUsagePercent(current, limit)])

\* analyzeMetric and detectPattern
AnalyzeMetric ==
  \E n \in 1 .. MaxSamples : \E values \in [1 .. n -> 0 .. MaxValue] :
    Compute("metric", values,
            [min |-> 100 * MinOf(values), p50 |-> Percentile(values, 50),
             p90 |-> Percentile(values, 90), p95 |-> Percentile(values, 95),
             p99 |-> Percentile(values, 99), max |-> 100 * MaxOf(values),
             pattern |-> DetectPattern(values)])

\* GenerateRecommendation, its cores and its memory; the current size comes
\* from a flag, which may be negative, or was detected.
SizeCPU ==
  \E p \in Usage, h \in Headroom, flag \in {-1, 0}, detected \in 1 .. MaxCores :
    LET current == CurrentSize(flag, detected) IN
      \E cpus \in RecommendedCPUs(p, h, current) :
        Compute("cpus", [p |-> p, headroom |-> h, current |-> current],
                [size |-> cpus, advice |-> Advice(cpus, current),
                 observed |-> CPUObservation(p)])

\* DetectSystemInfo leaves the memory zero if /proc/meminfo cannot be read.
DetectedMemory == {0} \cup Memory

SizeMemory ==
  \E p \in Usage, h \in Headroom, detected \in DetectedMemory, cpus \in {1, 2} :
    LET current == CurrentSize(0, detected) IN
      \E gigabytes \in RecommendedMemory(p, h, current, cpus) :
        Compute("gigabytes", [p |-> p, headroom |-> h, current |-> current],
                [size |-> gigabytes, advice |-> Advice(Precision * gigabytes, current),
                 observed |-> MemoryObservation(p)])

SuggestInstances ==
  \E cpus \in 1 .. MaxCores, memory \in 0 .. MaxGigabytes,
     pattern \in {"steady", "bursty", "scheduled"} :
    Compute("instances", [cpus |-> cpus, memory |-> memory, pattern |-> pattern],
            Suggestions(pattern, cpus, memory))

\* Of the host the code is given percentages only, whatever its size: its CPU in
\* percent of all cores, while that of a container is in percent of one.
CompareContainers ==
  \E some \in (SUBSET Containers) \ {{}} :
    \E p95 \in [some -> 0 .. MaxValue], host \in 0 .. MaxValue :
      \E order \in TopN(p95) :
        \/ \E cores \in 1 .. MaxCores :
             Compute("containers", [p95 |-> p95, host |-> host, cores |-> cores],
                     CPUInsight(p95, host, order))
        \/ Compute("containers", [p95 |-> p95, host |-> host],
                   MemoryInsight(p95, host, order))

Next ==
  \/ /\ kind = "nothing"
     /\ \/ CollectCPU \/ CollectMemory \/ CollectSwap \/ CollectContainerMemory
        \/ AnalyzeMetric
        \/ SizeCPU \/ SizeMemory \/ SuggestInstances
        \/ CompareContainers
  \/ Clear

Spec == Init /\ [][Next]_vars

-----------------------------------------------------------------------------
\* By how much a counter has grown; iowait may have decreased.
Gain(f) == in.current[f] - in.last[f]

(***************************************************************************)
(* Nothing is divided by zero, although two readings may fall into the     *)
(* same jiffy.  cpu.usage, which is 100 minus the idle percentage, is      *)
(* between 0 and 100, also when iowait has decreased by no more than the   *)
(* counters of busy time have grown: an idle percentage above 100 would    *)
(* make it negative.  And when iowait has not decreased, the four parts    *)
(* that are reported do not add up to more than 100 percent; if it has, its*)
(* own unsigned difference wraps, and no other (cpu.go:124-177).           *)
(***************************************************************************)
PercentagesAddUp ==
  kind = "cpu" /\ out # None =>
    /\ out.total > 0
    /\ Gain("user") + Gain("system") + Gain("other") + Gain("iowait") >= 0 =>
         out.total - out.part["idle"] \in 0 .. out.total
    /\ \A f \in Fields : out.part[f] = Gain(f) \/ (f = "iowait" /\ Gain(f) < 0)
    /\ Gain("iowait") >= 0 =>
         out.part["user"] + out.part["system"]
           + out.part["idle"] + out.part["iowait"] <= out.total

(***************************************************************************)
(* When no more pages change their kind during a reading than are used,    *)
(* memory.used does not wrap and is off by at most the pages that changed, *)
(* and the percentage is one of a total that is not zero (memory.go:81-94).*)
(* The proviso is needed: used pages are computed from the counters of the *)
(* others, and if those counted twice are more than the used ones, the     *)
(* unsigned difference wraps (memory.go:87).                               *)
(***************************************************************************)
MemoryNearTruth ==
  kind = "memory" =>
    /\ in.moved <= in.used =>
         /\ out.used \in in.used - in.moved .. in.used + in.moved
         /\ out.used <= in.total
         /\ out.percent # None => out.percent.part <= out.percent.whole
    /\ out.percent # None => out.percent.whole > 0

(***************************************************************************)
(* The percentiles lie between the minimum and the maximum in the order of *)
(* their numbers, and P95 covers what it says up to one sample: it is not  *)
(* below more than 5 percent of the samples and one more, which            *)
(* interpolation costs (analyzer.go:70-75, 215-228; "95% of samples below  *)
(* this" of docs/recommendations.md:42 is exact for many samples only).    *)
(***************************************************************************)
PercentilesCover ==
  kind = "metric" =>
    /\ out.min <= out.p50 /\ out.p50 <= out.p90 /\ out.p90 <= out.p95
    /\ out.p95 <= out.p99 /\ out.p99 <= out.max
    /\ 100 * Cardinality({i \in DOMAIN in : 100 * in[i] <= out.p95}) + 95
         > 95 * Len(in)

(***************************************************************************)
(* A workload is called bursty only if a sample is a quarter above the     *)
(* mean, and one whose samples are all equal is steady, also when they are *)
(* all zero and cv is NaN (analyzer.go:139-161).                           *)
(***************************************************************************)
BurstsHavePeaks ==
  kind = "metric" =>
    /\ out.pattern[1] = "bursty" => 4 * MaxOf(in) * Len(in) > 5 * Sum(in)
    /\ out.min = out.max => out.pattern[1] = "steady"

(***************************************************************************)
(* The recommended size has room for the usage and the headroom, and is    *)
(* less than one core or gigabyte above what they need, but for the        *)
(* rounding of float64 and for the minimum of one core                     *)
(* (recommender.go:65-66, 70-79, 114-116).                                 *)
(***************************************************************************)
HeadroomIsKept ==
  kind \in {"cpus", "gigabytes"} /\ in.current > 0 =>
    LET unit == IF kind = "cpus" THEN Whole ELSE Precision * Whole
        need == Need(in.current, in.p, in.headroom)
    IN  /\ out.size * unit >= Least(need)
        /\ (out.size - 1) * unit < Most(need) \/ (kind = "cpus" /\ out.size = 1)

CPUAdviceAgrees ==
  kind = "cpus" /\ in.current > 0 =>
    LET NeedAt(percent) == Need(in.current, percent * Precision, in.headroom) IN
    /\ out.observed = "heavy" /\ Least(NeedAt(80)) > (in.current - 1) * Whole
         => out.advice # "reduce"
    /\ out.observed = "underutilized" /\ Most(NeedAt(30)) <= in.current * Whole
         => out.advice # "increase"

MemoryAdviceAgrees ==
  kind = "gigabytes" /\ in.current > 0 =>
    LET NeedAt(percent) == Need(in.current, percent * Precision, in.headroom) IN
    /\ out.observed = "heavy" /\ Least(NeedAt(85)) > (in.current - Precision) * Whole
         => Precision * out.size > in.current - Precision
    /\ out.observed = "underutilized" /\ Most(NeedAt(40)) <= (in.current - Precision) * Whole
         => out.advice # "increase"

InsightsAgree ==
  kind = "containers" =>
    /\ \A c \in DOMAIN in.p95 : in.p95[c] <= in.p95[out.named]
    /\ out.group = "evenly distributed" =>
         \A c \in DOMAIN in.p95 : Below(in.p95[c], in.host, 30)
    /\ out.first \in {"largest", "well-distributed"} =>
         \A c \in DOMAIN in.p95 : ~Above(in.p95[c], in.cores * in.host, 60)

(***************************************************************************)
(* What is printed agrees with itself, whatever the headroom, where the    *)
(* rounding to whole cores and gigabytes leaves room for it.  A heavily    *)
(* used CPU is not said to be reducible, nor an underused one to be        *)
(* insufficient; no whole gigabyte is taken from a memory under pressure,  *)
(* nor is an underused one called insufficient (analyzer.go:167-187,       *)
(* recommender.go:70-95, 114-129).  There is room if what the threshold    *)
(* itself needs, 80 percent say, is more than all but one of the cores: for*)
(* the default headroom of 20 and 15 percent, CPUs of up to 24 cores are   *)
(* not reduced while heavily used, and memories of up to 44 gigabytes not  *)
(* while under pressure.  Above that both are said: 26 cores at 80.1       *)
(* percent need 24.99.  An underused CPU always has room, and a memory from*)
(* 2 gigabytes on: on a host with nominally one gigabyte the size          *)
(* is rounded up to one and the current one warned of.  The container that *)
(* is named is the heaviest in whichever order the map and an unstable     *)
(* sort left them; usage is called evenly distributed only if every        *)
(* container is below 30 percent of the host; and no container that uses   *)
(* more than 60 percent of the CPU that the host uses is passed over       *)
(* (docs/container-metrics-docs.md:611).  On several cores the converse is *)
(* false: percent of one core are divided by percent of all; and gigabytes *)
(* by percent, so that nothing at all follows from a share of memory       *)
(* (container_analyzer.go:90-96, 184-206, recommender.go:167-214).         *)
(***************************************************************************)
AdviceAgrees == CPUAdviceAgrees /\ MemoryAdviceAgrees /\ InsightsAgree

(***************************************************************************)
(* The tables have no gap up to eight cores with four gigabytes each: there*)
(* is a type of OTC for every size, and one of AWS unless the pattern is   *)
(* scheduled (recommender.go:145-154, 235-324).                            *)
(***************************************************************************)
TablesHaveNoGaps ==
  kind = "instances" /\ in.cpus <= 8 /\ in.memory <= 4 * in.cpus =>
    /\ out.OTC # {}
    /\ in.pattern # "scheduled" => out.AWS # {}
=============================================================================
