---------------------------- MODULE RateCollector ----------------------------
(***************************************************************************)
(* What disk.go, network.go and cpu.go of pkg/collector have in common: a  *)
(* Collect reads the lines of a file under /proc, keeps the counters of    *)
(* the monitored names in a new map, subtracts those of the previous map,  *)
(* and lets the new map replace the previous one.  Devices and interfaces  *)
(* do work, appear and disappear, also in the middle of a Collect.         *)
(*                                                                         *)
(* A line has one counter here; the code reads up to eight of them in the  *)
(* same way.                                                               *)
(***************************************************************************)
EXTENDS Integers

CONSTANTS
  Name,         \* devices, interfaces or CPUs, as the file calls them
  Configured,   \* the names in the configuration; {} means all
  Excluded,     \* what the collector itself leaves out: disks whose name
                \* ends in a digit, the interface lo, the cores if not per_core
  Modulus,      \* 2^64 in the code: uint64 arithmetic
  MaxWork       \* bound on a counter

ASSUME RateAssumption ==
  /\ Configured \subseteq Name /\ Excluded \subseteq Name
  /\ Modulus \in Nat /\ MaxWork \in Nat /\ MaxWork < Modulus

VARIABLES
  present, work, gone,     \* the kernel: names listed, their counters, names
                           \* that have disappeared before
  lastStats,               \* the map of the previous Collect
  scanning, todo,          \* is a Collect in progress, lines not read yet
  currentStats, result,    \* its new map and the differences it reports
  listed,                  \* history: the names the last Collect found
  reported, lost, origin   \* history: what the metrics delivered for a name
                           \* add up to, what was computed and not delivered,
                           \* and the reading that came first; all since the
                           \* name was last without an entry in lastStats

kernel == <<present, work, gone>>
collect == <<scanning, todo, currentStats, result>>
sums == <<reported, lost, origin>>
history == <<listed, sums>>
vars == <<kernel, lastStats, collect, history>>

Minus(x, y) == (x - y) % Modulus
Empty == [n \in {} |-> 0]
With(f, n, v) == [m \in DOMAIN f \cup {n} |-> IF m = n THEN v ELSE f[m]]

\* contains(d.devices, device), isPartition(device), iface == "lo"
Monitored ==
  {n \in Name : n \notin Excluded /\ (Configured # {} => n \in Configured)}

Init ==
  /\ present \in SUBSET Name
  /\ work = [n \in Name |-> 0]
  /\ gone = {}
  /\ lastStats = Empty
  /\ scanning = FALSE /\ todo = {} /\ currentStats = Empty /\ result = Empty
  /\ listed = {}
  /\ reported = [n \in Name |-> 0]
  /\ lost = [n \in Name |-> 0]
  /\ origin = [n \in Name |-> 0]

-----------------------------------------------------------------------------
Works(n) ==
  /\ n \in present /\ work[n] < MaxWork
  /\ work' = [work EXCEPT ![n] = @ + 1]
  /\ UNCHANGED <<present, gone, lastStats, collect, history>>

\* A name may come back; its counters start at zero.  Its line may be in a
\* scan that is in progress, if it is further down.
Appears(n) ==
  /\ n \notin present
  /\ present' = present \cup {n}
  /\ work' = [work EXCEPT ![n] = 0]
  /\ \/ UNCHANGED <<todo, listed>>
     \/ /\ scanning /\ n \notin DOMAIN currentStats
        /\ todo' = todo \cup {n} /\ listed' = listed \cup {n}
  /\ UNCHANGED <<gone, lastStats, scanning, currentStats, result, sums>>

Disappears(n) ==
  /\ n \in present
  /\ present' = present \ {n}
  /\ gone' = gone \cup {n}
  /\ UNCHANGED <<work, lastStats, collect, history>>

-----------------------------------------------------------------------------
\* Mutant of OpenFile: the new map starts as the previous one.
OpenFileKeeping ==
  /\ ~scanning
  /\ scanning' = TRUE
  /\ todo' = present
  /\ currentStats' = lastStats /\ result' = Empty
  /\ listed' = present
  /\ UNCHANGED <<kernel, lastStats, sums>>

\* os.Open succeeded (a failure changes nothing); the header is skipped.
OpenFile ==
  /\ ~scanning
  /\ scanning' = TRUE
  /\ todo' = present
  /\ currentStats' = Empty /\ result' = Empty
  /\ listed' = present
  /\ UNCHANGED <<kernel, lastStats, sums>>

\* Mutant of ReadLine: the filters are forgotten.
ReadLineUnfiltered(n) ==
  /\ scanning /\ n \in todo
  /\ todo' = todo \ {n}
  /\ IF n \in present
       THEN /\ currentStats' = With(currentStats, n, work[n])
            /\ result' = IF n \in DOMAIN lastStats
                           THEN With(result, n, Minus(work[n], lastStats[n]))
                           ELSE result
       ELSE UNCHANGED <<currentStats, result>>
  /\ UNCHANGED <<kernel, scanning, lastStats, history>>

(***************************************************************************)
(* One line: skipped if its name has gone or is not monitored, else stored *)
(* in the new map and, if the previous map has it, subtracted.             *)
(***************************************************************************)
ReadLine(n) ==
  /\ scanning /\ n \in todo
  /\ todo' = todo \ {n}
  /\ IF n \in present \cap Monitored
       THEN /\ currentStats' = With(currentStats, n, work[n])
            /\ result' = IF n \in DOMAIN lastStats
                           THEN With(result, n, Minus(work[n], lastStats[n]))
                           ELSE result
       ELSE UNCHANGED <<currentStats, result>>
  /\ UNCHANGED <<kernel, scanning, lastStats, history>>

\* Collect is over: the new map replaces the previous one.
Replace ==
  /\ scanning' = FALSE /\ todo' = {}
  /\ lastStats' = currentStats
  /\ currentStats' = Empty /\ result' = Empty
  /\ origin' = [n \in Name |->
                  IF n \in DOMAIN lastStats \cap DOMAIN currentStats THEN origin[n]
                  ELSE IF n \in DOMAIN currentStats THEN currentStats[n] ELSE 0]

\* Adds what a Collect computed to the history of the names that have never
\* disappeared; nothing is recorded of the others.
AddTo(hist) ==
  [n \in Name |-> IF n \in DOMAIN result \ gone THEN hist[n] + result[n] ELSE 0]
Keep(hist) ==
  [n \in Name |-> IF n \in DOMAIN result \ gone THEN hist[n] ELSE 0]

\* Mutant of Finish: the previous map stays when it is not empty.
FinishKeeping ==
  /\ scanning /\ todo = {}
  /\ scanning' = FALSE
  /\ lastStats' = IF lastStats = Empty THEN currentStats ELSE lastStats
  /\ currentStats' = Empty /\ result' = Empty
  /\ origin' = [n \in Name |-> IF n \in DOMAIN lastStats THEN origin[n]
                               ELSE IF n \in DOMAIN currentStats THEN currentStats[n] ELSE 0]
  /\ reported' = AddTo(reported)
  /\ lost' = Keep(lost)
  /\ UNCHANGED <<kernel, todo, listed>>

\* The file is read to its end; the manager gets the result.
Finish ==
  /\ scanning /\ todo = {}
  /\ Replace
  /\ reported' = AddTo(reported)
  /\ lost' = Keep(lost)
  /\ UNCHANGED <<kernel, listed>>

(***************************************************************************)
(* scanner.Err: the lines read so far have replaced the map all the same,  *)
(* and the manager drops the result that comes with an error               *)
(* (manager.go:109-113).                                                   *)
(***************************************************************************)
ReadFails ==
  /\ scanning
  /\ Replace
  /\ lost' = AddTo(lost)
  /\ reported' = Keep(reported)
  /\ UNCHANGED <<kernel, listed>>

Next ==
  \/ OpenFile
  \/ Finish
  \/ ReadFails
  \/ \E n \in Name : Works(n) \/ Appears(n) \/ Disappears(n) \/ ReadLine(n)

Spec == Init /\ [][Next]_vars

-----------------------------------------------------------------------------
TypeOK ==
  /\ gone \subseteq Name /\ present \subseteq Name
  /\ work \in [Name -> 0 .. MaxWork]
  /\ \A f \in {lastStats, currentStats} :
       DOMAIN f \subseteq Monitored /\ f \in [DOMAIN f -> 0 .. MaxWork]
  /\ scanning \in BOOLEAN /\ todo \subseteq Name
  /\ DOMAIN result \subseteq DOMAIN currentStats \cap DOMAIN lastStats
  /\ \A n \in DOMAIN result : result[n] \in 0 .. Modulus - 1

(***************************************************************************)
(* As long as a name keeps its entry in the map, every unit of its work    *)
(* between two readings is reported once, in the Collect that saw it, or   *)
(* lost with the result of one Collect that failed: never twice, and never *)
(* in a later interval, whatever other names come and go.  A name without  *)
(* an entry, because a Collect failed before its line, starts anew: no     *)
(* metric has the units since the reading before.  A name that has been    *)
(* gone itself is left out: its counters start again (disk.go:88-100,      *)
(* network.go:103-115, cpu.go:97-115).                                     *)
(***************************************************************************)
EachUnitOnce ==
  \A n \in DOMAIN lastStats \ gone :
    reported[n] + lost[n] = lastStats[n] - origin[n]

(***************************************************************************)
(* A name that a Collect did not list is forgotten by it: when it comes    *)
(* back it starts with a new baseline, and the map does not grow with the  *)
(* names a host has ever had (disk.go:60 and 98, network.go:62 and 113).   *)
(***************************************************************************)
ForgetsAbsent == ~scanning => DOMAIN lastStats \subseteq listed

(***************************************************************************)
(* The line of a device that is configured is not skipped                  *)
(* (docs/configuration.md:331-349).  Not so when its name ends in a digit, *)
(* as that of every NVMe disk does (disk.go:76 and 161-168).               *)
(***************************************************************************)
ConfiguredIsRead ==
  [][\A n \in Configured : ReadLine(n) /\ n \in present =>
                             n \in DOMAIN currentStats']_vars
=============================================================================
