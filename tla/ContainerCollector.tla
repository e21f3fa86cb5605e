------------------------- MODULE ContainerCollector -------------------------
(***************************************************************************)
(* pkg/collector/container.go: rates of the containers' CPU time and I/O,  *)
(* from cumulative counters in the files of their cgroups, while           *)
(* containers use resources, start and stop, also in the middle of a       *)
(* Collect, and reading a file may fail.                                   *)
(*                                                                         *)
(* cpu.stat and io.stat have one counter each here; the four of io.stat    *)
(* are read, stored and subtracted together.  Memory metrics use no        *)
(* earlier reading: see MemoryUsage.                                       *)
(***************************************************************************)
EXTENDS Integers, Functions

CONSTANTS
  Container,   \* the containers' full IDs
  Modulus,     \* 2^64 in the code: uint64 arithmetic
  MaxUse,      \* bound on the counters
  ReadsFail,   \* may reading a file of a running container fail?
  SameID,      \* may a container start again under its ID (docker restart)?
  None         \* no container, no rate

ASSUME ContainerAssumption ==
  /\ Modulus \in Nat /\ MaxUse \in Nat /\ MaxUse < Modulus
  /\ ReadsFail \in BOOLEAN /\ SameID \in BOOLEAN
  /\ None \notin Container

Counters == {"cpu", "io"}
NoReading == -1

VARIABLES
  up,          \* the containers with a cgroup directory
  used,        \* the kernel's counters of each container
  lastStats,   \* c.lastStats, a function on some containers
  currentStats, todo, this,   \* Collect: its map, the paths left, the
                              \* container whose io.stat comes next
  rate,        \* the rate a read has just appended to the result, or None
  started,     \* history: the containers that have been up
  again,       \* history: those that have started again under their ID
  reading,     \* history: what the last scan read of each counter in this
               \* life of the container, or NoReading
  found        \* history: the containers the last non-empty Glob found

kernel == <<up, used, started, again>>
scan == <<currentStats, todo, this>>
vars == <<kernel, lastStats, scan, rate, reading, found>>

NoStats == [c \in {} |-> [k \in Counters |-> 0]]

\* Mutant of Minus: signed subtraction.
MinusSigned(x, y) == x - y

\* Mutant of Minus: the operands are swapped.
MinusSwapped(x, y) == (y - x) % Modulus

\* Subtraction of uint64.
Minus(x, y) == (x - y) % Modulus

Init ==
  /\ up = {}
  /\ used = [c \in Container |-> [k \in Counters |-> 0]]
  /\ lastStats = NoStats
  /\ currentStats = NoStats /\ todo = {} /\ this = None
  /\ rate = None
  /\ started = {} /\ again = {}
  /\ reading = [c \in Container |-> [k \in Counters |-> NoReading]]
  /\ found = {}

Idle == todo = {} /\ this = None

-----------------------------------------------------------------------------
(***************************************************************************)
(* The containers.  A cgroup is created with its counters at zero.         *)
(***************************************************************************)
ContainerStarts(c) ==
  /\ c \notin up /\ (c \in started => SameID)
  /\ up' = up \cup {c}
  /\ started' = started \cup {c}
  /\ again' = again \cup ({c} \cap started)
  /\ used' = [used EXCEPT ![c] = [k \in Counters |-> 0]]
  /\ reading' = [reading EXCEPT ![c] = [k \in Counters |-> NoReading]]
  /\ UNCHANGED <<lastStats, scan, rate, found>>

ContainerStops(c) ==
  /\ c \in up
  /\ up' = up \ {c}
  /\ UNCHANGED <<used, started, again, lastStats, scan, rate, reading, found>>

ContainerWorks(c, k) ==
  /\ c \in up /\ used[c][k] < MaxUse
  /\ used' = [used EXCEPT ![c][k] = @ + 1]
  /\ UNCHANGED <<up, started, again, lastStats, scan, rate, reading, found>>

-----------------------------------------------------------------------------
(***************************************************************************)
(* Collect: the Glob.  When it finds nothing Collect returns before it     *)
(* touches c.lastStats.                                                    *)
(***************************************************************************)
Glob ==
  /\ Idle
  /\ rate' = None
  /\ IF up = {} THEN UNCHANGED <<scan, found>>
     ELSE /\ todo' = up
          /\ found' = up
          /\ currentStats' = NoStats
          /\ UNCHANGED this
  /\ UNCHANGED <<kernel, lastStats, reading>>

\* A counter read now, and the rate computed if lastStats knows c.
Read(c, k) ==
  /\ c \in up
  /\ reading' = [reading EXCEPT ![c][k] = used[c][k]]
  /\ rate' = IF c \in DOMAIN lastStats
               THEN [again |-> c \in again,
                     diff |-> Minus(used[c][k], lastStats[c][k]),
                     before |-> reading[c][k],
                     total |-> used[c][k]]
               ELSE None

\* os.ReadFile returns an error, certainly when the container is gone.
ReadError(c, k) ==
  /\ c \in up => ReadsFail
  /\ reading' = [reading EXCEPT ![c][k] = NoReading]
  /\ rate' = None

\* currentStats[c].k = v; a new entry is zero in its other fields.
Put(c, k, v) ==
  LET old == IF c \in DOMAIN currentStats THEN currentStats[c]
                                          ELSE [j \in Counters |-> 0]
  IN  [d \in DOMAIN currentStats \cup {c} |->
         IF d = c THEN [old EXCEPT ![k] = v] ELSE currentStats[d]]

\* collectCPU for one of the paths; its stat replaces the entry.
CollectCPU(c) ==
  /\ this = None /\ c \in todo
  /\ todo' = todo \ {c}
  /\ this' = c
  /\ \/ Read(c, "cpu") /\ currentStats' = Put(c, "cpu", used[c]["cpu"])
     \/ ReadError(c, "cpu") /\ UNCHANGED currentStats
  /\ UNCHANGED <<kernel, lastStats, found>>

\* Mutant of CollectIO: the I/O stat replaces the entry, without the CPU time.
CollectIOReplaces ==
  /\ this # None
  /\ \/ /\ Read(this, "io")
        /\ currentStats' = [d \in DOMAIN currentStats \cup {this} |->
                              IF d = this THEN [cpu |-> 0, io |-> used[d]["io"]]
                                          ELSE currentStats[d]]
     \/ ReadError(this, "io") /\ UNCHANGED currentStats
  /\ this' = None
  /\ IF todo = {} THEN lastStats' = currentStats' ELSE UNCHANGED lastStats
  /\ UNCHANGED <<kernel, todo, found>>

\* Mutant of CollectIO: the new map is merged into c.lastStats.
CollectIOMerges ==
  /\ this # None
  /\ \/ Read(this, "io") /\ currentStats' = Put(this, "io", used[this]["io"])
     \/ ReadError(this, "io") /\ UNCHANGED currentStats
  /\ this' = None
  /\ IF todo = {}
       THEN lastStats' = [d \in DOMAIN currentStats' \cup DOMAIN lastStats |->
                            IF d \in DOMAIN currentStats' THEN currentStats'[d]
                                                          ELSE lastStats[d]]
       ELSE UNCHANGED lastStats
  /\ UNCHANGED <<kernel, todo, found>>

(***************************************************************************)
(* collectIO for the same path; its stat is merged into the entry.  After  *)
(* the last path the new map replaces c.lastStats.                         *)
(***************************************************************************)
CollectIO ==
  /\ this # None
  /\ \/ Read(this, "io") /\ currentStats' = Put(this, "io", used[this]["io"])
     \/ ReadError(this, "io") /\ UNCHANGED currentStats
  /\ this' = None
  /\ IF todo = {} THEN lastStats' = currentStats' ELSE UNCHANGED lastStats
  /\ UNCHANGED <<kernel, todo, found>>

Next ==
  \/ Glob
  \/ CollectIO
  \/ \E c \in Container :
       \/ CollectCPU(c)
       \/ ContainerStarts(c)
       \/ ContainerStops(c)
       \/ \E k \in Counters : ContainerWorks(c, k)

Spec == Init /\ [][Next]_vars

-----------------------------------------------------------------------------
TypeOK ==
  /\ up \subseteq started /\ again \subseteq started
  /\ started \subseteq Container
  /\ used \in [Container -> [Counters -> 0 .. MaxUse]]
  /\ \A f \in {lastStats, currentStats} :
       /\ DOMAIN f \subseteq Container
       /\ f \in [DOMAIN f -> [Counters -> 0 .. MaxUse]]
  /\ todo \subseteq found /\ found \subseteq Container
  /\ this \in found \cup {None}
  /\ reading \in [Container -> [Counters -> {NoReading} \cup 0 .. MaxUse]]
  /\ rate # None => rate.diff \in 0 .. Modulus - 1

(***************************************************************************)
(* A counter that the previous scan read, in the same life of the          *)
(* container, has an exact rate: whatever failed for the other counter or  *)
(* for other containers, and whatever started or stopped in the middle of  *)
(* either scan (container.go:87-119, 193-194, 339-345).                    *)
(***************************************************************************)
ExactAfterReading ==
  rate # None /\ rate.before # NoReading => rate.diff = rate.total - rate.before

(***************************************************************************)
(* c.lastStats remembers no container that the last non-empty Glob did not *)
(* find, so a host on which containers come and go for ever needs no more  *)
(* memory for it (container.go:68, 118-119).                               *)
(***************************************************************************)
ForgetsOldContainers == Idle => DOMAIN lastStats \subseteq found

(***************************************************************************)
(* A rate other than zero is the difference from the last reading of the   *)
(* counter (docs/container-metrics-docs.md:142-144).  Not so when the      *)
(* last scan could read only one of the two files: the entry it left has a *)
(* zero for the other, and the whole total is reported as one interval's   *)
(* use (container.go:92, 108-113).                                         *)
(***************************************************************************)
DeltaFromLastReading ==
  rate # None /\ rate.diff # 0 =>
    rate.before # NoReading /\ rate.diff = rate.total - rate.before

(***************************************************************************)
(* When a rate is not the difference from the last reading, it is the whole*)
(* total since the container was started, never something else, however    *)
(* old, partial or empty the entry is that is subtracted: so none is above *)
(* the total (container.go:63, 108-113, 194).  The proviso is needed: when *)
(* it was restarted under its ID the counter is below the remembered one   *)
(* and the unsigned difference wraps, which the test usageDiff >= 0 cannot *)
(* see (container.go:194-197).                                             *)
(***************************************************************************)
ExactOrTotal ==
  rate # None /\ ~rate.again =>
    rate.diff = rate.total - IF rate.before = NoReading THEN 0 ELSE rate.before
=============================================================================
