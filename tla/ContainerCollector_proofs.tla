---------------------- MODULE ContainerCollector_proofs ----------------------
(***************************************************************************)
(* Proofs about ContainerCollector, for any containers and any bounds on   *)
(* their counters.                                                         *)
(***************************************************************************)
EXTENDS ContainerCollector, TLAPS

\* The counter k of c is still to be read by the scan in progress.
Waits(c, k) == c \in todo \/ (c = this /\ k = "io")

(***************************************************************************)
(* What the map f has of a counter is what was read of it; when nothing    *)
(* was, it is a zero, or the entry of an earlier life of the container.    *)
(***************************************************************************)
Remembers(f, c, k) ==
  c \in DOMAIN f => IF reading[c][k] # NoReading THEN f[c][k] = reading[c][k]
                                               ELSE f[c][k] = 0 \/ c \in again

(***************************************************************************)
(* The previous map has the last readings until the scan gets to a         *)
(* counter, the new map has them from then on; and no counter of a life of *)
(* a container decreases.                                                  *)
(***************************************************************************)
ReadingsKept ==
  \A c \in Container, k \in Counters :
    /\ reading[c][k] <= used[c][k]
    /\ Idle \/ Waits(c, k) => Remembers(lastStats, c, k)
    /\ ~Waits(c, k) => Remembers(currentStats, c, k)

(***************************************************************************)
(* A container has no entry in the new map before the scan gets to it; when*)
(* its I/O is read it has one, with a zero for the I/O, unless its CPU time*)
(* was not read.                                                           *)
(***************************************************************************)
ScanOrder ==
  /\ todo \cap DOMAIN currentStats = {} /\ this \notin todo
  /\ this # None =>
       IF this \in DOMAIN currentStats THEN currentStats[this]["io"] = 0
                                       ELSE reading[this]["cpu"] = NoReading

\* Entries are of containers that were found, hence had been started.
OnlyFound ==
  /\ found \subseteq started
  /\ DOMAIN currentStats \subseteq found /\ DOMAIN lastStats \subseteq started

IInv ==
  /\ TypeOK /\ ReadingsKept /\ ScanOrder /\ OnlyFound
  /\ ExactAfterReading /\ ForgetsOldContainers /\ ExactOrTotal

-----------------------------------------------------------------------------
\* A map is typed and has only containers.
MapOK(f) ==
  /\ DOMAIN f \subseteq Container
  /\ f \in [DOMAIN f -> [Counters -> 0 .. MaxUse]]

LEMMA TypeParts ==
  TypeOK <=>
    /\ up \subseteq started /\ again \subseteq started
    /\ started \subseteq Container
    /\ used \in [Container -> [Counters -> 0 .. MaxUse]]
    /\ MapOK(lastStats) /\ MapOK(currentStats)
    /\ todo \subseteq found /\ found \subseteq Container
    /\ this \in found \cup {None}
    /\ reading \in [Container -> [Counters -> {NoReading} \cup 0 .. MaxUse]]
    /\ (rate # None => rate.diff \in 0 .. Modulus - 1)
BY DEF TypeOK, MapOK

\* Subtraction of a number that is not greater does not wrap.
LEMMA MinusExact ==
  ASSUME NEW x \in 0 .. MaxUse, NEW y \in 0 .. MaxUse
  PROVE  /\ Minus(x, y) \in 0 .. Modulus - 1
         /\ y <= x => Minus(x, y) = x - y
BY ContainerAssumption DEF Minus

(***************************************************************************)
(* The rate that a read appends: the three properties of rates hold of it, *)
(* because the previous map has what was read before of a counter that     *)
(* waits, or a zero when nothing was.                                      *)
(***************************************************************************)
RateOK ==
  /\ rate # None => rate.diff \in 0 .. Modulus - 1
  /\ ExactAfterReading /\ ExactOrTotal

LEMMA ReadRate ==
  ASSUME IInv, NEW c \in Container, NEW k \in Counters, Waits(c, k),
         Read(c, k) \/ ReadError(c, k)
  PROVE  RateOK'
<1>1. CASE rate' = None
  BY <1>1 DEF RateOK, ExactAfterReading, ExactOrTotal
<1>2. CASE rate' # None
  <2>1. Read(c, k) /\ c \in DOMAIN lastStats
    BY <1>2 DEF Read, ReadError
  <2>2. rate' = [again |-> c \in again, diff |-> Minus(used[c][k], lastStats[c][k]),
                 before |-> reading[c][k], total |-> used[c][k]]
    BY <2>1 DEF Read
  <2>3. used[c][k] \in 0 .. MaxUse /\ lastStats[c][k] \in 0 .. MaxUse
    BY <2>1, TypeParts DEF IInv, MapOK
  <2>4. reading[c][k] # NoReading =>
          lastStats[c][k] = reading[c][k] /\ reading[c][k] <= used[c][k]
    BY <2>1 DEF IInv, ReadingsKept, Remembers
  <2>5. reading[c][k] = NoReading => lastStats[c][k] = 0 \/ c \in again
    BY <2>1 DEF IInv, ReadingsKept, Remembers
  <2>6. rate'.diff \in 0 .. Modulus - 1
    BY <2>2, <2>3, MinusExact
  <2>7. ExactAfterReading'
    BY <2>2, <2>3, <2>4, MinusExact DEF ExactAfterReading
  <2>8. ExactOrTotal'
    <3>1. CASE reading[c][k] # NoReading
      BY <2>2, <2>3, <2>4, <3>1, MinusExact DEF ExactOrTotal
    <3>2. CASE reading[c][k] = NoReading
      <4>1. rate'.before = NoReading /\ rate'.total = used[c][k]
            /\ (rate'.again <=> c \in again)
        BY <2>2, <3>2
      <4>2. lastStats[c][k] = 0 => rate'.diff = used[c][k] - 0
        BY <2>2, <2>3, MinusExact
      <4>3. CASE c \in again
        BY <4>1, <4>3 DEF ExactOrTotal
      <4>4. CASE lastStats[c][k] = 0
        BY <2>3, <4>1, <4>2, <4>4 DEF ExactOrTotal
      <4> QED
        BY <2>5, <3>2, <4>3, <4>4
    <3> QED
      BY <3>1, <3>2
  <2> QED
    BY <2>6, <2>7, <2>8 DEF RateOK
<1> QED
  BY <1>1, <1>2

\* What reading a counter, or failing to, does to the history of readings.
LEMMA ReadHistory ==
  ASSUME TypeOK, NEW c \in Container, NEW k \in Counters,
         Read(c, k) \/ ReadError(c, k)
  PROVE  /\ reading' \in [Container -> [Counters -> {NoReading} \cup 0 .. MaxUse]]
         /\ reading'[c][k] \in {NoReading, used[c][k]}
         /\ \A d \in Container, j \in Counters :
              d # c \/ j # k => reading'[d][j] = reading[d][j]
BY TypeParts DEF Read, ReadError, Counters

\* The entry of c gets a value for k, and keeps its others or has zeros.
LEMMA PutEntry ==
  ASSUME MapOK(currentStats), NEW c \in Container, NEW k \in Counters,
         NEW v \in 0 .. MaxUse, currentStats' = Put(c, k, v)
  PROVE  /\ MapOK(currentStats)'
         /\ DOMAIN currentStats' = DOMAIN currentStats \cup {c}
         /\ currentStats'[c][k] = v
         /\ \A j \in Counters \ {k} :
              currentStats'[c][j] = IF c \in DOMAIN currentStats
                                      THEN currentStats[c][j] ELSE 0
         /\ \A d \in DOMAIN currentStats \ {c} : currentStats'[d] = currentStats[d]
<1> DEFINE old == IF c \in DOMAIN currentStats THEN currentStats[c]
                                              ELSE [j \in Counters |-> 0]
<1>1. old \in [Counters -> 0 .. MaxUse]
  BY ContainerAssumption DEF MapOK
<1>2. currentStats' = [d \in DOMAIN currentStats \cup {c} |->
                         IF d = c THEN [old EXCEPT ![k] = v] ELSE currentStats[d]]
  BY DEF Put
<1> HIDE DEF old
<1>3. \A j \in Counters : [old EXCEPT ![k] = v][j] = IF j = k THEN v ELSE old[j]
  BY <1>1
<1>4. MapOK(currentStats)'
  BY <1>1, <1>2 DEF MapOK
<1>5. currentStats'[c][k] = v
  BY <1>2, <1>3
<1>6. \A j \in Counters \ {k} : currentStats'[c][j] = old[j]
  BY <1>2, <1>3
<1>7. \A j \in Counters : old[j] = IF c \in DOMAIN currentStats
                                    THEN currentStats[c][j] ELSE 0
  BY DEF old
<1> QED
  BY <1>2, <1>4, <1>5, <1>6, <1>7

-----------------------------------------------------------------------------
LEMMA InvInit == Init => IInv
<1> SUFFICES ASSUME Init PROVE IInv
  OBVIOUS
<1>1. TypeOK
  BY ContainerAssumption DEF Init, TypeOK, NoStats
<1>2. ReadingsKept
  BY DEF Init, ReadingsKept, Remembers, NoStats, NoReading
<1> QED
  BY <1>1, <1>2 DEF Init, IInv, ScanOrder, OnlyFound, NoStats,
     ExactAfterReading, ForgetsOldContainers, ExactOrTotal

(***************************************************************************)
(* A new life of a container: nothing of it has been read.  It has started *)
(* again, or it has no entry in either map.                                *)
(***************************************************************************)
LEMMA InvStarts ==
  ASSUME IInv, NEW c \in Container, ContainerStarts(c)
  PROVE  IInv'
<1>1. /\ \A d \in Container, k \in Counters :
           /\ used'[d][k] = IF d = c THEN 0 ELSE used[d][k]
           /\ reading'[d][k] = IF d = c THEN NoReading ELSE reading[d][k]
      /\ UNCHANGED <<lastStats, currentStats, todo, this, rate, found>>
  BY TypeParts DEF ContainerStarts, scan, IInv
<1>2. TypeOK'
  BY ContainerAssumption DEF ContainerStarts, scan, IInv, TypeOK
<1>3. ReadingsKept'
  <2>1. SUFFICES ASSUME NEW d \in Container, NEW k \in Counters
        PROVE  /\ reading'[d][k] <= used'[d][k]
               /\ (Idle \/ Waits(d, k) => Remembers(lastStats, d, k))'
               /\ (~Waits(d, k) => Remembers(currentStats, d, k))'
    BY DEF ReadingsKept
  <2>2. CASE d = c
    <3>1. d \in DOMAIN lastStats \cup DOMAIN currentStats => d \in again'
      BY <2>2 DEF ContainerStarts, IInv, OnlyFound
    <3> QED
      BY <1>1, <2>2, <3>1 DEF Remembers, NoReading
  <2>3. CASE d # c
    BY <1>1, <2>3 DEF IInv, ReadingsKept, Remembers, Idle, Waits, ContainerStarts
  <2> QED
    BY <2>2, <2>3
<1>4. ScanOrder' /\ OnlyFound'
  <2>1. this # None => this \in Container
    BY DEF IInv, TypeOK
  <2> QED
    BY <1>1, <2>1 DEF IInv, ScanOrder, OnlyFound, ContainerStarts, Counters
<1>5. ExactAfterReading' /\ ForgetsOldContainers' /\ ExactOrTotal'
  BY <1>1 DEF IInv, ExactAfterReading, ForgetsOldContainers, Idle, ExactOrTotal
<1> QED
  BY <1>2, <1>3, <1>4, <1>5 DEF IInv

\* Between two scans: the sets and the maps of the next one.
LEMMA InvGlob ==
  ASSUME IInv, Glob
  PROVE  IInv'
<1>1. Idle /\ rate' = None /\ UNCHANGED <<kernel, lastStats, reading, this>>
  BY DEF Glob, scan
<1>2. CASE up = {}
  <2>1. UNCHANGED <<kernel, lastStats, scan, reading, found>>
    BY <1>2 DEF Glob
  <2> QED
    BY <1>1, <2>1 DEF kernel, scan, IInv, TypeOK, ReadingsKept, Remembers, Waits, Idle,
       ScanOrder, OnlyFound, ExactAfterReading, ForgetsOldContainers,
       ExactOrTotal
<1>3. CASE up # {}
  <2>1. todo' = up /\ found' = up /\ currentStats' = NoStats
    BY <1>3 DEF Glob
  <2>2. TypeOK'
    BY <1>1, <2>1 DEF kernel, IInv, TypeOK, NoStats, Idle
  <2>3. ReadingsKept'
    BY <1>1, <2>1 DEF kernel, IInv, ReadingsKept, Remembers, Waits, Idle, NoStats
  <2>4. ScanOrder' /\ OnlyFound'
    BY <1>1, <2>1, ContainerAssumption
    DEF kernel, IInv, TypeOK, ScanOrder, OnlyFound, Idle, NoStats
  <2>5. ExactAfterReading' /\ ForgetsOldContainers' /\ ExactOrTotal'
    BY <1>1, <1>3, <2>1 DEF ExactAfterReading, ForgetsOldContainers, Idle, ExactOrTotal
  <2> QED
    BY <2>2, <2>3, <2>4, <2>5 DEF IInv
<1> QED
  BY <1>2, <1>3

(***************************************************************************)
(* The CPU time of one path: c leaves those that wait, and only its I/O is *)
(* still to be read.                                                       *)
(***************************************************************************)
LEMMA InvCollectCPU ==
  ASSUME IInv, NEW c \in Container, CollectCPU(c)
  PROVE  IInv'
<1>1. /\ this = None /\ c \in todo /\ todo' = todo \ {c} /\ this' = c
      /\ Read(c, "cpu") \/ ReadError(c, "cpu")
      /\ "cpu" \in Counters
      /\ UNCHANGED <<up, used, started, again, lastStats, found>>
  BY DEF CollectCPU, kernel, Counters
<1>2. RateOK'
  BY <1>1, ReadRate DEF Waits
<1>3. /\ reading' \in [Container -> [Counters -> {NoReading} \cup 0 .. MaxUse]]
      /\ reading'[c]["cpu"] \in {NoReading, used[c]["cpu"]}
      /\ \A d \in Container, j \in Counters :
           d # c \/ j # "cpu" => reading'[d][j] = reading[d][j]
  BY <1>1, ReadHistory DEF IInv
<1>4. c \notin DOMAIN currentStats /\ c \in found
  BY <1>1 DEF IInv, ScanOrder, TypeOK
<1>5. /\ MapOK(currentStats)'
      /\ DOMAIN currentStats' \subseteq DOMAIN currentStats \cup {c}
      /\ \A d \in DOMAIN currentStats : d \in DOMAIN currentStats' /\ currentStats'[d] = currentStats[d]
      /\ c \in DOMAIN currentStats' =>
           /\ reading'[c]["cpu"] # NoReading
           /\ currentStats'[c]["cpu"] = reading'[c]["cpu"]
           /\ currentStats'[c]["io"] = 0
      /\ c \notin DOMAIN currentStats' => reading'[c]["cpu"] = NoReading
  <2>1. MapOK(currentStats) /\ used[c]["cpu"] \in 0 .. MaxUse
    BY <1>1, TypeParts DEF IInv
  <2>2. CASE Read(c, "cpu") /\ currentStats' = Put(c, "cpu", used[c]["cpu"])
    <3>1. reading'[c]["cpu"] = used[c]["cpu"] /\ used[c]["cpu"] # NoReading
      BY <1>1, <2>1, <2>2, TypeParts DEF Read, NoReading, IInv
    <3> QED
      BY <1>1, <1>4, <2>1, <2>2, <3>1, PutEntry DEF Counters
  <2>3. CASE ReadError(c, "cpu") /\ UNCHANGED currentStats
    <3>1. reading'[c]["cpu"] = NoReading
      BY <1>1, <2>3, TypeParts DEF ReadError, IInv
    <3> QED
      BY <1>4, <2>1, <2>3, <3>1 DEF MapOK
  <2> QED
    BY <2>2, <2>3 DEF CollectCPU
<1> QED
  <2>1. TypeOK'
    <3>1. MapOK(lastStats)'
      BY <1>1, TypeParts DEF IInv, MapOK
    <3> QED
      BY <1>1, <1>2, <1>3, <1>5, <3>1 DEF IInv, TypeOK, RateOK, MapOK
  <2>2. ReadingsKept'
    <3>1. SUFFICES ASSUME NEW d \in Container, NEW k \in Counters
          PROVE  /\ reading'[d][k] <= used'[d][k]
                 /\ (Idle \/ Waits(d, k) => Remembers(lastStats, d, k))'
                 /\ (~Waits(d, k) => Remembers(currentStats, d, k))'
      BY DEF ReadingsKept
    <3>2. used[d][k] \in 0 .. MaxUse
      BY TypeParts DEF IInv
    <3>3. reading'[d][k] <= used'[d][k]
      BY <1>1, <1>3, <3>2 DEF IInv, ReadingsKept, NoReading
    <3>4. (Idle \/ Waits(d, k) => Remembers(lastStats, d, k))'
      BY <1>1, <1>3, ContainerAssumption DEF IInv, ReadingsKept, Remembers, Idle, Waits
    <3>5. (~Waits(d, k) => Remembers(currentStats, d, k))'
      <4>1. CASE d = c
        BY <1>1, <1>3, <1>5, <4>1 DEF Remembers, Waits, Counters
      <4>2. CASE d # c
        BY <1>1, <1>3, <1>5, <4>2, ContainerAssumption
        DEF IInv, ReadingsKept, Remembers, Waits
      <4> QED
        BY <4>1, <4>2
    <3> QED
      BY <3>3, <3>4, <3>5
  <2>3. ScanOrder' /\ OnlyFound'
    BY <1>1, <1>4, <1>5 DEF IInv, ScanOrder, OnlyFound
  <2>4. ExactAfterReading' /\ ExactOrTotal' /\ ForgetsOldContainers'
    BY <1>1, <1>2, ContainerAssumption DEF RateOK, ForgetsOldContainers, Idle
  <2> QED
    BY <2>1, <2>2, <2>3, <2>4 DEF IInv

(***************************************************************************)
(* The I/O of the path whose CPU time was read.  After the last path the   *)
(* new map, which has all the last readings, replaces the previous one.    *)
(***************************************************************************)
LEMMA InvCollectIO ==
  ASSUME IInv, CollectIO
  PROVE  IInv'
<1> DEFINE c == this
<1>1. /\ c \in Container /\ c \in found /\ c \notin todo /\ this' = None
      /\ Read(c, "io") \/ ReadError(c, "io")
      /\ "io" \in Counters
      /\ UNCHANGED <<up, used, started, again, todo, found>>
  BY DEF CollectIO, kernel, Counters, IInv, TypeOK, ScanOrder
<1>2. RateOK'
  BY <1>1, ReadRate DEF Waits
<1>3. /\ reading' \in [Container -> [Counters -> {NoReading} \cup 0 .. MaxUse]]
      /\ reading'[c]["io"] \in {NoReading, used[c]["io"]}
      /\ \A d \in Container, j \in Counters :
           d # c \/ j # "io" => reading'[d][j] = reading[d][j]
  BY <1>1, ReadHistory DEF IInv
<1>4. /\ MapOK(currentStats)'
      /\ DOMAIN currentStats' \subseteq DOMAIN currentStats \cup {c}
      /\ \A d \in DOMAIN currentStats \ {c} :
           d \in DOMAIN currentStats' /\ currentStats'[d] = currentStats[d]
      /\ c \in DOMAIN currentStats' =>
           /\ currentStats'[c]["io"] =
                IF reading'[c]["io"] # NoReading THEN reading'[c]["io"] ELSE 0
           /\ IF c \in DOMAIN currentStats
                THEN currentStats'[c]["cpu"] = currentStats[c]["cpu"]
                ELSE currentStats'[c]["cpu"] = 0
  <2>1. MapOK(currentStats) /\ used[c]["io"] \in 0 .. MaxUse
    BY <1>1, TypeParts DEF IInv
  <2>2. CASE Read(c, "io") /\ currentStats' = Put(c, "io", used[c]["io"])
    <3>1. reading'[c]["io"] = used[c]["io"] /\ used[c]["io"] # NoReading
      BY <1>1, <2>1, <2>2, TypeParts DEF Read, NoReading, IInv
    <3> QED
      BY <1>1, <2>1, <2>2, <3>1, PutEntry DEF Counters
  <2>3. CASE ReadError(c, "io") /\ UNCHANGED currentStats
    <3>1. reading'[c]["io"] = NoReading
      BY <1>1, <2>3, TypeParts DEF ReadError, IInv
    <3>2. c \in DOMAIN currentStats => currentStats[c]["io"] = 0
      BY <1>1 DEF CollectIO, IInv, ScanOrder
    <3> QED
      BY <2>1, <2>3, <3>1, <3>2 DEF MapOK
  <2> QED
    BY <2>2, <2>3 DEF CollectIO
<1>5. IF todo = {} THEN lastStats' = currentStats' ELSE lastStats' = lastStats
  BY DEF CollectIO
<1>6. this # None
  BY DEF CollectIO
<1> QED
  <2>1. TypeOK'
    <3>1. MapOK(lastStats)'
      BY <1>4, <1>5, TypeParts DEF IInv, MapOK
    <3> QED
      BY <1>1, <1>2, <1>3, <1>4, <3>1 DEF IInv, TypeOK, RateOK, MapOK
  <2>2. ReadingsKept'
    <3>1. SUFFICES ASSUME NEW d \in Container, NEW k \in Counters
          PROVE  /\ reading'[d][k] <= used'[d][k]
                 /\ (Idle \/ Waits(d, k) => Remembers(lastStats, d, k))'
                 /\ (~Waits(d, k) => Remembers(currentStats, d, k))'
      BY DEF ReadingsKept
    <3>2. used[d][k] \in 0 .. MaxUse
      BY TypeParts DEF IInv
    <3>3. reading'[d][k] <= used'[d][k]
      BY <1>1, <1>3, <3>2 DEF IInv, ReadingsKept, NoReading
    <3>4. (~Waits(d, k) => Remembers(currentStats, d, k))'
      <4>1. CASE d = c /\ k = "io"
        BY <1>3, <1>4, <4>1 DEF Remembers
      <4>2. CASE d = c /\ k = "cpu"
        BY <1>1, <1>3, <1>4, <1>6, <4>2
        DEF IInv, ReadingsKept, ScanOrder, Remembers, Waits, Counters
      <4>3. CASE d # c
        BY <1>1, <1>3, <1>4, <4>3 DEF IInv, ReadingsKept, Remembers, Waits
      <4> QED
        BY <4>1, <4>2, <4>3 DEF Counters
    <3>5. (Idle \/ Waits(d, k) => Remembers(lastStats, d, k))'
      <4>1. CASE todo = {}
        <5>1. ~Waits(d, k)'
          BY <1>1, <4>1, ContainerAssumption DEF Waits
        <5> QED
          BY <1>5, <3>4, <4>1, <5>1 DEF Remembers
      <4>2. CASE todo # {}
        <5>1. (Idle \/ Waits(d, k))' => d \in todo
          BY <1>1, <4>2, ContainerAssumption DEF Idle, Waits
        <5> QED
          BY <1>1, <1>3, <1>5, <4>2, <5>1
          DEF IInv, ReadingsKept, Remembers, Waits
      <4> QED
        BY <4>1, <4>2
    <3> QED
      BY <3>3, <3>4, <3>5
  <2>3. ScanOrder' /\ OnlyFound'
    BY <1>1, <1>4, <1>5, ContainerAssumption DEF IInv, TypeOK, ScanOrder, OnlyFound
  <2>4. ExactAfterReading' /\ ExactOrTotal'
    BY <1>2 DEF RateOK
  <2>5. ForgetsOldContainers'
    BY <1>1, <1>4, <1>5 DEF IInv, OnlyFound, ForgetsOldContainers, Idle
  <2> QED
    BY <2>1, <2>2, <2>3, <2>4, <2>5 DEF IInv

LEMMA InvStep == IInv /\ [Next]_vars => IInv'
<1> SUFFICES ASSUME IInv, [Next]_vars PROVE IInv'
  OBVIOUS
<1>1. CASE Glob
  BY <1>1, InvGlob
<1>2. CASE CollectIO
  BY <1>2, InvCollectIO
<1>3. ASSUME NEW c \in Container, CollectCPU(c) PROVE IInv'
  BY <1>3, InvCollectCPU
<1>4. ASSUME NEW c \in Container, ContainerStarts(c) PROVE IInv'
  BY <1>4, InvStarts
<1>5. ASSUME NEW c \in Container, ContainerStops(c) PROVE IInv'
  BY <1>5 DEF ContainerStops, scan, IInv, TypeOK, ReadingsKept, Remembers, Waits, Idle,
     ScanOrder, OnlyFound, ExactAfterReading, ForgetsOldContainers,
     ExactOrTotal
<1>6. ASSUME NEW c \in Container, NEW k \in Counters, ContainerWorks(c, k) PROVE IInv'
  <2>1. \A d \in Container, j \in Counters :
          /\ used[d][j] \in 0 .. MaxUse /\ used'[d][j] \in 0 .. MaxUse
          /\ used[d][j] <= used'[d][j]
    BY <1>6, TypeParts, ContainerAssumption DEF ContainerWorks, IInv
  <2>2. UNCHANGED <<up, started, again, lastStats, currentStats, todo, this, rate, reading, found>>
    BY <1>6 DEF ContainerWorks, scan
  <2>3. TypeOK'
    <3>1. used' \in [Container -> [Counters -> 0 .. MaxUse]]
      BY <1>6, <2>1, TypeParts, ContainerAssumption DEF ContainerWorks, IInv
    <3> QED
      BY <2>2, <3>1 DEF IInv, TypeOK
  <2>4. ReadingsKept'
    <3>1. \A d \in Container, j \in Counters : reading[d][j] \in {NoReading} \cup 0 .. MaxUse
      BY TypeParts DEF IInv
    <3>2. \A d \in Container, j \in Counters : reading[d][j] <= used'[d][j]
      BY <2>1, <3>1 DEF IInv, ReadingsKept, NoReading
    <3> QED
      BY <2>2, <3>2 DEF IInv, ReadingsKept, Remembers, Waits, Idle
  <2>5. ScanOrder' /\ OnlyFound'
    BY <2>2 DEF IInv, ScanOrder, OnlyFound
  <2>6. ExactAfterReading' /\ ForgetsOldContainers' /\ ExactOrTotal'
    BY <2>2 DEF IInv, ExactAfterReading, ForgetsOldContainers, Idle, ExactOrTotal
  <2> QED
    BY <2>3, <2>4, <2>5, <2>6 DEF IInv
<1>7. CASE UNCHANGED vars
  BY <1>7 DEF vars, kernel, scan, IInv, TypeOK, ReadingsKept, Remembers, Waits, Idle,
     ScanOrder, OnlyFound, ExactAfterReading, ForgetsOldContainers,
     ExactOrTotal
<1> QED
  BY <1>1, <1>2, <1>3, <1>4, <1>5, <1>6, <1>7 DEF Next

LEMMA Invariance == Spec => []IInv
BY InvInit, InvStep, PTL DEF Spec

-----------------------------------------------------------------------------
(***************************************************************************)
(* The collector's maps, the paths left to scan and the kernel's counters  *)
(* are well typed (container.go:22-29, 62-119).                            *)
(***************************************************************************)
THEOREM TypeCorrect == Spec => []TypeOK
<1>1. IInv => TypeOK
  BY DEF IInv
<1> QED
  BY <1>1, Invariance, PTL

(***************************************************************************)
(* The rate of a counter that was read by two scans in a row is exact,     *)
(* whatever happened to the others (container.go:87-119, 193-194).         *)
(***************************************************************************)
THEOREM RatesAreExact == Spec => []ExactAfterReading
<1>1. IInv => ExactAfterReading
  BY DEF IInv
<1> QED
  BY <1>1, Invariance, PTL

(***************************************************************************)
(* The collector's memory is bounded by the containers of one scan         *)
(* (container.go:68, 118-119).                                             *)
(***************************************************************************)
THEOREM OldContainersForgotten == Spec => []ForgetsOldContainers
<1>1. IInv => ForgetsOldContainers
  BY DEF IInv
<1> QED
  BY <1>1, Invariance, PTL

(***************************************************************************)
(* Whatever zeros and old readings are subtracted, a rate that is not the  *)
(* difference from the last reading is the whole total of the container's  *)
(* life, as long as it was not restarted under its ID (container.go:63,    *)
(* 108-113, 194).                                                          *)
(***************************************************************************)
THEOREM RatesExactOrTotal == Spec => []ExactOrTotal
<1>1. IInv => ExactOrTotal
  BY DEF IInv
<1> QED
  BY <1>1, Invariance, PTL

-----------------------------------------------------------------------------
(***************************************************************************)
(* When no file of a running container fails to be read, and none keeps its*)
(* ID through a restart: every running container that a map has was read   *)
(* when the map was made, and a rate has an earlier reading.               *)
(***************************************************************************)
NothingMissed ==
  /\ again = {}
  /\ this \in up => this \in DOMAIN currentStats
  /\ \A c \in up, k \in Counters :
       /\ (Idle \/ Waits(c, k)) /\ c \in DOMAIN lastStats => reading[c][k] # NoReading
       /\ ~Waits(c, k) /\ c \in DOMAIN currentStats => reading[c][k] # NoReading
  /\ rate # None => rate.before # NoReading

\* A counter is read if its container runs; nothing else is touched.
LEMMA ReadsSucceed ==
  ASSUME ~ReadsFail, IInv, NEW c \in Container, NEW k \in Counters, c \in up,
         \/ Read(c, k) /\ currentStats' = Put(c, k, used[c][k])
         \/ ReadError(c, k) /\ UNCHANGED currentStats
  PROVE  /\ reading'[c][k] # NoReading /\ c \in DOMAIN currentStats'
<1>1. Read(c, k) /\ currentStats' = Put(c, k, used[c][k])
  BY DEF ReadError
<1>2. used[c][k] \in 0 .. MaxUse /\ reading'[c][k] = used[c][k]
  BY <1>1, TypeParts DEF Read, IInv
<1> QED
  BY <1>1, <1>2 DEF Put, NoReading

\* The rate of a counter that waits has an earlier reading.
LEMMA RateHasReading ==
  ASSUME NothingMissed, NEW c \in Container, NEW k \in Counters, Waits(c, k),
         Read(c, k) \/ ReadError(c, k)
  PROVE  rate' # None => rate'.before # NoReading
BY DEF NothingMissed, Read, ReadError

LEMMA MissedCollectCPU ==
  ASSUME ~ReadsFail, IInv, NothingMissed, NEW c \in Container, CollectCPU(c)
  PROVE  NothingMissed'
<1>1. /\ this = None /\ c \in todo /\ todo' = todo \ {c} /\ this' = c
      /\ Read(c, "cpu") \/ ReadError(c, "cpu")
      /\ "cpu" \in Counters
      /\ UNCHANGED <<up, again, lastStats>>
  BY DEF CollectCPU, kernel, Counters
<1>2. rate' # None => rate'.before # NoReading
  BY <1>1, RateHasReading DEF Waits
<1>3. c \in up => reading'[c]["cpu"] # NoReading /\ c \in DOMAIN currentStats'
  BY <1>1, ReadsSucceed DEF CollectCPU
<1>4. \A d \in Container, j \in Counters :
        d # c \/ j # "cpu" => reading'[d][j] = reading[d][j]
  BY <1>1, ReadHistory DEF IInv
<1>5. \A d \in Container \ {c} : d \in DOMAIN currentStats' => d \in DOMAIN currentStats
  BY DEF CollectCPU, Put
<1>6. ASSUME NEW d \in up, NEW k \in Counters
      PROVE  /\ (Idle \/ Waits(d, k))' /\ d \in DOMAIN lastStats =>
                  reading'[d][k] # NoReading
             /\ ~Waits(d, k)' /\ d \in DOMAIN currentStats' =>
                  reading'[d][k] # NoReading
  <2>1. d \in Container /\ c # None /\ d # None
    BY ContainerAssumption DEF IInv, TypeOK
  <2>2. CASE d # c
    BY <1>1, <1>4, <1>5, <2>1, <2>2 DEF NothingMissed, Idle, Waits
  <2>3. CASE d = c /\ k = "cpu"
    BY <1>3, <2>3
  <2>4. CASE d = c /\ k = "io"
    BY <1>1, <1>4, <2>1, <2>4 DEF NothingMissed, Idle, Waits
  <2> QED
    BY <2>2, <2>3, <2>4 DEF Counters
<1> QED
  BY <1>1, <1>2, <1>3, <1>6 DEF NothingMissed

LEMMA MissedCollectIO ==
  ASSUME ~ReadsFail, IInv, NothingMissed, CollectIO
  PROVE  NothingMissed'
<1> DEFINE c == this
<1>1. /\ c \in Container /\ c \notin todo /\ this' = None /\ this # None
      /\ Read(c, "io") \/ ReadError(c, "io")
      /\ "io" \in Counters /\ None \notin up
      /\ UNCHANGED <<up, again, todo>>
  BY ContainerAssumption DEF CollectIO, kernel, Counters, IInv, TypeOK, ScanOrder
<1>2. rate' # None => rate'.before # NoReading
  BY <1>1, RateHasReading DEF Waits
<1>3. c \in up => reading'[c]["io"] # NoReading /\ c \in DOMAIN currentStats'
  BY <1>1, ReadsSucceed DEF CollectIO
<1>4. \A d \in Container, j \in Counters :
        d # c \/ j # "io" => reading'[d][j] = reading[d][j]
  BY <1>1, ReadHistory DEF IInv
<1>5. \A d \in Container \ {c} : d \in DOMAIN currentStats' => d \in DOMAIN currentStats
  BY DEF CollectIO, Put
<1>6. IF todo = {} THEN lastStats' = currentStats' ELSE lastStats' = lastStats
  BY DEF CollectIO
<1>7. ASSUME NEW d \in up, NEW k \in Counters
      PROVE  /\ (Idle \/ Waits(d, k))' /\ d \in DOMAIN lastStats' =>
                  reading'[d][k] # NoReading
             /\ ~Waits(d, k)' /\ d \in DOMAIN currentStats' =>
                  reading'[d][k] # NoReading
  <2>1. d \in Container
    BY DEF IInv, TypeOK
  <2>2. ~Waits(d, k)' /\ d \in DOMAIN currentStats' => reading'[d][k] # NoReading
    <3>1. CASE d # c
      BY <1>1, <1>4, <1>5, <2>1, <3>1 DEF NothingMissed, Waits
    <3>2. CASE d = c /\ k = "io"
      BY <1>3, <3>2
    <3>3. CASE d = c /\ k = "cpu"
      BY <1>1, <1>4, <2>1, <3>3 DEF NothingMissed, Waits
    <3> QED
      BY <3>1, <3>2, <3>3 DEF Counters
  <2>3. (Idle \/ Waits(d, k))' /\ d \in DOMAIN lastStats' => reading'[d][k] # NoReading
    <3>1. CASE todo = {}
      <4>1. ~Waits(d, k)'
        BY <1>1, <3>1, <2>1, ContainerAssumption DEF Waits
      <4> QED
        BY <1>6, <2>2, <3>1, <4>1
    <3>2. CASE todo # {}
      <4>1. (Idle \/ Waits(d, k))' => d \in todo /\ d # c
        BY <1>1, <3>2, <2>1, ContainerAssumption DEF Idle, Waits
      <4> QED
        BY <1>4, <1>6, <2>1, <3>2, <4>1 DEF NothingMissed, Waits
    <3> QED
      BY <3>1, <3>2
  <2> QED
    BY <2>2, <2>3
<1> QED
  BY <1>1, <1>2, <1>7 DEF NothingMissed

LEMMA MissedStep ==
  ASSUME ~ReadsFail, ~SameID
  PROVE  IInv /\ NothingMissed /\ [Next]_vars => NothingMissed'
<1> SUFFICES ASSUME IInv, NothingMissed, [Next]_vars PROVE NothingMissed'
  OBVIOUS
<1>1. CASE Glob
  <2>1. Idle /\ rate' = None /\ UNCHANGED <<up, again, lastStats, reading, this>>
    BY <1>1 DEF Glob, kernel, scan
  <2>2. CASE up = {}
    BY <2>1, <2>2, ContainerAssumption DEF NothingMissed
  <2>3. CASE up # {}
    <3>1. currentStats' = NoStats /\ None \notin up
      BY <1>1, <2>3, ContainerAssumption DEF Glob, IInv, TypeOK
    <3> QED
      BY <2>1, <3>1 DEF NothingMissed, NoStats, Idle
  <2> QED
    BY <2>2, <2>3
<1>2. CASE CollectIO
  BY <1>2, MissedCollectIO
<1>3. ASSUME NEW c \in Container, CollectCPU(c) PROVE NothingMissed'
  BY <1>3, MissedCollectCPU
<1>4. ASSUME NEW c \in Container, ContainerStarts(c) PROVE NothingMissed'
  <2>1. /\ c \notin DOMAIN lastStats /\ c \notin DOMAIN currentStats /\ c # this
        /\ again' = again /\ up' = up \cup {c}
    BY <1>4, ContainerAssumption DEF ContainerStarts, IInv, OnlyFound, TypeOK
  <2>2. \A d \in Container, k \in Counters : d # c => reading'[d][k] = reading[d][k]
    BY <1>4, TypeParts DEF ContainerStarts, IInv
  <2>3. UNCHANGED <<lastStats, currentStats, todo, this, rate>>
    BY <1>4 DEF ContainerStarts, scan
  <2>4. up \subseteq Container
    BY DEF IInv, TypeOK
  <2> QED
    BY <2>1, <2>2, <2>3, <2>4 DEF NothingMissed, Idle, Waits
<1>5. ASSUME NEW c \in Container, ContainerStops(c) PROVE NothingMissed'
  BY <1>5 DEF ContainerStops, scan, NothingMissed, Idle, Waits
<1>6. ASSUME NEW c \in Container, NEW k \in Counters, ContainerWorks(c, k)
      PROVE  NothingMissed'
  BY <1>6 DEF ContainerWorks, scan, NothingMissed, Idle, Waits
<1>7. CASE UNCHANGED vars
  BY <1>7 DEF vars, kernel, scan, NothingMissed, Idle, Waits
<1> QED
  BY <1>1, <1>2, <1>3, <1>4, <1>5, <1>6, <1>7 DEF Next

(***************************************************************************)
(* What docs/container-metrics-docs.md:142-144 says of a rate is true of a *)
(* host on which no read fails while the container runs and no container   *)
(* restarts under its ID, although containers come and go in the middle of *)
(* scans: the two faults are the only ways to another rate                 *)
(* (container.go:92, 108-113, 194).                                        *)
(***************************************************************************)
THEOREM DeltasUnlessFaults ==
  ASSUME ~ReadsFail, ~SameID
  PROVE  Spec => []DeltaFromLastReading
<1>1. Init => NothingMissed
  BY ContainerAssumption DEF Init, NothingMissed, NoStats
<1>2. IInv /\ NothingMissed /\ [Next]_vars => NothingMissed'
  BY MissedStep
<1>3. IInv /\ NothingMissed => DeltaFromLastReading
  BY DEF IInv, NothingMissed, ExactAfterReading, DeltaFromLastReading
<1> QED
  BY <1>1, <1>2, <1>3, Invariance, PTL DEF Spec
=============================================================================
