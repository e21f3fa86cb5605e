------------------------ MODULE RateCollector_proofs ------------------------
(***************************************************************************)
(* Proofs about RateCollector, for any names, filters and counters that    *)
(* stay below the modulus.                                                 *)
(*                                                                         *)
(* EachUnitOnce is inductive with three more facts about the names that    *)
(* have never disappeared: an entry of either map is not above the         *)
(* counter, the new map is not below the previous one, and what is         *)
(* reported is the difference of the two, without a wrap.                  *)
(***************************************************************************)
EXTENDS RateCollector, TLAPS

HistoryOK ==
  /\ reported \in [Name -> Int] /\ lost \in [Name -> Int] /\ origin \in [Name -> Int]

\* A name with an entry is still listed unless it has been gone, so its
\* counter has not started again.
NotAbove(f) ==
  \A n \in DOMAIN f \ gone : n \in present /\ f[n] <= work[n]

\* The result has the names that both maps have, and their difference.
ResultExact ==
  /\ DOMAIN result = DOMAIN currentStats \cap DOMAIN lastStats
  /\ \A n \in DOMAIN result \ gone : result[n] = currentStats[n] - lastStats[n]

\* A Collect reads only lines that the file had when it was opened.
OnlyListed == scanning => todo \cup DOMAIN currentStats \subseteq listed

IInv ==
  /\ TypeOK /\ HistoryOK
  /\ NotAbove(lastStats) /\ NotAbove(currentStats)
  /\ ResultExact /\ OnlyListed /\ EachUnitOnce /\ ForgetsAbsent

-----------------------------------------------------------------------------
\* A map has only monitored names, with counters that were read.
MapOK(f) == DOMAIN f \subseteq Monitored /\ f \in [DOMAIN f -> 0 .. MaxWork]

LEMMA TypeParts ==
  TypeOK <=>
    /\ gone \subseteq Name /\ present \subseteq Name
    /\ work \in [Name -> 0 .. MaxWork]
    /\ MapOK(lastStats) /\ MapOK(currentStats)
    /\ scanning \in BOOLEAN /\ todo \subseteq Name
    /\ DOMAIN result \subseteq DOMAIN currentStats \cap DOMAIN lastStats
    /\ \A n \in DOMAIN result : result[n] \in 0 .. Modulus - 1
BY DEF TypeOK, MapOK

LEMMA EmptyOK == DOMAIN Empty = {} /\ MapOK(Empty)
BY DEF Empty, MapOK

\* An entry is added to a typed map.
LEMMA WithOK ==
  ASSUME NEW f, MapOK(f), NEW n \in Monitored, NEW v \in 0 .. MaxWork
  PROVE  MapOK(With(f, n, v))
BY DEF With, MapOK

\* Subtraction of a number that is not greater does not wrap.
LEMMA MinusExact ==
  ASSUME NEW x \in 0 .. MaxWork, NEW y \in 0 .. MaxWork
  PROVE  /\ Minus(x, y) \in 0 .. Modulus - 1
         /\ y <= x => Minus(x, y) = x - y
BY RateAssumption DEF Minus

-----------------------------------------------------------------------------
LEMMA InvInit == Init => IInv
<1> SUFFICES ASSUME Init PROVE IInv
  OBVIOUS
<1>1. scanning \in BOOLEAN
  BY DEF Init
<1>2. TypeOK
  BY <1>1, RateAssumption DEF Init, TypeOK, Empty
<1> QED
  BY <1>2, EmptyOK DEF Init, IInv, HistoryOK, NotAbove, ResultExact, OnlyListed,
     EachUnitOnce, ForgetsAbsent

(***************************************************************************)
(* One line.  The previous entry of a name that has never been gone is not *)
(* above the counter, so the difference that is added is exact.            *)
(***************************************************************************)
LEMMA InvReadLine ==
  ASSUME IInv, NEW n \in Name, ReadLine(n)
  PROVE  IInv'
<1>1. /\ scanning /\ n \in todo /\ todo' = todo \ {n}
      /\ UNCHANGED <<present, work, gone, scanning, lastStats, listed, reported, lost, origin>>
  BY DEF ReadLine, kernel, history, sums
<1>2. HistoryOK' /\ NotAbove(lastStats)' /\ EachUnitOnce' /\ ForgetsAbsent'
  BY <1>1 DEF IInv, HistoryOK, NotAbove, EachUnitOnce, ForgetsAbsent
<1>3. CASE n \notin present \cap Monitored
  <2>1. UNCHANGED <<currentStats, result>>
    BY <1>3 DEF ReadLine
  <2> QED
    BY <1>1, <1>2, <2>1 DEF IInv, TypeOK, NotAbove, ResultExact, OnlyListed
<1>4. CASE n \in present \cap Monitored
  <2>1. /\ currentStats' = With(currentStats, n, work[n])
        /\ result' = IF n \in DOMAIN lastStats
                       THEN With(result, n, Minus(work[n], lastStats[n])) ELSE result
    BY <1>4 DEF ReadLine
  <2>2. /\ work[n] \in 0 .. MaxWork
        /\ n \in DOMAIN lastStats => lastStats[n] \in 0 .. MaxWork
    BY TypeParts DEF IInv, MapOK
  <2>3. /\ DOMAIN currentStats' = DOMAIN currentStats \cup {n}
        /\ currentStats'[n] = work[n]
        /\ \A m \in DOMAIN currentStats \ {n} : currentStats'[m] = currentStats[m]
    BY <2>1 DEF With
  <2>4. DOMAIN result' = DOMAIN currentStats' \cap DOMAIN lastStats
    BY <2>1, <2>3 DEF With, IInv, ResultExact
  <2>5. \A m \in DOMAIN result' \ {n} : m \in DOMAIN result /\ result'[m] = result[m]
    BY <2>1, <2>3, <2>4 DEF With, IInv, ResultExact
  <2>6. n \in DOMAIN result' => result'[n] = Minus(work[n], lastStats[n])
    BY <2>1, <2>4 DEF With
  <2>7. TypeOK'
    <3>1. MapOK(currentStats')
      BY <1>4, <2>1, <2>2, TypeParts, WithOK DEF IInv
    <3>2. \A m \in DOMAIN result' : result'[m] \in 0 .. Modulus - 1
      BY <2>2, <2>4, <2>5, <2>6, MinusExact, TypeParts DEF IInv
    <3> QED
      BY <1>1, <2>4, <3>1, <3>2 DEF IInv, TypeOK, MapOK
  <2>8. NotAbove(currentStats)'
    BY <1>1, <1>4, <2>2, <2>3 DEF IInv, NotAbove
  <2>9. ResultExact'
    <3>1. n \in DOMAIN result' \ gone => result'[n] = work[n] - lastStats[n]
      BY <2>2, <2>4, <2>6, MinusExact DEF IInv, NotAbove
    <3> QED
      BY <1>1, <2>3, <2>4, <2>5, <3>1 DEF IInv, ResultExact
  <2>10. OnlyListed'
    BY <1>1, <2>3 DEF IInv, OnlyListed
  <2> QED
    BY <1>2, <2>7, <2>8, <2>9, <2>10 DEF IInv
<1> QED
  BY <1>3, <1>4

(***************************************************************************)
(* The end of a Collect: what was computed goes to one of the two sums.    *)
(***************************************************************************)
LEMMA InvReplace ==
  ASSUME IInv, scanning, Replace, UNCHANGED <<kernel, listed>>,
         \/ reported' = AddTo(reported) /\ lost' = Keep(lost)
         \/ reported' = Keep(reported) /\ lost' = AddTo(lost)
  PROVE  IInv'
<1>1. /\ scanning' = FALSE /\ todo' = {} /\ lastStats' = currentStats
      /\ currentStats' = Empty /\ result' = Empty
      /\ UNCHANGED <<present, work, gone, listed>>
  BY DEF Replace, kernel
<1>2. \A n \in DOMAIN lastStats \cup DOMAIN currentStats : n \in Name
  BY TypeParts DEF IInv, MapOK, Monitored
<1>3. /\ \A n \in DOMAIN lastStats : lastStats[n] \in Int
      /\ \A n \in DOMAIN currentStats : currentStats[n] \in Int
      /\ \A n \in DOMAIN result : result[n] \in Int
  BY TypeParts, RateAssumption DEF IInv, MapOK
<1>4. HistoryOK'
  <2>1. AddTo(reported) \in [Name -> Int] /\ AddTo(lost) \in [Name -> Int]
    BY <1>3 DEF AddTo, IInv, HistoryOK
  <2>2. Keep(reported) \in [Name -> Int] /\ Keep(lost) \in [Name -> Int]
    BY DEF Keep, IInv, HistoryOK
  <2>3. origin' \in [Name -> Int]
    BY <1>3 DEF Replace, IInv, HistoryOK
  <2> QED
    BY <2>1, <2>2, <2>3 DEF HistoryOK
<1>5. EachUnitOnce'
  <2>1. SUFFICES ASSUME NEW n \in DOMAIN currentStats \ gone
        PROVE  reported'[n] + lost'[n] = currentStats[n] - origin'[n]
    BY <1>1 DEF EachUnitOnce
  <2>2. n \in Name /\ currentStats[n] \in Int
    BY <1>2, <1>3
  <2>3. CASE n \in DOMAIN lastStats
    <3>1. n \in DOMAIN result \ gone /\ result[n] = currentStats[n] - lastStats[n]
      BY <2>3 DEF IInv, ResultExact
    <3>2. origin'[n] = origin[n]
      BY <2>2, <2>3 DEF Replace
    <3>3. reported[n] + lost[n] = lastStats[n] - origin[n]
      BY <2>3 DEF IInv, EachUnitOnce
    <3>4. \/ reported'[n] = reported[n] + result[n] /\ lost'[n] = lost[n]
          \/ reported'[n] = reported[n] /\ lost'[n] = lost[n] + result[n]
      BY <2>2, <3>1 DEF AddTo, Keep
    <3>5. /\ reported[n] \in Int /\ lost[n] \in Int /\ origin[n] \in Int
          /\ lastStats[n] \in Int /\ result[n] \in Int
      BY <1>3, <2>2, <2>3, <3>1 DEF IInv, HistoryOK
    <3> QED
      BY <2>2, <3>1, <3>2, <3>3, <3>4, <3>5
  <2>4. CASE n \notin DOMAIN lastStats
    <3>1. n \notin DOMAIN result /\ origin'[n] = currentStats[n]
      BY <2>2, <2>4 DEF IInv, ResultExact, Replace
    <3>2. reported'[n] = 0 /\ lost'[n] = 0
      BY <2>2, <3>1 DEF AddTo, Keep
    <3> QED
      BY <2>2, <3>1, <3>2
  <2> QED
    BY <2>3, <2>4
<1>6. TypeOK'
  BY <1>1, EmptyOK DEF IInv, TypeOK, MapOK
<1>7. NotAbove(lastStats)' /\ NotAbove(currentStats)' /\ ResultExact'
  BY <1>1, EmptyOK DEF IInv, NotAbove, ResultExact
<1>8. OnlyListed' /\ ForgetsAbsent'
  BY <1>1 DEF IInv, OnlyListed, ForgetsAbsent
<1> QED
  BY <1>4, <1>5, <1>6, <1>7, <1>8 DEF IInv

LEMMA InvStep == IInv /\ [Next]_vars => IInv'
<1> SUFFICES ASSUME IInv, [Next]_vars PROVE IInv'
  OBVIOUS
<1>1. CASE OpenFile
  <2>1. /\ scanning' = TRUE /\ todo' = present /\ listed' = present
        /\ currentStats' = Empty /\ result' = Empty
        /\ UNCHANGED <<present, work, gone, lastStats, reported, lost, origin>>
    BY <1>1 DEF OpenFile, kernel, sums
  <2>2. TypeOK'
    BY <2>1, EmptyOK DEF IInv, TypeOK, MapOK
  <2> QED
    BY <2>1, <2>2, EmptyOK DEF IInv, HistoryOK, NotAbove, ResultExact, OnlyListed,
       EachUnitOnce, ForgetsAbsent
<1>2. CASE Finish
  BY <1>2, InvReplace DEF Finish
<1>3. CASE ReadFails
  BY <1>3, InvReplace DEF ReadFails
<1>4. ASSUME NEW n \in Name, Works(n) PROVE IInv'
  <2>1. /\ n \in present /\ work' = [work EXCEPT ![n] = @ + 1]
        /\ work[n] < MaxWork
        /\ UNCHANGED <<present, gone, lastStats, scanning, todo, currentStats, result,
                       listed, reported, lost, origin>>
    BY <1>4 DEF Works, collect, history, sums
  <2>2. /\ work' \in [Name -> 0 .. MaxWork]
        /\ \A m \in Name : work[m] \in Int /\ work'[m] \in Int /\ work[m] <= work'[m]
    BY <2>1, TypeParts, RateAssumption DEF IInv
  <2>3. TypeOK'
    BY <2>1, <2>2 DEF IInv, TypeOK
  <2>4. NotAbove(lastStats)' /\ NotAbove(currentStats)'
    <3>1. \A f \in {lastStats, currentStats} : \A m \in DOMAIN f : m \in Name /\ f[m] \in Int
      BY TypeParts DEF IInv, MapOK, Monitored
    <3>2. \A f \in {lastStats, currentStats} : \A m \in DOMAIN f \ gone :
            m \in present /\ f[m] <= work'[m]
      BY <2>2, <3>1 DEF IInv, NotAbove
    <3> QED
      BY <2>1, <3>2 DEF NotAbove
  <2> QED
    BY <2>1, <2>3, <2>4 DEF IInv, HistoryOK, ResultExact, OnlyListed, EachUnitOnce,
       ForgetsAbsent
<1>5. ASSUME NEW n \in Name, Appears(n) PROVE IInv'
  <2>1. /\ n \notin present /\ present' = present \cup {n}
        /\ work' = [work EXCEPT ![n] = 0]
        /\ UNCHANGED <<gone, lastStats, scanning, currentStats, result,
                       reported, lost, origin>>
        /\ \/ UNCHANGED <<todo, listed>>
           \/ scanning /\ todo' = todo \cup {n} /\ listed' = listed \cup {n}
    BY <1>5 DEF Appears, sums
  <2>2. TypeOK'
    BY <2>1, RateAssumption DEF IInv, TypeOK
  <2>3. NotAbove(lastStats)' /\ NotAbove(currentStats)'
    BY <2>1, TypeParts DEF IInv, NotAbove, MapOK, Monitored
  <2> QED
    BY <2>1, <2>2, <2>3 DEF IInv, HistoryOK, ResultExact, OnlyListed, EachUnitOnce,
       ForgetsAbsent
<1>6. ASSUME NEW n \in Name, Disappears(n) PROVE IInv'
  <2>1. /\ present' = present \ {n} /\ gone' = gone \cup {n}
        /\ UNCHANGED <<work, lastStats, scanning, todo, currentStats, result,
                       listed, reported, lost, origin>>
    BY <1>6 DEF Disappears, collect, history, sums
  <2> QED
    BY <2>1 DEF IInv, TypeOK, HistoryOK, NotAbove, ResultExact, OnlyListed, EachUnitOnce,
       ForgetsAbsent
<1>7. ASSUME NEW n \in Name, ReadLine(n) PROVE IInv'
  BY <1>7, InvReadLine
<1>8. CASE UNCHANGED vars
  BY <1>8 DEF vars, kernel, collect, history, sums, IInv, TypeOK, HistoryOK, NotAbove,
     ResultExact, OnlyListed, EachUnitOnce, ForgetsAbsent
<1> QED
  BY <1>1, <1>2, <1>3, <1>4, <1>5, <1>6, <1>7, <1>8 DEF Next

LEMMA Invariance == Spec => []IInv
BY InvInit, InvStep, PTL DEF Spec

-----------------------------------------------------------------------------
(***************************************************************************)
(* The collectors' maps, differences and lines to read are well typed      *)
(* (disk.go:56-104, network.go:58-118, cpu.go:58-117).                     *)
(***************************************************************************)
THEOREM TypeCorrect == Spec => []TypeOK
<1>1. IInv => TypeOK
  BY DEF IInv
<1> QED
  BY <1>1, Invariance, PTL

(***************************************************************************)
(* No unit of work of a name is reported twice or in a later interval: it  *)
(* is reported once, or lost with the result of one Collect that failed    *)
(* (disk.go:88-100, network.go:103-115, cpu.go:97-115).                    *)
(***************************************************************************)
THEOREM UnitsReportedOnce == Spec => []EachUnitOnce
<1>1. IInv => EachUnitOnce
  BY DEF IInv
<1> QED
  BY <1>1, Invariance, PTL

(***************************************************************************)
(* The map does not grow with the names a host has ever had                *)
(* (disk.go:60 and 98, network.go:62 and 113).                             *)
(***************************************************************************)
THEOREM AbsentForgotten == Spec => []ForgetsAbsent
<1>1. IInv => ForgetsAbsent
  BY DEF IInv
<1> QED
  BY <1>1, Invariance, PTL
=============================================================================
