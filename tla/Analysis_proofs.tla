--------------------------- MODULE Analysis_proofs ---------------------------
(***************************************************************************)
(* Proofs about Analysis, for any cores, containers, period, retention and *)
(* number of batches.                                                      *)
(***************************************************************************)
EXTENDS Analysis, TLAPS

\* A row of container statistics is about a container.
Labelled(R) == \A r \in R : r.name = CtrCPU => r.label \in Container

Shape ==
  /\ rows \subseteq Row /\ Labelled(rows)
  /\ asked \in [Collectors -> SUBSET Row]
  /\ \A c \in Collectors : Labelled(asked[c])
  /\ now \in 0 .. MaxTime /\ batches \in 0 .. MaxBatches
  /\ hostEnd \in 0 .. now /\ ctrEnd \in 0 .. now
  /\ before \subseteq Row
  /\ got \in [Query -> (SUBSET Row) \cup {None}]

Control ==
  /\ pc \in {"ended", "cpu", "memory", "disk", "containers", "unique",
             "container", "report"}
  /\ todo \subseteq Container /\ this \in todo \cup {None}
  /\ todo # {} => pc = "container"

\* No container is asked about before the end of its window is taken.
NotYet ==
  pc \in {"cpu", "memory", "disk", "containers", "unique"} =>
    \A q \in Query \ HostQuery : got[q] = None

HasSamples(n) == got[Of(n, Any)] \notin {None, {}}

Samples ==
  /\ pc \notin {"ended", "cpu"} => HasSamples(HostCPU)
  /\ pc \notin {"ended", "cpu", "memory"} => HasSamples(HostMemory)

\* A row that has left the table is one that the retention allows to go.
KeptOrExpired(R) == \A r \in R : r \in rows \/ r.ts + Retention < now

Retained ==
  /\ KeptOrExpired(before)
  /\ got[Unique] # None => KeptOrExpired(got[Unique]) /\ Labelled(got[Unique])

IInv ==
  Shape /\ Control /\ NotYet /\ Samples /\ Retained
    /\ SeesWholeWindow /\ ListedSamplesCount

-----------------------------------------------------------------------------
LEMMA HostQueries ==
  \A n \in {HostCPU, HostMemory, HostDisk} : Of(n, Any) \in Query \cap HostQuery
BY DEF Query, HostQuery

LEMMA ContainerQueries ==
  /\ Unique \in Query \ HostQuery
  /\ \A n \in {CtrCPU, CtrMemory}, c \in Container :
       Of(n, c) \in Query \ HostQuery /\ Of(n, c) # Unique
<1>1. Unique \in Query
  BY DEF Query
<1>2. ASSUME NEW n \in {CtrCPU, CtrMemory}, NEW l PROVE Of(n, l) \notin HostQuery
  BY DEF Of, HostQuery, HostCPU, HostMemory, HostDisk, CtrCPU, CtrMemory
<1>3. Unique \notin HostQuery
  BY <1>2 DEF Unique
<1>4. ASSUME NEW n \in {CtrCPU, CtrMemory}, NEW c \in Container
      PROVE  Of(n, c) \in Query /\ Of(n, c) # Unique
  <2>1. Of(n, c) \in Query
    BY DEF Query
  <2>2. c # Any /\ Of(n, c).label = c /\ Unique.label = Any
    BY AnalysisAssumption DEF Of, Unique
  <2> QED
    BY <2>1, <2>2
<1> QED
  BY <1>1, <1>2, <1>3, <1>4

\* What an answer that is not empty is: an answer.
LEMMA AnswersAreSamples ==
  ASSUME rows \subseteq Row, NEW q \in Query, NEW end, QueryMetrics(q, end) # {}
  PROVE  QueryMetrics(q, end) \notin {None, {}}
<1>1. PICK r \in rows : Matches(r, q, end)
  BY DEF QueryMetrics
<1>2. q.name \in Name
  BY <1>1 DEF Matches, Row
<1>3. QueryMetrics(q, end) \in SUBSET {r1 \in Row : r1.name = q.name}
  BY DEF QueryMetrics, Matches
<1> QED
  BY <1>2, <1>3, AnswerAssumption

-----------------------------------------------------------------------------
\* What an answer does to the rest: it is complete, and the others stay.
LEMMA AnswerStep ==
  ASSUME IInv, NEW q \in Query, Answer(q, WindowEnd(q)),
         UNCHANGED <<rows, now, windows>>,
         q = Unique => NotYet /\ pc = "unique"
  PROVE  /\ got' \in [Query -> (SUBSET Row) \cup {None}]
         /\ got'[q] = QueryMetrics(q, WindowEnd(q))
         /\ \A p \in Query \ {q} : got'[p] = got[p]
         /\ SeesWholeWindow' /\ ListedSamplesCount' /\ Retained'
<1> DEFINE A == QueryMetrics(q, WindowEnd(q))
<1>1. A \subseteq rows /\ \A r \in rows : r \in A <=> Matches(r, q, WindowEnd(q))
  BY DEF QueryMetrics
<1>2. rows \subseteq Row /\ Labelled(rows) /\ now \in Int /\ before \subseteq Row
      /\ got \in [Query -> (SUBSET Row) \cup {None}]
  BY DEF IInv, Shape
<1>3. got' = [got EXCEPT ![q] = A]
  BY DEF Answer
<1> HIDE DEF A
<1>4. /\ got' \in [Query -> (SUBSET Row) \cup {None}]
      /\ got'[q] = A /\ \A p \in Query \ {q} : got'[p] = got[p]
  BY <1>1, <1>2, <1>3
<1>5. UNCHANGED <<rows, now, hostEnd, ctrEnd, before>>
  BY DEF windows
<1>6. SeesWholeWindow'
  <2> SUFFICES ASSUME NEW p \in Query, got'[p] # None
               PROVE  /\ \A r \in before : Matches(r, p, WindowEnd(p)) /\ r.ts + Retention >= now
                           => r \in got'[p]
                      /\ \A r \in got'[p] : Matches(r, p, WindowEnd(p))
    BY <1>5 DEF SeesWholeWindow, Matches, WindowEnd
  <2>1. CASE p = q
    <3>1. \A r \in before : r.ts + Retention >= now => r \in rows
      <4> TAKE r \in before
      <4>1. r.ts \in Int /\ Retention \in Int
        BY <1>2, AnalysisAssumption DEF Row
      <4>2. r \in rows \/ r.ts + Retention < now
        BY DEF IInv, Retained, KeptOrExpired
      <4> QED
        BY <1>2, <4>1, <4>2
    <3> QED
      BY <1>1, <1>4, <2>1, <3>1
  <2>2. CASE p # q
    BY <1>4, <2>2 DEF IInv, SeesWholeWindow
  <2> QED
    BY <2>1, <2>2
<1>7. Retained'
  <2>1. KeptOrExpired(before)'
    BY <1>5 DEF IInv, Retained, KeptOrExpired
  <2>2. CASE q = Unique
    <3>1. KeptOrExpired(A) /\ Labelled(A)
      BY <1>1, <1>2 DEF KeptOrExpired, Labelled
    <3> QED
      BY <1>4, <1>5, <2>1, <2>2, <3>1 DEF Retained, KeptOrExpired, Labelled
  <2>3. CASE q # Unique
    BY <1>4, <1>5, <2>1, <2>3, ContainerQueries DEF IInv, Retained, KeptOrExpired, Labelled
  <2> QED
    BY <2>2, <2>3
<1>8. ListedSamplesCount'
  <2> SUFFICES ASSUME got'[Unique] # None, NEW r \in got'[Unique],
                      got'[Of(CtrCPU, r.label)] # None, r.ts + Retention >= now
               PROVE  r \in got'[Of(CtrCPU, r.label)]
    BY <1>5 DEF ListedSamplesCount
  <2>1. Matches(r, Unique, ctrEnd)
    BY <1>5, <1>6, ContainerQueries DEF SeesWholeWindow, WindowEnd, Matches
  <2>2. r.name = CtrCPU /\ r \in Row
    BY <1>4, <2>1, ContainerQueries DEF Matches, Unique, Of
  <2>3. r.label \in Container
    BY <1>7, <2>2 DEF Retained, Labelled
  <2> DEFINE p == Of(CtrCPU, r.label)
  <2>4. p \in Query \ HostQuery /\ p # Unique
    BY <2>3, ContainerQueries
  <2>5. r \in rows
    <3>1. r.ts \in Int /\ Retention \in Int
      BY <2>2, AnalysisAssumption DEF Row
    <3>2. r \in rows \/ r.ts + Retention < now
      BY <1>5, <1>7 DEF Retained, KeptOrExpired
    <3> QED
      BY <1>2, <3>1, <3>2
  <2>6. CASE q = Unique
    BY <1>4, <2>4, <2>6 DEF NotYet
  <2>7. CASE q = p
    <3>1. Matches(r, p, ctrEnd)
      BY <2>1 DEF Matches, Of, Unique
    <3> QED
      BY <1>1, <1>4, <2>4, <2>5, <2>7, <3>1 DEF WindowEnd
  <2>8. CASE q # Unique /\ q # p
    <3>1. got'[Unique] = got[Unique] /\ got'[p] = got[p]
      BY <1>4, <2>4, <2>8, ContainerQueries
    <3> QED
      BY <3>1 DEF IInv, ListedSamplesCount
  <2> QED
    BY <2>6, <2>7, <2>8
<1> QED
  BY <1>4, <1>6, <1>7, <1>8 DEF A

\* What the agent may do to the table, and the clock, meanwhile.
LEMMA AgentStep ==
  ASSUME IInv, UNCHANGED <<windows, pc, todo, this, got>>,
         rows' \subseteq Row, Labelled(rows'),
         now' \in 0 .. MaxTime, now <= now',
         \A r \in rows : r \in rows' \/ r.ts + Retention < now',
         asked' \in [Collectors -> SUBSET Row],
         \A c \in Collectors : Labelled(asked'[c]),
         batches' \in 0 .. MaxBatches
  PROVE  IInv'
<1>1. now \in Int /\ now' \in Int /\ Retention \in Int /\ hostEnd \in Int /\ ctrEnd \in Int
  BY AnalysisAssumption DEF IInv, Shape
<1>2. UNCHANGED <<hostEnd, ctrEnd, before, got, pc, todo, this>>
  BY DEF windows
<1>3. Shape'
  BY <1>1, <1>2, AnalysisAssumption DEF IInv, Shape
<1>4. Control' /\ NotYet' /\ Samples'
  BY <1>2 DEF IInv, Control, NotYet, Samples, HasSamples
<1>5. ASSUME NEW R \in SUBSET Row, KeptOrExpired(R) PROVE KeptOrExpired(R)'
  <2> SUFFICES ASSUME NEW r \in R PROVE r \in rows' \/ r.ts + Retention < now'
    BY DEF KeptOrExpired
  <2>1. r.ts \in Int
    BY DEF Row
  <2>2. r \in rows \/ r.ts + Retention < now
    BY <1>5 DEF KeptOrExpired
  <2> QED
    BY <1>1, <2>1, <2>2
<1>6. got[Unique] # None => got[Unique] \in SUBSET Row
  BY ContainerQueries DEF IInv, Shape
<1>7. Retained'
  <2>1. KeptOrExpired(before)'
    BY <1>2, <1>5 DEF IInv, Shape, Retained, KeptOrExpired
  <2>2. ASSUME got[Unique] # None
        PROVE  KeptOrExpired(got[Unique])' /\ Labelled(got[Unique])'
    <3>1. KeptOrExpired(got[Unique]) /\ Labelled(got[Unique])
      BY <2>2 DEF IInv, Retained
    <3> QED
      BY <1>2, <1>5, <1>6, <2>2, <3>1 DEF KeptOrExpired, Labelled
  <2> QED
    BY <1>2, <2>1, <2>2 DEF Retained
<1>8. SeesWholeWindow'
  <2> SUFFICES ASSUME NEW q \in Query, got[q] # None
               PROVE  /\ \A r \in before :
                           Matches(r, q, WindowEnd(q)) /\ r.ts + Retention >= now'
                             => r \in got[q]
                      /\ \A r \in got[q] : Matches(r, q, WindowEnd(q))
    BY <1>2 DEF SeesWholeWindow, Matches, WindowEnd
  <2>1. \A r \in before : r.ts \in Int
    BY DEF IInv, Shape, Row
  <2> QED
    BY <1>1, <2>1 DEF IInv, SeesWholeWindow
<1>9. ListedSamplesCount'
  <2> SUFFICES ASSUME got[Unique] # None, NEW r \in got[Unique],
                      got[Of(CtrCPU, r.label)] # None, r.ts + Retention >= now'
               PROVE  r \in got[Of(CtrCPU, r.label)]
    BY <1>2 DEF ListedSamplesCount
  <2>1. r.ts \in Int
    BY <1>6 DEF Row
  <2> QED
    BY <1>1, <2>1 DEF IInv, ListedSamplesCount
<1> QED
  BY <1>3, <1>4, <1>7, <1>8, <1>9 DEF IInv

\* The rows of a batch.
LEMMA BatchesAreRows ==
  ASSUME now \in 0 .. MaxTime, NEW c \in Collectors, NEW some \in SUBSET Series(c)
  PROVE  LET b == {[name |-> s.name, label |-> s.label, ts |-> now] : s \in some}
         IN  b \subseteq Row /\ Labelled(b)
<1>1. \A s \in Series(c) :
        /\ s.name \in Name /\ s.label \in {Aggregate} \cup Core \cup Container
        /\ s.name = CtrCPU => s.label \in Container
  <2>1. \A n, l : Of(n, l).name = n /\ Of(n, l).label = l
    BY DEF Of
  <2>2. c \in {"cpu", "memory", "disk", "container"}
    BY DEF Collectors
  <2> QED
    BY <2>1, <2>2 DEF Series, Name, HostCPU, HostMemory, HostDisk, CtrCPU, CtrMemory
<1> QED
  BY <1>1 DEF Row, Labelled

LEMMA InvInit == Init => IInv
<1> SUFFICES ASSUME Init PROVE IInv
  OBVIOUS
<1>1. rows = {} /\ asked = [c \in Collectors |-> {}] /\ before = {}
      /\ now = 0 /\ batches = 0 /\ hostEnd = 0 /\ ctrEnd = 0 /\ pc = "ended"
      /\ todo = {} /\ this = None /\ got = [q \in Query |-> None]
  BY DEF Init, Store!Init
<1>2. Shape
  BY <1>1, AnalysisAssumption DEF Shape, Labelled
<1>3. \A q \in Query : got[q] = None
  BY <1>1
<1>4. Control /\ NotYet /\ Samples
  BY <1>1 DEF Control, NotYet, Samples
<1>5. Retained /\ SeesWholeWindow /\ ListedSamplesCount
  BY <1>1, <1>3, ContainerQueries
  DEF Retained, KeptOrExpired, SeesWholeWindow, ListedSamplesCount
<1> QED
  BY <1>2, <1>4, <1>5 DEF IInv

LEMMA InvAgent ==
  ASSUME IInv, \/ \E c \in Collectors : Submit(c) \/ WriteReturns(c)
               \/ Expire \/ ClockTick
  PROVE  IInv'
<1>1. /\ rows \subseteq Row /\ Labelled(rows) /\ now \in 0 .. MaxTime
      /\ asked \in [Collectors -> SUBSET Row]
      /\ \A c \in Collectors : Labelled(asked[c]) /\ asked[c] \subseteq Row
      /\ batches \in 0 .. MaxBatches /\ MaxBatches \in Nat /\ MaxTime \in Nat
  BY AnalysisAssumption DEF IInv, Shape
<1>2. ASSUME NEW c \in Collectors, Submit(c) PROVE IInv'
  <2>1. PICK some \in SUBSET Series(c) :
          asked' = [asked EXCEPT ![c] =
                      {[name |-> s.name, label |-> s.label, ts |-> now] : s \in some}]
    BY <1>2 DEF Submit
  <2>2. /\ asked' \in [Collectors -> SUBSET Row]
        /\ \A d \in Collectors : Labelled(asked'[d])
    BY <1>1, <2>1, BatchesAreRows
  <2>3. batches' = batches + 1 /\ batches < MaxBatches
        /\ UNCHANGED <<rows, now, pc, windows, todo, this, got>>
    BY <1>2 DEF Submit
  <2>4. batches' \in 0 .. MaxBatches
    BY <1>1, <2>3
  <2> QED
    BY <1>1, <2>2, <2>3, <2>4, AgentStep
<1>3. ASSUME NEW c \in Collectors, WriteReturns(c) PROVE IInv'
  <2>1. /\ UNCHANGED <<batches, now, pc, windows, todo, this, got>>
        /\ asked' = [asked EXCEPT ![c] = {}]
        /\ rows' = rows \cup asked[c] \/ rows' = rows
    BY <1>3 DEF WriteReturns, Store!Store, Store!Refuse
  <2>2. /\ asked' \in [Collectors -> SUBSET Row]
        /\ \A d \in Collectors : Labelled(asked'[d])
    BY <1>1, <2>1 DEF Labelled
  <2>3. rows' \subseteq Row /\ Labelled(rows') /\ rows \subseteq rows'
    BY <1>1, <2>1 DEF Labelled
  <2> QED
    BY <1>1, <2>1, <2>2, <2>3, AgentStep
<1>4. CASE Expire
  <2>1. PICK cutoff \in 0 .. now - Retention : rows' = {r \in rows : r.ts >= cutoff}
    BY <1>4 DEF Expire
  <2>2. UNCHANGED <<asked, batches, now, pc, windows, todo, this, got>>
    BY <1>4 DEF Expire
  <2>3. \A r \in rows : r \in rows' \/ r.ts + Retention < now
    <3> TAKE r \in rows
    <3>1. r.ts \in Int /\ Retention \in Int /\ cutoff \in Int
      BY <1>1, AnalysisAssumption DEF Row
    <3> QED
      BY <1>1, <2>1, <3>1
  <2>4. rows' \subseteq Row /\ Labelled(rows')
    BY <1>1, <2>1 DEF Labelled
  <2> QED
    BY <1>1, <2>2, <2>3, <2>4, AgentStep
<1>5. CASE ClockTick
  <2>1. now' = now + 1 /\ now < MaxTime
        /\ UNCHANGED <<rows, asked, batches, pc, windows, todo, this, got>>
    BY <1>5 DEF ClockTick, agent
  <2>2. now' \in 0 .. MaxTime /\ now <= now'
    BY <1>1, <2>1
  <2> QED
    BY <1>1, <2>1, <2>2, AgentStep
<1> QED
  BY <1>2, <1>3, <1>4, <1>5

-----------------------------------------------------------------------------
\* A step of the analysis without an answer.
LEMMA NoAnswerStep ==
  ASSUME IInv, UNCHANGED <<rows, now, windows, got>>
  PROVE  Retained' /\ SeesWholeWindow' /\ ListedSamplesCount'
<1>1. UNCHANGED <<rows, now, hostEnd, ctrEnd, before, got>>
  BY DEF windows
<1> QED
  BY <1>1 DEF IInv, Retained, KeptOrExpired, Labelled, SeesWholeWindow,
              ListedSamplesCount, WindowEnd, Matches

\* A step that leaves agent, clock and windows alone.
LEMMA StayShape ==
  ASSUME IInv, UNCHANGED <<agent, now, windows>>,
         got' \in [Query -> (SUBSET Row) \cup {None}]
  PROVE  Shape'
BY DEF IInv, Shape, agent, windows, Labelled

LEMMA InvNeeded ==
  ASSUME IInv,
         NEW name \in {HostCPU, HostMemory}, NEW at, NEW next, Needed(name, at, next),
         \/ name = HostCPU /\ at = "cpu" /\ next = "memory"
         \/ name = HostMemory /\ at = "memory" /\ next = "disk"
  PROVE  IInv'
<1> DEFINE q == Of(name, Any)
<1>1. q \in Query /\ q \in HostQuery /\ WindowEnd(q) = hostEnd /\ q # Unique
  <2>1. q \in Query /\ q \in HostQuery
    BY HostQueries
  <2> QED
    BY <2>1, ContainerQueries DEF WindowEnd
<1>2. pc = at /\ UNCHANGED <<agent, now, windows, todo, this>>
  BY DEF Needed
<1>3. UNCHANGED <<rows, now, windows>>
  BY <1>2 DEF agent
<1>4. CASE QueryMetrics(q, hostEnd) # {} /\ Answer(q, hostEnd) /\ pc' = next
  <2>1. /\ got' \in [Query -> (SUBSET Row) \cup {None}]
        /\ got'[q] = QueryMetrics(q, hostEnd)
        /\ \A p \in Query \ {q} : got'[p] = got[p]
        /\ SeesWholeWindow' /\ ListedSamplesCount' /\ Retained'
    BY <1>1, <1>3, <1>4, AnswerStep
  <2>2. Shape'
    BY <1>2, <2>1, StayShape
  <2>3. Control'
    BY <1>2, <1>4 DEF IInv, Control
  <2>4. NotYet'
    BY <1>1, <1>2, <1>4, <2>1 DEF IInv, NotYet
  <2>5. Samples'
    <3>1. got'[q] \notin {None, {}}
      BY <1>1, <1>4, <2>1, AnswersAreSamples DEF IInv, Shape
    <3>2. CASE name = HostCPU
      BY <1>2, <1>4, <3>1, <3>2 DEF Samples, HasSamples, HostCPU, HostMemory
    <3>3. CASE name = HostMemory
      <4>1. Of(HostCPU, Any) # q /\ Of(HostCPU, Any) \in Query
        <5>1. Of(HostCPU, Any).name = HostCPU /\ q.name = HostMemory
          BY <3>3 DEF Of
        <5> QED
          BY <5>1, HostQueries DEF HostCPU, HostMemory
      <4>2. HasSamples(HostCPU)
        BY <1>2, <3>3 DEF IInv, Samples, HostCPU, HostMemory
      <4>3. HasSamples(HostCPU)'
        BY <2>1, <4>1, <4>2 DEF HasSamples
      <4> QED
        BY <3>1, <3>3, <4>3 DEF Samples, HasSamples
    <3> QED
      BY <3>2, <3>3
  <2> QED
    BY <2>1, <2>2, <2>3, <2>4, <2>5 DEF IInv
<1>5. CASE UNCHANGED got /\ pc' = "ended"
  <2>1. Shape'
    BY <1>2, <1>5, StayShape DEF IInv, Shape
  <2>2. Control' /\ NotYet' /\ Samples'
    BY <1>2, <1>5 DEF IInv, Control, NotYet, Samples
  <2>3. Retained' /\ SeesWholeWindow' /\ ListedSamplesCount'
    BY <1>3, <1>5, NoAnswerStep
  <2> QED
    BY <2>1, <2>2, <2>3 DEF IInv
<1> QED
  BY <1>4, <1>5 DEF Needed

\* The samples of the host are not touched by later answers.
LEMMA SamplesStay ==
  ASSUME IInv, pc \notin {"ended", "cpu", "memory"},
         NEW q \in Query \ {Of(HostCPU, Any), Of(HostMemory, Any)},
         \A p \in Query \ {q} : got'[p] = got[p]
  PROVE  Samples'
<1>1. HasSamples(HostCPU) /\ HasSamples(HostMemory)
  BY DEF IInv, Samples
<1>2. Of(HostCPU, Any) \in Query \ {q} /\ Of(HostMemory, Any) \in Query \ {q}
  BY HostQueries
<1> QED
  BY <1>1, <1>2 DEF Samples, HasSamples

\* One query of those that may fail: its answer, or none.
LEMMA OptionalStep ==
  ASSUME IInv,
         NEW q \in Query \ {Of(HostCPU, Any), Of(HostMemory, Any)},
         Answer(q, WindowEnd(q)) \/ UNCHANGED got,
         UNCHANGED <<agent, now, windows>>,
         \/ pc = "disk" /\ pc' = "containers" /\ q \in HostQuery
         \/ /\ pc \in {"unique", "container"} /\ pc' \in {"container", "report"}
            /\ q \notin HostQuery /\ (q = Unique => pc = "unique")
  PROVE  /\ Shape' /\ NotYet' /\ Samples' /\ Retained'
         /\ SeesWholeWindow' /\ ListedSamplesCount'
<1>1. UNCHANGED <<rows, now, windows>>
  BY DEF agent
<1>2. CASE Answer(q, WindowEnd(q))
  <2>1. q = Unique => NotYet /\ pc = "unique"
    BY ContainerQueries DEF IInv
  <2>2. /\ got' \in [Query -> (SUBSET Row) \cup {None}]
        /\ \A p \in Query \ {q} : got'[p] = got[p]
        /\ SeesWholeWindow' /\ ListedSamplesCount' /\ Retained'
    BY <1>1, <1>2, <2>1, AnswerStep
  <2>3. Shape' /\ Samples'
    BY <2>2, StayShape, SamplesStay
  <2>4. NotYet'
    BY <2>2 DEF IInv, NotYet, Control
  <2> QED
    BY <2>2, <2>3, <2>4
<1>3. CASE UNCHANGED got
  <2>1. Shape'
    BY <1>3, StayShape DEF IInv, Shape
  <2>2. NotYet'
    BY <1>3 DEF IInv, NotYet, Control
  <2>3. Samples'
    BY <1>3 DEF IInv, Samples, HasSamples
  <2> QED
    BY <1>1, <1>3, <2>1, <2>2, <2>3, NoAnswerStep
<1> QED
  BY <1>2, <1>3

LEMMA InvQueryDisk == IInv /\ QueryDisk => IInv'
<1> SUFFICES ASSUME IInv, QueryDisk PROVE IInv'
  OBVIOUS
<1> DEFINE q == Of(HostDisk, Any)
<1>1. /\ pc = "disk" /\ pc' = "containers"
      /\ Answer(q, hostEnd) \/ UNCHANGED got
      /\ UNCHANGED <<agent, now, windows, todo, this>>
  BY DEF QueryDisk
<1>2. q \in Query /\ q \in HostQuery /\ WindowEnd(q) = hostEnd
  BY HostQueries DEF WindowEnd
<1>3. q \notin {Of(HostCPU, Any), Of(HostMemory, Any)}
  <2>1. q.name = HostDisk /\ Of(HostCPU, Any).name = HostCPU
        /\ Of(HostMemory, Any).name = HostMemory
    BY DEF Of
  <2> QED
    BY <2>1 DEF HostCPU, HostMemory, HostDisk
<1>4. Control'
  BY <1>1 DEF IInv, Control
<1> QED
  BY <1>1, <1>2, <1>3, <1>4, OptionalStep DEF IInv

LEMMA ContainerQueriesAreNotTheHost ==
  ASSUME NEW q \in Query \ HostQuery
  PROVE  /\ q \in Query \ {Of(HostCPU, Any), Of(HostMemory, Any)}
         /\ q \notin HostQuery /\ WindowEnd(q) = ctrEnd
BY HostQueries DEF WindowEnd

LEMMA InvUnique == IInv /\ GetUniqueContainers => IInv'
<1> SUFFICES ASSUME IInv, GetUniqueContainers PROVE IInv'
  OBVIOUS
<1>1. /\ pc = "unique" /\ pc' = IF todo' = {} THEN "report" ELSE "container"
      /\ \/ /\ Answer(Unique, ctrEnd)
            /\ todo' = {r.label : r \in QueryMetrics(Unique, ctrEnd)}
         \/ UNCHANGED <<got, todo>>
      /\ UNCHANGED <<agent, now, windows, this>>
  BY DEF GetUniqueContainers
<1>2. /\ Unique \in Query \ {Of(HostCPU, Any), Of(HostMemory, Any)}
      /\ Unique \notin HostQuery /\ WindowEnd(Unique) = ctrEnd
  BY ContainerQueries, ContainerQueriesAreNotTheHost
<1>3. todo = {} /\ this = None
  BY <1>1 DEF IInv, Control
<1>4. Control'
  <2>1. \A r \in QueryMetrics(Unique, ctrEnd) : r.label \in Container
    BY DEF QueryMetrics, Matches, Unique, Of, IInv, Shape, Labelled
  <2>2. todo' \subseteq Container
    BY <1>1, <1>3, <2>1
  <2> QED
    BY <1>1, <1>3, <2>2 DEF Control
<1> QED
  BY <1>1, <1>2, <1>4, OptionalStep DEF IInv

LEMMA InvContainerCPU ==
  ASSUME IInv, NEW c \in Container, ContainerCPU(c)
  PROVE  IInv'
<1> DEFINE q == Of(CtrCPU, c)
<1>1. /\ pc = "container" /\ this = None /\ c \in todo
      /\ \/ Answer(q, ctrEnd) /\ this' = c /\ UNCHANGED <<pc, todo>>
         \/ todo' = todo \ {c} /\ NextContainer /\ UNCHANGED <<got, this>>
      /\ UNCHANGED <<agent, now, windows>>
  BY DEF ContainerCPU
<1>2. q \in Query \ HostQuery /\ q # Unique
  BY ContainerQueries
<1>3. /\ q \in Query \ {Of(HostCPU, Any), Of(HostMemory, Any)}
      /\ q \notin HostQuery /\ WindowEnd(q) = ctrEnd
  BY <1>2, ContainerQueriesAreNotTheHost
<1>4. pc' \in {"container", "report"} /\ Control'
  BY <1>1 DEF IInv, Control, NextContainer
<1> QED
  BY <1>1, <1>2, <1>3, <1>4, OptionalStep DEF IInv

LEMMA InvContainerMemory == IInv /\ ContainerMemory => IInv'
<1> SUFFICES ASSUME IInv, ContainerMemory PROVE IInv'
  OBVIOUS
<1> DEFINE q == Of(CtrMemory, this)
<1>1. /\ this # None
      /\ Answer(q, ctrEnd) \/ UNCHANGED got
      /\ todo' = todo \ {this} /\ this' = None /\ NextContainer
      /\ UNCHANGED <<agent, now, windows>>
  BY DEF ContainerMemory
<1>2. this \in Container /\ this \in todo /\ pc = "container"
  BY <1>1 DEF IInv, Control
<1>3. q \in Query \ HostQuery /\ q # Unique
  BY <1>2, ContainerQueries
<1>4. /\ q \in Query \ {Of(HostCPU, Any), Of(HostMemory, Any)}
      /\ q \notin HostQuery /\ WindowEnd(q) = ctrEnd
  BY <1>3, ContainerQueriesAreNotTheHost
<1>5. pc' \in {"container", "report"} /\ Control'
  BY <1>1 DEF IInv, Control, NextContainer
<1> QED
  BY <1>1, <1>2, <1>3, <1>4, <1>5, OptionalStep DEF IInv

LEMMA InvStart == IInv /\ AnalyzePeriod => IInv'
<1> SUFFICES ASSUME IInv, AnalyzePeriod PROVE IInv'
  OBVIOUS
<1>1. /\ pc = "ended" /\ pc' = "cpu" /\ hostEnd' = now /\ before' = rows
      /\ got' = [q \in Query |-> None]
      /\ UNCHANGED <<rows, asked, batches, now, ctrEnd, todo, this>>
  BY DEF AnalyzePeriod, agent
<1>2. \A q \in Query : got'[q] = None
  BY <1>1
<1>3. Shape'
  BY <1>1 DEF IInv, Shape, Labelled
<1>4. Control' /\ NotYet' /\ Samples'
  BY <1>1, <1>2 DEF IInv, Control, NotYet, Samples
<1>5. Retained' /\ SeesWholeWindow' /\ ListedSamplesCount'
  BY <1>1, <1>2, ContainerQueries
  DEF Retained, KeptOrExpired, SeesWholeWindow, ListedSamplesCount
<1> QED
  BY <1>3, <1>4, <1>5 DEF IInv

LEMMA InvAnalyzeContainers == IInv /\ AnalyzeContainers => IInv'
<1> SUFFICES ASSUME IInv, AnalyzeContainers PROVE IInv'
  OBVIOUS
<1>1. /\ pc = "containers" /\ pc' = "unique" /\ ctrEnd' = now
      /\ UNCHANGED <<rows, asked, batches, now, hostEnd, before, todo, this, got>>
  BY DEF AnalyzeContainers, agent
<1>2. \A q \in Query \ HostQuery : got[q] = None
  BY <1>1 DEF IInv, NotYet
<1>3. Shape'
  BY <1>1 DEF IInv, Shape, Labelled
<1>4. Control' /\ NotYet' /\ Samples'
  BY <1>1, <1>2 DEF IInv, Control, NotYet, Samples, HasSamples
<1>5. Retained' /\ ListedSamplesCount'
  BY <1>1 DEF IInv, Retained, KeptOrExpired, Labelled, ListedSamplesCount
<1>6. SeesWholeWindow'
  <2> SUFFICES ASSUME NEW q \in Query, got[q] # None
               PROVE  /\ \A r \in before :
                           Matches(r, q, hostEnd) /\ r.ts + Retention >= now => r \in got[q]
                      /\ \A r \in got[q] : Matches(r, q, hostEnd)
    BY <1>1, <1>2 DEF SeesWholeWindow, WindowEnd, Matches
  <2>1. q \in HostQuery
    BY <1>2
  <2> QED
    BY <2>1 DEF IInv, SeesWholeWindow, WindowEnd
<1> QED
  BY <1>3, <1>4, <1>5, <1>6 DEF IInv

LEMMA InvReport == IInv /\ Report => IInv'
<1> SUFFICES ASSUME IInv, Report PROVE IInv'
  OBVIOUS
<1>1. /\ pc = "report" /\ pc' = "ended"
      /\ UNCHANGED <<agent, now, windows, todo, this, got>>
  BY DEF Report
<1>2. Shape'
  BY <1>1, StayShape DEF IInv, Shape
<1>3. Control' /\ NotYet' /\ Samples'
  BY <1>1 DEF IInv, Control, NotYet, Samples
<1>4. Retained' /\ SeesWholeWindow' /\ ListedSamplesCount'
  BY <1>1, NoAnswerStep DEF agent
<1> QED
  BY <1>2, <1>3, <1>4 DEF IInv

LEMMA InvStep == IInv /\ [Next]_vars => IInv'
<1> SUFFICES ASSUME IInv, [Next]_vars PROVE IInv'
  OBVIOUS
<1>1. CASE AnalyzePeriod
  BY <1>1, InvStart
<1>2. CASE QueryCPU \/ QueryMemory
  BY <1>2, InvNeeded DEF QueryCPU, QueryMemory
<1>3. CASE QueryDisk
  BY <1>3, InvQueryDisk
<1>4. CASE AnalyzeContainers
  BY <1>4, InvAnalyzeContainers
<1>5. CASE GetUniqueContainers
  BY <1>5, InvUnique
<1>6. CASE \E c \in Container : ContainerCPU(c)
  BY <1>6, InvContainerCPU
<1>7. CASE ContainerMemory
  BY <1>7, InvContainerMemory
<1>8. CASE Report
  BY <1>8, InvReport
<1>9. CASE \/ \E c \in Collectors : Submit(c) \/ WriteReturns(c)
           \/ Expire \/ ClockTick
  BY <1>9, InvAgent
<1>10. CASE UNCHANGED vars
  <2>1. UNCHANGED <<rows, asked, batches, now, pc, hostEnd, ctrEnd, before, todo, this, got>>
    BY <1>10 DEF vars, agent, windows
  <2> QED
    BY <2>1 DEF IInv, Shape, Control, NotYet, Samples, HasSamples, Retained,
                KeptOrExpired, Labelled, SeesWholeWindow, ListedSamplesCount,
                WindowEnd, Matches
<1> QED
  BY <1>1, <1>2, <1>3, <1>4, <1>5, <1>6, <1>7, <1>8, <1>9, <1>10 DEF Next, Analyze

LEMMA Invariance == Spec => []IInv
BY InvInit, InvStep, PTL DEF Spec

-----------------------------------------------------------------------------
(***************************************************************************)
(* Rows, windows, answers and the place of the analysis have their types;  *)
(* the container whose memory comes next is one of those left.             *)
(***************************************************************************)
THEOREM TypeCorrect == Spec => []TypeOK
<1>1. IInv => TypeOK
  BY DEF IInv, Shape, Control, TypeOK
<1> QED
  BY <1>1, Invariance, PTL

(***************************************************************************)
(* An analysis misses no row of its windows that was there when it began,  *)
(* but what has expired since, and takes none from outside, whatever the   *)
(* agent stores and deletes between its queries (analyzer.go:26-50,        *)
(* container_analyzer.go:61-83, sqlite.go:117-124).                        *)
(***************************************************************************)
THEOREM WholeWindowSeen == Spec => []SeesWholeWindow
<1>1. IInv => SeesWholeWindow
  BY DEF IInv
<1> QED
  BY <1>1, Invariance, PTL

(***************************************************************************)
(* The samples a container was listed for are in its statistics, unless    *)
(* they have expired (container_analyzer.go:73-86, 139-157).               *)
(***************************************************************************)
THEOREM ListedSamplesAreCounted == Spec => []ListedSamplesCount
<1>1. IInv => ListedSamplesCount
  BY DEF IInv
<1> QED
  BY <1>1, Invariance, PTL

(***************************************************************************)
(* A report has CPU and memory samples to stand on: the pointers of        *)
(* recommender.go:57-58 are never nil (analyzer.go:35-45, 80-83).          *)
(***************************************************************************)
THEOREM ReportsHaveSamples == Spec => []RecommendsFromSamples
<1>1. IInv => RecommendsFromSamples
  BY DEF IInv, Samples, HasSamples, RecommendsFromSamples
<1> QED
  BY <1>1, Invariance, PTL

-----------------------------------------------------------------------------
\* A call in progress is to store rows of the series of its collector.
AskedOwn ==
  \A c \in Collectors : \A r \in asked[c] : Of(r.name, r.label) \in Series(c)

\* No two collectors have a series in common.
LEMMA SeriesDisjoint ==
  ASSUME NEW c \in Collectors, NEW d \in Collectors, c # d
  PROVE  Series(c) \cap Series(d) = {}
<1>1. \A n, l : Of(n, l).name = n
  BY DEF Of
<1>2. \A s \in Series("cpu") : s.name = HostCPU
  BY <1>1 DEF Series
<1>3. \A s \in Series("memory") : s.name = HostMemory
  BY <1>1 DEF Series
<1>4. \A s \in Series("disk") : s.name = HostDisk
  BY <1>1 DEF Series
<1>5. \A s \in Series("container") : s.name \in {CtrCPU, CtrMemory}
  BY <1>1 DEF Series
<1> QED
  BY <1>2, <1>3, <1>4, <1>5
  DEF Collectors, HostCPU, HostMemory, HostDisk, CtrCPU, CtrMemory

\* A batch has not been seen before: it is of a new second of its series.
LEMMA SubmitRefines ==
  ASSUME IInv, AskedOwn, NEW c \in Collectors, Submit(c)
  PROVE  Store!Submit(c) /\ AskedOwn'
<1>1. PICK some \in (SUBSET Series(c)) \ {{}} :
        asked' = [asked EXCEPT ![c] =
                    {[name |-> s.name, label |-> s.label, ts |-> now] : s \in some}]
  BY DEF Submit
<1> DEFINE b == {[name |-> s.name, label |-> s.label, ts |-> now] : s \in some}
<1>2. asked \in [Collectors -> SUBSET Row] /\ rows \subseteq Row /\ now \in 0 .. MaxTime
  BY DEF IInv, Shape
<1>3. b \subseteq Row /\ b # {}
  BY <1>2, BatchesAreRows
<1>4. \A r \in b : r.ts = now /\ Of(r.name, r.label) \in Series(c)
  <2>1. \A s \in Series(c) : Of(s.name, s.label) = s
    BY DEF Series, Of, Collectors
  <2> QED
    BY <2>1
<1>5. asked' = [asked EXCEPT ![c] = b]
  BY <1>1
<1> HIDE DEF b
<1>6. b \cap rows = {}
  <2> SUFFICES ASSUME NEW r \in b, r \in rows PROVE FALSE
    OBVIOUS
  <2>1. r.ts = now /\ r.ts < now /\ now \in Int
    BY <1>2, <1>4 DEF Submit
  <2> QED
    BY <2>1
<1>7. \A d \in Collectors : b \cap asked[d] = {}
  <2> SUFFICES ASSUME NEW d \in Collectors, NEW r \in b, r \in asked[d] PROVE FALSE
    OBVIOUS
  <2>1. d # c
    BY DEF Submit
  <2> QED
    BY <1>4, <2>1, SeriesDisjoint DEF AskedOwn
<1>8. asked[c] = {} /\ rows' = rows
  BY DEF Submit
<1>9. AskedOwn'
  BY <1>2, <1>4, <1>5 DEF AskedOwn
<1> QED
  BY <1>3, <1>5, <1>6, <1>7, <1>8, <1>9 DEF Store!Submit

\* The rows that expire are the oldest.
LEMMA ExpireRefines ==
  ASSUME IInv, Expire
  PROVE  Store!Expire
<1>1. PICK cutoff \in 0 .. now - Retention : rows' = {r \in rows : r.ts >= cutoff}
  BY DEF Expire
<1>2. rows \subseteq Row /\ now \in Int /\ Retention \in Int
  BY AnalysisAssumption DEF IInv, Shape
<1>3. \A old \in rows \ rows', r \in rows' : old.ts < r.ts
  <2> TAKE old \in rows \ rows', r \in rows'
  <2>1. old.ts \in Int /\ r.ts \in Int /\ cutoff \in Int
    BY <1>1, <1>2 DEF Row
  <2> QED
    BY <1>1, <2>1
<1>4. rows' \in SUBSET rows /\ asked' = asked
  BY <1>1 DEF Expire
<1> QED
  BY <1>3, <1>4 DEF Store!Expire

LEMMA StoreStep ==
  IInv /\ AskedOwn /\ [Next]_vars => [Store!Next]_(Store!vars) /\ AskedOwn'
<1> SUFFICES ASSUME IInv, AskedOwn, [Next]_vars
             PROVE  [Store!Next]_(Store!vars) /\ AskedOwn'
  OBVIOUS
<1>1. CASE UNCHANGED agent
  BY <1>1 DEF agent, AskedOwn, Store!vars
<1>2. ASSUME NEW c \in Collectors, Submit(c)
      PROVE  [Store!Next]_(Store!vars) /\ AskedOwn'
  BY <1>2, SubmitRefines DEF Store!Next
<1>3. ASSUME NEW c \in Collectors, WriteReturns(c)
      PROVE  [Store!Next]_(Store!vars) /\ AskedOwn'
  <2>1. Store!Store(c) \/ Store!Refuse(c)
    BY <1>3 DEF WriteReturns
  <2>2. asked' = [asked EXCEPT ![c] = {}] /\ asked \in [Collectors -> SUBSET Row]
    BY <2>1 DEF Store!Store, Store!Refuse, IInv, Shape
  <2> QED
    BY <2>1, <2>2 DEF Store!Next, AskedOwn
<1>4. CASE Expire
  <2>1. asked' = asked
    BY <1>4 DEF Expire
  <2> QED
    BY <1>4, <2>1, ExpireRefines DEF Store!Next, AskedOwn
<1>5. CASE AnalyzePeriod \/ Analyze \/ ClockTick \/ UNCHANGED vars
  <2>1. UNCHANGED agent
    BY <1>5 DEF AnalyzePeriod, Analyze, ClockTick, QueryCPU, QueryMemory, QueryDisk,
       Needed, AnalyzeContainers, GetUniqueContainers, ContainerCPU, ContainerMemory,
       Report, vars
  <2> QED
    BY <1>1, <2>1
<1> QED
  BY <1>2, <1>3, <1>4, <1>5 DEF Next

(***************************************************************************)
(* An analysis only reads, and the agent beside it does nothing that the   *)
(* abstract store, which SQLiteStorage and Agent are proved to implement,  *)
(* would not do: batches are new and whole, and the oldest rows go first   *)
(* (analyzer.go:26-50, storage.go:10-22, sqlite.go:117-124, 173).          *)
(***************************************************************************)
THEOREM AnalysisReadsAMetricStore == Spec => Store!Spec
<1>1. Init => Store!Init /\ AskedOwn
  BY DEF Init, Store!Init, AskedOwn
<1>2. IInv /\ AskedOwn /\ [Next]_vars => [Store!Next]_(Store!vars) /\ AskedOwn'
  BY StoreStep
<1>3. Spec => Store!Init /\ [][Store!Next]_(Store!vars)
  BY <1>1, <1>2, Invariance, PTL DEF Spec
<1> QED
  BY <1>3 DEF Store!Spec
=============================================================================
