-------------------------- MODULE Arithmetic_proofs --------------------------
(***************************************************************************)
(* Proofs about Arithmetic: its computations for a word of any width,      *)
(* counters, pages and sizes without a bound but that of the word, any     *)
(* number of containers, and usage, headroom and memory in fractions of any*)
(* precision that are computed with an error of any bound.                 *)
(***************************************************************************)
EXTENDS Arithmetic, FiniteSetTheorems, WellFoundedInduction, TLAPS

\* An unsigned difference that is not negative does not wrap.
LEMMA MinusExact ==
  ASSUME NEW x \in Nat, NEW y \in Nat, y <= x, x < Modulus
  PROVE  Minus(x, y) = x - y
BY ModulusAssumption DEF Minus

-----------------------------------------------------------------------------
LEMMA CPUStep == CollectCPU => PercentagesAddUp'
<1> SUFFICES ASSUME NEW last \in [Fields -> 0 .. MaxJiffies],
                    NEW current \in [Fields -> 0 .. MaxJiffies],
                    \A f \in Fields \ {"iowait"} : current[f] >= last[f],
                    in' = [last |-> last, current |-> current],
                    out' = CalculateCPUUsage(last, current), out' # None
             PROVE  PercentagesAddUp'
  BY DEF CollectCPU, Compute, PercentagesAddUp
<1> DEFINE gain(f) == current[f] - last[f]
           growth == Total(current) - Total(last)
<1>1. MaxJiffies \in Nat /\ 5 * MaxJiffies < Modulus /\ Modulus \in Nat \ {0}
  BY ArithmeticAssumption, ModulusAssumption
<1>2. \A f \in Fields : /\ last[f] \in 0 .. MaxJiffies /\ current[f] \in 0 .. MaxJiffies
                        /\ gain(f) \in Int /\ gain(f) = Gain(f)'
                        /\ f # "iowait" => gain(f) >= 0
  BY <1>1 DEF Gain
<1>3. Fields = {"user", "system", "idle", "iowait", "other"}
  BY DEF Fields
<1>4. \A f \in Fields : gain(f) >= 0 => Minus(current[f], last[f]) = gain(f)
  BY <1>1, <1>2, MinusExact
<1>5. /\ Total(last) \in Nat /\ Total(current) \in Nat /\ Total(current) < Modulus
      /\ growth = gain("user") + gain("system") + gain("idle")
                    + gain("iowait") + gain("other")
  BY <1>1, <1>2, <1>3 DEF Total
<1>6. growth >= 0 => Minus(Total(current), Total(last)) = growth
  BY <1>5, MinusExact
<1>7. /\ out'.total = Minus(Total(current), Total(last)) /\ out'.total # 0
      /\ \A f \in Fields : out'.part[f] = Minus(current[f], last[f])
  BY DEF CalculateCPUUsage
<1>8. out'.total > 0
  <2>1. Minus(Total(current), Total(last)) \in Nat
    BY <1>1, <1>5 DEF Minus
  <2> QED
    BY <1>7, <2>1
<1>9. \A f \in Fields : gain(f) >= 0 => out'.part[f] = gain(f)
  BY <1>4, <1>7
<1> HIDE DEF gain, growth
<1>10. gain("user") + gain("system") + gain("other") + gain("iowait") >= 0 =>
         out'.total - out'.part["idle"] \in 0 .. out'.total
  BY <1>2, <1>3, <1>5, <1>6, <1>7, <1>9
<1>11. \A f \in Fields : out'.part[f] = gain(f) \/ (f = "iowait" /\ gain(f) < 0)
  BY <1>2, <1>9
<1>12. gain("iowait") >= 0 =>
         out'.part["user"] + out'.part["system"]
           + out'.part["idle"] + out'.part["iowait"] <= out'.total
  BY <1>2, <1>3, <1>5, <1>6, <1>7, <1>9
<1> QED
  BY <1>2, <1>3, <1>8, <1>10, <1>11, <1>12 DEF PercentagesAddUp

-----------------------------------------------------------------------------
LEMMA PercentIsOfSomething ==
  ASSUME NEW u, NEW total \in Int, UsagePercent(u, total) # None
  PROVE  /\ UsagePercent(u, total).part = u
         /\ UsagePercent(u, total).whole = total /\ total > 0
BY DEF UsagePercent, Share

\* The counters that are read are off by the pages that changed their kind;
\* no difference wraps if those are no more than the used ones.
LEMMA MemUsedNear ==
  ASSUME NEW m \in [Kinds -> 0 .. MaxPages], Pages(m) <= MaxPages,
         NEW a \in Kinds, NEW b \in Kinds, a # b, NEW n \in 0 .. m[a],
         NEW late \in {{}, {"cached"}, {"cached", "buffers"}, Counters},
         n <= m["used"]
  PROVE  LET u == MemUsed(Pages(m), MemInfo(m, Move(m, n, a, b), late))
         IN  u \in m["used"] - n .. m["used"] + n /\ u <= Pages(m)
<1> DEFINE info == MemInfo(m, Move(m, n, a, b), late)
<1>1. MaxPages \in Nat /\ MaxPages < Modulus /\ Modulus \in Nat
  BY ArithmeticAssumption, ModulusAssumption
<1>2. Kinds = {"used", "free", "buffers", "cached"}
  BY DEF Kinds, Counters
<1>3. /\ m["used"] \in Nat /\ m["free"] \in Nat /\ m["buffers"] \in Nat /\ m["cached"] \in Nat
      /\ n \in Nat /\ n <= m[a]
      /\ Pages(m) = m["used"] + m["free"] + m["buffers"] + m["cached"]
      /\ Pages(m) < Modulus
  BY <1>1, <1>2 DEF Pages
<1>4. \A k \in Kinds : Move(m, n, a, b)[k] =
        IF k = a THEN m[k] - n ELSE IF k = b THEN m[k] + n ELSE m[k]
  BY DEF Move
<1>5. \A c \in {"free", "buffers", "cached"} : info[c] =
        IF c \notin late THEN m[c]
        ELSE IF c = a THEN m[c] - n ELSE IF c = b THEN m[c] + n ELSE m[c]
  BY <1>2, <1>4 DEF MemInfo, Counters
<1> HIDE DEF info
<1>6. /\ info["free"] \in Nat /\ info["buffers"] \in Nat /\ info["cached"] \in Nat
      /\ info["free"] + info["buffers"] + info["cached"]
           \in Pages(m) - m["used"] - n .. Pages(m) - m["used"] + n
  BY <1>2, <1>3, <1>5 DEF Counters
<1>7. info["free"] + info["buffers"] + info["cached"] <= Pages(m)
  BY <1>3, <1>6
<1>8. MemUsed(Pages(m), info)
        = Pages(m) - info["free"] - info["buffers"] - info["cached"]
  <2> DEFINE x == Pages(m) - info["free"]
             y == x - info["buffers"]
  <2>1. Pages(m) \in Nat /\ info["free"] <= Pages(m)
    BY <1>3, <1>6, <1>7
  <2>2. x \in Nat /\ x < Modulus /\ info["buffers"] <= x
    BY <1>1, <1>3, <1>6, <1>7
  <2>3. y \in Nat /\ y < Modulus /\ info["cached"] <= y
    BY <1>1, <1>3, <1>6, <1>7
  <2>4. Minus(Pages(m), info["free"]) = x
    BY <1>3, <1>6, <2>1, MinusExact
  <2> HIDE DEF x
  <2>5. Minus(x, info["buffers"]) = y
    BY <1>6, <2>2, MinusExact
  <2> HIDE DEF y
  <2>6. Minus(y, info["cached"]) = y - info["cached"]
    BY <1>6, <2>3, MinusExact
  <2> QED
    BY <2>4, <2>5, <2>6 DEF MemUsed, x, y
<1> QED
  BY <1>3, <1>6, <1>8 DEF info

\* A reading of /proc/meminfo with its result.
MemoryRead(m, a, b, n, late) ==
  LET info == MemInfo(m, Move(m, n, a, b), late)
      used == MemUsed(Pages(m), info)
  IN  /\ a # b
      /\ Compute("memory", [used |-> m["used"], moved |-> n, total |-> Pages(m)],
                 [used |-> used, percent |-> UsagePercent(used, Pages(m))])

LEMMA CollectMemoryStep == CollectMemory => MemoryNearTruth'
<1> SUFFICES ASSUME CollectMemory PROVE MemoryNearTruth'
  OBVIOUS
<1>1. PICK m \in {x \in [Kinds -> 0 .. MaxPages] : Pages(x) <= MaxPages} :
        \E a, b \in Kinds : \E n \in 0 .. m[a] :
          \E late \in {{}, {"cached"}, {"cached", "buffers"}, Counters} :
            MemoryRead(m, a, b, n, late)
  BY DEF CollectMemory, MemoryRead
<1>2. PICK a \in Kinds : \E b \in Kinds : \E n \in 0 .. m[a] :
        \E late \in {{}, {"cached"}, {"cached", "buffers"}, Counters} :
          MemoryRead(m, a, b, n, late)
  BY <1>1
<1>3. PICK b \in Kinds, n \in 0 .. m[a],
           late \in {{}, {"cached"}, {"cached", "buffers"}, Counters} :
        MemoryRead(m, a, b, n, late)
  BY <1>2
<1> DEFINE u == MemUsed(Pages(m), MemInfo(m, Move(m, n, a, b), late))
           p == UsagePercent(u, Pages(m))
<1>4. /\ a # b /\ kind' = "memory"
      /\ in' = [used |-> m["used"], moved |-> n, total |-> Pages(m)]
      /\ out' = [used |-> u, percent |-> p]
  BY <1>3 DEF Compute, MemoryRead
<1>5. Pages(m) \in Int
  BY ArithmeticAssumption DEF Pages, Kinds, Counters
<1>6. n <= m["used"] => u \in m["used"] - n .. m["used"] + n /\ u <= Pages(m)
  BY <1>4, MemUsedNear
<1>7. p # None => p.part = u /\ p.whole = Pages(m) /\ Pages(m) > 0
  BY <1>5, PercentIsOfSomething
<1> HIDE DEF u, p
<1> QED
  BY <1>4, <1>6, <1>7 DEF MemoryNearTruth

LEMMA CollectSwapStep == CollectSwap => MemoryNearTruth'
<1> SUFFICES ASSUME NEW total \in 0 .. MaxPages, NEW free \in 0 .. total,
                    Compute("memory", [used |-> total - free, moved |-> 0, total |-> total],
                            [used |-> SwapUsed(total, free),
                             percent |-> UsagePercent(SwapUsed(total, free), total)])
             PROVE  MemoryNearTruth'
  BY DEF CollectSwap
<1>1. total \in Nat /\ free \in Nat /\ free <= total /\ total < Modulus
  BY ArithmeticAssumption, ModulusAssumption
<1>2. SwapUsed(total, free) = total - free
  BY <1>1, MinusExact DEF SwapUsed
<1> DEFINE p == UsagePercent(total - free, total)
<1>3. /\ kind' = "memory"
      /\ in' = [used |-> total - free, moved |-> 0, total |-> total]
      /\ out' = [used |-> total - free, percent |-> p]
  BY <1>2 DEF Compute
<1>4. p # None => p.part = total - free /\ p.whole = total /\ total > 0
  BY <1>1, PercentIsOfSomething
<1> HIDE DEF p
<1> QED
  BY <1>1, <1>3, <1>4 DEF MemoryNearTruth

LEMMA CollectContainerMemoryStep == CollectContainerMemory => MemoryNearTruth'
<1> SUFFICES ASSUME NEW limit \in {Unlimited} \cup 0 .. MaxPages,
                    NEW current \in 0 .. IF limit = Unlimited THEN MaxPages ELSE limit,
                    Compute("memory", [used |-> current, moved |-> 0, total |-> current],
                            [used |-> current,
                             percent |-> ContainerUsagePercent(current, limit)])
             PROVE  MemoryNearTruth'
  BY DEF CollectContainerMemory
<1>1. limit \in Int /\ current \in Nat /\ (limit # Unlimited => current <= limit)
  BY ArithmeticAssumption DEF Unlimited
<1> DEFINE p == ContainerUsagePercent(current, limit)
<1>2. /\ kind' = "memory"
      /\ in' = [used |-> current, moved |-> 0, total |-> current]
      /\ out' = [used |-> current, percent |-> p]
  BY DEF Compute
<1>3. p # None => limit # Unlimited /\ p.part = current /\ p.whole = limit /\ limit > 0
  BY <1>1, PercentIsOfSomething DEF ContainerUsagePercent
<1> HIDE DEF p
<1> QED
  BY <1>1, <1>2, <1>3 DEF MemoryNearTruth

-----------------------------------------------------------------------------
LEMMA Division ==
  ASSUME NEW n \in Int, NEW d \in Nat \ {0}
  PROVE  /\ n \div d \in Int /\ n % d \in 0 .. d - 1
         /\ n = d * (n \div d) + (n % d)
OBVIOUS

LEMMA CeilBounds ==
  ASSUME NEW n \in Int, NEW d \in Nat \ {0}
  PROVE  Ceil(n, d) \in Int /\ Ceil(n, d) * d >= n /\ (Ceil(n, d) - 1) * d < n
<1> DEFINE q == n \div d
           r == n % d
           t == d * q
<1>1. q \in Int /\ r \in Int /\ 0 <= r /\ r < d /\ n = t + r /\ t \in Int
  BY Division
<1>2. Ceil(n, d) = IF r = 0 THEN q ELSE q + 1
  BY DEF Ceil
<1> HIDE DEF q, r
<1>3. q * d = t /\ (q + 1) * d = t + d /\ (q - 1) * d = t - d
  BY <1>1
<1> HIDE DEF t
<1> QED
  BY <1>1, <1>2, <1>3

\* Products with d are in the order of the factors.
LEMMA ProductOrder ==
  ASSUME NEW d \in Nat \ {0}, NEW x \in Int, NEW y \in Int
  PROVE  (x <= y => x * d <= y * d) /\ (x * d < y * d => x < y)
<1>1. ASSUME NEW a \in Int, NEW b \in Int, a <= b PROVE a * d <= b * d
  BY <1>1
<1>2. x * d \in Int /\ y * d \in Int
  OBVIOUS
<1>3. y <= x => y * d <= x * d
  BY <1>1
<1> QED
  BY <1>1, <1>2, <1>3

\* The rounding of float64 leaves numbers in their order, by its bounds.
LEMMA RoundingIsMonotone ==
  ASSUME NEW a \in Nat, NEW b \in Nat, a <= b
  PROVE  /\ Least(a) \in Int /\ Least(b) \in Int /\ Least(a) <= Least(b)
         /\ Most(a) \in Int /\ Most(b) \in Int /\ Most(a) <= Most(b)
<1> DEFINE u == Ulp
           x == Ceil(a, u)
           y == Ceil(b, u)
           k == b - a
<1>1. u \in Nat \ {0} /\ k \in Nat
  BY SizingAssumption
<1>2. x \in Int /\ y \in Int /\ x * u >= a /\ y * u >= b /\ (x - 1) * u < a /\ (y - 1) * u < b
  BY <1>1, CeilBounds
<1> HIDE DEF u, x, y
<1>3. x <= y
  <2>1. (x - 1) * u \in Int /\ y * u \in Int /\ (x - 1) * u < y * u
    BY <1>1, <1>2
  <2>2. x - 1 < y
    BY <1>1, <1>2, <2>1, ProductOrder
  <2> QED
    BY <1>2, <2>2
<1>4. y - x <= k
  <2>1. (x + k) * u = x * u + k * u /\ k * u >= k /\ x * u \in Int /\ k * u \in Int
    BY <1>1, <1>2
  <2>2. (y - 1) * u \in Int /\ (y - 1) * u < (x + k) * u
    BY <1>1, <1>2, <2>1
  <2>3. y - 1 < x + k
    BY <1>1, <1>2, <2>2, ProductOrder
  <2> QED
    BY <1>1, <1>2, <2>3
<1>5. Least(a) = a - x /\ Least(b) = b - y /\ Most(a) = a + x /\ Most(b) = b + y
  BY DEF Least, Most, x, y, u
<1> QED
  BY <1>1, <1>2, <1>3, <1>4, <1>5

\* What math.Ceil can give for n / d.
Rounded(s, n, d) == s \in Int /\ s * d >= Least(n) /\ (s - 1) * d < Most(n)

LEMMA CeilFloatBounds ==
  ASSUME NEW n \in Nat, NEW d \in Nat \ {0}, NEW s \in CeilFloat(n, d)
  PROVE  Rounded(s, n, d)
<1> DEFINE l == Ceil(Least(n), d)
           m == Ceil(Most(n), d)
<1>1. Least(n) \in Int /\ Most(n) \in Int
  BY RoundingIsMonotone
<1>2. l \in Int /\ m \in Int /\ l * d >= Least(n) /\ (m - 1) * d < Most(n)
  BY <1>1, CeilBounds
<1>3. s \in Int /\ l <= s /\ s - 1 <= m - 1
  BY <1>2 DEF CeilFloat
<1> HIDE DEF l, m
<1>4. l * d <= s * d /\ (s - 1) * d <= (m - 1) * d
  BY <1>2, <1>3, ProductOrder
<1>5. l * d \in Int /\ s * d \in Int /\ (s - 1) * d \in Int /\ (m - 1) * d \in Int
  BY <1>2, <1>3
<1> QED
  BY <1>1, <1>2, <1>3, <1>4, <1>5 DEF Rounded

\* Products of c are in the order of the other factors.
LEMMA UsageBounds ==
  ASSUME NEW c \in Nat, NEW p \in Nat, NEW b \in Nat
  PROVE  /\ p >= b => c * p >= c * b
         /\ p <= b => c * p <= c * b
OBVIOUS

\* A higher usage needs no less.
LEMMA NeedIsMonotone ==
  ASSUME NEW c \in Nat, NEW h \in Nat, NEW p \in Nat, NEW b \in Nat, p <= b
  PROVE  Need(c, p, h) \in Nat /\ Need(c, b, h) \in Nat /\ Need(c, p, h) <= Need(c, b, h)
<1> DEFINE k == 100 * Precision + h
           m == k * c
<1>1. k \in Nat /\ m \in Nat
  BY SizingAssumption
<1>2. Need(c, p, h) = (c * p) * k /\ Need(c, b, h) = (c * b) * k
  BY DEF Need
<1> HIDE DEF k
<1>3. (c * p) * k = m * p /\ (c * b) * k = m * b
  BY <1>1
<1> HIDE DEF m
<1>4. m * p \in Nat /\ m * b \in Nat /\ m * p <= m * b
  BY <1>1, UsageBounds
<1> QED
  BY <1>2, <1>3, <1>4

\* What is rounded from the need of p, beside what the usage b needs.
LEMMA RoundedAgrees ==
  ASSUME NEW c \in Nat, NEW h \in Nat, NEW p \in Nat, NEW b \in Nat,
         NEW d \in Nat \ {0}, NEW s, Rounded(s, Need(c, p, h), d), NEW y \in Int
  PROVE  /\ b <= p /\ Least(Need(c, b, h)) > y => s * d > y
         /\ p <= b /\ Most(Need(c, b, h)) <= y => (s - 1) * d < y
<1> DEFINE n == Need(c, p, h)
           t == Need(c, b, h)
<1>1. s \in Int /\ s * d >= Least(n) /\ (s - 1) * d < Most(n)
  BY DEF Rounded
<1>2. s * d \in Int /\ (s - 1) * d \in Int
  BY <1>1
<1>3. n \in Nat /\ t \in Nat /\ (b <= p => t <= n) /\ (p <= b => n <= t)
  <2>1. CASE b <= p
    <3>1. n \in Nat /\ t \in Nat /\ t <= n
      BY <2>1, NeedIsMonotone
    <3>2. p <= b => p = b
      BY <2>1
    <3> QED
      BY <3>1, <3>2
  <2>2. CASE p < b
    <3>1. p <= b /\ ~(b <= p)
      BY <2>2
    <3> QED
      BY <3>1, NeedIsMonotone
  <2> QED
    BY <2>1, <2>2
<1> HIDE DEF n, t
<1>4. /\ Least(n) \in Int /\ Least(t) \in Int /\ Most(n) \in Int /\ Most(t) \in Int
      /\ b <= p => Least(t) <= Least(n)
      /\ p <= b => Most(n) <= Most(t)
  BY <1>3, RoundingIsMonotone
<1> QED
  BY <1>1, <1>2, <1>4 DEF t

LEMMA UnitsArePositive ==
  /\ Precision \in Nat \ {0} /\ Whole \in Nat \ {0} /\ Precision * Whole \in Nat \ {0}
<1>1. Precision \in Nat \ {0}
  BY SizingAssumption
<1>2. Precision * Precision \in Nat \ {0}
  BY <1>1
<1>3. Whole = 10000 * (Precision * Precision)
  BY <1>1 DEF Whole
<1>4. Whole \in Nat \ {0}
  BY <1>2, <1>3
<1> HIDE DEF Whole
<1>5. Precision * Whole \in Nat \ {0}
  BY <1>1, <1>4
<1> QED
  BY <1>1, <1>4, <1>5

LEMMA SizeCPUStep == SizeCPU => HeadroomIsKept' /\ AdviceAgrees'
<1> SUFFICES ASSUME NEW p \in Usage, NEW h \in Headroom,
                    NEW flag \in {-1, 0}, NEW detected \in 1 .. MaxCores,
                    NEW size \in RecommendedCPUs(p, h, CurrentSize(flag, detected)),
                    Compute("cpus",
                            [p |-> p, headroom |-> h, current |-> CurrentSize(flag, detected)],
                            [size |-> size, advice |-> Advice(size, CurrentSize(flag, detected)),
                             observed |-> CPUObservation(p)])
             PROVE  HeadroomIsKept' /\ AdviceAgrees'
  BY DEF SizeCPU
<1> DEFINE current == CurrentSize(flag, detected)
<1>1. current \in Int /\ h \in Nat /\ p \in Nat
  BY ArithmeticAssumption DEF CurrentSize
<1>2. size \in RecommendedCPUs(p, h, current)
  OBVIOUS
<1>3. /\ kind' = "cpus" /\ in' = [p |-> p, headroom |-> h, current |-> current]
      /\ out' = [size |-> size, advice |-> Advice(size, current),
                 observed |-> CPUObservation(p)]
  BY DEF Compute
<1> HIDE DEF current
<1>4. HeadroomIsKept' /\ CPUAdviceAgrees'
  <2> DEFINE need == Need(current, p, h)
             low == Need(current, 30 * Precision, h)
             high == Need(current, 80 * Precision, h)
  <2> SUFFICES ASSUME current > 0
               PROVE  /\ size * Whole >= Least(need)
                      /\ (size - 1) * Whole < Most(need) \/ size = 1
                      /\ CPUObservation(p) = "heavy" /\ Least(high) > (current - 1) * Whole
                           => Advice(size, current) # "reduce"
                      /\ CPUObservation(p) = "underutilized" /\ Most(low) <= current * Whole
                           => Advice(size, current) # "increase"
    BY <1>3 DEF HeadroomIsKept, CPUAdviceAgrees
  <2>1. current \in Nat \ {0} /\ Whole \in Nat \ {0} /\ Precision \in Nat
    BY <1>1, UnitsArePositive
  <2>2. need \in Nat
    <3>1. p <= p
      BY <1>1
    <3> QED
      BY <1>1, <2>1, <3>1, NeedIsMonotone
  <2>3. PICK n \in CeilFloat(need, Whole) : size = AtLeastOne(n)
    BY <1>2 DEF RecommendedCPUs
  <2> HIDE DEF need, low, high
  <2>4. Rounded(n, need, Whole)
    BY <2>1, <2>2, CeilFloatBounds
  <2>5. n \in Int /\ size \in Nat \ {0} /\ (size = n \/ (size = 1 /\ n < 1))
    BY <2>3, <2>4 DEF Rounded, AtLeastOne
  <2>6. size * Whole >= Least(need)
    <3>1. n * Whole <= size * Whole
      BY <2>1, <2>5, ProductOrder
    <3>2. n * Whole \in Int /\ size * Whole \in Int /\ Least(need) \in Int
      BY <2>1, <2>2, <2>5, RoundingIsMonotone
    <3> QED
      BY <2>4, <3>1, <3>2 DEF Rounded
  <2>7. (size - 1) * Whole < Most(need) \/ size = 1
    BY <2>4, <2>5 DEF Rounded
  <2>8. ASSUME CPUObservation(p) = "heavy", Least(high) > (current - 1) * Whole
        PROVE  Advice(size, current) # "reduce"
    <3>1. 80 * Precision <= p /\ 80 * Precision \in Nat
      BY <1>1, <2>1, <2>8 DEF CPUObservation, Observation
    <3>2. n * Whole > (current - 1) * Whole
      BY <1>1, <2>1, <2>4, <2>8, <3>1, RoundedAgrees DEF need, high
    <3>3. n > current - 1
      BY <2>1, <2>5, <3>2, ProductOrder
    <3> QED
      BY <2>1, <2>5, <3>3 DEF Advice
  <2>9. ASSUME CPUObservation(p) = "underutilized", Most(low) <= current * Whole
        PROVE  Advice(size, current) # "increase"
    <3>1. p <= 30 * Precision /\ 30 * Precision \in Nat
      BY <1>1, <2>1, <2>9 DEF CPUObservation, Observation
    <3>2. (n - 1) * Whole < current * Whole
      BY <1>1, <2>1, <2>4, <2>9, <3>1, RoundedAgrees DEF need, low
    <3>3. n - 1 < current
      BY <2>1, <2>5, <3>2, ProductOrder
    <3> QED
      BY <2>1, <2>5, <3>3 DEF Advice
  <2> QED
    BY <2>6, <2>7, <2>8, <2>9
<1>5. MemoryAdviceAgrees' /\ InsightsAgree'
  BY <1>3 DEF MemoryAdviceAgrees, InsightsAgree
<1> QED
  BY <1>4, <1>5 DEF AdviceAgrees

LEMMA SizeMemoryStep == SizeMemory => HeadroomIsKept' /\ AdviceAgrees'
<1> SUFFICES ASSUME NEW p \in Usage, NEW h \in Headroom,
                    NEW detected \in DetectedMemory, NEW cpus \in {1, 2},
                    NEW size \in RecommendedMemory(p, h, CurrentSize(0, detected), cpus),
                    Compute("gigabytes",
                            [p |-> p, headroom |-> h, current |-> CurrentSize(0, detected)],
                            [size |-> size,
                             advice |-> Advice(Precision * size, CurrentSize(0, detected)),
                             observed |-> MemoryObservation(p)])
             PROVE  HeadroomIsKept' /\ AdviceAgrees'
  BY DEF SizeMemory
<1> DEFINE current == CurrentSize(0, detected)
<1>1. current \in Nat /\ h \in Nat /\ p \in Nat
  BY ArithmeticAssumption DEF CurrentSize, DetectedMemory
<1>2. size \in RecommendedMemory(p, h, current, cpus)
  OBVIOUS
<1>3. /\ kind' = "gigabytes" /\ in' = [p |-> p, headroom |-> h, current |-> current]
      /\ out' = [size |-> size, advice |-> Advice(Precision * size, current),
                 observed |-> MemoryObservation(p)]
  BY DEF Compute
<1> HIDE DEF current
<1>4. HeadroomIsKept' /\ MemoryAdviceAgrees'
  <2> DEFINE unit == Precision * Whole
             spare == current - Precision
             need == Need(current, p, h)
             low == Need(current, 40 * Precision, h)
             high == Need(current, 85 * Precision, h)
  <2> SUFFICES ASSUME current > 0
               PROVE  /\ size * unit >= Least(need) /\ (size - 1) * unit < Most(need)
                      /\ MemoryObservation(p) = "heavy" /\ Least(high) > spare * Whole
                           => Precision * size > spare
                      /\ MemoryObservation(p) = "underutilized" /\ Most(low) <= spare * Whole
                           => Advice(Precision * size, current) # "increase"
    BY <1>3 DEF HeadroomIsKept, MemoryAdviceAgrees
  <2>1. /\ current \in Nat \ {0} /\ Whole \in Nat \ {0} /\ Precision \in Nat \ {0}
        /\ unit \in Nat \ {0} /\ spare \in Int
    BY <1>1, UnitsArePositive
  <2>2. need \in Nat
    <3>1. p <= p
      BY <1>1
    <3> QED
      BY <1>1, <2>1, <3>1, NeedIsMonotone
  <2>3. size \in CeilFloat(need, unit)
    BY <1>2 DEF RecommendedMemory
  <2>4. /\ \A s \in Int : s * unit = (Precision * s) * Whole
        /\ spare * Whole \in Int
    BY <2>1
  <2> HIDE DEF need, low, high, unit
  <2>5. Rounded(size, need, unit)
    BY <2>1, <2>2, <2>3, CeilFloatBounds
  <2>6. size \in Int /\ size * unit >= Least(need) /\ (size - 1) * unit < Most(need)
    BY <2>5 DEF Rounded
  <2>7. ASSUME MemoryObservation(p) = "heavy", Least(high) > spare * Whole
        PROVE  Precision * size > spare
    <3>1. 85 * Precision <= p /\ 85 * Precision \in Nat
      BY <1>1, <2>1, <2>7 DEF MemoryObservation, Observation
    <3>2. size * unit > spare * Whole
      BY <1>1, <2>1, <2>4, <2>5, <2>7, <3>1, RoundedAgrees DEF need, high
    <3>3. (Precision * size) * Whole > spare * Whole /\ Precision * size \in Int
      <4>1. size * unit = (Precision * size) * Whole
        BY <2>4, <2>6
      <4> QED
        BY <2>1, <2>6, <3>2, <4>1
    <3> QED
      BY <2>1, <3>3, ProductOrder
  <2>8. ASSUME MemoryObservation(p) = "underutilized", Most(low) <= spare * Whole
        PROVE  Advice(Precision * size, current) # "increase"
    <3>1. p <= 40 * Precision /\ 40 * Precision \in Nat
      BY <1>1, <2>1, <2>8 DEF MemoryObservation, Observation
    <3>2. (size - 1) * unit < spare * Whole
      BY <1>1, <2>1, <2>4, <2>5, <2>8, <3>1, RoundedAgrees DEF need, low
    <3>3. /\ (Precision * (size - 1)) * Whole < spare * Whole
          /\ Precision * (size - 1) \in Int /\ Precision * size \in Int
          /\ Precision * (size - 1) = Precision * size - Precision
      <4>1. Precision \in Int /\ size \in Int /\ size - 1 \in Int
        BY <2>1, <2>6
      <4>2. (size - 1) * unit = (Precision * (size - 1)) * Whole
        BY <2>4, <4>1
      <4>3. Precision * (size - 1) = Precision * size - Precision
        BY <4>1
      <4> QED
        BY <3>2, <4>1, <4>2, <4>3
    <3>4. Precision * (size - 1) < spare
      BY <2>1, <3>3, ProductOrder
    <3>5. Precision * size < current
      BY <1>1, <2>1, <3>3, <3>4
    <3> QED
      BY <1>1, <3>3, <3>5 DEF Advice
  <2> QED
    BY <2>6, <2>7, <2>8
<1>5. CPUAdviceAgrees' /\ InsightsAgree'
  BY <1>3 DEF CPUAdviceAgrees, InsightsAgree
<1> QED
  BY <1>4, <1>5 DEF AdviceAgrees

-----------------------------------------------------------------------------
\* A set of some of the sizes in a table has a smallest one.
LEMMA SmallestExists ==
  ASSUME NEW S, S # {}, S \subseteq {1, 2, 4, 8} \/ S \subseteq {2, 4, 8, 16}
  PROVE  Smallest(S) # {}
<1>1. CASE S \subseteq {1, 2, 4, 8}
  BY <1>1 DEF Smallest
<1>2. CASE S \subseteq {2, 4, 8, 16}
  BY <1>2 DEF Smallest
<1> QED
  BY <1>1, <1>2

LEMMA TypesExist ==
  ASSUME NEW series, NEW S, S # {}, S \subseteq {1, 2, 4, 8} \/ S \subseteq {2, 4, 8, 16}
  PROVE  Types(series, S) # {}
BY SmallestExists DEF Types

LEMMA OTCExist ==
  ASSUME NEW cpus \in 1 .. 8, NEW memory \in Nat
  PROVE  SuggestOTC(cpus, memory) # {}
<1> DEFINE S == {n \in {2, 4, 8} : cpus <= n}
           T == {n \in {1, 2, 4, 8} : cpus <= n}
<1>1. 8 \in S /\ 8 \in T
  OBVIOUS
<1>2. S # {} /\ T # {} /\ S \subseteq {1, 2, 4, 8} /\ T \subseteq {1, 2, 4, 8}
  BY <1>1
<1>3. Types("c3", S) # {} /\ Types("m3", S) # {} /\ Types("s3", T) # {}
  <2> HIDE DEF S, T
  <2> QED
    BY <1>2, TypesExist
<1> QED
  BY <1>3 DEF SuggestOTC

LEMMA AWSExist ==
  ASSUME NEW cpus \in 1 .. 8, NEW memory \in Nat, memory <= 4 * cpus, NEW burstable
  PROVE  SuggestAWS(cpus, memory, burstable) # {}
<1> DEFINE T == {n \in {2, 4, 8} : cpus <= n /\ memory <= 4 * n}
           C == {n \in {2, 4, 8, 16} : cpus <= n}
           M == {n \in {2, 4, 8, 16} : cpus <= n /\ memory <= 4 * n}
<1>1. 8 \in T /\ 8 \in C /\ 8 \in M
  OBVIOUS
<1>2. /\ T # {} /\ C # {} /\ M # {}
      /\ T \subseteq {1, 2, 4, 8} /\ C \subseteq {2, 4, 8, 16} /\ M \subseteq {2, 4, 8, 16}
  BY <1>1
<1>3. Types("t3", T) # {} /\ Types("c5", C) # {} /\ Types("m5", M) # {}
  <2> HIDE DEF T, C, M
  <2> QED
    BY <1>2, TypesExist
<1> QED
  BY <1>3 DEF SuggestAWS

LEMMA SuggestStep == SuggestInstances => TablesHaveNoGaps'
<1> SUFFICES ASSUME NEW cpus \in 1 .. MaxCores, NEW memory \in 0 .. MaxGigabytes,
                    NEW pattern \in {"steady", "bursty", "scheduled"},
                    Compute("instances",
                            [cpus |-> cpus, memory |-> memory, pattern |-> pattern],
                            Suggestions(pattern, cpus, memory))
             PROVE  TablesHaveNoGaps'
  BY DEF SuggestInstances
<1>1. /\ kind' = "instances"
      /\ in' = [cpus |-> cpus, memory |-> memory, pattern |-> pattern]
      /\ out' = Suggestions(pattern, cpus, memory)
  BY DEF Compute
<1>2. ASSUME cpus <= 8, memory <= 4 * cpus
      PROVE  out'.OTC # {} /\ (pattern # "scheduled" => out'.AWS # {})
  <2>1. cpus \in 1 .. 8 /\ memory \in Nat
    BY <1>2, ArithmeticAssumption
  <2>2. /\ out'.OTC = SuggestOTC(cpus, memory)
        /\ pattern # "scheduled" => out'.AWS = SuggestAWS(cpus, memory, pattern = "bursty")
    BY <1>1 DEF Suggestions
  <2> QED
    BY <1>2, <2>1, <2>2, OTCExist, AWSExist
<1> QED
  BY <1>1, <1>2 DEF TablesHaveNoGaps

-----------------------------------------------------------------------------
\* The first in any order that sort.Slice may give is the heaviest.
LEMMA FirstIsHeaviest ==
  ASSUME NEW S, IsFiniteSet(S), S # {}, NEW p95 \in [S -> Nat], NEW order \in TopN(p95)
  PROVE  /\ Cardinality(S) \in Nat \ {0} /\ Len(order) = Cardinality(S)
         /\ order \in [1 .. Cardinality(S) -> S]
         /\ \A c \in S : p95[c] <= p95[order[1]]
<1> DEFINE n == Cardinality(S)
<1>1. n \in Nat \ {0}
  BY FS_CardinalityType, FS_EmptySet
<1>2. /\ order \in [1 .. n -> S]
      /\ \A i, j \in 1 .. n : i < j => order[i] # order[j] /\ p95[order[i]] >= p95[order[j]]
  BY DEF TopN
<1> HIDE DEF n
<1>3. order \in Injection(1 .. n, S)
  BY <1>1, <1>2 DEF Injection, IsInjective
<1>4. Cardinality(1 .. n) = n
  BY <1>1, FS_Interval
<1>5. order \in Surjection(1 .. n, S)
  BY <1>3, <1>4, FS_Injection DEF n
<1>6. \A c \in S : \E i \in 1 .. n : order[i] = c
  BY <1>5 DEF Surjection
<1>7. \A i \in 1 .. n : order[i] \in S /\ p95[order[i]] \in Nat
  BY <1>2
<1>8. \A c \in S : p95[c] <= p95[order[1]]
  <2> SUFFICES ASSUME NEW i \in 1 .. n PROVE p95[order[i]] <= p95[order[1]]
    BY <1>6
  <2>1. 1 \in 1 .. n /\ (i = 1 \/ 1 < i)
    BY <1>1
  <2> QED
    BY <1>2, <1>7, <2>1
<1>9. Len(order) = n
  BY <1>1, <1>2
<1> QED
  BY <1>1, <1>2, <1>8, <1>9 DEF n

LEMMA CompareStep == CompareContainers => AdviceAgrees'
<1> SUFFICES ASSUME NEW some \in (SUBSET Containers) \ {{}},
                    NEW p95 \in [some -> 0 .. MaxValue], NEW host \in 0 .. MaxValue,
                    NEW order \in TopN(p95),
                    \/ \E cores \in 1 .. MaxCores :
                         Compute("containers", [p95 |-> p95, host |-> host, cores |-> cores],
                                 CPUInsight(p95, host, order))
                    \/ Compute("containers", [p95 |-> p95, host |-> host],
                               MemoryInsight(p95, host, order))
             PROVE  AdviceAgrees'
  BY DEF CompareContainers
<1>1. /\ kind' = "containers" /\ in'.p95 = p95 /\ in'.host = host
      /\ out' = CPUInsight(p95, host, order) \/ out' = MemoryInsight(p95, host, order)
  BY DEF Compute
<1>2. IsFiniteSet(some) /\ some # {} /\ p95 \in [some -> Nat] /\ DOMAIN p95 = some
  BY ArithmeticAssumption, FS_Subset
<1> DEFINE n == Cardinality(some)
<1>3. /\ n \in Nat \ {0} /\ Len(order) = n /\ order \in [1 .. n -> some]
      /\ \A c \in some : p95[c] <= p95[order[1]]
  BY <1>2, FirstIsHeaviest
<1> HIDE DEF n
<1>4. out'.named = order[1]
  <2>1. CPUInsight(p95, host, order).named = order[1]
    BY DEF CPUInsight
  <2>2. MemoryInsight(p95, host, order).named = order[1]
    BY DEF MemoryInsight
  <2> QED
    BY <1>1, <2>1, <2>2
<1>5. ASSUME out'.group = "evenly distributed", NEW c \in some
      PROVE  Below(p95[c], host, 30)
  <2> DEFINE three == p95[order[1]] + p95[order[2]] + p95[order[3]]
  <2>1. out' = CPUInsight(p95, host, order)
    <3>1. MemoryInsight(p95, host, order).group = "none"
      BY DEF MemoryInsight
    <3> QED
      BY <1>1, <1>5, <3>1
  <2>2. n >= 3 /\ Below(three, host, 30)
    <3>1. CPUInsight(p95, host, order).group =
            IF Len(order) < 3 THEN "none"
            ELSE IF Above(three, host, 80) THEN "focus here"
            ELSE IF Below(three, host, 30) THEN "evenly distributed"
            ELSE "none"
      BY DEF CPUInsight
    <3>2. out'.group # "none" /\ out'.group # "focus here"
      BY <1>5
    <3> HIDE DEF three
    <3>3. ~(Len(order) < 3) /\ Below(three, host, 30)
      BY <2>1, <3>1, <3>2
    <3> QED
      BY <1>3, <3>3
  <2>3. p95[order[1]] \in Nat /\ p95[order[2]] \in Nat /\ p95[order[3]] \in Nat /\ p95[c] \in Nat
    <3>1. 1 \in 1 .. n /\ 2 \in 1 .. n /\ 3 \in 1 .. n
      BY <1>3, <2>2
    <3> QED
      BY <1>2, <1>3, <3>1
  <2>4. p95[c] <= three
    BY <1>3, <2>3
  <2>5. host \in Nat
    BY ArithmeticAssumption
  <2> HIDE DEF three
  <2>6. three \in Nat
    BY <2>3 DEF three
  <2> QED
    BY <2>2, <2>3, <2>4, <2>5, <2>6 DEF Below
<1>6. ASSUME out'.first \in {"largest", "well-distributed"}, NEW c \in some
      PROVE  ~Above(p95[c], in'.cores * host, 60)
  <2>1. /\ out' = CPUInsight(p95, host, order)
        /\ in'.cores \in Nat \ {0} /\ host \in Nat
    <3>1. MemoryInsight(p95, host, order).first \in {"uses much", "none"}
      BY DEF MemoryInsight
    <3>2. out' # MemoryInsight(p95, host, order)
      BY <1>6, <3>1
    <3> QED
      BY <3>2, ArithmeticAssumption DEF Compute
  <2>2. ~Above(p95[order[1]], host, 60)
    <3>1. CPUInsight(p95, host, order).first =
            IF Above(p95[order[1]], host, 60) THEN "drives sizing"
            ELSE IF Above(p95[order[1]], host, 40) THEN "largest"
            ELSE "well-distributed"
      BY DEF CPUInsight
    <3> QED
      BY <1>6, <2>1, <3>1
  <2>3. p95[c] \in Nat /\ p95[order[1]] \in Nat /\ p95[c] <= p95[order[1]]
    <3>1. 1 \in 1 .. n
      BY <1>3
    <3> QED
      BY <1>2, <1>3, <3>1
  <2>4. /\ in'.cores * host \in Nat /\ host <= in'.cores * host
        /\ in'.cores * host > 0 => host > 0
    BY <2>1
  <2> DEFINE all == in'.cores * host
             x == p95[c]
             top == p95[order[1]]
  <2> HIDE DEF all, x, top
  <2>5. /\ x \in Nat /\ top \in Nat /\ x <= top /\ host \in Nat
        /\ all \in Nat /\ host <= all /\ (all > 0 => host > 0)
        /\ ~Above(top, host, 60)
    BY <2>1, <2>2, <2>3, <2>4 DEF all, x, top
  <2>6. ~Above(x, all, 60)
    BY <2>5 DEF Above
  <2> QED
    BY <2>6 DEF all, x
<1>7. CPUAdviceAgrees' /\ MemoryAdviceAgrees'
  BY <1>1 DEF CPUAdviceAgrees, MemoryAdviceAgrees
<1>8. InsightsAgree'
  BY <1>1, <1>2, <1>3, <1>4, <1>5, <1>6 DEF InsightsAgree
<1> QED
  BY <1>7, <1>8 DEF AdviceAgrees

-----------------------------------------------------------------------------
\* Numbers are well founded; with it what would need induction is proved from
\* a least counterexample, for the predicate at hand.
LEMMA LeastNumber ==
  ASSUME NEW T \in SUBSET Nat, T # {}
  PROVE  \E x \in T : \A y \in T : x <= y
<1> DEFINE R == {ss \in Nat \X Nat : ss[1] < ss[2]}
<1>1. IsWellFoundedOn(R, Nat)
  BY NatLessThanWellFounded DEF OpToRel
<1>2. \A y, x \in Nat : <<y, x>> \in R <=> y < x
  OBVIOUS
<1> HIDE DEF R
<1>3. PICK x \in T : \A y \in T : <<y, x>> \notin R
  BY <1>1, WFMin
<1>4. \A y \in T : x <= y
  <2> TAKE y \in T
  <2>1. x \in Nat /\ y \in Nat
    OBVIOUS
  <2>2. ~(y < x)
    BY <1>2, <1>3, <2>1
  <2> QED
    BY <2>1, <2>2
<1> QED
  BY <1>4

(***************************************************************************)
(* The order statistics: Sorted is defined by CHOOSE, and what it returns  *)
(* is known only once a value with its property is shown to exist.         *)
(***************************************************************************)
Less(values, v) == {j \in DOMAIN values : values[j] < v}
UpTo(values, v) == {j \in DOMAIN values : values[j] <= v}

IsSorted(values, i, v) ==
  /\ v \in {values[j] : j \in DOMAIN values}
  /\ Cardinality(Less(values, v)) <= i
  /\ Cardinality(UpTo(values, v)) > i

\* Some of the positions are finitely many; fewer of them are no more.
LEMMA Positions ==
  ASSUME NEW n \in Nat, NEW B \in SUBSET (1 .. n), NEW A \in SUBSET B
  PROVE  /\ Cardinality(A) \in Nat /\ Cardinality(B) \in Nat
         /\ Cardinality(A) <= Cardinality(B)
         /\ Cardinality(1 .. n) = n
<1>1. IsFiniteSet(1 .. n) /\ Cardinality(1 .. n) = n
  BY FS_Interval
<1>2. IsFiniteSet(B)
  BY <1>1, FS_Subset
<1>3. IsFiniteSet(A) /\ Cardinality(A) <= Cardinality(B)
  BY <1>2, FS_Subset
<1> QED
  BY <1>1, <1>2, <1>3, FS_CardinalityType

\* The least value with more than i samples up to it is a sample.
LEMMA SortedExists ==
  ASSUME NEW n \in Nat \ {0}, NEW max \in Nat, NEW values \in [1 .. n -> 0 .. max],
         NEW i \in 0 .. n - 1
  PROVE  \E v : IsSorted(values, i, v)
<1> DEFINE T == {v \in Nat : Cardinality(UpTo(values, v)) > i}
<1>1. DOMAIN values = 1 .. n /\ \A j \in 1 .. n : values[j] \in Nat /\ values[j] <= max
  OBVIOUS
<1>2. \A v : UpTo(values, v) \subseteq 1 .. n /\ Cardinality(UpTo(values, v)) \in Nat
  BY <1>1, Positions DEF UpTo
<1>3. max \in T
  <2>1. UpTo(values, max) = 1 .. n
    BY <1>1 DEF UpTo
  <2>2. Cardinality(UpTo(values, max)) = n
    BY <2>1, Positions
  <2> QED
    BY <2>2
<1>4. PICK v \in T : \A w \in T : v <= w
  <2>1. T \subseteq Nat /\ T # {}
    BY <1>3
  <2> HIDE DEF T
  <2> QED
    BY <2>1, LeastNumber
<1>5. v \in Nat /\ Cardinality(UpTo(values, v)) > i
  OBVIOUS
<1>6. Cardinality(Less(values, v)) <= i
  <2>1. CASE v = 0
    <3>1. Less(values, v) = {}
      BY <1>1, <2>1 DEF Less
    <3> QED
      BY <3>1, FS_EmptySet
  <2>2. CASE v > 0
    <3>1. v - 1 \in Nat /\ v - 1 \notin T
      BY <1>4, <1>5, <2>2
    <3>2. ~(Cardinality(UpTo(values, v - 1)) > i)
      BY <3>1
    <3>3. Less(values, v) = UpTo(values, v - 1)
      BY <1>1, <1>5 DEF Less, UpTo
    <3> QED
      BY <1>2, <3>2, <3>3
  <2> QED
    BY <1>5, <2>1, <2>2
<1>7. v \in {values[j] : j \in DOMAIN values}
  <2> SUFFICES ASSUME \A j \in 1 .. n : values[j] # v PROVE FALSE
    BY <1>1
  <2>1. Less(values, v) = UpTo(values, v)
    BY <1>1, <1>5 DEF Less, UpTo
  <2> QED
    BY <1>2, <1>5, <1>6, <2>1
<1> QED
  BY <1>5, <1>6, <1>7 DEF IsSorted

LEMMA SortedIsSorted ==
  ASSUME NEW n \in Nat \ {0}, NEW max \in Nat, NEW values \in [1 .. n -> 0 .. max],
         NEW i \in 0 .. n - 1
  PROVE  IsSorted(values, i, Sorted(values, i)) /\ Sorted(values, i) \in Nat
<1>1. Sorted(values, i) = CHOOSE v : IsSorted(values, i, v)
  BY DEF Sorted, IsSorted, Less, UpTo
<1>2. IsSorted(values, i, Sorted(values, i))
  BY <1>1, SortedExists
<1> QED
  BY <1>2 DEF IsSorted

\* What the proofs below need of a list of samples.
Samples(n, values) == n \in Nat \ {0} /\ values \in [1 .. n -> 0 .. MaxValue]

LEMMA SortedMonotone ==
  ASSUME NEW n, NEW values, Samples(n, values),
         NEW i \in 0 .. n - 1, NEW k \in 0 .. n - 1, i <= k
  PROVE  Sorted(values, i) <= Sorted(values, k)
<1> DEFINE v == Sorted(values, i)
           w == Sorted(values, k)
<1>1. /\ n \in Nat \ {0} /\ MaxValue \in Nat /\ values \in [1 .. n -> 0 .. MaxValue]
      /\ DOMAIN values = 1 .. n
  BY ArithmeticAssumption DEF Samples
<1>2. /\ IsSorted(values, i, v) /\ IsSorted(values, k, w)
      /\ v \in Nat /\ w \in Nat
  BY <1>1, SortedIsSorted
<1> HIDE DEF v, w
<1>3. ASSUME w < v PROVE FALSE
  <2>1. UpTo(values, w) \subseteq Less(values, v) /\ Less(values, v) \subseteq 1 .. n
    BY <1>1, <1>2, <1>3 DEF UpTo, Less
  <2>2. /\ Cardinality(UpTo(values, w)) \in Nat /\ Cardinality(Less(values, v)) \in Nat
        /\ Cardinality(UpTo(values, w)) <= Cardinality(Less(values, v))
    BY <1>1, <2>1, Positions
  <2> QED
    BY <1>2, <2>2 DEF IsSorted
<1> QED
  BY <1>2, <1>3 DEF v, w

\* The lower of the two samples of a percentile, and the weight of the other.
Lower(n, p) == (p * (n - 1)) \div 100
Weight(n, p) == (p * (n - 1)) % 100

LEMMA PercentileBetween ==
  ASSUME NEW n, NEW values, Samples(n, values), NEW p \in 0 .. 100
  PROVE  /\ Lower(n, p) \in 0 .. n - 1 /\ Weight(n, p) \in 0 .. 99
         /\ 100 * Lower(n, p) + Weight(n, p) = p * (n - 1)
         /\ Weight(n, p) > 0 => Lower(n, p) + 1 \in 0 .. n - 1
         /\ Percentile(values, p) =
              IF Weight(n, p) = 0 THEN 100 * Sorted(values, Lower(n, p))
              ELSE 100 * Sorted(values, Lower(n, p))
                     + Weight(n, p) * (Sorted(values, Lower(n, p) + 1)
                                         - Sorted(values, Lower(n, p)))
<1> DEFINE index == p * (n - 1)
           lower == index \div 100
           weight == index % 100
<1>1. /\ n \in Nat \ {0} /\ MaxValue \in Nat /\ values \in [1 .. n -> 0 .. MaxValue]
      /\ Len(values) = n
  BY ArithmeticAssumption DEF Samples
<1>2. index \in Nat /\ index <= 100 * (n - 1)
  <2>1. n - 1 \in Nat /\ p \in Nat /\ p <= 100
    BY <1>1
  <2> QED
    BY <2>1, UsageBounds
<1>3. Percentile(values, p) =
        IF weight = 0 THEN 100 * Sorted(values, lower)
        ELSE (100 - weight) * Sorted(values, lower) + weight * Sorted(values, lower + 1)
  BY <1>1 DEF Percentile
<1> HIDE DEF index
<1>4. /\ lower \in Nat /\ weight \in 0 .. 99 /\ 100 * lower + weight = index
  BY <1>2
<1> HIDE DEF lower, weight
<1>5. lower \in 0 .. n - 1 /\ (weight > 0 => lower + 1 \in 0 .. n - 1)
  BY <1>1, <1>2, <1>4
<1>6. ASSUME weight > 0
      PROVE  (100 - weight) * Sorted(values, lower) + weight * Sorted(values, lower + 1)
               = 100 * Sorted(values, lower)
                   + weight * (Sorted(values, lower + 1) - Sorted(values, lower))
  <2>1. Sorted(values, lower) \in Nat /\ Sorted(values, lower + 1) \in Nat
    BY <1>1, <1>5, <1>6, SortedIsSorted
  <2>2. \A x, y \in Int : (100 - weight) * x + weight * y = 100 * x + weight * (y - x)
    BY <1>4
  <2> QED
    BY <2>1, <2>2
<1> QED
  BY <1>3, <1>4, <1>5, <1>6 DEF index, lower, weight, Lower, Weight

LEMMA PercentileBounds ==
  ASSUME NEW n, NEW values, Samples(n, values), NEW p \in 0 .. 100
  PROVE  /\ Percentile(values, p) \in Nat
         /\ Lower(n, p) \in 0 .. n - 1 /\ Sorted(values, Lower(n, p)) \in Nat
         /\ 100 * Sorted(values, Lower(n, p)) <= Percentile(values, p)
         /\ Weight(n, p) > 0 =>
              /\ Lower(n, p) + 1 \in 0 .. n - 1 /\ Sorted(values, Lower(n, p) + 1) \in Nat
              /\ Percentile(values, p) <= 100 * Sorted(values, Lower(n, p) + 1)
         /\ Weight(n, p) = 0 => Percentile(values, p) = 100 * Sorted(values, Lower(n, p))
<1> DEFINE l == Lower(n, p)
           w == Weight(n, p)
           P == Percentile(values, p)
           x == Sorted(values, l)
           y == Sorted(values, l + 1)
<1>1. /\ l \in 0 .. n - 1 /\ w \in 0 .. 99
      /\ w > 0 => l + 1 \in 0 .. n - 1
      /\ P = IF w = 0 THEN 100 * x ELSE 100 * x + w * (y - x)
  BY PercentileBetween
<1>2. n \in Nat \ {0} /\ MaxValue \in Nat /\ values \in [1 .. n -> 0 .. MaxValue]
  BY ArithmeticAssumption DEF Samples
<1> HIDE DEF l, w, P
<1>3. x \in Nat
  BY <1>1, <1>2, SortedIsSorted
<1>4. CASE w = 0
  <2> HIDE DEF x, y
  <2>1. P = 100 * x
    BY <1>1, <1>4
  <2>2. P \in Nat /\ 100 * x <= P
    BY <1>3, <2>1
  <2> QED
    BY <1>1, <1>3, <1>4, <2>1, <2>2 DEF l, w, P, x, y
<1>5. CASE w > 0
  <2>1. l + 1 \in 0 .. n - 1 /\ l <= l + 1
    BY <1>1, <1>2, <1>5
  <2>2. y \in Nat /\ x <= y
    BY <1>1, <1>2, <2>1, SortedIsSorted, SortedMonotone
  <2> HIDE DEF x, y
  <2>3. P = 100 * x + w * (y - x)
    BY <1>1, <1>5
  <2> DEFINE d == y - x
  <2>4. d \in Nat /\ w \in Nat /\ w <= 100
    BY <1>1, <1>3, <2>2
  <2>5. w * d >= 0 /\ w * d <= 100 * d /\ w * d \in Int
    <3> HIDE DEF d
    <3>1. d * w <= d * 100 /\ d * w >= d * 0
      BY <2>4, UsageBounds
    <3> QED
      BY <2>4, <3>1
  <2>6. P \in Nat /\ 100 * x <= P /\ P <= 100 * y
    BY <1>3, <2>2, <2>3, <2>5
  <2> QED
    BY <1>1, <1>3, <1>5, <2>1, <2>2, <2>6 DEF l, w, P, x, y
<1> QED
  BY <1>1, <1>4, <1>5

LEMMA PercentileMonotone ==
  ASSUME NEW n, NEW values, Samples(n, values), NEW p \in 0 .. 100, NEW q \in 0 .. 100, p <= q
  PROVE  Percentile(values, p) <= Percentile(values, q)
<1> DEFINE lp == Lower(n, p)
           lq == Lower(n, q)
           wp == Weight(n, p)
           wq == Weight(n, q)
<1>1. n \in Nat \ {0} /\ MaxValue \in Nat /\ values \in [1 .. n -> 0 .. MaxValue]
  BY ArithmeticAssumption DEF Samples
<1>2. /\ lp \in 0 .. n - 1 /\ wp \in 0 .. 99 /\ 100 * lp + wp = p * (n - 1)
      /\ lq \in 0 .. n - 1 /\ wq \in 0 .. 99 /\ 100 * lq + wq = q * (n - 1)
  BY PercentileBetween
<1>3. p * (n - 1) <= q * (n - 1)
  <2>1. n - 1 \in Nat /\ p \in Nat /\ q \in Nat
    BY <1>1
  <2>2. (n - 1) * p <= (n - 1) * q
    BY <2>1, UsageBounds
  <2> QED
    BY <2>1, <2>2
<1> HIDE DEF lp, lq, wp, wq
<1>4. p * (n - 1) \in Int /\ q * (n - 1) \in Int
  BY <1>1
<1>5. lp < lq \/ (lp = lq /\ wp <= wq)
  BY <1>2, <1>3, <1>4
<1>6. CASE lp < lq
  <2>1. 100 * Sorted(values, lq) <= Percentile(values, q) /\ Sorted(values, lq) \in Nat
        /\ Percentile(values, p) \in Nat /\ Percentile(values, q) \in Nat
    BY PercentileBounds DEF lq
  <2>2. CASE wp = 0
    <3>1. Percentile(values, p) = 100 * Sorted(values, lp) /\ Sorted(values, lp) \in Nat
      BY <2>2, PercentileBounds DEF lp, wp
    <3>2. Sorted(values, lp) <= Sorted(values, lq)
      BY <1>2, <1>6, SortedMonotone
    <3> QED
      BY <2>1, <3>1, <3>2
  <2>3. CASE wp > 0
    <3>1. /\ Percentile(values, p) <= 100 * Sorted(values, lp + 1)
          /\ lp + 1 \in 0 .. n - 1 /\ Sorted(values, lp + 1) \in Nat
      BY <2>3, PercentileBounds DEF lp, wp
    <3>2. lp + 1 <= lq
      BY <1>2, <1>6
    <3>3. Sorted(values, lp + 1) <= Sorted(values, lq)
      BY <1>2, <3>1, <3>2, SortedMonotone
    <3> QED
      BY <2>1, <3>1, <3>3
  <2> QED
    BY <1>2, <2>2, <2>3
<1>7. CASE lp = lq /\ wp <= wq
  <2> DEFINE x == Sorted(values, lp)
             d == Sorted(values, lp + 1) - Sorted(values, lp)
  <2>1. /\ Percentile(values, p) = IF wp = 0 THEN 100 * x ELSE 100 * x + wp * d
        /\ Percentile(values, q) = IF wq = 0 THEN 100 * x ELSE 100 * x + wq * d
    BY <1>7, PercentileBetween DEF lp, lq, wp, wq
  <2>2. x \in Nat
    BY <1>1, <1>2, SortedIsSorted
  <2>3. wq > 0 => d \in Nat
    <3> SUFFICES ASSUME wq > 0 PROVE d \in Nat
      OBVIOUS
    <3>1. lp + 1 \in 0 .. n - 1 /\ Sorted(values, lp + 1) \in Nat
      BY <1>7, PercentileBounds DEF lq, wq
    <3>2. Sorted(values, lp) <= Sorted(values, lp + 1)
      BY <1>2, <3>1, SortedMonotone
    <3> QED
      BY <2>2, <3>1, <3>2
  <2> HIDE DEF x, d
  <2>4. wq > 0 => d * wp <= d * wq /\ d * wp >= 0
    <3>1. wq > 0 => d * wp <= d * wq /\ d * wp >= d * 0
      BY <1>2, <1>7, <2>3, UsageBounds
    <3> QED
      BY <2>3, <3>1
  <2>5. CASE wq = 0
    BY <1>2, <1>7, <2>1, <2>2, <2>5
  <2>6. CASE wq > 0 /\ wp = 0
    <3>1. Percentile(values, q) = 100 * x + wq * d /\ Percentile(values, p) = 100 * x
      BY <2>1, <2>6
    <3>2. wq * d >= 0
      BY <1>2, <2>3, <2>4, <2>6
    <3> QED
      BY <1>2, <2>2, <2>3, <2>6, <3>1, <3>2
  <2>7. CASE wq > 0 /\ wp > 0
    <3>1. Percentile(values, q) = 100 * x + wq * d /\ Percentile(values, p) = 100 * x + wp * d
      BY <2>1, <2>7
    <3>2. wp * d <= wq * d
      BY <1>2, <2>3, <2>4, <2>7
    <3> QED
      BY <1>2, <2>2, <2>3, <2>7, <3>1, <3>2
  <2> QED
    BY <1>2, <1>7, <2>5, <2>6, <2>7
<1> QED
  BY <1>5, <1>6, <1>7

\* All percentiles are between the smallest sample and the largest.
LEMMA PercentileInRange ==
  ASSUME NEW n, NEW values, Samples(n, values), NEW p \in 0 .. 100
  PROVE  /\ 100 * MinOf(values) <= Percentile(values, p)
         /\ Percentile(values, p) <= 100 * MaxOf(values)
<1>1. /\ n \in Nat \ {0} /\ MaxValue \in Nat /\ values \in [1 .. n -> 0 .. MaxValue]
      /\ Len(values) = n /\ 0 \in 0 .. n - 1 /\ n - 1 \in 0 .. n - 1
  BY ArithmeticAssumption DEF Samples
<1>2. MinOf(values) = Sorted(values, 0) /\ MaxOf(values) = Sorted(values, n - 1)
  BY <1>1 DEF MinOf, MaxOf
<1>3. Sorted(values, 0) \in Nat /\ Sorted(values, n - 1) \in Nat
  BY <1>1, SortedIsSorted
<1> DEFINE l == Lower(n, p)
<1>4. /\ Percentile(values, p) \in Nat /\ l \in 0 .. n - 1 /\ Sorted(values, l) \in Nat
      /\ 100 * Sorted(values, l) <= Percentile(values, p)
  BY PercentileBounds
<1> HIDE DEF l
<1>5. \A i \in 0 .. n - 1 : Sorted(values, 0) <= Sorted(values, i)
                            /\ Sorted(values, i) <= Sorted(values, n - 1)
  <2> TAKE i \in 0 .. n - 1
  <2>1. 0 <= i /\ i <= n - 1
    BY <1>1
  <2> QED
    BY <1>1, <2>1, SortedMonotone
<1>6. 100 * Sorted(values, 0) <= Percentile(values, p)
  BY <1>3, <1>4, <1>5
<1>7. Percentile(values, p) <= 100 * Sorted(values, n - 1)
  <2>1. CASE Weight(n, p) = 0
    <3>1. Percentile(values, p) = 100 * Sorted(values, l)
      BY <2>1, PercentileBounds DEF l
    <3> QED
      BY <1>3, <1>4, <1>5, <3>1
  <2>2. CASE Weight(n, p) > 0
    <3>1. /\ l + 1 \in 0 .. n - 1 /\ Sorted(values, l + 1) \in Nat
          /\ Percentile(values, p) <= 100 * Sorted(values, l + 1)
      BY <2>2, PercentileBounds DEF l
    <3>2. Sorted(values, l + 1) <= Sorted(values, n - 1)
      BY <1>5, <3>1
    <3> DEFINE P == Percentile(values, p)
               x == Sorted(values, l + 1)
               max == Sorted(values, n - 1)
    <3>3. P \in Nat /\ P <= 100 * x /\ x \in Nat /\ x <= max /\ max \in Nat
      BY <1>3, <1>4, <3>1, <3>2
    <3> HIDE DEF P, x, max
    <3>4. P <= 100 * max
      BY <3>3
    <3> QED
      BY <3>4 DEF P, max
  <2>3. Weight(n, p) \in 0 .. 99
    BY PercentileBetween
  <2> QED
    BY <2>1, <2>2, <2>3
<1> QED
  BY <1>2, <1>6, <1>7

\* How many samples are not above the 95th percentile.
LEMMA PercentileCovers95 ==
  ASSUME NEW n, NEW values, Samples(n, values)
  PROVE  100 * Cardinality({i \in DOMAIN values : 100 * values[i] <= Percentile(values, 95)})
           + 95 > 95 * Len(values)
<1> DEFINE l == Lower(n, 95)
           P == Percentile(values, 95)
           v == Sorted(values, l)
           C == {i \in DOMAIN values : 100 * values[i] <= P}
<1>1. /\ n \in Nat \ {0} /\ MaxValue \in Nat /\ values \in [1 .. n -> 0 .. MaxValue]
      /\ Len(values) = n /\ DOMAIN values = 1 .. n
  BY ArithmeticAssumption DEF Samples
<1>2. /\ l \in 0 .. n - 1 /\ Weight(n, 95) \in 0 .. 99
      /\ 100 * l + Weight(n, 95) = 95 * (n - 1)
  BY PercentileBetween
<1>3. P \in Nat /\ 100 * v <= P
  BY PercentileBounds
<1> HIDE DEF l, P
<1>4. v \in Nat /\ Cardinality(UpTo(values, v)) > l
  BY <1>1, <1>2, SortedIsSorted DEF IsSorted
<1> HIDE DEF v
<1>5. UpTo(values, v) \subseteq C /\ C \subseteq 1 .. n
  BY <1>1, <1>3, <1>4 DEF UpTo
<1> HIDE DEF C
<1>6. /\ Cardinality(UpTo(values, v)) \in Nat /\ Cardinality(C) \in Nat
      /\ Cardinality(UpTo(values, v)) <= Cardinality(C)
  BY <1>1, <1>5, Positions
<1>7. 100 * Cardinality(C) + 95 > 95 * n
  <2>1. Cardinality(C) >= l + 1
    BY <1>2, <1>4, <1>6
  <2>2. 100 * l >= 95 * (n - 1) - 99
    <3> DEFINE w == Weight(n, 95)
    <3>1. w \in 0 .. 99 /\ 100 * l + w = 95 * (n - 1) /\ l \in Nat
      BY <1>2
    <3> HIDE DEF w
    <3> QED
      BY <1>1, <3>1
  <2> QED
    BY <1>1, <1>2, <1>6, <2>1, <2>2
<1> QED
  BY <1>1, <1>7 DEF C, P

LEMMA PercentilesStep == AnalyzeMetric => PercentilesCover'
<1> SUFFICES ASSUME NEW n \in 1 .. MaxSamples, NEW values \in [1 .. n -> 0 .. MaxValue],
                    Compute("metric", values,
                      [min |-> 100 * MinOf(values), p50 |-> Percentile(values, 50),
                       p90 |-> Percentile(values, 90), p95 |-> Percentile(values, 95),
                       p99 |-> Percentile(values, 99), max |-> 100 * MaxOf(values),
                       pattern |-> DetectPattern(values)])
             PROVE  PercentilesCover'
  BY DEF AnalyzeMetric
<1>1. Samples(n, values)
  BY ArithmeticAssumption DEF Samples
<1>2. /\ in' = values
      /\ out'.min = 100 * MinOf(values) /\ out'.max = 100 * MaxOf(values)
      /\ out'.p50 = Percentile(values, 50) /\ out'.p90 = Percentile(values, 90)
      /\ out'.p95 = Percentile(values, 95) /\ out'.p99 = Percentile(values, 99)
  BY DEF Compute
<1>3. /\ 50 \in 0 .. 100 /\ 90 \in 0 .. 100 /\ 95 \in 0 .. 100 /\ 99 \in 0 .. 100
      /\ 50 <= 90 /\ 90 <= 95 /\ 95 <= 99
  OBVIOUS
<1>4. /\ Percentile(values, 50) <= Percentile(values, 90)
      /\ Percentile(values, 90) <= Percentile(values, 95)
      /\ Percentile(values, 95) <= Percentile(values, 99)
  BY <1>1, <1>3, PercentileMonotone
<1>5. /\ 100 * MinOf(values) <= Percentile(values, 50)
      /\ Percentile(values, 99) <= 100 * MaxOf(values)
  BY <1>1, <1>3, PercentileInRange
<1>6. 100 * Cardinality({i \in DOMAIN in' : 100 * in'[i] <= out'.p95}) + 95 > 95 * Len(in')
  BY <1>1, <1>2, PercentileCovers95
<1> QED
  BY <1>2, <1>4, <1>5, <1>6 DEF PercentilesCover

-----------------------------------------------------------------------------
(***************************************************************************)
(* Sums: FoldFunction adds up the samples of a set by taking away one that *)
(* CHOOSE picks.  What holds of the sum of the empty set, and of a set when*)
(* it holds of the set without the one picked, holds of all sets.          *)
(***************************************************************************)
Pick(s) == CHOOSE x \in s : TRUE

LEMMA PickIsIn == \A s : s # {} => Pick(s) \in s
BY DEF Pick

LEMMA SubsetsAreFinite ==
  ASSUME NEW n \in Nat
  PROVE  \A s \in SUBSET (1 .. n) :
           IsFiniteSet(s) /\ Cardinality(s) \in Nat /\ Cardinality(s) \in 0 .. n
<1> TAKE s \in SUBSET (1 .. n)
<1>1. IsFiniteSet(1 .. n) /\ Cardinality(1 .. n) = n
  BY FS_Interval
<1>2. IsFiniteSet(s) /\ Cardinality(s) <= n
  BY <1>1, FS_Subset
<1>3. Cardinality(s) \in Nat
  BY <1>2, FS_CardinalityType
<1> QED
  BY <1>2, <1>3

\* A set of sets of positions that is closed under adding what Pick takes away
\* has all of them.
LEMMA SubsetInduction ==
  ASSUME NEW n \in Nat, NEW G \in SUBSET SUBSET (1 .. n), {} \in G,
         \A s \in SUBSET (1 .. n) : s # {} /\ s \ {Pick(s)} \in G => s \in G
  PROVE  \A s \in SUBSET (1 .. n) : s \in G
<1>1. \A s \in SUBSET (1 .. n) : IsFiniteSet(s) /\ Cardinality(s) \in Nat
  BY SubsetsAreFinite
<1> DEFINE T == {Cardinality(s) : s \in (SUBSET (1 .. n)) \ G}
<1>2. SUFFICES ASSUME T # {} PROVE FALSE
  OBVIOUS
<1>3. T \subseteq Nat
  BY <1>1
<1>4. PICK k \in T : \A m \in T : k <= m
  <2> HIDE DEF T
  <2> QED
    BY <1>2, <1>3, LeastNumber
<1>5. PICK s \in (SUBSET (1 .. n)) \ G : k = Cardinality(s)
  BY <1>4
<1>6. s # {} /\ s \ {Pick(s)} \notin G /\ s \ {Pick(s)} \in SUBSET (1 .. n)
  BY <1>5
<1>7. Cardinality(s \ {Pick(s)}) = Cardinality(s) - 1
  BY <1>1, <1>5, <1>6, PickIsIn, FS_RemoveElement
<1>8. k <= Cardinality(s) - 1
  BY <1>4, <1>6, <1>7
<1> QED
  BY <1>1, <1>5, <1>8

\* What FoldFunction recurs with.
SumsOf(f) ==
  CHOOSE g : g = [s \in SUBSET DOMAIN f |->
                    IF s = {} THEN 0 ELSE f[Pick(s)] + g[s \ {Pick(s)}]]

LEMMA SumIsFold == \A f : Sum(f) = SumsOf(f)[DOMAIN f]
BY DEF Sum, FoldFunction, FoldFunctionOnSet, MapThenFoldSet, SumsOf, Pick

\* A function up to sets of k positions can be extended to one more.
LEMMA SumsExist ==
  ASSUME NEW n \in Nat, NEW f, DOMAIN f = 1 .. n
  PROVE  \E g : g = [s \in SUBSET DOMAIN f |->
                       IF s = {} THEN 0 ELSE f[Pick(s)] + g[s \ {Pick(s)}]]
<1> DEFINE D == 1 .. n
           Step(g, s) == IF s = {} THEN 0 ELSE f[Pick(s)] + g[s \ {Pick(s)}]
           Works(k, g) == \A s \in SUBSET D : Cardinality(s) <= k => g[s] = Step(g, s)
           T == {k \in Nat : ~ \E g : Works(k, g)}
<1>1. \A s \in SUBSET D : IsFiniteSet(s) /\ Cardinality(s) \in 0 .. n
  BY SubsetsAreFinite
<1>2. \A s \in SUBSET D : Cardinality(s) = 0 <=> s = {}
  BY <1>1, FS_EmptySet
<1>3. \A s \in SUBSET D : s # {} =>
        s \ {Pick(s)} \in SUBSET D /\ Cardinality(s \ {Pick(s)}) = Cardinality(s) - 1
  BY <1>1, PickIsIn, FS_RemoveElement
<1>4. \E g : Works(0, g)
  <2> DEFINE g == [s \in SUBSET D |-> 0]
  <2>1. Works(0, g)
    BY <1>1, <1>2
  <2> QED
    BY <2>1
<1>5. ASSUME NEW k \in Nat, NEW g, Works(k, g) PROVE \E h : Works(k + 1, h)
  <2> DEFINE h == [s \in SUBSET D |-> Step(g, s)]
  <2> HIDE DEF Step
  <2>1. \A s \in SUBSET D : h[s] = Step(g, s)
    OBVIOUS
  <2> HIDE DEF h
  <2> USE DEF Step
  <2>2. \A s \in SUBSET D : Cardinality(s) <= k => h[s] = g[s]
    BY <1>5, <2>1
  <2>3. ASSUME NEW s \in SUBSET D, Cardinality(s) <= k + 1 PROVE h[s] = Step(h, s)
    <3>1. CASE s = {}
      BY <2>1, <3>1
    <3>2. CASE s # {}
      <4>1. s \ {Pick(s)} \in SUBSET D /\ Cardinality(s \ {Pick(s)}) <= k
        <5>1. Cardinality(s) \in 0 .. n /\ Cardinality(s \ {Pick(s)}) = Cardinality(s) - 1
          BY <1>1, <1>3, <3>2
        <5>2. s \ {Pick(s)} \in SUBSET D
          BY <1>3, <3>2
        <5> QED
          BY <2>3, <5>1, <5>2
      <4>2. h[s \ {Pick(s)}] = g[s \ {Pick(s)}]
        BY <2>2, <4>1
      <4> QED
        BY <2>1, <3>2, <4>2
    <3> QED
      BY <3>1, <3>2
  <2> QED
    BY <2>3
<1> HIDE DEF Works
<1>6. T = {}
  <2> SUFFICES ASSUME T # {} PROVE FALSE
    OBVIOUS
  <2>1. PICK k \in T : \A m \in T : k <= m
    <3>1. T \subseteq Nat
      OBVIOUS
    <3> HIDE DEF T
    <3> QED
      BY <3>1, LeastNumber
  <2>2. k \in Nat /\ ~ \E g : Works(k, g)
    OBVIOUS
  <2>3. k # 0
    BY <1>4, <2>2
  <2>4. k - 1 \in Nat /\ k - 1 \notin T
    BY <2>1, <2>2, <2>3
  <2>5. \E g : Works(k - 1, g)
    BY <2>4
  <2>6. \E g : Works((k - 1) + 1, g)
    BY <1>5, <2>4, <2>5
  <2> QED
    BY <2>2, <2>6
<1>7. PICK g : Works(n, g)
  BY <1>6
<1> DEFINE h == [s \in SUBSET D |-> g[s]]
<1>8. \A s \in SUBSET D : h[s] = Step(h, s)
  <2> TAKE s \in SUBSET D
  <2>1. g[s] = Step(g, s)
    <3>1. Cardinality(s) <= n
      BY <1>1
    <3> HIDE DEF Step
    <3> QED
      BY <1>7, <3>1 DEF Works
  <2>2. s # {} => h[s \ {Pick(s)}] = g[s \ {Pick(s)}]
    BY <1>3
  <2> QED
    BY <2>1, <2>2
<1>9. h = [s \in SUBSET DOMAIN f |->
             IF s = {} THEN 0 ELSE f[Pick(s)] + h[s \ {Pick(s)}]]
  BY <1>8
<1> QED
  BY <1>9

LEMMA SumsRecur ==
  ASSUME NEW n \in Nat, NEW f, DOMAIN f = 1 .. n
  PROVE  /\ SumsOf(f)[{}] = 0
         /\ \A s \in SUBSET (1 .. n) : s # {} =>
              SumsOf(f)[s] = f[Pick(s)] + SumsOf(f)[s \ {Pick(s)}]
<1> DEFINE g == SumsOf(f)
<1>1. g = [s \in SUBSET DOMAIN f |->
             IF s = {} THEN 0 ELSE f[Pick(s)] + g[s \ {Pick(s)}]]
  BY SumsExist DEF SumsOf
<1> HIDE DEF g
<1>2. \A s \in SUBSET (1 .. n) :
        g[s] = IF s = {} THEN 0 ELSE f[Pick(s)] + g[s \ {Pick(s)}]
  BY <1>1
<1>3. {} \in SUBSET (1 .. n)
  OBVIOUS
<1> QED
  BY <1>2, <1>3 DEF g

\* A sum of terms each at most c times another is at most c times the other.
LEMMA SumBounded ==
  ASSUME NEW n \in Nat, NEW f \in [1 .. n -> Nat], NEW g \in [1 .. n -> Nat], NEW c \in Nat,
         \A i \in 1 .. n : g[i] <= c * f[i]
  PROVE  Sum(f) \in Nat /\ Sum(g) \in Nat /\ Sum(g) <= c * Sum(f)
<1> DEFINE F == SumsOf(f)
           H == SumsOf(g)
           G == {s \in SUBSET (1 .. n) : F[s] \in Nat /\ H[s] \in Nat /\ H[s] <= c * F[s]}
<1>1. DOMAIN f = 1 .. n /\ DOMAIN g = 1 .. n
  OBVIOUS
<1>2. /\ F[{}] = 0 /\ H[{}] = 0
      /\ \A s \in SUBSET (1 .. n) : s # {} =>
           /\ F[s] = f[Pick(s)] + F[s \ {Pick(s)}]
           /\ H[s] = g[Pick(s)] + H[s \ {Pick(s)}]
  BY <1>1, SumsRecur
<1> HIDE DEF F, H
<1>3. {} \in G
  BY <1>2
<1>4. ASSUME NEW s \in SUBSET (1 .. n), s # {}, s \ {Pick(s)} \in G PROVE s \in G
  <2> DEFINE x == Pick(s)
             t == s \ {x}
  <2>1. x \in 1 .. n
    BY <1>4, PickIsIn
  <2>2. F[t] \in Nat /\ H[t] \in Nat /\ H[t] <= c * F[t]
    BY <1>4
  <2>3. F[s] = f[x] + F[t] /\ H[s] = g[x] + H[t]
    BY <1>2, <1>4
  <2>4. f[x] \in Nat /\ g[x] \in Nat /\ g[x] <= c * f[x]
    BY <2>1
  <2> HIDE DEF x, t
  <2> DEFINE fx == f[x]
             gx == g[x]
             Ft == F[t]
             Ht == H[t]
  <2>5. /\ fx \in Nat /\ gx \in Nat /\ Ft \in Nat /\ Ht \in Nat
        /\ gx <= c * fx /\ Ht <= c * Ft /\ F[s] = fx + Ft /\ H[s] = gx + Ht
    BY <2>2, <2>3, <2>4
  <2> HIDE DEF fx, gx, Ft, Ht
  <2>6. F[s] \in Nat /\ H[s] \in Nat /\ H[s] <= c * F[s]
    <3> DEFINE a == c * fx
               b == c * Ft
    <3>1. c * (fx + Ft) = a + b /\ a \in Int /\ b \in Int /\ gx <= a /\ Ht <= b
      BY <2>5
    <3> HIDE DEF a, b
    <3>2. gx + Ht <= a + b /\ gx + Ht \in Nat /\ fx + Ft \in Nat
      BY <2>5, <3>1
    <3> QED
      BY <2>5, <3>1, <3>2
  <2> QED
    BY <2>6
<1>5. (1 .. n) \in G
  <2>1. G \in SUBSET SUBSET (1 .. n)
    OBVIOUS
  <2> HIDE DEF G
  <2>2. \A s \in SUBSET (1 .. n) : s \in G
    BY <1>3, <1>4, <2>1, SubsetInduction
  <2> QED
    BY <2>2
<1>6. Sum(f) = F[1 .. n] /\ Sum(g) = H[1 .. n]
  BY <1>1, SumIsFold DEF F, H
<1> QED
  BY <1>5, <1>6

LEMMA SumConstant ==
  ASSUME NEW n \in Nat, NEW v \in Nat, NEW f, DOMAIN f = 1 .. n, \A i \in 1 .. n : f[i] = v
  PROVE  Sum(f) = v * n
<1> DEFINE F == SumsOf(f)
           G == {s \in SUBSET (1 .. n) : F[s] = v * Cardinality(s)}
<1>1. /\ F[{}] = 0
      /\ \A s \in SUBSET (1 .. n) : s # {} => F[s] = f[Pick(s)] + F[s \ {Pick(s)}]
  BY SumsRecur
<1> HIDE DEF F
<1>2. {} \in G
  BY <1>1, FS_EmptySet
<1>3. ASSUME NEW s \in SUBSET (1 .. n), s # {}, s \ {Pick(s)} \in G PROVE s \in G
  <2> DEFINE x == Pick(s)
  <2>1. x \in 1 .. n /\ x \in s
    BY <1>3, PickIsIn
  <2>2. F[s] = f[x] + F[s \ {x}] /\ F[s \ {x}] = v * Cardinality(s \ {x})
    BY <1>1, <1>3
  <2>3. Cardinality(s) \in Nat /\ Cardinality(s \ {x}) = Cardinality(s) - 1
    BY <2>1, SubsetsAreFinite, FS_RemoveElement
  <2> HIDE DEF x
  <2>4. F[s] = v + v * (Cardinality(s) - 1)
    BY <2>1, <2>2, <2>3
  <2>5. \A k \in Nat : v + v * (k - 1) = v * k
    OBVIOUS
  <2> QED
    BY <2>3, <2>4, <2>5
<1>4. (1 .. n) \in G
  <2>1. G \in SUBSET SUBSET (1 .. n)
    OBVIOUS
  <2> HIDE DEF G
  <2>2. \A s \in SUBSET (1 .. n) : s \in G
    BY <1>2, <1>3, <2>1, SubsetInduction
  <2> QED
    BY <2>2
<1>5. Sum(f) = F[1 .. n] /\ Cardinality(1 .. n) = n
  BY SumIsFold, FS_Interval DEF F
<1> QED
  BY <1>4, <1>5

-----------------------------------------------------------------------------
\* No sample is below the smallest or above the largest.
LEMMA SamplesInRange ==
  ASSUME NEW n, NEW values, Samples(n, values)
  PROVE  /\ MinOf(values) \in Nat /\ MaxOf(values) \in Nat
         /\ \A i \in 1 .. n : MinOf(values) <= values[i] /\ values[i] <= MaxOf(values)
<1> DEFINE a == MinOf(values)
           b == MaxOf(values)
<1>1. /\ n \in Nat \ {0} /\ MaxValue \in Nat /\ values \in [1 .. n -> 0 .. MaxValue]
      /\ Len(values) = n /\ DOMAIN values = 1 .. n
  BY ArithmeticAssumption DEF Samples
<1>2. a = Sorted(values, 0) /\ b = Sorted(values, n - 1)
  BY <1>1 DEF MinOf, MaxOf
<1>3. 0 \in 0 .. n - 1 /\ n - 1 \in 0 .. n - 1
  BY <1>1
<1>4. IsSorted(values, 0, a) /\ IsSorted(values, n - 1, b) /\ a \in Nat /\ b \in Nat
  BY <1>1, <1>2, <1>3, SortedIsSorted
<1> HIDE DEF a, b
<1>5. Less(values, a) = {}
  <2>1. Less(values, a) \in SUBSET (1 .. n)
    BY <1>1 DEF Less
  <2>2. Cardinality(Less(values, a)) <= 0
    BY <1>4 DEF IsSorted
  <2>3. IsFiniteSet(Less(values, a)) /\ Cardinality(Less(values, a)) \in Nat
    BY <1>1, <2>1, SubsetsAreFinite
  <2>4. Cardinality(Less(values, a)) = 0
    BY <2>2, <2>3
  <2> QED
    BY <2>3, <2>4, FS_EmptySet
<1>6. UpTo(values, b) = 1 .. n
  <2>1. UpTo(values, b) \in SUBSET (1 .. n)
    BY <1>1 DEF UpTo
  <2>2. Cardinality(UpTo(values, b)) > n - 1
    BY <1>4 DEF IsSorted
  <2>3. IsFiniteSet(1 .. n) /\ Cardinality(1 .. n) = n
    BY <1>1, FS_Interval
  <2>4. Cardinality(UpTo(values, b)) \in 0 .. n
    BY <1>1, <2>1, SubsetsAreFinite
  <2>5. Cardinality(UpTo(values, b)) = n
    BY <1>1, <2>2, <2>4
  <2> QED
    BY <2>1, <2>3, <2>5, FS_Subset
<1>7. ASSUME NEW i \in 1 .. n PROVE a <= values[i] /\ values[i] <= b
  <2>1. ~(values[i] < a) /\ values[i] <= b
    BY <1>1, <1>5, <1>6 DEF Less, UpTo
  <2>2. values[i] \in Nat
    BY <1>1
  <2> QED
    BY <1>4, <2>1, <2>2
<1> QED
  BY <1>4, <1>7 DEF a, b

\* The squares of the samples, whose sum the standard deviation needs.
Squares(values) == [i \in DOMAIN values |-> values[i] * values[i]]

\* The sum of the squares is at most the largest sample times the sum.
LEMMA SquaresBounded ==
  ASSUME NEW n, NEW values, Samples(n, values)
  PROVE  /\ Sum(values) \in Nat /\ Sum(Squares(values)) \in Nat
         /\ Sum(Squares(values)) <= MaxOf(values) * Sum(values)
<1>1. /\ n \in Nat /\ values \in [1 .. n -> Nat]
  BY ArithmeticAssumption DEF Samples
<1>2. MaxOf(values) \in Nat /\ \A i \in 1 .. n : values[i] <= MaxOf(values)
  BY SamplesInRange
<1>3. Squares(values) \in [1 .. n -> Nat]
  BY <1>1 DEF Squares
<1>4. \A i \in 1 .. n : Squares(values)[i] <= MaxOf(values) * values[i]
  <2> TAKE i \in 1 .. n
  <2> DEFINE x == values[i]
             b == MaxOf(values)
  <2>1. x \in Nat /\ b \in Nat /\ x <= b
    BY <1>1, <1>2
  <2>2. Squares(values)[i] = x * x
    BY <1>1 DEF Squares
  <2> HIDE DEF x, b
  <2>3. x * x <= x * b /\ x * b = b * x
    BY <2>1, UsageBounds
  <2> QED
    BY <2>1, <2>2, <2>3 DEF x, b
<1> QED
  BY <1>1, <1>2, <1>3, <1>4, SumBounded

\* What cv above one half says of the numbers it is computed from.
LEMMA CvCancels ==
  ASSUME NEW n \in Nat, NEW s \in Nat, NEW q \in Nat, NEW b \in Nat,
         q <= b * s, 4 * (n * q - s * s) > s * s
  PROVE  4 * (b * n) > 5 * s
<1> DEFINE nq == n * q
           ss == s * s
           bn == b * n
           bs == b * s
<1>1. nq \in Nat /\ ss \in Nat /\ bn \in Nat /\ bs \in Nat /\ q <= bs
  OBVIOUS
<1>2. 4 * nq > 5 * ss
  BY <1>1
<1>3. nq <= bn * s
  <2> HIDE DEF bs
  <2>1. n * q <= n * bs
    BY <1>1, UsageBounds
  <2>2. n * bs = bn * s
    BY DEF bs
  <2> QED
    BY <2>1, <2>2
<1>4. SUFFICES ASSUME 4 * bn <= 5 * s PROVE FALSE
  BY <1>1
<1>5. (4 * bn) * s <= 5 * ss
  <2> DEFINE x == 4 * bn
             y == 5 * s
  <2>1. x \in Nat /\ y \in Nat /\ x <= y
    BY <1>1, <1>4
  <2> HIDE DEF x
  <2>2. s * x <= s * y
    <3> HIDE DEF y
    <3> QED
      BY <2>1, UsageBounds
  <2>3. s * y = 5 * ss
    OBVIOUS
  <2> QED
    BY <2>1, <2>2, <2>3 DEF x
<1> DEFINE bns == bn * s
<1>6. bns \in Nat /\ nq <= bns /\ (4 * bn) * s = 4 * bns
  BY <1>1, <1>3
<1> HIDE DEF nq, ss, bn, bs, bns
<1>7. 4 * nq <= 4 * bns /\ 4 * bns <= 5 * ss
  BY <1>1, <1>5, <1>6
<1> QED
  BY <1>1, <1>2, <1>6, <1>7

LEMMA BurstsArePeaks ==
  ASSUME NEW n, NEW values, Samples(n, values), DetectPattern(values)[1] = "bursty"
  PROVE  4 * MaxOf(values) * Len(values) > 5 * Sum(values)
<1> DEFINE s == Sum(values)
           q == Sum(Squares(values))
           b == MaxOf(values)
<1>1. n \in Nat \ {0} /\ Len(values) = n
  BY DEF Samples
<1>2. s \in Nat /\ q \in Nat /\ b \in Nat /\ q <= b * s
  BY SquaresBounded, SamplesInRange
<1>3. Spread(values) = n * q - s * s
  BY <1>1 DEF Spread, Squares
<1>4. 2 * 2 * Spread(values) > 1 * 1 * s * s \/ b * n > 3 * s
  BY <1>1 DEF DetectPattern
<1> HIDE DEF s, q, b
<1>5. CASE b * n > 3 * s
  BY <1>1, <1>2, <1>5 DEF s, b
<1>6. CASE 2 * 2 * Spread(values) > 1 * 1 * s * s
  <2>1. 4 * (n * q - s * s) > s * s
    BY <1>1, <1>2, <1>3, <1>6
  <2>2. 4 * (b * n) > 5 * s
    BY <1>1, <1>2, <2>1, CvCancels
  <2>3. 4 * b * n = 4 * (b * n)
    BY <1>1, <1>2
  <2> QED
    BY <1>1, <2>2, <2>3 DEF s, b
<1> QED
  BY <1>4, <1>5, <1>6

LEMMA EqualSamplesAreSteady ==
  ASSUME NEW n, NEW values, Samples(n, values), MinOf(values) = MaxOf(values)
  PROVE  DetectPattern(values)[1] = "steady"
<1> DEFINE v == MaxOf(values)
           s == Sum(values)
           q == Sum(Squares(values))
<1>1. /\ n \in Nat \ {0} /\ Len(values) = n
      /\ DOMAIN values = 1 .. n /\ values \in [1 .. n -> Nat]
  BY ArithmeticAssumption DEF Samples
<1>2. v \in Nat /\ \A i \in 1 .. n : values[i] = v
  <2>1. /\ MinOf(values) \in Nat /\ v \in Nat
        /\ \A i \in 1 .. n : MinOf(values) <= values[i] /\ values[i] <= v
    BY SamplesInRange
  <2> QED
    BY <1>1, <2>1
<1> HIDE DEF v
<1>3. s = v * n
  BY <1>1, <1>2, SumConstant
<1>4. q = (v * v) * n
  <2>1. v * v \in Nat
    BY <1>2
  <2>2. DOMAIN Squares(values) = 1 .. n /\ \A i \in 1 .. n : Squares(values)[i] = v * v
    BY <1>1, <1>2 DEF Squares
  <2> QED
    BY <1>1, <2>1, <2>2, SumConstant
<1>5. Spread(values) = n * q - s * s
  BY <1>1 DEF Spread, Squares
<1> HIDE DEF s, q
<1>6. s \in Nat /\ Spread(values) = 0
  <2>1. n * ((v * v) * n) = (v * n) * (v * n)
    BY <1>1, <1>2
  <2> QED
    BY <1>1, <1>2, <1>3, <1>4, <1>5, <2>1
<1>7. DetectPattern(values)[1] =
        IF 5 * 5 * 0 < 1 * 1 * s * s /\ 2 * s < 3 * s THEN "steady"
        ELSE IF 2 * 2 * 0 > 1 * 1 * s * s \/ s > 3 * s THEN "bursty"
        ELSE IF s > 0 /\ ~(5 * 5 * 0 < 1 * 1 * s * s) /\ ~(2 * 2 * 0 > 1 * 1 * s * s)
             THEN "scheduled" ELSE "steady"
  BY <1>1, <1>3, <1>6 DEF DetectPattern, s, v
<1>8. s > 0 => s * s > 0
  BY <1>6
<1> QED
  BY <1>6, <1>7, <1>8

LEMMA BurstsStep == AnalyzeMetric => BurstsHavePeaks'
<1> SUFFICES ASSUME NEW n \in 1 .. MaxSamples, NEW values \in [1 .. n -> 0 .. MaxValue],
                    Compute("metric", values,
                      [min |-> 100 * MinOf(values), p50 |-> Percentile(values, 50),
                       p90 |-> Percentile(values, 90), p95 |-> Percentile(values, 95),
                       p99 |-> Percentile(values, 99), max |-> 100 * MaxOf(values),
                       pattern |-> DetectPattern(values)])
             PROVE  BurstsHavePeaks'
  BY DEF AnalyzeMetric
<1>1. Samples(n, values)
  BY ArithmeticAssumption DEF Samples
<1>2. /\ in' = values
      /\ out'.min = 100 * MinOf(values) /\ out'.max = 100 * MaxOf(values)
      /\ out'.pattern = DetectPattern(values)
  BY DEF Compute
<1>3. DetectPattern(values)[1] = "bursty" =>
        4 * MaxOf(values) * Len(values) > 5 * Sum(values)
  BY <1>1, BurstsArePeaks
<1>4. 100 * MinOf(values) = 100 * MaxOf(values) => DetectPattern(values)[1] = "steady"
  <2>1. MinOf(values) \in Nat /\ MaxOf(values) \in Nat
    BY <1>1, SamplesInRange
  <2>2. 100 * MinOf(values) = 100 * MaxOf(values) => MinOf(values) = MaxOf(values)
    BY <2>1
  <2> QED
    BY <1>1, <2>2, EqualSamplesAreSteady
<1> QED
  BY <1>2, <1>3, <1>4 DEF BurstsHavePeaks

-----------------------------------------------------------------------------
\* A property is about results of its own kinds, and Clear leaves no result.
Proved ==
  /\ PercentagesAddUp /\ MemoryNearTruth /\ PercentilesCover /\ BurstsHavePeaks /\ HeadroomIsKept
  /\ AdviceAgrees /\ TablesHaveNoGaps

LEMMA OtherKinds ==
  /\ kind # "cpu" => PercentagesAddUp
  /\ kind # "memory" => MemoryNearTruth
  /\ kind # "metric" => PercentilesCover /\ BurstsHavePeaks
  /\ kind # "cpus" /\ kind # "gigabytes" => HeadroomIsKept
  /\ kind # "cpus" /\ kind # "gigabytes" /\ kind # "containers" => AdviceAgrees
  /\ kind # "instances" => TablesHaveNoGaps
<1>1. kind # "cpu" => PercentagesAddUp
  BY DEF PercentagesAddUp
<1>2. kind # "memory" => MemoryNearTruth
  BY DEF MemoryNearTruth
<1>3. kind # "cpus" /\ kind # "gigabytes" => HeadroomIsKept
  BY DEF HeadroomIsKept
<1>4. kind # "cpus" /\ kind # "gigabytes" /\ kind # "containers" => AdviceAgrees
  <2>1. kind # "cpus" => CPUAdviceAgrees
    BY DEF CPUAdviceAgrees
  <2>2. kind # "gigabytes" => MemoryAdviceAgrees
    BY DEF MemoryAdviceAgrees
  <2>3. kind # "containers" => InsightsAgree
    BY DEF InsightsAgree
  <2> QED
    BY <2>1, <2>2, <2>3 DEF AdviceAgrees
<1>5. kind # "instances" => TablesHaveNoGaps
  BY DEF TablesHaveNoGaps
<1>6. kind # "metric" => PercentilesCover /\ BurstsHavePeaks
  BY DEF PercentilesCover, BurstsHavePeaks
<1> QED
  BY <1>1, <1>2, <1>3, <1>4, <1>5, <1>6

\* The same of the next state.
LEMMA OtherKindsNext ==
  /\ kind' # "cpu" => PercentagesAddUp'
  /\ kind' # "memory" => MemoryNearTruth'
  /\ kind' # "metric" => PercentilesCover' /\ BurstsHavePeaks'
  /\ kind' # "cpus" /\ kind' # "gigabytes" => HeadroomIsKept'
  /\ kind' # "cpus" /\ kind' # "gigabytes" /\ kind' # "containers" => AdviceAgrees'
  /\ kind' # "instances" => TablesHaveNoGaps'
<1>1. kind' # "cpu" => PercentagesAddUp'
  BY DEF PercentagesAddUp
<1>2. kind' # "memory" => MemoryNearTruth'
  BY DEF MemoryNearTruth
<1>3. kind' # "cpus" /\ kind' # "gigabytes" => HeadroomIsKept'
  BY DEF HeadroomIsKept
<1>4. kind' # "cpus" /\ kind' # "gigabytes" /\ kind' # "containers" => AdviceAgrees'
  <2>1. kind' # "cpus" => CPUAdviceAgrees'
    BY DEF CPUAdviceAgrees
  <2>2. kind' # "gigabytes" => MemoryAdviceAgrees'
    BY DEF MemoryAdviceAgrees
  <2>3. kind' # "containers" => InsightsAgree'
    BY DEF InsightsAgree
  <2> QED
    BY <2>1, <2>2, <2>3 DEF AdviceAgrees
<1>5. kind' # "instances" => TablesHaveNoGaps'
  BY DEF TablesHaveNoGaps
<1>6. kind' # "metric" => PercentilesCover' /\ BurstsHavePeaks'
  BY DEF PercentilesCover, BurstsHavePeaks
<1> QED
  BY <1>1, <1>2, <1>3, <1>4, <1>5, <1>6

LEMMA InvInit == Init => Proved
BY OtherKinds DEF Init, Proved

LEMMA InvStep == Proved /\ [Next]_vars => Proved'
<1> SUFFICES ASSUME Proved, [Next]_vars PROVE Proved'
  OBVIOUS
<1> USE DEF Proved
<1>2. CASE CollectCPU
  <2>1. kind' = "cpu"
    BY <1>2 DEF CollectCPU, Compute
  <2> QED
    BY OtherKindsNext, <1>2, <2>1, CPUStep
<1>3. CASE CollectMemory \/ CollectSwap \/ CollectContainerMemory
  <2>1. kind' = "memory"
    BY <1>3 DEF CollectMemory, CollectSwap, CollectContainerMemory, Compute
  <2> QED
    BY OtherKindsNext, <1>3, <2>1, CollectMemoryStep, CollectSwapStep, CollectContainerMemoryStep
<1>4. CASE AnalyzeMetric
  <2>1. kind' = "metric"
    BY <1>4 DEF AnalyzeMetric, Compute
  <2> QED
    BY OtherKindsNext, <1>4, <2>1, PercentilesStep, BurstsStep
<1>5. CASE SizeCPU
  <2>1. kind' = "cpus"
    BY <1>5 DEF SizeCPU, Compute
  <2> QED
    BY OtherKindsNext, <1>5, <2>1, SizeCPUStep
<1>6. CASE SizeMemory
  <2>1. kind' = "gigabytes"
    BY <1>6 DEF SizeMemory, Compute
  <2> QED
    BY OtherKindsNext, <1>6, <2>1, SizeMemoryStep
<1>7. CASE SuggestInstances
  <2>1. kind' = "instances"
    BY <1>7 DEF SuggestInstances, Compute
  <2> QED
    BY OtherKindsNext, <1>7, <2>1, SuggestStep
<1>8. CASE CompareContainers
  <2>1. kind' = "containers"
    BY <1>8 DEF CompareContainers, Compute
  <2> QED
    BY OtherKindsNext, <1>8, <2>1, CompareStep
<1>9. CASE Clear
  <2>1. kind' = "nothing"
    BY <1>9 DEF Clear
  <2> QED
    BY OtherKindsNext, <2>1
<1>10. CASE UNCHANGED vars
  <2>1. UNCHANGED <<kind, in, out>>
    BY <1>10 DEF vars
  <2>2. PercentagesAddUp' /\ MemoryNearTruth' /\ TablesHaveNoGaps'
    BY <2>1 DEF PercentagesAddUp, Gain, MemoryNearTruth, TablesHaveNoGaps
  <2>3. HeadroomIsKept'
    <3> DEFINE Kept(k, i, o) ==
          k \in {"cpus", "gigabytes"} /\ i.current > 0 =>
            LET unit == IF k = "cpus" THEN Whole ELSE Precision * Whole
                need == Need(i.current, i.p, i.headroom)
            IN  /\ o.size * unit >= Least(need)
                /\ (o.size - 1) * unit < Most(need) \/ (k = "cpus" /\ o.size = 1)
    <3>1. Kept(kind, in, out)
      BY DEF HeadroomIsKept
    <3>2. Kept(kind', in', out') => HeadroomIsKept'
      BY DEF HeadroomIsKept
    <3> HIDE DEF Kept
    <3> QED
      BY <2>1, <3>1, <3>2
  <2>4. AdviceAgrees'
    <3>1. CPUAdviceAgrees'
      BY <2>1 DEF AdviceAgrees, CPUAdviceAgrees
    <3>2. MemoryAdviceAgrees'
      BY <2>1 DEF AdviceAgrees, MemoryAdviceAgrees
    <3>3. InsightsAgree'
      BY <2>1 DEF AdviceAgrees, InsightsAgree
    <3> QED
      BY <3>1, <3>2, <3>3 DEF AdviceAgrees
  <2>5. PercentilesCover'
    BY Zenon, <2>1 DEF PercentilesCover
  <2>6. BurstsHavePeaks'
    BY Zenon, <2>1 DEF BurstsHavePeaks
  <2> QED
    BY <2>2, <2>3, <2>4, <2>5, <2>6
<1> QED
  BY <1>2, <1>3, <1>4, <1>5, <1>6, <1>7, <1>8, <1>9, <1>10 DEF Next

LEMMA Invariance == Spec => []Proved
BY InvInit, InvStep, PTL DEF Spec

-----------------------------------------------------------------------------
(***************************************************************************)
(* For counters up to a fifth of the word: no difference of jiffies wraps  *)
(* but that of an iowait that decreases, nothing is divided by zero, the   *)
(* parts of a CPU add up to at most 100 percent, and cpu.usage is between 0*)
(* and 100 also if iowait decreases by no more than busy time grows        *)
(* (cpu.go:124-177).                                                       *)
(***************************************************************************)
THEOREM CPUPercentages == Spec => []PercentagesAddUp
<1>1. Proved => PercentagesAddUp
  BY DEF Proved
<1> QED
  BY <1>1, Invariance, PTL

(***************************************************************************)
(* For any number of pages: if no more change their kind during a reading  *)
(* of /proc/meminfo than are used, memory.used does not wrap and is off by *)
(* those at most (memory.go:81-94).                                        *)
(***************************************************************************)
THEOREM MemoryIsNear == Spec => []MemoryNearTruth
<1>1. Proved => MemoryNearTruth
  BY DEF Proved
<1> QED
  BY <1>1, Invariance, PTL

(***************************************************************************)
(* For any number of samples of any size: the percentiles are in order and *)
(* between the extremes, and P95 covers 95 percent of the samples up to    *)
(* the one that interpolation costs (analyzer.go:70-75, 215-228).          *)
(***************************************************************************)
THEOREM PercentilesAreCovered == Spec => []PercentilesCover
<1>1. Proved => PercentilesCover
  BY DEF Proved
<1> QED
  BY <1>1, Invariance, PTL

(***************************************************************************)
(* For any number of samples of any size: none but a workload with a peak  *)
(* a quarter above its mean is called bursty, since the sum of the squares *)
(* is at most the largest sample times the sum; equal samples are steady   *)
(* (analyzer.go:139-161).                                                  *)
(***************************************************************************)
THEOREM BurstyHasAPeak == Spec => []BurstsHavePeaks
<1>1. Proved => BurstsHavePeaks
  BY DEF Proved
<1> QED
  BY <1>1, Invariance, PTL

(***************************************************************************)
(* For any usage, headroom and current size, whatever fractions of a       *)
(* percent and of a gigabyte they are, and any bound on the rounding of    *)
(* float64: the recommended size has room for both and no more than the    *)
(* rounding above them (recommender.go:65-66, 70-79, 114-116).             *)
(***************************************************************************)
THEOREM SizesKeepHeadroom == Spec => []HeadroomIsKept
<1>1. Proved => HeadroomIsKept
  BY DEF Proved
<1> QED
  BY <1>1, Invariance, PTL

(***************************************************************************)
(* For any usage, headroom and current size, in whatever fractions: the    *)
(* advice on a size does not contradict what is said of the usage if what  *)
(* the threshold of the observation needs leaves room for whole units; this*)
(* holds up to the threshold, since a size grows with the usage, rounded or*)
(* not.  And for any number of containers, in any order that sort.Slice may*)
(* leave them, the heaviest is the one named, and none that uses more than *)
(* 60 percent of the CPU the host uses is passed over                      *)
(* (recommender.go:70-95, 114-129, 167-214, container_analyzer.go:184-206).*)
(***************************************************************************)
THEOREM AdviceIsConsistent == Spec => []AdviceAgrees
<1>1. Proved => AdviceAgrees
  BY DEF Proved
<1> QED
  BY <1>1, Invariance, PTL

(***************************************************************************)
(* Up to eight cores with four gigabytes each the tables of instance types *)
(* have an answer (recommender.go:145-154, 235-324).                       *)
(***************************************************************************)
THEOREM EverySizeHasAType == Spec => []TablesHaveNoGaps
<1>1. Proved => TablesHaveNoGaps
  BY DEF Proved
<1> QED
  BY <1>1, Invariance, PTL
=============================================================================
