----------------------------- MODULE MemoryUsage -----------------------------
(***************************************************************************)
(* The memory of the host (pkg/collector/memory.go) and of a container     *)
(* (collectMemory of pkg/collector/container.go).  Every page is used,     *)
(* free, a buffer or cached; the kernel reads the counters of the last     *)
(* three one after the other, and pages change their kind meanwhile.       *)
(***************************************************************************)
EXTENDS Unsigned

Counters == {"free", "buffers", "cached"}
Kinds == Counters \cup {"used"}

Pages(m) == m["used"] + m["free"] + m["buffers"] + m["cached"]

\* n pages of kind a become pages of kind b.
Move(m, n, a, b) == [m EXCEPT ![a] = @ - n, ![b] = @ + n]

\* What /proc/meminfo says when the counters in late are read after a change.
MemInfo(m, changed, late) ==
  [c \in Counters |-> IF c \in late THEN changed[c] ELSE m[c]]

\* Mutant of MemUsed: the cache counts as used.
MemUsedWithCache(total, info) ==
  Minus(Minus(total, info["free"]), info["buffers"])

\* memory.used
MemUsed(total, info) ==
  Minus(Minus(Minus(total, info["free"]), info["buffers"]), info["cached"])

\* memory.usage_percent, memory.swap_usage_percent
UsagePercent(used, total) == IF total > 0 THEN Share(used, total) ELSE None

SwapUsed(swapTotal, swapFree) == Minus(swapTotal, swapFree)

\* collectMemory: container.memory.usage_percent, if memory.max is a number.
Unlimited == -1

ContainerUsagePercent(current, limit) ==
  IF limit = Unlimited THEN None ELSE UsagePercent(current, limit)
=============================================================================
