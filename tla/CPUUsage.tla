------------------------------ MODULE CPUUsage ------------------------------
(***************************************************************************)
(* The percentages of pkg/collector/cpu.go for one line of /proc/stat, from*)
(* two readings of its counters of jiffies.  The fields that are not       *)
(* reported by themselves (nice, irq, softirq, steal) are one, other.      *)
(***************************************************************************)
EXTENDS Unsigned

Fields == {"user", "system", "idle", "iowait", "other"}

Total(s) == s["user"] + s["system"] + s["idle"] + s["iowait"] + s["other"]

\* Mutant of CalculateCPUUsage: no check for a difference of zero.
CalculateAlways(last, current) ==
  [total |-> Minus(Total(current), Total(last)),
   part |-> [f \in Fields |-> Minus(current[f], last[f])]]

\* calculateCPUUsage; cpu.usage is 100 minus the percentage of idle.
CalculateCPUUsage(last, current) ==
  IF Minus(Total(current), Total(last)) = 0 THEN None
  ELSE [total |-> Minus(Total(current), Total(last)),
        part |-> [f \in Fields |-> Minus(current[f], last[f])]]
=============================================================================
