SPECIFICATION Spec
CONSTANTS
  Core = {core0}
  Container = {web}
  Aggregate = Aggregate
  Any = Any
  None = None
  Period = 1
  Retention = 1
  MaxTime = 2
  MaxBatches = 3
INVARIANT
  OneSamplePerCollection
