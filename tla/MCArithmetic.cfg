SPECIFICATION Spec
CONSTANTS
  Modulus = 16
  None = None
  MaxJiffies = 2
  MaxPages = 5
  MaxSamples = 5
  MaxValue = 6
  MaxCores = 36
  MaxGigabytes = 68
  Precision = 10
  Ulp = 100000
  Memory <- MCMemory
  Usage <- MCUsage
  Headroom <- MCHeadroom
  Containers = {web, batch, db}
INVARIANTS
  PercentagesAddUp
  MemoryNearTruth
  PercentilesCover
  BurstsHavePeaks
  HeadroomIsKept
  AdviceAgrees
  TablesHaveNoGaps
