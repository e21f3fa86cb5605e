SPECIFICATION Spec
CONSTANTS
  Core = {}
  Container = {web, batch}
  Aggregate = Aggregate
  Any = Any
  None = None
  Period = 1
  Retention = 1
  MaxTime = 2
  MaxBatches = 3
INVARIANTS
  TypeOK
  SeesWholeWindow
  ListedSamplesCount
  RecommendsFromSamples
PROPERTY
  AnalysisEnds
