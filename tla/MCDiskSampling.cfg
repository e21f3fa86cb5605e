SPECIFICATION SamplingSpec
CONSTANTS
  Interval = 2
  MaxCall = 5
  MaxTime = 12
  None = None
INVARIANTS
  TypeOK
  ReadingsKeepPace
  ExactWhenPrompt
\* The clock stops at its bound.
CHECK_DEADLOCK FALSE
