SPECIFICATION Spec
CONSTANTS
  Collector = {cpu, disk}
  Cleaner = Cleaner
  Nobody = Nobody
  Retention = 0
  MaxTime = 1
  MaxBatch = 2
  MaxRound = 1
  MaxStarts = 2
INVARIANTS
  TypeOK
  CloseAfterWriters
  AllOrNothing
PROPERTIES
  DeletesOnlyExpired
  ShutdownCompletes
\* The system is at rest once no start is left.
CHECK_DEADLOCK FALSE
