SPECIFICATION Spec
CONSTANTS
  Client = {c1, c2, c3}
  Nobody = Nobody
  Row <- MCRow
  Batch <- MCBatch
  Cutoff = {1, 2, 3}
INVARIANTS
  TypeOK
  LockDiscipline
PROPERTIES
  ImplementsMetricStore
  CallsReturn
