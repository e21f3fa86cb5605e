SPECIFICATION Spec
CONSTANTS
  Collector = {cpu, disk, container}
INVARIANTS
  TypeOK
  WaitGroupExact
  StopMeansQuiet
PROPERTIES
  StopTerminates
  KeepsSampling
\* The manager is at rest once Stop has returned.
CHECK_DEADLOCK FALSE
