SPECIFICATION Spec
CONSTANTS
  cpu = cpu
  disk = disk
  Collector = {cpu, disk}
  Process = Process
  DefaultInterval = 1
  DefaultRetention = 4
  NoFile = NoFile
  BadFile = BadFile
  Failed = Failed
  Period = 3
  MaxAge = 8
  Files <- MCFiles
INVARIANT
  OverstayBounded
PROPERTIES
  DeletesAsTold
  ExpiredAreDeleted
  ComesUp
