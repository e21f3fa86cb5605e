SPECIFICATION Spec
CONSTANTS
  Name = {"sda", "sdb", "sda1"}
  Configured = {}
  Excluded <- EndsInDigit
  Modulus = 16
  MaxWork = 1
INVARIANTS
  TypeOK
  EachUnitOnce
  ForgetsAbsent
