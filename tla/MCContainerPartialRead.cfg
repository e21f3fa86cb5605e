SPECIFICATION Spec
CONSTANTS
  Container = {web, batch}
  None = None
  Modulus = 16
  MaxUse = 2
  ReadsFail = TRUE
  SameID = FALSE
INVARIANTS
  DeltaFromLastReading
SYMMETRY Symmetry
