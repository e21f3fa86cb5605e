SPECIFICATION Spec
CONSTANTS
  Container = {web, batch}
  None = None
  Modulus = 16
  MaxUse = 1
  ReadsFail = TRUE
  SameID = TRUE
INVARIANTS
  TypeOK
  ExactAfterReading
  ForgetsOldContainers
  ExactOrTotal
SYMMETRY Symmetry
