SPECIFICATION Spec
CONSTANTS
  Rho = 8
  Polys <- SomePolys
  GpuFailures <- AllPhases
CHECK_DEADLOCK FALSE
INVARIANTS
  NumeratorCorrect
