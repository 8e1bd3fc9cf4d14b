SPECIFICATION Spec
CONSTANTS
  Rho = 8
  Polys <- SomePolys
  GpuFailures <- SetupOnly
CHECK_DEADLOCK FALSE
INVARIANTS
  TypeOK
  NumeratorCorrect
  RestoredExactly
PROPERTY
  NumeratorEnds
