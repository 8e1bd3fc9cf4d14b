SPECIFICATION Spec
CONSTANTS
  Rho = 8
  Polys <- SomePolys
  Failures <- Everywhere
CHECK_DEADLOCK FALSE
INVARIANTS
  TypeOK
  FreedOnce
  NothingLeft
  StreamSafe
PROPERTY
  Refinement
