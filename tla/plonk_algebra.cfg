SPECIFICATION Spec
CONSTANTS
  Prime = 193
  Root = 5
  Tau = 59
  EvalChunks = 3
  Circuits <- AllCircuits
  Blindings <- SomeBlindings
  Randomizers <- SomeRandomizers
  HashValues <- SomeHashes
  GammaBetas <- SomeGammaBetas
  Alphas <- SomeAlphas
  Zetas <- SomeZetas
CHECK_DEADLOCK FALSE
INVARIANTS
  TypeOK
  DigestsMatch
  QuotientFits
  VerifierAccepts
  DeviceAgrees
