SPECIFICATION Spec
CONSTANTS
  c1 = c1
  c2 = c2
  Commitments <- TwoCommitments
CHECK_DEADLOCK FALSE
INVARIANTS
  TypeOK
  NoRace
  FormsReady
  ProofIsComplete
  ErrorIsTheCause
  NoDeadlock
PROPERTIES
  ImplementsProtocol
  Returns
  NoGoroutineLeft
