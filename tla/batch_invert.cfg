SPECIFICATION Spec
CONSTANTS
  F <- Units
  One = 1
  Mul <- MulP
  Inv <- InvP
  Lengths <- UpToFive
  CPUs <- SomeCPUs
  Threshold = 3
CHECK_DEADLOCK FALSE
INVARIANTS
  TypeOK
  Inverted
  ChunksPartition
  NoRace
PROPERTY
  Returns
