SPECIFICATION Spec
CONSTANTS
  divider = divider
  other = other
  Callers <- BothCallers
  Initialisers <- OtherCaller
  Ops <- ProverOps
  Logs = {2, 3, 28}
  InitLogs = {28}
  Failures = {"domain", "sync", "malloc l1"}
  QueueBound = 3
INVARIANTS
  TypeOK
  GrantsHold
  ResultsRight
