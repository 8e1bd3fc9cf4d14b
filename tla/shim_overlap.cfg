SPECIFICATION Spec
CONSTANTS
  divider = divider
  other = other
  Callers <- BothCallers
  Initialisers <- BothCallers
  Ops <- TwoPlain
  Logs = {2, 3}
  InitLogs = {3}
  Failures = {}
  QueueBound = 3
INVARIANTS
  GrantsHold
