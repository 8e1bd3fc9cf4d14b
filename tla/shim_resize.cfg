SPECIFICATION Spec
CONSTANTS
  divider = divider
  other = other
  Callers <- OneCaller
  Initialisers <- OneCaller
  Ops <- DividerOps
  Logs = {2, 3}
  InitLogs = {2, 3}
  Failures = {"malloc l1"}
  QueueBound = 3
INVARIANTS
  GrantsHold
