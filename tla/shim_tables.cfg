SPECIFICATION Spec
CONSTANTS
  divider = divider
  other = other
  Callers <- OneCaller
  Initialisers <- OneCaller
  Ops <- DividerOps
  Logs = {2, 3}
  InitLogs = {3}
  Failures = {"malloc l2"}
  QueueBound = 3
INVARIANTS
  ResultsRight
