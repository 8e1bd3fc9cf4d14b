SPECIFICATION Spec
CONSTANTS
  divider = divider
  other = other
  Callers <- OneCaller
  Initialisers <- OneCaller
  Ops <- ForwardDit
  Logs = {2, 3}
  InitLogs = {3}
  Failures = {}
  QueueBound = 3
INVARIANTS
  ResultsRight
