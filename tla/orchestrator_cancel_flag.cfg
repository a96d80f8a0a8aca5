SPECIFICATION Spec
CONSTANTS
  Sessions = {s1}
  MaxConcurrent = 1
  MaxTurns = 2
  MaxToolCalls = 2
  MaxCancels = 1
  MaxStops = 0
  HostFaults = FALSE
INVARIANTS
  CancelledRowSaysSo
CHECK_DEADLOCK FALSE
