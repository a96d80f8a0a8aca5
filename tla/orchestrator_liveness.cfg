SPECIFICATION Spec
CONSTANTS
  Sessions = {s1, s2}
  MaxConcurrent = 1
  MaxTurns = 1
  MaxToolCalls = 1
  MaxCancels = 0
  MaxStops = 1
  HostFaults = FALSE
PROPERTIES
  StartedRunEnds
CHECK_DEADLOCK FALSE
