SPECIFICATION StreamSpec
CONSTANTS
  Sessions = {s1}
  MaxConcurrent = 1
  MaxTurns = 1
  MaxToolCalls = 1
  MaxCancels = 1
  MaxStops = 0
  HostFaults = FALSE
  MaxOpens = 1
PROPERTIES
  EventReachesSubscriber
  StreamEnds
CHECK_DEADLOCK FALSE
