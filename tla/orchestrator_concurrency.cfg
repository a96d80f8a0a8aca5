SPECIFICATION Spec
CONSTANTS
  Sessions = {s1, s2}
  MaxConcurrent = 1
  MaxTurns = 1
  MaxToolCalls = 1
  MaxCancels = 1
  MaxStops = 1
  HostFaults = FALSE
SYMMETRY Symmetry
INVARIANTS
  TypeOK
  PermitsAccounted
  NoStrandedSession
  SandboxOwned
CHECK_DEADLOCK FALSE
