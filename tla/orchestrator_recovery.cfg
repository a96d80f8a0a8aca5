SPECIFICATION Spec
CONSTANTS
  Sessions = {s1}
  MaxConcurrent = 1
  MaxTurns = 3
  MaxToolCalls = 2
  MaxCancels = 2
  MaxStops = 2
  HostFaults = TRUE
INVARIANTS
  LogGrammar
  RowMatchesLog
PROPERTIES
  TerminalRowFrozen
  ImplementsLifecycle
CHECK_DEADLOCK FALSE
