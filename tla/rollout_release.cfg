SPECIFICATION Spec
CONSTANTS
  Tools <- FiveTools
  Sqls = {"stale", "fixed"}
  Runnable = {"stale", "fixed"}
  Matching = {"fixed"}
  Long = {"fixed"}
  ReadOnly = {"stale", "fixed"}
  Stale = "stale"
  Questions = {"which"}
  Answerable = {"which"}
  MaxQuestions = 1
  Modes <- TwoModes
  MaxTurns = 5
  Profiles <- AllProfiles
  Weights <- FirstActionWeights
  TokenCosts = {0, 10}
INVARIANTS
  ReleasedAtEnd
  EveryCallLogged
  GuardsKeepProtocol
  ShortcutIsNegative
PROPERTIES
  RolloutEnds
CHECK_DEADLOCK FALSE
