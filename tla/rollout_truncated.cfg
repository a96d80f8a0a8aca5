SPECIFICATION Spec
CONSTANTS
  Tools <- FiveTools
  Sqls = {"broken", "wide", "fixed"}
  Runnable = {"wide", "fixed"}
  Matching = {"fixed"}
  Long = {"wide"}
  ReadOnly = {"broken", "wide", "fixed"}
  Stale = "wide"
  Questions = {"which"}
  Answerable = {"which"}
  MaxQuestions = 1
  Modes <- ThreeModes
  MaxTurns = 4
  Profiles <- AllProfiles
  Weights <- FirstActionWeights
  TokenCosts = {0, 10}
INVARIANTS
  MismatchForcesRecovery
CHECK_DEADLOCK FALSE
