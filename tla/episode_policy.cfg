SPECIFICATION Spec
CONSTANTS
  Profiles <- AllProfiles
  Sqls <- AllSqls
  NormalForm <- MCNormalForm
  Runnable = {"good", "GOOD", "other", "fixed", "stale"}
  Matching = {"fixed"}
  Writing = {"delete"}
  Blank = {"blank"}
  Topics = {"all", "one"}
INVARIANTS
  RecoveryContract
  PoliciesAgree
  StuckOnlyByRerun
  QueryContract
CHECK_DEADLOCK FALSE
