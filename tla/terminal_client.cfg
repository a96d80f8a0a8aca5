SPECIFICATION Spec
CONSTANTS
  plain = plain
  other = other
  both = both
  d1 = d1
  d2 = d2
  Questions = {plain, other, both}
  Dbs = {d1, d2}
  DefaultDb = d1
  Refers <- MCRefers
  Models = {m2}
  FirstModel = m1
  None = None
  MaxFaults = 1
  MaxGestures = 1
INVARIANTS
  OneRunAtATime
  QuestionKeepsItsDatabase
  EveryQuestionAccounted
  RoundsDoNotOverlap
PROPERTIES
  QueuedQuestionLeaves
CHECK_DEADLOCK FALSE
