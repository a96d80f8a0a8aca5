SPECIFICATION MCSpec
CONSTANTS
  None = None
  base = base
  plain = plain
  tuned = tuned
  Catalog <- MCCatalog
  LoadedBase = base
  Default = "plain"
  Callers = {c1, c2}
  Sessions = {s1, s2}
  MaxFaults = 2
  ReviewCandidates = {k1, k2}
  Decisions = {"approve", "reject"}
  MaxDecisions = 4
  MaxCrashes = 2
  TranslationRequests = {r1, r2}
  Literals = {"quoted", "spelling"}
  EndQuoted = {"quoted"}
  Spells <- MCSpells
  MaxLiterals = 2
  MaxLoadFailures = 2
  Views <- MCViews
  percent = percent
  Symbols = {percent}
  Synonym <- MCSynonym
  Prefix = "canonical"
  SourceDatabases <- MCDatabases
  Queries <- MCQueries
  AuditFlag <- MCAuditFlag
  Metrics <- MCMetrics
  MaxRecords = 2
  Small <- MCSmall
  Coverage <- MCCoverage
  Target = 4
  CoverageLimit = 1
  VariantLimit = 2
  DryRounds = 2
  MaxRuns = 3
  TaskDatabases = {"a", "b", "c", "d", "e", "f", "g"}
  Frozen = {"a"}
  LocalDatabases = {"a", "b", "c", "d", "e", "f", "g", "h", "i", "j"}
  HistoricalReserved = {"a", "b"}
  FreshTrain = 1
  FreshTune = 1
  FreshBlind = 1
  CurrentTrain = 5
  Tasks <- MCTasks
  MaxEvents = 5
INVARIANTS
  ActivationConsistent
  ShowsLastDecision
  LiteralsSurvive
  CatalogAgrees
  AuditedRepairAgrees
  CorpusSound
  LineageIsolated
  TaughtIsOffered
  TerminalStateTaught
PROPERTIES
  SessionKeepsItsModel
CHECK_DEADLOCK FALSE
