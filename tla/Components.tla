----------------------------- MODULE Components -----------------------------
(***************************************************************************)
(* Parts that share no state, with each other or with the sessions: the     *)
(* answers that recovery examples teach (this module extends                *)
(* RecoverySupervision), and, by name, the switching of the served model,   *)
(* the review of replay candidates, the lineage of the databases, the       *)
(* translation of questions, the drift factory with the catalogue, and the  *)
(* generation of the corpus.                                                *)
(***************************************************************************)
EXTENDS RecoverySupervision

CONSTANTS
  None,
  Catalog, LoadedBase, Default, Callers, Sessions, MaxFaults,
  ReviewCandidates, Decisions, MaxDecisions, MaxCrashes,
  TaskDatabases, Frozen, LocalDatabases, HistoricalReserved,
  FreshTrain, FreshTune, FreshBlind, CurrentTrain,
  TranslationRequests, Literals, EndQuoted, Spells, MaxLiterals, MaxLoadFailures,
  Views, Symbols, Synonym, Prefix, SourceDatabases, Queries, AuditFlag, Metrics, MaxRecords,
  Small, Coverage, Target, CoverageLimit, VariantLimit, DryRounds, MaxRuns

VARIABLES
  slot, stray, lora_request, metadata, act, stage, rowModel, disturbed, builtDuring, faults,
  failed, mined, reviews, closed, tool, acked, durable, decided, crashes,
  datasetV2, stage6, stage7, scaleup, sealed, traced, audit,
  text, locale, progress, answer, holder, tokenizer, weights, loadFailures,
  database, sql, pending, records, serving,
  buildable, rowsFile, rejectedFile, rows, variants, place, at, before, dry, written, runs

Activation == INSTANCE ModelActivation
Replay == INSTANCE ReplayReview WITH Candidates <- ReviewCandidates
Lineage == INSTANCE DataLineage WITH
  Tasks <- TaskDatabases, Candidates <- LocalDatabases, v2 <- datasetV2, task <- traced
Translator == INSTANCE Translation WITH
  Requests <- TranslationRequests, phase <- progress, model <- weights
Factory == INSTANCE DriftFactory WITH Databases <- SourceDatabases
Generation == INSTANCE TaskGeneration

ASSUME TasksSound == TasksAssumption
ASSUME RegistrySound == Activation!RegistryAssumption
ASSUME DatabasesSound == Lineage!LineageAssumption
ASSUME LiteralsSound == Translator!TranslationAssumption
ASSUME SourcesSound == Factory!FactoryAssumption
ASSUME CorpusPlanned == Generation!GenerationAssumption

\* See ModelActivation, ReplayReview, DataLineage, Translation, DriftFactory and
\* TaskGeneration.
ActivationConsistent == Activation!ActivationConsistent
SessionKeepsItsModel == Activation!SessionKeepsItsModel
ShowsLastDecision == Replay!ShowsLastDecision
LineageIsolated == Lineage!LineageIsolated
LiteralsSurvive == Translator!LiteralsSurvive
CatalogAgrees == Factory!CatalogAgrees
AuditedRepairAgrees == Factory!AuditedRepairAgrees
CorpusSound == Generation!CorpusSound
=============================================================================
