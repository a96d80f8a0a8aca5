---------------------------- MODULE MCComponents ----------------------------
(* The components that share no state with the sessions or with each other, checked
   one at a time: `focus` names the one that moves.  Beside the sessions stand model
   activation, translation and the replay review; the data pipeline has the drift
   factory with the catalogue that reads its episodes back, the corpus generator,
   the lineage of the databases and the recovery examples. *)
EXTENDS Components, TLC

CONSTANTS base, plain, tuned, percent

VARIABLE focus

--------------------------------------------------------------------------
(* Beside the sessions. *)

\* The loaded base model with no adapter, with two adapters, an adapter that was
\* not exported, and a model on another base.
MCCatalog == <<
  [id |-> "base", base |-> base, adapter |-> None, onDisk |-> TRUE],
  [id |-> "plain", base |-> base, adapter |-> plain, onDisk |-> TRUE],
  [id |-> "tuned", base |-> base, adapter |-> tuned, onDisk |-> TRUE],
  [id |-> "missing", base |-> base, adapter |-> "missing", onDisk |-> FALSE],
  [id |-> "foreign", base |-> None, adapter |-> None, onDisk |-> TRUE]>>

\* A literal whose text spells the second placeholder.
MCSpells == [literal \in Literals |-> IF literal = "spelling" THEN {2} ELSE {}]

--------------------------------------------------------------------------
(* Two databases with a view and eleven cached queries: joins, aliases and qualifiers, wildcards, a
   quoted identifier, a column without a type, a name with a sign, indexed columns, names that collide
   with a replacement, and names that stand for two things. *)
NoName == <<>>
N(token) == <<token>>
Col(name, type, cells, indexed) ==
  [name |-> N(name), type |-> type, cells |-> [of |-> cells, asText |-> FALSE], indexed |-> indexed]

MCSynonym == [id |-> "key", code |-> "key", name |-> "label", order |-> "purchase", label |-> "title"]

\* `id` and `code` compete for `key`; `name` has no type; `total` exists under both tables.
Shop == N("order") :> <<Col("id", "INTEGER", 1, TRUE), Col("code", "TEXT", 2, FALSE), Col("total", "REAL", 3, FALSE)>>
     @@ N("user") :> <<Col("uid", "INTEGER", 4, FALSE), Col("name", "", 5, FALSE), Col("total", "REAL", 6, FALSE),
                       [Col("code", "TEXT", 7, FALSE) EXCEPT !.name = <<"code", percent>>]>>
Library == N("order") :> <<Col("code", "", 1, TRUE), Col("key", "TEXT", 2, FALSE)>>
        @@ N("name") :> <<Col("name", "TEXT", 3, FALSE), Col("code", "TEXT", 4, FALSE)>>
MCDatabases == {Shop, Library}

\* A count that a view shows, without a declared type; its name is the replacement of `name`.
MCViews == N("label") :> << <<N("number"), "">> >>

C(qualifier, name) == [kind |-> "column", qualifier |-> qualifier, name |-> N(name), quoted |-> FALSE]
Quoted(name) == [kind |-> "column", qualifier |-> NoName, name |-> N(name), quoted |-> TRUE]
Star(qualifier) == [kind |-> "star", qualifier |-> qualifier, name |-> NoName, quoted |-> FALSE]
Metric(expression) == [kind |-> "metric", name |-> expression, qualifier |-> NoName, quoted |-> FALSE]
From(table, alias) == [table |-> N(table), alias |-> alias]
Q(from, select, where) == [from |-> from, select |-> select, where |-> where]
o == N("o")
u == N("u")

MCAuditFlag == N("audit_flag")
MCMetrics == {<<N("net"), N("gross")>>, <<N("gross"), N("net")>>}

MCQueries == {
  Q(<<From("order", NoName)>>, <<C(NoName, "code")>>, <<C(NoName, "id")>>),
  Q(<<From("order", o), From("user", u)>>, <<C(o, "id"), C(u, "name")>>, <<C(o, "total")>>),
  Q(<<From("order", NoName), From("user", u)>>, <<C(N("order"), "code")>>, <<C(u, "uid")>>),
  Q(<<From("order", NoName)>>, <<Star(NoName)>>, <<C(NoName, "code")>>),
  Q(<<From("order", o), From("user", NoName)>>, <<Star(o), C(N("user"), "name")>>, <<>>),
  Q(<<From("order", o), From("order", u)>>, <<Star(NoName)>>, <<C(o, "code")>>),
  Q(<<From("order", NoName)>>, <<Quoted("code")>>, <<C(NoName, "code")>>),
  Q(<<From("user", NoName)>>, <<Metric(N("net"))>>, <<C(NoName, "uid")>>),
  Q(<<From("user", u)>>, <<[C(u, "code") EXCEPT !.name = <<"code", percent>>, !.quoted = TRUE]>>, <<C(u, "uid")>>),
  Q(<<From("name", NoName)>>, <<C(NoName, "name")>>, <<>>),
  Q(<<From("order", o), From("name", N("n"))>>, <<C(o, "code"), C(N("n"), "code")>>, <<C(NoName, "key")>>)}

--------------------------------------------------------------------------
(* Tasks of every profile whose stale query fails or answers wrongly, and a clean one. *)
MCTasks ==
  [profile : {"must_ask", "knowledge_only", "schema_only"}, failure : {"explicit", "silent"}]
  \cup {[profile |-> "direct_clean", failure |-> "clean"]}

MCSmall == <<"p", "q">>
MCCoverage == <<"big">>

--------------------------------------------------------------------------
activationVars == <<slot, stray, lora_request, metadata, act, stage, rowModel, disturbed, builtDuring, faults>>
reviewVars == <<failed, mined, reviews, closed, tool, acked, durable, decided, crashes>>
translationVars == <<text, locale, progress, answer, holder, tokenizer, weights, loadFailures>>
factoryVars == <<database, sql, pending, records, serving>>
generationVars ==
  <<buildable, rowsFile, rejectedFile, rows, variants, place, at, before, dry, written, runs>>
lineageVars == <<datasetV2, stage6, stage7, scaleup, sealed, traced, audit>>
serviceVars == <<activationVars, reviewVars, translationVars>>
pipelineVars == <<factoryVars, generationVars, lineageVars, vars>>
mcVars == <<focus, serviceVars, pipelineVars>>

Idle == [literals |-> <<>>, chinese |-> FALSE]

\* The parts that do not move start in one of their initial states.
MCInit ==
  /\ focus \in {"activation", "replay", "translation",
                "factory", "generation", "lineage", "supervision"}
  /\ Activation!Init /\ Lineage!Init
  /\ Replay!Init /\ (focus # "replay" => failed = {})
  /\ Factory!Init /\ (focus # "factory" => database = Shop)
  /\ Init
  /\ focus # "supervision" => task = [profile |-> "direct_clean", failure |-> "clean"]
  /\ Generation!Init /\ (focus # "generation" => buildable = {})
  /\ Translator!Init
  /\ focus # "translation" => \A r \in TranslationRequests : text[r] = Idle /\ locale[r] = "en-US"

MCNext ==
  \/ /\ focus = "activation" /\ Activation!Next
     /\ UNCHANGED <<focus, reviewVars, translationVars, pipelineVars>>
  \/ /\ focus = "replay" /\ Replay!Next
     /\ UNCHANGED <<focus, activationVars, translationVars, pipelineVars>>
  \/ /\ focus = "translation" /\ Translator!Next
     /\ UNCHANGED <<focus, activationVars, reviewVars, pipelineVars>>
  \/ /\ focus = "factory" /\ Factory!Next
     /\ UNCHANGED <<focus, generationVars, lineageVars, vars, serviceVars>>
  \/ /\ focus = "generation" /\ Generation!Next
     /\ UNCHANGED <<focus, factoryVars, lineageVars, vars, serviceVars>>
  \/ /\ focus = "lineage" /\ Lineage!Next
     /\ UNCHANGED <<focus, factoryVars, generationVars, vars, serviceVars>>
  \/ /\ focus = "supervision" /\ Next
     /\ UNCHANGED <<focus, factoryVars, generationVars, lineageVars, serviceVars>>

MCSpec == MCInit /\ [][MCNext]_mcVars
=============================================================================
