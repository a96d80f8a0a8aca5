--------------------------- MODULE DriftFactory ---------------------------
(* drift/factory.py builds training and evaluation episodes: a stale query, an audited
   change of the schema and a repaired query, kept only when execution shows that the
   change breaks the stale query and the repair restores its result. A compound
   episode chains two builders, the second on the first one's database and repair.
   Beside it, the catalogue of the service reads the episodes back: it replays a
   diff on a listing of columns (service/catalog.py) to show users and the model the
   tables and views of the database that a session will query.

   Which of the passing candidates comes first depends on the spelling of names, so
   any of them may be the one that is taken. *)
EXTENDS AuditedRepair

CONSTANTS
  Databases,     \* source databases
  Queries,       \* cached queries that seed episodes
  AuditFlag,     \* the default name of an added column
  Metrics,       \* a metric definition and the one that replaces it
  MaxRecords     \* bound: episodes written for one database

\* SQLite keeps the column names of a table apart.
IsTable(columns) ==
  /\ columns \in Seq(ToSet(columns))
  /\ \A i \in DOMAIN columns : DOMAIN columns[i] = {"name", "type", "cells", "indexed"}
  /\ \A i, j \in DOMAIN columns : columns[i].name = columns[j].name => i = j

FactoryAssumption ==
  /\ \A db \in Databases :
       /\ db # NoDatabase
       /\ DOMAIN db \intersect DOMAIN Views = {}
       /\ \A t \in DOMAIN db : IsTable(db[t])
  /\ \A q \in Queries : q.from \in Seq(ToSet(q.from))

VARIABLES
  database,      \* the source file all episodes of this state are built from
  sql,           \* the query in hand, NoQuery between two
  pending,       \* the compound builder's pair and its first half, NotCompound outside it
  records,       \* the episodes written, in order
  serving        \* what the service has loaded: NotLoaded, or what it shows or plans

factoryVars == <<database, sql, pending, records, serving>>

NoQuery == NoPlan
NotCompound == [pair |-> 0, ops |-> <<>>, repaired |-> NoQuery]
NotLoaded == [tables |-> <<>>, text |-> <<>>, plan |-> NoQuery, scenario |-> 0]

Columns(q) == {c \in ToSet(q.select) \union ToSet(q.where) : c.kind = "column"}

--------------------------------------------------------------------------
(* The builders' own, scoped, rewriting. *)

\* _table_aliases: a table's own name stays a key beside its alias; later entries win.
Physical(db, q, qualifier) ==
  LET entries == SelectSeq(q.from, LAMBDA e : e.table \in DOMAIN db /\ qualifier \in {e.table, e.alias}) IN
    IF entries = <<>> THEN NoName ELSE Last(entries).table

\* _resolve_column: an unqualified name must belong to one table of the whole
\* database, not only of the FROM list.
ResolveColumn(db, q, item) ==
  LET owners == {t \in DOMAIN db : item.name \in Names(db[t])}
      table == Physical(db, q, item.qualifier) IN
    IF item.qualifier = NoName
    THEN IF Cardinality(owners) = 1 THEN <<CHOOSE t \in owners : TRUE, item.name>> ELSE <<>>
    ELSE IF table \in owners THEN <<table, item.name>> ELSE <<>>

CandidateColumns(db, q) == {ResolveColumn(db, q, c) : c \in Columns(q)} \ {<<>>}

RewriteColumn(db, q, table, old, new) ==
  LET item(c) == IF c.kind = "column" /\ ResolveColumn(db, q, c) = <<table, old>>
                 THEN [c EXCEPT !.name = new] ELSE c IN
    [q EXCEPT !.select = [i \in DOMAIN q.select |-> item(q.select[i])],
              !.where = [i \in DOMAIN q.where |-> item(q.where[i])]]

\* Qualifiers are rewritten only when some mention of the table has no alias.
RewriteTable(q, old, new) ==
  LET bare == \E i \in DOMAIN q.from : q.from[i].table = old /\ q.from[i].alias = NoName
      item(c) == IF bare /\ c.kind # "metric" /\ c.qualifier = old THEN [c EXCEPT !.qualifier = new] ELSE c IN
    [from |-> [i \in DOMAIN q.from |-> IF q.from[i].table = old THEN [q.from[i] EXCEPT !.table = new] ELSE q.from[i]],
     select |-> [i \in DOMAIN q.select |-> item(q.select[i])],
     where |-> [i \in DOMAIN q.where |-> item(q.where[i])]]

--------------------------------------------------------------------------
(* The builders: the examples that pass a builder's checks on a database. *)

\* The stale query fails on the changed database and the repaired one gives the
\* original result.
Breaks(db, q, ex) ==
  LET changed == Materialize(db, ex.ops) IN
    /\ changed # NoDatabase
    /\ ~Answer(changed, q).ok
    /\ Answer(changed, ex.repaired) = Answer(db, q)

ColumnRenames(db, q) ==
  {ex \in {LET new == NewName(c[2], Names(db[c[1]])) IN
             [ops |-> <<[type |-> "rename_column", table |-> c[1], old_name |-> c[2], new_name |-> new]>>,
              repaired |-> RewriteColumn(db, q, c[1], c[2], new)] : c \in CandidateColumns(db, q)} :
     ex.repaired # q /\ Breaks(db, q, ex)}

TableRenames(db, q) ==
  {ex \in {LET new == NewName(t, DOMAIN db) IN
             [ops |-> <<[type |-> "rename_table", old_name |-> t, new_name |-> new]>>,
              repaired |-> RewriteTable(q, t, new)] :
           t \in {q.from[i].table : i \in DOMAIN q.from} \intersect DOMAIN db} :
     Breaks(db, q, ex)}

TypeOf(db, c) == LET type == ColumnNamed(db[c[1]], c[2]).type IN IF type = "" THEN "TEXT" ELSE type

ColumnReplacements(db, q) ==
  IF Stars(q) # {} THEN {}
  ELSE {ex \in {LET new == NewName(c[2], Names(db[c[1]])) IN
                  [ops |-> <<[type |-> "replace_column", table |-> c[1], old_name |-> c[2],
                              new_name |-> new, declared_type |-> TypeOf(db, c)]>>,
                   repaired |-> RewriteColumn(db, q, c[1], c[2], new)] : c \in CandidateColumns(db, q)} :
          Breaks(db, q, ex)}

\* An added column leaves the stale query running: it must change the result.
ColumnAdditions(db, q) ==
  {ex \in {LET ops == SetToSeq({[type |-> "add_column", table |-> t, declared_type |-> "INTEGER",
                                 new_name |-> NewName(AuditFlag, Names(db[t]))] : t \in T}) IN
             [ops |-> ops, repaired |-> PlanProjection(q, ops, OrderedSchema(db))] :
           T \in (SUBSET (WildcardTables(q) \intersect DOMAIN db)) \ {{}}} :
     LET changed == Materialize(db, ex.ops) IN
       /\ ex.repaired # NoPlan
       /\ Answer(changed, q).ok /\ Answer(changed, q) # Answer(db, q)
       /\ Answer(changed, ex.repaired) = Answer(db, q)}

\* Both definitions run on the unchanged database and give different results.
RewriteMetric(q, old, new) ==
  [q EXCEPT !.select = [i \in DOMAIN q.select |->
     IF q.select[i].kind = "metric" /\ q.select[i].name = old
     THEN [q.select[i] EXCEPT !.name = new] ELSE q.select[i]]]

MetricChanges(db, q) ==
  {ex \in {[ops |-> <<[type |-> "metric_definition_change", old_expression |-> m[1], new_expression |-> m[2]]>>,
            repaired |-> RewriteMetric(q, m[1], m[2])] : m \in Metrics} :
     Answer(db, ex.repaired).ok /\ Answer(db, ex.repaired) # Answer(db, q)}

Examples(kind, db, q) ==
  CASE kind = "rename_column" -> ColumnRenames(db, q)
    [] kind = "rename_table" -> TableRenames(db, q)
    [] kind = "replace_column" -> ColumnReplacements(db, q)
    [] kind = "add_column" -> ColumnAdditions(db, q)
    [] kind = "metric_definition_change" -> MetricChanges(db, q)
    [] kind = "clean" -> {[ops |-> <<>>, repaired |-> q]}

--------------------------------------------------------------------------

Init ==
  /\ database \in Databases
  /\ sql = NoQuery
  /\ pending = NotCompound
  /\ records = <<>>
  /\ serving = NotLoaded

\* A query that does not run on the source database raises out of every builder.
TakeQuery ==
  /\ serving = NotLoaded /\ sql = NoQuery /\ Len(records) < MaxRecords
  /\ \E q \in Queries : Answer(database, q).ok /\ sql' = q
  /\ UNCHANGED <<database, pending, records, serving>>

Write(ops, repaired) ==
  /\ records' = Append(records, [stale |-> sql, ops |-> ops, repaired |-> repaired])
  /\ sql' = NoQuery
  /\ pending' = NotCompound
  /\ UNCHANGED <<database, serving>>

Build(kind) ==
  /\ sql # NoQuery /\ pending = NotCompound
  /\ \E ex \in Examples(kind, database, sql) : Write(ex.ops, ex.repaired)

\* No candidate passes: a ValueError, and the query seeds nothing.
BuildFails(kind) ==
  /\ sql # NoQuery /\ pending = NotCompound
  /\ Examples(kind, database, sql) = {}
  /\ sql' = NoQuery
  /\ UNCHANGED <<database, pending, records, serving>>

Pairs == << <<"rename_table", "rename_column">>, <<"rename_column", "replace_column">>,
            <<"replace_column", "rename_table">>, <<"rename_column", "rename_column">> >>

BuildCompound ==
  /\ sql # NoQuery /\ pending = NotCompound
  /\ pending' = [NotCompound EXCEPT !.pair = 1]
  /\ UNCHANGED <<database, sql, records, serving>>

NextPair == [NotCompound EXCEPT !.pair = pending.pair + 1]

CompoundFirst ==
  /\ pending.pair \in DOMAIN Pairs /\ pending.ops = <<>>
  /\ LET first == Examples(Pairs[pending.pair][1], database, sql) IN
       IF first = {} THEN pending' = NextPair
       ELSE \E ex \in first : pending' = [pending EXCEPT !.ops = ex.ops, !.repaired = ex.repaired]
  /\ UNCHANGED <<database, sql, records, serving>>

\* The whole diff is applied to the source again and must still tell the stale query
\* from the repaired one.
CompoundHolds(ops, repaired) ==
  LET final == Materialize(database, ops) IN
    /\ final # NoDatabase
    /\ Answer(final, sql) # Answer(database, sql)
    /\ Answer(final, repaired) = Answer(database, sql)

CompoundSecond ==
  /\ pending.ops # <<>>
  /\ LET first == Materialize(database, pending.ops)
         second == Examples(Pairs[pending.pair][2], first, pending.repaired) IN
       \/ \E ex \in second : CompoundHolds(pending.ops \o ex.ops, ex.repaired)
                             /\ Write(pending.ops \o ex.ops, ex.repaired)
       \/ /\ second = {} \/ \E ex \in second : ~CompoundHolds(pending.ops \o ex.ops, ex.repaired)
          /\ pending' = NextPair
          /\ UNCHANGED <<database, sql, records, serving>>

CompoundFails ==
  /\ pending.pair > Len(Pairs)
  /\ sql' = NoQuery /\ pending' = NotCompound
  /\ UNCHANGED <<database, records, serving>>

--------------------------------------------------------------------------
(* The service's catalogue. *)

\* One operation replayed on the listing: in place, and an unknown table or column
\* is passed over.
Replayed(tables, op) ==
  CASE op.type = "rename_table" /\ op.old_name \in DOMAIN tables ->
         [t \in (DOMAIN tables \ {op.old_name}) \union {op.new_name} |->
            IF t = op.new_name THEN tables[op.old_name] ELSE tables[t]]
    [] op.type = "add_column" /\ op.table \in DOMAIN tables ->
         IF op.new_name \in {tables[op.table][i][1] : i \in DOMAIN tables[op.table]} THEN tables
         ELSE [tables EXCEPT ![op.table] = Append(@, <<op.new_name, op.declared_type>>)]
    [] op.type \in {"rename_column", "replace_column"} /\ op.table \in DOMAIN tables ->
         [tables EXCEPT ![op.table] = [i \in DOMAIN @ |->
            IF @[i][1] # op.old_name THEN @[i]
            ELSE <<op.new_name, IF op.type = "replace_column" THEN op.declared_type ELSE @[i][2]>>]]
    [] OTHER -> tables

\* The tables and the views of the source, each column with its declared type.
Listing(db) ==
  [t \in DOMAIN db \union DOMAIN Views |->
     IF t \in DOMAIN Views THEN Views[t]
     ELSE [i \in DOMAIN db[t] |-> <<db[t][i].name, db[t][i].type>>]]

ApplySchemaDiff(db, ops) ==
  LET tables[n \in 0..Len(ops)] ==
        IF n = 0 THEN Listing(db) ELSE Replayed(tables[n - 1], ops[n])
  IN tables[Len(ops)]

\* The listing and the files of a database's free questions are those of the first of
\* its scenarios.
ScenarioForDatabase == 1

\* The slip of keeping the listing of the scenario that was read last.
LogicalSchemaOfLast == ApplySchemaDiff(database, records[Len(records)].ops)

LogicalSchema == ApplySchemaDiff(database, records[ScenarioForDatabase].ops)

\* The text for the model writes every entry, a view too, as a CREATE TABLE.
Declared(type) == IF type = "" THEN "TEXT" ELSE type
RenderLogicalSchema(tables) ==
  [t \in DOMAIN tables |-> [i \in DOMAIN tables[t] |-> <<tables[t][i][1], Declared(tables[t][i][2])>>]]

\* A free question: the schema shown, to users as paths and to the model as text, no
\* stale query and none of the tools that reveal the diff.
QueryEnvironment ==
  /\ sql = NoQuery /\ records # <<>>
  /\ serving' = [scenario |-> ScenarioForDatabase, tables |-> LogicalSchema,
                 text |-> RenderLogicalSchema(LogicalSchema), plan |-> NoQuery]
  /\ UNCHANGED <<database, sql, pending, records>>

\* A scenario's own episode: inspect_schema_diff answers with the repair.
ServeScenario(n) ==
  /\ sql = NoQuery /\ n \in DOMAIN records
  /\ serving' = [scenario |-> n, tables |-> <<>>, text |-> <<>>,
                 plan |-> InspectSchemaDiff(database, records[n].stale, records[n].ops)]
  /\ UNCHANGED <<database, sql, pending, records>>

Kinds == {"rename_column", "rename_table", "replace_column", "add_column",
          "metric_definition_change", "clean"}

Next ==
  \/ TakeQuery
  \/ \E kind \in Kinds : Build(kind) \/ BuildFails(kind)
  \/ BuildCompound \/ CompoundFirst \/ CompoundSecond \/ CompoundFails
  \/ QueryEnvironment
  \/ \E n \in 1..MaxRecords : ServeScenario(n)

--------------------------------------------------------------------------

\* The database a session on the served scenario queries.
ActiveDatabase == Materialize(database, records[serving.scenario].ops)

\* What is shown for a database names the tables and views of the copy the session's
\* queries run on, and each of its tables with the columns and types of the copy,
\* whatever chain of renames, replacements and additions the scenario applies:
\* catalog.py and factory.py replay the diff separately, one on a listing and one on a
\* file. The paths give a column without a type none, the text for the model calls it
\* TEXT. The order inside a table is not part of it (a column replaced under another
\* type moves to the end). Nor are the columns of a view: SQLite rewrites a view's
\* definition along with a rename, while the listing keeps those of the source.
CatalogAgrees ==
  serving.tables # <<>> =>
    /\ DOMAIN serving.tables = DOMAIN ActiveDatabase \union DOMAIN Views
    /\ DOMAIN serving.text = DOMAIN serving.tables
    /\ \A t \in DOMAIN ActiveDatabase :
         LET columns == ActiveDatabase[t] IN
           /\ Len(serving.tables[t]) = Len(columns) /\ Len(serving.text[t]) = Len(columns)
           /\ ToSet(serving.tables[t]) = {<<columns[i].name, columns[i].type>> : i \in DOMAIN columns}
           /\ ToSet(serving.text[t]) = {<<columns[i].name, Declared(columns[i].type)>> : i \in DOMAIN columns}

\* An old name that the diff replaces stands for one thing only in the query and the
\* database; the lexer cannot tell two apart.
Identifiers(q) ==
  UNION {{q.from[i].table, q.from[i].alias} : i \in DOMAIN q.from}
  \union UNION {{c.name, c.qualifier} : c \in {x \in ToSet(q.select) \union ToSet(q.where) : x.kind # "metric"}}

Homonym(db, q, op) ==
  \/ op.new_name \in Identifiers(q)
  \/ op.type = "rename_table" /\ \E t \in DOMAIN db : op.old_name \in Names(db[t])
  \/ op.type # "rename_table" /\ op.old_name \in Identifiers(q)
     /\ \/ \E t \in DOMAIN db \ {op.table} : op.old_name \in Names(db[t])
        \/ op.old_name \in DOMAIN db \union {q.from[i].alias : i \in DOMAIN q.from}

Unambiguous(db, q, ops) ==
  \A i \in DOMAIN ops : ops[i].type \in Renames =>
    LET before == SubSeq(ops, 1, i - 1) IN
      ~Homonym(Materialize(db, before), RenamedByDiff(q, before), ops[i])

\* The repair that inspect_schema_diff hands to the model returns, on the drifted
\* database, what the stale query returned before the drift, for every episode whose
\* replaced names stand for one thing: the lexical renames and the wildcard expansion
\* together do what the builder's scoped rewriting did. A change of a metric's
\* definition is not repaired by identifiers, and a name with a space or a sign is not
\* rewritten, on either side of a rename: these episodes are left out.
AuditedRepairAgrees ==
  serving # NotLoaded /\ serving.tables = <<>> =>
    LET record == records[serving.scenario] IN
      (/\ Unambiguous(database, record.stale, record.ops)
       /\ \A i \in DOMAIN record.ops : record.ops[i].type \in Renames =>
            Plain(record.ops[i].old_name) /\ Plain(record.ops[i].new_name)
       /\ \A i \in DOMAIN record.ops : record.ops[i].type # "metric_definition_change")
        => Answer(ActiveDatabase, serving.plan) = Answer(database, record.stale)

Spec == Init /\ [][Next]_factoryVars
==========================================================================
