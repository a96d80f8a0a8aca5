--------------------------- MODULE DriftDatabase ---------------------------
(* A SQLite database and a read query as far as a schema change can tell them
   apart, and the changes drift/factory.py applies to a copy of a database.

   A database maps a table to the sequence of its columns; a column keeps its name,
   its declared type and what its cells hold. Its views are no part of the copies'
   history: no operation is on a view, and the queries read tables. A query has a FROM
   list, a select list and the columns its predicates read. A name is the sequence of
   its parts (_new_column_name splits it at "_"). Letter case is left out: SQLite and
   the builders fold it, the catalogue does not, and the names of an audited diff are
   spelled as the builder read them from the source. *)
EXTENDS Naturals, Sequences, FiniteSets, SequencesExt, FiniteSetsExt

CONSTANTS
  Views,       \* the views of the source databases, with the columns PRAGMA table_info gives them
  Synonym,     \* the replacement _stable_choice picks for each token that has one
  Prefix       \* the fallback prefix it picks for a name without such a token

NoName == <<>>          \* no alias, no qualifier
NoDatabase == <<>>      \* an ALTER that failed: a database without tables
Failed == [ok |-> FALSE, columns |-> <<>>]

Names(columns) == {columns[i].name : i \in DOMAIN columns}
Position(columns, name) == CHOOSE i \in DOMAIN columns : columns[i].name = name
ColumnNamed(columns, name) == columns[Position(columns, name)]

--------------------------------------------------------------------------
(* What SQLite answers. *)

\* The name a FROM entry goes by: its alias hides the table's own name.
Visible(entry) == IF entry.alias = NoName THEN entry.table ELSE entry.alias

Matches(db, q, item) ==
  {m \in {<<i, j>> : i \in DOMAIN q.from, j \in 1..Max({Len(db[t]) : t \in DOMAIN db})} :
     LET columns == db[q.from[m[1]].table] IN
       /\ item.qualifier \in {NoName, Visible(q.from[m[1]])}
       /\ m[2] \in DOMAIN columns
       /\ columns[m[2]].name = item.name}

\* The columns one item of a query yields: an ambiguous name is an error, and a
\* quoted name that no column has is taken for a string.
Cells(db, q, item) ==
  CASE item.kind = "column" ->
         LET found == Matches(db, q, item) IN
           IF Cardinality(found) = 1
           THEN LET m == CHOOSE x \in found : TRUE IN <<db[q.from[m[1]].table][m[2]].cells>>
           ELSE IF found = {} /\ item.quoted /\ item.qualifier = NoName
                THEN <<[literal |-> item.name]>>
                ELSE <<>>
    [] item.kind = "star" ->
         FlattenSeq([i \in DOMAIN q.from |->
           IF item.qualifier \in {NoName, Visible(q.from[i])}
           THEN [j \in DOMAIN db[q.from[i].table] |-> db[q.from[i].table][j].cells]
           ELSE <<>>])
    [] item.kind = "metric" -> <<[expression |-> item.name]>>

\* fingerprint_query: the selected columns, and those that decide which rows there are.
Answer(db, q) ==
  IF /\ db # NoDatabase
     /\ \A i \in DOMAIN q.from : q.from[i].table \in DOMAIN db
     /\ \A s \in {"select", "where"} : \A i \in DOMAIN q[s] : Cells(db, q, q[s][i]) # <<>>
  THEN [ok |-> TRUE,
        columns |-> <<FlattenSeq([i \in DOMAIN q.select |-> Cells(db, q, q.select[i])]),
                      FlattenSeq([i \in DOMAIN q.where |-> Cells(db, q, q.where[i])])>>]
  ELSE Failed

--------------------------------------------------------------------------
(* New names. *)

Renamed(name) ==
  LET known == {i \in DOMAIN name : name[i] \in DOMAIN Synonym} IN
    IF known # {} THEN [name EXCEPT ![Min(known)] = Synonym[name[Min(known)]]]
                  ELSE <<Prefix>> \o name

NewName(name, existing) ==
  IF Renamed(name) \notin existing THEN Renamed(name)
  ELSE Renamed(name) \o <<Min({k \in 2..(2 + Cardinality(existing)) :
                               Renamed(name) \o <<k>> \notin existing})>>

--------------------------------------------------------------------------
(* ALTER TABLE on a copy; the source database is never written. *)

WithName(columns, old, new) ==
  [i \in DOMAIN columns |-> IF columns[i].name = old THEN [columns[i] EXCEPT !.name = new] ELSE columns[i]]

RenameColumn(db, op) ==
  IF /\ op.table \in DOMAIN db
     /\ op.old_name \in Names(db[op.table]) /\ op.new_name \notin Names(db[op.table])
  THEN [db EXCEPT ![op.table] = WithName(@, op.old_name, op.new_name)]
  ELSE NoDatabase

RenameTable(db, op) ==
  IF op.old_name \in DOMAIN db /\ op.new_name \notin DOMAIN db \union DOMAIN Views
  THEN [t \in (DOMAIN db \ {op.old_name}) \union {op.new_name} |->
          IF t = op.new_name THEN db[op.old_name] ELSE db[t]]
  ELSE NoDatabase

\* Values keep their meaning through a copy unless the target's affinity rewrites
\* them: numbers of a column without a type become text in a TEXT column.
Copied(column, type) ==
  IF type = "TEXT" /\ column.type = "" THEN [column.cells EXCEPT !.asText = TRUE] ELSE column.cells

AddColumn(db, op, cells) ==
  IF op.table \in DOMAIN db /\ op.new_name \notin Names(db[op.table])
  THEN [db EXCEPT ![op.table] = Append(@,
          [name |-> op.new_name, type |-> op.declared_type, cells |-> cells, indexed |-> FALSE])]
  ELSE NoDatabase

\* The same type: a rename in place. Another: add, copy, drop, which moves the column
\* to the end; SQLite refuses to drop a column that an index or a view names.
ReplaceColumn(db, op) ==
  IF op.table \notin DOMAIN db \/ op.old_name \notin Names(db[op.table]) THEN NoDatabase
  ELSE LET old == ColumnNamed(db[op.table], op.old_name)
           added == AddColumn(db, op, Copied(old, op.declared_type)) IN
       IF old.type = op.declared_type THEN RenameColumn(db, op)
       ELSE IF old.indexed \/ added = NoDatabase THEN NoDatabase
       ELSE [added EXCEPT ![op.table] = RemoveAt(@, Position(@, op.old_name))]

MaterializeOperation(db, op) ==
  CASE op.type = "rename_column" -> RenameColumn(db, op)
    [] op.type = "rename_table" -> RenameTable(db, op)
    [] op.type = "replace_column" -> ReplaceColumn(db, op)
    [] op.type = "add_column" -> AddColumn(db, op, [of |-> <<op.table, op.new_name>>, asText |-> FALSE])
    [] op.type = "metric_definition_change" -> db

\* The chain of copies: each operation reads the file the one before it wrote.
Materialize(db, ops) ==
  LET copy[n \in 0..Len(ops)] ==
        IF n = 0 THEN db
        ELSE IF copy[n - 1] = NoDatabase THEN NoDatabase
        ELSE MaterializeOperation(copy[n - 1], ops[n])
  IN copy[Len(ops)]
==========================================================================
