--------------------------- MODULE AuditedRepair ---------------------------
(* The repair the tool inspect_schema_diff offers for a stale query: the renames of
   the audited diff applied to the query's identifiers one after another
   (planning/schema_repair.py, sql_rewrite.py), then, when columns were added, the
   wildcards written out as they were before (planning/projection_contract.py). *)
EXTENDS DriftDatabase

CONSTANT Symbols   \* the parts of a name that hold a space or a sign

NoPlan == [from |-> <<>>, select |-> <<>>, where |-> <<>>]   \* a ValueError

Plain(name) == ToSet(name) \intersect Symbols = {}

\* Every identifier token equal to the old name, whatever it names; string literals,
\* and with them the values, are left alone. Only plain identifiers are rewritten; no
\* plan stays none.
RewriteIdentifier(q, old, new) ==
  LET new_if(name) == IF name = old THEN new ELSE name
      entry(e) == [table |-> new_if(e.table), alias |-> new_if(e.alias)]
      item(c) == IF c.kind = "metric" THEN c
                 ELSE [c EXCEPT !.name = new_if(@), !.qualifier = new_if(@)] IN
  IF ~Plain(old) \/ ~Plain(new) THEN NoPlan
  ELSE [from |-> [i \in DOMAIN q.from |-> entry(q.from[i])],
        select |-> [i \in DOMAIN q.select |-> item(q.select[i])],
        where |-> [i \in DOMAIN q.where |-> item(q.where[i])]]

Stars(q) == {i \in DOMAIN q.select : q.select[i].kind = "star"}

\* The tables whose columns a wildcard of the query lists, in the order of the FROM list.
WildcardTables(q) ==
  {q.from[i].table : i \in {k \in DOMAIN q.from : \E s \in Stars(q) :
      q.select[s].qualifier \in {NoName, Visible(q.from[k]), q.from[k].table}}}

\* The ordered columns as the projection planner takes them: names only.
OrderedSchema(db) == [t \in DOMAIN db |-> [i \in DOMAIN db[t] |-> db[t][i].name]]

\* _active_schema_for_projection: the source's columns and the added ones.
ActiveSchema(db, ops) ==
  FoldLeft(LAMBDA s, op :
             IF op.type = "add_column" /\ op.new_name \notin ToSet(s[op.table])
             THEN [s EXCEPT ![op.table] = Append(@, op.new_name)] ELSE s,
           OrderedSchema(db), ops)

\* A wildcard becomes the columns its tables had before the additions, each quoted, and
\* qualified when the wildcard was or when there are several tables.
Expanded(q, item, schema, additions) ==
  LET old(t) == SelectSeq(schema[t], LAMBDA name : <<t, name>> \notin additions)
      owner(e) == IF item.qualifier # NoName THEN item.qualifier
                  ELSE IF Len(q.from) > 1 THEN Visible(e) ELSE NoName
      bound == SelectSeq(q.from, LAMBDA e : item.qualifier \in {Visible(e), e.table})
      listed == IF item.qualifier = NoName THEN q.from ELSE <<Last(bound)>> IN
  FlattenSeq([i \in DOMAIN listed |->
    [j \in DOMAIN old(listed[i].table) |->
      [kind |-> "column", name |-> old(listed[i].table)[j], qualifier |-> owner(listed[i]), quoted |-> TRUE]]])

PlanProjection(q, ops, schema) ==
  LET additions == {<<ops[i].table, ops[i].new_name>> : i \in {k \in DOMAIN ops : ops[k].type = "add_column"}} IN
  IF \/ Stars(q) = {} \/ additions = {}
     \/ \E i \in DOMAIN q.from : q.from[i].table \notin DOMAIN schema
     \/ \E a \in additions : a[1] \notin DOMAIN schema
     \/ \E s \in Stars(q) : q.select[s].qualifier \notin
          {NoName} \union {Visible(q.from[i]) : i \in DOMAIN q.from} \union {q.from[i].table : i \in DOMAIN q.from}
  THEN NoPlan
  ELSE [q EXCEPT !.select = FlattenSeq([i \in DOMAIN q.select |->
          IF q.select[i].kind = "star" THEN Expanded(q, q.select[i], schema, additions)
          ELSE <<q.select[i]>>])]

Renames == {"rename_table", "rename_column", "replace_column"}

\* The slip of rewriting the stale query anew for each operation.
RenamedAnew(q, ops) ==
  FoldLeft(LAMBDA r, op : IF op.type \in Renames THEN RewriteIdentifier(q, op.old_name, op.new_name) ELSE r,
           q, ops)

RenamedByDiff(q, ops) ==
  FoldLeft(LAMBDA r, op : IF op.type \in Renames THEN RewriteIdentifier(r, op.old_name, op.new_name) ELSE r,
           q, ops)

\* A query without a wildcard is not affected by an added column.
PlanAuditedRepair(q, ops, schema) ==
  LET renamed == RenamedByDiff(q, ops) IN
  IF \A i \in DOMAIN ops : ops[i].type # "add_column" THEN renamed
  ELSE IF Stars(renamed) = {} THEN renamed
  ELSE PlanProjection(renamed, ops, schema)

InspectSchemaDiff(db, stale, ops) == PlanAuditedRepair(stale, ops, ActiveSchema(db, ops))
==========================================================================
