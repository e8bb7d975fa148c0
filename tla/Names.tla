-------------------------------- MODULE Names --------------------------------
(***************************************************************************)
(* How the parser and planner (godb/parser.go) find the table a column     *)
(* belongs to, in a catalog that statements have changed.  A FROM clause   *)
(* is a sequence of tables [tableName, alias] and a set of subqueries      *)
(* [alias, fields]; a column is [table, field], where table is the         *)
(* qualifier.  NoName is Go's "".                                          *)
(***************************************************************************)
EXTENDS Catalog, SequencesExt

CONSTANTS
    NoName,      \* the empty string
    Error,       \* an error instead of a result
    FromClauses, \* the FROM clauses [ts, subqueries] looked at
    Qualifiers,  \* the names columns are qualified with, and NoName
    Statements   \* the pairs [on, where] of clauses, sequences of conditions, looked at

ASSUME NamesAssumption == NoName \notin Idents /\ Error \notin Idents /\ NoName # Error
ASSUME FromAssumption ==
    \A f \in FromClauses :
        /\ f.ts \in Seq(ToSet(f.ts))
        /\ \A t \in ToSet(f.ts) : t.tableName \in Idents /\ t = [tableName |-> t.tableName, alias |-> t.alias]
        /\ IsFiniteSet(f.subqueries)
        /\ \A q \in f.subqueries : q.alias \notin {NoName, Error}
ASSUME QualifiersAssumption == Error \notin Qualifiers

IsColumn(x) == x # NoName /\ x.table # Error /\ x.field \in Idents
ASSUME StatementsAssumption ==
    \A s \in Statements : \A clause \in {s.on, s.where} :
        /\ clause \in Seq(ToSet(clause))
        /\ \A w \in ToSet(clause) \ {Malformed} :
              IsColumn(w.left) /\ (w.right = NoName \/ IsColumn(w.right))

-----------------------------------------------------------------------------
(* Which table is meant                                                    *)

\* Mutant: the first subquery or table that fits is taken.
CheckName_First(col, subqueries, ts) ==
    LET qs == {q \in subqueries : col.field \in q.fields}
        is == {i \in DOMAIN ts : columnMap[col.field][ts[i].tableName] > 0}
    IN  CASE col.table # NoName -> col.table
          [] col.table = NoName /\ qs # {} -> (CHOOSE q \in qs : TRUE).alias
          [] col.table = NoName /\ qs = {} /\ is # {} -> ts[CHOOSE i \in is : TRUE].tableName
          [] OTHER -> NoName

\* checkNameInTablesOrSubqueries: a qualifier is taken as it is.  Subqueries
\* come before tables; for a table, every place where columnMap lists it counts.
CheckName(col, subqueries, ts) ==
    LET qs == {q \in subqueries : col.field \in q.fields}
        listings(i) == columnMap[col.field][ts[i].tableName]
        is == {i \in DOMAIN ts : listings(i) > 0}
    IN  CASE col.table # NoName -> col.table
          [] col.table = NoName /\ Cardinality(qs) > 1 -> Error
          [] col.table = NoName /\ Cardinality(qs) = 1 -> (CHOOSE q \in qs : TRUE).alias
          [] col.table = NoName /\ qs = {} /\ is # {} ->
                IF \E i \in is : is = {i} /\ listings(i) = 1
                THEN ts[CHOOSE i \in is : TRUE].tableName
                ELSE Error
          [] OTHER -> NoName

-----------------------------------------------------------------------------
(* The plan nodes                                                          *)

Key(t) == IF t.alias = NoName THEN t.tableName ELSE t.alias

\* tableMap of makePhysicalPlan: the columns of each node.  A later entry of
\* the same key replaces an earlier one.
Nodes(subqueries, ts) ==
    LET keys == {q.alias : q \in subqueries} \cup {Key(ts[i]) : i \in DOMAIN ts}
        last(k) == CHOOSE i \in DOMAIN ts : Key(ts[i]) = k /\ \A j \in DOMAIN ts : Key(ts[j]) = k => j <= i
    IN  [k \in keys |->
            IF \E i \in DOMAIN ts : Key(ts[i]) = k
            THEN LET cols == tableMap[ts[last(k)].tableName].cols
                 IN  [f \in Idents |-> Occurrences(f, cols)]
            ELSE LET q == CHOOSE p \in subqueries : p.alias = k
                 IN  [f \in Idents |-> IF f \in q.fields THEN 1 ELSE 0]]

\* fieldToOp: a name must be that of a node; without a name all nodes are
\* looked through.
FieldToOp(tab, field, nodes) ==
    LET cands == {k \in DOMAIN nodes : nodes[k][field] > 0}
    IN  CASE tab # NoName /\ tab \in DOMAIN nodes -> tab
          [] tab = NoName /\ \E k \in cands : cands = {k} /\ nodes[k][field] = 1 -> CHOOSE k \in cands : TRUE
          [] OTHER -> Error

\* findFieldInTd, as generateExpr uses it on the node it has got: without a
\* qualifier the field must be there once.
FindField(col, node) == IF col.table = NoName THEN node[col.field] = 1 ELSE node[col.field] > 0

\* The node a column of a WHERE clause or of an aggregate is taken from:
\* getTableField, fieldToOp and generateExpr.
Column(col, subqueries, ts) ==
    LET nodes == Nodes(subqueries, ts)
        tab == CheckName(col, subqueries, ts)
        k == IF tab = Error THEN Error ELSE FieldToOp(tab, col.field, nodes)
    IN  IF k # Error /\ FindField(col, nodes[k]) THEN k ELSE Error

-----------------------------------------------------------------------------
(* ON and WHERE.  A condition [left, right, eq] has columns on its sides,   *)
(* or NoName, a constant, on the right; anything else is Malformed.  AND is *)
(* flat: the code handles an AND of ANDs like one long AND.                 *)

Side(x, subqueries, ts) == IF x = NoName THEN NoName ELSE CheckName(x, subqueries, ts)

\* parseWhere for a single condition
ParseCondition(w, subqueries, ts) ==
    IF w = Malformed THEN Error
    ELSE LET l == Side(w.left, subqueries, ts)
             r == Side(w.right, subqueries, ts)
         IN  CASE Error \in {l, r} -> Error
               [] Error \notin {l, r} /\ NoName \notin {l, r} /\ l # r -> IF w.eq THEN "join" ELSE Error
               [] OTHER -> "filter"

\* Mutant: of several conditions only the first is passed on.
ParseWhere_First(clause, kind, subqueries, ts) ==
    Picked(clause, {i \in DOMAIN clause : i = 1 /\ ParseCondition(clause[i], subqueries, ts) = kind})

\* The conditions of one kind that parseWhere passes on.  The errors of the
\* parts of an AND are dropped, and the conditions they are about with them.
ParseWhere(clause, kind, subqueries, ts) ==
    Picked(clause, {i \in DOMAIN clause : ParseCondition(clause[i], subqueries, ts) = kind})

\* A clause of one condition that cannot be parsed is an error.
Parsed(clause, subqueries, ts) == Len(clause) = 1 => ParseCondition(clause[1], subqueries, ts) # Error

\* parseFrom keeps the joins of ON, but not its filters.
Joins(on, where, subqueries, ts) ==
    ParseWhere(on, "join", subqueries, ts) \o ParseWhere(where, "join", subqueries, ts)

Filters(where, subqueries, ts) == ParseWhere(where, "filter", subqueries, ts)

\* One join: every name of the two operators is mapped to the new one.
JoinNodes(ops, l, r) ==
    LET joined == [k \in DOMAIN ops |-> ops[l][k] + ops[r][k]]
    IN  [k \in DOMAIN ops |-> IF ops[k] \in {ops[l], ops[r]} THEN joined ELSE ops[k]]

\* The operator of every name when the first joins have been made: how often it
\* scans each entry.
OpsAfter(joins, subqueries, ts) ==
    LET keys == DOMAIN Nodes(subqueries, ts)
        ops[n \in 0 .. Len(joins)] ==
            IF n = 0
            THEN [k \in keys |-> [e \in keys |-> IF e = k THEN 1 ELSE 0]]
            ELSE JoinNodes(ops[n - 1], Column(joins[n].left, subqueries, ts),
                           Column(joins[n].right, subqueries, ts))
    IN  ops

Joined(joins, subqueries, ts) == OpsAfter(joins, subqueries, ts)[Len(joins)]

\* Mutant: cross products go unnoticed.
AllJoined_Unchecked(ops) == TRUE

\* All names have the same operator: all entries are joined.
AllJoined(ops) == \A k, m \in DOMAIN ops : ops[k] = ops[m]

\* makePhysicalPlan succeeds: all names are found, and all entries are joined.
\* (The code refuses more: an unqualified column may be ambiguous in a join.)
Planned(on, where, subqueries, ts) ==
    /\ Parsed(on, subqueries, ts)
    /\ Parsed(where, subqueries, ts)
    /\ \A w \in ToSet(Filters(where, subqueries, ts)) :
          /\ Column(w.left, subqueries, ts) # Error
          /\ \/ w.right = NoName
             \/ FindField(w.right, Nodes(subqueries, ts)[Column(w.left, subqueries, ts)])
    /\ \A w \in ToSet(Joins(on, where, subqueries, ts)) :
          Column(w.left, subqueries, ts) # Error /\ Column(w.right, subqueries, ts) # Error
    /\ AllJoined(Joined(Joins(on, where, subqueries, ts), subqueries, ts))

\* parseDelete: one table, known by its name and not by its alias, and no joins.
DeletePlanned(where, t) ==
    LET ts == <<[t EXCEPT !.alias = NoName]>>
    IN  Joins(<<>>, where, {}, ts) = <<>> /\ Planned(<<>>, where, {}, ts)

-----------------------------------------------------------------------------
(* What SQL says                                                           *)

\* A FROM clause of tables of the catalog whose entries all have names of their own.
WellFormed(subqueries, ts) ==
    /\ \A i \in DOMAIN ts : tableMap[ts[i].tableName] # NoTable
    /\ \A i, j \in DOMAIN ts : Key(ts[i]) = Key(ts[j]) => i = j
    /\ \A q \in subqueries : \A i \in DOMAIN ts : q.alias # Key(ts[i])
    /\ \A p, q \in subqueries : p.alias = q.alias => p = q

\* The entry a column belongs to: the only one that has it.
SqlColumn(col, subqueries, ts) ==
    LET nodes == Nodes(subqueries, ts)
        owners == {k \in DOMAIN nodes : nodes[k][col.field] > 0 /\ col.table \in {NoName, k}}
    IN  IF \E k \in owners : owners = {k} /\ nodes[k][col.field] = 1
        THEN CHOOSE k \in owners : TRUE
        ELSE Error

\* A condition SQL accepts and the code supports: a comparison of a column with
\* a constant or a column of the same entry, or equality of columns of two.
Legal(w, subqueries, ts) ==
    /\ w # Malformed
    /\ SqlColumn(w.left, subqueries, ts) # Error
    /\ \/ w.right = NoName
       \/ /\ SqlColumn(w.right, subqueries, ts) # Error
          /\ w.eq \/ SqlColumn(w.left, subqueries, ts) = SqlColumn(w.right, subqueries, ts)

-----------------------------------------------------------------------------
(* Where the code is known to differ from SQL                              *)

\* An unqualified column that a subquery has and a table has too: the subquery's is taken.
Shadowed(col, subqueries, ts) ==
    /\ col.table = NoName
    /\ \E q \in subqueries : col.field \in q.fields
    /\ \E i \in DOMAIN ts : Occurrences(col.field, tableMap[ts[i].tableName].cols) > 0

\* An unqualified column of a table that has an alias: the table's name is not found.
HiddenByAlias(col, ts) ==
    /\ col.table = NoName
    /\ \E i \in DOMAIN ts :
          ts[i].alias # NoName /\ Occurrences(col.field, tableMap[ts[i].tableName].cols) > 0

\* A column that is listed wrongly, because a table of that name has been dropped
\* and created again or a table with the name of the column has been dropped.
Mislisted(col, ts) ==
    /\ col.table = NoName
    /\ \E i \in DOMAIN ts : <<ts[i].tableName, col.field>> \in dropped

\* A qualified column that its table has twice: the first is taken.
Twice(col, subqueries, ts) ==
    \E k \in DOMAIN Nodes(subqueries, ts) : k = col.table /\ Nodes(subqueries, ts)[k][col.field] > 1

\* The FROM clauses looked at, with the catalog as it is.  A save that fails
\* leaves the catalog in memory as one that succeeds does, so the states after
\* it show no more.
Froms == {f \in FromClauses : phase = "ready" /\ ~ unsaved /\ WellFormed(f.subqueries, f.ts)}

\* A column of a condition is taken from the entry that SQL says, and is an
\* error where SQL says so, whatever tables have been created, dropped and
\* loaded before, but for the four cases above (checkNameInTablesOrSubqueries,
\* fieldToOp and findFieldInTd).
ColumnsResolved ==
    \A f \in Froms, q \in Qualifiers, x \in Idents :
        LET col == [table |-> q, field |-> x]
        IN  \/ Column(col, f.subqueries, f.ts) = SqlColumn(col, f.subqueries, f.ts)
            \/ Shadowed(col, f.subqueries, f.ts)
            \/ HiddenByAlias(col, f.ts)
            \/ Mislisted(col, f.ts)
            \/ Twice(col, f.subqueries, f.ts)

\* A condition with a column that is listed wrongly, or an inequality with one
\* hidden by an alias, which the code takes for a join: an error that AND drops.
Misread(w, ts) ==
    \E col \in {w.left, w.right} \ {NoName} : Mislisted(col, ts) \/ (~ w.eq /\ HiddenByAlias(col, ts))

\* The legal conditions of a statement that are not passed on to the plan.
Lost(on, where, subqueries, ts) ==
    {w \in ToSet(on) \cup ToSet(where) :
        /\ w \notin ToSet(Joins(on, where, subqueries, ts)) \cup ToSet(Filters(where, subqueries, ts))
        /\ Legal(w, subqueries, ts)}

\* A statement that is planned applies every legal condition it was given: no
\* SELECT returns, and no DELETE removes, rows a condition excludes.  The code
\* loses a condition in two cases: a filter in ON, which parseFrom drops, and a
\* part of an AND that is misread.
ConditionsApplied ==
    \A f \in Froms, s \in Statements :
        /\ Planned(s.on, s.where, f.subqueries, f.ts) =>
              \A w \in Lost(s.on, s.where, f.subqueries, f.ts) :
                  \/ w \in ToSet(s.on) /\ ParseCondition(w, f.subqueries, f.ts) = "filter"
                  \/ Misread(w, f.ts) /\ \E c \in {s.on, s.where} : w \in ToSet(c) /\ Len(c) > 1
        /\ (f.subqueries = {} /\ Len(f.ts) = 1 /\ s.on = <<>> /\ DeletePlanned(s.where, f.ts[1])) =>
              \A w \in Lost(<<>>, s.where, {}, f.ts) : Misread(w, f.ts) /\ Len(s.where) > 1

\* A plan scans every entry of FROM exactly once, so that its rows are
\* combinations of one row of each.  The code fails to when the joins are more
\* than needed to connect the entries: then it joins a join with itself.
EntriesScannedOnce ==
    \A f \in Froms, s \in Statements :
        LET joins == Joins(s.on, s.where, f.subqueries, f.ts)
            ops == Joined(joins, f.subqueries, f.ts)
        IN  (Planned(s.on, s.where, f.subqueries, f.ts) /\ Len(joins) < Cardinality(DOMAIN ops)) =>
                \A k, e \in DOMAIN ops : ops[k][e] = 1
=============================================================================
