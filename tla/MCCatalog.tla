------------------------------ MODULE MCCatalog ------------------------------
(* The catalog and the names found in it, on a small instance for TLC.     *)
EXTENDS Names

CONSTANT MaxTables  \* bound: tables in the catalog

MCIdents == {"t", "T", "x"}
MCLower(n) == IF n = "T" THEN "t" ELSE n
MCSchemas == {<<"x">>, <<"x", "x">>}

Entry(n, cols) == [name |-> n, cols |-> cols]
\* The default file has the table t; the other one is missing or malformed.
MCFilesInit ==
    {[f \in {"main", "other"} |-> IF f = "main" THEN <<Entry("t", <<"x">>)>> ELSE o] :
        o \in {NoTable, <<Malformed>>}}

Node(n, a) == [tableName |-> n, alias |-> a]
MCFromClauses ==
    [ts : {<<Node("t", NoName)>>, <<Node("t", "a")>>, <<Node("t", NoName), Node("x", NoName)>>,
           <<Node("t", "a"), Node("x", NoName)>>, <<Node("t", "a"), Node("t", "b")>>},
     subqueries : {{}, {[alias |-> "q", fields |-> {"x"}]}}]

MCQualifiers == {NoName, "t", "x", "a", "q"}

Col(q, x) == [table |-> q, field |-> x]
Cond(l, r, eq) == [left |-> l, right |-> r, eq |-> eq]
\* x = 1, t.x = 1, t.x = x.x, q.x = t.x, a.x = b.x, x.x < x, x < a.x, and what is no
\* comparison
MCConditions ==
    {Cond(Col(NoName, "x"), NoName, TRUE), Cond(Col("t", "x"), NoName, TRUE),
     Cond(Col("t", "x"), Col("x", "x"), TRUE), Cond(Col("q", "x"), Col("t", "x"), TRUE),
     Cond(Col("a", "x"), Col("b", "x"), TRUE), Cond(Col("x", "x"), Col(NoName, "x"), FALSE),
     Cond(Col(NoName, "x"), Col("a", "x"), FALSE), Malformed}
MCClauses == {<<>>} \cup {<<w>> : w \in MCConditions} \cup {<<v, w>> : v, w \in MCConditions}
\* At most two conditions, at most one of them in ON.
MCStatements ==
    {s \in [on : {c \in MCClauses : Len(c) <= 1}, where : MCClauses] : Len(s.on) + Len(s.where) <= 2}

FewTables == Len(tables) <= MaxTables
MCSpec == CatalogInit /\ [][CatalogNext /\ FewTables']_catalogVars
=============================================================================
