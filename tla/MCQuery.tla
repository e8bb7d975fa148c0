------------------------------- MODULE MCQuery -------------------------------
(* Instances of Query for TLC.                                             *)
EXTENDS Query

\* Left tables.  The array of a row of two fields is full, that of three has
\* one free cell and that of five has three.  Keys and rows repeat; values are
\* of both signs, and the sum of -5 and -5 overflows.
MCLefts ==
    {<<>>,
     << <<1, -2>>, <<2, -1>> >>,
     << <<1, 2, 0>>, <<1, 2, 1>>, <<2, -5, 0>> >>,
     << <<2, 1, 0, 0, 0>> >>}

\* Right tables, of one or two fields.
MCRights == {<<>>, << <<2>>, <<1>> >>, << <<2, 5>>, <<2, 6>> >>}

Fld(i) == [kind |-> "field", field |-> i]
Num(i) == [kind |-> "const", type |-> "int", value |-> i]
Str(n) == [kind |-> "const", type |-> "string", value |-> [len |-> n]]
Fun(op, args) == [kind |-> "func", op |-> op, args |-> args]

\* f1 > 1; 4 / (f1 - 1) >= 3, which has no value for f1 = 1; and a condition that
\* compares a string.
Plain == [left |-> Fld(1), op |-> ">", right |-> Num(1)]
MCConditions ==
    {Plain,
     [left |-> Fun("/", <<Num(4), Fun("-", <<Fld(1), Num(1)>>)>>), op |-> ">=", right |-> Num(3)],
     [left |-> Str(1), op |-> "=", right |-> Str(1)]}

\* Fields; functions that overflow, divide by zero or cut strings badly for some
\* rows; functions that do not exist or have the wrong arguments.
PlainList == <<Fld(2), Fld(1)>>
MCSelectLists ==
    {PlainList,
     <<Fun("+", <<Fld(2), Num(6)>>), Fld(1), Fun("getsubstr", <<Str(3), Fld(1), Fun("imax", <<Fld(2), Num(1)>>)>>)>>,
     <<Fun("mod", <<Num(-3), Fld(2)>>), Fun("*", <<Fld(1), Fld(2)>>)>>,
     <<Fun("sq", <<Fld(1)>>), Fld(2), Fun("getsubstr", <<Str(3), Fld(1), Fld(2)>>)>>,
     <<Fun("foo", <<>>), Fld(1), Fun("imin", <<Fld(1), Str(1)>>), Fun("sq", <<Fun("sq", <<>>)>>)>>}

\* Two rows; a row in the middle that is ill-formed; a substring whose end overflows.
MCValueLists ==
    {<< <<Num(1), Fun("/", <<Num(-7), Num(2)>>)>>, <<Fun("-", <<Num(2), Num(3)>>), Fun("getsubstr", <<Str(3), Num(1), Num(1)>>)>> >>,
     << <<Num(1), Fun("imin", <<Num(1), Num(2)>>)>>, <<Num(1), Fun("sq", <<Str(1)>>)>>, <<Num(1), Num(2)>> >>,
     << <<Num(1), Fun("getsubstr", <<Str(3), Num(1), Num(7)>>)>> >>}

MCPlainLists == {PlainList}
MCOrderBys == {<<[field |-> 2, ascending |-> FALSE], [field |-> 1, ascending |-> TRUE]>>}

\* Plans with unusual expressions are simple otherwise.
MCPlan ==
    LET usualFilters == \A side \in {"left", "right"} : plan.filters[side] \in {Plain, Nil}
        usualList == plan.list \in {<<>>, PlainList}
    IN  \/ usualFilters /\ usualList
        \/ /\ plan.limit = Nil /\ plan.agg = Nil
           /\ \/ usualFilters /\ ~ plan.join
              \/ usualList /\ plan.select = "star" /\ plan.order = <<>>
MCInit == Init /\ MCPlan
MCSpec == MCInit /\ [][Next]_vars /\ WF_vars(Next)

\* One left row with free cells in its array, and two right rows to join it
\* with.
MCSpareLeft == {<< <<1, 2, 0, 0, 0>> >>}
MCTwoRights == {<< <<1, 5>>, <<1, 6>> >>}
=============================================================================
