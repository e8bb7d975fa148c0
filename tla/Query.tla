-------------------------------- MODULE Query --------------------------------
(***************************************************************************)
(* The execution of one statement of GoDB: the plan that the planner makes *)
(* of it (godb/parser.go) and the iterators of the plan's operators        *)
(* (godb/..._op.go), which pull tuples from one another.                   *)
(*                                                                         *)
(* An operator has two methods: "open" (Operator.Iterator) returns an      *)
(* iterator, which is a Go closure, and "next" calls that closure.  The    *)
(* variable at says which operator runs, pc where each of them is, ret what*)
(* the last call returned and loc what each closure has captured.          *)
(*                                                                         *)
(* The fields of a tuple are a Go slice: an array, maybe longer than the   *)
(* slice, that other slices may share.                                     *)
(***************************************************************************)
EXTENDS Expressions, SequencesExt

CONSTANTS
    Nil, Opened,       \* no tuple (or no iterator, or no value), an iterator
    Lefts, Rights,     \* the tables a statement may read: sequences of rows
    Conditions,        \* comparisons [left, op, right] a filter may make
    SelectLists,       \* select lists: sequences of expressions
    ValueLists,        \* VALUES of INSERT: sequences of rows of expressions
    OrderBys,          \* ORDER BY clauses: sequences of [field, ascending]
    Limits,            \* LIMIT clauses
    MaxFaults          \* bound: calls of heap files that fail in a statement

IsSeq(s) == s \in Seq(Range(s))

\* The planner has found every field that an expression names.  Tables have at
\* least two columns, and expressions name these two (a right table is not
\* looked at by name); VALUES name none.
ASSUME QueryAssumption ==
    /\ MaxFaults \in Nat
    /\ \A none \in {Nil, Err} : none \notin Int /\ none \notin Strings
    /\ Err # Panic /\ Err # Nil
    /\ Nil \notin Seq([arr : Nat, len : Nat])
    /\ \A table \in Lefts \cup Rights : table \in Seq(Seq(Int))
    /\ \A table \in Lefts : \A i \in DOMAIN table : Len(table[i]) > 1
    /\ \A table \in Rights : \A i \in DOMAIN table : Len(table[i]) > 0
    /\ \A list \in SelectLists : IsSeq(list) /\ \A i \in DOMAIN list : IsExpr(list[i], {1, 2})
    /\ \A rows \in ValueLists :
          /\ IsSeq(rows)
          /\ \A i \in DOMAIN rows : IsSeq(rows[i]) /\ \A f \in DOMAIN rows[i] : IsExpr(rows[i][f], {})

-----------------------------------------------------------------------------
(* Plans                                                                   *)

\* NewIntFilter wants integers on both sides.
Filters == {c \in Conditions : GetExprType(c.left) = "int" /\ GetExprType(c.right) = "int"}

\* A select list with a star has no project on top, even beside an aggregate.
Plans ==
    {p \in [join : BOOLEAN, filters : [{"left", "right"} -> Filters \cup {Nil}],
            agg : {Nil, "all", "group"}, select : {"star", "fields", "distinct"},
            list : SelectLists \cup {<<>>},
            order : OrderBys \cup {<<>>}, limit : Limits \cup {Nil},
            write : {Nil, "insert", "delete"}, values : ValueLists \cup {Nil}] :
        /\ p.filters["right"] # Nil => p.join
        /\ p.select = "star" <=> p.list = <<>>
        /\ (p.write = "delete" \/ p.values # Nil) =>
              /\ ~ p.join
              /\ p.agg = Nil /\ p.select = "star" /\ p.order = <<>> /\ p.limit = Nil
        /\ p.values # Nil => p.write = "insert" /\ p.filters["left"] = Nil}

\* Which operators the planner puts into the plan of a statement.
HasOp(p, n) ==
    CASE n = "scanL"   -> p.values = Nil
      [] n = "values"  -> p.values # Nil
      [] n = "scanR"   -> p.join
      [] n = "filterL" -> p.filters["left"] # Nil
      [] n = "filterR" -> p.filters["right"] # Nil
      [] n = "join"    -> p.join
      [] n = "agg"     -> p.agg # Nil
      [] n = "project" -> p.select # "star"
      [] n = "order"   -> p.order # <<>>
      [] n = "limit"   -> p.limit # Nil
      [] n = "insert"  -> p.write = "insert"
      [] n = "delete"  -> p.write = "delete"

\* The operators of makePhysicalPlan, each on top of those before it; an INSERT
\* or a DELETE is one more on top.  The right input of a join is not in the list.
Stack == <<"scanL", "values", "filterL", "join", "agg", "project", "order", "limit", "insert", "delete">>

\* The places of the list that a plan has.
Spine(p) == {i \in DOMAIN Stack : HasOp(p, Stack[i])}

Ops == {"scanL", "scanR", "values", "filterL", "filterR", "join", "agg", "project", "order",
        "limit", "insert", "delete"}

VARIABLES
    plan,         \* the statement's plan
    left, right,  \* the tables: sequences of tuples, as in the pages' memory
    mem,          \* the arrays of all tuples
    at, pc, ret, loc,
    out,          \* what the client has printed; of a write, its last answer
    written,      \* the tuples given to insertTuple or deleteTuple
    faults,       \* calls of heap files that have failed
    status        \* of the statement

control == <<at, pc>>
tables == <<plan, left, right>>
effects == <<out, written, faults, status>>
vars == <<tables, mem, control, ret, loc, effects>>

Place(n) == CHOOSE i \in DOMAIN Stack : Stack[i] = n
Top == Stack[Max(Spine(plan))]
Kid(n) == IF n = "filterR" THEN "scanR" ELSE Stack[Max({i \in Spine(plan) : i < Place(n)})]
RightKid == IF HasOp(plan, "filterR") THEN "filterR" ELSE "scanR"
Parent(n) ==
    CASE n = "scanR" -> IF HasOp(plan, "filterR") THEN "filterR" ELSE "join"
      [] n = "filterR" -> "join"
      [] n \notin {"scanR", "filterR"} /\ n = Top -> "client"
      [] OTHER -> Stack[Min({i \in Spine(plan) : i > Place(n)})]

-----------------------------------------------------------------------------
(* Tuples                                                                  *)

\* Go's append doubles the array, or takes what it needs if that is more.
Grown(cap, need) == IF need > 2 * cap THEN need ELSE 2 * cap

\* The array of a slice built by appending n fields one by one.
GrownFor(n) ==
    LET cap[i \in 0 .. n] ==
            CASE i = 0 -> 0
              [] i > 0 /\ i <= cap[i - 1] -> cap[i - 1]
              [] OTHER -> Grown(cap[i - 1], i)
    IN  cap[n]

Array(fields, cap) == fields \o [i \in 1 .. cap - Len(fields) |-> Nil]

Value(t) == SubSeq(mem[t.arr], 1, t.len)

\* The code looks a field up by its name and table in the tuple's descriptor; here
\* all columns of a statement have different names, and a field is its position.
Field(t, f) == mem[t.arr][f]

IsTuple(v) == v \notin {Nil, Err}

\* A new tuple whose fields are appended one by one is returned.
NewTuple(fields) == [arr |-> Len(mem) + 1, len |-> Len(fields)]
WithNewTuple(fields) == Append(mem, Array(fields, GrownFor(Len(fields))))

\* joinTuples appends the fields of u to the slice of t: in t's own array if
\* it has room there.
HasRoom(t, u) == t.len + u.len <= Len(mem[t.arr])
JoinTuples(t, u) ==
    [arr |-> IF HasRoom(t, u) THEN t.arr ELSE Len(mem) + 1, len |-> t.len + u.len]
WithJoined(t, u) ==
    IF HasRoom(t, u)
    THEN [mem EXCEPT ![t.arr] =
            [i \in DOMAIN @ |-> IF i \in t.len + 1 .. t.len + u.len
                                THEN Value(u)[i - t.len] ELSE @[i]]]
    ELSE Append(mem, Array(Value(t) \o Value(u), Grown(Len(mem[t.arr]), t.len + u.len)))

\* evalPred
EvalPred(a, b, op) ==
    CASE op = "="  -> a = b
      [] op = "<>" -> a # b
      [] op = ">"  -> a > b
      [] op = ">=" -> a >= b
      [] op = "<"  -> a < b
      [] op = "<=" -> a <= b

\* multiSorter.Less of two rows: the first ORDER BY field on which they differ
\* decides.  Fields without a value count as equal.
FieldLess(a, b, key) ==
    /\ a[key.field] # Nil
    /\ IF key.ascending THEN a[key.field] < b[key.field] ELSE a[key.field] > b[key.field]
Less(a, b, order) ==
    \E k \in DOMAIN order :
        /\ FieldLess(a, b, order[k])
        /\ \A j \in 1 .. k - 1 : a[order[j].field] = b[order[j].field]

Ordered(rows, order) ==
    \A i, j \in DOMAIN rows : i < j => ~ Less(rows[j], rows[i], order)
-----------------------------------------------------------------------------
(* Calls and returns                                                       *)

At(n, label) == status = "running" /\ at = n /\ pc[n] = label

\* n calls a method of c and goes on at resume when c answers.
Call(n, c, method, resume) ==
    /\ at' = c
    /\ pc' = [pc EXCEPT ![n] = resume, ![c] = method]
    /\ UNCHANGED ret

Answer(n, v) ==
    /\ at' = Parent(n)
    /\ ret' = v
    /\ UNCHANGED pc

Captures(n, v) == loc' = [loc EXCEPT ![n] = v]

\* The program panics.
Crash ==
    /\ status' = "crashed"
    /\ UNCHANGED <<mem, control, ret, loc>>

\* A nil iterator is called.
NilCall(n) ==
    /\ At(n, "next")
    /\ loc[n] = Nil
    /\ Crash
    /\ UNCHANGED <<tables, out, written, faults>>

-----------------------------------------------------------------------------
(* HeapFile.Iterator (module HeapFile has its details)                     *)

Table(n) == IF n = "scanL" THEN left ELSE right

\* ValueOp opens in the same way.
ScanOpen(n) ==
    /\ At(n, "open")
    /\ Captures(n, 0)
    /\ Answer(n, Opened)
    /\ UNCHANGED <<tables, mem, effects>>

ScanNext(n) ==
    /\ At(n, "next")
    /\ IF loc[n] < Len(Table(n))
       THEN Captures(n, loc[n] + 1) /\ Answer(n, Table(n)[loc[n] + 1])
       ELSE Captures(n, Len(Table(n)) + 1) /\ Answer(n, Nil)
    /\ UNCHANGED <<tables, mem, effects>>

\* GetPage fails; the next call will ask for the same page.
ScanFails(n) ==
    /\ At(n, "next")
    /\ loc[n] <= Len(Table(n))
    /\ faults < MaxFaults
    /\ faults' = faults + 1
    /\ Answer(n, Err)
    /\ UNCHANGED <<tables, mem, loc, out, written, status>>

\* Mutant: an expression that fails leaves its field empty, as in a select list.
ValuesNext_DropsError ==
    /\ At("values", "next")
    /\ LET i == loc["values"] + 1
           row == [f \in DOMAIN plan.values[i] |->
                     LET v == EvalExpr(plan.values[i][f], <<>>) IN IF v = Err THEN Nil ELSE v]
       IN  CASE i > Len(plan.values) ->
                  Answer("values", Nil) /\ UNCHANGED <<mem, loc, status>>
             [] i <= Len(plan.values) /\ \E f \in DOMAIN row : row[f] = Panic -> Crash
             [] OTHER ->
                  /\ mem' = Append(mem, row)
                  /\ Captures("values", i)
                  /\ Answer("values", [arr |-> Len(mem) + 1, len |-> Len(row)])
                  /\ UNCHANGED status
    /\ UNCHANGED <<tables, out, written, faults>>

\* ValueOp: the next row of VALUES, evaluated.  If that fails, the next call
\* will try the same row.
ValuesNext ==
    /\ At("values", "next")
    /\ LET i == loc["values"] + 1
           row == [f \in DOMAIN plan.values[i] |-> EvalExpr(plan.values[i][f], <<>>)]
           bad == {f \in DOMAIN row : Failed(row[f])}
       IN  CASE i > Len(plan.values) ->
                  Answer("values", Nil) /\ UNCHANGED <<mem, loc, status>>
             [] i <= Len(plan.values) /\ bad # {} ->
                  IF row[Min(bad)] = Panic THEN Crash
                  ELSE Answer("values", Err) /\ UNCHANGED <<mem, loc, status>>
             [] OTHER ->
                  /\ mem' = Append(mem, row)
                  /\ Captures("values", i)
                  /\ Answer("values", [arr |-> Len(mem) + 1, len |-> Len(row)])
                  /\ UNCHANGED status
    /\ UNCHANGED <<tables, out, written, faults>>

-----------------------------------------------------------------------------
(* Operators with one child                                                *)

\* Iterator of any of them first calls the child's Iterator.
OpenKid(n) ==
    /\ At(n, "open")
    /\ Call(n, Kid(n), "open", "opened")
    /\ UNCHANGED <<tables, mem, loc, effects>>

\* Most then return their closure, whatever the child has returned: a project
\* has seen no row, a limit, an insert and a delete have counted none.
KidOpened(n) ==
    /\ At(n, "opened")
    /\ Captures(n, IF n = "project" THEN {} ELSE 0)
    /\ Answer(n, Opened)
    /\ UNCHANGED <<tables, mem, effects>>

\* The closure calls the child's closure.
NextOfKid(n) ==
    /\ At(n, "next")
    /\ loc[n] # Nil
    /\ Call(n, Kid(n), "next", "got")
    /\ UNCHANGED <<tables, mem, loc, effects>>

\* Filter: an error of the child's first call is passed on, one of a later call
\* ends the iteration.  A comparison without a value on one side panics.
FilterGot(n) ==
    /\ At(n, "got") \/ At(n, "more")
    /\ LET cond == plan.filters[IF n = "filterL" THEN "left" ELSE "right"]
           l == EvalExpr(cond.left, Value(ret))
           r == EvalExpr(cond.right, Value(ret))
       IN  CASE ~ IsTuple(ret) ->
                  Answer(n, IF pc[n] = "got" THEN ret ELSE Nil) /\ UNCHANGED <<mem, loc, status>>
             [] IsTuple(ret) /\ (Failed(l) \/ Failed(r)) -> Crash
             [] OTHER ->
                  /\ IF EvalPred(l, r, cond.op)
                     THEN Answer(n, ret)
                     ELSE Call(n, Kid(n), "next", "more")
                  /\ UNCHANGED <<mem, loc, status>>
    /\ UNCHANGED <<tables, out, written, faults>>

\* Project: errors of the child end the iteration, those of an expression leave
\* the field without a value; a DISTINCT one skips rows it has seen.
Selected(t) ==
    [i \in DOMAIN plan.list |->
        LET v == EvalExpr(plan.list[i], Value(t)) IN IF v = Err THEN Nil ELSE v]

ProjectGot ==
    /\ At("project", "got")
    /\ CASE ~ IsTuple(ret) ->
              Answer("project", Nil) /\ UNCHANGED <<mem, loc, status>>
         [] IsTuple(ret) /\ (\E i \in DOMAIN plan.list : Selected(ret)[i] = Panic) -> Crash
         [] IsTuple(ret) /\ plan.select = "distinct" /\ Selected(ret) \in loc["project"] ->
              Call("project", Kid("project"), "next", "got") /\ UNCHANGED <<mem, loc, status>>
         [] OTHER ->
              /\ mem' = WithNewTuple(Selected(ret))
              /\ Captures("project", IF plan.select = "distinct"
                                     THEN loc["project"] \cup {Selected(ret)} ELSE {})
              /\ Answer("project", NewTuple(Selected(ret)))
              /\ UNCHANGED status
    /\ UNCHANGED <<tables, out, written, faults>>

\* Mutant: one tuple too many.
LimitNext_OneMore ==
    /\ At("limit", "next")
    /\ IF loc["limit"] > plan.limit THEN Answer("limit", Nil)
       ELSE Call("limit", Kid("limit"), "next", "got")
    /\ UNCHANGED <<tables, mem, loc, effects>>

\* Limit: errors end the iteration.
LimitNext ==
    /\ At("limit", "next")
    /\ IF loc["limit"] >= plan.limit THEN Answer("limit", Nil)
       ELSE Call("limit", Kid("limit"), "next", "got")
    /\ UNCHANGED <<tables, mem, loc, effects>>

LimitGot ==
    /\ At("limit", "got")
    /\ Captures("limit", IF IsTuple(ret) THEN loc["limit"] + 1 ELSE loc["limit"])
    /\ Answer("limit", IF IsTuple(ret) THEN ret ELSE Nil)
    /\ UNCHANGED <<tables, mem, effects>>

-----------------------------------------------------------------------------
(* OrderBy                                                                 *)

\* Iterator collects all tuples of the child; an error ends that.
OrderOpened ==
    /\ At("order", "opened")
    /\ Captures("order", <<>>)
    /\ Call("order", Kid("order"), "next", "collect")
    /\ UNCHANGED <<tables, mem, effects>>

OrderCollect ==
    /\ At("order", "collect")
    /\ IsTuple(ret)
    /\ Captures("order", Append(loc["order"], ret))
    /\ Call("order", Kid("order"), "next", "collect")
    /\ UNCHANGED <<tables, mem, effects>>

\* sort.Sort leaves equal rows in any order.
Sort ==
    /\ At("order", "collect")
    /\ ~ IsTuple(ret)
    /\ \E p \in Bijection(DOMAIN loc["order"], DOMAIN loc["order"]) :
          LET rows == [i \in DOMAIN loc["order"] |-> loc["order"][p[i]]]
          IN  /\ Ordered([i \in DOMAIN rows |-> Value(rows[i])], plan.order)
              /\ Captures("order", rows)
    /\ Answer("order", Opened)
    /\ UNCHANGED <<tables, mem, effects>>

OrderNext ==
    /\ At("order", "next")
    /\ Captures("order", IF loc["order"] = <<>> THEN <<>> ELSE Tail(loc["order"]))
    /\ Answer("order", IF loc["order"] = <<>> THEN Nil ELSE Head(loc["order"]))
    /\ UNCHANGED <<tables, mem, effects>>
-----------------------------------------------------------------------------
(* EqualityJoin                                                            *)

\* Iterator opens both inputs and takes the first tuple of the left one.
JoinOpen ==
    /\ \/ At("join", "open") /\ Call("join", Kid("join"), "open", "opened")
       \/ At("join", "opened") /\ Call("join", RightKid, "open", "openedRight")
       \/ At("join", "openedRight") /\ Call("join", Kid("join"), "next", "first")
    /\ UNCHANGED <<tables, mem, loc, effects>>

\* If there is none, there is no iterator (and no error) either.
JoinOpened ==
    /\ At("join", "first")
    /\ Captures("join", IF IsTuple(ret) THEN [leftTuple |-> ret] ELSE Nil)
    /\ Answer("join", IF IsTuple(ret) THEN Opened ELSE Nil)
    /\ UNCHANGED <<tables, mem, effects>>

JoinNext ==
    /\ At("join", "next")
    /\ loc["join"] # Nil
    /\ Call("join", RightKid, "next", "right")
    /\ UNCHANGED <<tables, mem, loc, effects>>

\* A right tuple: it is joined with the left one, if there is one and the
\* fields are equal.
JoinRight ==
    /\ At("join", "right")
    /\ IsTuple(ret)
    /\ LET leftTuple == loc["join"].leftTuple
       IN  IF leftTuple = Nil
           THEN Answer("join", Nil) /\ UNCHANGED mem
           ELSE IF Field(leftTuple, 1) # Field(ret, 1)
           THEN Call("join", RightKid, "next", "right") /\ UNCHANGED mem
           ELSE /\ mem' = WithJoined(leftTuple, ret)
                /\ Answer("join", JoinTuples(leftTuple, ret))
    /\ UNCHANGED <<tables, loc, effects>>

\* Mutant: after an error of the right input the left tuple is kept.
JoinRightDone_Retry ==
    /\ At("join", "right")
    /\ ~ IsTuple(ret)
    /\ IF ret = Err THEN Call("join", RightKid, "open", "reopened")
       ELSE Call("join", Kid("join"), "next", "left")
    /\ UNCHANGED <<tables, mem, loc, effects>>

\* The right input has no more tuples, or fails: on to the next left tuple,
\* even if there was none any more.
JoinRightDone ==
    /\ At("join", "right")
    /\ ~ IsTuple(ret)
    /\ Call("join", Kid("join"), "next", "left")
    /\ UNCHANGED <<tables, mem, loc, effects>>

\* Mutant: the right input is not opened again for the next left tuple.
JoinLeft_NoReopen ==
    /\ At("join", "left")
    /\ Captures("join", [leftTuple |-> IF IsTuple(ret) THEN ret ELSE Nil])
    /\ Call("join", RightKid, "next", "right")
    /\ UNCHANGED <<tables, mem, effects>>

JoinLeft ==
    /\ At("join", "left")
    /\ Captures("join", [leftTuple |-> IF IsTuple(ret) THEN ret ELSE Nil])
    /\ Call("join", RightKid, "open", "reopened")
    /\ UNCHANGED <<tables, mem, effects>>

JoinReopened ==
    /\ At("join", "reopened")
    /\ Call("join", RightKid, "next", "right")
    /\ UNCHANGED <<tables, mem, loc, effects>>

-----------------------------------------------------------------------------
(* Aggregator: COUNT, SUM, AVG, MAX and MIN of the second field, by the    *)
(* first field or of all tuples                                            *)

NoTuples == [count |-> 0, sum |-> 0, max |-> 0, min |-> 0, null |-> TRUE]

MaxWith(s, v) == IF s.null \/ v > s.max THEN v ELSE s.max
MinWith(s, v) == IF s.null \/ v < s.min THEN v ELSE s.min

\* The sum wraps around.
AddTuple(s, v) ==
    [count |-> s.count + 1, sum |-> Wrap(s.sum + v), null |-> FALSE,
     max |-> MaxWith(s, v), min |-> MinWith(s, v)]

Finalize(g) ==
    g.key \o <<g.state.count, g.state.sum, Quotient(g.state.sum, g.state.count),
               g.state.max, g.state.min>>

\* Without GROUP BY there is one group from the start.  A nil iterator of the
\* child is an error.
AggOpened ==
    /\ At("agg", "opened")
    /\ Captures("agg",
          IF ret = Nil THEN Nil
          ELSE [groups |-> IF plan.agg = "all" THEN <<[key |-> <<>>, state |-> NoTuples]>>
                           ELSE <<>>,
                done |-> 0])
    /\ Answer("agg", IF ret = Nil THEN Err ELSE Opened)
    /\ UNCHANGED <<tables, mem, effects>>

GroupKey(t) == IF plan.agg = "all" THEN <<>> ELSE <<Field(t, 1)>>

\* Mutant: the first tuple of a group makes the group and is not added to it.
Grouped_FirstLost(groups, t) ==
    LET i == SelectInSeq(groups, LAMBDA g : g.key = GroupKey(t))
    IN  IF i = 0 THEN Append(groups, [key |-> GroupKey(t), state |-> NoTuples])
        ELSE [groups EXCEPT ![i].state = AddTuple(@, Field(t, 2))]

Grouped(groups, t) ==
    LET i == SelectInSeq(groups, LAMBDA g : g.key = GroupKey(t))
    IN  IF i = 0
        THEN Append(groups, [key |-> GroupKey(t), state |-> AddTuple(NoTuples, Field(t, 2))])
        ELSE [groups EXCEPT ![i].state = AddTuple(@, Field(t, 2))]

AggAdd ==
    /\ At("agg", "got")
    /\ IsTuple(ret)
    /\ Captures("agg", [loc["agg"] EXCEPT !.groups = Grouped(@, ret)])
    /\ Call("agg", Kid("agg"), "next", "got")
    /\ UNCHANGED <<tables, mem, effects>>

AggFails ==
    /\ At("agg", "got")
    /\ ret = Err
    /\ Answer("agg", Err)
    /\ UNCHANGED <<tables, mem, loc, effects>>

\* The child has ended: one result per group.  AVG of no tuple divides by zero.
AggResult ==
    /\ At("agg", "got")
    /\ ret = Nil
    /\ LET i == loc["agg"].done + 1
           g == loc["agg"].groups[i]
       IN  IF i > Len(loc["agg"].groups)
           THEN Answer("agg", Nil) /\ UNCHANGED <<mem, loc, status>>
           ELSE IF g.state.count = 0
           THEN Crash
           ELSE /\ mem' = WithNewTuple(Finalize(g))
                /\ Captures("agg", [loc["agg"] EXCEPT !.done = i])
                /\ Answer("agg", NewTuple(Finalize(g)))
                /\ UNCHANGED status
    /\ UNCHANGED <<tables, out, written, faults>>

-----------------------------------------------------------------------------
(* InsertOp and DeleteOp                                                   *)

Writers == {"insert", "delete"}

Write(n) ==
    /\ At(n, "got")
    /\ IsTuple(ret)
    /\ written' = Append(written, ret)
    /\ Captures(n, loc[n] + 1)
    /\ Call(n, Kid(n), "next", "got")
    /\ UNCHANGED <<tables, mem, out, faults, status>>

WriteFails(n) ==
    /\ At(n, "got")
    /\ IsTuple(ret)
    /\ faults < MaxFaults
    /\ faults' = faults + 1
    /\ Answer(n, Err)
    /\ UNCHANGED <<tables, mem, loc, out, written, status>>

\* The child has ended, or failed: the answer is the count, at every call.
WriteCount(n) ==
    /\ At(n, "got")
    /\ ~ IsTuple(ret)
    /\ Answer(n, [count |-> loc[n]])
    /\ UNCHANGED <<tables, mem, loc, effects>>

-----------------------------------------------------------------------------
(* The client: the loop of main.go that runs one statement                 *)

\* An error of Iterator ends the statement, before any row.
ClientOpened ==
    /\ At("client", "opened")
    /\ IF ret = Err
       THEN status' = "error" /\ UNCHANGED <<control, ret>>
       ELSE Call("client", Top, "next", "row") /\ UNCHANGED status
    /\ UNCHANGED <<tables, mem, loc, out, written, faults>>

ClientPrints ==
    /\ At("client", "row")
    /\ IsTuple(ret)
    /\ out' = IF plan.write = Nil THEN Append(out, Value(ret)) ELSE <<ret.count>>
    /\ \/ Call("client", Top, "next", "row") /\ UNCHANGED status
       \/ status' = "interrupted" /\ UNCHANGED <<control, ret>>   \* the alarm
    /\ UNCHANGED <<tables, mem, loc, written, faults>>

ClientEnds ==
    /\ At("client", "row")
    /\ ~ IsTuple(ret)
    /\ status' = IF ret = Err THEN "error" ELSE "done"
    /\ UNCHANGED <<tables, mem, control, ret, loc, out, written, faults>>

-----------------------------------------------------------------------------

Init ==
    /\ plan \in Plans
    /\ \E l \in Lefts, r \in Rights :
          /\ plan.values # Nil => l = <<>>
          /\ ~ plan.join => r = <<>>
          /\ mem = [i \in 1 .. Len(l) + Len(r) |->
                      LET row == (l \o r)[i] IN Array(row, GrownFor(Len(row)))]
          /\ left = [i \in DOMAIN l |-> [arr |-> i, len |-> Len(l[i])]]
          /\ right = [i \in DOMAIN r |-> [arr |-> Len(l) + i, len |-> Len(r[i])]]
    /\ at = Top
    /\ pc = [n \in Ops \cup {"client"} |-> IF n = "client" THEN "opened" ELSE "open"]
    /\ ret = Nil
    /\ loc = [n \in Ops |-> Nil]
    /\ out = <<>>
    /\ written = <<>>
    /\ faults = 0
    /\ status = "running"

Next ==
    \/ \E n \in {"scanL", "scanR", "values"} : ScanOpen(n)
    \/ \E n \in {"scanL", "scanR"} : ScanNext(n) \/ ScanFails(n)
    \/ ValuesNext
    \/ \E n \in {"filterL", "filterR", "project", "order", "limit", "agg"} \cup Writers : OpenKid(n)
    \/ \E n \in {"filterL", "filterR", "project", "limit"} \cup Writers : KidOpened(n)
    \/ \E n \in {"filterL", "filterR", "project", "agg"} \cup Writers : NextOfKid(n)
    \/ \E n \in {"filterL", "filterR"} : FilterGot(n)
    \/ ProjectGot
    \/ LimitNext \/ LimitGot
    \/ OrderOpened \/ OrderCollect \/ Sort \/ OrderNext
    \/ JoinOpen \/ JoinOpened \/ JoinNext \/ JoinRight \/ JoinRightDone \/ JoinLeft \/ JoinReopened
    \/ AggOpened \/ AggAdd \/ AggFails \/ AggResult
    \/ \E n \in Writers : Write(n) \/ WriteFails(n) \/ WriteCount(n)
    \/ \E n \in {"join", "agg"} : NilCall(n)
    \/ ClientOpened \/ ClientPrints \/ ClientEnds

\* One goroutine runs the statement and does not stop by itself.
Spec == Init /\ [][Next]_vars /\ WF_vars(Next)
-----------------------------------------------------------------------------
(* What a statement ought to return, in terms of the tables alone          *)

RowsOf(table) == [i \in DOMAIN table |-> SubSeq(mem[table[i].arr], 1, table[i].len)]

Holds(l, r, op) == l # Err /\ r # Err /\ EvalPred(l, r, op)
Kept(rows, side) ==
    LET c == plan.filters[side]
    IN  IF c = Nil THEN rows
        ELSE SelectSeq(rows, LAMBDA r : Holds(SqlValue(c.left, r), SqlValue(c.right, r), c.op))

ValueRows ==
    [i \in DOMAIN plan.values |->
        [f \in DOMAIN plan.values[i] |-> SqlValue(plan.values[i][f], <<>>)]]

JoinOf(L, R) ==
    LET Matching(l) == SelectSeq(R, LAMBDA r : r[1] = l[1])
    IN  FlattenSeq([i \in DOMAIN L |->
            [j \in DOMAIN Matching(L[i]) |-> L[i] \o Matching(L[i])[j]]])

Source ==
    CASE plan.values # Nil -> SelectSeq(ValueRows, LAMBDA r : Err \notin Range(r))
      [] plan.values = Nil /\ ~ plan.join -> Kept(RowsOf(left), "left")
      [] OTHER -> JoinOf(Kept(RowsOf(left), "left"), Kept(RowsOf(right), "right"))

\* In the arithmetic of all integers; Err for a sum that is too large.
Aggregate(rows) ==
    LET v == [i \in DOMAIN rows |-> rows[i][2]]
        sum == InRange(FoldLeft(LAMBDA x, y : x + y, 0, v))
    IN  <<Len(v), sum, IF sum = Err THEN Err ELSE Quotient(sum, Len(v)),
          Max(Range(v)), Min(Range(v))>>

AggregatesOf(rows) ==
    CASE plan.agg = Nil   -> rows
      [] plan.agg = "all" -> <<Aggregate(rows)>>
      [] plan.agg = "group" ->
           LET keys == SetToSeq({r[1] : r \in Range(rows)})
           IN  [i \in DOMAIN keys |->
                  <<keys[i]>> \o Aggregate(SelectSeq(rows, LAMBDA r : r[1] = keys[i]))]
Aggregated == AggregatesOf(Source)

SelectedOf(row) ==
    [f \in DOMAIN plan.list |-> IF WellFormed(plan.list[f]) THEN SqlValue(plan.list[f], row) ELSE Nil]
ProjectionOf(rows) ==
    CASE plan.select = "star"     -> rows
      [] plan.select = "fields"   -> [i \in DOMAIN rows |-> SelectedOf(rows[i])]
      [] plan.select = "distinct" -> SetToSeq({SelectedOf(rows[i]) : i \in DOMAIN rows})
Projected == ProjectionOf(Aggregated)

Count(rows, r) == Cardinality({i \in DOMAIN rows : rows[i] = r})
Included(rows, all) == \A r \in Range(rows) : Count(rows, r) <= Count(all, r)

\* The rows a statement has delivered: printed, inserted or deleted.
Delivered == IF plan.write = Nil THEN out ELSE [i \in DOMAIN written |-> Value(written[i])]

Complete == status = "done" \/ (plan.write # Nil /\ out # <<>>)

\* Joined tuples that share the array of their left tuple are kept, sorted or
\* inserted, while the join overwrites that array with its next result.  (A right
\* tuple of one field does no harm: the field is the same in all results.)
Aliased ==
    /\ plan.join /\ plan.agg = Nil /\ plan.select = "star" /\ (plan.order # <<>> \/ plan.write = "insert")
    /\ \E i \in DOMAIN left, j \in DOMAIN right : right[j].len > 1 /\ HasRoom(left[i], right[j])

\* Every expression of the statement has a value for every row it is asked for.
FiltersDefined ==
    \A side \in {"left", "right"} : plan.filters[side] # Nil =>
        \A row \in Range(RowsOf(IF side = "left" THEN left ELSE right)) :
            Defined(plan.filters[side].left, row) /\ Defined(plan.filters[side].right, row)
ListDefined(exprs) ==
    \A e \in {x \in exprs : x.kind = "func"} : \A row \in Range(Aggregated) : Defined(e, row)
SumsFit == plan.agg # Nil => \A row \in Range(Aggregated) : Err \notin Range(row)
ValuesDefined == plan.values = Nil \/ \A row \in Range(ValueRows) : Err \notin Range(row)

\* The rows all, sorted, and of a LIMIT the first ones, have been delivered.
Delivers(all) ==
    LET n == IF plan.limit = Nil THEN Len(all) ELSE Min({plan.limit, Len(all)})
    IN  /\ Len(Delivered) = n
        /\ Included(Delivered, all)
        /\ Ordered(Delivered, plan.order)
        /\ \A r \in Range(all) :
              Count(Delivered, r) < Count(all, r) =>
                  \A d \in Range(Delivered) : ~ Less(r, d, plan.order)
        /\ plan.write # Nil => out = <<n>>

\* A statement that ends without error, in which no call fails, every expression
\* of its select list or VALUES has a value and no sum overflows, delivers exactly
\* the rows that SQL asks for, in the order it asks for, and of a LIMIT the first
\* ones; a write reports their number.
ResultExact ==
    (Complete /\ faults = 0 /\ ValuesDefined /\ SumsFit /\ ListDefined(Range(plan.list)))
        => Delivers(Projected)

\* It does so as long as no kept tuples share an array.
ResultExactUnlessAliased == Aliased \/ ResultExact

\* Whatever calls and expressions fail, and wherever the iterators drop the
\* error, a statement without aggregates delivers only rows of its result, none
\* of them too often (and with empty fields for ill-formed expressions only),
\* and a write counts what it has written; unless arithmetic has overflowed.
RowsGenuineUnlessAliased ==
    \/ Aliased
    \/ plan.agg # Nil
    \/ ~ ListDefined({e \in Range(plan.list) : WellFormed(e)})
    \/ /\ Included(Delivered, Projected)
       /\ (plan.write # Nil /\ At("client", "row") /\ IsTuple(ret)) => ret.count = Len(written)

\* The program panics in a statement only if a join has an empty left input, if
\* aggregates without GROUP BY have no row to work on, after a failed call,
\* which a join or an aggregate may take for the end of an empty input, or when
\* an expression has no value; one that is only ill-formed does no such harm in
\* a select list.
PanicsExplained ==
    status = "crashed" =>
        \/ plan.join /\ Kept(RowsOf(left), "left") = <<>>
        \/ plan.agg = "all" /\ Source = <<>>
        \/ faults > 0 /\ (plan.join \/ plan.agg = "all")
        \/ ~ FiltersDefined
        \/ ~ ValuesDefined
        \/ ~ ListDefined({e \in Range(plan.list) : WellFormed(e)})

\* What is inserted can be written to disk: no field of it is empty, for that
\* makes CommitTransaction panic between two pages; unless the rows come from a
\* select list with an ill-formed expression, which nobody rejects.
InsertsHaveValues ==
    \/ \E e \in Range(plan.list) : ~ WellFormed(e)
    \/ \A i \in DOMAIN written : Nil \notin Range(Value(written[i]))

\* The right input of a join has no row at all.
EmptyRight == plan.join /\ Kept(RowsOf(right), "right") = <<>>

\* A query ends, whatever calls fail: with its last row, an error or a panic.
\* (Not so a write, which answers every call with its count, and a join with an
\* empty right input, which looks for a right tuple for ever.)
QueriesEnd ==
    (plan.write = Nil /\ ~ EmptyRight) => <>(status # "running")
=============================================================================
