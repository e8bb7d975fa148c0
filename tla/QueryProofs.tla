---------------------------- MODULE QueryProofs ----------------------------
(***************************************************************************)
(* The rows a statement inserts have a value in every field, for all       *)
(* tables, plans, expressions and failing calls.  The invariant says which *)
(* operator runs and on whose behalf, what the closures have captured, and *)
(* that the arrays of the tuples in flight hold values where the tuples    *)
(* say they do, although a join may write into the array of a tuple that   *)
(* somebody else has.                                                      *)
(***************************************************************************)
EXTENDS Query, NaturalsInduction, FiniteSetTheorems, WellFoundedInduction, SequenceTheorems, TLAPS

-----------------------------------------------------------------------------
(* The invariant                                                           *)

\* The tuples of arrays m whose fields all have values, those whose fields are
\* all integers, and of these the ones with at least w fields.
Cells == Int \cup Strings \cup {Nil}
Tuples(m) ==
    {t \in [arr : 1 .. Len(m), len : Nat] :
        t.len <= Len(m[t.arr]) /\ \A i \in 1 .. t.len : m[t.arr][i] # Nil}
IntTuples(m, w) ==
    {t \in Tuples(m) : t.len >= w /\ \A i \in 1 .. t.len : m[t.arr][i] \in Int}

\* The operators a plan has.
PlanOps == {n \in Ops : HasOp(plan, n)}
Leaves == {"scanL", "scanR", "values"}
Inner == PlanOps \ Leaves

\* What the last call of n was: of which operator, and of which method.
AtRight == {"openedRight", "right", "reopened"}
Callee(n) ==
    CASE n = "client" -> Top
      [] n = "join" /\ pc[n] \in AtRight -> RightKid
      [] OTHER -> Kid(n)
OpenLabels == {"opened", "openedRight", "reopened"}
NextLabels == {"got", "more", "collect", "first", "right", "left", "row"}
\* The method of n that runs, or was the last to run.
InOpen(n) == pc[n] \in {"open", "opened", "openedRight", "first", "collect"}

\* An operator that has called a method of another one has the answer of that method.
CallsMatched ==
    \A n \in Inner \cup {"client"} :
        /\ pc[n] \in OpenLabels => InOpen(Callee(n))
        /\ pc[n] \in NextLabels => ~ InOpen(Callee(n))

\* Only the input of a join that the join has called runs.
SidesMatched ==
    /\ (plan.join /\ at \in {"scanL", "values", "filterL"}) => pc["join"] \in {"opened", "first", "left"}
    /\ at \in {"scanR", "filterR"} => pc["join"] \in AtRight

\* What the closure of n may have captured, with arrays m.
AggStates == [count : Nat, sum : Int, max : Int, min : Int, null : BOOLEAN]
AggGroups == [key : Seq(Int), state : AggStates]
MayCapture(n, v, m) ==
    CASE n \in {"scanL", "scanR", "values", "limit", "insert", "delete"} -> v \in Nat
      [] n = "order" -> v \in Seq(Tuples(m))
      [] n = "join" -> v \in [leftTuple : IntTuples(m, 2) \cup {Nil}]
      [] n = "agg" -> v \in [groups : Seq(AggGroups), done : Nat]
      [] OTHER -> TRUE
Captured == \A n \in Ops : loc[n] = Nil \/ MayCapture(n, loc[n], mem)

\* Operators whose closure does not look whether it is there have been opened
\* before it is called.
Unguarded == Leaves \cup {"order", "limit"}
Ready(n) == n \in Unguarded => MayCapture(n, loc[n], mem)
KidsReady(n) == Ready(Kid(n)) /\ (n = "join" => Ready(RightKid))
Busy == {"got", "more", "collect", "right", "left", "reopened"}
OpenedFirst ==
    /\ \A n \in Inner :
          /\ loc[n] # Nil \/ pc[n] \in Busy => KidsReady(n)
          /\ pc[n] \in Busy => MayCapture(n, loc[n], mem)
    /\ \A n \in Unguarded \cap PlanOps : ~ InOpen(n) => Ready(n)
    /\ pc["client"] = "row" => Ready(Top)
    /\ (plan.join /\ pc["join"] \in {"openedRight", "first"}) => Ready(Kid("join"))
    /\ (plan.join /\ pc["join"] = "first") => Ready(RightKid)

\* The tuples the closure of n may return, with arrays m.
Returned(n, m) ==
    CASE n \in {"scanL", "filterL", "join", "agg"} -> IntTuples(m, 2)
      [] n \in {"scanR", "filterR"} -> IntTuples(m, 1)
      [] n \in Writers -> [count : Nat]
      [] OTHER -> Tuples(m)

\* What an operator has been answered is what it waits for.
AnswersFit ==
    (at \in Inner \cup {"client"}) =>
        /\ pc[at] \in OpenLabels => Ready(Callee(at))
        /\ (pc[at] \in NextLabels /\ IsTuple(ret)) => ret \in Returned(Callee(at), mem)

QueryTypes ==
    /\ plan \in Plans
    /\ DOMAIN pc = Ops \cup {"client"} /\ DOMAIN loc = Ops
    /\ at \in PlanOps \cup {"client"}
    /\ mem \in Seq(Seq(Cells))
    /\ left \in Seq(IntTuples(mem, 2)) /\ right \in Seq(IntTuples(mem, 1))
    /\ written \in Seq(Tuples(mem))

WellFormedList == \A e \in Range(plan.list) : WellFormed(e)
Control == CallsMatched /\ SidesMatched /\ OpenedFirst /\ AnswersFit
WellRun == QueryTypes /\ Captured /\ Control
QueryInv == WellFormedList => WellRun

-----------------------------------------------------------------------------
(* What expressions evaluate to                                            *)

LEMMA WrapInt ==
    ASSUME NEW i \in Int
    PROVE  Wrap(i) \in Int
<1> DEFINE d == 2 * (MaxInt + 1)
<1>1. d \in Int /\ d > 0
  BY MaxIntAssumption
<1>2. (i + MaxInt + 1) % d \in Int
  <2> HIDE DEF d
  <2> QED
    BY <1>1, MaxIntAssumption
<1> QED
  BY <1>2, MaxIntAssumption DEF Wrap

LEMMA QuotientInt ==
    ASSUME NEW a \in Int, NEW b \in Int, b # 0
    PROVE  Quotient(a, b) \in Int
<1>1. Abs(a) \in Int /\ Abs(b) \in Int /\ Abs(b) > 0
  BY DEF Abs
<1>2. Abs(a) \div Abs(b) \in Int
  BY <1>1
<1> QED
  BY <1>2 DEF Quotient

LEMMA ApplyTyped ==
    ASSUME NEW op \in Funcs, NEW a, DOMAIN a = 1 .. Len(ArgTypes(op)),
           \A i \in 1 .. Len(ArgTypes(op)) : a[i] \in Values(ArgTypes(op)[i])
    PROVE  Apply(op, a) \in Values(OutType(op)) \cup {Panic}
<1>1. CASE op \in Binary
  <2>1. ArgTypes(op) = <<"int", "int">>
    BY <1>1 DEF ArgTypes, Binary
  <2>2. a[1] \in Int /\ a[2] \in Int /\ Values(OutType(op)) = Int
    BY <1>1, <2>1 DEF Values, OutType, Binary
  <2>3. Wrap(a[1] + a[2]) \in Int /\ Wrap(a[1] - a[2]) \in Int /\ Wrap(a[1] * a[2]) \in Int
    <3>1. a[1] + a[2] \in Int /\ a[1] - a[2] \in Int /\ a[1] * a[2] \in Int
      BY <2>2
    <3> QED
      BY <3>1, WrapInt
  <2>4. a[2] # 0 => Wrap(Quotient(a[1], a[2])) \in Int /\ a[1] - a[2] * Quotient(a[1], a[2]) \in Int
    <3>1. ASSUME a[2] # 0 PROVE Quotient(a[1], a[2]) \in Int
      BY <2>2, <3>1, QuotientInt
    <3>2. ASSUME NEW q \in Int PROVE Wrap(q) \in Int /\ a[1] - a[2] * q \in Int
      <4>1. a[2] * q \in Int
        BY <2>2
      <4>2. a[1] - a[2] * q \in Int
        BY <2>2, <4>1
      <4> QED
        BY <4>2, WrapInt
    <3> QED
      BY <3>1, <3>2
  <2>5. MinFunc(a) \in Int /\ MaxFunc(a) \in Int
    BY <2>2 DEF MinFunc, MaxFunc
  <2>6. op \in {"+", "-", "*", "/", "mod", "imin", "imax"}
    BY <1>1 DEF Binary
  <2>7. Apply(op, a) \in Int \cup {Panic}
    <3>1. CASE op \in {"+", "-", "*"}
      BY <2>3, <3>1 DEF Apply
    <3>2. CASE op = "/"
      BY <2>4, <3>2 DEF Apply
    <3>3. CASE op = "mod"
      BY <2>4, <3>3 DEF Apply
    <3>4. CASE op \in {"imin", "imax"}
      BY <2>5, <3>4 DEF Apply
    <3> QED
      BY <2>6, <3>1, <3>2, <3>3, <3>4
  <2> QED
    BY <2>2, <2>7
<1>2. CASE op = "sq"
  <2>1. ArgTypes(op) = <<"int">>
    BY <1>2 DEF ArgTypes, Binary
  <2>2. a[1] \in Int /\ Values(OutType(op)) = Int
    BY <1>2, <2>1 DEF Values, OutType
  <2>3. a[1] * a[1] \in Int
    BY <2>2
  <2>4. Wrap(a[1] * a[1]) \in Int
    BY <2>3, WrapInt
  <2>5. Apply(op, a) = Wrap(a[1] * a[1])
    BY <1>2 DEF Apply
  <2> QED
    BY <2>2, <2>4, <2>5
<1>3. CASE op = "getsubstr"
  <2>1. ArgTypes(op) = <<"string", "int", "int">>
    BY <1>3 DEF ArgTypes, Binary
  <2>2. a[1] \in Strings /\ a[2] \in Int /\ a[3] \in Int /\ Values(OutType(op)) = Strings
    BY <1>3, <2>1 DEF Values, OutType
  <2>3. a[1].len \in Int /\ a[2] + a[3] \in Int
    BY <2>2 DEF Strings
  <2>4. Wrap(a[2] + a[3]) \in Int
    BY <2>3, WrapInt
  <2>5. SubStr(a[1], a[2], a[3]) \in Strings \cup {Panic}
    BY <2>2, <2>3, <2>4 DEF SubStr, Strings
  <2>6. Apply(op, a) = SubStr(a[1], a[2], a[3])
    BY <1>3 DEF Apply
  <2> QED
    BY <2>2, <2>5, <2>6
<1> QED
  BY <1>1, <1>2, <1>3 DEF Funcs

LEMMA LeafTyped ==
    ASSUME NEW e, NEW fields, NEW row, IsLeaf(e, fields), \A f \in fields : row[f] \in Int
    PROVE  EvalLeaf(e, row) \in Values(GetExprType(e)) /\ e.kind # "func"
  BY DEF IsLeaf, EvalLeaf, GetExprType, Values

\* A function of arguments that have the values of their types, or failed.
LEMMA FuncTyped ==
    ASSUME NEW e, e.kind = "func", NEW given, DOMAIN e.args = 1 .. Len(e.args),
           \A i \in DOMAIN e.args : given[i] \in Values(GetExprType(e.args[i])) \cup {Err, Panic}
    PROVE  /\ EvalFunc(e, given) \in Values(GetExprType(e)) \cup {Err, Panic}
           /\ (WellFormedFunc(e) /\ (\A i \in DOMAIN e.args : given[i] # Err) /\ Err # Panic)
                 => EvalFunc(e, given) \in Values(GetExprType(e)) \cup {Panic}
<1> DEFINE types == ArgTypes(e.op)
           vals == [i \in DOMAIN types |-> IF GetExprType(e.args[i]) # types[i] THEN Err ELSE given[i]]
           bad == {i \in DOMAIN types : Failed(vals[i])}
           first == CHOOSE i \in bad : \A j \in bad : i <= j
<1>1. CASE e.op \notin Funcs \/ Len(e.args) # Len(types)
  BY <1>1 DEF EvalFunc, WellFormedFunc
<1>2. CASE e.op \in Funcs /\ Len(e.args) = Len(types)
  <2>1. EvalFunc(e, given) = IF bad = {} THEN Apply(e.op, vals) ELSE vals[first]
    BY <1>2 DEF EvalFunc
  <2>2. DOMAIN types = 1 .. Len(types) /\ DOMAIN types = DOMAIN e.args /\ Len(types) \in 1 .. 3
    <3>1. types \in {<<"int", "int">>, <<"int">>, <<"string", "int", "int">>}
      BY <1>2 DEF ArgTypes, Binary, Funcs
    <3> HIDE DEF types
    <3>2. DOMAIN types = 1 .. Len(types) /\ Len(types) \in 1 .. 3
      BY <3>1
    <3> QED
      BY <1>2, <3>2
  <2>3. \A i \in DOMAIN types : vals[i] \in Values(types[i]) \cup {Err, Panic}
    BY <2>2
  <2>4. GetExprType(e) = OutType(e.op)
    BY <1>2 DEF GetExprType
  <2>5. CASE bad = {}
    <3>1. DOMAIN vals = 1 .. Len(ArgTypes(e.op)) /\ \A i \in 1 .. Len(ArgTypes(e.op)) : vals[i] \in Values(ArgTypes(e.op)[i])
      BY <2>2, <2>3, <2>5 DEF Failed
    <3> HIDE DEF vals
    <3>2. Apply(e.op, vals) \in Values(OutType(e.op)) \cup {Panic}
      BY <1>2, <3>1, ApplyTyped
    <3> QED
      BY <2>1, <2>4, <2>5, <3>2
  <2>6. CASE bad # {}
    <3>1. first \in bad
      <4>1. \E i \in bad : \A j \in bad : i <= j
        <5>1. bad \subseteq 1 .. 3
          BY <2>2
        <5> HIDE DEF bad
        <5>2. CASE 1 \in bad
          BY <5>1, <5>2
        <5>3. CASE 1 \notin bad /\ 2 \in bad
          BY <5>1, <5>3
        <5>4. CASE 1 \notin bad /\ 2 \notin bad
          <6>1. \A i \in bad : i = 3
            BY <5>1, <5>4
          <6>2. PICK i \in bad : TRUE
            BY <2>6
          <6> QED
            BY <6>1, <6>2
        <5> QED
          BY <5>2, <5>3, <5>4
      <4> QED
        BY <4>1
    <3>2. first \in DOMAIN types /\ Failed(vals[first])
      BY <3>1
    <3>3. WellFormedFunc(e) => vals[first] = given[first]
      BY <2>2, <3>2 DEF WellFormedFunc
    <3> HIDE DEF first, vals
    <3>4. EvalFunc(e, given) = vals[first]
      BY <2>1, <2>6
    <3> QED
      BY <2>2, <3>2, <3>3, <3>4 DEF Failed
  <2> QED
    BY <2>5, <2>6
<1> QED
  BY <1>1, <1>2

\* An expression has a value of its type, or fails; a well-formed one does not
\* return an error.
LEMMA ExprTyped ==
    ASSUME NEW e, NEW fields, NEW row, IsExpr(e, fields), \A f \in fields : row[f] \in Int, Err # Panic,
           Err \notin Int, Err \notin Strings
    PROVE  /\ EvalExpr(e, row) \in Values(GetExprType(e)) \cup {Err, Panic}
           /\ WellFormed(e) => EvalExpr(e, row) # Err
<1>1. CASE e.kind # "func"
  BY <1>1, LeafTyped DEF IsExpr, EvalExpr, Values
<1>2. CASE e.kind = "func"
  <2> DEFINE given == [i \in DOMAIN e.args |-> EvalFlat(e.args[i], row)]
  <2>1. /\ DOMAIN e.args = 1 .. Len(e.args)
        /\ \A i \in DOMAIN e.args :
              /\ IsFlat(e.args[i], fields)
              /\ e.args[i].kind = "func" => DOMAIN e.args[i].args = 1 .. Len(e.args[i].args)
    BY <1>2 DEF IsExpr
  <2>2. ASSUME NEW i \in DOMAIN e.args
        PROVE  /\ given[i] \in Values(GetExprType(e.args[i])) \cup {Err, Panic}
               /\ WellFormed(e) => given[i] # Err
    <3> DEFINE a == e.args[i]
               args == [j \in DOMAIN a.args |-> EvalLeaf(a.args[j], row)]
    <3>1. given[i] = EvalFlat(a, row)
      OBVIOUS
    <3>2. IsFlat(a, fields) /\ (a.kind = "func" => DOMAIN a.args = 1 .. Len(a.args))
      BY <2>1
    <3>3. WellFormed(e) /\ a.kind = "func" => WellFormedFunc(a)
      BY <1>2 DEF WellFormed
    <3> HIDE DEF a, given
    <3>4. CASE a.kind # "func"
      <4>1. EvalFlat(a, row) \in Values(GetExprType(a))
        BY <3>2, <3>4, LeafTyped DEF IsFlat, EvalFlat
      <4> QED
        BY <3>1, <4>1 DEF Values, a
    <3>5. CASE a.kind = "func"
      <4>1. \A j \in DOMAIN a.args : args[j] \in Values(GetExprType(a.args[j]))
        BY <3>2, <3>5, LeafTyped DEF IsFlat
      <4>2. \A j \in DOMAIN a.args : args[j] # Err
        BY <4>1 DEF Values
      <4>3. EvalFlat(a, row) = EvalFunc(a, args)
        BY <3>5 DEF EvalFlat
      <4> HIDE DEF args
      <4>4. /\ EvalFunc(a, args) \in Values(GetExprType(a)) \cup {Err, Panic}
            /\ WellFormedFunc(a) => EvalFunc(a, args) \in Values(GetExprType(a)) \cup {Panic}
        BY <3>2, <3>5, <4>1, <4>2, FuncTyped
      <4> QED
        BY <3>1, <3>3, <3>5, <4>3, <4>4 DEF Values, a
    <3> QED
      BY <3>4, <3>5
  <2>3. EvalExpr(e, row) = EvalFunc(e, given)
    BY <1>2 DEF EvalExpr
  <2> HIDE DEF given
  <2>4. /\ EvalFunc(e, given) \in Values(GetExprType(e)) \cup {Err, Panic}
        /\ (WellFormedFunc(e) /\ (\A i \in DOMAIN e.args : given[i] # Err)) =>
              EvalFunc(e, given) \in Values(GetExprType(e)) \cup {Panic}
    BY <1>2, <2>1, <2>2, FuncTyped
  <2>5. WellFormed(e) => WellFormedFunc(e)
    BY <1>2 DEF WellFormed
  <2> QED
    BY <2>2, <2>3, <2>4, <2>5 DEF Values
<1> QED
  BY <1>1, <1>2

-----------------------------------------------------------------------------
(* The shape of plans                                                      *)

LEMMA LeastExists ==
    ASSUME NEW S \in SUBSET Nat, S # {}
    PROVE  \E x \in S : \A y \in S : x <= y
<1> DEFINE less == OpToRel(<, Nat)
<1>1. IsWellFoundedOn(less, Nat)
  BY NatLessThanWellFounded
<1>2. \A x, y \in Nat : <<x, y>> \in less <=> x < y
  BY DEF OpToRel
<1> HIDE DEF less
<1>3. PICK x \in S : \A y \in S : ~ (<<y, x>> \in less)
  BY <1>1, WFMin
<1>4. ASSUME NEW y \in S PROVE x <= y
  <2>1. x \in Nat /\ y \in Nat /\ ~ (y < x)
    BY <1>2, <1>3
  <2> QED
    BY <2>1
<1> QED
  BY <1>3, <1>4

LEMMA Extremes ==
    ASSUME NEW S \in SUBSET (1 .. 10), S # {}
    PROVE  /\ Max(S) \in S /\ \A x \in S : x <= Max(S)
           /\ Min(S) \in S /\ \A x \in S : Min(S) <= x
<1>1. S \in SUBSET Nat /\ \A x \in S : x \in 1 .. 10
  OBVIOUS
<1>2. \E x \in S : \A y \in S : x <= y
  BY <1>1, LeastExists
<1>3. \E x \in S : \A y \in S : x >= y
  <2> DEFINE T == {n \in 0 .. 9 : 10 - n \in S}
  <2>1. T \in SUBSET Nat
    OBVIOUS
  <2>2. \A x \in S : 10 - x \in T
    BY <1>1
  <2>3. T # {}
    BY <2>2
  <2>4. PICK n \in T : \A m \in T : n <= m
    <3> HIDE DEF T
    <3> QED
      BY <2>1, <2>3, LeastExists
  <2>5. \A y \in S : 10 - n >= y
    BY <1>1, <2>2, <2>4
  <2> QED
    BY <2>4, <2>5
<1>4. Min(S) \in S /\ \A x \in S : Min(S) <= x
  BY <1>2 DEF Min
<1>5. Max(S) \in S /\ \A x \in S : Max(S) >= x
  BY <1>3 DEF Max
<1>6. \A x \in S : x <= Max(S)
  BY <1>1, <1>5
<1> QED
  BY <1>4, <1>5, <1>6

\* The list has no operator twice.
LEMMA PlacesDiffer ==
    /\ DOMAIN Stack = 1 .. 10
    /\ \A i \in 1 .. 10 : Place(Stack[i]) = i
    /\ \A i \in 1 .. 10 : Stack[i] \in Ops \ {"scanR", "filterR", "client"}
    /\ \A n \in Ops \ {"scanR", "filterR"} : Place(n) \in 1 .. 10 /\ Stack[Place(n)] = n
    /\ Place("scanL") = 1 /\ Place("values") = 2 /\ Place("filterL") = 3 /\ Place("join") = 4
    /\ Place("agg") = 5 /\ Place("project") = 6 /\ Place("order") = 7 /\ Place("limit") = 8
    /\ Place("insert") = 9 /\ Place("delete") = 10
<1>1. DOMAIN Stack = 1 .. 10
  BY DEF Stack
<1>2. /\ Stack[1] = "scanL" /\ Stack[2] = "values" /\ Stack[3] = "filterL" /\ Stack[4] = "join"
      /\ Stack[5] = "agg" /\ Stack[6] = "project" /\ Stack[7] = "order" /\ Stack[8] = "limit"
      /\ Stack[9] = "insert" /\ Stack[10] = "delete"
  BY DEF Stack
<1>3. \A i, j \in 1 .. 10 : Stack[i] = Stack[j] => i = j
  BY <1>2
<1>4. \A i \in 1 .. 10 : Place(Stack[i]) = i
  BY <1>1, <1>3 DEF Place
<1>5. \A i \in 1 .. 10 : Stack[i] \in Ops \ {"scanR", "filterR", "client"}
  BY <1>2 DEF Ops
<1>6. \A n \in Ops \ {"scanR", "filterR"} : \E i \in 1 .. 10 : Stack[i] = n
  BY <1>2 DEF Ops
<1>7. /\ Place("scanL") = 1 /\ Place("values") = 2 /\ Place("filterL") = 3 /\ Place("join") = 4
      /\ Place("agg") = 5 /\ Place("project") = 6 /\ Place("order") = 7 /\ Place("limit") = 8
      /\ Place("insert") = 9 /\ Place("delete") = 10
  BY <1>2, <1>4
<1> QED
  BY <1>1, <1>4, <1>5, <1>6, <1>7

\* Which operators come together.
LEMMA PlanIs ==
    ASSUME plan \in Plans
    PROVE  /\ "scanL" \in PlanOps <=> "values" \notin PlanOps
           /\ "values" \in PlanOps => PlanOps \cap {"filterL", "filterR", "scanR", "join", "agg", "project", "order", "limit", "delete"} = {}
           /\ "scanR" \in PlanOps <=> plan.join
           /\ "join" \in PlanOps <=> plan.join
           /\ "filterR" \in PlanOps => plan.join
           /\ ~ ("insert" \in PlanOps /\ "delete" \in PlanOps)
<1>1. /\ HasOp(plan, "scanL") = (plan.values = Nil)
      /\ HasOp(plan, "values") = (plan.values # Nil)
      /\ HasOp(plan, "scanR") = plan.join
      /\ HasOp(plan, "filterL") = (plan.filters["left"] # Nil)
      /\ HasOp(plan, "filterR") = (plan.filters["right"] # Nil)
      /\ HasOp(plan, "join") = plan.join
      /\ HasOp(plan, "agg") = (plan.agg # Nil)
      /\ HasOp(plan, "project") = (plan.select # "star")
      /\ HasOp(plan, "order") = (plan.order # <<>>)
      /\ HasOp(plan, "limit") = (plan.limit # Nil)
      /\ HasOp(plan, "insert") = (plan.write = "insert")
      /\ HasOp(plan, "delete") = (plan.write = "delete")
  BY DEF HasOp
<1>2. /\ plan.join \in BOOLEAN
      /\ plan.filters["right"] # Nil => plan.join
      /\ (plan.write = "delete" \/ plan.values # Nil) =>
            /\ ~ plan.join
            /\ plan.agg = Nil /\ plan.select = "star" /\ plan.order = <<>> /\ plan.limit = Nil
      /\ plan.values # Nil => plan.write = "insert" /\ plan.filters["left"] = Nil
  BY DEF Plans
<1>3. \A n \in Ops : n \in PlanOps <=> HasOp(plan, n)
  BY DEF PlanOps
<1>4. {"scanL", "scanR", "values", "filterL", "filterR", "join", "agg", "project", "order", "limit", "insert", "delete"} = Ops
  BY DEF Ops
<1>5. plan.write = "insert" => plan.write # "delete"
  OBVIOUS
<1>6. /\ "scanL" \in PlanOps <=> plan.values = Nil
      /\ "values" \in PlanOps <=> plan.values # Nil
      /\ "scanR" \in PlanOps <=> plan.join
      /\ "filterL" \in PlanOps <=> plan.filters["left"] # Nil
      /\ "filterR" \in PlanOps <=> plan.filters["right"] # Nil
      /\ "join" \in PlanOps <=> plan.join
      /\ "agg" \in PlanOps <=> plan.agg # Nil
      /\ "project" \in PlanOps <=> plan.select # "star"
      /\ "order" \in PlanOps <=> plan.order # <<>>
      /\ "limit" \in PlanOps <=> plan.limit # Nil
      /\ "insert" \in PlanOps <=> plan.write = "insert"
      /\ "delete" \in PlanOps <=> plan.write = "delete"
  BY <1>1, <1>3, <1>4
<1> HIDE DEF PlanOps
<1> QED
  BY <1>2, <1>5, <1>6

LEMMA SpineIs ==
    /\ Spine(plan) \in SUBSET (1 .. 10)
    /\ \A i \in Spine(plan) : Stack[i] \in PlanOps \ {"scanR", "filterR"}
    /\ \A n \in PlanOps \ {"scanR", "filterR"} : Place(n) \in Spine(plan)
    /\ PlanOps \subseteq Ops
  BY PlacesDiffer DEF Spine, PlanOps

LEMMA TopIs ==
    ASSUME plan \in Plans
    PROVE  /\ Top \in PlanOps \ {"scanR", "filterR"}
           /\ \A n \in PlanOps \ {"scanR", "filterR"} : Place(n) <= Place(Top)
           /\ Parent(Top) = "client"
           /\ Place(Top) \in Spine(plan)
<1> DEFINE i == Max(Spine(plan))
<1>1. Spine(plan) # {}
  BY PlanIs, SpineIs DEF Ops
<1>2. i \in Spine(plan) /\ \A j \in Spine(plan) : j <= i
  BY <1>1, SpineIs, Extremes
<1>3. Top = Stack[i] /\ Place(Top) = i
  BY <1>2, SpineIs, PlacesDiffer DEF Top
<1> HIDE DEF i
<1>4. Top \in PlanOps \ {"scanR", "filterR"}
  BY <1>2, <1>3, SpineIs
<1>5. Parent(Top) = "client"
  BY <1>4 DEF Parent
<1> QED
  BY <1>2, <1>3, <1>4, <1>5, SpineIs

\* An operator and the one below it.
LEMMA KidIs ==
    ASSUME plan \in Plans, NEW n \in Inner, n # "filterR"
    PROVE  /\ Kid(n) \in PlanOps \ {"scanR", "filterR"}
           /\ Place(Kid(n)) < Place(n)
           /\ Kid(n) # Top
           /\ Parent(Kid(n)) = n
<1> DEFINE i == Place(n)
           below == {k \in Spine(plan) : k < i}
           j == Max(below)
           above == {k \in Spine(plan) : k > j}
<1>1. n \in PlanOps \ {"scanR", "filterR"} /\ n # "scanL" /\ n # "values"
  BY DEF Inner, Leaves
<1>2. i \in Spine(plan) /\ i \in 1 .. 10 /\ n = Stack[i]
  BY <1>1, SpineIs, PlacesDiffer
<1>3. i # 1 /\ i # 2
  <2>1. Stack[1] = "scanL" /\ Stack[2] = "values"
    BY DEF Stack
  <2> QED
    BY <1>1, <1>2, <2>1
<1>4. 1 \in Spine(plan) \/ 2 \in Spine(plan)
  <2>1. "scanL" \in PlanOps \/ "values" \in PlanOps
    BY PlanIs
  <2> QED
    BY <2>1, SpineIs, PlacesDiffer
<1>5. below # {} /\ below \in SUBSET (1 .. 10)
  <2>1. 1 < i /\ 2 < i
    BY <1>2, <1>3
  <2>2. 1 \in below \/ 2 \in below
    BY <1>4, <2>1
  <2> QED
    BY <2>2, SpineIs
<1>6. j \in below /\ \A k \in below : k <= j
  <2> HIDE DEF below
  <2> QED
    BY <1>5, Extremes
<1>7. Kid(n) = Stack[j]
  BY DEF Kid
<1>8. j \in Spine(plan) /\ j \in 1 .. 10 /\ j < i
  BY <1>6, SpineIs
<1> HIDE DEF j
<1>9. Kid(n) \in PlanOps \ {"scanR", "filterR"} /\ Place(Kid(n)) = j
  BY <1>7, <1>8, SpineIs, PlacesDiffer
<1>10. Kid(n) # Top
  <2>1. i <= Place(Top)
    BY <1>1, TopIs
  <2>2. Place(Top) \in 1 .. 10
    BY TopIs, SpineIs
  <2> QED
    BY <1>2, <1>8, <1>9, <2>1, <2>2
<1>11. above \in SUBSET (1 .. 10) /\ i \in above
  BY <1>2, <1>8, SpineIs
<1>12. Min(above) \in above /\ \A k \in above : Min(above) <= k
  <2> HIDE DEF above
  <2> QED
    BY <1>11, Extremes
<1>13. Min(above) = i
  <2>1. Min(above) \in Spine(plan) /\ Min(above) > j /\ Min(above) <= i /\ Min(above) \in 1 .. 10
    BY <1>11, <1>12
  <2>2. Min(above) < i => Min(above) <= j
    <3> HIDE DEF above
    <3> QED
      BY <1>6, <2>1
  <2> HIDE DEF above
  <2> QED
    BY <1>2, <1>8, <2>1, <2>2
<1>14. Parent(Kid(n)) = Stack[Min({k \in Spine(plan) : k > Place(Kid(n))})]
  BY <1>9, <1>10 DEF Parent
<1>15. {k \in Spine(plan) : k > Place(Kid(n))} = above
  BY <1>9
<1> HIDE DEF above
<1>16. Parent(Kid(n)) = n
  BY <1>2, <1>13, <1>14, <1>15
<1> QED
  BY <1>8, <1>9, <1>10, <1>16

\* An operator and the one on top of it.
LEMMA ParentIs ==
    ASSUME plan \in Plans, NEW n \in PlanOps \ {"scanR", "filterR"}, n # Top
    PROVE  /\ Parent(n) \in Inner \ {"filterR"}
           /\ Place(n) < Place(Parent(n))
           /\ Kid(Parent(n)) = n
<1> DEFINE j == Place(n)
           above == {k \in Spine(plan) : k > j}
           i == Min(above)
           m == Stack[i]
<1>1. j \in Spine(plan) /\ j \in 1 .. 10 /\ n = Stack[j]
  BY SpineIs, PlacesDiffer
<1>2. Place(Top) \in Spine(plan) /\ Place(Top) \in 1 .. 10 /\ Stack[Place(Top)] = Top /\ j <= Place(Top)
  BY TopIs, SpineIs, PlacesDiffer
<1>3. Place(Top) \in above /\ above \in SUBSET (1 .. 10)
  BY <1>1, <1>2, SpineIs
<1>4. i \in above /\ \A k \in above : i <= k
  <2> HIDE DEF above
  <2> QED
    BY <1>3, Extremes
<1>5. Parent(n) = m
  BY DEF Parent
<1>6. i \in Spine(plan) /\ i \in 1 .. 10 /\ j < i
  BY <1>1, <1>4, SpineIs
<1> HIDE DEF i
<1>7. m \in PlanOps \ {"scanR", "filterR"} /\ Place(m) = i
  BY <1>6, SpineIs, PlacesDiffer
<1>8. m # "scanL"
  BY <1>1, <1>6, <1>7, PlacesDiffer
<1>9. m # "values"
  <2>1. SUFFICES ASSUME m = "values" PROVE FALSE
    OBVIOUS
  <2>2. i = 2 /\ j = 1
    BY <1>1, <1>6, <1>7, <2>1, PlacesDiffer
  <2>3. n = "scanL"
    BY <1>1, <2>2 DEF Stack
  <2> QED
    BY <1>7, <2>1, <2>3, PlanIs
<1>10. m \in Inner \ {"filterR"}
  BY <1>7, <1>8, <1>9 DEF Inner, Leaves
<1> DEFINE below == {k \in Spine(plan) : k < i}
<1>11. below \in SUBSET (1 .. 10) /\ j \in below
  BY <1>1, <1>6, SpineIs
<1>12. Max(below) \in below /\ \A k \in below : k <= Max(below)
  <2> HIDE DEF below
  <2> QED
    BY <1>11, Extremes
<1>13. Max(below) = j
  <2>1. Max(below) \in Spine(plan) /\ Max(below) < i /\ j <= Max(below) /\ Max(below) \in 1 .. 10
    BY <1>11, <1>12
  <2> HIDE DEF below
  <2>2. ~ (j < Max(below))
    BY <1>1, <1>4, <1>6, <2>1
  <2> QED
    BY <1>1, <2>1, <2>2
<1>14. Kid(m) = Stack[Max(below)]
  BY <1>7 DEF Kid
<1> HIDE DEF below
<1>15. Kid(m) = n
  BY <1>1, <1>13, <1>14
<1> QED
  BY <1>5, <1>6, <1>7, <1>10, <1>15

\* What calls what.  The right input of a join has its own operators.
LEMMA CallersAre ==
    ASSUME plan \in Plans
    PROVE  /\ \A n \in Inner \cup {"client"} : Callee(n) \in PlanOps /\ Parent(Callee(n)) = n
           /\ \A n \in Inner : Kid(n) \in PlanOps /\ Parent(Kid(n)) = n
           /\ plan.join => RightKid \in PlanOps /\ Parent(RightKid) = "join" /\ RightKid # Kid("join")
           /\ \A n \in PlanOps : Parent(n) \in Inner \cup {"client"}
           /\ \A n \in PlanOps : Parent(n) = "client" => n = Top
           /\ \A n \in PlanOps : Parent(n) \in Inner \ {"join"} => n = Kid(Parent(n))
           /\ \A n \in PlanOps : Parent(n) = "join" => n \in {Kid("join"), RightKid}
           /\ Inner \subseteq Ops /\ "client" \notin PlanOps
<1>1. PlanOps \subseteq Ops /\ Inner \subseteq PlanOps /\ "client" \notin PlanOps
  BY DEF PlanOps, Ops, Inner
<1>2. \A n \in Inner \ {"filterR"} : Kid(n) \in PlanOps \ {"scanR", "filterR"} /\ Parent(Kid(n)) = n
  BY KidIs
<1>3. "filterR" \in Inner => Kid("filterR") = "scanR" /\ "scanR" \in PlanOps /\ Parent("scanR") = "filterR"
  BY <1>1, PlanIs DEF Kid, Parent, PlanOps
<1>4. plan.join => RightKid \in PlanOps /\ RightKid \in {"scanR", "filterR"} /\ Parent(RightKid) = "join" /\ "join" \in Inner
  BY PlanIs DEF RightKid, Parent, PlanOps, Inner, Leaves, Ops
<1>5. plan.join => RightKid # Kid("join")
  BY <1>2, <1>4
<1>6. "join" \in Inner => plan.join
  BY <1>1, PlanIs
<1>7. \A n \in Inner \cup {"client"} : Callee(n) \in PlanOps /\ Parent(Callee(n)) = n
  <2>1. Callee("client") = Top
    BY DEF Callee
  <2>2. \A n \in Inner : Callee(n) = IF n = "join" /\ pc[n] \in AtRight THEN RightKid ELSE Kid(n)
    BY <1>1 DEF Callee
  <2> QED
    BY <1>2, <1>3, <1>4, <1>6, <2>1, <2>2, TopIs
<1>8. \A n \in PlanOps \ {"scanR", "filterR"} :
          \/ n = Top /\ Parent(n) = "client"
          \/ Parent(n) \in Inner /\ n = Kid(Parent(n))
  BY TopIs, ParentIs
<1>9. "scanR" \in PlanOps =>
          \/ Parent("scanR") = "filterR" /\ "filterR" \in Inner
          \/ Parent("scanR") = "join" /\ "join" \in Inner /\ RightKid = "scanR"
  BY <1>4, PlanIs DEF Parent, RightKid, PlanOps, Inner, Leaves, Ops
<1>10. "filterR" \in PlanOps => Parent("filterR") = "join" /\ "join" \in Inner /\ RightKid = "filterR"
  BY <1>4, PlanIs DEF Parent, RightKid, PlanOps
<1>11. \A n \in PlanOps :
          \/ n = Top /\ Parent(n) = "client"
          \/ Parent(n) \in Inner /\ (n = Kid(Parent(n)) \/ (Parent(n) = "join" /\ n = RightKid))
  BY <1>3, <1>8, <1>9, <1>10
<1> QED
  BY <1>1, <1>2, <1>3, <1>4, <1>5, <1>7, <1>11

\* What kinds of operators are below and on top of others.
LEMMA KindsAre ==
    ASSUME plan \in Plans
    PROVE  /\ \A n \in Writers \cap PlanOps : Parent(n) = "client" /\ n = Top
           /\ \A n \in Inner : Kid(n) \notin Writers
           /\ "join" \in Inner => Kid("join") \in {"scanL", "filterL"} /\ RightKid \in {"scanR", "filterR"}
           /\ "agg" \in Inner => Kid("agg") \in {"scanL", "filterL", "join"}
           /\ "project" \in Inner => Kid("project") \in {"scanL", "filterL", "join", "agg"}
           /\ "filterL" \in Inner => Kid("filterL") = "scanL"
           /\ Kid("filterR") = "scanR"
           /\ \A n \in PlanOps : Parent(n) \in {"scanL", "values", "filterL"} => n = "scanL"
           /\ \A n \in PlanOps : Parent(n) \in {"scanR", "filterR"} => n = "scanR"
           /\ \A n \in Inner : Kid(n) \in {"scanR", "filterR"} => n = "filterR"
<1>1. \A n \in Inner \ {"filterR"} :
          /\ Kid(n) \in PlanOps \ {"scanR", "filterR"}
          /\ Place(Kid(n)) < Place(n)
          /\ Place(Kid(n)) \in 1 .. 10 /\ Stack[Place(Kid(n))] = Kid(n)
          /\ Place(n) \in 1 .. 10 /\ Stack[Place(n)] = n
  <2> SUFFICES ASSUME NEW n \in Inner \ {"filterR"}
               PROVE  /\ Kid(n) \in PlanOps \ {"scanR", "filterR"}
                      /\ Place(Kid(n)) < Place(n)
                      /\ Place(Kid(n)) \in 1 .. 10 /\ Stack[Place(Kid(n))] = Kid(n)
                      /\ Place(n) \in 1 .. 10 /\ Stack[Place(n)] = n
    OBVIOUS
  <2>1. Kid(n) \in PlanOps \ {"scanR", "filterR"} /\ Place(Kid(n)) < Place(n)
    BY KidIs
  <2>2. n \in Ops \ {"scanR", "filterR"} /\ Kid(n) \in Ops \ {"scanR", "filterR"}
    BY <2>1, SpineIs DEF Inner, Leaves
  <2> QED
    BY <2>1, <2>2, PlacesDiffer
<1>2. Kid("filterR") = "scanR"
  BY DEF Kid
<1>3. \A n \in Inner \ {"filterR"} : n # "values" /\ ("values" \in PlanOps => n = "insert")
  BY PlanIs DEF Inner, Leaves, Ops, PlanOps
<1>4. /\ Stack[1] = "scanL" /\ Stack[2] = "values" /\ Stack[3] = "filterL" /\ Stack[4] = "join"
      /\ Stack[5] = "agg" /\ Stack[6] = "project" /\ Stack[7] = "order" /\ Stack[8] = "limit"
      /\ Stack[9] = "insert" /\ Stack[10] = "delete"
  BY DEF Stack
<1>5. "filterL" \in Inner => Kid("filterL") = "scanL"
  <2> SUFFICES ASSUME "filterL" \in Inner PROVE Kid("filterL") = "scanL"
    OBVIOUS
  <2>1. Place(Kid("filterL")) \in 1 .. 2
    BY <1>1, PlacesDiffer
  <2>2. Kid("filterL") \in {"scanL", "values"}
    BY <1>1, <1>4, <2>1
  <2> QED
    BY <1>1, <1>3, <2>2
<1>6. "join" \in Inner => Kid("join") \in {"scanL", "filterL"}
  <2> SUFFICES ASSUME "join" \in Inner PROVE Kid("join") \in {"scanL", "filterL"}
    OBVIOUS
  <2>1. Place(Kid("join")) \in 1 .. 3
    BY <1>1, PlacesDiffer
  <2>2. Kid("join") \in {"scanL", "values", "filterL"}
    BY <1>1, <1>4, <2>1
  <2> QED
    BY <1>1, <1>3, <2>2
<1>7. "agg" \in Inner => Kid("agg") \in {"scanL", "filterL", "join"}
  <2> SUFFICES ASSUME "agg" \in Inner PROVE Kid("agg") \in {"scanL", "filterL", "join"}
    OBVIOUS
  <2>1. Place(Kid("agg")) \in 1 .. 4
    BY <1>1, PlacesDiffer
  <2>2. Kid("agg") \in {"scanL", "values", "filterL", "join"}
    BY <1>1, <1>4, <2>1
  <2> QED
    BY <1>1, <1>3, <2>2
<1>8. "project" \in Inner => Kid("project") \in {"scanL", "filterL", "join", "agg"}
  <2> SUFFICES ASSUME "project" \in Inner PROVE Kid("project") \in {"scanL", "filterL", "join", "agg"}
    OBVIOUS
  <2>1. Place(Kid("project")) \in 1 .. 5
    BY <1>1, PlacesDiffer
  <2>2. Kid("project") \in {"scanL", "values", "filterL", "join", "agg"}
    BY <1>1, <1>4, <2>1
  <2> QED
    BY <1>1, <1>3, <2>2
<1>9. \A n \in Inner : Kid(n) \notin Writers
  <2>1. ASSUME NEW n \in Inner \ {"filterR"}, Kid(n) \in Writers PROVE FALSE
    <3>1. Place(Kid(n)) = 9 /\ Place(n) = 10
      BY <1>1, <2>1, PlacesDiffer DEF Writers
    <3>2. Kid(n) = "insert" /\ n = "delete"
      BY <1>1, <1>4, <3>1
    <3> QED
      BY <1>1, <3>2, PlanIs DEF Inner
  <2> QED
    BY <1>2, <2>1 DEF Writers
<1>10. \A n \in Writers \cap PlanOps : Parent(n) = "client" /\ n = Top
  <2>1. ASSUME NEW n \in Writers \cap PlanOps, n # Top PROVE FALSE
    <3>1. Parent(n) \in Inner /\ Kid(Parent(n)) = n
      BY <2>1, ParentIs DEF Writers
    <3> QED
      BY <1>9, <3>1
  <2> QED
    BY <2>1, TopIs
<1>11. "join" \in Inner => RightKid \in {"scanR", "filterR"}
  BY DEF RightKid
<1>12. \A n \in PlanOps : Parent(n) \in {"scanR", "filterR"} => n = "scanR"
  <2>1. Parent("filterR") = "join"
    BY DEF Parent
  <2>2. \A n \in PlanOps \ {"scanR", "filterR"} : Parent(n) \notin {"scanR", "filterR"}
    BY TopIs, ParentIs DEF Inner, Leaves
  <2> QED
    BY <2>1, <2>2
<1>13. \A n \in PlanOps : Parent(n) \in {"scanL", "values", "filterL"} => n = "scanL"
  <2>1. Parent("filterR") = "join" /\ Parent("scanR") \in {"filterR", "join"}
    BY DEF Parent
  <2>2. ASSUME NEW n \in PlanOps \ {"scanR", "filterR"}, Parent(n) \in {"scanL", "values", "filterL"} PROVE n = "scanL"
    <3>1. n # Top
      BY <2>2, TopIs
    <3>2. Parent(n) \in Inner \ {"filterR"} /\ Kid(Parent(n)) = n
      BY <3>1, ParentIs
    <3>3. Parent(n) = "filterL"
      BY <2>2, <3>2 DEF Inner, Leaves
    <3> QED
      BY <1>5, <3>2, <3>3
  <2> QED
    BY <2>1, <2>2
<1> HIDE DEF Inner
<1> QED
  BY <1>1, <1>2, <1>5, <1>6, <1>7, <1>8, <1>9, <1>10, <1>11, <1>12, <1>13

-----------------------------------------------------------------------------
(* The arrays of tuples                                                    *)

\* Arrays are added, and fields overwritten with integers.
Grows(m, m2) ==
    /\ Len(m) <= Len(m2)
    /\ \A a \in 1 .. Len(m) :
          /\ Len(m2[a]) = Len(m[a])
          /\ \A i \in 1 .. Len(m[a]) : m2[a][i] = m[a][i] \/ m2[a][i] \in Int

LEMMA CellsAre == Int \subseteq Cells /\ Strings \subseteq Cells /\ Nil \in Cells /\ Nil \notin Int /\ Nil \notin Strings
  BY QueryAssumption DEF Cells

LEMMA TuplesKept ==
    ASSUME NEW m \in Seq(Seq(Cells)), NEW m2 \in Seq(Seq(Cells)), Grows(m, m2)
    PROVE  /\ Tuples(m) \subseteq Tuples(m2)
           /\ IntTuples(m, 1) \subseteq IntTuples(m2, 1)
           /\ IntTuples(m, 2) \subseteq IntTuples(m2, 2)
<1>1. ASSUME NEW t \in Tuples(m)
      PROVE  /\ t \in Tuples(m2)
             /\ (\A i \in 1 .. t.len : m[t.arr][i] \in Int) => \A i \in 1 .. t.len : m2[t.arr][i] \in Int
  <2>1. /\ t \in [arr : 1 .. Len(m), len : Nat] /\ t.arr \in 1 .. Len(m) /\ t.len \in Nat
        /\ t.len <= Len(m[t.arr])
        /\ \A i \in 1 .. t.len : m[t.arr][i] # Nil
    BY DEF Tuples
  <2>2. Len(m) \in Nat /\ Len(m2) \in Nat /\ Len(m) <= Len(m2) /\ m[t.arr] \in Seq(Cells)
    BY <2>1 DEF Grows
  <2>3. t.arr \in 1 .. Len(m2) /\ Len(m2[t.arr]) = Len(m[t.arr]) /\ Len(m[t.arr]) \in Nat
    BY <2>1, <2>2 DEF Grows
  <2>4. \A i \in 1 .. t.len : i \in 1 .. Len(m[t.arr])
    BY <2>1, <2>3
  <2>5. \A i \in 1 .. t.len : m2[t.arr][i] = m[t.arr][i] \/ m2[t.arr][i] \in Int
    BY <2>1, <2>4 DEF Grows
  <2>6. \A i \in 1 .. t.len : m2[t.arr][i] # Nil
    BY <2>1, <2>5, CellsAre
  <2>7. t \in [arr : 1 .. Len(m2), len : Nat]
    BY <2>1, <2>3
  <2>8. t \in Tuples(m2)
    BY <2>1, <2>3, <2>6, <2>7 DEF Tuples
  <2> QED
    BY <2>5, <2>8
<1>2. Tuples(m) \subseteq Tuples(m2)
  BY <1>1
<1>3. ASSUME NEW w \in {1, 2}, NEW t \in IntTuples(m, w) PROVE t \in IntTuples(m2, w)
  BY <1>1 DEF IntTuples
<1> QED
  BY <1>2, <1>3

\* Induction up to a number, with the set of numbers the claim holds for.
LEMMA Reached ==
    ASSUME NEW N \in Nat, NEW T, 0 \in T, \A i \in 1 .. N : i - 1 \in T => i \in T
    PROVE  N \in T
<1> DEFINE E == (0 .. N) \ T
<1>1. SUFFICES ASSUME N \notin T PROVE FALSE
  OBVIOUS
<1>2. N \in E /\ E \in SUBSET Nat
  BY <1>1
<1>3. PICK i \in E : \A y \in E : i <= y
  <2> HIDE DEF E
  <2> QED
    BY <1>2, LeastExists
<1>4. i \in 1 .. N /\ i \notin T
  BY <1>3
<1>5. i - 1 \in 0 .. N /\ ~ (i <= i - 1)
  BY <1>4
<1> QED
  BY <1>3, <1>4, <1>5

LEMMA GrownForNat ==
    ASSUME NEW n \in Nat
    PROVE  GrownFor(n) \in Nat
<1> DEFINE step(f, i) == CASE i = 0 -> 0
                           [] i > 0 /\ i <= f[i - 1] -> f[i - 1]
                           [] OTHER -> Grown(f[i - 1], i)
           upTo(k, f) == f = [i \in 0 .. k |-> step(f, i)]
           T == {k \in 0 .. n : \E f : upTo(k, f)}
           cap == CHOOSE f : upTo(n, f)
<1>1. GrownFor(n) = cap[n]
  BY DEF GrownFor
<1>2. 0 \in T
  <2>1. upTo(0, [j \in 0 .. 0 |-> 0])
    OBVIOUS
  <2>2. 0 \in 0 .. n
    OBVIOUS
  <2> HIDE DEF upTo
  <2>3. \E f : upTo(0, f)
    BY <2>1
  <2> QED
    BY <2>2, <2>3
<1>3. ASSUME NEW i \in 1 .. n, i - 1 \in T PROVE i \in T
  <2>1. PICK f : upTo(i - 1, f)
    BY <1>3
  <2> DEFINE g == [j \in 0 .. i |-> IF j = i THEN step(f, i) ELSE f[j]]
  <2>2. \A j \in 0 .. i - 1 : f[j] = step(f, j)
    BY <2>1
  <2>3. i \in Nat /\ i > 0 /\ i \in 0 .. n /\ \A j \in 0 .. i : j # i => j \in 0 .. i - 1
    OBVIOUS
  <2>4. \A j \in 0 .. i : j # 0 => g[j - 1] = f[j - 1]
    BY <2>3
  <2>5. \A j \in 0 .. i : step(g, j) = step(f, j)
    BY <2>4
  <2>6. \A j \in 0 .. i : g[j] = step(f, j)
    <3> HIDE DEF step
    <3> QED
      BY <2>2, <2>3
  <2>7. g = [j \in 0 .. i |-> g[j]]
    OBVIOUS
  <2> HIDE DEF g, step
  <2>8. upTo(i, g)
    BY <2>5, <2>6, <2>7
  <2> QED
    BY <2>3, <2>8
<1>4. n \in T
  <2> HIDE DEF T
  <2> QED
    BY <1>2, <1>3, Reached
<1>5. upTo(n, cap)
  <2> HIDE DEF upTo
  <2> QED
    BY <1>4
<1> HIDE DEF cap
<1>6. \A i \in 0 .. n : cap[i] = step(cap, i)
  <2> HIDE DEF step
  <2> QED
    BY <1>5
<1> DEFINE D == {k \in 0 .. n : cap[k] \in Nat}
<1>7. 0 \in D
  BY <1>6
<1>8. ASSUME NEW i \in 1 .. n, i - 1 \in D PROVE i \in D
  <2>1. cap[i - 1] \in Nat /\ i \in Nat /\ i > 0 /\ i \in 0 .. n
    BY <1>8
  <2>2. Grown(cap[i - 1], i) \in Nat
    BY <2>1 DEF Grown
  <2>3. cap[i] \in {cap[i - 1], Grown(cap[i - 1], i)}
    BY <1>6, <2>1
  <2> QED
    BY <2>1, <2>2, <2>3
<1>9. n \in D
  <2> HIDE DEF D
  <2> QED
    BY <1>7, <1>8, Reached
<1> QED
  BY <1>1, <1>9

LEMMA ArrayIs ==
    ASSUME NEW fields \in Seq(Cells), NEW cap \in Nat
    PROVE  /\ Array(fields, cap) \in Seq(Cells)
           /\ Len(fields) <= Len(Array(fields, cap))
           /\ \A i \in 1 .. Len(fields) : Array(fields, cap)[i] = fields[i]
<1> DEFINE k == cap - Len(fields)
           rest == [i \in 1 .. k |-> Nil]
<1>1. rest \in Seq(Cells)
  <2>1. CASE k >= 0
    BY <2>1, CellsAre
  <2>2. CASE k < 0
    <3>1. 1 .. k = 1 .. 0
      BY <2>2
    <3>2. rest = [i \in 1 .. 0 |-> Nil]
      BY <3>1
    <3> HIDE DEF rest
    <3> QED
      BY <3>2, CellsAre
  <2>3. k \in Int
    OBVIOUS
  <2> QED
    BY <2>1, <2>2, <2>3
<1>2. Array(fields, cap) = fields \o rest
  BY DEF Array
<1> HIDE DEF rest
<1> QED
  BY <1>1, <1>2

\* A new array with a tuple of its first k fields.
LEMMA Appended ==
    ASSUME NEW m \in Seq(Seq(Cells)), NEW a \in Seq(Cells), NEW k \in Nat, k <= Len(a)
    PROVE  LET m2 == Append(m, a)
               t == [arr |-> Len(m) + 1, len |-> k]
           IN  /\ m2 \in Seq(Seq(Cells)) /\ Grows(m, m2)
               /\ (\A i \in 1 .. k : a[i] # Nil) => t \in Tuples(m2)
               /\ (k >= 2 /\ \A i \in 1 .. k : a[i] \in Int) => t \in IntTuples(m2, 2)
<1> DEFINE m2 == Append(m, a)
           t == [arr |-> Len(m) + 1, len |-> k]
<1>1. /\ m2 \in Seq(Seq(Cells)) /\ Len(m2) = Len(m) + 1 /\ Len(m) \in Nat
      /\ m2[Len(m) + 1] = a /\ \A i \in 1 .. Len(m) : m2[i] = m[i]
  OBVIOUS
<1> HIDE DEF m2
<1>2. Grows(m, m2)
  BY <1>1 DEF Grows
<1>3. t \in [arr : 1 .. Len(m2), len : Nat] /\ m2[t.arr] = a /\ t.len = k
  BY <1>1
<1> HIDE DEF t
<1>4. (\A i \in 1 .. k : a[i] # Nil) => t \in Tuples(m2)
  BY <1>3 DEF Tuples
<1>5. ASSUME k >= 2, \A i \in 1 .. k : a[i] \in Int PROVE t \in IntTuples(m2, 2)
  <2>1. \A i \in 1 .. k : a[i] # Nil
    BY <1>5, CellsAre
  <2> QED
    BY <1>3, <1>4, <1>5, <2>1 DEF IntTuples
<1> QED
  BY <1>1, <1>2, <1>4, <1>5 DEF m2, t

LEMMA NewTupleMade ==
    ASSUME mem \in Seq(Seq(Cells)), NEW fields \in Seq(Cells)
    PROVE  /\ WithNewTuple(fields) \in Seq(Seq(Cells)) /\ Grows(mem, WithNewTuple(fields))
           /\ (\A i \in 1 .. Len(fields) : fields[i] # Nil) => NewTuple(fields) \in Tuples(WithNewTuple(fields))
           /\ (Len(fields) >= 2 /\ \A i \in 1 .. Len(fields) : fields[i] \in Int)
                 => NewTuple(fields) \in IntTuples(WithNewTuple(fields), 2)
<1> DEFINE a == Array(fields, GrownFor(Len(fields)))
<1>1. Len(fields) \in Nat /\ GrownFor(Len(fields)) \in Nat
  BY GrownForNat
<1>2. a \in Seq(Cells) /\ Len(fields) <= Len(a) /\ \A i \in 1 .. Len(fields) : a[i] = fields[i]
  BY <1>1, ArrayIs
<1>3. WithNewTuple(fields) = Append(mem, a) /\ NewTuple(fields) = [arr |-> Len(mem) + 1, len |-> Len(fields)]
  BY DEF WithNewTuple, NewTuple
<1> HIDE DEF a
<1>4. /\ Append(mem, a) \in Seq(Seq(Cells)) /\ Grows(mem, Append(mem, a))
      /\ (\A i \in 1 .. Len(fields) : a[i] # Nil) => [arr |-> Len(mem) + 1, len |-> Len(fields)] \in Tuples(Append(mem, a))
      /\ (Len(fields) >= 2 /\ \A i \in 1 .. Len(fields) : a[i] \in Int)
            => [arr |-> Len(mem) + 1, len |-> Len(fields)] \in IntTuples(Append(mem, a), 2)
  BY <1>1, <1>2, Appended
<1> QED
  BY <1>2, <1>3, <1>4

LEMMA ValueIs ==
    ASSUME NEW m \in Seq(Seq(Cells)), NEW t \in Tuples(m)
    PROVE  LET v == SubSeq(m[t.arr], 1, t.len)
           IN  /\ v \in Seq(Cells) /\ Len(v) = t.len /\ \A i \in 1 .. t.len : v[i] = m[t.arr][i]
               /\ t.len \in Nat /\ t.arr \in 1 .. Len(m) /\ m[t.arr] \in Seq(Cells) /\ t.len <= Len(m[t.arr])
<1>1. t.arr \in 1 .. Len(m) /\ t.len \in Nat /\ t.len <= Len(m[t.arr])
  BY DEF Tuples
<1>2. m[t.arr] \in Seq(Cells)
  BY <1>1
<1> QED
  BY <1>1, <1>2

LEMMA FunctionSeq ==
    ASSUME NEW S, NEW n \in Nat, NEW f \in [1 .. n -> S]
    PROVE  f \in Seq(S) /\ Len(f) = n
  OBVIOUS

LEMMA ConcatIs ==
    ASSUME NEW S, NEW s \in Seq(S), NEW u \in Seq(S)
    PROVE  /\ s \o u \in Seq(S) /\ Len(s \o u) = Len(s) + Len(u)
           /\ \A i \in 1 .. Len(s) + Len(u) : (s \o u)[i] = IF i <= Len(s) THEN s[i] ELSE u[i - Len(s)]
  OBVIOUS

\* joinTuples
LEMMA JoinedMade ==
    ASSUME mem \in Seq(Seq(Cells)), NEW t \in IntTuples(mem, 2), NEW u \in IntTuples(mem, 1)
    PROVE  /\ WithJoined(t, u) \in Seq(Seq(Cells)) /\ Grows(mem, WithJoined(t, u))
           /\ JoinTuples(t, u) \in IntTuples(WithJoined(t, u), 2)
<1> DEFINE k == t.len + u.len
           a == mem[t.arr]
<1>1. /\ t \in Tuples(mem) /\ t.len >= 2 /\ \A i \in 1 .. t.len : a[i] \in Int
      /\ u \in Tuples(mem) /\ u.len >= 1 /\ \A i \in 1 .. u.len : mem[u.arr][i] \in Int
  BY DEF IntTuples
<1>2. /\ Value(t) \in Seq(Cells) /\ Len(Value(t)) = t.len /\ \A i \in 1 .. t.len : Value(t)[i] = a[i]
      /\ t.len \in Nat /\ t.arr \in 1 .. Len(mem) /\ a \in Seq(Cells) /\ t.len <= Len(a)
  BY <1>1, ValueIs DEF Value
<1>3. /\ Value(u) \in Seq(Cells) /\ Len(Value(u)) = u.len /\ \A i \in 1 .. u.len : Value(u)[i] = mem[u.arr][i]
      /\ u.len \in Nat
  BY <1>1, ValueIs DEF Value
<1>4. CASE HasRoom(t, u)
  <2> DEFINE b == [i \in DOMAIN a |-> IF i \in t.len + 1 .. t.len + u.len THEN Value(u)[i - t.len] ELSE a[i]]
             m2 == [mem EXCEPT ![t.arr] = b]
             v == [arr |-> t.arr, len |-> k]
  <2>1. WithJoined(t, u) = m2 /\ JoinTuples(t, u) = v /\ k <= Len(a)
    BY <1>4 DEF WithJoined, JoinTuples, HasRoom
  <2>2. \A i \in t.len + 1 .. t.len + u.len : Value(u)[i - t.len] \in Int
    <3> SUFFICES ASSUME NEW i \in t.len + 1 .. t.len + u.len PROVE Value(u)[i - t.len] \in Int
      OBVIOUS
    <3>1. i - t.len \in 1 .. u.len
      BY <1>2, <1>3
    <3> QED
      BY <1>1, <1>3, <3>1
  <2>3. DOMAIN a = 1 .. Len(a) /\ Len(a) \in Nat /\ \A i \in DOMAIN a : a[i] \in Cells
    BY <1>2
  <2>4. /\ b \in [1 .. Len(a) -> Cells]
        /\ \A i \in 1 .. Len(a) : b[i] = a[i] \/ b[i] \in Int
        /\ \A i \in 1 .. k : i \in 1 .. Len(a) => b[i] \in Int
    <3>1. \A i \in 1 .. Len(a) : b[i] = IF i \in t.len + 1 .. t.len + u.len THEN Value(u)[i - t.len] ELSE a[i]
      BY <2>3
    <3>2. \A i \in 1 .. k : i \in t.len + 1 .. t.len + u.len \/ i \in 1 .. t.len
      BY <1>2, <1>3
    <3>3. \A i \in 1 .. Len(a) : b[i] \in Cells
      BY <2>2, <2>3, <3>1, CellsAre
    <3>4. \A i \in 1 .. k : i \in 1 .. Len(a) => b[i] \in Int
      BY <1>1, <2>2, <3>1, <3>2
    <3>5. \A i \in 1 .. Len(a) : b[i] = a[i] \/ b[i] \in Int
      BY <2>2, <3>1
    <3>6. b \in [1 .. Len(a) -> Cells]
      <4>1. DOMAIN b = 1 .. Len(a) /\ b = [i \in 1 .. Len(a) |-> b[i]]
        BY <2>3
      <4> HIDE DEF b
      <4> QED
        BY <3>3, <4>1
    <3> QED
      BY <3>4, <3>5, <3>6
  <2> HIDE DEF b
  <2>5. b \in Seq(Cells) /\ Len(b) = Len(a)
    BY <2>3, <2>4, FunctionSeq
  <2>6. m2 \in Seq(Seq(Cells)) /\ Len(m2) = Len(mem) /\ m2[t.arr] = b
    BY <1>2, <2>5
  <2>7. \A c \in 1 .. Len(mem) : c # t.arr => m2[c] = mem[c]
    OBVIOUS
  <2> HIDE DEF m2
  <2>8. Grows(mem, m2)
    <3>1. \A c \in 1 .. Len(mem) :
             /\ Len(m2[c]) = Len(mem[c])
             /\ \A i \in 1 .. Len(mem[c]) : m2[c][i] = mem[c][i] \/ m2[c][i] \in Int
      BY <2>4, <2>5, <2>6, <2>7
    <3>2. Len(mem) <= Len(m2)
      BY <2>6
    <3> QED
      BY <3>1, <3>2 DEF Grows
  <2>9. v \in [arr : 1 .. Len(m2), len : Nat] /\ v.arr = t.arr /\ v.len = k /\ k \in Nat /\ k >= 2
    BY <1>1, <1>2, <1>3, <2>6
  <2>10. \A i \in 1 .. k : m2[v.arr][i] \in Int
    <3>1. \A i \in 1 .. k : i \in 1 .. Len(a)
      BY <2>1, <2>3, <2>9
    <3> QED
      BY <2>4, <2>6, <2>9, <3>1
  <2>11. k <= Len(m2[v.arr])
    BY <2>1, <2>5, <2>6, <2>9
  <2> HIDE DEF v, k
  <2>12. v \in Tuples(m2)
    BY <2>9, <2>10, <2>11, CellsAre DEF Tuples
  <2>13. v \in IntTuples(m2, 2)
    BY <2>9, <2>10, <2>12 DEF IntTuples
  <2> QED
    BY <2>1, <2>6, <2>8, <2>13
<1>5. CASE ~ HasRoom(t, u)
  <2> DEFINE fs == Value(t) \o Value(u)
             c == Grown(Len(mem[t.arr]), t.len + u.len)
             b == Array(fs, c)
  <2>1. WithJoined(t, u) = Append(mem, b) /\ JoinTuples(t, u) = [arr |-> Len(mem) + 1, len |-> k]
    BY <1>5 DEF WithJoined, JoinTuples
  <2>2. /\ fs \in Seq(Cells) /\ Len(fs) = t.len + u.len
        /\ \A i \in 1 .. t.len + u.len : fs[i] = IF i <= t.len THEN Value(t)[i] ELSE Value(u)[i - t.len]
    <3> DEFINE x == Value(t)
               y == Value(u)
    <3>1. x \in Seq(Cells) /\ y \in Seq(Cells) /\ Len(x) = t.len /\ Len(y) = u.len /\ fs = x \o y
      BY <1>2, <1>3
    <3> HIDE DEF x, y, fs
    <3>2. /\ fs \in Seq(Cells) /\ Len(fs) = Len(x) + Len(y)
          /\ \A i \in 1 .. Len(x) + Len(y) : fs[i] = IF i <= Len(x) THEN x[i] ELSE y[i - Len(x)]
      BY <3>1, ConcatIs
    <3> QED
      BY <3>1, <3>2 DEF x, y
  <2> HIDE DEF fs
  <2>3. Len(fs) = k /\ k \in Nat /\ k >= 2 /\ \A i \in 1 .. k : fs[i] \in Int
    <3>1. ASSUME NEW i \in 1 .. t.len + u.len PROVE fs[i] \in Int
      <4>1. CASE i <= t.len
        <5>1. i \in 1 .. t.len
          BY <1>2, <1>3, <4>1
        <5> QED
          BY <1>1, <1>2, <2>2, <4>1, <5>1
      <4>2. CASE ~ (i <= t.len)
        <5>1. i - t.len \in 1 .. u.len
          BY <1>2, <1>3, <4>2
        <5> QED
          BY <1>1, <1>3, <2>2, <4>2, <5>1
      <4> QED
        BY <4>1, <4>2
    <3> QED
      BY <1>1, <1>2, <1>3, <2>2, <3>1
  <2>4. c \in Nat
    <3>1. Len(mem[t.arr]) \in Nat /\ t.len + u.len \in Nat
      BY <1>2, <1>3
    <3> QED
      BY <3>1 DEF Grown
  <2> HIDE DEF c
  <2>5. b \in Seq(Cells) /\ k <= Len(b) /\ \A i \in 1 .. k : b[i] = fs[i]
    BY <2>2, <2>3, <2>4, ArrayIs
  <2> HIDE DEF b, k
  <2>6. \A i \in 1 .. k : b[i] \in Int
    BY <2>3, <2>5
  <2>7. /\ Append(mem, b) \in Seq(Seq(Cells)) /\ Grows(mem, Append(mem, b))
        /\ [arr |-> Len(mem) + 1, len |-> k] \in IntTuples(Append(mem, b), 2)
    BY <2>3, <2>5, <2>6, Appended
  <2> QED
    BY <2>1, <2>7
<1> QED
  BY <1>4, <1>5

-----------------------------------------------------------------------------
(* Calls and answers                                                       *)

LEMMA JoinAbove ==
    ASSUME plan \in Plans, plan.join, NEW n \in PlanOps, n \in {"scanL", "values", "filterL"}
    PROVE  n # Top /\ Parent(n) \in {"filterL", "join"}
<1>1. "join" \in PlanOps \ {"scanR", "filterR"} /\ Place("join") = 4 /\ Place(n) \in 1 .. 3
  BY PlanIs, PlacesDiffer
<1>2. n # Top
  <2>1. 4 <= Place(Top)
    BY <1>1, TopIs
  <2> QED
    BY <1>1, <2>1
<1> DEFINE above == {k \in Spine(plan) : k > Place(n)}
<1>3. above \in SUBSET (1 .. 10) /\ 4 \in above
  BY <1>1, SpineIs
<1>4. Min(above) \in above /\ Min(above) <= 4
  <2> HIDE DEF above
  <2> QED
    BY <1>3, Extremes
<1>5. Parent(n) = Stack[Min(above)]
  BY <1>2 DEF Parent
<1>6. Min(above) \in 2 .. 4
  <2>1. Min(above) \in 1 .. 10 /\ Min(above) > Place(n)
    BY <1>3, <1>4
  <2> HIDE DEF above
  <2> QED
    BY <1>1, <1>4, <2>1
<1> HIDE DEF above
<1>7. Parent(n) \in {"values", "filterL", "join"}
  <2>1. Stack[2] = "values" /\ Stack[3] = "filterL" /\ Stack[4] = "join"
    BY DEF Stack
  <2> QED
    BY <1>5, <1>6, <2>1
<1>8. Parent(n) \in Inner
  BY <1>1, <1>2, ParentIs
<1> QED
  BY <1>2, <1>7, <1>8 DEF Inner, Leaves

\* The plan does not change, nor does what is made of it.
LEMMA PlanKept ==
    ASSUME plan' = plan
    PROVE  /\ \A n : Kid(n)' = Kid(n)
           /\ \A n : Parent(n)' = Parent(n)
           /\ Top' = Top /\ RightKid' = RightKid /\ PlanOps' = PlanOps /\ Inner' = Inner
<1>1. Spine(plan)' = Spine(plan)
  BY DEF Spine
<1>2. Top' = Top
  BY <1>1 DEF Top
<1>3. \A n : Kid(n)' = Kid(n)
  BY <1>1 DEF Kid
<1>4. \A n : Parent(n)' = Parent(n)
  BY <1>1, <1>2 DEF Parent
<1>5. RightKid' = RightKid /\ PlanOps' = PlanOps
  BY DEF RightKid, PlanOps
<1>6. Inner' = Inner
  BY <1>5 DEF Inner
<1> QED
  BY <1>2, <1>3, <1>4, <1>5, <1>6

\* No operator calls itself.
LEMMA OthersCalled ==
    ASSUME plan \in Plans
    PROVE  /\ \A n \in Inner : Kid(n) # n
           /\ RightKid # "join"
           /\ \A n \in PlanOps : n \in Ops /\ n # "client"
<1>1. \A n \in Inner \ {"filterR"} : Kid(n) # n
  <2> SUFFICES ASSUME NEW n \in Inner \ {"filterR"} PROVE Kid(n) # n
    OBVIOUS
  <2>1. Place(Kid(n)) < Place(n)
    BY KidIs
  <2>2. n \in PlanOps \ {"scanR", "filterR"}
    BY DEF Inner, Leaves
  <2>3. Place(n) \in 1 .. 10
    BY <2>2, SpineIs
  <2> QED
    BY <2>1, <2>3
<1> QED
  BY <1>1, KindsAre, CallersAre DEF RightKid, PlanOps, Ops

\* n calls c.
LEMMA CallStep ==
    ASSUME QueryTypes, Control, plan' = plan, DOMAIN loc' = Ops,
           NEW n \in Inner \cup {"client"}, at = n, NEW c, NEW method \in {"open", "next"}, NEW resume,
           Call(n, c, method, resume),
           c = IF n = "client" THEN Top ELSE IF n = "join" /\ resume \in AtRight THEN RightKid ELSE Kid(n),
           IF method = "open" THEN resume \in OpenLabels ELSE resume \in NextLabels,
           n = "join" => resume \in {"opened", "first", "left"} \cup AtRight,
           n = "client" => resume \in {"row"},
           n # "client" => (InOpen(n) <=> resume \in {"opened", "openedRight", "first", "collect"}),
           \A m \in Ops \ {n} : loc'[m] = loc[m],
           \A m \in Ops : Ready(m) => Ready(m)',
           \A m \in Ops \ {n} : MayCapture(m, loc[m], mem) => MayCapture(m, loc'[m], mem'),
           n # "client" /\ resume \in Busy => MayCapture(n, loc'[n], mem') /\ KidsReady(n)',
           n # "client" /\ loc'[n] # Nil => KidsReady(n)',
           method = "next" => Ready(c)',
           n = "join" /\ resume \in {"openedRight", "first"} => Ready(Kid("join"))',
           n = "join" /\ resume = "first" => Ready(RightKid)'
    PROVE  Control' /\ at' \in PlanOps' /\ DOMAIN pc' = Ops \cup {"client"}
<1>1. /\ plan \in Plans /\ DOMAIN pc = Ops \cup {"client"} /\ DOMAIN loc = Ops
  BY DEF QueryTypes
<1>2. /\ \A m \in Inner : Kid(m) \in PlanOps /\ Parent(Kid(m)) = m
      /\ plan.join => RightKid \in PlanOps /\ Parent(RightKid) = "join" /\ RightKid # Kid("join")
      /\ Inner \subseteq PlanOps /\ PlanOps \subseteq Ops /\ "client" \notin Ops /\ "client" \notin PlanOps
      /\ Top \in PlanOps /\ Parent(Top) = "client"
      /\ "join" \in Inner => plan.join
      /\ Top \notin {"scanR", "filterR"}
  BY <1>1, CallersAre, TopIs, PlanIs DEF Inner, PlanOps, Ops
<1>3. c \in PlanOps /\ Parent(c) = n /\ c \in Ops
  BY <1>2
<1>4. c # n
  BY <1>1, <1>2, OthersCalled
<1>5. /\ \A m : Kid(m)' = Kid(m)
      /\ Top' = Top /\ RightKid' = RightKid /\ PlanOps' = PlanOps /\ Inner' = Inner
  BY PlanKept
<1>6. /\ at' = c /\ DOMAIN pc' = Ops \cup {"client"} /\ pc'[c] = method /\ pc'[n] = resume
      /\ \A m \in (Ops \cup {"client"}) \ {n, c} : pc'[m] = pc[m]
  BY <1>1, <1>2, <1>3, <1>4 DEF Call
<1>7. \A m \in Inner : KidsReady(m) => KidsReady(m)'
  <2> SUFFICES ASSUME NEW m \in Inner, KidsReady(m) PROVE KidsReady(m)'
    OBVIOUS
  <2>1. PICK k, r : k = Kid(m) /\ r = RightKid
    OBVIOUS
  <2>2. Kid(m)' = k /\ RightKid' = r /\ k \in Ops /\ (m = "join" => r \in Ops)
    BY <1>2, <1>5, <2>1
  <2>3. Ready(k) /\ (m = "join" => Ready(r))
    BY <2>1 DEF KidsReady
  <2>4. Ready(k)' /\ (m = "join" => Ready(r)')
    BY <2>2, <2>3
  <2>5. (Ready(Kid(m))' <=> Ready(k)') /\ (Ready(RightKid)' <=> Ready(r)')
    BY <2>2 DEF Ready
  <2> QED
    BY <2>4, <2>5 DEF KidsReady
<1>8. CallsMatched'
  <2> SUFFICES ASSUME NEW m \in Inner \cup {"client"}
               PROVE  /\ pc'[m] \in OpenLabels => InOpen(Callee(m))'
                      /\ pc'[m] \in NextLabels => ~ InOpen(Callee(m))'
    BY <1>5 DEF CallsMatched
  <2>1. CASE m = n
    <3>1. Callee(m)' = c
      BY <1>2, <1>5, <1>6, <2>1 DEF Callee
    <3>2. InOpen(c)' <=> method = "open"
      BY <1>6 DEF InOpen
    <3> QED
      BY <1>6, <2>1, <3>1, <3>2 DEF OpenLabels, NextLabels, InOpen
  <2>2. CASE m = c
    BY <1>6, <2>2 DEF OpenLabels, NextLabels
  <2>3. CASE m # n /\ m # c
    <3>1. pc'[m] = pc[m]
      BY <1>2, <1>6, <2>3
    <3>2. Callee(m)' = Callee(m)
      BY <1>5, <3>1 DEF Callee
    <3>3. Parent(Callee(m)) = m /\ Callee(m) \in PlanOps
      BY <1>1, CallersAre
    <3>4. Callee(m) # c
      BY <1>3, <2>3, <3>3
    <3>5. InOpen(Callee(m))' <=> InOpen(Callee(m))
      <4> DEFINE d == Callee(m)
      <4>1. d \in Ops /\ d # c
        BY <1>2, <3>3, <3>4
      <4>2. CASE d = n
        <5>1. pc'[d] = resume /\ n # "client"
          BY <1>2, <1>6, <4>1, <4>2
        <5> QED
          BY <3>2, <4>2, <5>1 DEF InOpen, OpenLabels, NextLabels
      <4>3. CASE d # n
        <5>1. pc'[d] = pc[d]
          BY <1>6, <4>1, <4>3
        <5> QED
          BY <3>2, <5>1 DEF InOpen
      <4> QED
        BY <4>2, <4>3
    <3> QED
      BY <3>1, <3>2, <3>5 DEF CallsMatched, Control
  <2> QED
    BY <2>1, <2>2, <2>3
<1>9. SidesMatched'
  <2>1. ASSUME plan.join, c \in {"scanL", "values", "filterL"} PROVE pc'["join"] \in {"opened", "first", "left"}
    <3>1. n \in {"filterL", "join"}
      BY <1>1, <1>3, <2>1, JoinAbove
    <3>2. CASE n = "join"
      <4>1. resume \notin AtRight
        BY <1>2, <2>1, <3>2 DEF RightKid
      <4> QED
        BY <1>6, <3>2, <4>1
    <3>3. CASE n = "filterL"
      <4>1. pc["join"] \in {"opened", "first", "left"}
        BY <2>1, <3>3 DEF SidesMatched, Control
      <4>2. pc'["join"] = pc["join"]
        BY <1>6, <2>1, <3>3 DEF Ops
      <4> QED
        BY <4>1, <4>2
    <3> QED
      BY <3>1, <3>2, <3>3
  <2>2. ASSUME c \in {"scanR", "filterR"} PROVE pc'["join"] \in AtRight
    <3>1. n \in {"join", "filterR"}
      BY <1>3, <2>2 DEF Parent
    <3>2. CASE n = "join"
      <4>1. Kid("join") \notin {"scanR", "filterR"}
        BY <1>1, <3>2, KindsAre DEF Inner
      <4> QED
        BY <1>6, <2>2, <3>2, <4>1
    <3>3. CASE n = "filterR"
      <4>1. pc["join"] \in AtRight
        BY <3>3 DEF SidesMatched, Control
      <4>2. pc'["join"] = pc["join"]
        BY <1>6, <2>2, <3>3 DEF Ops
      <4> QED
        BY <4>1, <4>2
    <3> QED
      BY <3>1, <3>2, <3>3
  <2> QED
    BY <1>6, <2>1, <2>2 DEF SidesMatched
<1>10. OpenedFirst'
  <2>1. ASSUME NEW m \in Inner
        PROVE  /\ loc'[m] # Nil \/ pc'[m] \in Busy => KidsReady(m)'
               /\ pc'[m] \in Busy => MayCapture(m, loc'[m], mem')
    <3>1. m \in Ops /\ m # "client"
      BY <1>2
    <3>2. CASE m = n
      BY <1>6, <3>1, <3>2
    <3>3. CASE m # n
      <4>1. loc'[m] = loc[m] /\ (MayCapture(m, loc[m], mem) => MayCapture(m, loc'[m], mem'))
        BY <3>1, <3>3
      <4>2. loc[m] # Nil \/ pc[m] \in Busy => KidsReady(m)
        BY DEF OpenedFirst, Control
      <4>3. pc[m] \in Busy => MayCapture(m, loc[m], mem)
        BY DEF OpenedFirst, Control
      <4>4. pc'[m] \in Busy => pc'[m] = pc[m]
        BY <1>6, <3>1, <3>3 DEF Busy
      <4> QED
        BY <1>7, <4>1, <4>2, <4>3, <4>4
    <3> QED
      BY <3>2, <3>3
  <2>2. ASSUME NEW m \in Unguarded \cap PlanOps, ~ InOpen(m)' PROVE Ready(m)'
    <3>1. m \in Ops
      BY <1>2
    <3>2. CASE m = c
      <4>1. method = "next"
        BY <1>6, <2>2, <3>2 DEF InOpen
      <4> QED
        BY <3>2, <4>1
    <3>3. CASE m = n
      <4>1. ~ InOpen(m)
        BY <1>2, <1>6, <2>2, <3>3 DEF InOpen
      <4> QED
        BY <3>1, <4>1 DEF OpenedFirst, Control
    <3>4. CASE m # n /\ m # c
      <4>1. pc'[m] = pc[m]
        BY <1>6, <3>1, <3>4
      <4>2. ~ InOpen(m)
        BY <2>2, <4>1 DEF InOpen
      <4> QED
        BY <3>1, <4>2 DEF OpenedFirst, Control
    <3> QED
      BY <3>2, <3>3, <3>4
  <2>3. pc'["client"] = "row" => Ready(Top)'
    <3>0. PICK top : top = Top
      OBVIOUS
    <3>1. Ready(top)' <=> Ready(Top)'
      BY <1>5, <3>0 DEF Ready
    <3>2. CASE n = "client"
      <4>1. method = "next" /\ c = top
        BY <3>0, <3>2 DEF OpenLabels
      <4> QED
        BY <3>1, <4>1
    <3>3. CASE n # "client"
      <4>1. pc'["client"] = pc["client"]
        BY <1>2, <1>3, <1>6, <3>3
      <4>2. Ready(top) => Ready(top)'
        BY <1>2, <3>0
      <4>3. pc["client"] = "row" => Ready(top)
        BY <3>0 DEF OpenedFirst, Control
      <4> QED
        BY <3>1, <4>1, <4>2, <4>3
    <3> QED
      BY <3>2, <3>3
  <2>4. /\ (plan.join /\ pc'["join"] \in {"openedRight", "first"}) => Ready(Kid("join"))'
        /\ (plan.join /\ pc'["join"] = "first") => Ready(RightKid)'
    <3> SUFFICES ASSUME plan.join
                 PROVE  /\ pc'["join"] \in {"openedRight", "first"} => Ready(Kid("join"))'
                        /\ pc'["join"] = "first" => Ready(RightKid)'
      OBVIOUS
    <3>1. CASE n = "join"
      BY <1>6, <3>1
    <3>2. CASE c = "join"
      BY <1>6, <3>2
    <3>3. CASE n # "join" /\ c # "join"
      <4>1. pc'["join"] = pc["join"]
        BY <1>6, <3>3 DEF Ops
      <4>2. "join" \in Inner
        BY <1>1, PlanIs DEF Inner, Leaves
      <4>3. PICK k, r : k = Kid("join") /\ r = RightKid
        OBVIOUS
      <4>4. Kid("join")' = k /\ RightKid' = r /\ k \in Ops /\ r \in Ops
        BY <1>2, <1>5, <4>2, <4>3
      <4>5. (Ready(k) => Ready(k)') /\ (Ready(r) => Ready(r)')
        BY <4>4
      <4>6. (Ready(Kid("join"))' <=> Ready(k)') /\ (Ready(RightKid)' <=> Ready(r)')
        BY <4>4 DEF Ready
      <4>7. /\ pc["join"] \in {"openedRight", "first"} => Ready(k)
            /\ pc["join"] = "first" => Ready(r)
        BY <4>3 DEF OpenedFirst, Control
      <4> QED
        BY <4>1, <4>5, <4>6, <4>7
    <3> QED
      BY <3>1, <3>2, <3>3
  <2> QED
    BY <1>5, <2>1, <2>2, <2>3, <2>4 DEF OpenedFirst
<1>11. AnswersFit'
  <2>1. pc'[at'] \notin OpenLabels /\ pc'[at'] \notin NextLabels
    BY <1>6 DEF OpenLabels, NextLabels
  <2> QED
    BY <2>1 DEF AnswersFit
<1> QED
  BY <1>3, <1>5, <1>6, <1>8, <1>9, <1>10, <1>11 DEF Control

\* n answers v.
LEMMA AnswerStep ==
    ASSUME QueryTypes, Control, plan' = plan, DOMAIN loc' = Ops,
           NEW n \in PlanOps, at = n, NEW v, Answer(n, v),
           InOpen(n) => Ready(n)',
           ~ InOpen(n) /\ IsTuple(v) => v \in Returned(n, mem'),
           \A m \in Ops \ {n} : loc'[m] = loc[m],
           \A m \in Ops : Ready(m) => Ready(m)',
           \A m \in Ops \ {n} : MayCapture(m, loc[m], mem) => MayCapture(m, loc'[m], mem'),
           n \in Inner /\ pc[n] \in Busy => MayCapture(n, loc'[n], mem') /\ KidsReady(n)',
           n \in Inner /\ loc'[n] # Nil => KidsReady(n)'
    PROVE  Control' /\ at' \in (PlanOps \cup {"client"})' /\ DOMAIN pc' = Ops \cup {"client"}
<1>0. PICK p : p = Parent(n)
  OBVIOUS
<1>1. /\ plan \in Plans /\ DOMAIN pc = Ops \cup {"client"} /\ DOMAIN loc = Ops
  BY DEF QueryTypes
<1>2. /\ \A m \in Inner : Kid(m) \in PlanOps /\ Parent(Kid(m)) = m
      /\ plan.join => RightKid \in PlanOps /\ Parent(RightKid) = "join"
      /\ Inner \subseteq PlanOps /\ PlanOps \subseteq Ops /\ "client" \notin Ops
      /\ Top \in PlanOps
      /\ "join" \in Inner <=> plan.join
      /\ p \in Inner \cup {"client"}
      /\ p = "client" => n = Top
      /\ p \in Inner \ {"join"} => n = Kid(p)
      /\ p = "join" => n \in {Kid("join"), RightKid}
  BY <1>0, <1>1, CallersAre, TopIs, PlanIs DEF Inner, PlanOps, Ops, Leaves
<1>3. /\ \A m : Kid(m)' = Kid(m)
      /\ Top' = Top /\ RightKid' = RightKid /\ PlanOps' = PlanOps /\ Inner' = Inner
  BY PlanKept
<1>4. at' = p /\ ret' = v /\ pc' = pc
  BY <1>0 DEF Answer
<1>5. \A m \in Inner : KidsReady(m) => KidsReady(m)'
  <2> SUFFICES ASSUME NEW m \in Inner, KidsReady(m) PROVE KidsReady(m)'
    OBVIOUS
  <2>1. PICK k, r : k = Kid(m) /\ r = RightKid
    OBVIOUS
  <2>2. Kid(m)' = k /\ RightKid' = r /\ k \in Ops /\ (m = "join" => r \in Ops)
    BY <1>2, <1>3, <2>1
  <2>3. Ready(k) /\ (m = "join" => Ready(r))
    BY <2>1 DEF KidsReady
  <2>4. Ready(k)' /\ (m = "join" => Ready(r)')
    BY <2>2, <2>3
  <2>5. (Ready(Kid(m))' <=> Ready(k)') /\ (Ready(RightKid)' <=> Ready(r)')
    BY <2>2 DEF Ready
  <2> QED
    BY <2>4, <2>5 DEF KidsReady
<1>6. (\A m : Callee(m)' = Callee(m)) /\ (\A m : InOpen(m)' = InOpen(m))
  BY <1>3, <1>4 DEF Callee, InOpen
<1>7. CallsMatched'
  BY <1>3, <1>4, <1>6 DEF CallsMatched, Control
<1>8. SidesMatched'
  <2>1. ASSUME plan.join, p \in {"scanL", "values", "filterL"} PROVE pc["join"] \in {"opened", "first", "left"}
    <3>1. n = "scanL"
      BY <1>0, <1>1, <2>1, KindsAre
    <3> QED
      BY <2>1, <3>1 DEF SidesMatched, Control
  <2>2. ASSUME p \in {"scanR", "filterR"} PROVE pc["join"] \in AtRight
    <3>1. n = "scanR"
      BY <1>0, <1>1, <2>2, KindsAre
    <3> QED
      BY <3>1 DEF SidesMatched, Control
  <2> QED
    BY <1>4, <2>1, <2>2 DEF SidesMatched
<1>9. OpenedFirst'
  <2>1. ASSUME NEW m \in Inner
        PROVE  /\ loc'[m] # Nil \/ pc'[m] \in Busy => KidsReady(m)'
               /\ pc'[m] \in Busy => MayCapture(m, loc'[m], mem')
    <3>1. m \in Ops
      BY <1>2
    <3>2. CASE m = n
      BY <1>4, <3>2
    <3>3. CASE m # n
      <4>1. loc'[m] = loc[m]
        BY <3>1, <3>3
      <4>2. loc[m] # Nil \/ pc[m] \in Busy => KidsReady(m)
        BY DEF OpenedFirst, Control
      <4>3. pc[m] \in Busy => MayCapture(m, loc[m], mem)
        BY DEF OpenedFirst, Control
      <4>4. pc'[m] = pc[m]
        BY <1>4
      <4>5. MayCapture(m, loc[m], mem) => MayCapture(m, loc'[m], mem')
        BY <3>1, <3>3
      <4> QED
        BY <1>5, <4>1, <4>2, <4>3, <4>4, <4>5
    <3> QED
      BY <3>2, <3>3
  <2>2. ASSUME NEW m \in Unguarded \cap PlanOps, ~ InOpen(m)' PROVE Ready(m)'
    <3>1. m \in Ops /\ Ready(m)
      BY <1>2, <1>6, <2>2 DEF OpenedFirst, Control
    <3> QED
      BY <3>1
  <2>3. pc'["client"] = "row" => Ready(Top)'
    <3>0. PICK top : top = Top
      OBVIOUS
    <3>1. top \in Ops /\ Top' = top
      BY <1>2, <1>3, <3>0
    <3>2. Ready(Top)' <=> Ready(top)'
      BY <3>1 DEF Ready
    <3>3. Ready(top) => Ready(top)'
      BY <3>1
    <3>4. pc["client"] = "row" => Ready(top)
      BY <3>0 DEF OpenedFirst, Control
    <3> QED
      BY <1>4, <3>2, <3>3, <3>4
  <2>4. /\ (plan.join /\ pc'["join"] \in {"openedRight", "first"}) => Ready(Kid("join"))'
        /\ (plan.join /\ pc'["join"] = "first") => Ready(RightKid)'
    <3> SUFFICES ASSUME plan.join
                 PROVE  /\ pc'["join"] \in {"openedRight", "first"} => Ready(Kid("join"))'
                        /\ pc'["join"] = "first" => Ready(RightKid)'
      OBVIOUS
    <3>1. PICK k, r : k = Kid("join") /\ r = RightKid
      OBVIOUS
    <3>2. k \in Ops /\ r \in Ops /\ Kid("join")' = k /\ RightKid' = r
      BY <1>2, <1>3, <3>1
    <3>3. (Ready(k) => Ready(k)') /\ (Ready(r) => Ready(r)')
      BY <3>2
    <3>4. (Ready(Kid("join"))' <=> Ready(k)') /\ (Ready(RightKid)' <=> Ready(r)')
      BY <3>2 DEF Ready
    <3>5. /\ pc["join"] \in {"openedRight", "first"} => Ready(k)
          /\ pc["join"] = "first" => Ready(r)
      BY <3>1 DEF OpenedFirst, Control
    <3> QED
      BY <1>4, <3>3, <3>4, <3>5
  <2> QED
    BY <1>3, <2>1, <2>2, <2>3, <2>4 DEF OpenedFirst
<1>10. AnswersFit'
  <2> SUFFICES /\ pc[p] \in OpenLabels => Ready(Callee(p))'
               /\ (pc[p] \in NextLabels /\ v \notin {Nil, Err}) => v \in Returned(Callee(p)', mem')
    <3>1. at' = p /\ ret' = v /\ pc'[at'] = pc[p]
      BY <1>4
    <3>2. (Ready(Callee(at))' <=> Ready(Callee(p))') /\ Returned(Callee(at)', mem') = Returned(Callee(p)', mem')
      BY <1>4 DEF Ready, Returned, Callee
    <3> QED
      BY <3>1, <3>2 DEF AnswersFit, IsTuple
  <2> SUFFICES ASSUME pc[p] \in OpenLabels \cup NextLabels
               PROVE  /\ pc[p] \in OpenLabels => Ready(Callee(p))'
                      /\ (pc[p] \in NextLabels /\ v \notin {Nil, Err}) => v \in Returned(Callee(p)', mem')
    OBVIOUS
  <2>1. Callee(p) = n
    <3>1. CASE p = "client"
      BY <1>2, <3>1 DEF Callee
    <3>2. CASE p \in Inner \ {"join"}
      BY <1>2, <3>2 DEF Callee
    <3>3. CASE p = "join"
      <4>1. "join" \in Inner /\ plan.join
        BY <1>2, <3>3
      <4>2. Kid("join") \in {"scanL", "filterL"} /\ RightKid \in {"scanR", "filterR"}
        BY <1>1, <4>1, KindsAre
      <4>3. CASE n = Kid("join")
        <5>1. pc["join"] \in {"opened", "first", "left"}
          BY <4>1, <4>2, <4>3 DEF SidesMatched, Control
        <5> QED
          BY <3>3, <4>3, <5>1 DEF Callee, AtRight
      <4>4. CASE n = RightKid
        <5>1. pc["join"] \in AtRight
          BY <4>2, <4>4 DEF SidesMatched, Control
        <5> QED
          BY <3>3, <4>4, <5>1 DEF Callee
      <4> QED
        BY <1>2, <3>3, <4>3, <4>4
    <3> QED
      BY <1>2, <3>1, <3>2, <3>3
  <2>2. Callee(p)' = n
    BY <1>6, <2>1
  <2>3. /\ pc[p] \in OpenLabels => InOpen(n)
        /\ pc[p] \in NextLabels => ~ InOpen(n)
    BY <1>2, <2>1 DEF CallsMatched, Control
  <2>4. Ready(Callee(p))' <=> Ready(n)'
    BY <2>2 DEF Ready
  <2>5. Returned(Callee(p)', mem') = Returned(n, mem')
    BY <2>2 DEF Returned
  <2> QED
    BY <2>3, <2>4, <2>5 DEF IsTuple
<1>11. at' \in (PlanOps \cup {"client"})'
  BY <1>2, <1>3, <1>4
<1> QED
  BY <1>1, <1>4, <1>7, <1>8, <1>9, <1>10, <1>11 DEF Control

\* What every step of operator n leaves alone, or leaves as it should be.
Keeps(n) ==
    /\ plan' = plan /\ left' = left /\ right' = right
    /\ mem' \in Seq(Seq(Cells)) /\ Grows(mem, mem')
    /\ written' \in Seq(Tuples(mem'))
    /\ DOMAIN loc' = Ops /\ \A m \in Ops \ {n} : loc'[m] = loc[m]
    /\ n \in Ops => loc'[n] = Nil \/ MayCapture(n, loc'[n], mem')
    /\ n \in Ops => (Ready(n) => Ready(n)')

LEMMA SeqOfMore ==
    ASSUME NEW S, NEW T, S \subseteq T
    PROVE  Seq(S) \subseteq Seq(T)
  OBVIOUS

\* What has been captured or returned is still good when arrays are added.
LEMMA CaptureKept ==
    ASSUME NEW m \in Seq(Seq(Cells)), NEW m2 \in Seq(Seq(Cells)), Grows(m, m2), NEW n
    PROVE  /\ \A v : MayCapture(n, v, m) => MayCapture(n, v, m2)
           /\ Returned(n, m) \subseteq Returned(n, m2)
           /\ Seq(Tuples(m)) \subseteq Seq(Tuples(m2))
           /\ Seq(IntTuples(m, 1)) \subseteq Seq(IntTuples(m2, 1))
           /\ Seq(IntTuples(m, 2)) \subseteq Seq(IntTuples(m2, 2))
<1>1. /\ Tuples(m) \subseteq Tuples(m2)
      /\ IntTuples(m, 1) \subseteq IntTuples(m2, 1)
      /\ IntTuples(m, 2) \subseteq IntTuples(m2, 2)
  BY TuplesKept
<1>2. /\ Seq(Tuples(m)) \subseteq Seq(Tuples(m2))
      /\ Seq(IntTuples(m, 1)) \subseteq Seq(IntTuples(m2, 1))
      /\ Seq(IntTuples(m, 2)) \subseteq Seq(IntTuples(m2, 2))
  BY <1>1, SeqOfMore
<1>3. [leftTuple : IntTuples(m, 2) \cup {Nil}] \subseteq [leftTuple : IntTuples(m2, 2) \cup {Nil}]
  BY <1>1
<1>4. ASSUME NEW v, MayCapture(n, v, m) PROVE MayCapture(n, v, m2)
  BY <1>2, <1>3, <1>4 DEF MayCapture
<1>5. Returned(n, m) \subseteq Returned(n, m2)
  BY <1>1 DEF Returned
<1> QED
  BY <1>2, <1>4, <1>5

LEMMA FrameKept ==
    ASSUME WellRun, NEW n, Keeps(n)
    PROVE  /\ \A m \in Ops : Ready(m) => Ready(m)'
           /\ \A m \in Ops \ {n} : MayCapture(m, loc[m], mem) => MayCapture(m, loc'[m], mem')
           /\ \A m \in Inner : KidsReady(m) => KidsReady(m)'
           /\ Captured'
           /\ plan' \in Plans
           /\ left' \in Seq(IntTuples(mem', 2)) /\ right' \in Seq(IntTuples(mem', 1))
<1>1. /\ plan \in Plans /\ mem \in Seq(Seq(Cells))
      /\ left \in Seq(IntTuples(mem, 2)) /\ right \in Seq(IntTuples(mem, 1))
  BY DEF WellRun, QueryTypes
<1>2. /\ plan' = plan /\ left' = left /\ right' = right
      /\ mem' \in Seq(Seq(Cells)) /\ Grows(mem, mem')
      /\ DOMAIN loc' = Ops /\ \A m \in Ops \ {n} : loc'[m] = loc[m]
      /\ n \in Ops => loc'[n] = Nil \/ MayCapture(n, loc'[n], mem')
      /\ n \in Ops => (Ready(n) => Ready(n)')
  BY DEF Keeps
<1>3. \A m \in Ops \ {n} : MayCapture(m, loc[m], mem) => MayCapture(m, loc'[m], mem')
  <2> SUFFICES ASSUME NEW m \in Ops \ {n}, MayCapture(m, loc[m], mem) PROVE MayCapture(m, loc'[m], mem')
    OBVIOUS
  <2>1. MayCapture(m, loc[m], mem')
    BY <1>1, <1>2, CaptureKept
  <2>2. loc'[m] = loc[m]
    BY <1>2
  <2> QED
    BY <2>1, <2>2
<1>4. \A m \in Ops : Ready(m) => Ready(m)'
  <2> SUFFICES ASSUME NEW m \in Ops, m # n, Ready(m) PROVE Ready(m)'
    BY <1>2
  <2>1. MayCapture(m, loc[m], mem) => MayCapture(m, loc'[m], mem')
    BY <1>3
  <2> QED
    BY <2>1 DEF Ready
<1>5. \A m \in Inner : KidsReady(m) => KidsReady(m)'
  <2> SUFFICES ASSUME NEW m \in Inner, KidsReady(m) PROVE KidsReady(m)'
    OBVIOUS
  <2>1. PICK k, r : k = Kid(m) /\ r = RightKid
    OBVIOUS
  <2>2. Kid(m)' = k /\ RightKid' = r
    BY <1>2, <2>1, PlanKept
  <2>3. k \in Ops /\ (m = "join" => r \in Ops)
    BY <1>1, <2>1, CallersAre, PlanIs, SpineIs DEF Inner
  <2>4. Ready(k) /\ (m = "join" => Ready(r))
    BY <2>1 DEF KidsReady
  <2>5. Ready(k)' /\ (m = "join" => Ready(r)')
    BY <1>4, <2>3, <2>4
  <2>6. (Ready(Kid(m))' <=> Ready(k)') /\ (Ready(RightKid)' <=> Ready(r)')
    BY <2>2 DEF Ready
  <2> QED
    BY <2>5, <2>6 DEF KidsReady
<1>6. Captured'
  <2> SUFFICES ASSUME NEW m \in Ops PROVE loc'[m] = Nil \/ MayCapture(m, loc'[m], mem')
    BY DEF Captured
  <2>1. CASE m = n
    BY <1>2, <2>1
  <2>2. CASE m # n
    <3>1. loc[m] = Nil \/ MayCapture(m, loc[m], mem)
      BY DEF WellRun, Captured
    <3> QED
      BY <1>2, <1>3, <2>2, <3>1
  <2> QED
    BY <2>1, <2>2
<1>7. left' \in Seq(IntTuples(mem', 2)) /\ right' \in Seq(IntTuples(mem', 1))
  BY <1>1, <1>2, CaptureKept
<1> QED
  BY <1>1, <1>2, <1>3, <1>4, <1>5, <1>6, <1>7

\* A step in which n answers v.
LEMMA Answered ==
    ASSUME WellRun, NEW n \in PlanOps, at = n, Keeps(n), NEW v, Answer(n, v),
           InOpen(n) => Ready(n)',
           ~ InOpen(n) /\ IsTuple(v) => v \in Returned(n, mem'),
           n \in Inner /\ pc[n] \in Busy => MayCapture(n, loc'[n], mem'),
           n \in Inner /\ loc'[n] # Nil => loc[n] # Nil \/ pc[n] \in Busy \/ KidsReady(n)
    PROVE  WellRun'
<1>1. QueryTypes /\ Captured /\ Control
  BY DEF WellRun
<1>2. /\ plan' = plan /\ DOMAIN loc' = Ops /\ \A m \in Ops \ {n} : loc'[m] = loc[m]
      /\ mem' \in Seq(Seq(Cells)) /\ written' \in Seq(Tuples(mem'))
  BY DEF Keeps
<1>3. /\ \A m \in Ops : Ready(m) => Ready(m)'
      /\ \A m \in Ops \ {n} : MayCapture(m, loc[m], mem) => MayCapture(m, loc'[m], mem')
      /\ \A m \in Inner : KidsReady(m) => KidsReady(m)'
      /\ Captured' /\ plan' \in Plans
      /\ left' \in Seq(IntTuples(mem', 2)) /\ right' \in Seq(IntTuples(mem', 1))
  BY FrameKept
<1>4. n \in Inner /\ (loc[n] # Nil \/ pc[n] \in Busy) => KidsReady(n)
  BY <1>1 DEF Control, OpenedFirst
<1>5. /\ n \in Inner /\ pc[n] \in Busy => MayCapture(n, loc'[n], mem') /\ KidsReady(n)'
      /\ n \in Inner /\ loc'[n] # Nil => KidsReady(n)'
  BY <1>3, <1>4
<1>6. Control' /\ at' \in (PlanOps \cup {"client"})' /\ DOMAIN pc' = Ops \cup {"client"}
  BY <1>1, <1>2, <1>3, <1>5, AnswerStep
<1>7. QueryTypes'
  BY <1>2, <1>3, <1>6 DEF QueryTypes
<1> QED
  BY <1>3, <1>6, <1>7 DEF WellRun

\* A step in which n calls c.
LEMMA Called ==
    ASSUME WellRun, NEW n \in Inner \cup {"client"}, at = n, Keeps(n), NEW c, NEW method \in {"open", "next"},
           NEW resume, Call(n, c, method, resume),
           c = IF n = "client" THEN Top ELSE IF n = "join" /\ resume \in AtRight THEN RightKid ELSE Kid(n),
           IF method = "open" THEN resume \in OpenLabels ELSE resume \in NextLabels,
           n = "join" => resume \in {"opened", "first", "left"} \cup AtRight,
           n = "client" => resume \in {"row"},
           n # "client" => (InOpen(n) <=> resume \in {"opened", "openedRight", "first", "collect"}),
           n # "client" /\ resume \in Busy => MayCapture(n, loc'[n], mem') /\ KidsReady(n),
           n # "client" /\ loc'[n] # Nil => loc[n] # Nil \/ KidsReady(n),
           method = "next" => Ready(c),
           n = "join" /\ resume \in {"openedRight", "first"} => Ready(Kid("join")),
           n = "join" /\ resume = "first" => Ready(RightKid)
    PROVE  WellRun'
<1>1. QueryTypes /\ Captured /\ Control /\ plan \in Plans
  BY DEF WellRun, QueryTypes
<1>2. /\ plan' = plan /\ DOMAIN loc' = Ops /\ \A m \in Ops \ {n} : loc'[m] = loc[m]
      /\ mem' \in Seq(Seq(Cells)) /\ written' \in Seq(Tuples(mem'))
  BY DEF Keeps
<1>3. /\ \A m \in Ops : Ready(m) => Ready(m)'
      /\ \A m \in Ops \ {n} : MayCapture(m, loc[m], mem) => MayCapture(m, loc'[m], mem')
      /\ \A m \in Inner : KidsReady(m) => KidsReady(m)'
      /\ Captured' /\ plan' \in Plans
      /\ left' \in Seq(IntTuples(mem', 2)) /\ right' \in Seq(IntTuples(mem', 1))
  BY FrameKept
<1>4. n \in Inner /\ loc[n] # Nil => KidsReady(n)
  BY <1>1 DEF Control, OpenedFirst
<1>5. /\ n # "client" /\ resume \in Busy => MayCapture(n, loc'[n], mem') /\ KidsReady(n)'
      /\ n # "client" /\ loc'[n] # Nil => KidsReady(n)'
  BY <1>3, <1>4
<1>6. PICK k, r : k = Kid("join") /\ r = RightKid
  OBVIOUS
<1>7. Kid("join")' = k /\ RightKid' = r
  BY <1>2, <1>6, PlanKept
<1>8. c \in Ops /\ (n = "join" => k \in Ops /\ r \in Ops)
  <2>1. PlanOps \subseteq Ops /\ Inner \subseteq PlanOps /\ ("join" \in Inner => plan.join)
    BY <1>1, PlanIs, SpineIs DEF Inner
  <2>2. /\ \A m \in Inner : Kid(m) \in PlanOps
        /\ plan.join => RightKid \in PlanOps
        /\ Top \in PlanOps
    BY <1>1, CallersAre, TopIs
  <2>3. CASE n = "client"
    BY <2>1, <2>2, <2>3
  <2>4. CASE n \in Inner /\ n # "client"
    BY <1>6, <2>1, <2>2, <2>4
  <2> QED
    BY <2>3, <2>4
<1>9. (Ready(Kid("join"))' <=> Ready(k)') /\ (Ready(RightKid)' <=> Ready(r)')
  BY <1>7 DEF Ready
<1>10. (Ready(c) => Ready(c)') /\ (n = "join" => (Ready(k) => Ready(k)') /\ (Ready(r) => Ready(r)'))
  BY <1>3, <1>8
<1>11. /\ method = "next" => Ready(c)'
       /\ n = "join" /\ resume \in {"openedRight", "first"} => Ready(Kid("join"))'
       /\ n = "join" /\ resume = "first" => Ready(RightKid)'
  BY <1>6, <1>9, <1>10
<1>12. Control' /\ at' \in PlanOps' /\ DOMAIN pc' = Ops \cup {"client"}
  BY <1>1, <1>2, <1>3, <1>5, <1>11, CallStep, ZenonT(60)
<1>13. QueryTypes'
  BY <1>2, <1>3, <1>12 DEF QueryTypes
<1> QED
  BY <1>3, <1>12, <1>13 DEF WellRun

-----------------------------------------------------------------------------
(* Steps                                                                   *)

LEMMA KeepsSame ==
    ASSUME WellRun, NEW n, UNCHANGED <<plan, left, right, loc>>,
           mem' = mem \/ (mem' \in Seq(Seq(Cells)) /\ Grows(mem, mem')),
           written' = written
    PROVE  Keeps(n)
<1>1. /\ mem \in Seq(Seq(Cells)) /\ written \in Seq(Tuples(mem)) /\ DOMAIN loc = Ops
      /\ \A m \in Ops : loc[m] = Nil \/ MayCapture(m, loc[m], mem)
  BY DEF WellRun, QueryTypes, Captured
<1>2. mem' \in Seq(Seq(Cells)) /\ Grows(mem, mem')
  <2>1. Grows(mem, mem)
    BY <1>1 DEF Grows
  <2> QED
    BY <1>1, <2>1
<1>3. \A v : MayCapture(n, v, mem) => MayCapture(n, v, mem')
  BY <1>1, <1>2, CaptureKept
<1>4. written' \in Seq(Tuples(mem'))
  BY <1>1, <1>2, CaptureKept
<1>5. Ready(n) => Ready(n)'
  BY <1>3 DEF Ready
<1>6. n \in Ops => loc'[n] = Nil \/ MayCapture(n, loc'[n], mem')
  BY <1>1, <1>3
<1> QED
  BY <1>1, <1>2, <1>4, <1>5, <1>6 DEF Keeps

LEMMA KeepsCaptured ==
    ASSUME WellRun, NEW n \in Ops, NEW v, Captures(n, v), UNCHANGED <<plan, left, right>>,
           mem' = mem \/ (mem' \in Seq(Seq(Cells)) /\ Grows(mem, mem')),
           written' = written \/ written' \in Seq(Tuples(mem')),
           MayCapture(n, v, mem') \/ (v = Nil /\ n \notin Unguarded)
    PROVE  Keeps(n) /\ loc'[n] = v /\ Ready(n)'
<1>1. mem \in Seq(Seq(Cells)) /\ written \in Seq(Tuples(mem)) /\ DOMAIN loc = Ops
  BY DEF WellRun, QueryTypes
<1>2. mem' \in Seq(Seq(Cells)) /\ Grows(mem, mem')
  <2>1. Grows(mem, mem)
    BY <1>1 DEF Grows
  <2> QED
    BY <1>1, <2>1
<1>3. written' \in Seq(Tuples(mem'))
  BY <1>1, <1>2, CaptureKept
<1>4. loc'[n] = v /\ DOMAIN loc' = Ops /\ \A m \in Ops \ {n} : loc'[m] = loc[m]
  BY <1>1 DEF Captures
<1>5. Ready(n)'
  BY <1>4 DEF Ready
<1> QED
  BY <1>2, <1>3, <1>4, <1>5 DEF Keeps

\* A step that changes nothing of this.
LEMMA WellRunKept ==
    ASSUME WellRun, UNCHANGED <<plan, left, right, mem, at, pc, ret, loc, written>>
    PROVE  WellRun'
<1>1. QueryTypes /\ Captured /\ CallsMatched /\ SidesMatched /\ OpenedFirst /\ AnswersFit
  BY DEF WellRun, Control
<1>2. /\ \A n : Kid(n)' = Kid(n)
      /\ Top' = Top /\ RightKid' = RightKid /\ PlanOps' = PlanOps /\ Inner' = Inner
  BY PlanKept
<1>3. QueryTypes' /\ Captured'
  BY <1>1, <1>2 DEF QueryTypes, Captured
<1>4. (\A n : Callee(n)' = Callee(n)) /\ (\A n : InOpen(n)' = InOpen(n))
  BY <1>2 DEF Callee, InOpen
<1>5. CallsMatched' /\ SidesMatched'
  BY <1>1, <1>2, <1>4 DEF CallsMatched, SidesMatched
<1>6. \A n : Ready(n)' <=> Ready(n)
  BY DEF Ready
<1>7. /\ \A n : KidsReady(n)' <=> KidsReady(n)
      /\ Ready(Top)' <=> Ready(Top)
      /\ Ready(Kid("join"))' <=> Ready(Kid("join"))
      /\ Ready(RightKid)' <=> Ready(RightKid)
  BY <1>2 DEF Ready, KidsReady
<1>8. OpenedFirst'
  BY <1>1, <1>2, <1>4, <1>6, <1>7 DEF OpenedFirst
<1>9. AnswersFit'
  <2>1. (Ready(Callee(at))' <=> Ready(Callee(at))) /\ Returned(Callee(at)', mem') = Returned(Callee(at), mem)
    <3>1. Callee(at)' = Callee(at)
      BY <1>2 DEF Callee
    <3> QED
      BY <3>1 DEF Ready
  <2> QED
    BY <1>1, <1>2, <2>1 DEF AnswersFit
<1> QED
  BY <1>3, <1>5, <1>8, <1>9 DEF WellRun, Control

\* An operator that is about to take a step.
LEMMA AtIs ==
    ASSUME WellRun, NEW n \in Ops, NEW label, At(n, label)
    PROVE  /\ at = n /\ pc[n] = label /\ n \in PlanOps /\ plan \in Plans /\ mem \in Seq(Seq(Cells))
           /\ n \notin Leaves => n \in Inner /\ Kid(n) \in PlanOps
           /\ InOpen(n) <=> label \in {"open", "opened", "openedRight", "first", "collect"}
           /\ loc[n] = Nil \/ MayCapture(n, loc[n], mem)
           /\ n \in Unguarded /\ ~ InOpen(n) => MayCapture(n, loc[n], mem)
           /\ n \in Inner /\ label \in Busy => MayCapture(n, loc[n], mem)
           /\ n \in Inner /\ (loc[n] # Nil \/ label \in Busy) => KidsReady(n)
           /\ n \in Inner /\ label \in OpenLabels => Ready(Callee(n))
           /\ n \in Inner /\ label \in NextLabels /\ IsTuple(ret) => ret \in Returned(Callee(n), mem)
           /\ n # "join" => Callee(n) = Kid(n)
<1>1. QueryTypes /\ Captured /\ OpenedFirst /\ AnswersFit
  BY DEF WellRun, Control
<1>2. at = n /\ pc[n] = label /\ n # "client"
  BY DEF At, Ops
<1>3. n \in PlanOps /\ plan \in Plans /\ mem \in Seq(Seq(Cells))
  BY <1>1, <1>2 DEF QueryTypes
<1>4. n \notin Leaves => n \in Inner /\ Kid(n) \in PlanOps
  BY <1>3, CallersAre DEF Inner
<1>5. /\ n \in Unguarded /\ ~ InOpen(n) => MayCapture(n, loc[n], mem)
      /\ n \in Inner /\ label \in Busy => MayCapture(n, loc[n], mem)
      /\ n \in Inner /\ (loc[n] # Nil \/ label \in Busy) => KidsReady(n)
  BY <1>1, <1>2, <1>3 DEF OpenedFirst, Ready
<1>6. /\ n \in Inner /\ label \in OpenLabels => Ready(Callee(n))
      /\ n \in Inner /\ label \in NextLabels /\ IsTuple(ret) => ret \in Returned(Callee(n), mem)
  BY <1>1, <1>2 DEF AnswersFit
<1>7. InOpen(n) <=> label \in {"open", "opened", "openedRight", "first", "collect"}
  BY <1>2 DEF InOpen
<1>8. n # "join" => Callee(n) = Kid(n)
  BY <1>2 DEF Callee
<1>9. loc[n] = Nil \/ MayCapture(n, loc[n], mem)
  BY <1>1 DEF Captured
<1> QED
  BY <1>2, <1>3, <1>4, <1>5, <1>6, <1>7, <1>8, <1>9

LEMMA ReturnedIs ==
    ASSUME NEW m
    PROVE  /\ \A n \in {"scanL", "filterL", "join", "agg"} : Returned(n, m) = IntTuples(m, 2)
           /\ \A n \in {"scanR", "filterR"} : Returned(n, m) = IntTuples(m, 1)
           /\ \A n \in Writers : Returned(n, m) = [count : Nat]
           /\ \A n \in {"values", "project", "order", "limit"} : Returned(n, m) = Tuples(m)
  BY DEF Returned, Writers

LEMMA MayCaptureIs ==
    ASSUME NEW m, NEW v
    PROVE  /\ \A n \in Leaves \cup {"limit"} \cup Writers : MayCapture(n, v, m) <=> v \in Nat
           /\ MayCapture("order", v, m) <=> v \in Seq(Tuples(m))
           /\ MayCapture("join", v, m) <=> v \in [leftTuple : IntTuples(m, 2) \cup {Nil}]
           /\ MayCapture("agg", v, m) <=> v \in [groups : Seq(AggGroups), done : Nat]
           /\ \A n \in {"filterL", "filterR", "project"} : MayCapture(n, v, m)
  BY DEF MayCapture, Writers, Leaves

\* What operators other than INSERT and DELETE return are tuples.
LEMMA ReturnedTuples ==
    ASSUME NEW m, NEW n, n \notin Writers
    PROVE  Returned(n, m) \subseteq Tuples(m)
  BY DEF Returned, IntTuples

-----------------------------------------------------------------------------
(* Scans and VALUES                                                        *)

LEMMA ScanOpenStep ==
    ASSUME WellRun, NEW n \in Leaves, ScanOpen(n)
    PROVE  WellRun'
<1>1. n \in Ops /\ n \notin Inner
  BY DEF Leaves, Ops, Inner
<1>2. at = n /\ n \in PlanOps /\ InOpen(n)
  BY <1>1, AtIs DEF ScanOpen
<1>3. Captures(n, 0) /\ Answer(n, Opened) /\ UNCHANGED <<plan, left, right, mem, written>>
  BY DEF ScanOpen, tables, effects
<1>4. MayCapture(n, 0, mem')
  BY DEF MayCapture, Leaves
<1>5. Keeps(n) /\ Ready(n)'
  BY <1>1, <1>3, <1>4, KeepsCaptured
<1> QED
  BY <1>1, <1>2, <1>3, <1>5, Answered

LEMMA TableIs ==
    ASSUME WellRun, NEW n \in {"scanL", "scanR"}
    PROVE  Len(Table(n)) \in Nat /\ \A i \in 1 .. Len(Table(n)) : Table(n)[i] \in Returned(n, mem)
<1>1. left \in Seq(IntTuples(mem, 2)) /\ right \in Seq(IntTuples(mem, 1))
  BY DEF WellRun, QueryTypes
<1>2. CASE n = "scanL"
  <2>1. PICK rows \in Seq(IntTuples(mem, 2)) : rows = Table(n)
    BY <1>1, <1>2 DEF Table
  <2>2. Returned(n, mem) = IntTuples(mem, 2)
    BY <1>2, ReturnedIs
  <2>3. Len(rows) \in Nat /\ \A i \in 1 .. Len(rows) : rows[i] \in Returned(n, mem)
    BY <2>2
  <2> QED
    BY <2>1, <2>3
<1>3. CASE n = "scanR"
  <2>1. PICK rows \in Seq(IntTuples(mem, 1)) : rows = Table(n)
    BY <1>1, <1>3 DEF Table
  <2>2. Returned(n, mem) = IntTuples(mem, 1)
    BY <1>3, ReturnedIs
  <2>3. Len(rows) \in Nat /\ \A i \in 1 .. Len(rows) : rows[i] \in Returned(n, mem)
    BY <2>2
  <2> QED
    BY <2>1, <2>3
<1> QED
  BY <1>2, <1>3

LEMMA ScanNextStep ==
    ASSUME WellRun, NEW n \in {"scanL", "scanR"}, ScanNext(n)
    PROVE  WellRun'
<1>1. n \in Ops /\ n \notin Inner /\ n \in Unguarded /\ n \in Leaves
  BY DEF Leaves, Ops, Inner, Unguarded
<1>2. at = n /\ n \in PlanOps /\ ~ InOpen(n) /\ MayCapture(n, loc[n], mem)
  BY <1>1, AtIs DEF ScanNext
<1>3. loc[n] \in Nat
  BY <1>2 DEF MayCapture
<1>4. Len(Table(n)) \in Nat /\ \A i \in 1 .. Len(Table(n)) : Table(n)[i] \in Returned(n, mem)
  BY TableIs
<1>5. PICK w, v : w \in Nat /\ Captures(n, w) /\ Answer(n, v) /\ v \in Returned(n, mem) \cup {Nil}
  <2>1. CASE loc[n] < Len(Table(n))
    <3>1. Captures(n, loc[n] + 1) /\ Answer(n, Table(n)[loc[n] + 1])
      BY <2>1 DEF ScanNext
    <3>2. loc[n] + 1 \in Nat /\ loc[n] + 1 \in 1 .. Len(Table(n))
      BY <1>3, <1>4, <2>1
    <3> QED
      BY <1>4, <3>1, <3>2
  <2>2. CASE ~ (loc[n] < Len(Table(n)))
    <3>1. Captures(n, Len(Table(n)) + 1) /\ Answer(n, Nil)
      BY <2>2 DEF ScanNext
    <3>2. Len(Table(n)) + 1 \in Nat
      BY <1>4
    <3> QED
      BY <3>1, <3>2
  <2> QED
    BY <2>1, <2>2
<1>6. UNCHANGED <<plan, left, right, mem, written>>
  BY DEF ScanNext, tables, effects
<1>7. MayCapture(n, w, mem')
  BY <1>5 DEF MayCapture
<1>8. Keeps(n)
  BY <1>1, <1>5, <1>6, <1>7, KeepsCaptured
<1>9. IsTuple(v) => v \in Returned(n, mem')
  BY <1>5, <1>6 DEF IsTuple
<1> QED
  BY <1>1, <1>2, <1>5, <1>8, <1>9, Answered

LEMMA ScanFailsStep ==
    ASSUME WellRun, NEW n \in {"scanL", "scanR"}, ScanFails(n)
    PROVE  WellRun'
<1>1. n \in Ops /\ n \notin Inner
  BY DEF Leaves, Ops, Inner
<1>2. at = n /\ n \in PlanOps /\ ~ InOpen(n)
  BY <1>1, AtIs DEF ScanFails
<1>3. Answer(n, Err) /\ UNCHANGED <<plan, left, right, mem, loc, written>>
  BY DEF ScanFails, tables
<1>4. Keeps(n)
  BY <1>3, KeepsSame
<1> QED
  BY <1>1, <1>2, <1>3, <1>4, Answered DEF IsTuple

LEMMA ValuesNextStep ==
    ASSUME WellRun, ValuesNext
    PROVE  WellRun'
<1> DEFINE n == "values"
           i == loc["values"] + 1
           row == [f \in DOMAIN plan.values[i] |-> EvalExpr(plan.values[i][f], <<>>)]
           bad == {f \in DOMAIN row : Failed(row[f])}
<1>1. n \in Ops /\ n \notin Inner /\ n \in Unguarded
  BY DEF Leaves, Ops, Inner, Unguarded
<1>2. /\ at = n /\ n \in PlanOps /\ ~ InOpen(n) /\ MayCapture(n, loc[n], mem)
      /\ plan \in Plans /\ mem \in Seq(Seq(Cells))
  BY <1>1, AtIs DEF ValuesNext
<1>3. loc[n] \in Nat
  BY <1>2 DEF MayCapture
<1>4. UNCHANGED <<plan, left, right, written>>
  BY DEF ValuesNext, tables
<1>5. CASE Answer(n, Nil) /\ UNCHANGED <<mem, loc, status>>
  <2>1. Keeps(n)
    BY <1>4, <1>5, KeepsSame
  <2> QED
    BY <1>1, <1>2, <1>5, <2>1, Answered DEF IsTuple
<1>6. CASE Answer(n, Err) /\ UNCHANGED <<mem, loc, status>>
  <2>1. Keeps(n)
    BY <1>4, <1>6, KeepsSame
  <2> QED
    BY <1>1, <1>2, <1>6, <2>1, Answered DEF IsTuple
<1>7. CASE Crash
  BY <1>4, <1>7, WellRunKept DEF Crash, control
<1>8. CASE /\ ~ (i > Len(plan.values)) /\ bad = {}
           /\ mem' = Append(mem, row)
           /\ Captures("values", i)
           /\ Answer("values", [arr |-> Len(mem) + 1, len |-> Len(row)])
  <2>1. plan.values \in ValueLists
    BY <1>2 DEF PlanOps, HasOp, Plans
  <2>2. IsSeq(plan.values) /\ \A j \in DOMAIN plan.values :
            IsSeq(plan.values[j]) /\ \A f \in DOMAIN plan.values[j] : IsExpr(plan.values[j][f], {})
    BY <2>1, QueryAssumption
  <2>3. i \in DOMAIN plan.values
    BY <1>3, <1>8, <2>2 DEF IsSeq
  <2>4. PICK exprs : exprs = plan.values[i]
    OBVIOUS
  <2>5. IsSeq(exprs) /\ \A f \in DOMAIN exprs : IsExpr(exprs[f], {})
    BY <2>2, <2>3, <2>4
  <2>6. DOMAIN exprs = 1 .. Len(exprs) /\ Len(exprs) \in Nat
    BY <2>5 DEF IsSeq
  <2>7. DOMAIN row = 1 .. Len(exprs) /\ \A f \in 1 .. Len(exprs) : row[f] = EvalExpr(exprs[f], <<>>)
    BY <2>4, <2>6
  <2>8. \A f \in 1 .. Len(exprs) : row[f] \in Int \cup Strings
    <3> SUFFICES ASSUME NEW f \in 1 .. Len(exprs) PROVE row[f] \in Int \cup Strings
      OBVIOUS
    <3>1. IsExpr(exprs[f], {})
      BY <2>5, <2>6
    <3>2. EvalExpr(exprs[f], <<>>) \in Values(GetExprType(exprs[f])) \cup {Err, Panic}
      BY <3>1, ExprTyped, QueryAssumption
    <3>3. ~ Failed(row[f])
      BY <1>8, <2>7
    <3> QED
      BY <2>7, <3>2, <3>3 DEF Failed, Values
  <2>9. row \in [1 .. Len(exprs) -> Cells] /\ \A f \in 1 .. Len(exprs) : row[f] # Nil
    BY <2>7, <2>8, CellsAre
  <2>10. row \in Seq(Cells) /\ Len(row) = Len(exprs)
    BY <2>6, <2>9, FunctionSeq
  <2>11. PICK a : a = row
    OBVIOUS
  <2>12. a \in Seq(Cells) /\ Len(a) \in Nat /\ \A f \in 1 .. Len(a) : a[f] # Nil
    BY <2>6, <2>9, <2>10, <2>11
  <2>13. mem' = Append(mem, a) /\ Answer(n, [arr |-> Len(mem) + 1, len |-> Len(a)])
    BY <1>8, <2>11
  <2>14. /\ mem' \in Seq(Seq(Cells)) /\ Grows(mem, mem')
         /\ [arr |-> Len(mem) + 1, len |-> Len(a)] \in Tuples(mem')
    <3>1. /\ Append(mem, a) \in Seq(Seq(Cells)) /\ Grows(mem, Append(mem, a))
          /\ [arr |-> Len(mem) + 1, len |-> Len(a)] \in Tuples(Append(mem, a))
      BY <1>2, <2>12, Appended
    <3> QED
      BY <2>13, <3>1
  <2>15. Keeps(n)
    <3>1. MayCapture(n, i, mem')
      BY <1>3 DEF MayCapture
    <3> HIDE DEF i
    <3>2. Captures("values", i)
      BY <1>8
    <3> QED
      BY <1>1, <1>4, <2>14, <3>1, <3>2, KeepsCaptured
  <2>16. [arr |-> Len(mem) + 1, len |-> Len(a)] \in Returned(n, mem')
    BY <2>14 DEF Returned, Writers
  <2> QED
    BY <1>1, <1>2, <2>13, <2>15, <2>16, Answered
<1> QED
  <2>1. \/ Answer(n, Nil) /\ UNCHANGED <<mem, loc, status>>
        \/ Answer(n, Err) /\ UNCHANGED <<mem, loc, status>>
        \/ Crash
        \/ /\ ~ (i > Len(plan.values)) /\ bad = {}
           /\ mem' = Append(mem, row)
           /\ Captures("values", i)
           /\ Answer("values", [arr |-> Len(mem) + 1, len |-> Len(row)])
    <3>1. CASE i > Len(plan.values)
      BY <3>1 DEF ValuesNext
    <3>2. CASE ~ (i > Len(plan.values)) /\ bad # {}
      <4>1. i <= Len(plan.values)
        <5>1. Len(plan.values) \in Nat
          <6>1. plan.values \in ValueLists
            BY <1>2 DEF PlanOps, HasOp, Plans
          <6> QED
            BY <6>1, QueryAssumption DEF IsSeq
        <5> QED
          BY <1>3, <3>2, <5>1
      <4> QED
        BY <3>2, <4>1 DEF ValuesNext
    <3>3. CASE ~ (i > Len(plan.values)) /\ bad = {}
      BY <3>3 DEF ValuesNext
    <3> QED
      BY <3>1, <3>2, <3>3
  <2> QED
    BY <1>5, <1>6, <1>7, <1>8, <2>1

-----------------------------------------------------------------------------
(* Operators with one child                                                *)

Unary == {"filterL", "filterR", "project", "order", "limit", "agg"} \cup Writers

\* An operator with one child that is about to take a step.
LEMMA UnaryIs ==
    ASSUME WellRun, NEW n \in Unary, NEW label, At(n, label)
    PROVE  /\ n \in Ops /\ n \in Inner /\ n # "client" /\ n # "join" /\ n \notin Leaves
           /\ Kid(n) \in PlanOps /\ Kid(n) \in Ops /\ Kid(n) \notin Writers /\ Callee(n) = Kid(n)
           /\ KidsReady(n) <=> Ready(Kid(n))
           /\ at = n /\ pc[n] = label /\ n \in PlanOps /\ plan \in Plans /\ mem \in Seq(Seq(Cells))
           /\ label \in NextLabels /\ IsTuple(ret) => ret \in Tuples(mem)
<1>1. n \in Ops /\ n # "client" /\ n # "join" /\ n \notin Leaves
  BY DEF Unary, Ops, Leaves, Writers
<1>2. /\ n \in Inner /\ Kid(n) \in PlanOps /\ Callee(n) = Kid(n)
      /\ at = n /\ pc[n] = label /\ n \in PlanOps /\ plan \in Plans /\ mem \in Seq(Seq(Cells))
      /\ label \in NextLabels /\ IsTuple(ret) => ret \in Returned(Callee(n), mem)
  BY <1>1, AtIs
<1>3. Kid(n) \in Ops /\ Kid(n) \notin Writers
  BY <1>2, KindsAre, SpineIs
<1>4. KidsReady(n) <=> Ready(Kid(n))
  BY <1>1 DEF KidsReady
<1>5. label \in NextLabels /\ IsTuple(ret) => ret \in Tuples(mem)
  BY <1>2, <1>3, ReturnedTuples
<1> QED
  BY <1>1, <1>2, <1>3, <1>4, <1>5

LEMMA OpenKidStep ==
    ASSUME WellRun, NEW n \in Unary, OpenKid(n)
    PROVE  WellRun'
<1>1. At(n, "open") /\ Call(n, Kid(n), "open", "opened") /\ UNCHANGED <<plan, left, right, mem, loc, written>>
  BY DEF OpenKid, tables, effects
<1>2. n \in Inner /\ n # "client" /\ n # "join" /\ at = n /\ n \in Ops
  BY <1>1, UnaryIs
<1>3. InOpen(n)
  BY <1>1, <1>2, AtIs
<1>4. Keeps(n)
  BY <1>1, KeepsSame
<1>5. PICK c : c = Kid(n)
  OBVIOUS
<1> QED
  BY <1>1, <1>2, <1>3, <1>4, <1>5, Called DEF OpenLabels, Busy

LEMMA KidOpenedStep ==
    ASSUME WellRun, NEW n \in {"filterL", "filterR", "project", "limit"} \cup Writers, KidOpened(n)
    PROVE  WellRun'
<1>0. PICK v : v = IF n = "project" THEN {} ELSE 0
  OBVIOUS
<1>1. At(n, "opened") /\ Captures(n, v) /\ Answer(n, Opened) /\ UNCHANGED <<plan, left, right, mem, written>>
  BY <1>0 DEF KidOpened, tables, effects
<1>2. n \in Unary
  BY DEF Unary
<1>3. /\ n \in Inner /\ n \in PlanOps /\ at = n /\ pc[n] = "opened" /\ n \in Ops
      /\ KidsReady(n) <=> Ready(Kid(n))
      /\ Callee(n) = Kid(n)
  BY <1>1, <1>2, UnaryIs
<1>4. InOpen(n) /\ Ready(Callee(n))
  BY <1>1, <1>3, AtIs DEF OpenLabels
<1>5. MayCapture(n, v, mem')
  BY <1>0, MayCaptureIs DEF Writers
<1>6. Keeps(n) /\ Ready(n)'
  BY <1>1, <1>3, <1>5, KeepsCaptured
<1> QED
  BY <1>1, <1>3, <1>4, <1>6, Answered DEF Busy

LEMMA NextOfKidStep ==
    ASSUME WellRun, NEW n \in Unary, At(n, "next") \/ (At(n, "got") /\ n # "order"),
           loc[n] # Nil, Call(n, Kid(n), "next", "got"), UNCHANGED <<plan, left, right, mem, loc, written>>
    PROVE  WellRun'
<1>1. PICK label \in {"next", "got"} : At(n, label)
  OBVIOUS
<1>2. /\ n \in Inner /\ n # "client" /\ n # "join" /\ at = n /\ n \in Ops
      /\ KidsReady(n) <=> Ready(Kid(n))
  BY <1>1, UnaryIs
<1>3. ~ InOpen(n) /\ KidsReady(n) /\ MayCapture(n, loc[n], mem)
  BY <1>1, <1>2, AtIs
<1>4. MayCapture(n, loc'[n], mem')
  BY <1>3
<1>5. Keeps(n)
  BY KeepsSame
<1>6. PICK c : c = Kid(n)
  OBVIOUS
<1>7. Ready(c)
  BY <1>2, <1>3, <1>6
<1> QED
  BY <1>2, <1>3, <1>4, <1>5, <1>6, <1>7, Called DEF NextLabels, Busy

\* An operator with one child asks it for its next tuple.
LEMMA AsksKid ==
    ASSUME WellRun, NEW n \in Unary, NEW label, At(n, label), NEW resume \in {"got", "more", "collect"},
           Call(n, Kid(n), "next", resume), Keeps(n), MayCapture(n, loc'[n], mem'), KidsReady(n),
           InOpen(n) <=> resume = "collect"
    PROVE  WellRun'
<1>1. /\ n \in Inner /\ n # "client" /\ n # "join" /\ at = n /\ n \in Ops
      /\ KidsReady(n) <=> Ready(Kid(n))
  BY UnaryIs
<1>2. PICK c : c = Kid(n)
  OBVIOUS
<1>3. Ready(c)
  BY <1>1, <1>2
<1> QED
  BY <1>1, <1>2, <1>3, Called DEF NextLabels, Busy

\* It returns something to its caller, in its closure.
LEMMA AnswersUp ==
    ASSUME WellRun, NEW n \in Unary, NEW label \in {"next", "got", "more"}, At(n, label),
           NEW v, Answer(n, v), Keeps(n), MayCapture(n, loc'[n], mem'),
           label = "next" => loc[n] # Nil,
           IsTuple(v) => v \in Returned(n, mem')
    PROVE  WellRun'
<1>1. n \in Inner /\ at = n /\ pc[n] = label /\ n \in PlanOps /\ n \in Ops
  BY UnaryIs
<1>2. ~ InOpen(n)
  BY <1>1, AtIs
<1>3. loc[n] # Nil \/ pc[n] \in Busy
  BY <1>1 DEF Busy
<1> QED
  BY <1>1, <1>2, <1>3, Answered

LEMMA FilterGotStep ==
    ASSUME WellRun, NEW n \in {"filterL", "filterR"}, FilterGot(n)
    PROVE  WellRun'
<1> DEFINE cond == plan.filters[IF n = "filterL" THEN "left" ELSE "right"]
           l == EvalExpr(cond.left, Value(ret))
           r == EvalExpr(cond.right, Value(ret))
<1>1. PICK label \in {"got", "more"} : At(n, label)
  BY DEF FilterGot
<1>2. n \in Unary
  BY DEF Unary
<1>3. /\ n \in Inner /\ n \in Ops /\ at = n /\ pc[n] = label /\ plan \in Plans /\ Callee(n) = Kid(n)
  BY <1>1, <1>2, UnaryIs
<1>4. ~ InOpen(n) /\ KidsReady(n) /\ (IsTuple(ret) => ret \in Returned(Callee(n), mem))
  BY <1>1, <1>3, AtIs DEF Busy, NextLabels
<1>5. IsTuple(ret) => ret \in Returned(n, mem)
  <2>1. Kid(n) = IF n = "filterL" THEN "scanL" ELSE "scanR"
    BY <1>3, KindsAre
  <2> QED
    BY <1>3, <1>4, <2>1, ReturnedIs
<1>6. UNCHANGED <<plan, left, right, written>>
  BY DEF FilterGot, tables
<1>7. MayCapture(n, loc'[n], mem')
  BY MayCaptureIs
<1>8. ASSUME UNCHANGED <<mem, loc, status>>, NEW v, Answer(n, v), v \in {Nil, ret}
      PROVE  WellRun'
  <2>1. Keeps(n)
    BY <1>6, <1>8, KeepsSame
  <2>2. IsTuple(v) => v \in Returned(n, mem')
    BY <1>5, <1>8 DEF IsTuple
  <2> QED
    BY <1>1, <1>2, <1>7, <1>8, <2>1, <2>2, AnswersUp
<1>9. CASE Crash
  BY <1>6, <1>9, WellRunKept DEF Crash, control
<1>10. CASE Call(n, Kid(n), "next", "more") /\ UNCHANGED <<mem, loc, status>>
  <2>1. Keeps(n)
    BY <1>6, <1>10, KeepsSame
  <2> QED
    BY <1>1, <1>2, <1>4, <1>7, <1>10, <2>1, AsksKid
<1> QED
  <2>1. CASE ~ IsTuple(ret)
    <3>1. Answer(n, IF pc[n] = "got" THEN ret ELSE Nil) /\ UNCHANGED <<mem, loc, status>>
      BY <2>1 DEF FilterGot
    <3> QED
      BY <1>8, <3>1
  <2>2. CASE IsTuple(ret) /\ (Failed(l) \/ Failed(r))
    BY <1>9, <2>2 DEF FilterGot
  <2>3. CASE IsTuple(ret) /\ ~ (Failed(l) \/ Failed(r))
    <3>1. /\ Answer(n, ret) \/ Call(n, Kid(n), "next", "more")
          /\ UNCHANGED <<mem, loc, status>>
      BY <2>3 DEF FilterGot
    <3> QED
      BY <1>8, <1>10, <3>1
  <2> QED
    BY <2>1, <2>2, <2>3

LEMMA SelectedIs ==
    ASSUME WellRun, WellFormedList, NEW t \in IntTuples(mem, 2),
           \A i \in DOMAIN plan.list : Selected(t)[i] # Panic
    PROVE  Selected(t) \in Seq(Cells) /\ \A i \in 1 .. Len(Selected(t)) : Selected(t)[i] # Nil
<1>1. plan \in Plans /\ mem \in Seq(Seq(Cells))
  BY DEF WellRun, QueryTypes
<1>2. t \in Tuples(mem) /\ t.len >= 2 /\ \A i \in 1 .. t.len : mem[t.arr][i] \in Int
  BY DEF IntTuples
<1>3. t.len \in Nat /\ \A i \in 1 .. t.len : Value(t)[i] = mem[t.arr][i]
  BY <1>1, <1>2, ValueIs DEF Value
<1>4. \A f \in {1, 2} : Value(t)[f] \in Int
  BY <1>2, <1>3
<1>5. PICK list : list = plan.list
  OBVIOUS
<1>6. list \in SelectLists \cup {<<>>}
  BY <1>1, <1>5 DEF Plans
<1>7. /\ DOMAIN list = 1 .. Len(list) /\ Len(list) \in Nat
      /\ \A i \in DOMAIN list : IsExpr(list[i], {1, 2}) /\ WellFormed(list[i])
  <2>1. CASE list = <<>>
    BY <2>1
  <2>2. CASE list \in SelectLists
    <3>1. IsSeq(list) /\ \A i \in DOMAIN list : IsExpr(list[i], {1, 2})
      BY <2>2, QueryAssumption
    <3>2. \A i \in DOMAIN list : list[i] \in Range(list)
      BY DEF Range
    <3> QED
      BY <1>5, <3>1, <3>2 DEF IsSeq, WellFormedList
  <2> QED
    BY <1>6, <2>1, <2>2
<1>8. PICK row : row = Selected(t)
  OBVIOUS
<1>9. DOMAIN row = DOMAIN list /\ \A i \in DOMAIN list : row[i] \in Int \cup Strings
  <2>1. DOMAIN row = DOMAIN list
    BY <1>5, <1>8 DEF Selected
  <2> SUFFICES ASSUME NEW i \in DOMAIN list PROVE row[i] \in Int \cup Strings
    BY <2>1
  <2>2. PICK v : v = EvalExpr(list[i], Value(t))
    OBVIOUS
  <2>3. row[i] = IF v = Err THEN Nil ELSE v
    BY <1>5, <1>8, <2>2 DEF Selected
  <2>4. v \in Values(GetExprType(list[i])) \cup {Err, Panic} /\ v # Err
    BY <1>4, <1>7, <2>2, ExprTyped, QueryAssumption
  <2>5. row[i] # Panic
    BY <1>5, <1>8
  <2> QED
    BY <2>3, <2>4, <2>5 DEF Values
<1>10. row \in [1 .. Len(list) -> Cells] /\ \A i \in 1 .. Len(list) : row[i] # Nil
  <2>1. row = [i \in DOMAIN row |-> row[i]]
    BY <1>8 DEF Selected
  <2> QED
    BY <1>7, <1>9, <2>1, CellsAre
<1>11. row \in Seq(Cells) /\ Len(row) = Len(list)
  BY <1>7, <1>10, FunctionSeq
<1> QED
  BY <1>8, <1>10, <1>11

LEMMA ProjectGotStep ==
    ASSUME WellRun, WellFormedList, ProjectGot
    PROVE  WellRun'
<1> DEFINE n == "project"
<1>1. At(n, "got") /\ UNCHANGED <<plan, left, right, written>>
  BY DEF ProjectGot, tables
<1>2. n \in Unary
  BY DEF Unary
<1>3. n \in Inner /\ n \in Ops /\ at = n /\ plan \in Plans /\ Callee(n) = Kid(n) /\ mem \in Seq(Seq(Cells))
  BY <1>1, <1>2, UnaryIs
<1>4. ~ InOpen(n) /\ KidsReady(n) /\ (IsTuple(ret) => ret \in Returned(Callee(n), mem))
  BY <1>1, <1>3, AtIs DEF Busy, NextLabels
<1>5. IsTuple(ret) => ret \in IntTuples(mem, 2)
  <2>1. Kid(n) \in {"scanL", "filterL", "join", "agg"}
    BY <1>3, KindsAre
  <2> QED
    BY <1>3, <1>4, <2>1, ReturnedIs
<1>6. \A m, v : MayCapture(n, v, m)
  BY MayCaptureIs
<1>7. CASE Answer(n, Nil) /\ UNCHANGED <<mem, loc, status>>
  <2>1. Keeps(n)
    BY <1>1, <1>7, KeepsSame
  <2> QED
    BY <1>1, <1>2, <1>6, <1>7, <2>1, AnswersUp DEF IsTuple
<1>8. CASE Crash
  BY <1>1, <1>8, WellRunKept DEF Crash, control
<1>9. CASE Call(n, Kid(n), "next", "got") /\ UNCHANGED <<mem, loc, status>>
  <2>1. Keeps(n)
    BY <1>1, <1>9, KeepsSame
  <2> QED
    BY <1>1, <1>2, <1>4, <1>6, <1>9, <2>1, AsksKid
<1>10. ASSUME IsTuple(ret), \A i \in DOMAIN plan.list : Selected(ret)[i] # Panic, NEW w,
              mem' = WithNewTuple(Selected(ret)), Captures(n, w), Answer(n, NewTuple(Selected(ret)))
       PROVE  WellRun'
  <2>1. PICK row : row = Selected(ret)
    OBVIOUS
  <2>2. row \in Seq(Cells) /\ \A i \in 1 .. Len(row) : row[i] # Nil
    BY <1>5, <1>10, <2>1, SelectedIs
  <2>3. /\ WithNewTuple(row) \in Seq(Seq(Cells)) /\ Grows(mem, WithNewTuple(row))
        /\ NewTuple(row) \in Tuples(WithNewTuple(row))
    BY <1>3, <2>2, NewTupleMade
  <2>4. PICK v : v = NewTuple(row)
    OBVIOUS
  <2>5. mem' \in Seq(Seq(Cells)) /\ Grows(mem, mem') /\ v \in Tuples(mem') /\ Answer(n, v)
    BY <1>10, <2>1, <2>3, <2>4
  <2>6. Keeps(n)
    BY <1>1, <1>3, <1>6, <1>10, <2>5, KeepsCaptured
  <2>7. v \in Returned(n, mem')
    BY <2>5, ReturnedIs
  <2> QED
    BY <1>1, <1>2, <1>6, <2>5, <2>6, <2>7, AnswersUp
<1> QED
  <2>1. CASE ~ IsTuple(ret)
    BY <1>7, <2>1 DEF ProjectGot
  <2>2. CASE IsTuple(ret) /\ \E i \in DOMAIN plan.list : Selected(ret)[i] = Panic
    BY <1>7, <1>8, <1>9, <2>2 DEF ProjectGot
  <2>3. CASE IsTuple(ret) /\ ~ \E i \in DOMAIN plan.list : Selected(ret)[i] = Panic
    <3>1. CASE plan.select = "distinct" /\ Selected(ret) \in loc["project"]
      BY <1>9, <2>3, <3>1 DEF ProjectGot
    <3>2. CASE ~ (plan.select = "distinct" /\ Selected(ret) \in loc["project"])
      <4>1. /\ mem' = WithNewTuple(Selected(ret))
            /\ Captures(n, IF plan.select = "distinct" THEN loc["project"] \cup {Selected(ret)} ELSE {})
            /\ Answer(n, NewTuple(Selected(ret)))
        BY <2>3, <3>2 DEF ProjectGot
      <4> QED
        BY <1>10, <2>3, <4>1
    <3> QED
      BY <3>1, <3>2
  <2> QED
    BY <2>1, <2>2, <2>3

-----------------------------------------------------------------------------
(* LIMIT and ORDER BY                                                      *)

LEMMA LimitNextStep ==
    ASSUME WellRun, LimitNext
    PROVE  WellRun'
<1> DEFINE n == "limit"
<1>1. At(n, "next") /\ UNCHANGED <<plan, left, right, mem, loc, written>>
  BY DEF LimitNext, tables, effects
<1>2. n \in Unary /\ n \in Unguarded
  BY DEF Unary, Unguarded
<1>3. n \in Inner /\ n \in Ops
  BY <1>1, <1>2, UnaryIs
<1>4. ~ InOpen(n) /\ MayCapture(n, loc[n], mem)
  BY <1>1, <1>2, <1>3, AtIs
<1>5. loc[n] # Nil
  <2>1. loc[n] \in Nat
    BY <1>4, MayCaptureIs
  <2> QED
    BY <2>1, QueryAssumption
<1>6. KidsReady(n)
  BY <1>1, <1>3, <1>5, AtIs
<1>7. Keeps(n) /\ MayCapture(n, loc'[n], mem')
  BY <1>1, <1>4, KeepsSame
<1>8. Answer(n, Nil) \/ Call(n, Kid(n), "next", "got")
  BY DEF LimitNext
<1>9. CASE Answer(n, Nil)
  BY <1>1, <1>2, <1>5, <1>7, <1>9, AnswersUp DEF IsTuple
<1>10. CASE Call(n, Kid(n), "next", "got")
  BY <1>1, <1>2, <1>4, <1>6, <1>7, <1>10, AsksKid
<1> QED
  BY <1>8, <1>9, <1>10

LEMMA LimitGotStep ==
    ASSUME WellRun, LimitGot
    PROVE  WellRun'
<1> DEFINE n == "limit"
<1>1. At(n, "got") /\ UNCHANGED <<plan, left, right, mem, written>>
  BY DEF LimitGot, tables, effects
<1>2. n \in Unary
  BY DEF Unary
<1>3. n \in Inner /\ n \in Ops /\ (IsTuple(ret) => ret \in Tuples(mem))
  BY <1>1, <1>2, UnaryIs DEF NextLabels
<1>4. MayCapture(n, loc[n], mem)
  BY <1>1, <1>3, AtIs DEF Busy
<1>5. loc[n] \in Nat
  BY <1>4, MayCaptureIs
<1>6. PICK w, v : /\ w = IF IsTuple(ret) THEN loc["limit"] + 1 ELSE loc["limit"]
                  /\ v = IF IsTuple(ret) THEN ret ELSE Nil
  OBVIOUS
<1>7. Captures(n, w) /\ Answer(n, v)
  BY <1>6 DEF LimitGot
<1>8. MayCapture(n, w, mem')
  <2>1. w \in Nat
    BY <1>5, <1>6
  <2> QED
    BY <2>1, MayCaptureIs
<1>9. Keeps(n) /\ loc'[n] = w
  BY <1>1, <1>3, <1>7, <1>8, KeepsCaptured
<1>10. IsTuple(v) => v \in Returned(n, mem')
  BY <1>1, <1>3, <1>6, ReturnedIs DEF IsTuple
<1> QED
  BY <1>1, <1>2, <1>7, <1>8, <1>9, <1>10, AnswersUp

LEMMA OrderOpenedStep ==
    ASSUME WellRun, OrderOpened
    PROVE  WellRun'
<1> DEFINE n == "order"
<1>1. /\ At(n, "opened") /\ UNCHANGED <<plan, left, right, mem, written>>
      /\ Captures(n, <<>>) /\ Call(n, Kid(n), "next", "collect")
  BY DEF OrderOpened, tables, effects
<1>2. n \in Unary
  BY DEF Unary
<1>3. n \in Inner /\ n \in Ops /\ Callee(n) = Kid(n) /\ (KidsReady(n) <=> Ready(Kid(n)))
  BY <1>1, <1>2, UnaryIs
<1>4. InOpen(n) /\ Ready(Callee(n))
  BY <1>1, <1>3, AtIs DEF OpenLabels
<1>5. MayCapture(n, <<>>, mem')
  <2>1. <<>> \in Seq(Tuples(mem'))
    OBVIOUS
  <2> QED
    BY <2>1, MayCaptureIs
<1>6. Keeps(n) /\ loc'[n] = <<>>
  BY <1>1, <1>3, <1>5, KeepsCaptured
<1>7. MayCapture(n, loc'[n], mem')
  BY <1>5, <1>6
<1> QED
  BY <1>1, <1>2, <1>3, <1>4, <1>6, <1>7, AsksKid

\* An ORDER BY that is collecting tuples.
LEMMA OrderIs ==
    ASSUME WellRun, At("order", "collect")
    PROVE  /\ "order" \in Unary /\ "order" \in Ops /\ "order" \in Inner
           /\ InOpen("order") /\ KidsReady("order") /\ loc["order"] \in Seq(Tuples(mem))
           /\ IsTuple(ret) => ret \in Tuples(mem)
<1>1. "order" \in Unary
  BY DEF Unary
<1>2. "order" \in Inner /\ "order" \in Ops /\ (IsTuple(ret) => ret \in Tuples(mem))
  BY <1>1, UnaryIs DEF NextLabels
<1>3. InOpen("order") /\ KidsReady("order") /\ MayCapture("order", loc["order"], mem)
  BY <1>2, AtIs DEF Busy
<1> QED
  BY <1>1, <1>2, <1>3, MayCaptureIs

LEMMA OrderCollectStep ==
    ASSUME WellRun, OrderCollect
    PROVE  WellRun'
<1> DEFINE n == "order"
<1>1. /\ At(n, "collect") /\ UNCHANGED <<plan, left, right, mem, written>> /\ IsTuple(ret)
      /\ Captures(n, Append(loc[n], ret)) /\ Call(n, Kid(n), "next", "collect")
  BY DEF OrderCollect, tables, effects
<1>2. /\ n \in Unary /\ n \in Ops /\ n \in Inner /\ InOpen(n) /\ KidsReady(n)
      /\ loc[n] \in Seq(Tuples(mem)) /\ ret \in Tuples(mem)
  BY <1>1, OrderIs
<1>3. PICK w : w = Append(loc[n], ret)
  OBVIOUS
<1>4. w \in Seq(Tuples(mem))
  BY <1>2, <1>3
<1>5. MayCapture(n, w, mem')
  BY <1>1, <1>4, MayCaptureIs
<1>6. Keeps(n) /\ loc'[n] = w
  BY <1>1, <1>2, <1>3, <1>5, KeepsCaptured
<1> QED
  BY <1>1, <1>2, <1>5, <1>6, AsksKid

LEMMA SortStep ==
    ASSUME WellRun, Sort
    PROVE  WellRun'
<1> DEFINE n == "order"
<1>1. /\ At(n, "collect") /\ UNCHANGED <<plan, left, right, mem, written>> /\ Answer(n, Opened)
  BY DEF Sort, tables, effects
<1>2. /\ n \in Unary /\ n \in Ops /\ n \in Inner /\ InOpen(n) /\ KidsReady(n)
      /\ loc[n] \in Seq(Tuples(mem))
  BY <1>1, OrderIs
<1>3. at = n /\ n \in PlanOps
  BY <1>1, <1>2, UnaryIs
<1>4. PICK w \in Seq(Tuples(mem)) : Captures(n, w)
  <2>1. PICK p \in Bijection(DOMAIN loc["order"], DOMAIN loc["order"]) :
            Captures("order", [i \in DOMAIN loc["order"] |-> loc["order"][p[i]]])
    BY DEF Sort
  <2>2. PICK l : l = loc["order"]
    OBVIOUS
  <2>3. l \in Seq(Tuples(mem)) /\ p \in [DOMAIN l -> DOMAIN l]
    BY <1>2, <2>1, <2>2 DEF Bijection, Injection
  <2>4. DOMAIN l = 1 .. Len(l) /\ Len(l) \in Nat /\ \A i \in 1 .. Len(l) : l[i] \in Tuples(mem)
    BY <2>3
  <2>5. [i \in DOMAIN l |-> l[p[i]]] \in [1 .. Len(l) -> Tuples(mem)]
    BY <2>3, <2>4
  <2>6. [i \in DOMAIN l |-> l[p[i]]] \in Seq(Tuples(mem))
    BY <2>4, <2>5, FunctionSeq
  <2> QED
    BY <2>1, <2>2, <2>6
<1>5. MayCapture(n, w, mem')
  BY <1>1, MayCaptureIs
<1>6. Keeps(n) /\ loc'[n] = w /\ Ready(n)'
  BY <1>1, <1>2, <1>4, <1>5, KeepsCaptured
<1>7. MayCapture(n, loc'[n], mem')
  BY <1>5, <1>6
<1> QED
  BY <1>1, <1>2, <1>3, <1>6, <1>7, Answered

LEMMA OrderNextStep ==
    ASSUME WellRun, OrderNext
    PROVE  WellRun'
<1> DEFINE n == "order"
<1>1. At(n, "next") /\ UNCHANGED <<plan, left, right, mem, written>>
  BY DEF OrderNext, tables, effects
<1>2. n \in Unary /\ n \in Unguarded
  BY DEF Unary, Unguarded
<1>3. n \in Inner /\ n \in Ops /\ at = n /\ n \in PlanOps /\ pc[n] = "next"
  BY <1>1, <1>2, UnaryIs
<1>4. ~ InOpen(n) /\ MayCapture(n, loc[n], mem) /\ (loc[n] # Nil => KidsReady(n))
  BY <1>1, <1>2, <1>3, AtIs
<1>5. PICK l \in Seq(Tuples(mem)) : l = loc[n]
  BY <1>4, MayCaptureIs
<1>10. KidsReady(n)
  <2>1. Tuples(mem) \subseteq [arr : Nat, len : Nat]
    BY DEF Tuples
  <2>2. l \in Seq([arr : Nat, len : Nat])
    BY <2>1, SeqOfMore
  <2> QED
    BY <1>4, <1>5, <2>2, QueryAssumption
<1>6. PICK w \in Seq(Tuples(mem)), v \in Tuples(mem) \cup {Nil} : Captures(n, w) /\ Answer(n, v)
  <2>1. CASE l = <<>>
    BY <1>5, <2>1 DEF OrderNext
  <2>2. CASE l # <<>>
    <3>1. Tail(l) \in Seq(Tuples(mem)) /\ Head(l) \in Tuples(mem)
      BY <2>2
    <3>2. Captures(n, Tail(l)) /\ Answer(n, Head(l))
      BY <1>5, <2>2 DEF OrderNext
    <3> QED
      BY <3>1, <3>2
  <2> QED
    BY <2>1, <2>2
<1>7. MayCapture(n, w, mem')
  BY <1>1, MayCaptureIs
<1>8. Keeps(n) /\ loc'[n] = w
  BY <1>1, <1>3, <1>6, <1>7, KeepsCaptured
<1>9. IsTuple(v) => v \in Returned(n, mem')
  BY <1>1, <1>6, ReturnedIs DEF IsTuple
<1> QED
  BY <1>3, <1>4, <1>6, <1>7, <1>8, <1>9, <1>10, Answered DEF Busy

-----------------------------------------------------------------------------
(* EqualityJoin                                                            *)

\* A join that is about to take a step.
LEMMA JoinIs ==
    ASSUME WellRun, NEW label, At("join", label)
    PROVE  /\ "join" \in Ops /\ "join" \in Inner /\ "join" \in PlanOps /\ at = "join" /\ pc["join"] = label
           /\ plan \in Plans /\ mem \in Seq(Seq(Cells)) /\ plan.join
           /\ Kid("join") \in {"scanL", "filterL"} /\ RightKid \in {"scanR", "filterR"}
           /\ Callee("join") = IF label \in AtRight THEN RightKid ELSE Kid("join")
           /\ KidsReady("join") <=> Ready(Kid("join")) /\ Ready(RightKid)
           /\ InOpen("join") <=> label \in {"open", "opened", "openedRight", "first", "collect"}
           /\ loc["join"] # Nil \/ label \in Busy =>
                 /\ loc["join"] \in [leftTuple : IntTuples(mem, 2) \cup {Nil}]
                 /\ KidsReady("join")
           /\ label \in {"openedRight", "first"} => Ready(Kid("join"))
           /\ label = "first" => Ready(RightKid)
           /\ label \in OpenLabels => Ready(Callee("join"))
           /\ label \in NextLabels \ AtRight /\ IsTuple(ret) => ret \in IntTuples(mem, 2)
           /\ label \in NextLabels \cap AtRight /\ IsTuple(ret) => ret \in IntTuples(mem, 1)
<1>1. "join" \in Ops /\ "join" \notin Leaves
  BY DEF Ops, Leaves
<1>2. /\ at = "join" /\ pc["join"] = label /\ "join" \in PlanOps /\ "join" \in Inner
      /\ plan \in Plans /\ mem \in Seq(Seq(Cells))
      /\ InOpen("join") <=> label \in {"open", "opened", "openedRight", "first", "collect"}
      /\ loc["join"] = Nil \/ MayCapture("join", loc["join"], mem)
      /\ label \in Busy => MayCapture("join", loc["join"], mem)
      /\ loc["join"] # Nil \/ label \in Busy => KidsReady("join")
      /\ label \in OpenLabels => Ready(Callee("join"))
      /\ label \in NextLabels /\ IsTuple(ret) => ret \in Returned(Callee("join"), mem)
  BY <1>1, AtIs
<1>3. plan.join /\ Kid("join") \in {"scanL", "filterL"} /\ RightKid \in {"scanR", "filterR"}
  BY <1>2, KindsAre, PlanIs
<1>4. Callee("join") = IF label \in AtRight THEN RightKid ELSE Kid("join")
  BY <1>2 DEF Callee
<1>5. KidsReady("join") <=> Ready(Kid("join")) /\ Ready(RightKid)
  BY DEF KidsReady
<1>6. loc["join"] # Nil \/ label \in Busy => loc["join"] \in [leftTuple : IntTuples(mem, 2) \cup {Nil}]
  BY <1>2, MayCaptureIs
<1>7. /\ label \in {"openedRight", "first"} => Ready(Kid("join"))
      /\ label = "first" => Ready(RightKid)
  BY <1>2, <1>3 DEF WellRun, Control, OpenedFirst
<1>8. /\ label \in NextLabels \ AtRight /\ IsTuple(ret) => ret \in IntTuples(mem, 2)
      /\ label \in NextLabels \cap AtRight /\ IsTuple(ret) => ret \in IntTuples(mem, 1)
  BY <1>2, <1>3, <1>4, ReturnedIs
<1> QED
  BY <1>1, <1>2, <1>3, <1>4, <1>5, <1>6, <1>7, <1>8

\* It calls one of its inputs.
LEMMA JoinCalls ==
    ASSUME WellRun, NEW label, At("join", label), NEW c, NEW method \in {"open", "next"}, NEW resume,
           Call("join", c, method, resume), Keeps("join"),
           c = IF resume \in AtRight THEN RightKid ELSE Kid("join"),
           <<method, resume>> \in {<<"open", "opened">>, <<"open", "openedRight">>, <<"next", "first">>,
                                   <<"next", "right">>, <<"next", "left">>, <<"open", "reopened">>},
           InOpen("join") <=> resume \in {"opened", "openedRight", "first"},
           resume \in {"openedRight", "first"} => Ready(Kid("join")),
           resume = "first" => Ready(RightKid),
           resume \in Busy => MayCapture("join", loc'["join"], mem') /\ KidsReady("join"),
           loc'["join"] # Nil => loc["join"] # Nil \/ KidsReady("join")
    PROVE  WellRun'
<1>1. "join" \in Inner /\ at = "join" /\ (KidsReady("join") <=> Ready(Kid("join")) /\ Ready(RightKid))
  BY JoinIs
<1>2. method = "next" => Ready(c)
  BY <1>1 DEF Busy, AtRight
<1>3. /\ IF method = "open" THEN resume \in OpenLabels ELSE resume \in NextLabels
      /\ resume \in {"opened", "first", "left"} \cup AtRight
      /\ resume # "collect"
  BY DEF OpenLabels, NextLabels, AtRight
<1> QED
  BY <1>1, <1>2, <1>3, Called

LEMMA JoinOpenStep ==
    ASSUME WellRun, JoinOpen
    PROVE  WellRun'
<1>1. UNCHANGED <<plan, left, right, mem, loc, written>>
  BY DEF JoinOpen, tables, effects
<1>2. Keeps("join") /\ loc'["join"] = loc["join"]
  BY <1>1, KeepsSame
<1>3. PICK k, r : k = Kid("join") /\ r = RightKid
  OBVIOUS
<1>4. CASE At("join", "open") /\ Call("join", k, "open", "opened")
  <2>1. InOpen("join")
    BY <1>4, JoinIs
  <2> QED
    BY <1>2, <1>3, <1>4, <2>1, JoinCalls DEF AtRight, Busy
<1>5. CASE At("join", "opened") /\ Call("join", r, "open", "openedRight")
  <2>1. InOpen("join") /\ Ready(Callee("join")) /\ Callee("join") = Kid("join")
    BY <1>5, JoinIs DEF AtRight, OpenLabels
  <2> QED
    BY <1>2, <1>3, <1>5, <2>1, JoinCalls DEF AtRight, Busy
<1>6. CASE At("join", "openedRight") /\ Call("join", k, "next", "first")
  <2>1. InOpen("join") /\ Ready(Callee("join")) /\ Callee("join") = RightKid /\ Ready(Kid("join"))
    BY <1>6, JoinIs DEF AtRight, OpenLabels
  <2> QED
    BY <1>2, <1>3, <1>6, <2>1, JoinCalls DEF AtRight, Busy
<1> QED
  BY <1>3, <1>4, <1>5, <1>6 DEF JoinOpen

LEMMA JoinOpenedStep ==
    ASSUME WellRun, JoinOpened
    PROVE  WellRun'
<1>1. At("join", "first") /\ UNCHANGED <<plan, left, right, mem, written>>
  BY DEF JoinOpened, tables, effects
<1>2. /\ "join" \in Ops /\ "join" \in PlanOps /\ at = "join" /\ pc["join"] = "first"
      /\ InOpen("join") /\ KidsReady("join")
      /\ IsTuple(ret) => ret \in IntTuples(mem, 2)
  BY <1>1, JoinIs DEF NextLabels, AtRight
<1>3. PICK w, v : /\ w = IF IsTuple(ret) THEN [leftTuple |-> ret] ELSE Nil
                  /\ v = IF IsTuple(ret) THEN Opened ELSE Nil
  OBVIOUS
<1>4. Captures("join", w) /\ Answer("join", v)
  BY <1>3 DEF JoinOpened
<1>5. w = Nil \/ MayCapture("join", w, mem')
  <2>1. w = Nil \/ w \in [leftTuple : IntTuples(mem', 2) \cup {Nil}]
    BY <1>1, <1>2, <1>3
  <2> QED
    BY <2>1, MayCaptureIs
<1>6. Keeps("join") /\ Ready("join")'
  BY <1>1, <1>2, <1>4, <1>5, KeepsCaptured DEF Unguarded, Leaves
<1> QED
  BY <1>2, <1>4, <1>6, Answered DEF Busy

LEMMA JoinNextStep ==
    ASSUME WellRun, JoinNext
    PROVE  WellRun'
<1>1. At("join", "next") /\ loc["join"] # Nil /\ UNCHANGED <<plan, left, right, mem, loc, written>>
  BY DEF JoinNext, tables, effects
<1>2. KidsReady("join") /\ ~ InOpen("join") /\ loc["join"] \in [leftTuple : IntTuples(mem, 2) \cup {Nil}]
  BY <1>1, JoinIs
<1>3. Keeps("join") /\ MayCapture("join", loc'["join"], mem')
  BY <1>1, <1>2, KeepsSame, MayCaptureIs
<1>4. PICK r : r = RightKid
  OBVIOUS
<1>5. Call("join", r, "next", "right")
  BY <1>4 DEF JoinNext
<1> QED
  BY <1>1, <1>2, <1>3, <1>4, <1>5, JoinCalls DEF AtRight, Busy

LEMMA JoinRightStep ==
    ASSUME WellRun, JoinRight
    PROVE  WellRun'
<1>1. At("join", "right") /\ IsTuple(ret) /\ UNCHANGED <<plan, left, right, loc, written>>
  BY DEF JoinRight, tables, effects
<1>2. /\ "join" \in PlanOps /\ at = "join" /\ pc["join"] = "right" /\ mem \in Seq(Seq(Cells))
      /\ KidsReady("join") /\ ~ InOpen("join") /\ loc["join"] \in [leftTuple : IntTuples(mem, 2) \cup {Nil}]
      /\ ret \in IntTuples(mem, 1)
  BY <1>1, JoinIs DEF AtRight, NextLabels, Busy
<1>3. MayCapture("join", loc["join"], mem)
  BY <1>2, MayCaptureIs
<1>4. PICK t : t = loc["join"].leftTuple
  OBVIOUS
<1>5. CASE Answer("join", Nil) /\ mem' = mem
  <2>1. Keeps("join") /\ MayCapture("join", loc'["join"], mem')
    BY <1>1, <1>3, <1>5, KeepsSame
  <2> QED
    BY <1>2, <1>5, <2>1, Answered DEF IsTuple, Busy
<1>6. CASE Call("join", RightKid, "next", "right") /\ mem' = mem
  <2>1. Keeps("join") /\ MayCapture("join", loc'["join"], mem')
    BY <1>1, <1>3, <1>6, KeepsSame
  <2>2. PICK r : r = RightKid
    OBVIOUS
  <2>3. Call("join", r, "next", "right")
    BY <1>6, <2>2
  <2> QED
    BY <1>1, <1>2, <2>1, <2>2, <2>3, JoinCalls DEF AtRight, Busy
<1>7. CASE t # Nil /\ mem' = WithJoined(t, ret) /\ Answer("join", JoinTuples(t, ret))
  <2>1. t \in IntTuples(mem, 2)
    BY <1>2, <1>4, <1>7
  <2>2. PICK v : v = JoinTuples(t, ret)
    OBVIOUS
  <2>3. mem' \in Seq(Seq(Cells)) /\ Grows(mem, mem') /\ v \in IntTuples(mem', 2)
    BY <1>2, <1>7, <2>1, <2>2, JoinedMade
  <2>4. Keeps("join")
    BY <1>1, <2>3, KeepsSame
  <2>5. MayCapture("join", loc'["join"], mem')
    BY <1>1, <1>2, <1>3, <2>3, CaptureKept
  <2>6. v \in Returned("join", mem') /\ Answer("join", v)
    BY <1>7, <2>2, <2>3, ReturnedIs
  <2> QED
    BY <1>2, <2>4, <2>5, <2>6, Answered DEF Busy
<1> QED
  BY <1>4, <1>5, <1>6, <1>7 DEF JoinRight

LEMMA JoinRightDoneStep ==
    ASSUME WellRun, JoinRightDone
    PROVE  WellRun'
<1>1. At("join", "right") /\ UNCHANGED <<plan, left, right, mem, loc, written>>
  BY DEF JoinRightDone, tables, effects
<1>2. KidsReady("join") /\ ~ InOpen("join") /\ loc["join"] \in [leftTuple : IntTuples(mem, 2) \cup {Nil}]
  BY <1>1, JoinIs DEF Busy
<1>3. Keeps("join") /\ MayCapture("join", loc'["join"], mem')
  BY <1>1, <1>2, KeepsSame, MayCaptureIs
<1>4. PICK k : k = Kid("join")
  OBVIOUS
<1>5. Call("join", k, "next", "left")
  BY <1>4 DEF JoinRightDone
<1> QED
  BY <1>1, <1>2, <1>3, <1>4, <1>5, JoinCalls DEF AtRight, Busy

LEMMA JoinLeftStep ==
    ASSUME WellRun, JoinLeft
    PROVE  WellRun'
<1>1. At("join", "left") /\ UNCHANGED <<plan, left, right, mem, written>>
  BY DEF JoinLeft, tables, effects
<1>2. /\ "join" \in Ops /\ KidsReady("join") /\ ~ InOpen("join")
      /\ IsTuple(ret) => ret \in IntTuples(mem, 2)
  BY <1>1, JoinIs DEF Busy, NextLabels, AtRight
<1>3. PICK w : w = [leftTuple |-> IF IsTuple(ret) THEN ret ELSE Nil]
  OBVIOUS
<1>4. Captures("join", w)
  BY <1>3 DEF JoinLeft
<1>5. MayCapture("join", w, mem')
  <2>1. w \in [leftTuple : IntTuples(mem', 2) \cup {Nil}]
    BY <1>1, <1>2, <1>3
  <2> QED
    BY <2>1, MayCaptureIs
<1>6. Keeps("join") /\ loc'["join"] = w
  BY <1>1, <1>2, <1>4, <1>5, KeepsCaptured
<1>7. PICK r : r = RightKid
  OBVIOUS
<1>8. Call("join", r, "open", "reopened")
  BY <1>7 DEF JoinLeft
<1>9. MayCapture("join", loc'["join"], mem')
  BY <1>5, <1>6
<1> QED
  BY <1>1, <1>2, <1>6, <1>7, <1>8, <1>9, JoinCalls DEF AtRight, Busy

LEMMA JoinReopenedStep ==
    ASSUME WellRun, JoinReopened
    PROVE  WellRun'
<1>1. At("join", "reopened") /\ UNCHANGED <<plan, left, right, mem, loc, written>>
  BY DEF JoinReopened, tables, effects
<1>2. KidsReady("join") /\ ~ InOpen("join") /\ loc["join"] \in [leftTuple : IntTuples(mem, 2) \cup {Nil}]
  BY <1>1, JoinIs DEF Busy
<1>3. Keeps("join") /\ MayCapture("join", loc'["join"], mem')
  BY <1>1, <1>2, KeepsSame, MayCaptureIs
<1>4. PICK r : r = RightKid
  OBVIOUS
<1>5. Call("join", r, "next", "right")
  BY <1>4 DEF JoinReopened
<1> QED
  BY <1>1, <1>2, <1>3, <1>4, <1>5, JoinCalls DEF AtRight, Busy

-----------------------------------------------------------------------------
(* Aggregator                                                              *)

LEMMA AddTupleIs ==
    ASSUME NEW s \in AggStates, NEW v \in Int
    PROVE  AddTuple(s, v) \in AggStates
<1>1. s.count \in Nat /\ s.sum \in Int /\ s.max \in Int /\ s.min \in Int
  BY DEF AggStates
<1>2. MaxWith(s, v) \in Int /\ MinWith(s, v) \in Int
  BY <1>1 DEF MaxWith, MinWith
<1>3. Wrap(s.sum + v) \in Int
  <2>1. PICK i \in Int : i = s.sum + v
    BY <1>1
  <2> QED
    BY <2>1, WrapInt
<1> QED
  BY <1>1, <1>2, <1>3 DEF AddTuple, AggStates

LEMMA GroupedIs ==
    ASSUME WellRun, NEW t \in IntTuples(mem, 2), NEW groups \in Seq(AggGroups)
    PROVE  Grouped(groups, t) \in Seq(AggGroups)
<1>2. Field(t, 1) \in Int /\ Field(t, 2) \in Int
  BY DEF IntTuples, Field, Tuples
<1>3. GroupKey(t) \in Seq(Int)
  BY <1>2 DEF GroupKey
<1>4. NoTuples \in AggStates
  BY DEF NoTuples, AggStates
<1>5. PICK i : i = SelectInSeq(groups, LAMBDA g : g.key = GroupKey(t))
  OBVIOUS
<1>6. i = 0 \/ i \in 1 .. Len(groups)
  <2> DEFINE I == {j \in 1 .. Len(groups) : groups[j].key = GroupKey(t)}
  <2>1. i = IF I # {} THEN Min(I) ELSE 0
    BY <1>5 DEF SelectInSeq
  <2>2. I \subseteq 1 .. Len(groups) /\ I \in SUBSET Nat
    OBVIOUS
  <2>3. I # {} => Min(I) \in I
    <3> HIDE DEF I
    <3>1. I # {} => \E x \in I : \A y \in I : x <= y
      BY <2>2, LeastExists
    <3> QED
      BY <3>1 DEF Min
  <2> HIDE DEF I
  <2> QED
    BY <2>1, <2>2, <2>3
<1>7. CASE i = 0
  <2>1. Grouped(groups, t) = Append(groups, [key |-> GroupKey(t), state |-> AddTuple(NoTuples, Field(t, 2))])
    BY <1>5, <1>7 DEF Grouped
  <2>2. PICK s : s = AddTuple(NoTuples, Field(t, 2))
    OBVIOUS
  <2>3. [key |-> GroupKey(t), state |-> s] \in AggGroups
    BY <1>2, <1>3, <1>4, <2>2, AddTupleIs DEF AggGroups
  <2> QED
    BY <2>1, <2>2, <2>3
<1>8. CASE i \in 1 .. Len(groups)
  <2>1. Grouped(groups, t) = [groups EXCEPT ![i].state = AddTuple(@, Field(t, 2))]
    BY <1>5, <1>8 DEF Grouped
  <2>2. groups[i] \in AggGroups
    BY <1>8
  <2>3. groups[i].state \in AggStates
    BY <2>2 DEF AggGroups
  <2>4. PICK s : s = AddTuple(groups[i].state, Field(t, 2))
    OBVIOUS
  <2>5. s \in AggStates
    BY <1>2, <2>3, <2>4, AddTupleIs
  <2>6. PICK g : g = [groups[i] EXCEPT !.state = s]
    OBVIOUS
  <2>7. g \in AggGroups
    BY <2>2, <2>5, <2>6 DEF AggGroups
  <2>8. Grouped(groups, t) = [groups EXCEPT ![i] = g]
    BY <2>1, <2>4, <2>6
  <2>9. [groups EXCEPT ![i] = g] \in Seq(AggGroups)
    BY <1>8, <2>7
  <2> QED
    BY <2>8, <2>9
<1> QED
  BY <1>6, <1>7, <1>8

LEMMA FinalizeIs ==
    ASSUME NEW g \in AggGroups, g.state.count # 0
    PROVE  /\ Finalize(g) \in Seq(Cells) /\ Len(Finalize(g)) >= 2
           /\ \A i \in 1 .. Len(Finalize(g)) : Finalize(g)[i] \in Int
<1>1. /\ g.key \in Seq(Int) /\ g.state.count \in Nat /\ g.state.sum \in Int
      /\ g.state.max \in Int /\ g.state.min \in Int
  BY DEF AggGroups, AggStates
<1>2. Quotient(g.state.sum, g.state.count) \in Int
  <2>1. PICK a, b : a = g.state.sum /\ b = g.state.count
    OBVIOUS
  <2>2. a \in Int /\ b \in Int /\ b # 0
    BY <1>1, <2>1
  <2>3. Quotient(a, b) \in Int
    BY <2>2, QuotientInt
  <2> QED
    BY <2>1, <2>3
<1>3. PICK k, u : /\ k = g.key
                  /\ u = <<g.state.count, g.state.sum, Quotient(g.state.sum, g.state.count),
                           g.state.max, g.state.min>>
  OBVIOUS
<1>4. k \in Seq(Int) /\ u \in Seq(Int) /\ Len(u) = 5
  <2>1. ASSUME NEW a \in Int, NEW b \in Int, NEW c \in Int, NEW d \in Int, NEW e \in Int
        PROVE  <<a, b, c, d, e>> \in Seq(Int) /\ Len(<<a, b, c, d, e>>) = 5
    OBVIOUS
  <2>2. g.state.count \in Int
    BY <1>1
  <2> QED
    BY <1>1, <1>2, <1>3, <2>1, <2>2
<1>5. Finalize(g) = k \o u
  BY <1>3 DEF Finalize
<1>6. k \o u \in Seq(Int) /\ Len(k \o u) = Len(k) + Len(u)
  BY <1>4, ConcatIs
<1>7. Seq(Int) \subseteq Seq(Cells)
  BY SeqOfMore, CellsAre
<1>8. PICK s \in Seq(Int) : s = k \o u
  BY <1>6
<1>9. Len(s) >= 2 /\ \A i \in 1 .. Len(s) : s[i] \in Int
  <2>1. Len(k) \in Nat /\ Len(s) = Len(k) + Len(u)
    BY <1>4, <1>6, <1>8
  <2>2. Len(s) >= 2
    BY <1>4, <2>1
  <2>3. \A i \in 1 .. Len(s) : s[i] \in Int
    OBVIOUS
  <2> QED
    BY <2>2, <2>3
<1>10. s \in Seq(Cells) /\ Finalize(g) = s
  BY <1>5, <1>7, <1>8
<1> QED
  BY <1>9, <1>10

LEMMA AggOpenedStep ==
    ASSUME WellRun, AggOpened
    PROVE  WellRun'
<1> DEFINE n == "agg"
<1>1. At(n, "opened") /\ UNCHANGED <<plan, left, right, mem, written>>
  BY DEF AggOpened, tables, effects
<1>2. n \in Unary /\ n \notin Unguarded
  BY DEF Unary, Unguarded, Leaves
<1>3. /\ n \in Inner /\ n \in PlanOps /\ at = n /\ pc[n] = "opened" /\ n \in Ops
      /\ KidsReady(n) <=> Ready(Kid(n))
      /\ Callee(n) = Kid(n)
  BY <1>1, <1>2, UnaryIs
<1>4. InOpen(n) /\ Ready(Callee(n))
  BY <1>1, <1>3, AtIs DEF OpenLabels
<1>5. PICK gs, w, v :
        /\ gs = IF plan.agg = "all" THEN <<[key |-> <<>>, state |-> NoTuples]>> ELSE <<>>
        /\ w = IF ret = Nil THEN Nil ELSE [groups |-> gs, done |-> 0]
        /\ v = IF ret = Nil THEN Err ELSE Opened
  OBVIOUS
<1>6. Captures(n, w) /\ Answer(n, v)
  BY <1>5 DEF AggOpened
<1>7. MayCapture(n, w, mem') \/ w = Nil
  <2>1. [key |-> <<>>, state |-> NoTuples] \in AggGroups
    BY DEF AggGroups, NoTuples, AggStates
  <2>2. gs \in Seq(AggGroups)
    BY <1>5, <2>1
  <2>4. w = Nil \/ w \in [groups : Seq(AggGroups), done : Nat]
    BY <1>5, <2>2
  <2> QED
    BY <2>4, MayCaptureIs
<1>8. Keeps(n) /\ Ready(n)'
  BY <1>1, <1>2, <1>3, <1>6, <1>7, KeepsCaptured
<1> QED
  BY <1>1, <1>3, <1>4, <1>6, <1>8, Answered DEF Busy

\* An aggregator in its closure.
LEMMA AggIs ==
    ASSUME WellRun, At("agg", "got")
    PROVE  /\ "agg" \in Unary /\ "agg" \in Ops /\ "agg" \in Inner /\ ~ InOpen("agg") /\ KidsReady("agg")
           /\ loc["agg"] \in [groups : Seq(AggGroups), done : Nat] /\ MayCapture("agg", loc["agg"], mem)
           /\ mem \in Seq(Seq(Cells))
           /\ IsTuple(ret) => ret \in IntTuples(mem, 2)
<1>1. "agg" \in Unary
  BY DEF Unary
<1>2. "agg" \in Inner /\ "agg" \in Ops /\ Callee("agg") = Kid("agg") /\ plan \in Plans /\ mem \in Seq(Seq(Cells))
  BY <1>1, UnaryIs
<1>3. /\ ~ InOpen("agg") /\ KidsReady("agg") /\ MayCapture("agg", loc["agg"], mem)
      /\ IsTuple(ret) => ret \in Returned(Kid("agg"), mem)
  BY <1>2, AtIs DEF Busy, NextLabels
<1>4. Kid("agg") \in {"scanL", "filterL", "join"}
  BY <1>2, KindsAre
<1> QED
  BY <1>1, <1>2, <1>3, <1>4, MayCaptureIs, ReturnedIs

LEMMA AggAddStep ==
    ASSUME WellRun, AggAdd
    PROVE  WellRun'
<1> DEFINE n == "agg"
<1>1. /\ At(n, "got") /\ IsTuple(ret) /\ UNCHANGED <<plan, left, right, mem, written>>
      /\ Call(n, Kid(n), "next", "got")
  BY DEF AggAdd, tables, effects
<1>2. /\ n \in Unary /\ n \in Ops /\ ~ InOpen(n) /\ KidsReady(n)
      /\ loc[n] \in [groups : Seq(AggGroups), done : Nat] /\ ret \in IntTuples(mem, 2)
  BY <1>1, AggIs
<1>3. PICK gs : gs = Grouped(loc[n].groups, ret)
  OBVIOUS
<1>4. gs \in Seq(AggGroups)
  BY <1>2, <1>3, GroupedIs
<1>5. PICK w : w = [loc[n] EXCEPT !.groups = gs]
  OBVIOUS
<1>6. Captures(n, w)
  BY <1>3, <1>5 DEF AggAdd
<1>7. w \in [groups : Seq(AggGroups), done : Nat]
  BY <1>2, <1>4, <1>5
<1>8. MayCapture(n, w, mem')
  BY <1>7, MayCaptureIs
<1>9. Keeps(n) /\ loc'[n] = w
  BY <1>1, <1>2, <1>6, <1>8, KeepsCaptured
<1> QED
  BY <1>1, <1>2, <1>8, <1>9, AsksKid

LEMMA AggFailsStep ==
    ASSUME WellRun, AggFails
    PROVE  WellRun'
<1>1. At("agg", "got") /\ Answer("agg", Err) /\ UNCHANGED <<plan, left, right, mem, loc, written>>
  BY DEF AggFails, tables, effects
<1>2. "agg" \in Unary /\ MayCapture("agg", loc["agg"], mem)
  BY <1>1, AggIs
<1>3. Keeps("agg") /\ MayCapture("agg", loc'["agg"], mem')
  BY <1>1, <1>2, KeepsSame
<1> QED
  BY <1>1, <1>2, <1>3, AnswersUp DEF IsTuple

LEMMA AggResultStep ==
    ASSUME WellRun, AggResult
    PROVE  WellRun'
<1> DEFINE n == "agg"
<1>1. At(n, "got") /\ UNCHANGED <<plan, left, right, written>>
  BY DEF AggResult, tables
<1>2. /\ n \in Unary /\ n \in Ops /\ MayCapture(n, loc[n], mem) /\ mem \in Seq(Seq(Cells))
      /\ loc[n] \in [groups : Seq(AggGroups), done : Nat]
  BY <1>1, AggIs
<1>3. PICK i, g : i = loc[n].done + 1 /\ g = loc[n].groups[i]
  OBVIOUS
<1>4. \/ Answer(n, Nil) /\ UNCHANGED <<mem, loc, status>>
      \/ Crash
      \/ /\ ~ (i > Len(loc[n].groups)) /\ g.state.count # 0
         /\ mem' = WithNewTuple(Finalize(g))
         /\ Captures(n, [loc[n] EXCEPT !.done = i])
         /\ Answer(n, NewTuple(Finalize(g)))
  BY <1>3 DEF AggResult
<1>5. CASE Answer(n, Nil) /\ UNCHANGED <<mem, loc, status>>
  <2>1. Keeps(n) /\ MayCapture(n, loc'[n], mem')
    BY <1>1, <1>2, <1>5, KeepsSame
  <2> QED
    BY <1>1, <1>2, <1>5, <2>1, AnswersUp DEF IsTuple
<1>6. CASE Crash
  BY <1>1, <1>6, WellRunKept DEF Crash, control
<1>7. CASE /\ ~ (i > Len(loc[n].groups)) /\ g.state.count # 0
           /\ mem' = WithNewTuple(Finalize(g))
           /\ Captures(n, [loc[n] EXCEPT !.done = i])
           /\ Answer(n, NewTuple(Finalize(g)))
  <2>1. PICK gs : gs = loc[n].groups
    OBVIOUS
  <2>2. gs \in Seq(AggGroups) /\ i \in Nat /\ i >= 1
    BY <1>2, <1>3, <2>1
  <2>3. g \in AggGroups
    BY <1>3, <1>7, <2>1, <2>2
  <2>4. PICK fields : fields = Finalize(g)
    OBVIOUS
  <2>5. fields \in Seq(Cells) /\ Len(fields) >= 2 /\ \A j \in 1 .. Len(fields) : fields[j] \in Int
    BY <1>7, <2>3, <2>4, FinalizeIs
  <2>6. PICK v : v = NewTuple(fields)
    OBVIOUS
  <2>7. mem' = WithNewTuple(fields) /\ Answer(n, v)
    BY <1>7, <2>4, <2>6
  <2>8. mem' \in Seq(Seq(Cells)) /\ Grows(mem, mem') /\ v \in IntTuples(mem', 2)
    <3>1. /\ WithNewTuple(fields) \in Seq(Seq(Cells)) /\ Grows(mem, WithNewTuple(fields))
          /\ NewTuple(fields) \in IntTuples(WithNewTuple(fields), 2)
      BY <1>2, <2>5, NewTupleMade
    <3> QED
      BY <2>6, <2>7, <3>1
  <2>9. PICK w : w = [loc[n] EXCEPT !.done = i]
    OBVIOUS
  <2>10. w \in [groups : Seq(AggGroups), done : Nat]
    BY <1>2, <2>2, <2>9
  <2>11. MayCapture(n, w, mem')
    BY <2>10, MayCaptureIs
  <2>12. Captures(n, w)
    BY <1>7, <2>9
  <2>13. Keeps(n) /\ loc'[n] = w
    BY <1>1, <1>2, <2>8, <2>11, <2>12, KeepsCaptured
  <2>14. v \in Returned(n, mem')
    BY <2>8, ReturnedIs
  <2> QED
    BY <1>1, <1>2, <2>7, <2>11, <2>13, <2>14, AnswersUp
<1> QED
  BY <1>4, <1>5, <1>6, <1>7

-----------------------------------------------------------------------------
(* Writes and the client                                                   *)

\* An INSERT or a DELETE in its closure.
LEMMA WriterIs ==
    ASSUME WellRun, NEW n \in Writers, At(n, "got")
    PROVE  /\ n \in Unary /\ n \in Ops /\ ~ InOpen(n) /\ KidsReady(n)
           /\ loc[n] \in Nat /\ MayCapture(n, loc[n], mem)
           /\ IsTuple(ret) => ret \in Tuples(mem)
<1>1. n \in Unary
  BY DEF Unary
<1>2. n \in Inner /\ n \in Ops /\ (IsTuple(ret) => ret \in Tuples(mem))
  BY <1>1, UnaryIs DEF NextLabels
<1>3. ~ InOpen(n) /\ KidsReady(n) /\ MayCapture(n, loc[n], mem)
  BY <1>2, AtIs DEF Busy
<1> QED
  BY <1>1, <1>2, <1>3, MayCaptureIs

LEMMA WriteStep ==
    ASSUME WellRun, NEW n \in Writers, Write(n)
    PROVE  WellRun'
<1>1. /\ At(n, "got") /\ IsTuple(ret) /\ UNCHANGED <<plan, left, right, mem>>
      /\ written' = Append(written, ret) /\ Captures(n, loc[n] + 1) /\ Call(n, Kid(n), "next", "got")
  BY DEF Write, tables
<1>2. n \in Unary /\ n \in Ops /\ ~ InOpen(n) /\ KidsReady(n) /\ loc[n] \in Nat /\ ret \in Tuples(mem)
  BY <1>1, WriterIs
<1>3. PICK w \in Nat : w = loc[n] + 1
  BY <1>2
<1>4. MayCapture(n, w, mem')
  BY MayCaptureIs
<1>5. written' \in Seq(Tuples(mem'))
  <2>1. written \in Seq(Tuples(mem))
    BY DEF WellRun, QueryTypes
  <2>2. Append(written, ret) \in Seq(Tuples(mem))
    BY <1>2, <2>1
  <2> QED
    BY <1>1, <2>2
<1>6. Captures(n, w)
  BY <1>1, <1>3
<1>7. Keeps(n) /\ loc'[n] = w
  BY <1>1, <1>2, <1>4, <1>5, <1>6, KeepsCaptured
<1> QED
  BY <1>1, <1>2, <1>4, <1>7, AsksKid

LEMMA WriteFailsStep ==
    ASSUME WellRun, NEW n \in Writers, WriteFails(n)
    PROVE  WellRun'
<1>1. At(n, "got") /\ Answer(n, Err) /\ UNCHANGED <<plan, left, right, mem, loc, written>>
  BY DEF WriteFails, tables
<1>2. n \in Unary /\ MayCapture(n, loc[n], mem)
  BY <1>1, WriterIs
<1>3. Keeps(n) /\ MayCapture(n, loc'[n], mem')
  BY <1>1, <1>2, KeepsSame
<1> QED
  BY <1>1, <1>2, <1>3, AnswersUp DEF IsTuple

LEMMA WriteCountStep ==
    ASSUME WellRun, NEW n \in Writers, WriteCount(n)
    PROVE  WellRun'
<1>1. At(n, "got") /\ Answer(n, [count |-> loc[n]]) /\ UNCHANGED <<plan, left, right, mem, loc, written>>
  BY DEF WriteCount, tables, effects
<1>2. n \in Unary /\ MayCapture(n, loc[n], mem) /\ loc[n] \in Nat
  BY <1>1, WriterIs
<1>3. Keeps(n) /\ MayCapture(n, loc'[n], mem')
  BY <1>1, <1>2, KeepsSame
<1>4. PICK v \in [count : Nat] : v = [count |-> loc[n]]
  BY <1>2
<1>5. v \in Returned(n, mem') /\ Answer(n, v)
  BY <1>1, <1>4, ReturnedIs
<1> QED
  BY <1>1, <1>2, <1>3, <1>5, AnswersUp

LEMMA NilCallStep ==
    ASSUME WellRun, NEW n, NilCall(n)
    PROVE  WellRun'
  BY WellRunKept DEF NilCall, Crash, control, tables

\* The client asks for the next row.
LEMMA ClientCalls ==
    ASSUME WellRun, NEW label \in {"opened", "row"}, At("client", label), Call("client", Top, "next", "row"),
           UNCHANGED <<plan, left, right, mem, loc, written>>
    PROVE  WellRun'
<1>1. at = "client" /\ pc["client"] = label
  BY DEF At
<1>2. Ready(Top)
  <2>1. CASE label = "opened"
    <3>1. Callee("client") = Top
      BY DEF Callee
    <3>2. Ready(Callee("client"))
      BY <1>1, <2>1 DEF WellRun, Control, AnswersFit, OpenLabels
    <3> QED
      BY <3>1, <3>2
  <2>2. CASE label = "row"
    BY <1>1, <2>2 DEF WellRun, Control, OpenedFirst
  <2> QED
    BY <2>1, <2>2
<1>3. Keeps("client")
  BY KeepsSame
<1>4. PICK c : c = Top
  OBVIOUS
<1>5. Ready(c) /\ Call("client", c, "next", "row")
  BY <1>2, <1>4
<1> QED
  BY <1>1, <1>3, <1>4, <1>5, Called DEF NextLabels

LEMMA ClientOpenedStep ==
    ASSUME WellRun, ClientOpened
    PROVE  WellRun'
<1>1. At("client", "opened") /\ UNCHANGED <<plan, left, right, mem, loc, written>>
  BY DEF ClientOpened, tables
<1>2. CASE UNCHANGED <<control, ret>>
  BY <1>1, <1>2, WellRunKept DEF control
<1>3. CASE Call("client", Top, "next", "row")
  BY <1>1, <1>3, ClientCalls
<1> QED
  BY <1>2, <1>3 DEF ClientOpened

LEMMA ClientPrintsStep ==
    ASSUME WellRun, ClientPrints
    PROVE  WellRun'
<1>1. At("client", "row") /\ UNCHANGED <<plan, left, right, mem, loc, written>>
  BY DEF ClientPrints, tables
<1>2. CASE UNCHANGED <<control, ret>>
  BY <1>1, <1>2, WellRunKept DEF control
<1>3. CASE Call("client", Top, "next", "row")
  BY <1>1, <1>3, ClientCalls
<1> QED
  BY <1>2, <1>3 DEF ClientPrints

LEMMA ClientEndsStep ==
    ASSUME WellRun, ClientEnds
    PROVE  WellRun'
  BY WellRunKept DEF ClientEnds, control, tables

-----------------------------------------------------------------------------
(* The initial states                                                      *)

LEMMA TableMade ==
    ASSUME NEW l \in Seq(Seq(Int)), NEW r \in Seq(Seq(Int)), NEW w \in {1, 2},
           NEW m, m = [i \in 1 .. Len(l) + Len(r) |->
                         LET row == (l \o r)[i] IN Array(row, GrownFor(Len(row)))]
    PROVE  /\ m \in Seq(Seq(Cells))
           /\ (\A i \in DOMAIN l : Len(l[i]) >= w)
                 => [i \in DOMAIN l |-> [arr |-> i, len |-> Len(l[i])]] \in Seq(IntTuples(m, w))
           /\ (\A i \in DOMAIN r : Len(r[i]) >= w)
                 => [i \in DOMAIN r |-> [arr |-> Len(l) + i, len |-> Len(r[i])]] \in Seq(IntTuples(m, w))
<1> DEFINE k == Len(l) + Len(r)
<1>1. PICK rows \in Seq(Seq(Int)) : rows = l \o r
  BY ConcatIs
<1>2. Len(l) \in Nat /\ Len(r) \in Nat /\ k \in Nat
  OBVIOUS
<1>3. Len(rows) = k /\ \A i \in 1 .. k : rows[i] = IF i <= Len(l) THEN l[i] ELSE r[i - Len(l)]
  BY <1>1, ConcatIs
<1>4. \A i \in 1 .. k : /\ rows[i] \in Seq(Int) /\ m[i] \in Seq(Cells)
                        /\ Len(rows[i]) <= Len(m[i])
                        /\ \A f \in 1 .. Len(rows[i]) : m[i][f] = rows[i][f]
  <2> SUFFICES ASSUME NEW i \in 1 .. k
               PROVE  /\ rows[i] \in Seq(Int) /\ m[i] \in Seq(Cells)
                      /\ Len(rows[i]) <= Len(m[i])
                      /\ \A f \in 1 .. Len(rows[i]) : m[i][f] = rows[i][f]
    OBVIOUS
  <2>1. PICK row \in Seq(Int) : row = rows[i]
    BY <1>3
  <2>2. row \in Seq(Cells)
    BY SeqOfMore, CellsAre
  <2>3. GrownFor(Len(row)) \in Nat
    BY GrownForNat
  <2>4. m[i] = Array(row, GrownFor(Len(row)))
    BY <1>1, <2>1
  <2>5. PICK cap \in Nat : cap = GrownFor(Len(row))
    BY <2>3
  <2>6. /\ Array(row, cap) \in Seq(Cells) /\ Len(row) <= Len(Array(row, cap))
        /\ \A f \in 1 .. Len(row) : Array(row, cap)[f] = row[f]
    BY <2>2, ArrayIs
  <2>7. m[i] = Array(row, cap)
    BY <2>4, <2>5
  <2> QED
    BY <2>1, <2>6, <2>7
<1>5. m \in Seq(Seq(Cells)) /\ Len(m) = k
  <2>1. m \in [1 .. k -> Seq(Cells)]
    BY <1>4
  <2> QED
    BY <1>2, <2>1, FunctionSeq
<1>6. ASSUME NEW i \in 1 .. k, Len(rows[i]) >= w
      PROVE  [arr |-> i, len |-> Len(rows[i])] \in IntTuples(m, w)
  <2>1. PICK t : t = [arr |-> i, len |-> Len(rows[i])]
    OBVIOUS
  <2>2. t.arr = i /\ t.len = Len(rows[i]) /\ Len(rows[i]) \in Nat
    BY <1>4, <2>1
  <2>3. t \in [arr : 1 .. Len(m), len : Nat]
    BY <1>5, <2>1, <2>2
  <2>4. \A f \in 1 .. t.len : m[t.arr][f] \in Int /\ m[t.arr][f] # Nil
    <3> SUFFICES ASSUME NEW f \in 1 .. Len(rows[i]) PROVE m[i][f] \in Int /\ m[i][f] # Nil
      BY <2>2
    <3>1. rows[i] \in Seq(Int) /\ m[i][f] = rows[i][f]
      BY <1>4
    <3>2. rows[i][f] \in Int
      BY <3>1
    <3> QED
      BY <3>1, <3>2, CellsAre
  <2> QED
    BY <1>4, <1>6, <2>1, <2>2, <2>3, <2>4 DEF IntTuples, Tuples
<1>7. ASSUME \A i \in DOMAIN l : Len(l[i]) >= w
      PROVE  [i \in DOMAIN l |-> [arr |-> i, len |-> Len(l[i])]] \in Seq(IntTuples(m, w))
  <2>1. \A i \in 1 .. Len(l) : [arr |-> i, len |-> Len(l[i])] \in IntTuples(m, w)
    <3> SUFFICES ASSUME NEW i \in 1 .. Len(l) PROVE [arr |-> i, len |-> Len(l[i])] \in IntTuples(m, w)
      OBVIOUS
    <3>1. i \in 1 .. k /\ rows[i] = l[i] /\ Len(l[i]) >= w
      BY <1>2, <1>3, <1>7
    <3> QED
      BY <1>6, <3>1
  <2>2. [i \in DOMAIN l |-> [arr |-> i, len |-> Len(l[i])]] \in [1 .. Len(l) -> IntTuples(m, w)]
    <3>1. DOMAIN l = 1 .. Len(l) /\ DOMAIN r = 1 .. Len(r)
      OBVIOUS
    <3> QED
      BY <2>1, <3>1
  <2> QED
    BY <1>2, <2>2, FunctionSeq
<1>8. ASSUME \A i \in DOMAIN r : Len(r[i]) >= w
      PROVE  [i \in DOMAIN r |-> [arr |-> Len(l) + i, len |-> Len(r[i])]] \in Seq(IntTuples(m, w))
  <2>1. \A i \in 1 .. Len(r) : [arr |-> Len(l) + i, len |-> Len(r[i])] \in IntTuples(m, w)
    <3> SUFFICES ASSUME NEW i \in 1 .. Len(r) PROVE [arr |-> Len(l) + i, len |-> Len(r[i])] \in IntTuples(m, w)
      OBVIOUS
    <3>1. Len(l) + i \in 1 .. k /\ ~ (Len(l) + i <= Len(l)) /\ Len(l) + i - Len(l) = i
      BY <1>2
    <3>2. rows[Len(l) + i] = r[i]
      <4>1. PICK j \in 1 .. k : j = Len(l) + i
        BY <3>1
      <4>2. ~ (j <= Len(l)) /\ j - Len(l) = i
        BY <3>1, <4>1
      <4>3. rows[j] = r[j - Len(l)]
        BY <1>3, <4>2
      <4> QED
        BY <4>1, <4>2, <4>3
    <3>3. Len(r[i]) >= w
      BY <1>8
    <3> QED
      BY <1>6, <3>1, <3>2, <3>3
  <2>2. [i \in DOMAIN r |-> [arr |-> Len(l) + i, len |-> Len(r[i])]] \in [1 .. Len(r) -> IntTuples(m, w)]
    <3>1. DOMAIN l = 1 .. Len(l) /\ DOMAIN r = 1 .. Len(r)
      OBVIOUS
    <3> QED
      BY <2>1, <3>1
  <2> QED
    BY <1>2, <2>2, FunctionSeq
<1> QED
  BY <1>5, <1>7, <1>8

LEMMA InitWellRun ==
    ASSUME Init
    PROVE  WellRun
<1>1. /\ plan \in Plans /\ at = Top /\ ret = Nil /\ written = <<>> /\ loc = [n \in Ops |-> Nil]
      /\ pc = [n \in Ops \cup {"client"} |-> IF n = "client" THEN "opened" ELSE "open"]
  BY DEF Init
<1>2. Top \in PlanOps \ {"scanR", "filterR"} /\ PlanOps \subseteq Ops /\ "client" \notin Ops /\ Inner \subseteq Ops
  BY <1>1, TopIs, SpineIs DEF Ops, Inner
<1>3. /\ pc["client"] = "opened" /\ \A n \in Ops : pc[n] = "open" /\ loc[n] = Nil
      /\ \A n \in Ops : InOpen(n)
  BY <1>1, <1>2 DEF InOpen
<1>4. QueryTypes
  <2>1. PICK l \in Lefts, r \in Rights :
          /\ mem = [i \in 1 .. Len(l) + Len(r) |->
                      LET row == (l \o r)[i] IN Array(row, GrownFor(Len(row)))]
          /\ left = [i \in DOMAIN l |-> [arr |-> i, len |-> Len(l[i])]]
          /\ right = [i \in DOMAIN r |-> [arr |-> Len(l) + i, len |-> Len(r[i])]]
    BY DEF Init
  <2>2. /\ l \in Seq(Seq(Int)) /\ r \in Seq(Seq(Int))
        /\ \A i \in DOMAIN l : Len(l[i]) >= 2
        /\ \A i \in DOMAIN r : Len(r[i]) >= 1
    <3>1. /\ l \in Seq(Seq(Int)) /\ r \in Seq(Seq(Int))
          /\ \A i \in DOMAIN l : Len(l[i]) > 1
          /\ \A i \in DOMAIN r : Len(r[i]) > 0
      BY QueryAssumption
    <3>2. (\A i \in DOMAIN l : Len(l[i]) \in Nat) /\ (\A i \in DOMAIN r : Len(r[i]) \in Nat)
      BY <3>1
    <3> QED
      BY <3>1, <3>2
  <2>3. mem \in Seq(Seq(Cells)) /\ left \in Seq(IntTuples(mem, 2))
    BY <2>1, <2>2, TableMade
  <2>4. right \in Seq(IntTuples(mem, 1))
    BY <2>1, <2>2, TableMade
  <2> QED
    BY <1>1, <1>2, <2>3, <2>4 DEF QueryTypes
<1>5. Captured
  BY <1>3 DEF Captured
<1>6. CallsMatched
  <2>1. Callee("client") = Top
    BY DEF Callee
  <2> QED
    BY <1>2, <1>3, <2>1 DEF CallsMatched, OpenLabels, NextLabels
<1>7. SidesMatched
  <2>1. plan.join => Top \notin {"scanL", "values", "filterL"}
    BY <1>1, <1>2, JoinAbove
  <2> QED
    BY <1>1, <1>2, <2>1 DEF SidesMatched
<1>8. OpenedFirst
  <2>1. plan.join => pc["join"] = "open"
    BY <1>3 DEF Ops
  <2> QED
    BY <1>2, <1>3, <2>1 DEF OpenedFirst, Busy
<1>9. AnswersFit
  BY <1>1, <1>2, <1>3 DEF AnswersFit, OpenLabels, NextLabels
<1> QED
  BY <1>4, <1>5, <1>6, <1>7, <1>8, <1>9 DEF WellRun, Control

-----------------------------------------------------------------------------

LEMMA NextWellRun ==
    ASSUME WellFormedList, WellRun, [Next]_vars
    PROVE  WellRun'
<1>1. CASE UNCHANGED vars
  BY <1>1, WellRunKept DEF vars, tables, control, effects
<1>2. CASE Next
  <2>1. ASSUME NEW n \in {"scanL", "scanR", "values"}, ScanOpen(n) PROVE WellRun'
    BY <2>1, ScanOpenStep DEF Leaves
  <2>2. ASSUME NEW n \in {"scanL", "scanR"}, ScanNext(n) \/ ScanFails(n) PROVE WellRun'
    BY <2>2, ScanNextStep, ScanFailsStep
  <2>3. ASSUME NEW n \in {"filterL", "filterR", "project", "order", "limit", "agg"} \cup Writers, OpenKid(n)
        PROVE  WellRun'
    BY <2>3, OpenKidStep DEF Unary
  <2>4. ASSUME NEW n \in {"filterL", "filterR", "project", "limit"} \cup Writers, KidOpened(n) PROVE WellRun'
    BY <2>4, KidOpenedStep
  <2>5. ASSUME NEW n \in {"filterL", "filterR", "project", "agg"} \cup Writers, NextOfKid(n) PROVE WellRun'
    <3>1. n \in Unary
      BY DEF Unary
    <3> QED
      BY <2>5, <3>1, NextOfKidStep DEF NextOfKid, tables, effects
  <2>6. ASSUME NEW n \in {"filterL", "filterR"}, FilterGot(n) PROVE WellRun'
    BY <2>6, FilterGotStep
  <2>7. CASE ValuesNext \/ ProjectGot \/ LimitNext \/ LimitGot
    BY <2>7, ValuesNextStep, ProjectGotStep, LimitNextStep, LimitGotStep
  <2>8. CASE OrderOpened \/ OrderCollect \/ Sort \/ OrderNext
    BY <2>8, OrderOpenedStep, OrderCollectStep, SortStep, OrderNextStep
  <2>9. CASE JoinOpen \/ JoinOpened \/ JoinNext \/ JoinRight \/ JoinRightDone \/ JoinLeft \/ JoinReopened
    BY <2>9, JoinOpenStep, JoinOpenedStep, JoinNextStep, JoinRightStep, JoinRightDoneStep,
       JoinLeftStep, JoinReopenedStep
  <2>10. CASE AggOpened \/ AggAdd \/ AggFails \/ AggResult
    BY <2>10, AggOpenedStep, AggAddStep, AggFailsStep, AggResultStep
  <2>11. ASSUME NEW n \in Writers, Write(n) \/ WriteFails(n) \/ WriteCount(n) PROVE WellRun'
    BY <2>11, WriteStep, WriteFailsStep, WriteCountStep
  <2>12. ASSUME NEW n \in {"join", "agg"}, NilCall(n) PROVE WellRun'
    BY <2>12, NilCallStep
  <2>13. CASE ClientOpened \/ ClientPrints \/ ClientEnds
    BY <2>13, ClientOpenedStep, ClientPrintsStep, ClientEndsStep
  <2> QED
    BY <1>2, <2>1, <2>2, <2>3, <2>4, <2>5, <2>6, <2>7, <2>8, <2>9, <2>10, <2>11, <2>12, <2>13 DEF Next
<1> QED
  BY <1>1, <1>2

\* The plan of a statement does not change while it runs.
LEMMA PlanFixed ==
    ASSUME [Next]_vars
    PROVE  plan' = plan
<1>1. CASE UNCHANGED vars
  BY <1>1 DEF vars, tables
<1>2. CASE Next
  BY <1>2 DEF Next, tables, ScanOpen, ScanNext, ScanFails, ValuesNext, OpenKid, KidOpened, NextOfKid, FilterGot,
       ProjectGot, LimitNext, LimitGot, OrderOpened, OrderCollect, Sort, OrderNext, JoinOpen, JoinOpened,
       JoinNext, JoinRight, JoinRightDone, JoinLeft, JoinReopened, AggOpened, AggAdd, AggFails, AggResult,
       Write, WriteFails, WriteCount, NilCall, ClientOpened, ClientPrints, ClientEnds
<1> QED
  BY <1>1, <1>2

\* InsertsHaveValues, for every table, plan, expression and number of failing
\* calls: whatever the operators of a statement do, the tuples given to
\* insertTuple have no empty field, unless the select list has an ill-formed
\* expression.
THEOREM InsertedRowsAreWhole == Spec => []InsertsHaveValues
<1>1. Init => QueryInv
  BY InitWellRun DEF QueryInv
<1>2. QueryInv /\ [Next]_vars => QueryInv'
  <2> SUFFICES ASSUME QueryInv, [Next]_vars, WellFormedList' PROVE WellRun'
    BY DEF QueryInv
  <2>1. plan' = plan
    BY PlanFixed
  <2>2. WellFormedList
    BY <2>1 DEF WellFormedList
  <2> QED
    BY <2>2, NextWellRun DEF QueryInv
<1>3. QueryInv => InsertsHaveValues
  <2> SUFFICES ASSUME QueryInv, WellFormedList, NEW i \in DOMAIN written PROVE Nil \notin Range(Value(written[i]))
    BY DEF InsertsHaveValues, WellFormedList
  <2>1. mem \in Seq(Seq(Cells)) /\ written \in Seq(Tuples(mem))
    BY DEF QueryInv, WellRun, QueryTypes
  <2>2. PICK t \in Tuples(mem) : t = written[i]
    BY <2>1
  <2>3. PICK v : v = Value(t)
    OBVIOUS
  <2>4. v \in Seq(Cells) /\ Len(v) = t.len /\ \A f \in 1 .. t.len : v[f] = mem[t.arr][f]
    BY <2>1, <2>3, ValueIs DEF Value
  <2>5. \A f \in 1 .. t.len : mem[t.arr][f] # Nil
    BY DEF Tuples
  <2>6. DOMAIN v = 1 .. t.len
    BY <2>4
  <2> QED
    BY <2>2, <2>3, <2>4, <2>5, <2>6 DEF Range
<1> QED
  BY <1>1, <1>2, <1>3, PTL DEF Spec
=============================================================================
