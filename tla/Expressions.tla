----------------------------- MODULE Expressions -----------------------------
(***************************************************************************)
(* Expressions of GoDB (godb/exprs.go) over rows of integers.  An          *)
(* expression is a field [kind, field], a constant [kind, type, value] or  *)
(* a function [kind, op, args] of expressions; functions are nested up to  *)
(* two deep.  A string is known by its length, [len].  The functions of    *)
(* dates, epoch and rand, which ask the clock or the runtime, are left out.*)
(***************************************************************************)
EXTENDS Integers, Sequences

CONSTANTS
    Err,     \* an error instead of a value
    Panic,   \* the program panics
    MaxInt   \* the largest integer, 2^63 - 1 in the code

ASSUME MaxIntAssumption == MaxInt \in Nat

Failed(v) == v \in {Err, Panic}

\* int64 arithmetic
Wrap(i) == ((i + MaxInt + 1) % (2 * (MaxInt + 1))) - (MaxInt + 1)

Abs(i) == IF i < 0 THEN -i ELSE i

\* Go's division of integers truncates.
Quotient(a, b) == IF (a < 0) = (b < 0) THEN Abs(a) \div Abs(b) ELSE -(Abs(a) \div Abs(b))

-----------------------------------------------------------------------------
(* The table funcs                                                         *)

Binary == {"+", "-", "*", "/", "mod", "imin", "imax"}
Funcs == Binary \cup {"sq", "getsubstr"}

ArgTypes(op) ==
    CASE op \in Binary     -> <<"int", "int">>
      [] op = "sq"         -> <<"int">>
      [] op = "getsubstr"  -> <<"string", "int", "int">>

OutType(op) == IF op = "getsubstr" THEN "string" ELSE "int"

\* A slice s[start:end] with end before start panics; the sum may wrap.
SubStr(s, start, numChars) ==
    CASE start < 0 \/ start > s.len -> [len |-> 0]
      [] start \in 0 .. s.len /\ Wrap(start + numChars) > s.len -> [len |-> s.len - start]
      [] OTHER -> IF Wrap(start + numChars) < start THEN Panic ELSE [len |-> numChars]

MinFunc(a) == IF a[1] < a[2] THEN a[1] ELSE a[2]
MaxFunc(a) == IF a[1] >= a[2] THEN a[1] ELSE a[2]

\* The function of a table entry, applied.
Apply(op, a) ==
    CASE op = "+"    -> Wrap(a[1] + a[2])
      [] op = "-"    -> Wrap(a[1] - a[2])
      [] op = "*"    -> Wrap(a[1] * a[2])
      [] op = "/"    -> IF a[2] = 0 THEN Panic ELSE Wrap(Quotient(a[1], a[2]))
      [] op = "mod"  -> IF a[2] = 0 THEN Panic ELSE a[1] - a[2] * Quotient(a[1], a[2])
      [] op = "imin" -> MinFunc(a)
      [] op = "imax" -> MaxFunc(a)
      [] op = "sq"   -> Wrap(a[1] * a[1])
      [] op = "getsubstr" -> SubStr(a[1], a[2], a[3])

-----------------------------------------------------------------------------
(* GetExprType and EvalExpr                                                *)

\* A function that does not exist counts as an integer.
GetExprType(e) ==
    CASE e.kind = "field" -> "int"
      [] e.kind = "const" -> e.type
      [] e.kind = "func"  -> IF e.op \in Funcs THEN OutType(e.op) ELSE "int"

EvalLeaf(e, row) == IF e.kind = "field" THEN row[e.field] ELSE e.value

\* FuncExpr.EvalExpr, where given has the values of the arguments.  They are
\* looked at one after the other, first the type and then the value: what the
\* first one that fails gives is the result.
EvalFunc(e, given) ==
    LET types == ArgTypes(e.op)
        vals == [i \in DOMAIN types |-> IF GetExprType(e.args[i]) # types[i] THEN Err ELSE given[i]]
        bad == {i \in DOMAIN types : Failed(vals[i])}
    IN  CASE e.op \notin Funcs -> Err
          [] e.op \in Funcs /\ Len(e.args) # Len(types) -> Err
          [] OTHER -> IF bad = {} THEN Apply(e.op, vals)
                      ELSE vals[CHOOSE i \in bad : \A j \in bad : i <= j]

EvalFlat(e, row) ==
    IF e.kind = "func"
    THEN EvalFunc(e, [i \in DOMAIN e.args |-> EvalLeaf(e.args[i], row)])
    ELSE EvalLeaf(e, row)
EvalExpr(e, row) ==
    IF e.kind = "func"
    THEN EvalFunc(e, [i \in DOMAIN e.args |-> EvalFlat(e.args[i], row)])
    ELSE EvalLeaf(e, row)

-----------------------------------------------------------------------------
(* The expressions a statement may have, which name only the given fields   *)

Strings == [len : Int]
Values(type) == IF type = "string" THEN Strings ELSE Int

IsLeaf(e, fields) ==
    \/ e.kind = "field" /\ e.field \in fields
    \/ e.kind = "const" /\ e.type \in {"int", "string"} /\ e.value \in Values(e.type)
IsFlat(e, fields) ==
    IF e.kind = "func" THEN \A i \in DOMAIN e.args : IsLeaf(e.args[i], fields) ELSE IsLeaf(e, fields)
IsExpr(e, fields) ==
    IF e.kind = "func"
    THEN /\ DOMAIN e.args = 1 .. Len(e.args)
         /\ \A i \in DOMAIN e.args :
               /\ IsFlat(e.args[i], fields)
               /\ e.args[i].kind = "func" => DOMAIN e.args[i].args = 1 .. Len(e.args[i].args)
    ELSE IsLeaf(e, fields)

-----------------------------------------------------------------------------
(* What expressions mean                                                   *)

\* All functions exist and have the arguments they want.
WellFormedFunc(e) ==
    /\ e.op \in Funcs
    /\ Len(e.args) = Len(ArgTypes(e.op))
    /\ \A i \in DOMAIN e.args : GetExprType(e.args[i]) = ArgTypes(e.op)[i]

WellFormed(e) ==
    e.kind = "func" =>
        /\ WellFormedFunc(e)
        /\ \A i \in DOMAIN e.args : e.args[i].kind = "func" => WellFormedFunc(e.args[i])

\* The value of a well-formed expression, in the arithmetic of all integers; Err
\* if it has none or one that is too large, or if the end of a substring is.
InRange(i) == IF i \in -(MaxInt + 1) .. MaxInt THEN i ELSE Err

Meaning(op, a) ==
    CASE op = "+"    -> InRange(a[1] + a[2])
      [] op = "-"    -> InRange(a[1] - a[2])
      [] op = "*"    -> InRange(a[1] * a[2])
      [] op = "/"    -> IF a[2] = 0 THEN Err
                        ELSE InRange(CHOOSE q \in -Abs(a[1]) .. Abs(a[1]) :
                                        /\ Abs(a[2] * q) <= Abs(a[1])
                                        /\ Abs(a[1] - a[2] * q) < Abs(a[2])
                                        /\ (a[1] < 0) = (a[2] < 0) => q >= 0)
      [] op = "mod"  -> IF a[2] = 0 THEN Err
                        ELSE CHOOSE r \in -Abs(a[1]) .. Abs(a[1]) :
                                /\ Abs(r) < Abs(a[2])
                                /\ r # 0 => (r < 0) = (a[1] < 0)
                                /\ (a[1] - r) % Abs(a[2]) = 0
      [] op = "imin" -> CHOOSE m \in {a[1], a[2]} : m <= a[1] /\ m <= a[2]
      [] op = "imax" -> CHOOSE m \in {a[1], a[2]} : m >= a[1] /\ m >= a[2]
      [] op = "sq"   -> InRange(a[1] * a[1])
      [] op = "getsubstr" ->
           IF a[3] < 0 \/ InRange(a[2] + a[3]) = Err THEN Err
           ELSE [len |-> IF a[2] < 0 THEN 0
                         ELSE Len(SelectSeq([i \in 1 .. a[1].len |-> i],
                                            LAMBDA i : i > a[2] /\ i <= a[2] + a[3]))]

MeaningFunc(e, vals) ==
    IF \E i \in DOMAIN vals : vals[i] = Err THEN Err ELSE Meaning(e.op, vals)

MeaningFlat(e, row) ==
    IF e.kind = "func"
    THEN MeaningFunc(e, [i \in DOMAIN e.args |-> EvalLeaf(e.args[i], row)])
    ELSE EvalLeaf(e, row)
SqlValue(e, row) ==
    CASE ~ WellFormed(e) -> Err
      [] WellFormed(e) /\ e.kind = "func" ->
            MeaningFunc(e, [i \in DOMAIN e.args |-> MeaningFlat(e.args[i], row)])
      [] OTHER -> EvalLeaf(e, row)

Defined(e, row) == SqlValue(e, row) # Err
=============================================================================
