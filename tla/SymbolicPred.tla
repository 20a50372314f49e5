---------------------------- MODULE SymbolicPred ----------------------------
(***************************************************************************)
(* Symbolic expressions and predicates (symbolic_expression.cc and         *)
(* symbolic_predicate.cc of src/base).                                     *)
(*                                                                         *)
(* A SymbolicExpr is a linear form over the program's inputs.  It is       *)
(* represented by the function it denotes, from an assignment of the       *)
(* inputs to an integer; its coefficient map is empty exactly when that    *)
(* function is constant, and its 64-bit arithmetic does not overflow.      *)
(***************************************************************************)
EXTENDS Integers

CONSTANT Assign  \* assignments of values to the symbolic inputs x0, x1, ...

CompareOp == {"EQ", "NEQ", "GT", "LE", "LT", "GE"}

Compare(op, x, y) ==
  CASE op = "EQ"  -> x = y
    [] op = "NEQ" -> x # y
    [] op = "GT"  -> x > y
    [] op = "LE"  -> x <= y
    [] op = "LT"  -> x < y
    [] op = "GE"  -> x >= y

\* op ^ 1 on the enumeration EQ, NEQ, GT, LE, LT, GE.
NegateCompareOp(op) ==
  CASE op = "EQ" -> "NEQ" [] op = "NEQ" -> "EQ"
    [] op = "GT" -> "LE"  [] op = "LE"  -> "GT"
    [] op = "LT" -> "GE"  [] op = "GE"  -> "LT"

-----------------------------------------------------------------------------
Expr == [Assign -> Int]

Pred == [op : CompareOp, expr : Expr]

InputExpr(var)   == [a \in Assign |-> a[var]]
Minus(e, f)      == [a \in Assign |-> e[a] - f[a]]
Plus(e, f)       == [a \in Assign |-> e[a] + f[a]]
Opposite(e)      == [a \in Assign |-> -e[a]]
Scale(e, c)      == [a \in Assign |-> e[a] * c]
IsConcrete(e)    == \A a, b \in Assign : e[a] = e[b]

Negate(p)   == [p EXCEPT !.op = NegateCompareOp(@)]
Holds(p, a) == Compare(p.op, p.expr[a], 0)
=============================================================================
