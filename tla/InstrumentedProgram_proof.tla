---------------------- MODULE InstrumentedProgram_proof ----------------------
(***************************************************************************)
(* Proofs of the invariants of InstrumentedProgram.  Shape is inductive    *)
(* without further assumptions; Sound is inductive given Shape, for        *)
(* programs without a comparison as the right operand of a comparison and  *)
(* input files whose values fit every type.  PathInv and Contained, which  *)
(* need Shape only, are about the path and what expressions depend on.     *)
(***************************************************************************)
EXTENDS InstrumentedProgram, Operators_proof, SequenceTheorems

-----------------------------------------------------------------------------
(***************************************************************************)
(* What each operation of the stack machine does to its state, as lemmas   *)
(* that are cited instead of the operations' definitions.  Each one assumes *)
(* what the operation asserts.                                             *)
(***************************************************************************)

\* The null pointer is neither an expression nor a predicate.
NullIsNull == NULL \notin Expr /\ NULL \notin Pred

\* The members of the execution and the path that an operation leaves alone.
SameInputs(s, t) ==
  /\ t.inputs = s.inputs
  /\ t.num_inputs = s.num_inputs
  /\ t.vars = s.vars

SamePath(s, t) ==
  /\ t.branches = s.branches
  /\ t.constraints = s.constraints
  /\ t.constraints_idx = s.constraints_idx

Unaffected(s, t) == SameInputs(s, t) /\ SamePath(s, t) /\ t.aborted = s.aborted

\* The stack of t is that of s with the top n elements replaced by elem.
Replaced(s, n, elem, t) ==
  /\ Len(t.stack) = Len(s.stack) - n + 1
  /\ t.stack[Len(s.stack) - n + 1] = elem
  /\ \A i \in 1 .. Len(s.stack) - n : t.stack[i] = s.stack[i]

-----------------------------------------------------------------------------
\* Removing the top n elements of a stack leaves the others where they were.
LEMMA PoppedStack ==
  ASSUME NEW s \in Machine, NEW n \in Nat, n <= Len(s.stack)
  PROVE  /\ Popped(s, n) \in Seq(StackElem)
         /\ Len(Popped(s, n)) = Len(s.stack) - n
         /\ \A i \in 1 .. Len(s.stack) - n : Popped(s, n)[i] = s.stack[i]
<1>1. s.stack \in Seq(StackElem)
  BY DEF Machine
<1>2. Len(s.stack) \in Nat
  BY <1>1, LenProperties
<1>3. \A i \in 1 .. Len(s.stack) - n : s.stack[i] \in StackElem
  BY <1>1, <1>2, ElementOfSeq
<1> QED
  BY <1>1, <1>2, <1>3, SubSeqProperties DEF Popped

\* Removing the only element leaves the empty stack.
LEMMA PoppedLast ==
  ASSUME NEW s \in Machine, Len(s.stack) = 1
  PROVE  Popped(s, 1) = << >>
<1>1. 1 \in Nat /\ 1 <= Len(s.stack) /\ Len(s.stack) - 1 = 0
  OBVIOUS
<1>2. Popped(s, 1) \in Seq(StackElem) /\ Len(Popped(s, 1)) = 0
  BY <1>1, PoppedStack
<1> QED
  BY <1>2, EmptySeq

\* Replacing the top n elements by one leaves the others where they were.
LEMMA ReplacedStack ==
  ASSUME NEW s \in Machine, NEW n \in Nat, n <= Len(s.stack),
         NEW elem \in StackElem, NEW t \in Machine,
         t.stack = Append(Popped(s, n), elem)
  PROVE  Replaced(s, n, elem, t)
BY PoppedStack, AppendProperties DEF Replaced

\* The top element and the one below it are elements of the stack.
LEMMA TopElements ==
  ASSUME NEW s \in Machine
  PROVE  /\ Len(s.stack) \in Nat
         /\ \A i \in 1 .. Len(s.stack) : s.stack[i] \in StackElem
         /\ Len(s.stack) >= 1 => Top(s) \in StackElem
         /\ Len(s.stack) >= 2 => Second(s) \in StackElem
<1>1. s.stack \in Seq(StackElem)
  BY DEF Machine
<1> QED
  BY <1>1, LenProperties, ElementOfSeq DEF Top, Second

-----------------------------------------------------------------------------
\* A load pushes the value with the address's expression, if it has one, and
\* clears the predicate register.
LEMMA LoadEffect ==
  ASSUME NEW s \in Machine, NEW addr, NEW value \in Int
  PROVE  LET found == IF addr \in Addr THEN s.mem[addr] ELSE NULL
             t == Load(s, addr, value)
         IN  /\ t \in Machine
             /\ Unaffected(s, t)
             /\ t.mem = s.mem /\ t.return_value = s.return_value
             /\ t.pred = NULL
             /\ found \in Expr \cup {NULL}
             /\ Replaced(s, 0, Operand(found, value), t)
<1> DEFINE found == IF addr \in Addr THEN s.mem[addr] ELSE NULL
           t == Load(s, addr, value)
<1>1. found \in Expr \cup {NULL}
  BY DEF Machine
<1>2. Operand(found, value) \in StackElem
  BY <1>1 DEF Operand, StackElem
<1>3. s.stack \in Seq(StackElem)
  BY DEF Machine
<1>4. Append(s.stack, Operand(found, value)) \in Seq(StackElem)
  BY <1>2, <1>3, AppendProperties
<1>5. t \in Machine
  BY <1>4 DEF Load, Machine
<1>6. t.stack = Append(s.stack, Operand(found, value))
  BY DEF Load, Machine
<1>7. /\ Unaffected(s, t) /\ t.pred = NULL
      /\ t.mem = s.mem /\ t.return_value = s.return_value
  BY DEF Load, Machine, Unaffected, SameInputs, SamePath
<1>8. Replaced(s, 0, Operand(found, value), t)
  <2> HIDE DEF found, t
  <2> QED
    BY <1>2, <1>3, <1>6, AppendProperties, LenProperties DEF Replaced
<1> QED
  BY <1>1, <1>5, <1>7, <1>8

\* A store pops the stack, clears the predicate register and leaves in mem_
\* either nothing or the expression of the popped element.
LEMMA StoreEffect ==
  ASSUME NEW s \in Machine, NEW addr \in Addr, Len(s.stack) >= 1
  PROVE  LET t == Store(s, addr)
         IN  /\ t \in Machine
             /\ Unaffected(s, t)
             /\ t.return_value = s.return_value
             /\ t.pred = NULL
             /\ t.stack = Popped(s, 1)
             /\ t.mem[addr] \in {NULL, Top(s).expr}
             /\ \A x \in Addr \ {addr} : t.mem[x] = s.mem[x]
<1> DEFINE e == Top(s).expr
           stored == IF e = NULL THEN NULL
                     ELSE IF IsConcrete(e) THEN NULL ELSE e
           t == Store(s, addr)
<1>1. e \in Expr \cup {NULL}
  BY TopElements DEF StackElem
<1>2. stored \in Expr \cup {NULL} /\ stored \in {NULL, e}
  BY <1>1
<1>3. Popped(s, 1) \in Seq(StackElem)
  BY TopElements, PoppedStack
<1>4. Len(s.stack) # 0
  BY TopElements
<1>5. t = [s EXCEPT !.mem[addr] = stored, !.stack = Popped(s, 1), !.pred = NULL]
  BY <1>4 DEF Store
<1> HIDE DEF e, stored, t
<1>6. t \in Machine
  BY <1>2, <1>3, <1>5 DEF Machine
<1>7. /\ Unaffected(s, t) /\ t.pred = NULL
      /\ t.stack = Popped(s, 1) /\ t.return_value = s.return_value
  BY <1>5 DEF Machine, Unaffected, SameInputs, SamePath
<1>8. t.mem[addr] = stored /\ \A x \in Addr \ {addr} : t.mem[x] = s.mem[x]
  BY <1>5 DEF Machine
<1> QED
  BY <1>2, <1>6, <1>7, <1>8 DEF e, t

\* Clearing the stack also clears the predicate register and the flag of the
\* returned value.
LEMMA ClearStackEffect ==
  ASSUME NEW s \in Machine
  PROVE  LET t == ClearStack(s)
         IN  /\ t \in Machine
             /\ Unaffected(s, t)
             /\ t.mem = s.mem
             /\ t.stack = << >> /\ t.pred = NULL /\ t.return_value = FALSE
<1> DEFINE t == ClearStack(s)
<1>1. << >> \in Seq(StackElem)
  BY EmptySeq
<1>2. t \in Machine
  BY <1>1 DEF ClearStack, Machine
<1>3. Unaffected(s, t) /\ t.mem = s.mem
  BY DEF ClearStack, Machine, Unaffected, SameInputs, SamePath
<1>4. t.stack = << >> /\ t.pred = NULL /\ t.return_value = FALSE
  BY DEF ClearStack, Machine
<1> QED
  BY <1>2, <1>3, <1>4

-----------------------------------------------------------------------------
\* The form of a stack element is an expression; it has the element's concrete
\* value wherever the element's own expression does.
LEMMA FormOfElement ==
  ASSUME NEW x \in StackElem, NullIsNull
  PROVE  /\ x.concrete \in Int
         /\ x.expr \in Expr \cup {NULL}
         /\ Form(x) \in Expr
         /\ \A a \in Assign :
              (x.expr # NULL => x.expr[a] = x.concrete)
                => Form(x)[a] = x.concrete
BY DEF StackElem, Form, Expr, NullIsNull

\* A unary operator replaces the top element.  Only negation gives it an
\* expression, unless the predicate register holds a predicate.
LEMMA UnaryEffect ==
  ASSUME NEW s \in Machine, NEW op, NEW value \in Int, Len(s.stack) >= 1,
         s.pred = NULL \/ Top(s).expr = NULL
  PROVE  LET t == ApplyUnaryOp(s, op, value)
         IN  /\ t \in Machine
             /\ Unaffected(s, t)
             /\ t.mem = s.mem /\ t.return_value = s.return_value
             /\ t.pred # NULL => t.pred = s.pred
             /\ t.pred # NULL => Top(s).expr = NULL
             /\ \E f \in Expr \cup {NULL} :
                  /\ Replaced(s, 1, Operand(f, value), t)
                  /\ f = NULL \/ /\ Top(s).expr # NULL /\ op = "NEGATE"
                                 /\ f = Opposite(Top(s).expr)
                  /\ Top(s).expr = NULL => f = NULL
<1> DEFINE e == Top(s).expr
           f == IF e = NULL THEN NULL
                ELSE IF op = "NEGATE" THEN Opposite(e) ELSE NULL
           p == IF e = NULL THEN s.pred ELSE NULL
           t == ApplyUnaryOp(s, op, value)
           stack == Append(Popped(s, 1), Operand(f, value))
<1>1. e \in Expr \cup {NULL}
  BY TopElements DEF StackElem
<1>2. f \in Expr \cup {NULL}
  BY <1>1 DEF Opposite, Expr
<1>3. p \in Pred \cup {NULL}
  BY DEF Machine
<1>4. Operand(f, value) \in StackElem
  BY <1>2 DEF Operand, StackElem
<1>5. stack \in Seq(StackElem)
  BY <1>4, PoppedStack, TopElements, AppendProperties
<1>6. t = [s EXCEPT !.stack = stack, !.pred = p]
  <2>1. ~(Len(s.stack) < 1)
    BY TopElements
  <2>2. CASE e = NULL
    BY <2>1, <2>2 DEF ApplyUnaryOp
  <2>3. CASE e # NULL /\ op = "NEGATE"
    BY <2>1, <2>3 DEF ApplyUnaryOp
  <2>4. CASE e # NULL /\ op # "NEGATE"
    BY <2>1, <2>4 DEF ApplyUnaryOp
  <2> QED
    BY <2>2, <2>3, <2>4
<1> HIDE DEF stack, t
<1>7. t \in Machine
  <2> HIDE DEF p
  <2> QED
    BY <1>3, <1>5, <1>6 DEF Machine
<1>8. /\ Unaffected(s, t) /\ t.mem = s.mem /\ t.return_value = s.return_value
      /\ t.stack = stack /\ t.pred = p
  <2> HIDE DEF p
  <2> QED
    BY <1>6 DEF Machine, Unaffected, SameInputs, SamePath
<1>9. Replaced(s, 1, Operand(f, value), t)
  <2> HIDE DEF f
  <2> QED
    BY <1>4, <1>7, <1>8, ReplacedStack, TopElements DEF stack
<1>10. /\ t.pred # NULL => t.pred = s.pred
       /\ t.pred # NULL => e = NULL
  BY <1>8
<1> QED
  BY <1>2, <1>7, <1>8, <1>9, <1>10 DEF t

-----------------------------------------------------------------------------
\* The factor of a left shift is an integer, a power of two for a count within
\* the width of int.
LEMMA ShiftFactors ==
  ASSUME NEW b \in Int
  PROVE  /\ ShiftFactor(b) \in Int
         /\ b \in 0 .. 30 => ShiftFactor(b) = 2 ^ b
<1> DEFINE n == b % 32
<1>1. n \in 0 .. 31 /\ (b \in 0 .. 30 => n = b)
  OBVIOUS
<1> HIDE DEF n
<1>2. n # 31 => n \in 0 .. 30
  BY <1>1
<1>3. n # 31 => 2 ^ n \in Int
  BY <1>2, PowersAssumption DEF PowersAssumption
<1>4. 2 ^ 30 \in Int
  BY PowersAssumption DEF PowersAssumption
<1>5. ShiftFactor(b) = IF n = 31 THEN -(2 ^ 30) - 2 ^ 30 ELSE 2 ^ n
  BY DEF ShiftFactor, n
<1> QED
  BY <1>1, <1>3, <1>4, <1>5

\* The expression a binary operator leaves is one.
LEMMA BinaryExprType ==
  ASSUME NEW x \in StackElem, NEW y \in StackElem, NEW op, NullIsNull
  PROVE  BinaryExpr(op, x, y) \in Expr \cup {NULL}
<1> USE FormOfElement
<1>1. CASE x.expr = NULL /\ y.expr = NULL
  BY <1>1 DEF BinaryExpr
<1>2. CASE ~(x.expr = NULL /\ y.expr = NULL) /\ op = "ADD"
  BY <1>2 DEF BinaryExpr, Plus, Expr
<1>3. CASE ~(x.expr = NULL /\ y.expr = NULL) /\ op = "SUBTRACT"
  BY <1>3 DEF BinaryExpr, Minus, Expr
<1>4. CASE ~(x.expr = NULL /\ y.expr = NULL) /\ op = "MULTIPLY"
  BY <1>4 DEF BinaryExpr, Scale, Expr
<1>5. CASE ~(x.expr = NULL /\ y.expr = NULL) /\ op = "SHIFT_L"
  <2>1. ShiftFactor(y.concrete) \in Int
    BY ShiftFactors
  <2> QED
    BY <1>5, <2>1 DEF BinaryExpr, Scale, Expr
<1>6. CASE /\ ~(x.expr = NULL /\ y.expr = NULL)
           /\ op \notin {"ADD", "SUBTRACT", "MULTIPLY", "SHIFT_L"}
  BY <1>6 DEF BinaryExpr
<1> QED
  BY <1>1, <1>2, <1>3, <1>4, <1>5, <1>6

\* Where the operands' expressions have the operands' concrete values, the
\* result's expression has the value the program computes.
LEMMA BinaryExprValue ==
  ASSUME NEW x \in StackElem, NEW y \in StackElem, NEW op, NullIsNull,
         NEW a \in Assign,
         x.expr # NULL => x.expr[a] = x.concrete,
         y.expr # NULL => y.expr[a] = y.concrete,
         BinaryExpr(op, x, y) # NULL
  PROVE  LET v == BinaryExpr(op, x, y)[a] IN
         /\ op \in {"ADD", "SUBTRACT", "MULTIPLY", "SHIFT_L"}
         /\ op = "ADD"      => v = x.concrete + y.concrete
         /\ op = "SUBTRACT" => v = x.concrete - y.concrete
         /\ op = "MULTIPLY" => v = x.concrete * y.concrete
         /\ op = "SHIFT_L"  => v = x.concrete * ShiftFactor(y.concrete)
<1>1. /\ x.concrete \in Int /\ y.concrete \in Int
      /\ Form(x)[a] = x.concrete /\ Form(y)[a] = y.concrete
  BY FormOfElement
<1>2. ~(x.expr = NULL /\ y.expr = NULL)
  BY DEF BinaryExpr
<1>3. CASE op = "ADD"
  BY <1>1, <1>2, <1>3 DEF BinaryExpr, Plus
<1>4. CASE op = "SUBTRACT"
  BY <1>1, <1>2, <1>4 DEF BinaryExpr, Minus
<1>5. CASE op = "MULTIPLY"
  <2>1. CASE y.expr # NULL
    <3>1. BinaryExpr(op, x, y)[a] = y.expr[a] * x.concrete
      BY <1>2, <1>5, <2>1 DEF BinaryExpr, Scale
    <3> QED
      BY <3>1, <1>1, <1>5, <2>1
  <2>2. CASE y.expr = NULL
    BY <1>1, <1>2, <1>5, <2>2 DEF BinaryExpr, Scale
  <2> QED
    BY <2>1, <2>2
<1>6. CASE op = "SHIFT_L"
  BY <1>1, <1>2, <1>6 DEF BinaryExpr, Scale
<1>7. op \in {"ADD", "SUBTRACT", "MULTIPLY", "SHIFT_L"}
  BY <1>2 DEF BinaryExpr
<1> QED
  BY <1>3, <1>4, <1>5, <1>6, <1>7

\* A binary operator replaces the two operands and clears the predicate register.
LEMMA BinaryEffect ==
  ASSUME NEW s \in Machine, NEW op, NEW value \in Int, Len(s.stack) >= 2,
         BinaryExpr(op, Second(s), Top(s)) \in Expr \cup {NULL}
  PROVE  LET t == ApplyBinaryOp(s, op, value)
             e == BinaryExpr(op, Second(s), Top(s))
         IN  /\ t \in Machine
             /\ Unaffected(s, t)
             /\ t.mem = s.mem /\ t.return_value = s.return_value
             /\ t.pred = NULL
             /\ Replaced(s, 2, Operand(e, value), t)
<1> DEFINE e == BinaryExpr(op, Second(s), Top(s))
           t == ApplyBinaryOp(s, op, value)
           stack == Append(Popped(s, 2), Operand(e, value))
<1>1. Operand(e, value) \in StackElem
  BY DEF Operand, StackElem
<1>2. stack \in Seq(StackElem)
  BY <1>1, PoppedStack, TopElements, AppendProperties
<1>3. t = [s EXCEPT !.stack = stack, !.pred = NULL]
  BY TopElements DEF ApplyBinaryOp
<1> HIDE DEF stack, t, e
<1>4. t \in Machine
  BY <1>2, <1>3 DEF Machine
<1>5. /\ Unaffected(s, t) /\ t.mem = s.mem /\ t.return_value = s.return_value
      /\ t.stack = stack /\ t.pred = NULL
  BY <1>3 DEF Machine, Unaffected, SameInputs, SamePath
<1>6. Replaced(s, 2, Operand(e, value), t)
  BY <1>1, <1>4, <1>5, ReplacedStack, TopElements DEF stack
<1> QED
  BY <1>4, <1>5, <1>6 DEF t, e

\* Comparing a difference to zero compares the two numbers.
LEMMA CompareDifference ==
  ASSUME NEW op \in CompareOp, NEW x \in Int, NEW y \in Int
  PROVE  Compare(op, x - y, 0) <=> Compare(op, x, y)
<1> USE DEF CompareOp, Compare
<1>1. CASE op = "EQ"  BY <1>1
<1>2. CASE op = "NEQ" BY <1>2
<1>3. CASE op = "GT"  BY <1>3
<1>4. CASE op = "LE"  BY <1>4
<1>5. CASE op = "LT"  BY <1>5
<1>6. CASE op = "GE"  BY <1>6
<1> QED
  BY <1>1, <1>2, <1>3, <1>4, <1>5, <1>6

\* A predicate made by a comparison is true exactly where the comparison of
\* the operands' concrete values is, if their expressions have those values.
LEMMA ComparePredValue ==
  ASSUME NEW s \in Machine, NEW op \in CompareOp, NullIsNull,
         NEW x \in StackElem, NEW y \in StackElem
  PROVE  LET p == ComparePred(s, op, x, y)
         IN  /\ p \in Pred \cup {NULL}
             /\ \A a \in Assign :
                  /\ s.pred = NULL /\ p # NULL
                  /\ x.expr # NULL => x.expr[a] = x.concrete
                  /\ y.expr # NULL => y.expr[a] = y.concrete
                  => (Holds(p, a) <=> Compare(op, x.concrete, y.concrete))
<1> DEFINE p == ComparePred(s, op, x, y)
           diff == Minus(Form(x), Form(y))
<1>1. /\ diff \in Expr
      /\ \A a \in Assign : diff[a] = Form(x)[a] - Form(y)[a]
  BY FormOfElement DEF Minus, Expr
<1>2. [op |-> op, expr |-> diff] \in Pred
  BY <1>1 DEF Pred
<1>3. p \in {s.pred, NULL, [op |-> op, expr |-> diff]}
  BY DEF ComparePred
<1>4. p \in Pred \cup {NULL}
  BY <1>2, <1>3 DEF Machine
<1>5. ASSUME NEW a \in Assign, s.pred = NULL, p # NULL,
             x.expr # NULL => x.expr[a] = x.concrete,
             y.expr # NULL => y.expr[a] = y.concrete
      PROVE  Holds(p, a) <=> Compare(op, x.concrete, y.concrete)
  <2>1. p = [op |-> op, expr |-> diff]
    BY <1>3, <1>5
  <2>2. /\ x.concrete \in Int /\ y.concrete \in Int
        /\ diff[a] = x.concrete - y.concrete
    BY <1>1, <1>5, FormOfElement
  <2>3. Holds(p, a) <=> Compare(op, diff[a], 0)
    BY <2>1 DEF Holds
  <2> QED
    BY <2>2, <2>3, CompareDifference
<1> QED
  BY <1>4, <1>5

\* A comparison replaces the two operands by a concrete value.
LEMMA CompareEffect ==
  ASSUME NEW s \in Machine, NEW op \in CompareOp, NEW value \in Int,
         Len(s.stack) >= 2, NullIsNull
  PROVE  LET t == ApplyCompareOp(s, op, value)
         IN  /\ t \in Machine
             /\ Unaffected(s, t)
             /\ t.mem = s.mem /\ t.return_value = s.return_value
             /\ t.pred = ComparePred(s, op, Second(s), Top(s))
             /\ Replaced(s, 2, Operand(NULL, value), t)
<1> DEFINE p == ComparePred(s, op, Second(s), Top(s))
           t == ApplyCompareOp(s, op, value)
           stack == Append(Popped(s, 2), Operand(NULL, value))
<1>1. Operand(NULL, value) \in StackElem
  BY DEF Operand, StackElem
<1>2. stack \in Seq(StackElem)
  BY <1>1, PoppedStack, TopElements, AppendProperties
<1>3. t = [s EXCEPT !.stack = stack, !.pred = p]
  BY TopElements DEF ApplyCompareOp
<1>4. p \in Pred \cup {NULL}
  BY TopElements, ComparePredValue
<1> HIDE DEF stack, t, p
<1>5. t \in Machine
  BY <1>2, <1>3, <1>4 DEF Machine
<1>6. /\ Unaffected(s, t) /\ t.mem = s.mem /\ t.return_value = s.return_value
      /\ t.stack = stack /\ t.pred = p
  BY <1>3 DEF Machine, Unaffected, SameInputs, SamePath
<1>7. Replaced(s, 2, Operand(NULL, value), t)
  BY <1>1, <1>5, <1>6, ReplacedStack, TopElements DEF stack
<1> QED
  BY <1>5, <1>6, <1>7 DEF t, p

-----------------------------------------------------------------------------
\* The interpreter's state that symbolic values live in.
SameState(s, t) ==
  /\ t.stack = s.stack
  /\ t.pred = s.pred
  /\ t.mem = s.mem

SameConstraints(s, t) ==
  /\ t.constraints = s.constraints
  /\ t.constraints_idx = s.constraints_idx

\* A call only extends the path.
LEMMA CallEffect ==
  ASSUME NEW s \in Machine
  PROVE  LET t == Call(s)
         IN  /\ t \in Machine
             /\ SameInputs(s, t) /\ SameState(s, t) /\ SameConstraints(s, t)
             /\ t.branches = Append(s.branches, kCallId)
             /\ t.aborted = s.aborted /\ t.return_value = s.return_value
<1>1. Append(s.branches, kCallId) \in Seq(Int)
  BY AppendProperties DEF Machine, kCallId
<1>2. Call(s) \in Machine
  BY <1>1 DEF Call, Machine
<1> QED
  BY <1>2 DEF Call, Machine, SameInputs, SameState, SameConstraints

\* A return of at most one value extends the path and sets return_value.
LEMMA ReturnEffect ==
  ASSUME NEW s \in Machine, Len(s.stack) <= 1
  PROVE  LET t == Return(s)
         IN  /\ t \in Machine
             /\ SameInputs(s, t) /\ SameState(s, t) /\ SameConstraints(s, t)
             /\ t.branches = Append(s.branches, kReturnId)
             /\ t.aborted = s.aborted
             /\ t.return_value = (Len(s.stack) = 1)
<1> DEFINE flag == Len(s.stack) = 1
           t == Return(s)
<1>1. Append(s.branches, kReturnId) \in Seq(Int)
  BY AppendProperties DEF Machine, kReturnId
<1>2. t = [s EXCEPT !.branches = Append(s.branches, kReturnId),
                    !.return_value = flag]
  BY TopElements DEF Return, Machine
<1>3. flag \in BOOLEAN
  OBVIOUS
<1> HIDE DEF flag, t
<1>4. t \in Machine
  BY <1>1, <1>2, <1>3 DEF Machine
<1>5. t.return_value = flag
  BY <1>2 DEF Machine
<1>6. /\ SameInputs(s, t) /\ SameState(s, t) /\ SameConstraints(s, t)
      /\ t.branches = Append(s.branches, kReturnId)
      /\ t.aborted = s.aborted
  BY <1>2 DEF Machine, SameInputs, SameState, SameConstraints
<1> QED
  BY <1>4, <1>5, <1>6 DEF t, flag

\* With a returned value on the stack only the flag changes; without one, the
\* stack becomes the concrete result.
LEMMA HandleReturnEffect ==
  ASSUME NEW s \in Machine, NEW value \in Int,
         s.return_value => Len(s.stack) = 1
  PROVE  LET t == HandleReturn(s, value)
         IN  /\ t \in Machine
             /\ Unaffected(s, t)
             /\ t.mem = s.mem /\ t.return_value = FALSE
             /\ s.return_value => t.stack = s.stack /\ t.pred = s.pred
             /\ ~s.return_value => /\ t.stack = << Operand(NULL, value) >>
                                  /\ t.pred = NULL
<1> DEFINE t == HandleReturn(s, value)
<1>1. CASE s.return_value
  <2>1. t = [s EXCEPT !.return_value = FALSE]
    BY <1>1 DEF HandleReturn
  <2>2. t \in Machine
    BY <2>1 DEF Machine
  <2>3. /\ Unaffected(s, t) /\ t.mem = s.mem /\ t.return_value = FALSE
        /\ t.stack = s.stack /\ t.pred = s.pred
    BY <2>1 DEF Machine, Unaffected, SameInputs, SamePath
  <2> QED
    BY <1>1, <2>2, <2>3
<1>2. CASE ~s.return_value
  <2> DEFINE c == ClearStack(s)
             stack == << Operand(NULL, value) >>
  <2>1. t = [c EXCEPT !.stack = stack]
    BY <1>2 DEF HandleReturn
  <2>2. Operand(NULL, value) \in StackElem
    BY DEF Operand, StackElem
  <2>3. stack \in Seq(StackElem)
    BY <2>2
  <2>4. c \in Machine /\ Unaffected(s, c) /\ c.mem = s.mem
        /\ c.pred = NULL /\ c.return_value = FALSE
    BY ClearStackEffect
  <2> HIDE DEF c, stack, t
  <2>5. t \in Machine
    BY <2>1, <2>3, <2>4 DEF Machine
  <2>6. /\ Unaffected(s, t) /\ t.mem = s.mem /\ t.return_value = FALSE
        /\ t.stack = stack /\ t.pred = NULL
    BY <2>1, <2>4 DEF Machine, Unaffected, SameInputs, SamePath
  <2> QED
    BY <1>2, <2>5, <2>6 DEF t, stack
<1> QED
  BY <1>1, <1>2

\* A branch pops the condition, clears the predicate register and, if that
\* held a predicate, appends the constraint of the side taken.
LEMMA BranchEffect ==
  ASSUME NEW s \in Machine, NEW bid \in Int, NEW pred_value \in BOOLEAN,
         Len(s.stack) = 1, NullIsNull
  PROVE  LET t == Branch(s, bid, pred_value)
             p == IF pred_value THEN s.pred ELSE Negate(s.pred)
         IN  /\ t \in Machine
             /\ SameInputs(s, t)
             /\ t.mem = s.mem /\ t.return_value = s.return_value
             /\ t.aborted = s.aborted
             /\ t.stack = << >> /\ t.pred = NULL
             /\ t.branches = Append(s.branches, bid)
             /\ s.pred = NULL => SameConstraints(s, t)
             /\ s.pred # NULL =>
                  /\ p \in Pred
                  /\ t.constraints = Append(s.constraints, p)
                  /\ t.constraints_idx = Append(s.constraints_idx, Len(s.branches))
<1> DEFINE t == Branch(s, bid, pred_value)
           p == IF pred_value THEN s.pred ELSE Negate(s.pred)
           u == [s EXCEPT !.stack = << >>, !.pred = NULL,
                          !.branches = Append(s.branches, bid)]
<1>1. Popped(s, 1) = << >>
  BY PoppedLast
<1>2. Append(s.branches, bid) \in Seq(Int)
  BY AppendProperties DEF Machine
<1>3. << >> \in Seq(StackElem)
  BY EmptySeq
<1>4. Len(s.branches) \in Nat
  BY LenProperties DEF Machine
<1>5. u \in Machine
  BY <1>2, <1>3 DEF Machine
<1>6. /\ SameInputs(s, u) /\ SameConstraints(s, u)
      /\ u.mem = s.mem /\ u.return_value = s.return_value
      /\ u.aborted = s.aborted /\ u.stack = << >> /\ u.pred = NULL
      /\ u.branches = Append(s.branches, bid)
  BY DEF Machine, SameInputs, SameConstraints
<1>7. CASE s.pred = NULL
  <2>1. t = u
    BY <1>1, <1>7 DEF Branch
  <2> QED
    BY <1>5, <1>6, <1>7, <2>1
<1>8. CASE s.pred # NULL
  <2>1. s.pred \in Pred
    BY <1>8 DEF Machine
  <2>2. p \in Pred
    BY <2>1, NegatedPred
  <2>3. p # NULL
    BY <2>2 DEF NullIsNull
  <2>4. t = [u EXCEPT !.constraints = Append(s.constraints, p),
                      !.constraints_idx =
                          Append(s.constraints_idx, Len(s.branches))]
    BY <1>1, <1>6, <1>8, <2>3 DEF Branch, SameConstraints
  <2>5. /\ Append(s.constraints, p) \in Seq(Pred)
        /\ Append(s.constraints_idx, Len(s.branches)) \in Seq(Nat)
    BY <1>4, <2>2, AppendProperties DEF Machine
  <2> HIDE DEF u, p, t
  <2>6. t \in Machine
    BY <1>5, <2>4, <2>5 DEF Machine
  <2>7. /\ SameInputs(u, t)
        /\ t.mem = u.mem /\ t.return_value = u.return_value
        /\ t.aborted = u.aborted /\ t.stack = u.stack /\ t.pred = u.pred
        /\ t.branches = u.branches
        /\ t.constraints = Append(s.constraints, p)
        /\ t.constraints_idx = Append(s.constraints_idx, Len(s.branches))
    BY <1>5, <2>4 DEF Machine, SameInputs
  <2>8. SameInputs(s, t)
    BY <1>6, <2>7 DEF SameInputs
  <2> QED
    BY <1>6, <1>8, <2>2, <2>6, <2>7, <2>8 DEF p, t
<1> QED
  BY <1>7, <1>8

-----------------------------------------------------------------------------
\* A value cast to a type stays what it is when it is cast again.
LEMMA CastTwice ==
  ASSUME NEW type \in Type, NEW val \in Int,
         TypeMin \in [Type -> Int], TypeSize \in [Type -> Nat \ {0}]
  PROVE  /\ CastTo(val, type) \in Int
         /\ CastTo(CastTo(val, type), type) = CastTo(val, type)
<1> DEFINE m == TypeMin[type]
           n == TypeSize[type]
           r == (val - m) % n
<1>1. m \in Int /\ n \in Nat \ {0}
  OBVIOUS
<1>2. r \in 0 .. n - 1
  BY <1>1
<1>3. CastTo(val, type) = r + m
  BY DEF CastTo
<1> HIDE DEF r
<1>4. r % n = r
  BY <1>1, <1>2
<1>5. CastTo(r + m, type) = ((r + m - m) % n) + m
  BY <1>1, <1>2 DEF CastTo
<1>6. r + m - m = r
  BY <1>1, <1>2
<1> QED
  BY <1>1, <1>2, <1>3, <1>4, <1>5, <1>6

\* A new input gives its address the next variable, extends the types and, if
\* the file had no more values, the inputs by the value returned.
LEMMA NewInputEffect ==
  ASSUME NEW s \in Machine, NEW type \in Type, NEW addr \in Addr,
         NEW random \in Int,
         TypeMin \in [Type -> Int], TypeSize \in [Type -> Nat \ {0}],
         InputExpr(s.num_inputs) \in Expr,
         s.num_inputs <= Len(s.inputs), s.num_inputs = Len(s.vars)
  PROVE  LET t == NewInput(s, type, addr, random)
             n == s.num_inputs
         IN  /\ t \in Machine
             /\ SamePath(s, t) /\ t.aborted = s.aborted
             /\ t.stack = s.stack /\ t.pred = s.pred
             /\ t.return_value = s.return_value
             /\ t.mem[addr] = InputExpr(n)
             /\ \A x \in Addr \ {addr} : t.mem[x] = s.mem[x]
             /\ t.num_inputs = n + 1
             /\ Len(t.vars) = n + 1
             /\ Len(t.inputs) >= n + 1
             /\ \A i \in 1 .. n : t.inputs[i] = s.inputs[i]
             /\ t.inputs[n + 1] = InputValue(s, type, random)
             /\ t.inputs = s.inputs \/ Len(t.inputs) = n + 1
<1> DEFINE t == NewInput(s, type, addr, random)
           n == s.num_inputs
           value == CastTo(random, type)
           mem == [s.mem EXCEPT ![addr] = InputExpr(n)]
           types == Append(s.vars, type)
           inputs == IF n < Len(s.inputs) THEN s.inputs
                     ELSE Append(s.inputs, value)
<1>1. value \in Int
  BY CastTwice
<1>2. /\ s.inputs \in Seq(Int) /\ s.vars \in Seq(Type) /\ n \in Nat
      /\ s.mem \in [Addr -> Expr \cup {NULL}]
  BY DEF Machine
<1>3. Len(s.inputs) \in Nat /\ Len(s.vars) \in Nat
  BY <1>2, LenProperties
<1>4. types \in Seq(Type) /\ Len(types) = n + 1
  BY <1>2, AppendProperties
<1>5. /\ inputs \in Seq(Int) /\ Len(inputs) >= n + 1
      /\ \A i \in 1 .. n : inputs[i] = s.inputs[i]
      /\ inputs[n + 1] = InputValue(s, type, random)
      /\ inputs = s.inputs \/ Len(inputs) = n + 1
  <2>1. CASE n < Len(s.inputs)
    BY <1>2, <1>3, <2>1 DEF InputValue
  <2>2. CASE ~(n < Len(s.inputs))
    <3>1. Len(s.inputs) = n /\ inputs = Append(s.inputs, value)
      BY <1>2, <1>3, <2>2
    <3>2. InputValue(s, type, random) = value
      BY <2>2 DEF InputValue
    <3> HIDE DEF inputs, value, n
    <3>3. s.inputs \in Seq(Int)
      BY <1>2
    <3>4. /\ inputs \in Seq(Int) /\ Len(inputs) = Len(s.inputs) + 1
          /\ inputs[Len(s.inputs) + 1] = value
          /\ \A i \in 1 .. Len(s.inputs) : inputs[i] = s.inputs[i]
      BY <1>1, <3>1, <3>3, AppendProperties
    <3> QED
      BY <1>2, <3>1, <3>2, <3>4
  <2> QED
    BY <2>1, <2>2
<1>6. mem \in [Addr -> Expr \cup {NULL}]
  BY <1>2
<1>7. t = [s EXCEPT !.mem = mem, !.vars = types, !.inputs = inputs,
                    !.num_inputs = n + 1]
  BY DEF NewInput, Machine
<1>8. mem[addr] = InputExpr(n) /\ \A x \in Addr \ {addr} : mem[x] = s.mem[x]
  BY <1>2
<1> HIDE DEF n, value, mem, types, inputs, t
<1>9. t \in Machine
  <2>1. n + 1 \in Nat
    BY <1>2
  <2> QED
    BY <2>1, <1>2, <1>4, <1>5, <1>6, <1>7, <2>1 DEF Machine
<1>10. /\ SamePath(s, t) /\ t.aborted = s.aborted
       /\ t.stack = s.stack /\ t.pred = s.pred
       /\ t.return_value = s.return_value
       /\ t.mem = mem /\ t.vars = types /\ t.inputs = inputs
       /\ t.num_inputs = n + 1
  BY <1>7 DEF Machine, SamePath
<1> QED
  BY <1>4, <1>5, <1>8, <1>9, <1>10 DEF n, t
-----------------------------------------------------------------------------
(***************************************************************************)
(* The instrumented program.                                               *)
(***************************************************************************)

\* NULL is the null pointer of both classes, never an expression or predicate.
LEMMA NullIsNotAnExpression == NullIsNull
BY NullAssumption DEF NullAssumption, NullIsNull

\* The program's variables but its control point and operands.
ProgramState == << memory, formals, frames, result, execution, converted >>

\* The callbacks that wait for the first input either do nothing or happen.
LEMMA Callback ==
  ASSUME NEW s, UnlessPreSymbolic(s)
  PROVE  /\ pre_symbolic' = pre_symbolic
         /\ pre_symbolic => SI' = SI
         /\ ~pre_symbolic => SI' = s
BY DEF UnlessPreSymbolic

\* Sequences of operands after a push.
LEMMA PushedOperands ==
  ASSUME TypeOK, NEW n \in Nat, n <= Len(operands),
         NEW v \in Values, NEW o \in Origin, Push(n, v, o)
  PROVE  /\ operands' \in Seq([val : Values, origin : Origin])
         /\ Len(operands) \in Nat
         /\ Len(operands') = Len(operands) - n + 1
         /\ operands'[Len(operands')] = [val |-> v, origin |-> o]
         /\ \A i \in 1 .. Len(operands) - n : operands'[i] = operands[i]
<1> DEFINE T == [val : Values, origin : Origin]
           kept == SubSeq(operands, 1, Len(operands) - n)
           new == [val |-> v, origin |-> o]
<1>1. operands \in Seq(T)
  BY DEF TypeOK
<1>2. Len(operands) \in Nat /\ \A i \in 1 .. Len(operands) : operands[i] \in T
  BY <1>1, LenProperties, ElementOfSeq
<1>3. /\ kept \in Seq(T) /\ Len(kept) = Len(operands) - n
      /\ \A i \in 1 .. Len(operands) - n : kept[i] = operands[i]
  <2>1. \A i \in 1 .. Len(operands) - n : operands[i] \in T
    BY <1>2
  <2> HIDE DEF T
  <2> QED
    BY <1>1, <1>2, <2>1, SubSeqProperties
<1>4. new \in T
  OBVIOUS
<1>5. operands' = Append(kept, new)
  BY DEF Push
<1> HIDE DEF kept, new, T
<1>6. /\ operands' \in Seq(T) /\ Len(operands') = Len(kept) + 1
      /\ operands'[Len(kept) + 1] = new
      /\ \A i \in 1 .. Len(kept) : operands'[i] = kept[i]
  BY <1>3, <1>4, <1>5, AppendProperties
<1> QED
  BY <1>2, <1>3, <1>6 DEF new, T

-----------------------------------------------------------------------------
(***************************************************************************)
(* Evaluating an operator: n operands give way to one of value v, on the   *)
(* machine's stack too once an input has been read.                        *)
(***************************************************************************)
Evaluated(n, f, v, o) ==
  /\ pc = "stmt"
  /\ Push(n, v, o)
  /\ UNCHANGED << pc, pre_symbolic, ProgramState >>
  /\ pre_symbolic => SI' = SI
  /\ ~pre_symbolic =>
       /\ SI' \in Machine /\ Unaffected(SI, SI')
       /\ SI'.mem = SI.mem /\ SI'.return_value = SI.return_value
       /\ Replaced(SI, n, Operand(f, v), SI')
       /\ SI'.pred # NULL => f = NULL

\* Where f has the value v and the register holds at most the comparison.
EvaluatedSoundly(f, v, o) ==
  ~pre_symbolic =>
    /\ f # NULL => Denotes(f, v)
    /\ o = "plain" => SI'.pred = NULL
    /\ o = "compare" /\ SI'.pred # NULL =>
         \A a \in Assign : Consistent(a) => (Holds(SI'.pred, a) <=> v # 0)

\* A step of an expression's evaluation that replaces n operands by one, in the
\* program and on the stack alike, keeps the shape of the state.
LEMMA EvaluationShape ==
  ASSUME Shape, NEW n \in Nat, n <= Len(operands), NEW f \in Expr \cup {NULL},
         NEW v \in Values, NEW o \in Origin, Evaluated(n, f, v, o)
  PROVE  Shape'
<1> USE DEF Evaluated, ProgramState
<1>0. /\ operands' \in Seq([val : Values, origin : Origin])
      /\ Len(operands) \in Nat
      /\ Len(operands') = Len(operands) - n + 1
      /\ operands'[Len(operands')] = [val |-> v, origin |-> o]
      /\ \A i \in 1 .. Len(operands) - n : operands'[i] = operands[i]
  BY PushedOperands DEF Shape
<1>1. TypeOK'
  BY <1>0 DEF Shape, TypeOK, Unaffected, SameInputs
<1>2. NoAssertionFails'
  BY DEF Shape, NoAssertionFails, Unaffected
<1>3. IdleBeforeInput'
  BY DEF Shape, IdleBeforeInput
<1>4. ControlOK'
  BY DEF Shape, ControlOK
<1>5. StackMirrorsOperands'
  <2>1. ~SI'.return_value
    BY DEF Shape, StackMirrorsOperands
  <2>2. ASSUME ~pre_symbolic
        PROVE  Len(SI'.stack) = Len(operands')
    <3>1. Len(SI.stack) = Len(operands)
      BY <2>2 DEF Shape, StackMirrorsOperands
    <3>2. Len(SI'.stack) = Len(operands) - n + 1
      BY <2>2, <3>1 DEF Replaced
    <3> QED
      BY <1>0, <3>2
  <2> QED
    BY <2>1, <2>2 DEF StackMirrorsOperands
<1>6. PredicateOnTop'
  <2>1. CASE pre_symbolic
    BY <2>1 DEF Shape, PredicateOnTop, Top
  <2>2. CASE ~pre_symbolic
    <3>1. Len(SI.stack) = Len(operands)
      BY <2>2 DEF Shape, StackMirrorsOperands
    <3>2. /\ Len(SI'.stack) = Len(operands) - n + 1
          /\ SI'.stack[Len(operands) - n + 1] = Operand(f, v)
      BY <2>2, <3>1 DEF Replaced
    <3>3. Top(SI') = Operand(f, v) /\ Len(SI'.stack) # 0
      BY <1>0, <3>2 DEF Top
    <3>4. SI'.stack # << >>
      BY <3>3, EmptySeq
    <3> QED
      BY <2>2, <3>3, <3>4 DEF PredicateOnTop, Operand, Top
  <2> QED
    BY <2>1, <2>2
<1> QED
  BY <1>1, <1>2, <1>3, <1>4, <1>5, <1>6 DEF Shape

\* The same inputs make the same assignments consistent and leave the same
\* unread ones.
LEMMA SameConsistency ==
  ASSUME SameInputs(SI, SI')
  PROVE  /\ \A a : Consistent(a)' <=> Consistent(a)
         /\ \A e, v : Denotes(e, v)' <=> Denotes(e, v)
         /\ UnreadInputsFit => UnreadInputsFit'
BY DEF SameInputs, Consistent, Denotes, UnreadInputsFit

\* A path that gains no constraint stays true of the inputs.
LEMMA SamePathHolds ==
  ASSUME SameInputs(SI, SI'), SI'.constraints = SI.constraints, ConstraintsHold
  PROVE  ConstraintsHold'
BY SameConsistency DEF ConstraintsHold

\* Such a step keeps the symbolic state sound if what it pushes denotes its
\* value and the predicate it leaves means the comparison.
LEMMA EvaluationSound ==
  ASSUME Shape, Sound,
         NEW n \in Nat, n <= Len(operands), NEW f \in Expr \cup {NULL},
         NEW v \in Values, NEW o \in Origin,
         Evaluated(n, f, v, o), EvaluatedSoundly(f, v, o)
  PROVE  Sound'
<1> USE DEF Evaluated, ProgramState
<1>0. /\ Len(operands) \in Nat
      /\ operands' # << >>
      /\ operands'[Len(operands')] = [val |-> v, origin |-> o]
      /\ Len(operands') \in Nat
  BY PushedOperands, EmptySeq DEF Shape
<1>1. SameInputs(SI, SI') /\ SI'.constraints = SI.constraints
  BY DEF Unaffected, SameInputs, SamePath
<1>2. UnreadInputsFit' /\ ConstraintsHold'
  BY <1>1, SameConsistency, SamePathHolds DEF Sound
<1>3. ExpressionsAgree'
  <2>0. \A a : Consistent(a)' <=> Consistent(a)
    BY <1>1, SameConsistency
  <2>1. ASSUME NEW x \in Addr, SI'.mem[x] # NULL, NEW a \in Assign, Consistent(a)'
        PROVE  SI'.mem[x][a] = memory'[x]
    <3>1. SI'.mem[x] = SI.mem[x] /\ memory'[x] = memory[x]
      OBVIOUS
    <3> QED
      BY <2>0, <2>1, <3>1 DEF Sound, ExpressionsAgree, Denotes
  <2>2. ASSUME NEW i \in 1 .. Len(SI'.stack), SI'.stack[i].expr # NULL,
               NEW a \in Assign, Consistent(a)'
        PROVE  SI'.stack[i].expr[a] = SI'.stack[i].concrete
    <3>0. Consistent(a)
      BY <2>0, <2>2
    <3>1. CASE i \in 1 .. Len(SI.stack) /\ SI'.stack[i] = SI.stack[i]
      BY <2>2, <3>0, <3>1 DEF Sound, ExpressionsAgree, Denotes
    <3>2. CASE ~pre_symbolic /\ SI'.stack[i] = Operand(f, v)
      BY <2>2, <3>0, <3>2 DEF EvaluatedSoundly, Operand, Denotes
    <3>3. CASE pre_symbolic
      BY <3>1, <3>3
    <3>4. CASE ~pre_symbolic
      <4>1. Len(SI.stack) = Len(operands)
        BY <3>4 DEF Shape, StackMirrorsOperands
      <4>2. /\ Len(SI'.stack) = Len(operands) - n + 1
            /\ SI'.stack[Len(operands) - n + 1] = Operand(f, v)
            /\ \A j \in 1 .. Len(operands) - n : SI'.stack[j] = SI.stack[j]
        BY <3>4, <4>1 DEF Replaced
      <4>3. \/ i = Len(operands) - n + 1
            \/ i \in 1 .. Len(operands) - n /\ i \in 1 .. Len(SI.stack)
        <5>1. i \in 1 .. Len(operands) - n + 1
          BY <4>2
        <5> HIDE DEF Evaluated
        <5> QED
          BY <1>0, <4>1, <5>1
      <4> QED
        BY <3>1, <3>2, <3>4, <4>2, <4>3
    <3> QED
      BY <3>3, <3>4
  <2> QED
    BY <2>1, <2>2 DEF ExpressionsAgree, Denotes
<1>4. PredicateMeansComparison'
  <2>1. Rand(0)' = [val |-> v, origin |-> o]
    BY <1>0 DEF Rand
  <2>2. CASE pre_symbolic
    <3>1. SI'.pred = NULL
      BY <2>2 DEF Shape, IdleBeforeInput
    <3> QED
      BY <3>1 DEF PredicateMeansComparison
  <2>3. CASE ~pre_symbolic
    <3>1. \A a : Consistent(a)' <=> Consistent(a)
      BY <1>1, SameConsistency
    <3>2. ASSUME o = "compare", SI'.pred # NULL, NEW a \in Assign, Consistent(a)'
          PROVE  Holds(SI'.pred, a) <=> v # 0
      BY <2>3, <3>1, <3>2 DEF EvaluatedSoundly
    <3> QED
      BY <1>0, <2>1, <2>3, <3>2 DEF PredicateMeansComparison, EvaluatedSoundly
  <2> QED
    BY <2>2, <2>3
<1>5. StackHasValues'
  <2>0. /\ Len(operands') = Len(operands) - n + 1
        /\ \A i \in 1 .. Len(operands) - n : operands'[i] = operands[i]
    BY PushedOperands DEF Shape
  <2>1. ASSUME ~pre_symbolic, NEW i \in 1 .. Len(operands')
        PROVE  SI'.stack[i].concrete = operands'[i].val
    <3>1. /\ Len(SI.stack) = Len(operands)
          /\ \A j \in 1 .. Len(operands) : SI.stack[j].concrete = operands[j].val
      BY <2>1 DEF Shape, StackMirrorsOperands, Sound, StackHasValues
    <3>2. /\ SI'.stack[Len(operands) - n + 1] = Operand(f, v)
          /\ \A j \in 1 .. Len(operands) - n : SI'.stack[j] = SI.stack[j]
      BY <2>1, <3>1 DEF Replaced
    <3>3. Operand(f, v).concrete = v
      BY DEF Operand
    <3>4. CASE i = Len(operands')
      BY <1>0, <2>0, <3>2, <3>3, <3>4
    <3>5. CASE i # Len(operands')
      <4> HIDE DEF Evaluated, ProgramState
      <4> DEFINE L == Len(operands)
                 m == Len(operands')
      <4>0. L \in Nat /\ m \in Nat /\ m = L - n + 1 /\ i \in 1 .. m /\ i # m
        BY <1>0, <2>0, <3>5
      <4>1. i \in 1 .. L - n /\ i \in 1 .. L
        <5> HIDE DEF L, m
        <5> QED
          BY <4>0
      <4> QED
        BY <2>0, <3>1, <3>2, <4>1
    <3> QED
      BY <3>4, <3>5
  <2> QED
    BY <2>1 DEF StackHasValues
<1> QED
  BY <1>2, <1>3, <1>4, <1>5 DEF Sound

-----------------------------------------------------------------------------
\* The last two operands are integers, and once an input has been read the
\* stack has an element for each.
LEMMA TopOperands ==
  ASSUME Shape, pc = "stmt"
  PROVE  /\ Len(operands) \in Nat
         /\ Len(operands) >= 1 => /\ Rand(0) \in [val : Values, origin : Origin]
                                 /\ Rand(0).val \in Values /\ Rand(0).val \in Int
         /\ Len(operands) >= 2 => /\ Rand(1) \in [val : Values, origin : Origin]
                                 /\ Rand(1).val \in Values /\ Rand(1).val \in Int
         /\ ~pre_symbolic =>
              /\ SI \in Machine
              /\ Len(SI.stack) = Len(operands)
              /\ Len(operands) >= 1 => Top(SI) \in StackElem
              /\ Len(operands) >= 2 => Second(SI) \in StackElem
<1>1. operands \in Seq([val : Values, origin : Origin])
  BY DEF Shape, TypeOK
<1>2. /\ Len(operands) \in Nat
      /\ \A i \in 1 .. Len(operands) : operands[i] \in [val : Values, origin : Origin]
  BY <1>1, LenProperties, ElementOfSeq
<1>3. ~pre_symbolic => SI \in Machine /\ Len(SI.stack) = Len(operands)
  BY DEF Shape, TypeOK, StackMirrorsOperands
<1>4. Values \subseteq Int
  BY ValuesAssumption DEF ValuesAssumption
<1>5. /\ Len(operands) >= 1 => Rand(0) \in [val : Values, origin : Origin]
      /\ Len(operands) >= 2 => Rand(1) \in [val : Values, origin : Origin]
  BY <1>2 DEF Rand
<1>6. ~pre_symbolic =>
        /\ Len(operands) >= 1 => Top(SI) \in StackElem
        /\ Len(operands) >= 2 => Second(SI) \in StackElem
  BY <1>3, TopElements
<1> QED
  BY <1>2, <1>3, <1>4, <1>5, <1>6

\* While no cast has changed a value they are the concrete values of the top
\* two elements.
LEMMA TopValues ==
  ASSUME Shape, StackHasValues, pc = "stmt", ~pre_symbolic
  PROVE  /\ Len(operands) >= 1 => Top(SI).concrete = Rand(0).val
         /\ Len(operands) >= 2 => Second(SI).concrete = Rand(1).val
<1>1. /\ Len(operands) \in Nat /\ Len(SI.stack) = Len(operands)
      /\ \A i \in 1 .. Len(operands) : SI.stack[i].concrete = operands[i].val
  BY TopOperands DEF StackHasValues
<1> QED
  BY <1>1 DEF Top, Second, Rand

\* An element of the stack has its concrete value under consistent assignments.
LEMMA StackDenotes ==
  ASSUME ExpressionsAgree, SI \in Machine, NEW a \in Assign, Consistent(a)
  PROVE  /\ Len(SI.stack) >= 1 /\ Top(SI).expr # NULL =>
              Top(SI).expr[a] = Top(SI).concrete
         /\ Len(SI.stack) >= 2 /\ Second(SI).expr # NULL =>
              Second(SI).expr[a] = Second(SI).concrete
<1>1. \A i \in 1 .. Len(SI.stack) :
        SI.stack[i].expr # NULL => SI.stack[i].expr[a] = SI.stack[i].concrete
  BY DEF ExpressionsAgree, Denotes
<1>2. Len(SI.stack) \in Nat
  BY TopElements
<1> QED
  BY <1>1, <1>2 DEF Top, Second

\* EvalLoad: the address's expression agrees with memory, so it agrees on the
\* stack.
LEMMA EvalLoadStep ==
  ASSUME Shape, NEW x \in Addr, EvalLoad(x)
  PROVE  Shape' /\ (Sound => Sound')
<1> DEFINE v == memory[x]
           f == IF pre_symbolic THEN NULL ELSE SI.mem[x]
<1>1. v \in Values /\ v \in Int /\ SI \in Machine
  BY ValuesAssumption DEF Shape, TypeOK, ValuesAssumption
<1>2. f \in Expr \cup {NULL}
  BY <1>1 DEF Machine
<1>3. UnlessPreSymbolic(Load(SI, x, v))
  BY DEF EvalLoad, CrestLoad
<1>4. Evaluated(0, f, v, "plain") /\ (~pre_symbolic => SI'.pred = NULL)
  <2>1. CASE pre_symbolic
    BY <1>3, <2>1, Callback DEF EvalLoad, InExpression, Evaluated, ProgramState
  <2>2. CASE ~pre_symbolic
    <3>1. SI' = Load(SI, x, v)
      BY <1>3, <2>2, Callback
    <3> QED
      BY <1>1, <1>3, <2>2, <3>1, LoadEffect, Callback
         DEF EvalLoad, InExpression, Evaluated, ProgramState
  <2> QED
    BY <2>1, <2>2
<1>5. Sound => EvaluatedSoundly(f, v, "plain")
  BY <1>4 DEF Sound, ExpressionsAgree, EvaluatedSoundly
<1>6. 0 \in Nat /\ 0 <= Len(operands) /\ "plain" \in Origin
  BY TopOperands DEF EvalLoad, InExpression, Origin
<1> HIDE DEF v, f
<1> QED
  BY <1>1, <1>2, <1>4, <1>5, <1>6, EvaluationShape, EvaluationSound

\* EvalConstant: address 0 is never in mem_, so the operand is concrete.
LEMMA EvalConstantStep ==
  ASSUME Shape, NEW v \in Literals, EvalConstant(v)
  PROVE  Shape' /\ (Sound => Sound')
<1>1. v \in Values /\ v \in Int /\ SI \in Machine
  BY ValuesAssumption DEF Shape, TypeOK, ValuesAssumption
<1>2. NoAddr \notin Addr
  BY NoAddrAssumption DEF NoAddrAssumption
<1>3. UnlessPreSymbolic(Load(SI, NoAddr, v))
  BY DEF EvalConstant, CrestLoad
<1>4. Evaluated(0, NULL, v, "plain") /\ (~pre_symbolic => SI'.pred = NULL)
  <2>1. CASE pre_symbolic
    BY <1>3, <2>1, Callback DEF EvalConstant, InExpression, Evaluated, ProgramState
  <2>2. CASE ~pre_symbolic
    <3>1. SI' = Load(SI, NoAddr, v)
      BY <1>3, <2>2, Callback
    <3> QED
      BY <1>1, <1>2, <1>3, <2>2, <3>1, LoadEffect, Callback
         DEF EvalConstant, InExpression, Evaluated, ProgramState
  <2> QED
    BY <2>1, <2>2
<1>5. EvaluatedSoundly(NULL, v, "plain")
  BY <1>4 DEF EvaluatedSoundly
<1>6. 0 \in Nat /\ 0 <= Len(operands) /\ "plain" \in Origin
  BY TopOperands DEF EvalConstant, InExpression, Origin
<1> QED
  BY <1>1, <1>4, <1>5, <1>6, EvaluationShape, EvaluationSound

\* EvalUnary: a negated form denotes the negated value; the other operators
\* leave no expression.
LEMMA EvalUnaryStep ==
  ASSUME Shape, NEW code \in UnaryCode, EvalUnary(code)
  PROVE  Shape' /\ (Sound => Sound')
<1> DEFINE x == Rand(0).val
           v == UnaryValue(code, x)
           o == UnaryOrigin
           op == kOpTable(code)
<1>1. /\ pc = "stmt" /\ Len(operands) >= 1 /\ v \in Values
      /\ UnlessPreSymbolic(ApplyUnaryOp(SI, op, v))
      /\ Push(1, v, o) /\ UNCHANGED << pc, ProgramState >>
  BY DEF EvalUnary, InExpression, CrestApply1, ProgramState
<1>2. /\ SI \in Machine /\ v \in Int
      /\ SI.pred = NULL \/ Top(SI).expr = NULL
  BY <1>1, ValuesAssumption DEF Shape, TypeOK, PredicateOnTop, ValuesAssumption
<1>3. 1 \in Nat /\ 1 <= Len(operands) /\ o \in Origin
  BY <1>1, TopOperands DEF Origin, UnaryOrigin
<1>4. op = "NEGATE" => v = -x
  BY DEF kOpTable, UnaryValue, UnaryCode, ConcreteCode, Unhandled
<1>5. CASE pre_symbolic
  <2>1. Evaluated(1, NULL, v, o) /\ EvaluatedSoundly(NULL, v, o)
    <3> HIDE DEF v, o, op
    <3> QED
      BY <1>1, <1>5, Callback DEF Evaluated, EvaluatedSoundly, ProgramState
  <2> HIDE DEF v, o
  <2> QED
    BY <1>1, <1>3, <2>1, EvaluationShape, EvaluationSound
<1>6. CASE ~pre_symbolic
  <2>1. SI' = ApplyUnaryOp(SI, op, v) /\ pre_symbolic' = pre_symbolic
    BY <1>1, <1>6, Callback
  <2>2. Len(SI.stack) >= 1 /\ x \in Int /\ Top(SI) \in StackElem
    BY <1>1, <1>6, TopOperands
  <2>2a. Sound => Top(SI).concrete = x
    BY <1>1, <1>6, TopValues DEF Sound
  <2> HIDE DEF v, o, op, x
  <2>3. PICK f \in Expr \cup {NULL} :
          /\ Replaced(SI, 1, Operand(f, v), SI')
          /\ f = NULL \/ /\ Top(SI).expr # NULL /\ op = "NEGATE"
                         /\ f = Opposite(Top(SI).expr)
          /\ Top(SI).expr = NULL => f = NULL
    BY <1>2, <2>1, <2>2, UnaryEffect
  <2>4. /\ SI' \in Machine /\ Unaffected(SI, SI') /\ SI'.mem = SI.mem
        /\ SI'.return_value = SI.return_value
        /\ SI'.pred # NULL => SI'.pred = SI.pred /\ f = NULL
    BY <1>2, <2>1, <2>2, <2>3, UnaryEffect
  <2>5. Evaluated(1, f, v, o)
    BY <1>1, <1>6, <2>1, <2>3, <2>4 DEF Evaluated, ProgramState
  <2>6. ASSUME Sound PROVE EvaluatedSoundly(f, v, o)
    <3>1. ASSUME f # NULL, NEW a \in Assign, Consistent(a)
          PROVE  f[a] = v
      <4>1. Top(SI).expr[a] = x
        BY <1>2, <2>2, <2>2a, <2>3, <2>6, <3>1, StackDenotes DEF Sound
      <4>2. f[a] = -(Top(SI).expr[a])
        BY <2>3, <3>1 DEF Opposite
      <4> QED
        BY <1>4, <2>3, <3>1, <4>1, <4>2
    <3>2. o = "plain" => SI'.pred = NULL
      <4>1. o = "plain" => Rand(0).origin = "plain"
        BY DEF o, UnaryOrigin
      <4>2. operands # << >>
        BY <1>3, EmptySeq
      <4> QED
        BY <1>1, <2>4, <2>6, <4>1, <4>2 DEF Sound, PredicateMeansComparison
    <3>3. o # "compare"
      BY DEF o, UnaryOrigin
    <3> QED
      BY <3>1, <3>2, <3>3 DEF EvaluatedSoundly, Denotes
  <2> QED
    BY <1>1, <1>3, <2>5, <2>6, EvaluationShape, EvaluationSound
<1> QED
  BY <1>5, <1>6

\* EvalBinary: sums, differences, scaled forms and shifts denote the program's
\* value; a product uses one operand at its concrete value.
LEMMA EvalBinaryStep ==
  ASSUME Shape, NEW code \in ArithmeticCode, NEW v \in Values, EvalBinary(code, v)
  PROVE  Shape' /\ (Sound => Sound')
<1> DEFINE x == Rand(1).val
           y == Rand(0).val
           op == kOpTable(code)
           f == IF pre_symbolic THEN NULL ELSE BinaryExpr(op, Second(SI), Top(SI))
<1>1. /\ pc = "stmt" /\ Len(operands) >= 2 /\ IsBinaryValue(code, x, y, v)
      /\ UnlessPreSymbolic(ApplyBinaryOp(SI, op, v))
      /\ Push(2, v, "plain") /\ UNCHANGED << pc, ProgramState >>
  BY DEF EvalBinary, InExpression, CrestApply2, ProgramState
<1>2. /\ SI \in Machine /\ v \in Int /\ x \in Int /\ y \in Values /\ y \in Int
  <2>1. SI \in Machine /\ v \in Int
    BY ValuesAssumption DEF Shape, TypeOK, ValuesAssumption
  <2>2. x \in Int /\ y \in Values /\ y \in Int
    BY <1>1, TopOperands
  <2> QED
    BY <2>1, <2>2
<1>3. 2 \in Nat /\ 2 <= Len(operands) /\ "plain" \in Origin
  BY <1>1, TopOperands DEF Origin
<1>4. op \in {"ADD", "SUBTRACT", "MULTIPLY", "SHIFT_L"} => op = code
  BY DEF kOpTable, ArithmeticCode, ConcreteCode, Unhandled
<1>5. CASE pre_symbolic
  <2>1. Evaluated(2, NULL, v, "plain") /\ EvaluatedSoundly(NULL, v, "plain")
    BY <1>1, <1>5, Callback DEF Evaluated, EvaluatedSoundly, ProgramState
  <2> QED
    BY <1>3, <2>1, EvaluationShape, EvaluationSound
<1>6. CASE ~pre_symbolic
  <2>1. SI' = ApplyBinaryOp(SI, op, v) /\ pre_symbolic' = pre_symbolic
    BY <1>1, <1>6, Callback
  <2>2. /\ Len(SI.stack) >= 2 /\ Len(SI.stack) >= 1
        /\ Top(SI) \in StackElem /\ Second(SI) \in StackElem
    BY <1>1, <1>6, TopOperands
  <2>3. Sound => Top(SI).concrete = y /\ Second(SI).concrete = x
    BY <1>1, <1>6, TopValues DEF Sound
  <2> HIDE DEF op, x, y
  <2>4. f = BinaryExpr(op, Second(SI), Top(SI)) /\ f \in Expr \cup {NULL}
    BY <1>6, <2>2, BinaryExprType, NullIsNotAnExpression
  <2> HIDE DEF f
  <2>5. /\ SI' \in Machine /\ Unaffected(SI, SI') /\ SI'.mem = SI.mem
        /\ SI'.return_value = SI.return_value /\ SI'.pred = NULL
        /\ Replaced(SI, 2, Operand(f, v), SI')
    BY <1>2, <2>1, <2>2, <2>4, BinaryEffect
  <2>6. Evaluated(2, f, v, "plain")
    BY <1>1, <1>6, <2>1, <2>5 DEF Evaluated, ProgramState
  <2>7. ASSUME Sound PROVE EvaluatedSoundly(f, v, "plain")
    <3>1. ASSUME f # NULL, NEW a \in Assign, Consistent(a)
          PROVE  f[a] = v
      <4>1. /\ Top(SI).expr # NULL => Top(SI).expr[a] = Top(SI).concrete
            /\ Second(SI).expr # NULL => Second(SI).expr[a] = Second(SI).concrete
        BY <1>2, <2>2, <2>7, <3>1, StackDenotes DEF Sound
      <4>2. /\ op \in {"ADD", "SUBTRACT", "MULTIPLY", "SHIFT_L"}
            /\ op = "ADD"      => f[a] = x + y
            /\ op = "SUBTRACT" => f[a] = x - y
            /\ op = "MULTIPLY" => f[a] = x * y
            /\ op = "SHIFT_L"  => f[a] = x * ShiftFactor(y)
        BY <2>2, <2>3, <2>4, <2>7, <3>1, <4>1, BinaryExprValue,
           NullIsNotAnExpression
      <4>3. /\ code = "ADD"      => v = x + y
            /\ code = "SUBTRACT" => v = x - y
            /\ code = "MULTIPLY" => v = x * y
            /\ code = "SHIFT_L"  => y \in 0 .. 30 /\ v = x * 2 ^ y
        BY <1>1 DEF IsBinaryValue
      <4>4. code = "SHIFT_L" => v = x * ShiftFactor(y)
        BY <1>2, <4>3, ShiftFactors
      <4> QED
        BY <1>4, <4>2, <4>3, <4>4
    <3> QED
      BY <2>5, <3>1 DEF EvaluatedSoundly, Denotes
  <2> QED
    BY <1>3, <2>4, <2>6, <2>7, EvaluationShape, EvaluationSound
<1> QED
  BY <1>5, <1>6

\* What Apply2 does for a comparison and for the operators it takes for one.
\* The register's predicate, if the right operand left none there, is that of
\* the comparison.
LEMMA ComparisonStep ==
  ASSUME Shape, NEW op \in CompareOp, NEW v \in Values, NEW o \in Origin,
         pc = "stmt", Len(operands) >= 2,
         UnlessPreSymbolic(ApplyCompareOp(SI, op, v)), Push(2, v, o),
         UNCHANGED << pc, ProgramState >>,
         o # "plain",
         Sound /\ ~Nested /\ o = "compare" =>
            /\ SI.pred = NULL
            /\ v # 0 <=> Compare(op, Rand(1).val, Rand(0).val)
  PROVE  Shape' /\ (Sound /\ ~Nested => Sound')
<1>1. /\ SI \in Machine /\ v \in Int
      /\ 2 \in Nat /\ 2 <= Len(operands)
  BY TopOperands, ValuesAssumption DEF Shape, TypeOK, ValuesAssumption
<1>2. CASE pre_symbolic
  <2>1. Evaluated(2, NULL, v, o) /\ EvaluatedSoundly(NULL, v, o)
    BY <1>2, Callback DEF Evaluated, EvaluatedSoundly
  <2> QED
    BY <1>1, <2>1, EvaluationShape, EvaluationSound
<1>3. CASE ~pre_symbolic
  <2>1. SI' = ApplyCompareOp(SI, op, v) /\ pre_symbolic' = pre_symbolic
    BY <1>3, Callback
  <2>2. /\ Len(SI.stack) >= 2 /\ Len(SI.stack) >= 1
        /\ Top(SI) \in StackElem /\ Second(SI) \in StackElem
    BY <1>3, TopOperands
  <2>3. /\ SI' \in Machine /\ Unaffected(SI, SI') /\ SI'.mem = SI.mem
        /\ SI'.return_value = SI.return_value
        /\ SI'.pred = ComparePred(SI, op, Second(SI), Top(SI))
        /\ Replaced(SI, 2, Operand(NULL, v), SI')
    BY <1>1, <2>1, <2>2, CompareEffect, NullIsNotAnExpression
  <2>4. Evaluated(2, NULL, v, o)
    BY <1>3, <2>1, <2>3 DEF Evaluated
  <2>5. ASSUME Sound, ~Nested PROVE EvaluatedSoundly(NULL, v, o)
    <3>0. Top(SI).concrete = Rand(0).val /\ Second(SI).concrete = Rand(1).val
      BY <1>3, <2>5, TopValues DEF Sound
    <3>1. ASSUME o = "compare", SI'.pred # NULL, NEW a \in Assign, Consistent(a)
          PROVE  Holds(SI'.pred, a) <=> v # 0
      <4>1. /\ Top(SI).expr # NULL => Top(SI).expr[a] = Top(SI).concrete
            /\ Second(SI).expr # NULL => Second(SI).expr[a] = Second(SI).concrete
        BY <1>1, <2>2, <2>5, <3>1, StackDenotes DEF Sound
      <4>2. Holds(SI'.pred, a)
              <=> Compare(op, Second(SI).concrete, Top(SI).concrete)
        BY <1>1, <2>2, <2>3, <2>5, <3>1, <4>1, ComparePredValue,
           NullIsNotAnExpression
      <4> QED
        BY <2>5, <3>0, <3>1, <4>2
    <3> QED
      BY <3>1 DEF EvaluatedSoundly
  <2> QED
    BY <1>1, <2>4, <2>5, EvaluationShape, EvaluationSound
<1> QED
  BY <1>2, <1>3

\* EvalCompare: the predicate left in the register is true exactly when the
\* comparison is.
LEMMA EvalCompareStep ==
  ASSUME Shape, NEW code \in CompareOp, EvalCompare(code)
  PROVE  Shape' /\ (Sound /\ ~Nested => Sound')
<1> DEFINE v == IF Compare(code, Rand(1).val, Rand(0).val) THEN 1 ELSE 0
<1>1. /\ pc = "stmt" /\ Len(operands) >= 2 /\ (Nested \/ Rand(0).origin = "plain")
      /\ CrestApply2(code, v) /\ Push(2, v, "compare")
      /\ UNCHANGED << pc, ProgramState >>
  BY DEF EvalCompare, InExpression, ProgramState
<1>2. v \in Values
  BY ValuesAssumption DEF ValuesAssumption
<1>3. UnlessPreSymbolic(ApplyCompareOp(SI, code, v))
  <2>1. code \notin ArithmeticCode /\ kOpTable(code) = code
    BY DEF ArithmeticCode, ConcreteCode, CompareOp, kOpTable, Unhandled
  <2> HIDE DEF v
  <2> QED
    BY <1>1, <2>1 DEF CrestApply2
<1>4. v # 0 <=> Compare(code, Rand(1).val, Rand(0).val)
  OBVIOUS
<1>5. Sound /\ ~Nested => SI.pred = NULL
  <2>1. operands # << >>
    BY <1>1, EmptySeq
  <2> QED
    BY <1>1, <2>1 DEF Sound, PredicateMeansComparison
<1>6. "compare" \in Origin
  BY DEF Origin
<1> HIDE DEF v
<1> QED
  BY <1>1, <1>2, <1>3, <1>4, <1>5, <1>6, ComparisonStep

\* EvalUnhandled: the result is concrete; the predicate it may leave belongs to
\* an operand that no branch consumes.
LEMMA EvalUnhandledStep ==
  ASSUME Shape, NEW v \in Foreign, EvalUnhandled(v)
  PROVE  Shape' /\ (Sound /\ ~Nested => Sound')
<1>1. /\ pc = "stmt" /\ Len(operands) >= 2
      /\ CrestApply2(Unhandled, v) /\ Push(2, v, "pointer")
      /\ UNCHANGED << pc, ProgramState >>
  BY DEF EvalUnhandled, InExpression, ProgramState
<1>2. v \in Values
  BY ValuesAssumption DEF ValuesAssumption
<1>3. UnlessPreSymbolic(ApplyCompareOp(SI, "LT", v))
  <2>1. Unhandled \notin ArithmeticCode
    BY DEF ArithmeticCode, ConcreteCode, Unhandled
  <2>2. kOpTable(Unhandled) = "LT"
    BY DEF ConcreteCode, kOpTable, Unhandled
  <2> QED
    BY <1>1, <2>1, <2>2 DEF CrestApply2
<1>4. "pointer" \in Origin /\ "LT" \in CompareOp
  BY DEF Origin, CompareOp
<1> QED
  BY <1>1, <1>2, <1>3, <1>4, ComparisonStep

\* EvalCast: the machine is not told, so the operand may part from the value on
\* the stack; the flag says so, unless nothing is symbolic yet.
LEMMA EvalCastStep ==
  ASSUME Shape, NEW conv \in Casts, EvalCast(conv)
  PROVE  /\ Shape'
         /\ ~converted' => ~converted
         /\ Sound /\ ~converted' => Sound'
<1> DEFINE v == conv[Rand(0).val]
           o == UnaryOrigin
<1>1. /\ pc = "stmt" /\ Len(operands) >= 1 /\ Push(1, v, o)
      /\ converted' = (converted \/ (~pre_symbolic /\ v # Rand(0).val))
      /\ UNCHANGED << SI, pre_symbolic, pc, memory, formals, frames, result,
                      execution >>
  BY DEF EvalCast, InExpression
<1>2. /\ Len(operands) \in Nat /\ Rand(0).val \in Values
      /\ Rand(0) = operands[Len(operands)]
      /\ operands # << >>
  BY <1>1, TopOperands, EmptySeq DEF Rand
<1>3. v \in Values /\ o \in Origin
  BY <1>1, <1>2, TopOperands, ValuesAssumption
     DEF ValuesAssumption, UnaryOrigin, Origin
<1>4. o = "plain" \/ o = "unary"
  BY DEF UnaryOrigin
<1>5. o = "plain" => Rand(0).origin = "plain"
  BY DEF UnaryOrigin
<1> HIDE DEF v, o
<1>6. /\ operands' \in Seq([val : Values, origin : Origin])
      /\ Len(operands') = Len(operands)
      /\ operands'[Len(operands)] = [val |-> v, origin |-> o]
      /\ \A i \in 1 .. Len(operands) - 1 : operands'[i] = operands[i]
  <2>1. 1 \in Nat /\ 1 <= Len(operands) /\ TypeOK
    BY <1>1 DEF Shape
  <2>2. /\ operands' \in Seq([val : Values, origin : Origin])
        /\ Len(operands') = Len(operands) - 1 + 1
        /\ operands'[Len(operands')] = [val |-> v, origin |-> o]
        /\ \A i \in 1 .. Len(operands) - 1 : operands'[i] = operands[i]
    BY <1>1, <1>3, <2>1, PushedOperands
  <2>3. Len(operands) - 1 + 1 = Len(operands)
    BY <1>2
  <2> QED
    BY <2>2, <2>3
<1>7. converted' \in BOOLEAN /\ (~converted' => ~converted)
  BY <1>1
<1>8. Shape'
  <2>1. TypeOK'
    BY <1>1, <1>6, <1>7 DEF Shape, TypeOK
  <2>2. IdleBeforeInput' /\ ControlOK' /\ NoAssertionFails' /\ PredicateOnTop'
    BY <1>1 DEF Shape, IdleBeforeInput, ControlOK, NoAssertionFails,
                PredicateOnTop, Top
  <2>3. StackMirrorsOperands'
    BY <1>1, <1>6 DEF Shape, StackMirrorsOperands
  <2> QED
    BY <2>1, <2>2, <2>3 DEF Shape
<1>9. ASSUME Sound, ~converted' PROVE Sound'
  <2>1. pre_symbolic \/ v = Rand(0).val
    BY <1>1, <1>9
  <2>2. UnreadInputsFit' /\ ExpressionsAgree' /\ ConstraintsHold'
    BY <1>1, <1>9 DEF Sound, UnreadInputsFit, ExpressionsAgree, ConstraintsHold,
                      Denotes, Consistent
  <2>3. StackHasValues'
    <3>1. ASSUME ~pre_symbolic, NEW i \in 1 .. Len(operands)
          PROVE  SI.stack[i].concrete = operands'[i].val
      <4>1. SI.stack[i].concrete = operands[i].val
        BY <1>1, <1>9, <3>1 DEF Sound, StackHasValues
      <4>2. operands'[i].val = operands[i].val
        BY <1>2, <1>6, <2>1, <3>1
      <4> QED
        BY <4>1, <4>2
    <3> QED
      BY <1>1, <1>6, <3>1 DEF StackHasValues
  <2>4. PredicateMeansComparison'
    <3>1. Rand(0)' = [val |-> v, origin |-> o]
      BY <1>2, <1>6 DEF Rand
    <3>2. operands' # << >>
      BY <1>1, <1>2, <1>6, EmptySeq
    <3>3. o = "plain" => SI.pred = NULL
      BY <1>1, <1>2, <1>5, <1>9 DEF Sound, PredicateMeansComparison
    <3> QED
      BY <1>1, <1>4, <3>1, <3>2, <3>3 DEF PredicateMeansComparison
  <2> QED
    BY <2>2, <2>3, <2>4 DEF Sound
<1> QED
  BY <1>7, <1>8, <1>9

-----------------------------------------------------------------------------
(***************************************************************************)
(* Statements and procedures.  They move symbolic values about together    *)
(* with the concrete ones.                                                 *)
(***************************************************************************)
Agreement == UnreadInputsFit /\ ExpressionsAgree /\ ConstraintsHold

Known(e, v) ==
  \/ \E i \in 1 .. Len(SI.stack) : SI.stack[i].expr = e /\ SI.stack[i].concrete = v
  \/ \E x \in Addr : SI.mem[x] = e /\ memory[x] = v

\* The symbolic state still agrees if every expression of the new stack and
\* mem_ was known before with the same value.
LEMMA AgreementKept ==
  ASSUME Agreement, SameInputs(SI, SI'), SI'.constraints = SI.constraints,
         \A i \in 1 .. Len(SI'.stack) :
           SI'.stack[i].expr # NULL => Known(SI'.stack[i].expr, SI'.stack[i].concrete),
         \A x \in Addr : SI'.mem[x] # NULL => Known(SI'.mem[x], memory'[x])
  PROVE  Agreement'
<1>1. \A a : Consistent(a)' <=> Consistent(a)
  BY SameConsistency
<1>2. ASSUME NEW e, e # NULL, NEW v, Known(e, v), NEW a \in Assign, Consistent(a)
      PROVE  e[a] = v
  BY <1>2 DEF Agreement, ExpressionsAgree, Known, Denotes
<1>3. ExpressionsAgree'
  BY <1>1, <1>2 DEF ExpressionsAgree, Denotes
<1>4. UnreadInputsFit' /\ ConstraintsHold'
  BY SameConsistency, SamePathHolds DEF Agreement
<1> QED
  BY <1>3, <1>4 DEF Agreement

\* In particular when the stack and mem_ stay as they are.
LEMMA AgreementUndisturbed ==
  ASSUME Agreement, SameInputs(SI, SI'), SI'.constraints = SI.constraints,
         SI'.stack = SI.stack, SI'.mem = SI.mem, memory' = memory
  PROVE  Agreement'
BY AgreementKept DEF Known

\* The last of a sequence is a member, and taking it off leaves a sequence.
LEMMA WithoutLast ==
  ASSUME NEW S, NEW seq \in Seq(S), Len(seq) >= 1
  PROVE  LET rest == SubSeq(seq, 1, Len(seq) - 1)
         IN  /\ Len(seq) \in Nat /\ seq[Len(seq)] \in S
             /\ rest \in Seq(S) /\ Len(rest) = Len(seq) - 1
             /\ \A i \in 1 .. Len(seq) - 1 : rest[i] = seq[i]
<1>1. Len(seq) \in Nat /\ \A i \in 1 .. Len(seq) : seq[i] \in S
  BY LenProperties, ElementOfSeq
<1> DEFINE n == Len(seq) - 1
           rest == SubSeq(seq, 1, n)
<1>2. n \in Nat /\ seq[Len(seq)] \in S /\ \A i \in 1 .. n : seq[i] \in S
  BY <1>1
<1>3. /\ rest \in Seq(S) /\ Len(rest) = n
      /\ \A i \in 1 .. n : rest[i] = seq[i]
  <2> HIDE DEF n
  <2>1. Len(rest) = n
    BY <1>2, SubSeqProperties
  <2>2. rest \in Seq(S)
    BY <1>2, SubSeqProperties
  <2>3. \A i \in 1 .. n : rest[i] = seq[i]
    <3>1. \A i \in 1 .. n - 1 + 1 : rest[i] = seq[1 + i - 1]
      BY <1>2, SubSeqProperties
    <3> QED
      BY <1>2, <3>1
  <2> QED
    BY <2>1, <2>2, <2>3
<1> QED
  BY <1>1, <1>2, <1>3

\* Start: __CrestCall appends a mark and nothing else.
LEMMA StartStep ==
  ASSUME Shape, Start
  PROVE  Shape' /\ (Sound => Sound')
<1>1. /\ pc = "start" /\ pc' = "stmt" /\ SI' = Call(SI)
      /\ UNCHANGED << pre_symbolic, operands, ProgramState >>
  BY DEF Start, CrestCall, ProgramState
<1>2. SI \in Machine
  BY DEF Shape, TypeOK
<1>3. /\ SI' \in Machine
      /\ SameInputs(SI, SI') /\ SameState(SI, SI') /\ SameConstraints(SI, SI')
      /\ SI'.aborted = SI.aborted /\ SI'.return_value = SI.return_value
  BY <1>1, <1>2, CallEffect
<1>4. /\ pre_symbolic /\ operands = << >> /\ SI.pred = NULL
  BY <1>1 DEF Shape, ControlOK, IdleBeforeInput
<1>5. Shape'
  BY <1>1, <1>3, <1>4
     DEF Shape, TypeOK, NoAssertionFails, IdleBeforeInput, ControlOK,
         StackMirrorsOperands, PredicateOnTop, Top, ProgramState, SameInputs,
         SameState
<1>6. Sound => Sound'
  BY <1>1, <1>3, <1>4, AgreementUndisturbed
     DEF Sound, Agreement, StackHasValues, PredicateMeansComparison,
         ProgramState, SameState, SameConstraints
<1> QED
  BY <1>5, <1>6

\* CallInstrumented: the operands stay on the stack for the callee's formals.
LEMMA CallInstrumentedStep ==
  ASSUME Shape, NEW n \in Nat, NEW params \in [1 .. n -> Addr],
         NEW dest \in Addr \cup {NoAddr}, CallInstrumented(params, dest)
  PROVE  Shape' /\ (Sound => Sound')
<1>1. /\ pc = "stmt" /\ pc' = "entry" /\ SI' = Call(SI)
      /\ Len(params) = Len(operands) /\ formals' = params
      /\ frames' = Append(frames, dest)
      /\ UNCHANGED << pre_symbolic, memory, operands, result, execution, converted >>
  BY DEF CallInstrumented, InExpression, CrestCall
<1>2. SI \in Machine
  BY DEF Shape, TypeOK
<1>3. /\ SI' \in Machine
      /\ SameInputs(SI, SI') /\ SameState(SI, SI') /\ SameConstraints(SI, SI')
      /\ SI'.aborted = SI.aborted /\ SI'.return_value = SI.return_value
  BY <1>1, <1>2, CallEffect
<1>4. formals' \in Seq(Addr) /\ frames' \in Seq(Addr \cup {NoAddr})
  <2>1. params \in Seq(Addr)
    BY SeqDef
  <2> QED
    BY <1>1, <2>1, AppendProperties DEF Shape, TypeOK
<1>5. Shape'
  BY <1>1, <1>3, <1>4
     DEF Shape, TypeOK, NoAssertionFails, IdleBeforeInput, ControlOK,
         StackMirrorsOperands, PredicateOnTop, Top, SameInputs, SameState
<1>6. Sound => Sound'
  <2>1. \A a : Consistent(a)' <=> Consistent(a)
    BY <1>3, SameConsistency
  <2>2. Sound => PredicateMeansComparison'
    BY <1>1, <1>3, <2>1 DEF Sound, PredicateMeansComparison, SameState, Rand
  <2>3. Sound => StackHasValues'
    BY <1>1, <1>3 DEF Sound, StackHasValues, SameState
  <2> QED
    BY <1>1, <1>3, <2>2, <2>3, AgreementUndisturbed
       DEF Sound, Agreement, SameState, SameConstraints
<1> QED
  BY <1>5, <1>6

\* The machine has its type, so its stack has a length.
LEMMA MachineType ==
  ASSUME Shape
  PROVE  SI \in Machine /\ Len(SI.stack) \in Nat
BY TopElements DEF Shape, TypeOK

\* A store moves the top of the stack to an address, in the machine and in the
\* program's memory.
LEMMA Stored ==
  ASSUME Shape, NEW x \in Addr, NEW v \in Values,
         UnlessPreSymbolic(Store(SI, x)), memory' = [memory EXCEPT ![x] = v],
         ~pre_symbolic => Len(SI.stack) >= 1
  PROVE  /\ SI' \in Machine /\ pre_symbolic' = pre_symbolic
         /\ memory' \in [Addr -> Values]
         /\ SameInputs(SI, SI') /\ SI'.aborted = SI.aborted
         /\ SI'.return_value = SI.return_value /\ SI'.pred = NULL
         /\ pre_symbolic => SI' = SI
         /\ ~pre_symbolic =>
              /\ Len(SI'.stack) = Len(SI.stack) - 1
              /\ \A i \in 1 .. Len(SI.stack) - 1 : SI'.stack[i] = SI.stack[i]
         /\ Agreement /\ (~pre_symbolic => Top(SI).concrete = v) => Agreement'
<1>1. SI \in Machine /\ memory \in [Addr -> Values]
  BY DEF Shape, TypeOK
<1>2. CASE pre_symbolic
  <2>1. SI' = SI /\ pre_symbolic' = pre_symbolic
    BY <1>2, Callback
  <2>2. /\ SI.stack = << >> /\ SI.pred = NULL
        /\ \A y \in Addr : SI.mem[y] = NULL
    BY <1>2 DEF Shape, IdleBeforeInput
  <2>3. Len(SI'.stack) = 0
    BY <2>1, <2>2, EmptySeq
  <2>4. Agreement => Agreement'
    BY <2>1, <2>2, <2>3, AgreementKept DEF SameInputs
  <2> QED
    BY <1>1, <1>2, <2>1, <2>2, <2>4 DEF SameInputs
<1>3. CASE ~pre_symbolic
  <2>1. SI' = Store(SI, x) /\ pre_symbolic' = pre_symbolic
    BY <1>3, Callback
  <2>2. /\ SI' \in Machine /\ Unaffected(SI, SI')
        /\ SI'.return_value = SI.return_value /\ SI'.pred = NULL
        /\ SI'.stack = Popped(SI, 1)
        /\ SI'.mem[x] \in {NULL, Top(SI).expr}
        /\ \A y \in Addr \ {x} : SI'.mem[y] = SI.mem[y]
    BY <1>1, <1>3, <2>1, StoreEffect
  <2>3. /\ Len(SI.stack) \in Nat
        /\ Len(SI'.stack) = Len(SI.stack) - 1
        /\ \A i \in 1 .. Len(SI.stack) - 1 : SI'.stack[i] = SI.stack[i]
    <3>1. 1 \in Nat /\ 1 <= Len(SI.stack)
      BY <1>3
    <3>2. /\ Len(Popped(SI, 1)) = Len(SI.stack) - 1
          /\ \A i \in 1 .. Len(SI.stack) - 1 : Popped(SI, 1)[i] = SI.stack[i]
      BY <1>1, <3>1, PoppedStack
    <3>3. Len(SI.stack) \in Nat
      BY <1>1, TopElements
    <3> QED
      BY <2>2, <3>2, <3>3
  <2>4. ASSUME NEW i \in 1 .. Len(SI'.stack)
        PROVE  Known(SI'.stack[i].expr, SI'.stack[i].concrete)
    BY <2>3 DEF Known
  <2>5. ASSUME Top(SI).concrete = v, NEW y \in Addr, SI'.mem[y] # NULL
        PROVE  Known(SI'.mem[y], memory'[y])
    <3>1. CASE y # x
      BY <1>1, <2>2, <3>1 DEF Known
    <3>2. CASE y = x
      <4>1. SI'.mem[y] = Top(SI).expr /\ memory'[y] = Top(SI).concrete
        BY <1>1, <2>2, <2>5, <3>2
      <4>2. Len(SI.stack) \in 1 .. Len(SI.stack)
        BY <1>3, <2>3
      <4> QED
        BY <4>1, <4>2 DEF Known, Top
    <3> QED
      BY <3>1, <3>2
  <2>6. Agreement /\ Top(SI).concrete = v => Agreement'
    BY <2>2, <2>4, <2>5, AgreementKept DEF Unaffected, SamePath
  <2> QED
    BY <1>1, <1>3, <2>1, <2>2, <2>3, <2>6 DEF Unaffected
<1> QED
  BY <1>2, <1>3

\* Assignment: the stored expression denotes the stored value.
LEMMA AssignmentStep ==
  ASSUME Shape, NEW x \in Addr, Assignment(x)
  PROVE  Shape' /\ (Sound => Sound')
<1> DEFINE v == Rand(0).val
<1>1. /\ pc = "stmt" /\ pc' = "stmt" /\ Len(operands) = 1
      /\ UnlessPreSymbolic(Store(SI, x)) /\ memory' = [memory EXCEPT ![x] = v]
      /\ operands' = << >> /\ UNCHANGED << formals, frames, result, execution, converted >>
  BY DEF Assignment, CrestStore
<1>2. v \in Values /\ (~pre_symbolic => Len(SI.stack) = 1)
  BY <1>1, TopOperands
<1>2a. Sound /\ ~pre_symbolic => Top(SI).concrete = v
  BY <1>1, TopValues DEF Sound
<1> HIDE DEF v
<1>3. /\ SI' \in Machine /\ pre_symbolic' = pre_symbolic
      /\ memory' \in [Addr -> Values]
      /\ SameInputs(SI, SI') /\ SI'.aborted = SI.aborted
      /\ SI'.return_value = SI.return_value /\ SI'.pred = NULL
      /\ pre_symbolic => SI' = SI
      /\ ~pre_symbolic => Len(SI'.stack) = 0
      /\ Sound => Agreement'
  <2>1. ~pre_symbolic => Len(SI.stack) >= 1
    <3>1. ASSUME ~pre_symbolic PROVE Len(SI.stack) >= 1
      <4>1. Len(SI.stack) = 1
        BY <1>2, <3>1
      <4> QED
        BY <4>1
    <3> QED
      BY <3>1
  <2>2. ~pre_symbolic => Len(SI'.stack) = Len(SI.stack) - 1
    BY <1>1, <1>2, <2>1, Stored
  <2>3. ~pre_symbolic => Len(SI'.stack) = 0
    <3>1. ASSUME ~pre_symbolic PROVE Len(SI'.stack) = 0
      <4>1. Len(SI.stack) = 1 /\ Len(SI'.stack) = Len(SI.stack) - 1
        BY <1>2, <2>2, <3>1
      <4> QED
        BY <4>1
    <3> QED
      BY <3>1
  <2>4. Sound => Agreement
    BY DEF Sound, Agreement
  <2> QED
    BY <1>1, <1>2, <1>2a, <2>1, <2>3, <2>4, Stored
<1>4. << >> \in Seq([val : Values, origin : Origin]) /\ Len(<< >>) = 0
  BY EmptySeq
<1>5. Shape'
  <2>1. TypeOK'
    BY <1>1, <1>3, <1>4 DEF Shape, TypeOK, SameInputs
  <2>2. StackMirrorsOperands'
    BY <1>1, <1>3, <1>4 DEF Shape, StackMirrorsOperands
  <2> QED
    BY <1>1, <1>3, <2>1, <2>2
       DEF Shape, NoAssertionFails, IdleBeforeInput, ControlOK, PredicateOnTop
<1>6. Sound => Sound'
  <2>1. StackHasValues'
    BY <1>1, <1>4 DEF StackHasValues
  <2> QED
    BY <1>1, <1>3, <2>1 DEF Sound, Agreement, PredicateMeansComparison
<1> QED
  BY <1>5, <1>6

\* StoreResult: the result left on the stack is stored where memory gets it.
LEMMA StoreResultStep ==
  ASSUME Shape, StoreResult
  PROVE  Shape' /\ (Sound => Sound')
<1> DEFINE x == frames[Len(frames)]
<1>1. /\ pc = "handled" /\ pc' = "stmt"
      /\ UnlessPreSymbolic(Store(SI, x)) /\ memory' = [memory EXCEPT ![x] = result]
      /\ frames' = SubSeq(frames, 1, Len(frames) - 1) /\ result' = 0
      /\ UNCHANGED << operands, formals, execution, converted >>
  BY DEF StoreResult, CrestStore
<1>2. x \in Addr /\ frames # << >> /\ operands = << >>
  BY <1>1 DEF Shape, ControlOK
<1>3. /\ ~pre_symbolic => Len(SI.stack) = 1
      /\ Sound /\ ~pre_symbolic => Top(SI).concrete = result
  BY <1>1 DEF Shape, StackMirrorsOperands, Sound, StackHasValues, Top
<1>4. result \in Values /\ 0 \in Values /\ frames \in Seq(Addr \cup {NoAddr})
  BY ValuesAssumption DEF Shape, TypeOK, ValuesAssumption
<1>5. frames' \in Seq(Addr \cup {NoAddr})
  <2>1. Len(frames) >= 1
    BY <1>2, <1>4, EmptySeq
  <2> QED
    BY <1>1, <1>4, <2>1, WithoutLast
<1> HIDE DEF x
<1>6. /\ SI' \in Machine /\ pre_symbolic' = pre_symbolic
      /\ memory' \in [Addr -> Values]
      /\ SameInputs(SI, SI') /\ SI'.aborted = SI.aborted
      /\ SI'.return_value = SI.return_value /\ SI'.pred = NULL
      /\ pre_symbolic => SI' = SI
      /\ ~pre_symbolic => Len(SI'.stack) = 0
      /\ Sound => Agreement'
  <2>1. ~pre_symbolic => Len(SI.stack) >= 1
    <3>1. ASSUME ~pre_symbolic PROVE Len(SI.stack) >= 1
      <4>1. Len(SI.stack) = 1
        BY <1>3, <3>1
      <4> QED
        BY <4>1
    <3> QED
      BY <3>1
  <2>2. ~pre_symbolic => Len(SI'.stack) = Len(SI.stack) - 1
    BY <1>1, <1>2, <1>4, <2>1, Stored
  <2>3. ~pre_symbolic => Len(SI'.stack) = 0
    <3>1. ASSUME ~pre_symbolic PROVE Len(SI'.stack) = 0
      <4>1. Len(SI.stack) = 1 /\ Len(SI'.stack) = Len(SI.stack) - 1
        BY <1>3, <2>2, <3>1
      <4> QED
        BY <4>1
    <3> QED
      BY <3>1
  <2>4. Sound => Agreement
    BY DEF Sound, Agreement
  <2> QED
    BY <1>1, <1>2, <1>3, <1>4, <2>1, <2>3, <2>4, Stored
<1>7. Shape'
  <2>1. TypeOK'
    BY <1>1, <1>4, <1>5, <1>6 DEF Shape, TypeOK, SameInputs
  <2>2. StackMirrorsOperands'
    <3>1. Len(operands') = 0
      BY <1>1, <1>2, EmptySeq
    <3> QED
      BY <1>1, <1>6, <3>1 DEF Shape, StackMirrorsOperands
  <2> QED
    BY <1>1, <1>2, <1>6, <2>1, <2>2
       DEF Shape, NoAssertionFails, IdleBeforeInput, ControlOK, PredicateOnTop
<1>8. Sound => Sound'
  <2>1. Len(operands') = 0
    BY <1>1, <1>2, EmptySeq
  <2>2. StackHasValues'
    BY <1>1, <2>1 DEF StackHasValues
  <2> QED
    BY <1>1, <1>2, <1>6, <2>2 DEF Sound, Agreement, PredicateMeansComparison
<1> QED
  BY <1>7, <1>8

\* StoreFormal: formals are stored from the last, as the stack is popped.
LEMMA StoreFormalStep ==
  ASSUME Shape, StoreFormal
  PROVE  Shape' /\ (Sound => Sound')
<1> DEFINE x == formals[Len(formals)]
           v == Rand(0).val
           T == [val : Values, origin : Origin]
<1>1. /\ pc = "entry" /\ pc' = "entry" /\ formals # << >>
      /\ UnlessPreSymbolic(Store(SI, x)) /\ memory' = [memory EXCEPT ![x] = v]
      /\ operands' = SubSeq(operands, 1, Len(operands) - 1)
      /\ formals' = SubSeq(formals, 1, Len(formals) - 1)
      /\ UNCHANGED << frames, result, execution, converted >>
  BY DEF StoreFormal, CrestStore
<1>2. /\ operands \in Seq(T) /\ formals \in Seq(Addr)
      /\ Len(formals) = Len(operands)
  BY <1>1 DEF Shape, TypeOK, ControlOK
<1>3. /\ Len(formals) >= 1 /\ x \in Addr /\ formals' \in Seq(Addr)
      /\ Len(formals') = Len(formals) - 1
  <2>1. Len(formals) >= 1
    BY <1>1, <1>2, EmptySeq
  <2> QED
    BY <1>1, <1>2, <2>1, WithoutLast
<1>4. /\ Len(operands) \in Nat /\ Len(operands) >= 1
      /\ operands[Len(operands)] \in T
      /\ operands' \in Seq(T) /\ Len(operands') = Len(operands) - 1
      /\ \A i \in 1 .. Len(operands) - 1 : operands'[i] = operands[i]
  <2>1. Len(operands) >= 1
    BY <1>2, <1>3
  <2> QED
    BY <1>1, <1>2, <2>1, WithoutLast
<1>5. v \in Values
  BY <1>4 DEF Rand
<1>6. ~pre_symbolic => Len(SI.stack) = Len(operands) /\ Len(SI.stack) >= 1
  BY <1>1, <1>4 DEF Shape, StackMirrorsOperands
<1>6a. ASSUME Sound, ~pre_symbolic
       PROVE  /\ Top(SI).concrete = v
              /\ \A i \in 1 .. Len(operands) - 1 :
                   SI.stack[i].concrete = operands[i].val
  <2>1. \A i \in 1 .. Len(operands) : SI.stack[i].concrete = operands[i].val
    BY <1>1, <1>6a DEF Sound, StackHasValues
  <2> QED
    BY <1>4, <1>6, <1>6a, <2>1 DEF Top, Rand
<1> HIDE DEF x, v
<1>7. /\ SI' \in Machine /\ pre_symbolic' = pre_symbolic
      /\ memory' \in [Addr -> Values]
      /\ SameInputs(SI, SI') /\ SI'.aborted = SI.aborted
      /\ SI'.return_value = SI.return_value /\ SI'.pred = NULL
      /\ pre_symbolic => SI' = SI
      /\ Sound => Agreement'
  <2>1. Sound => Agreement
    BY DEF Sound, Agreement
  <2> QED
    BY <1>1, <1>3, <1>5, <1>6, <1>6a, <2>1, Stored
<1>8. ASSUME ~pre_symbolic
      PROVE  /\ Len(SI'.stack) = Len(SI.stack) - 1
             /\ \A i \in 1 .. Len(SI.stack) - 1 : SI'.stack[i] = SI.stack[i]
  BY <1>1, <1>3, <1>5, <1>6, <1>8, Stored
<1>9. Shape'
  <2>1. TypeOK'
    BY <1>1, <1>3, <1>4, <1>7 DEF Shape, TypeOK, SameInputs
  <2>2. StackMirrorsOperands'
    <3>1. ~SI'.return_value
      BY <1>1, <1>7 DEF Shape, StackMirrorsOperands
    <3>2. ASSUME ~pre_symbolic PROVE Len(SI'.stack) = Len(operands')
      BY <1>4, <1>6, <1>8, <3>2
    <3> QED
      BY <1>1, <1>7, <3>1, <3>2 DEF StackMirrorsOperands
  <2>3. ControlOK'
    BY <1>1, <1>2, <1>3, <1>4 DEF ControlOK
  <2> QED
    BY <1>1, <1>7, <2>1, <2>2, <2>3
       DEF Shape, NoAssertionFails, IdleBeforeInput, PredicateOnTop
<1>10. ASSUME Sound PROVE Sound'
  <2>1. ASSUME ~pre_symbolic, NEW i \in 1 .. Len(operands')
        PROVE  SI'.stack[i].concrete = operands'[i].val
    <3>1. i \in 1 .. Len(operands) - 1
      BY <1>4
    <3> QED
      BY <1>4, <1>6, <1>6a, <1>8, <1>10, <2>1, <3>1
  <2>2. StackHasValues'
    BY <1>1, <1>7, <2>1 DEF StackHasValues
  <2> QED
    BY <1>1, <1>7, <1>10, <2>2 DEF Sound, Agreement, PredicateMeansComparison
<1> QED
  BY <1>9, <1>10

\* EnterBody: with every formal stored the stack is empty.
LEMMA EnterBodyStep ==
  ASSUME Shape, EnterBody
  PROVE  Shape' /\ (Sound => Sound')
<1>1. /\ pc = "entry" /\ pc' = "stmt"
      /\ UNCHANGED << SI, pre_symbolic, operands, ProgramState >>
  BY DEF EnterBody, ProgramState
<1>2. Shape'
  BY <1>1 DEF Shape, TypeOK, NoAssertionFails, IdleBeforeInput, ControlOK,
              StackMirrorsOperands, PredicateOnTop, Top, ProgramState
<1>3. Sound => PredicateMeansComparison'
  BY <1>1 DEF Sound, PredicateMeansComparison, Consistent, Rand
<1>4. Sound => Agreement'
  BY <1>1, AgreementUndisturbed DEF Sound, Agreement, SameInputs, ProgramState
<1>5. Sound => StackHasValues'
  BY <1>1 DEF Sound, StackHasValues
<1> QED
  BY <1>2, <1>3, <1>4, <1>5 DEF Sound, Agreement

\* CallUninstrumented: the arguments may stay on the stack until the
\* caller clears it.
LEMMA CallUninstrumentedStep ==
  ASSUME Shape, NEW dest \in Addr \cup {NoAddr}, NEW v \in Foreign,
         CallUninstrumented(dest, v)
  PROVE  Shape' /\ (Sound => Sound')
<1>1. /\ pc = "stmt" /\ pc' = "returned" /\ operands' = << >> /\ result' = v
      /\ frames' = Append(frames, dest)
      /\ UNCHANGED << SI, pre_symbolic, memory, formals, execution, converted >>
  BY DEF CallUninstrumented, InExpression
<1>2. v \in Values
  BY ValuesAssumption DEF ValuesAssumption
<1>3. /\ frames' \in Seq(Addr \cup {NoAddr}) /\ frames' # << >>
      /\ << >> \in Seq([val : Values, origin : Origin])
  <2>1. frames \in Seq(Addr \cup {NoAddr})
    BY DEF Shape, TypeOK
  <2>2. /\ frames' \in Seq(Addr \cup {NoAddr}) /\ Len(frames') = Len(frames) + 1
        /\ Len(frames) \in Nat
    BY <1>1, <2>1, AppendProperties, LenProperties
  <2>3. Len(frames') # 0
    BY <2>2
  <2> QED
    BY <2>2, <2>3, EmptySeq
<1>4. ~SI.return_value
  BY <1>1 DEF Shape, StackMirrorsOperands
<1>5. Shape'
  BY <1>1, <1>2, <1>3, <1>4
     DEF Shape, TypeOK, NoAssertionFails, IdleBeforeInput, ControlOK,
         StackMirrorsOperands, PredicateOnTop, Top
<1>6. Sound => Agreement'
  BY <1>1, AgreementUndisturbed DEF Sound, Agreement, SameInputs
<1>7. PredicateMeansComparison' /\ StackHasValues'
  BY <1>1, <1>4 DEF PredicateMeansComparison, StackHasValues
<1> QED
  BY <1>5, <1>6, <1>7 DEF Sound, Agreement

\* A function that returns with at most one operand leaves at most that one on
\* the stack.
LEMMA Returned ==
  ASSUME Shape, pc = "stmt", Len(operands) <= 1, CrestReturn
  PROVE  /\ SI' \in Machine /\ pre_symbolic' = pre_symbolic
         /\ SameInputs(SI, SI') /\ SameState(SI, SI') /\ SameConstraints(SI, SI')
         /\ SI'.aborted = SI.aborted
         /\ SI'.return_value = (Len(SI.stack) = 1)
         /\ pre_symbolic => ~SI'.return_value
         /\ ~pre_symbolic => Len(SI.stack) = Len(operands)
<1>1. SI \in Machine /\ SI' = Return(SI) /\ pre_symbolic' = pre_symbolic
  BY DEF Shape, TypeOK, CrestReturn
<1>2. ~pre_symbolic => Len(SI.stack) = Len(operands)
  BY TopOperands
<1>3. pre_symbolic => Len(SI.stack) = 0
  BY EmptySeq DEF Shape, IdleBeforeInput
<1>4. Len(SI.stack) <= 1
  <2>1. CASE pre_symbolic
    <3>1. Len(SI.stack) = 0
      BY <1>3, <2>1
    <3> QED
      BY <3>1
  <2>2. CASE ~pre_symbolic
    BY <1>2, <2>2
  <2> QED
    BY <2>1, <2>2
<1>5. pre_symbolic => Len(SI.stack) # 1
  <2>1. 0 # 1
    OBVIOUS
  <2> QED
    BY <1>3, <2>1
<1> QED
  BY <1>1, <1>2, <1>4, <1>5, ReturnEffect

\* ReturnFromCall: the flag says whether a value is left on the stack.
LEMMA ReturnFromCallStep ==
  ASSUME Shape, ReturnFromCall
  PROVE  Shape' /\ (Sound => Sound')
<1>1. /\ pc = "stmt" /\ pc' = "returned" /\ frames # << >>
      /\ operands' = << >> /\ CrestReturn
      /\ \/ Len(operands) = 1 /\ result' = Rand(0).val
         \/ Len(operands) = 0 /\ result' = result
      /\ UNCHANGED << memory, formals, frames, execution, converted >>
  BY DEF ReturnFromCall
<1>2. Len(operands) <= 1
  <2>1. CASE Len(operands) = 1
    BY <2>1
  <2>2. CASE Len(operands) = 0
    BY <2>2
  <2> QED
    BY <1>1, <2>1, <2>2
<1>3. /\ SI' \in Machine /\ pre_symbolic' = pre_symbolic
      /\ SameInputs(SI, SI') /\ SameState(SI, SI') /\ SameConstraints(SI, SI')
      /\ SI'.aborted = SI.aborted
      /\ SI'.return_value = (Len(SI.stack) = 1)
      /\ pre_symbolic => ~SI'.return_value
      /\ ~pre_symbolic => Len(SI.stack) = Len(operands)
  BY <1>1, <1>2, Returned
<1>4. result' \in Values /\ << >> \in Seq([val : Values, origin : Origin])
  <2>1. CASE Len(operands) = 1 /\ result' = Rand(0).val
    BY <1>1, <2>1, TopOperands, EmptySeq
  <2>2. CASE result' = result
    BY <2>2, EmptySeq DEF Shape, TypeOK
  <2> QED
    BY <1>1, <2>1, <2>2
<1>5. ASSUME SI'.return_value
      PROVE  /\ Len(SI'.stack) = 1
             /\ Sound => SI'.stack[1].concrete = result'
  <2>1. ~pre_symbolic /\ Len(SI.stack) = 1
    BY <1>3, <1>5
  <2>2. Len(operands) = 1
    BY <1>3, <2>1
  <2>3. result' = Rand(0).val
    BY <1>1, <2>2
  <2>4. Sound => Top(SI).concrete = Rand(0).val
    BY <1>1, <2>1, <2>2, TopValues DEF Sound
  <2> QED
    BY <1>3, <2>1, <2>3, <2>4 DEF SameState, Top
<1>6. Shape'
  <2>1. TypeOK'
    BY <1>1, <1>3, <1>4 DEF Shape, TypeOK, SameInputs
  <2>2. IdleBeforeInput'
    BY <1>3 DEF Shape, IdleBeforeInput, SameState
  <2>3. ControlOK' /\ NoAssertionFails'
    BY <1>1, <1>3 DEF Shape, ControlOK, NoAssertionFails
  <2>4. StackMirrorsOperands'
    BY <1>1, <1>5 DEF StackMirrorsOperands
  <2>5. PredicateOnTop'
    BY <1>3 DEF Shape, PredicateOnTop, SameState, Top
  <2> QED
    BY <2>1, <2>2, <2>3, <2>4, <2>5 DEF Shape
<1>7. Sound => Agreement'
  BY <1>1, <1>3, AgreementUndisturbed
     DEF Sound, Agreement, SameState, SameConstraints
<1>8. Sound => PredicateMeansComparison' /\ StackHasValues'
  BY <1>1, <1>5 DEF PredicateMeansComparison, StackHasValues
<1> QED
  BY <1>6, <1>7, <1>8 DEF Sound, Agreement

\* ReturnFromMain: main leaves at most one value.
LEMMA ReturnFromMainStep ==
  ASSUME Shape, ReturnFromMain
  PROVE  Shape' /\ (Sound => Sound')
<1>1. /\ pc = "stmt" /\ pc' = "exiting" /\ Len(operands) <= 1
      /\ operands' = << >> /\ CrestReturn
      /\ UNCHANGED ProgramState
  BY DEF ReturnFromMain, ProgramState
<1>2. /\ SI' \in Machine /\ pre_symbolic' = pre_symbolic
      /\ SameInputs(SI, SI') /\ SameState(SI, SI') /\ SameConstraints(SI, SI')
      /\ SI'.aborted = SI.aborted
      /\ pre_symbolic => ~SI'.return_value
  BY <1>1, Returned
<1>3. << >> \in Seq([val : Values, origin : Origin])
  BY EmptySeq
<1>4. Shape'
  <2>1. TypeOK'
    BY <1>1, <1>2, <1>3 DEF Shape, TypeOK, SameInputs, ProgramState
  <2>2. IdleBeforeInput'
    BY <1>2 DEF Shape, IdleBeforeInput, SameState
  <2>3. ControlOK' /\ NoAssertionFails' /\ StackMirrorsOperands'
    BY <1>1, <1>2 DEF Shape, ControlOK, NoAssertionFails, StackMirrorsOperands
  <2>4. PredicateOnTop'
    BY <1>2 DEF Shape, PredicateOnTop, SameState, Top
  <2> QED
    BY <2>1, <2>2, <2>3, <2>4 DEF Shape
<1>5. Sound => Agreement'
  BY <1>1, <1>2, AgreementUndisturbed
     DEF Sound, Agreement, SameState, SameConstraints, ProgramState
<1>6. PredicateMeansComparison' /\ StackHasValues'
  BY <1>1 DEF PredicateMeansComparison, StackHasValues
<1> QED
  BY <1>4, <1>5, <1>6 DEF Sound, Agreement

\* DiscardResult: __CrestClearStack forgets operands, predicate and flag.
LEMMA DiscardResultStep ==
  ASSUME Shape, DiscardResult
  PROVE  Shape' /\ (Sound => Sound')
<1>1. /\ pc = "returned" /\ pc' = "stmt" /\ result' = 0
      /\ UnlessPreSymbolic(ClearStack(SI))
      /\ frames' = SubSeq(frames, 1, Len(frames) - 1)
      /\ UNCHANGED << memory, operands, formals, execution, converted >>
  BY DEF DiscardResult, CrestClearStack
<1>2. /\ SI \in Machine /\ operands = << >> /\ frames # << >>
      /\ frames \in Seq(Addr \cup {NoAddr}) /\ 0 \in Values
  BY <1>1, ValuesAssumption DEF Shape, TypeOK, ControlOK, ValuesAssumption
<1>3. frames' \in Seq(Addr \cup {NoAddr})
  <2>1. Len(frames) >= 1
    BY <1>2, EmptySeq
  <2> QED
    BY <1>1, <1>2, <2>1, WithoutLast
<1>4. /\ SI' \in Machine /\ pre_symbolic' = pre_symbolic /\ Unaffected(SI, SI')
      /\ SI'.mem = SI.mem
      /\ SI'.stack = << >> /\ SI'.pred = NULL /\ ~SI'.return_value
  <2>1. CASE pre_symbolic
    BY <1>1, <1>2, <2>1, Callback
       DEF Shape, IdleBeforeInput, Unaffected, SameInputs, SamePath
  <2>2. CASE ~pre_symbolic
    <3>1. SI' = ClearStack(SI)
      BY <1>1, <2>2, Callback
    <3> QED
      BY <1>1, <1>2, <3>1, Callback, ClearStackEffect
  <2> QED
    BY <2>1, <2>2
<1>5. Shape'
  <2>1. TypeOK'
    BY <1>1, <1>2, <1>3, <1>4 DEF Shape, TypeOK, Unaffected, SameInputs
  <2>2. IdleBeforeInput' /\ ControlOK' /\ NoAssertionFails' /\ PredicateOnTop'
    BY <1>1, <1>4 DEF Shape, IdleBeforeInput, ControlOK, NoAssertionFails,
                      PredicateOnTop, Unaffected
  <2>3. StackMirrorsOperands'
    <3>1. Len(operands') = 0 /\ Len(SI'.stack) = 0
      BY <1>1, <1>2, <1>4, EmptySeq
    <3> QED
      BY <1>1, <1>4, <3>1 DEF StackMirrorsOperands
  <2> QED
    BY <2>1, <2>2, <2>3 DEF Shape
<1>6. Sound => Agreement'
  <2>1. Len(SI'.stack) = 0
    BY <1>4, EmptySeq
  <2> QED
    BY <1>1, <1>4, <2>1, AgreementKept
       DEF Sound, Agreement, Known, Unaffected, SamePath
<1>7. PredicateMeansComparison' /\ StackHasValues'
  <2>1. Len(operands') = 0
    BY <1>1, <1>2, EmptySeq
  <2> QED
    BY <1>1, <1>2, <1>4, <2>1 DEF PredicateMeansComparison, StackHasValues
<1> QED
  BY <1>5, <1>6, <1>7 DEF Sound, Agreement

\* TakeResult: the instrumented callee's value is kept, any other is pushed
\* as a concrete one; one element is left in both cases.
LEMMA TakeResultStep ==
  ASSUME Shape, TakeResult
  PROVE  Shape' /\ (Sound => Sound')
<1>1. /\ pc = "returned" /\ pc' = "handled" /\ frames[Len(frames)] # NoAddr
      /\ UnlessPreSymbolic(HandleReturn(SI, result))
      /\ UNCHANGED << operands, ProgramState >>
  BY DEF TakeResult, CrestHandleReturn, ProgramState
<1>2. /\ SI \in Machine /\ operands = << >> /\ frames # << >>
      /\ frames \in Seq(Addr \cup {NoAddr}) /\ result \in Int
      /\ SI.return_value => Len(SI.stack) = 1
      /\ Sound /\ SI.return_value => SI.stack[1].concrete = result
  <2>1. /\ SI.return_value => Len(SI.stack) = 1
        /\ Sound /\ SI.return_value => SI.stack[1].concrete = result
    BY <1>1 DEF Shape, StackMirrorsOperands, Sound, StackHasValues
  <2> QED
    BY <1>1, <2>1, ValuesAssumption DEF Shape, TypeOK, ControlOK, ValuesAssumption
<1>3. frames[Len(frames)] \in Addr
  <2>1. Len(frames) >= 1
    BY <1>2, EmptySeq
  <2> QED
    BY <1>1, <1>2, <2>1, WithoutLast
<1>4. CASE pre_symbolic
  <2>1. SI' = SI /\ pre_symbolic' = pre_symbolic
    BY <1>1, <1>4, Callback
  <2>2. ~SI.return_value
    BY <1>4 DEF Shape, IdleBeforeInput
  <2>3. Shape'
    BY <1>1, <1>2, <1>3, <1>4, <2>1, <2>2
       DEF Shape, TypeOK, NoAssertionFails, IdleBeforeInput, ControlOK,
           StackMirrorsOperands, PredicateOnTop, Top, ProgramState
  <2>4. Sound => Agreement'
    BY <1>1, <2>1, AgreementUndisturbed
       DEF Sound, Agreement, SameInputs, ProgramState
  <2>5. StackHasValues'
    BY <1>1, <1>4, <2>1 DEF StackHasValues
  <2> QED
    BY <1>1, <2>3, <2>4, <2>5 DEF Sound, Agreement, PredicateMeansComparison
<1>5. CASE ~pre_symbolic
  <2>1. SI' = HandleReturn(SI, result) /\ pre_symbolic' = pre_symbolic
    BY <1>1, <1>5, Callback
  <2>2. /\ SI' \in Machine /\ Unaffected(SI, SI')
        /\ SI'.mem = SI.mem /\ SI'.return_value = FALSE
        /\ SI.return_value => SI'.stack = SI.stack /\ SI'.pred = SI.pred
        /\ ~SI.return_value => /\ SI'.stack = << Operand(NULL, result) >>
                              /\ SI'.pred = NULL
    BY <1>2, <2>1, HandleReturnEffect
  <2>3. Len(SI'.stack) = 1 /\ (Sound => SI'.stack[1].concrete = result)
    <3>1. CASE SI.return_value
      BY <1>2, <2>2, <3>1
    <3>2. CASE ~SI.return_value
      BY <2>2, <3>2 DEF Operand
    <3> QED
      BY <3>1, <3>2
  <2>4. Shape'
    <3>1. PredicateOnTop'
      BY <2>2 DEF Shape, PredicateOnTop, Top
    <3> QED
      BY <1>1, <1>2, <1>3, <1>5, <2>1, <2>2, <2>3, <3>1
         DEF Shape, TypeOK, NoAssertionFails, IdleBeforeInput, ControlOK,
             StackMirrorsOperands, ProgramState, Unaffected, SameInputs
  <2>5. Sound => Agreement'
    <3>1. CASE SI.return_value
      BY <1>1, <2>2, <3>1, AgreementUndisturbed
         DEF Sound, Agreement, Unaffected, SamePath, ProgramState
    <3>2. CASE ~SI.return_value
      <4>1. \A i \in 1 .. Len(SI'.stack) : SI'.stack[i].expr = NULL
        BY <2>2, <2>3, <3>2 DEF Operand
      <4> QED
        BY <1>1, <2>2, <4>1, AgreementKept
           DEF Sound, Agreement, Known, Unaffected, SamePath, ProgramState
    <3> QED
      BY <3>1, <3>2
  <2> QED
    BY <1>1, <2>2, <2>3, <2>4, <2>5
       DEF Sound, Agreement, PredicateMeansComparison, StackHasValues, ProgramState
<1> QED
  BY <1>4, <1>5

\* Exit: writing the execution changes nothing else.
LEMMA ExitStep ==
  ASSUME Shape, Exit
  PROVE  Shape' /\ (Sound => Sound')
<1>1. /\ pc' = "exited"
      /\ UNCHANGED << SI, pre_symbolic, memory, operands, formals, frames, result, converted >>
  BY DEF Exit
<1>2. Shape'
  BY <1>1 DEF Shape, TypeOK, NoAssertionFails, IdleBeforeInput, ControlOK,
              StackMirrorsOperands, PredicateOnTop, Top
<1>3. Sound => Agreement'
  BY <1>1, AgreementUndisturbed DEF Sound, Agreement, SameInputs
<1>4. PredicateMeansComparison' /\ StackHasValues'
  BY <1>1 DEF PredicateMeansComparison, StackHasValues
<1> QED
  BY <1>2, <1>3, <1>4 DEF Sound, Agreement

-----------------------------------------------------------------------------
\* The end of a condition: with or without the load that CrestBranch makes
\* before the first input, one value is popped, and a constraint is recorded
\* only for a predicate in the register.
LEMMA BranchTaken ==
  ASSUME Shape, NEW bid \in Int, NEW b \in {0, 1}, pc = "stmt",
         Len(operands) = 1, CrestBranch(bid, b)
  PROVE  LET p == IF b # 0 THEN SI.pred ELSE Negate(SI.pred)
         IN  /\ SI' \in Machine /\ pre_symbolic' = pre_symbolic
             /\ SameInputs(SI, SI') /\ SI'.aborted = SI.aborted
             /\ SI'.mem = SI.mem /\ SI'.return_value = SI.return_value
             /\ SI'.stack = << >> /\ SI'.pred = NULL
             /\ SI.pred = NULL => SI'.constraints = SI.constraints
             /\ SI.pred # NULL =>
                  /\ p \in Pred
                  /\ SI'.constraints = Append(SI.constraints, p)
<1>1. SI \in Machine /\ pre_symbolic' = pre_symbolic /\ (b # 0) \in BOOLEAN
  BY DEF Shape, TypeOK, CrestBranch
<1>2. CASE pre_symbolic
  <2> DEFINE t == Load(SI, 0, b)
  <2>1. SI' = Branch(t, bid, b # 0)
    BY <1>2 DEF CrestBranch
  <2>2. SI.stack = << >> /\ SI.pred = NULL
    BY <1>2 DEF Shape, IdleBeforeInput
  <2>3. Len(SI.stack) = 0
    BY <2>2, EmptySeq
  <2>4. /\ t \in Machine /\ Unaffected(SI, t) /\ t.mem = SI.mem
        /\ t.return_value = SI.return_value /\ t.pred = NULL
        /\ Len(t.stack) = Len(SI.stack) - 0 + 1
    BY <1>1, LoadEffect DEF Replaced
  <2>5. Len(t.stack) = 1
    BY <2>3, <2>4
  <2> HIDE DEF t
  <2>6. /\ SI' \in Machine /\ SameInputs(t, SI') /\ SI'.aborted = t.aborted
        /\ SI'.mem = t.mem /\ SI'.return_value = t.return_value
        /\ SI'.stack = << >> /\ SI'.pred = NULL
        /\ SameConstraints(t, SI')
    BY <1>1, <2>1, <2>4, <2>5, BranchEffect, NullIsNotAnExpression
  <2> QED
    BY <1>1, <2>2, <2>4, <2>6
       DEF Unaffected, SameInputs, SamePath, SameConstraints
<1>3. CASE ~pre_symbolic
  <2>1. SI' = Branch(SI, bid, b # 0)
    BY <1>3 DEF CrestBranch
  <2>2. Len(SI.stack) = 1
    BY <1>3, TopOperands
  <2> QED
    BY <1>1, <2>1, <2>2, BranchEffect, NullIsNotAnExpression DEF SameConstraints
<1> QED
  BY <1>2, <1>3

\* If: the branch taken is the one whose predicate the inputs satisfy.
LEMMA IfStep ==
  ASSUME Shape, If
  PROVE  Shape' /\ (Sound => Sound')
<1> DEFINE v == Rand(0).val
           b == IF v # 0 THEN 1 ELSE 0
           p == IF b # 0 THEN SI.pred ELSE Negate(SI.pred)
<1>1. /\ pc = "stmt" /\ Len(operands) = 1 /\ Rand(0).origin = "compare"
      /\ \E bid \in {1, 2} : CrestBranch(bid, b)
      /\ operands' = << >>
      /\ UNCHANGED << pc, ProgramState >>
  BY DEF If, InExpression, ProgramState
<1>2. b \in {0, 1} /\ (b # 0 <=> v # 0)
  OBVIOUS
<1>3. /\ SI' \in Machine /\ pre_symbolic' = pre_symbolic
      /\ SameInputs(SI, SI') /\ SI'.aborted = SI.aborted
      /\ SI'.mem = SI.mem /\ SI'.return_value = SI.return_value
      /\ SI'.stack = << >> /\ SI'.pred = NULL
      /\ SI.pred = NULL => SI'.constraints = SI.constraints
      /\ SI.pred # NULL =>
           /\ p \in Pred
           /\ SI'.constraints = Append(SI.constraints, p)
  <2>1. PICK bid \in {1, 2} : CrestBranch(bid, b)
    BY <1>1
  <2> HIDE DEF b
  <2> QED
    BY <1>1, <1>2, <2>1, BranchTaken DEF p
<1> HIDE DEF b
<1>4. << >> \in Seq([val : Values, origin : Origin]) /\ Len(<< >>) = 0
  BY EmptySeq
<1>5. Shape'
  <2>1. TypeOK'
    BY <1>1, <1>3, <1>4 DEF Shape, TypeOK, SameInputs, ProgramState
  <2>2. IdleBeforeInput' /\ ControlOK' /\ NoAssertionFails' /\ PredicateOnTop'
    BY <1>1, <1>3 DEF Shape, IdleBeforeInput, ControlOK, NoAssertionFails,
                      PredicateOnTop
  <2>3. StackMirrorsOperands'
    BY <1>1, <1>3, <1>4 DEF Shape, StackMirrorsOperands
  <2> QED
    BY <2>1, <2>2, <2>3 DEF Shape
<1>6. ASSUME Sound PROVE Sound'
  <2>0. \A a : Consistent(a)' <=> Consistent(a)
    BY <1>3, SameConsistency
  <2>1. UnreadInputsFit'
    BY <1>3, <1>6, SameConsistency DEF Sound
  <2>2. ExpressionsAgree'
    BY <1>1, <1>3, <1>4, <1>6, <2>0
       DEF Sound, ExpressionsAgree, Denotes, ProgramState
  <2>3. ConstraintsHold'
    <3>1. CASE SI.pred = NULL
      BY <1>3, <1>6, <3>1, SamePathHolds DEF Sound
    <3>2. CASE SI.pred # NULL
      <4>1. SI.constraints \in Seq(Pred) /\ SI.pred \in Pred
        BY <3>2 DEF Shape, TypeOK, Machine
      <4>2. operands # << >>
        <5>1. Len(operands) # 0
          BY <1>1
        <5> QED
          BY <1>4, <5>1
      <4>3. ASSUME NEW a \in Assign, Consistent(a)
            PROVE  Holds(p, a)
        <5>1. Holds(SI.pred, a) <=> v # 0
          BY <1>1, <1>6, <3>2, <4>2, <4>3 DEF Sound, PredicateMeansComparison
        <5>2. Holds(Negate(SI.pred), a) <=> ~Holds(SI.pred, a)
          BY <4>1, NegatedPred
        <5> HIDE DEF v
        <5> QED
          BY <1>2, <5>1, <5>2
      <4>4. /\ Len(SI.constraints) \in Nat
            /\ Len(SI'.constraints) = Len(SI.constraints) + 1
            /\ SI'.constraints[Len(SI.constraints) + 1] = p
            /\ \A k \in 1 .. Len(SI.constraints) :
                 SI'.constraints[k] = SI.constraints[k]
        <5> HIDE DEF p
        <5> QED
          BY <1>3, <3>2, <4>1, AppendProperties, LenProperties
      <4>5. ASSUME NEW k \in 1 .. Len(SI'.constraints),
                   NEW a \in Assign, Consistent(a)
            PROVE  Holds(SI'.constraints[k], a)
        <5>1. CASE k = Len(SI.constraints) + 1
          BY <4>3, <4>4, <4>5, <5>1
        <5>2. CASE k # Len(SI.constraints) + 1
          <6>1. k \in 1 .. Len(SI.constraints)
            BY <4>4, <5>2
          <6> QED
            BY <1>6, <4>4, <4>5, <6>1 DEF Sound, ConstraintsHold
        <5> QED
          BY <5>1, <5>2
      <4> QED
        BY <2>0, <4>5 DEF ConstraintsHold
    <3> QED
      BY <3>1, <3>2
  <2>4. PredicateMeansComparison' /\ StackHasValues'
    BY <1>1, <1>3, <1>4 DEF PredicateMeansComparison, StackHasValues
  <2> QED
    BY <2>1, <2>2, <2>3, <2>4 DEF Sound
<1> QED
  BY <1>5, <1>6

\* A new input: its address denotes it, and the value the program receives is
\* the one recorded, because an unread value of the file fits the type.
LEMMA ReadInputStep ==
  ASSUME Shape, NEW x \in Addr, NEW type \in Type, NEW random \in Foreign,
         NEW received \in Values, ReadInput(x, type, random, received)
  PROVE  Shape' /\ (Sound => Sound')
<1> DEFINE n == SI.num_inputs
           value == InputValue(SI, type, random)
<1>1. /\ pc = "stmt" /\ operands = << >> /\ n < MaxInputs
      /\ pre_symbolic' = FALSE /\ SI' = NewInput(SI, type, x, random)
      /\ received = CastTo(value, type)
      /\ memory' = [memory EXCEPT ![x] = received]
      /\ UNCHANGED << pc, operands, formals, frames, result, execution, converted >>
  BY DEF ReadInput, AtStatement, CrestInput
<1>2. /\ SI \in Machine /\ n \in Nat /\ MaxInputs \in Nat /\ random \in Int
      /\ n <= Len(SI.inputs) /\ n = Len(SI.vars) /\ Len(SI.inputs) \in Nat
      /\ TypeMin \in [Type -> Int] /\ TypeSize \in [Type -> Nat \ {0}]
  <2>1. SI \in Machine /\ n = Len(SI.vars) /\ Len(SI.inputs) >= n
    BY DEF Shape, TypeOK
  <2>2. n \in Nat /\ Len(SI.inputs) \in Nat
    BY <2>1, LenProperties DEF Machine
  <2>3. random \in Int
    BY ValuesAssumption DEF ValuesAssumption
  <2>4. MaxInputs \in Nat
    BY BoundsAssumption DEF BoundsAssumption
  <2> QED
    BY <2>1, <2>2, <2>3, <2>4, TypesAssumption DEF TypesAssumption
<1>3. InputExpr(n) \in Expr /\ \A a \in Assign : InputExpr(n)[a] = a[n]
  <2>1. n \in 0 .. MaxInputs - 1
    BY <1>1, <1>2
  <2>2. \A a \in Assign : a[n] \in Int
    BY <2>1, ValuesAssumption DEF ValuesAssumption
  <2> QED
    BY <2>2 DEF InputExpr, Expr
<1>4. /\ SI' \in Machine /\ SamePath(SI, SI') /\ SI'.aborted = SI.aborted
      /\ SI'.stack = SI.stack /\ SI'.pred = SI.pred
      /\ SI'.return_value = SI.return_value
      /\ SI'.mem[x] = InputExpr(n)
      /\ \A y \in Addr \ {x} : SI'.mem[y] = SI.mem[y]
      /\ SI'.num_inputs = n + 1 /\ Len(SI'.vars) = n + 1
      /\ Len(SI'.inputs) >= n + 1
      /\ \A i \in 1 .. n : SI'.inputs[i] = SI.inputs[i]
      /\ SI'.inputs[n + 1] = value
      /\ SI'.inputs = SI.inputs \/ Len(SI'.inputs) = n + 1
  <2> DEFINE t == NewInput(SI, type, x, random)
  <2>1. /\ t \in Machine /\ SamePath(SI, t) /\ t.aborted = SI.aborted
        /\ t.stack = SI.stack /\ t.pred = SI.pred
        /\ t.return_value = SI.return_value
        /\ t.mem[x] = InputExpr(SI.num_inputs)
        /\ \A y \in Addr \ {x} : t.mem[y] = SI.mem[y]
    BY <1>2, <1>3, NewInputEffect
  <2>2. t.num_inputs = SI.num_inputs + 1 /\ Len(t.vars) = SI.num_inputs + 1
    BY <1>2, <1>3, NewInputEffect
  <2>2a. /\ Len(t.inputs) >= SI.num_inputs + 1
         /\ \A i \in 1 .. SI.num_inputs : t.inputs[i] = SI.inputs[i]
    BY <1>2, <1>3, NewInputEffect
  <2>3. /\ t.inputs[SI.num_inputs + 1] = InputValue(SI, type, random)
        /\ t.inputs = SI.inputs \/ Len(t.inputs) = SI.num_inputs + 1
    BY <1>2, <1>3, NewInputEffect
  <2> HIDE DEF t
  <2> QED
    BY <1>1, <2>1, <2>2, <2>2a, <2>3 DEF t
<1>5. memory' \in [Addr -> Values] /\ memory'[x] = received
  BY <1>1 DEF Shape, TypeOK
<1>6. Len(operands) = 0 /\ (pre_symbolic => Len(SI.stack) = 0)
  BY <1>1, EmptySeq DEF Shape, IdleBeforeInput
<1>7. Len(SI.stack) = 0
  <2>1. ~pre_symbolic => Len(SI.stack) = Len(operands)
    BY <1>1, TopOperands
  <2> QED
    BY <1>6, <2>1
<1> HIDE DEF n, value
<1>8. Shape'
  <2>1. SI'.num_inputs <= MaxInputs
    BY <1>1, <1>2, <1>4 DEF n
  <2>2. TypeOK'
    BY <1>1, <1>4, <1>5, <2>1 DEF Shape, TypeOK
  <2>3. IdleBeforeInput' /\ ControlOK' /\ NoAssertionFails'
    BY <1>1, <1>4 DEF Shape, IdleBeforeInput, ControlOK, NoAssertionFails
  <2>4. StackMirrorsOperands'
    BY <1>1, <1>4, <1>6, <1>7 DEF Shape, StackMirrorsOperands
  <2>5. PredicateOnTop'
    BY <1>4 DEF Shape, PredicateOnTop, Top
  <2> QED
    BY <2>2, <2>3, <2>4, <2>5 DEF Shape
<1>9. ASSUME Sound PROVE Sound'
  <2>1. received = value
    <3>1. CASE n < Len(SI.inputs)
      <4>1. n + 1 \in SI.num_inputs + 1 .. Len(SI.inputs)
        BY <1>2, <3>1 DEF n
      <4>2. value = SI.inputs[n + 1]
        BY <3>1 DEF value, InputValue, n
      <4> QED
        BY <1>1, <1>9, <4>1, <4>2 DEF Sound, UnreadInputsFit
    <3>2. CASE ~(n < Len(SI.inputs))
      <4>1. value = CastTo(random, type)
        BY <3>2 DEF value, InputValue, n
      <4> QED
        BY <1>1, <1>2, <4>1, CastTwice
    <3> QED
      BY <3>1, <3>2
  <2>2. ASSUME NEW a, Consistent(a)'
        PROVE  Consistent(a) /\ a[n] = value
    <3>1. \A i \in 0 .. n : a[i] = SI'.inputs[i + 1]
      BY <1>2, <1>4, <2>2 DEF Consistent
    <3>2. \A i \in 0 .. n - 1 : i \in 0 .. n /\ i + 1 \in 1 .. n
      BY <1>2
    <3>3. \A i \in 0 .. n - 1 : a[i] = SI.inputs[i + 1]
      BY <1>4, <3>1, <3>2
    <3>4. Consistent(a)
      BY <3>3 DEF Consistent, n
    <3>5. n \in 0 .. n
      BY <1>2
    <3>6. a[n] = value
      BY <1>4, <3>1, <3>5
    <3> QED
      BY <3>4, <3>6
  <2>3. UnreadInputsFit'
    <3>1. ASSUME NEW i \in SI'.num_inputs + 1 .. Len(SI'.inputs), NEW ty \in Type
          PROVE  CastTo(SI'.inputs[i], ty) = SI'.inputs[i]
      <4>1. CASE SI'.inputs = SI.inputs
        <5>1. i \in SI.num_inputs + 1 .. Len(SI.inputs)
          BY <1>2, <1>4, <3>1, <4>1 DEF n
        <5> QED
          BY <1>9, <4>1, <5>1 DEF Sound, UnreadInputsFit
      <4>2. CASE Len(SI'.inputs) = n + 1
        BY <1>2, <1>4, <3>1, <4>2
      <4> QED
        BY <1>4, <4>1, <4>2
    <3> QED
      BY <3>1 DEF UnreadInputsFit
  <2>4. ExpressionsAgree'
    <3>1. ASSUME NEW y \in Addr, SI'.mem[y] # NULL, NEW a \in Assign, Consistent(a)'
          PROVE  SI'.mem[y][a] = memory'[y]
      <4>1. CASE y = x
        BY <1>3, <1>4, <1>5, <2>1, <2>2, <3>1, <4>1
      <4>2. CASE y # x
        <5>1. SI'.mem[y] = SI.mem[y] /\ memory'[y] = memory[y]
          BY <1>1, <1>4, <4>2 DEF Shape, TypeOK
        <5> QED
          BY <1>9, <2>2, <3>1, <5>1 DEF Sound, ExpressionsAgree, Denotes
      <4> QED
        BY <4>1, <4>2
    <3>2. \A i \in 1 .. Len(SI'.stack) : FALSE
      BY <1>4, <1>7
    <3> QED
      BY <3>1, <3>2 DEF ExpressionsAgree, Denotes
  <2>5. ConstraintsHold'
    BY <1>4, <1>9, <2>2 DEF Sound, ConstraintsHold, SamePath
  <2>6. PredicateMeansComparison' /\ StackHasValues'
    BY <1>1, <1>4, <1>6, <1>9 DEF Sound, PredicateMeansComparison, StackHasValues
  <2> QED
    BY <2>3, <2>4, <2>5, <2>6 DEF Sound
<1> QED
  BY <1>8, <1>9

-----------------------------------------------------------------------------
(***************************************************************************)
(* The theorems.                                                           *)
(***************************************************************************)

\* Initially nothing is symbolic.
LEMMA Initially ==
  ASSUME Init
  PROVE  Shape /\ (FilesFit => Sound)
<1>1. PICK input \in FileInputs : SI = NewInterpreter(input) /\ pre_symbolic = TRUE
  BY DEF Init, CrestInit
<1>2. /\ input \in Seq(Int) /\ Len(input) \in Nat
      /\ 0 \in Values /\ MaxInputs \in Nat
  <2>1. input \in Seq(Int) /\ 0 \in Values
    BY ValuesAssumption DEF ValuesAssumption
  <2>2. MaxInputs \in Nat
    BY BoundsAssumption DEF BoundsAssumption
  <2> QED
    BY <2>1, <2>2, LenProperties
<1>3. \A S : << >> \in Seq(S) /\ Len(<< >>) = 0
  BY EmptySeq
<1>4. /\ SI.stack = << >> /\ SI.pred = NULL /\ SI.return_value = FALSE
      /\ SI.mem = [a \in Addr |-> NULL]
      /\ SI.constraints = << >> /\ SI.vars = << >>
      /\ SI.inputs = input /\ SI.num_inputs = 0 /\ SI.aborted = FALSE
  BY <1>1 DEF NewInterpreter
<1>5. SI \in Machine
  <2>1. [a \in Addr |-> NULL] \in [Addr -> Expr \cup {NULL}]
    OBVIOUS
  <2> QED
    BY <1>1, <1>2, <1>3, <2>1 DEF NewInterpreter, Machine
<1>6. /\ pc = "start" /\ memory = [a \in Addr |-> 0] /\ operands = << >>
      /\ formals = << >> /\ frames = << >> /\ result = 0
      /\ converted = FALSE
  BY DEF Init
<1>7. TypeOK
  <2>1. memory \in [Addr -> Values]
    BY <1>2, <1>6
  <2>2. SI.num_inputs <= MaxInputs /\ Len(SI.vars) = SI.num_inputs
    BY <1>2, <1>3, <1>4
  <2>3. Len(SI.inputs) >= SI.num_inputs
    BY <1>2, <1>4
  <2> QED
    BY <1>1, <1>2, <1>3, <1>5, <1>6, <2>1, <2>2, <2>3 DEF TypeOK
<1>8. Shape
  BY <1>1, <1>3, <1>4, <1>6, <1>7
     DEF Shape, NoAssertionFails, IdleBeforeInput, ControlOK,
         StackMirrorsOperands, PredicateOnTop
<1>9. FilesFit => Sound
  <2>1. FilesFit => UnreadInputsFit
    <3>1. ASSUME FilesFit, NEW i \in SI.num_inputs + 1 .. Len(SI.inputs),
                 NEW type \in Type
          PROVE  CastTo(SI.inputs[i], type) = SI.inputs[i]
      <4>1. i \in 1 .. Len(input)
        BY <1>4, <3>1
      <4> QED
        BY <1>4, <3>1, <4>1 DEF FilesFit
    <3> QED
      BY <3>1 DEF UnreadInputsFit
  <2>2. ExpressionsAgree
    BY <1>3, <1>4 DEF ExpressionsAgree
  <2>3. ConstraintsHold
    BY <1>3, <1>4 DEF ConstraintsHold
  <2>4. PredicateMeansComparison /\ StackHasValues
    BY <1>6 DEF PredicateMeansComparison, StackHasValues
  <2> QED
    BY <2>1, <2>2, <2>3, <2>4 DEF Sound
<1> QED
  BY <1>8, <1>9

\* What every step does to the invariant: the flag is never reset, and a step
\* that does not set it keeps the state sound.
StepKeeps ==
  /\ Shape'
  /\ ~converted' => ~converted
  /\ Sound /\ ~Nested /\ ~converted' => Sound'

\* Every step of an expression's evaluation keeps the invariant.
LEMMA EvaluateStep ==
  ASSUME Shape, Evaluate
  PROVE  StepKeeps
<1>1. ASSUME NEW x \in Addr, EvalLoad(x) PROVE StepKeeps
  <2>1. converted' = converted
    BY <1>1 DEF EvalLoad
  <2> QED
    BY <1>1, <2>1, EvalLoadStep DEF StepKeeps
<1>2. ASSUME NEW v \in Literals, EvalConstant(v) PROVE StepKeeps
  <2>1. converted' = converted
    BY <1>2 DEF EvalConstant
  <2> QED
    BY <1>2, <2>1, EvalConstantStep DEF StepKeeps
<1>3. ASSUME NEW code \in Codes \cap UnaryCode, EvalUnary(code) PROVE StepKeeps
  <2>1. converted' = converted
    BY <1>3 DEF EvalUnary
  <2> QED
    BY <1>3, <2>1, EvalUnaryStep DEF StepKeeps
<1>4. ASSUME NEW code \in Codes \cap ArithmeticCode, NEW v \in Values,
             EvalBinary(code, v)
      PROVE  StepKeeps
  <2>1. converted' = converted
    BY <1>4 DEF EvalBinary
  <2> QED
    BY <1>4, <2>1, EvalBinaryStep DEF StepKeeps
<1>5. ASSUME NEW code \in Codes \cap CompareOp, EvalCompare(code)
      PROVE  StepKeeps
  <2>1. converted' = converted
    BY <1>5 DEF EvalCompare
  <2> QED
    BY <1>5, <2>1, EvalCompareStep DEF StepKeeps
<1>6. ASSUME NEW v \in Foreign, EvalUnhandled(v) PROVE StepKeeps
  <2>1. converted' = converted
    BY <1>6 DEF EvalUnhandled
  <2> QED
    BY <1>6, <2>1, EvalUnhandledStep DEF StepKeeps
<1>7. ASSUME NEW conv \in Casts, EvalCast(conv) PROVE StepKeeps
  BY <1>7, EvalCastStep DEF StepKeeps
<1> QED
  BY <1>1, <1>2, <1>3, <1>4, <1>5, <1>6, <1>7 DEF Evaluate

\* Every statement keeps the invariant.
LEMMA StatementStep ==
  ASSUME Shape, Statement
  PROVE  StepKeeps
<1>1. converted' = converted
  BY DEF Statement, Start, Assignment, If, ReadInput
<1>2. Shape' /\ (Sound => Sound')
  BY StartStep, AssignmentStep, IfStep, ReadInputStep DEF Statement
<1> QED
  BY <1>1, <1>2 DEF StepKeeps

\* Every step of a call, a return or the exit keeps the invariant.
LEMMA ProcedureStep ==
  ASSUME Shape, Procedure
  PROVE  StepKeeps
<1>1. ASSUME NEW n \in 0 .. MaxOperands, NEW params \in [1 .. n -> Addr],
             NEW dest \in Addr \cup {NoAddr}, CallInstrumented(params, dest)
      PROVE  Shape' /\ (Sound => Sound')
  <2>1. n \in Nat
    BY BoundsAssumption DEF BoundsAssumption
  <2> QED
    BY <1>1, <2>1, CallInstrumentedStep
<1>2. ASSUME NEW dest \in Addr \cup {NoAddr}, NEW v \in Foreign,
             CallUninstrumented(dest, v)
      PROVE  Shape' /\ (Sound => Sound')
  BY <1>2, CallUninstrumentedStep
<1>3. Shape' /\ (Sound => Sound')
  BY <1>1, <1>2, StoreFormalStep, EnterBodyStep, ReturnFromCallStep,
     DiscardResultStep, TakeResultStep, StoreResultStep, ReturnFromMainStep,
     ExitStep DEF Procedure
<1>4. converted' = converted
  BY DEF Procedure, CallInstrumented, StoreFormal, EnterBody, CallUninstrumented,
         ReturnFromCall, DiscardResult, TakeResult, StoreResult, ReturnFromMain,
         Exit
<1> QED
  BY <1>3, <1>4 DEF StepKeeps

\* Every step keeps both parts of the invariant.
LEMMA Step ==
  ASSUME Shape, [Next]_vars
  PROVE  StepKeeps
<1>1. CASE Next
  BY <1>1, EvaluateStep, StatementStep, ProcedureStep DEF Next
<1>2. CASE UNCHANGED vars
  <2>1. UNCHANGED << SI, pre_symbolic, pc, memory, operands, formals, frames,
                     result, execution, converted >>
    BY <1>2 DEF vars, programVars
  <2>2. Shape'
    BY <2>1 DEF Shape, TypeOK, NoAssertionFails, IdleBeforeInput, ControlOK,
                StackMirrorsOperands, PredicateOnTop, Top
  <2>3. Sound => Agreement'
    BY <2>1, AgreementUndisturbed DEF Sound, Agreement, SameInputs
  <2>4. Sound => PredicateMeansComparison'
    BY <2>1 DEF Sound, PredicateMeansComparison, Consistent, Rand
  <2>5. Sound => StackHasValues'
    BY <2>1 DEF Sound, StackHasValues
  <2> QED
    BY <2>1, <2>2, <2>3, <2>4, <2>5 DEF Sound, Agreement, StepKeeps
<1> QED
  BY <1>1, <1>2

\* Types, control and the stack's shape are invariant for every program and
\* every input file, whatever its casts do.
THEOREM ShapeInvariant == Spec => []Shape
<1>1. Init => Shape
  BY Initially
<1>2. Shape /\ [Next]_vars => Shape'
  BY Step DEF StepKeeps
<1> QED
  BY <1>1, <1>2, PTL DEF Spec

\* The machine and the program keep their types: the stack is always one of
\* expressions and integers, and there is a type for every input read.
THEOREM TypeCorrect == Spec => []TypeOK
<1>1. Shape => TypeOK
  BY DEF Shape
<1> QED
  BY <1>1, ShapeInvariant, PTL

\* No assertion of symbolic_interpreter.cc fails, for any program that CIL and
\* crestInstrument can produce within the model, any nesting of its calls, any
\* casts and any point at which it reads its first input.
THEOREM AssertionsHold == Spec => []NoAssertionFails
<1>1. Shape => NoAssertionFails
  BY DEF Shape
<1> QED
  BY <1>1, ShapeInvariant, PTL

\* Until a cast changes a value the symbolic state stays sound, when no
\* comparison is the right operand of a comparison and the file's values fit the
\* types.
THEOREM SoundInvariant ==
  ASSUME FilesFit, ~Nested
  PROVE  Spec => [](Shape /\ SoundUntilCast)
<1>1. Init => Shape /\ SoundUntilCast
  BY Initially DEF SoundUntilCast
<1>2. Shape /\ SoundUntilCast /\ [Next]_vars => Shape' /\ SoundUntilCast'
  BY Step DEF StepKeeps, SoundUntilCast
<1> QED
  BY <1>1, <1>2, PTL DEF Spec

\* Until a cast changes a value, the symbolic value of every operand and address
\* is its concrete value, for the inputs read: the shadow memory never lags
\* behind the program's.
THEOREM SymbolicStateSound ==
  ASSUME FilesFit, ~Nested
  PROVE  Spec => []SymbolicStateAgrees
<1>1. SoundUntilCast => SymbolicStateAgrees
  BY DEF SoundUntilCast, Sound, SymbolicStateAgrees
<1> QED
  BY <1>1, SoundInvariant, PTL

\* Until a cast changes a value, every constraint that a branch records is true
\* of the inputs that led there: what the solver is given describes the path
\* that was executed.
THEOREM PathSound ==
  ASSUME FilesFit, ~Nested
  PROVE  Spec => []PathHoldsOfInputs
<1>1. SoundUntilCast => PathHoldsOfInputs
  BY DEF SoundUntilCast, Sound, PathHoldsOfInputs
<1> QED
  BY <1>1, SoundInvariant, PTL

-----------------------------------------------------------------------------
(***************************************************************************)
(* The path: what a step appends to it, and which calls are open.          *)
(***************************************************************************)
CallMarks   == Cardinality(Occurrences(kCallId))
ReturnMarks == Cardinality(Occurrences(kReturnId))

\* A mark of main's call, and one of every instrumented call that is active;
\* a frame above these is that of a call just returned or not instrumented.
CallsOpen ==
  /\ pc = "start" => SI.branches = << >> /\ frames = << >>
  /\ pc \in {"stmt", "entry"} => CallMarks = ReturnMarks + Len(frames) + 1
  /\ pc \in {"returned", "handled"} => CallMarks = ReturnMarks + Len(frames)
  /\ ReturnMarks <= CallMarks

PathInv == CallsOpen /\ PathWellFormed

\* A branch id is appended, with a constraint for it or without.
BranchAppended(s, t) ==
  /\ \E bid \in {1, 2} : t.branches = Append(s.branches, bid)
  /\ \/ t.constraints = s.constraints /\ t.constraints_idx = s.constraints_idx
     \/ \E p \in Pred :
          /\ t.constraints = Append(s.constraints, p)
          /\ t.constraints_idx = Append(s.constraints_idx, Len(s.branches))

\* All operations but Call, Return and Branch leave the path alone, even where
\* they fail.
LEMMA PathUntouched ==
  ASSUME NEW s \in Machine, NEW x, NEW v, NEW w, NEW u
  PROVE  /\ SamePath(s, Load(s, x, v))
         /\ SamePath(s, Store(s, x))
         /\ SamePath(s, ClearStack(s))
         /\ SamePath(s, ApplyUnaryOp(s, x, v))
         /\ SamePath(s, ApplyBinaryOp(s, x, v))
         /\ SamePath(s, ApplyCompareOp(s, x, v))
         /\ SamePath(s, HandleReturn(s, v))
         /\ SamePath(s, NewInput(s, x, v, w))
<1> USE DEF Machine, SamePath, Abort
<1>1. SamePath(s, Load(s, x, v))
  BY DEF Load
<1>2. SamePath(s, Store(s, x))
  BY DEF Store
<1>3. SamePath(s, ClearStack(s))
  BY DEF ClearStack
<1>4. SamePath(s, ApplyUnaryOp(s, x, v))
  BY DEF ApplyUnaryOp
<1>5. SamePath(s, ApplyBinaryOp(s, x, v))
  BY DEF ApplyBinaryOp
<1>6. SamePath(s, ApplyCompareOp(s, x, v))
  BY DEF ApplyCompareOp
<1>7. SamePath(s, HandleReturn(s, v))
  BY DEF HandleReturn, ClearStack
<1>8. SamePath(s, NewInput(s, x, v, w))
  BY DEF NewInput
<1> QED
  BY <1>1, <1>2, <1>3, <1>4, <1>5, <1>6, <1>7, <1>8

\* How the control point and the frames move where the path stays, and where
\* the mark of a call or of a return is appended.
MovesOnly ==
  /\ SamePath(SI, SI')
  /\ \/ pc \in {"stmt", "entry"} /\ pc' = "stmt" /\ frames' = frames
     \/ pc' = pc /\ frames' = frames
     \/ /\ pc = "stmt" /\ pc' = "returned"
        /\ \E dest \in Addr \cup {NoAddr} : frames' = Append(frames, dest)
     \/ pc = "returned" /\ pc' = "handled" /\ frames' = frames
     \/ /\ pc \in {"returned", "handled"} /\ pc' = "stmt"
        /\ frames' = SubSeq(frames, 1, Len(frames) - 1)
     \/ pc' = "exited"

MarksCall ==
  /\ SI' = Call(SI)
  /\ \/ pc = "start" /\ pc' = "stmt" /\ frames' = frames
     \/ /\ pc = "stmt" /\ pc' = "entry"
        /\ \E dest \in Addr \cup {NoAddr} : frames' = Append(frames, dest)

MarksReturn ==
  /\ SI' = Return(SI)
  /\ pc = "stmt" /\ pc' \in {"returned", "exiting"} /\ frames' = frames

\* Each step marks a call, marks a return, decides a condition or leaves the path.
LEMMA PathSteps ==
  ASSUME Shape, Next
  PROVE  MovesOnly \/ MarksCall \/ MarksReturn \/ If
<1> USE DEF MovesOnly, MarksCall, MarksReturn
<1>1. SI \in Machine
  BY MachineType
<1>2. SamePath(SI, SI)
  BY DEF SamePath
<1>3. ASSUME NEW s, UnlessPreSymbolic(s), SamePath(SI, s) PROVE SamePath(SI, SI')
  BY <1>2, <1>3 DEF UnlessPreSymbolic
<1>4. CASE Evaluate
  <2>1. /\ \A x, v : CrestLoad(x, v) => SamePath(SI, SI')
        /\ \A x, v : CrestApply1(x, v) => SamePath(SI, SI')
        /\ \A x, v : CrestApply2(x, v) => SamePath(SI, SI')
    BY <1>1, <1>3, PathUntouched DEF CrestLoad, CrestApply1, CrestApply2
  <2>2. ASSUME NEW conv \in Casts, EvalCast(conv)
        PROVE  SamePath(SI, SI') /\ pc' = pc /\ frames' = frames
    BY <1>2, <2>2 DEF EvalCast
  <2> QED
    BY <1>4, <2>1, <2>2 DEF Evaluate, EvalLoad, EvalConstant, EvalUnary, EvalBinary,
                     EvalCompare, EvalUnhandled
<1>5. CASE Statement
  <2>1. CASE Start
    BY <2>1 DEF Start, CrestCall
  <2>2. ASSUME NEW a \in Addr, Assignment(a) PROVE SamePath(SI, SI') /\ pc' = pc /\ frames' = frames
    BY <1>1, <1>3, <2>2, PathUntouched DEF Assignment, CrestStore
  <2>3. ASSUME NEW a \in Addr, NEW type \in Type, NEW random \in Foreign, NEW received \in Values,
               ReadInput(a, type, random, received)
        PROVE  SamePath(SI, SI') /\ pc' = pc /\ frames' = frames
    BY <1>1, <2>3, PathUntouched DEF ReadInput, CrestInput
  <2> QED
    BY <1>5, <2>1, <2>2, <2>3 DEF Statement
<1>6. CASE Procedure
  <2>1. ASSUME NEW params, NEW dest \in Addr \cup {NoAddr}, CallInstrumented(params, dest)
        PROVE  SI' = Call(SI) /\ pc = "stmt" /\ pc' = "entry" /\ frames' = Append(frames, dest)
    BY <2>1 DEF CallInstrumented, CrestCall, InExpression
  <2>2. CASE StoreFormal
    BY <1>1, <1>3, <2>2, PathUntouched DEF StoreFormal, CrestStore
  <2>3. CASE EnterBody
    BY <1>2, <2>3 DEF EnterBody
  <2>4. ASSUME NEW dest \in Addr \cup {NoAddr}, NEW v, CallUninstrumented(dest, v)
        PROVE  SamePath(SI, SI') /\ pc = "stmt" /\ pc' = "returned" /\ frames' = Append(frames, dest)
    BY <1>2, <2>4 DEF CallUninstrumented, InExpression
  <2>5. CASE ReturnFromCall
    BY <2>5 DEF ReturnFromCall, CrestReturn
  <2>6. CASE DiscardResult
    BY <1>1, <1>3, <2>6, PathUntouched DEF DiscardResult, CrestClearStack
  <2>7. CASE TakeResult
    BY <1>1, <1>3, <2>7, PathUntouched DEF TakeResult, CrestHandleReturn
  <2>8. CASE StoreResult
    BY <1>1, <1>3, <2>8, PathUntouched DEF StoreResult, CrestStore
  <2>9. CASE ReturnFromMain
    BY <2>9 DEF ReturnFromMain, CrestReturn
  <2>10. CASE Exit
    BY <1>2, <2>10 DEF Exit
  <2> QED
    BY <1>6, <2>1, <2>2, <2>3, <2>4, <2>5, <2>6, <2>7, <2>8, <2>9, <2>10 DEF Procedure
<1> QED
  BY <1>4, <1>5, <1>6 DEF Next

\* A condition appends its branch, whether or not an input has been read.
LEMMA BranchPath ==
  ASSUME Shape, If
  PROVE  BranchAppended(SI, SI') /\ pc = "stmt" /\ pc' = pc /\ frames' = frames
<1>1. SI \in Machine /\ pc = "stmt" /\ Len(operands) = 1 /\ pc' = pc /\ frames' = frames
  BY MachineType DEF If, InExpression
<1>2. PICK bid \in {1, 2}, b \in {0, 1} : CrestBranch(bid, b)
  BY DEF If
<1>3. (b # 0) \in BOOLEAN /\ bid \in Int
  BY <1>2
<1>4. CASE pre_symbolic
  <2> DEFINE t == Load(SI, 0, b)
  <2>1. SI.stack = << >> /\ Len(SI.stack) = 0
    BY <1>4, EmptySeq DEF Shape, IdleBeforeInput
  <2>2. t \in Machine /\ Len(t.stack) = 1
    <3>1. b \in Int
      OBVIOUS
    <3>2. t \in Machine /\ Len(t.stack) = Len(SI.stack) - 0 + 1
      BY <1>1, <3>1, LoadEffect DEF Replaced
    <3> HIDE DEF t
    <3> QED
      BY <2>1, <3>2
  <2>3. SI' = Branch(t, bid, b # 0)
    BY <1>4, <1>2 DEF CrestBranch
  <2>4. SamePath(SI, t)
    BY <1>1, PathUntouched
  <2> HIDE DEF t
  <2>5. /\ SI'.branches = Append(t.branches, bid)
        /\ t.pred = NULL => SameConstraints(t, SI')
        /\ t.pred # NULL => \E p \in Pred :
             /\ SI'.constraints = Append(t.constraints, p)
             /\ SI'.constraints_idx = Append(t.constraints_idx, Len(t.branches))
    BY <1>3, <2>2, <2>3, BranchEffect, NullIsNotAnExpression
  <2> QED
    BY <1>1, <1>2, <2>4, <2>5 DEF BranchAppended, SamePath, SameConstraints
<1>5. CASE ~pre_symbolic
  <2>1. SI' = Branch(SI, bid, b # 0)
    BY <1>5, <1>2 DEF CrestBranch
  <2>2. Len(SI.stack) = 1
    BY <1>1, <1>5, TopOperands
  <2>3. /\ SI'.branches = Append(SI.branches, bid)
        /\ SI.pred = NULL => SameConstraints(SI, SI')
        /\ SI.pred # NULL => \E p \in Pred :
             /\ SI'.constraints = Append(SI.constraints, p)
             /\ SI'.constraints_idx = Append(SI.constraints_idx, Len(SI.branches))
    BY <1>1, <1>3, <2>1, <2>2, BranchEffect, NullIsNotAnExpression
  <2> QED
    BY <1>1, <1>2, <2>3 DEF BranchAppended, SameConstraints
<1> QED
  BY <1>1, <1>4, <1>5 DEF If, InExpression

\* The marks in a path after one more.
LEMMA MarksAppended ==
  ASSUME NEW s \in Seq(Int), NEW v \in Int, NEW bid \in Int
  PROVE  LET before == Cardinality({i \in 1 .. Len(s) : s[i] = bid})
             t      == Append(s, v)
             after  == Cardinality({i \in 1 .. Len(t) : t[i] = bid})
         IN  before \in Nat /\ after = IF v = bid THEN before + 1 ELSE before
<1> DEFINE t == Append(s, v)
           B == {i \in 1 .. Len(s) : s[i] = bid}
           A == {i \in 1 .. Len(t) : t[i] = bid}
<1>1. /\ Len(s) \in Nat /\ Len(t) = Len(s) + 1 /\ t[Len(s) + 1] = v
      /\ \A i \in 1 .. Len(s) : t[i] = s[i]
  BY AppendProperties, LenProperties
<1> HIDE DEF t
<1>2. A = IF v = bid THEN B \cup {Len(s) + 1} ELSE B
  BY <1>1
<1>3. IsFiniteSet(B) /\ Cardinality(B) \in Nat /\ Len(s) + 1 \notin B
  <2>1. IsFiniteSet(1 .. Len(s))
    BY <1>1, FS_Interval
  <2>2. IsFiniteSet(B)
    BY <2>1, FS_Subset
  <2> QED
    BY <1>1, <2>2, FS_CardinalityType
<1> HIDE DEF A, B
<1>4. Cardinality(A) = IF v = bid THEN Cardinality(B) + 1 ELSE Cardinality(B)
  BY <1>2, <1>3, FS_AddElement
<1> QED
  BY <1>3, <1>4 DEF A, B, t

\* A call, a return or a branch, and what it does to the counts.
LEMMA MarksCounted ==
  ASSUME SI \in Machine
  PROVE  /\ CallMarks \in Nat /\ ReturnMarks \in Nat
         /\ SamePath(SI, SI') => CallMarks' = CallMarks /\ ReturnMarks' = ReturnMarks
         /\ SI' = Call(SI) => CallMarks' = CallMarks + 1 /\ ReturnMarks' = ReturnMarks
         /\ SI' = Return(SI) => CallMarks' = CallMarks /\ ReturnMarks' = ReturnMarks + 1
         /\ BranchAppended(SI, SI') => CallMarks' = CallMarks /\ ReturnMarks' = ReturnMarks
<1>1. SI.branches \in Seq(Int)
  BY DEF Machine
<1>2. ASSUME NEW v \in Int, NEW bid \in Int, SI'.branches = Append(SI.branches, v)
      PROVE  Cardinality(Occurrences(bid)') =
               IF v = bid THEN Cardinality(Occurrences(bid)) + 1 ELSE Cardinality(Occurrences(bid))
  <2> DEFINE s == SI.branches
  <2>1. Occurrences(bid)' = {i \in 1 .. Len(Append(s, v)) : Append(s, v)[i] = bid}
    BY <1>2 DEF Occurrences
  <2>2. Occurrences(bid) = {i \in 1 .. Len(s) : s[i] = bid}
    BY DEF Occurrences
  <2> HIDE DEF s
  <2>3. s \in Seq(Int)
    BY <1>1 DEF s
  <2>4. Cardinality({i \in 1 .. Len(Append(s, v)) : Append(s, v)[i] = bid}) =
          IF v = bid THEN Cardinality({i \in 1 .. Len(s) : s[i] = bid}) + 1
                     ELSE Cardinality({i \in 1 .. Len(s) : s[i] = bid})
    BY ONLY <2>3, v \in Int, bid \in Int, MarksAppended
  <2> QED
    BY <2>1, <2>2, <2>4
<1>3. kCallId \in Int /\ kReturnId \in Int /\ kCallId # kReturnId
      /\ kCallId \notin {1, 2} /\ kReturnId \notin {1, 2}
  BY DEF kCallId, kReturnId
<1>4. CallMarks \in Nat /\ ReturnMarks \in Nat
  BY <1>1, <1>3, MarksAppended DEF CallMarks, ReturnMarks, Occurrences
<1>5. SI' = Call(SI) => SI'.branches = Append(SI.branches, kCallId)
  BY CallEffect
<1>6. SI' = Return(SI) => SI'.branches = Append(SI.branches, kReturnId)
  BY DEF Return, Abort, Machine
<1>7. SamePath(SI, SI') => \A bid : Occurrences(bid)' = Occurrences(bid)
  BY DEF SamePath, Occurrences
<1>8. ASSUME BranchAppended(SI, SI')
      PROVE  CallMarks' = CallMarks /\ ReturnMarks' = ReturnMarks
  <2>1. PICK bid \in {1, 2} : SI'.branches = Append(SI.branches, bid)
    BY <1>8 DEF BranchAppended
  <2>2. bid \in Int
    BY <2>1
  <2> QED
    BY <1>2, <1>3, <2>1, <2>2 DEF CallMarks, ReturnMarks
<1> QED
  BY <1>2, <1>3, <1>4, <1>5, <1>6, <1>7, <1>8 DEF CallMarks, ReturnMarks

\* The constraints keep their branches, and a new one has the last branch.
LEMMA PositionsKept ==
  ASSUME SI \in Machine, PathWellFormed, ReturnMarks' <= CallMarks',
         \/ SamePath(SI, SI')
         \/ \E v \in Int : /\ SI'.branches = Append(SI.branches, v)
                           /\ SameConstraints(SI, SI')
         \/ BranchAppended(SI, SI')
  PROVE  PathWellFormed'
<1> DEFINE idx == SI.constraints_idx
           n == Len(SI.branches)
<1>1. /\ SI.branches \in Seq(Int) /\ idx \in Seq(Nat) /\ SI.constraints \in Seq(Pred)
      /\ n \in Nat /\ Len(idx) \in Nat
      /\ \A k \in 1 .. Len(idx) : idx[k] \in Nat
  BY LenProperties, ElementOfSeq DEF Machine
<1>2. ASSUME NEW v \in Int, SI'.branches = Append(SI.branches, v)
      PROVE  /\ Len(SI'.branches) = n + 1 /\ SI'.branches[n + 1] = v
             /\ \A i \in 1 .. n : SI'.branches[i] = SI.branches[i]
  BY <1>1, <1>2, AppendProperties
<1>3. CASE SamePath(SI, SI')
  BY <1>3 DEF SamePath, PathWellFormed, ReturnMarks, CallMarks
<1>4. ASSUME NEW v \in Int, SI'.branches = Append(SI.branches, v), SameConstraints(SI, SI')
      PROVE  PathWellFormed'
  <2>1. \A k \in 1 .. Len(idx) : idx[k] < n + 1 /\ SI'.branches[idx[k] + 1] > 0
    <3> SUFFICES ASSUME NEW k \in 1 .. Len(idx)
                 PROVE  idx[k] < n + 1 /\ SI'.branches[idx[k] + 1] > 0
      OBVIOUS
    <3>1. idx[k] < n /\ SI.branches[idx[k] + 1] > 0
      BY DEF PathWellFormed
    <3>2. n \in Nat /\ idx[k] \in Nat
      BY <1>1
    <3>3. idx[k] + 1 \in 1 .. n /\ idx[k] < n + 1
      <4> HIDE DEF idx, n
      <4> QED
        BY <3>1, <3>2
    <3>4. SI'.branches[idx[k] + 1] = SI.branches[idx[k] + 1]
      BY <1>2, <1>4, <3>3
    <3> QED
      BY <3>1, <3>3, <3>4
  <2> QED
    BY <1>2, <1>4, <2>1 DEF PathWellFormed, SameConstraints, ReturnMarks, CallMarks
<1>5. CASE BranchAppended(SI, SI')
  <2>1. PICK bid \in {1, 2} : SI'.branches = Append(SI.branches, bid)
    BY <1>5 DEF BranchAppended
  <2>2. bid \in Int /\ bid > 0
    BY <2>1
  <2>3. CASE SameConstraints(SI, SI')
    BY <1>4, <2>1, <2>2, <2>3
  <2>4. CASE ~SameConstraints(SI, SI')
    <3>1. PICK p \in Pred : /\ SI'.constraints = Append(SI.constraints, p)
                            /\ SI'.constraints_idx = Append(idx, n)
      BY <1>5, <2>4 DEF BranchAppended, SameConstraints
    <3>2. Len(SI'.constraints) = Len(SI.constraints) + 1
      BY <1>1, <3>1, AppendProperties
    <3>3. /\ Len(SI'.constraints_idx) = Len(idx) + 1
          /\ SI'.constraints_idx[Len(idx) + 1] = n
          /\ \A k \in 1 .. Len(idx) : SI'.constraints_idx[k] = idx[k]
      BY <1>1, <3>1, AppendProperties
    <3>4. /\ \A k \in 1 .. Len(idx) : idx[k] < n /\ SI.branches[idx[k] + 1] > 0
          /\ \A j, k \in 1 .. Len(idx) : j < k => idx[j] < idx[k]
          /\ Len(SI.constraints) = Len(idx)
      BY DEF PathWellFormed
    <3>5. /\ Len(SI'.branches) = n + 1 /\ SI'.branches[n + 1] = bid
          /\ \A i \in 1 .. n : SI'.branches[i] = SI.branches[i]
      BY <1>2, <2>1, <2>2
    <3> HIDE DEF idx, n
    <3>6. ASSUME NEW k \in 1 .. Len(idx) + 1
          PROVE  /\ SI'.constraints_idx[k] < n + 1
                 /\ SI'.branches[SI'.constraints_idx[k] + 1] > 0
      <4>1. CASE k = Len(idx) + 1
        BY <1>1, <2>2, <3>3, <3>5, <4>1
      <4>2. CASE k \in 1 .. Len(idx)
        <5>1. idx[k] \in Nat /\ idx[k] < n /\ SI'.constraints_idx[k] = idx[k]
          BY <1>1, <3>3, <3>4, <4>2
        <5>2. idx[k] + 1 \in 1 .. n
          BY <1>1, <5>1
        <5>3. SI'.branches[idx[k] + 1] = SI.branches[idx[k] + 1]
          BY <3>5, <5>2
        <5> QED
          BY <1>1, <3>4, <4>2, <5>1, <5>3
      <4> QED
        BY <1>1, <4>1, <4>2
    <3>7. ASSUME NEW j \in 1 .. Len(idx) + 1, NEW k \in 1 .. Len(idx) + 1, j < k
          PROVE  SI'.constraints_idx[j] < SI'.constraints_idx[k]
      <4>1. CASE k = Len(idx) + 1
        <5>1. j \in 1 .. Len(idx)
          BY <1>1, <3>7, <4>1
        <5> QED
          BY <3>3, <3>4, <4>1, <5>1
      <4>2. CASE k \in 1 .. Len(idx)
        <5>1. j \in 1 .. Len(idx) /\ idx[j] < idx[k]
          BY <1>1, <3>4, <3>7, <4>2
        <5> QED
          BY <3>3, <4>2, <5>1
      <4> QED
        BY <1>1, <4>1, <4>2
    <3> QED
      BY <3>2, <3>3, <3>4, <3>5, <3>6, <3>7 DEF PathWellFormed, ReturnMarks, CallMarks
  <2> QED
    BY <2>3, <2>4
<1> QED
  BY <1>3, <1>4, <1>5

\* The stack of frames after a call and after a return.
LEMMA FramesMoved ==
  ASSUME Shape
  PROVE  /\ Len(frames) \in Nat
         /\ \A dest \in Addr \cup {NoAddr} : Len(Append(frames, dest)) = Len(frames) + 1
         /\ frames # << >> => Len(SubSeq(frames, 1, Len(frames) - 1)) = Len(frames) - 1
<1>1. frames \in Seq(Addr \cup {NoAddr})
  BY DEF Shape, TypeOK
<1>2. Len(frames) \in Nat /\ (frames # << >> => Len(frames) # 0)
  BY <1>1, LenProperties, EmptySeq
<1>3. \A dest \in Addr \cup {NoAddr} : Len(Append(frames, dest)) = Len(frames) + 1
  BY <1>1, AppendProperties
<1>4. \A i \in 1 .. Len(frames) - 1 : frames[i] \in Addr \cup {NoAddr}
  BY <1>1, <1>2, ElementOfSeq
<1>5. ASSUME NEW n \in Nat, n = Len(frames), n # 0
      PROVE  Len(SubSeq(frames, 1, n - 1)) = n - 1
  <2>1. \A i \in 1 .. n - 1 : frames[i] \in Addr \cup {NoAddr}
    BY <1>4, <1>5
  <2>2. n - 1 \in Int /\ 1 \in Int
    OBVIOUS
  <2>3. Len(SubSeq(frames, 1, n - 1)) = IF 1 <= n - 1 THEN (n - 1) - 1 + 1 ELSE 0
    BY <2>1, <2>2, SubSeqProperties
  <2> QED
    BY <1>5, <2>3
<1> QED
  BY <1>2, <1>3, <1>5

\* What is appended keeps the count of open calls.
LEMMA CallsOpenStep ==
  ASSUME Shape, CallsOpen, Next
  PROVE  CallsOpen' /\ (\/ SamePath(SI, SI')
                        \/ \E v \in Int : /\ SI'.branches = Append(SI.branches, v)
                                          /\ SameConstraints(SI, SI')
                        \/ BranchAppended(SI, SI'))
<1>1. SI \in Machine /\ CallMarks \in Nat /\ ReturnMarks \in Nat /\ Len(frames) \in Nat
  BY MachineType, MarksCounted, FramesMoved
<1>2. /\ pc \in {"returned", "handled"} => frames # << >>
      /\ pc = "start" => frames = << >>
  BY DEF Shape, ControlOK, CallsOpen
<1>3. pc = "start" => CallMarks = 0 /\ ReturnMarks = 0 /\ Len(frames) = 0
  <2>1. SI.branches = << >> => \A bid : Occurrences(bid) = {}
    BY EmptySeq DEF Occurrences
  <2> QED
    BY <1>2, <2>1, EmptySeq, FS_EmptySet DEF CallsOpen, CallMarks, ReturnMarks
<1>4. CASE MovesOnly
  <2>1. SI.branches = << >> => SI'.branches = << >>
    BY <1>4 DEF MovesOnly, SamePath
  <2>2. CallMarks' = CallMarks /\ ReturnMarks' = ReturnMarks
    BY <1>1, <1>4, MarksCounted DEF MovesOnly
  <2>3. \/ pc \in {"stmt", "entry"} /\ pc' = "stmt" /\ Len(frames') = Len(frames)
        \/ pc' = pc /\ frames' = frames /\ Len(frames') = Len(frames)
        \/ pc = "stmt" /\ pc' = "returned" /\ Len(frames') = Len(frames) + 1
        \/ pc = "returned" /\ pc' = "handled" /\ Len(frames') = Len(frames)
        \/ pc \in {"returned", "handled"} /\ pc' = "stmt" /\ Len(frames') = Len(frames) - 1
        \/ pc' = "exited"
    BY <1>2, <1>4, FramesMoved DEF MovesOnly
  <2>4. CallsOpen'
    BY <1>1, <2>1, <2>2, <2>3 DEF CallsOpen
  <2> QED
    BY <1>4, <2>4 DEF MovesOnly
<1>5. CASE MarksCall
  <2>1. SI'.branches = Append(SI.branches, kCallId) /\ SameConstraints(SI, SI')
    BY <1>1, <1>5, CallEffect DEF MarksCall
  <2>2. CallMarks' = CallMarks + 1 /\ ReturnMarks' = ReturnMarks
    BY <1>1, <1>5, MarksCounted DEF MarksCall
  <2>3. \/ pc = "start" /\ pc' = "stmt" /\ Len(frames') = Len(frames)
        \/ pc = "stmt" /\ pc' = "entry" /\ Len(frames') = Len(frames) + 1
    BY <1>5, FramesMoved DEF MarksCall
  <2>4. CallsOpen'
    BY <1>1, <1>3, <2>2, <2>3 DEF CallsOpen
  <2> QED
    BY <2>1, <2>4 DEF kCallId
<1>6. CASE MarksReturn
  <2>1. SI'.branches = Append(SI.branches, kReturnId) /\ SameConstraints(SI, SI')
    BY <1>1, <1>6 DEF MarksReturn, Return, Abort, SameConstraints, Machine
  <2>2. CallMarks' = CallMarks /\ ReturnMarks' = ReturnMarks + 1
    BY <1>1, <1>6, MarksCounted DEF MarksReturn
  <2>3. CallsOpen'
    BY <1>1, <1>6, <2>2 DEF CallsOpen, MarksReturn
  <2> QED
    BY <2>1, <2>3 DEF kReturnId
<1>7. CASE If
  <2>1. BranchAppended(SI, SI') /\ pc = "stmt" /\ pc' = pc /\ frames' = frames
    BY <1>7, BranchPath
  <2>2. CallMarks' = CallMarks /\ ReturnMarks' = ReturnMarks
    BY <1>1, <2>1, MarksCounted
  <2> QED
    BY <1>1, <2>1, <2>2 DEF CallsOpen
<1> QED
  BY <1>4, <1>5, <1>6, <1>7, PathSteps

\* Every position recorded is that of a branch, positions increase, and at no
\* moment have more returns than calls been marked.
THEOREM PathsWellFormed == Spec => []PathWellFormed
<1>1. Init => PathInv
  <2>1. SUFFICES ASSUME Init PROVE PathInv
    OBVIOUS
  <2>2. SI.branches = << >> /\ SI.constraints = << >> /\ SI.constraints_idx = << >> /\ pc = "start"
    BY <2>1 DEF Init, CrestInit, NewInterpreter
  <2>3. \A bid : Occurrences(bid) = {}
    BY <2>2, EmptySeq DEF Occurrences
  <2>4. CallMarks = 0 /\ ReturnMarks = 0
    BY <2>3, FS_EmptySet DEF CallMarks, ReturnMarks
  <2>5. CallsOpen
    BY <2>1, <2>2, <2>4 DEF CallsOpen, Init
  <2>6. Len(SI.constraints_idx) = 0 /\ Len(SI.constraints) = 0
    BY <2>2, EmptySeq
  <2>7. PathWellFormed
    BY <2>4, <2>6 DEF PathWellFormed, CallMarks, ReturnMarks
  <2> QED
    BY <2>5, <2>7 DEF PathInv
<1>2. Shape /\ PathInv /\ [Next]_vars => PathInv'
  <2>1. SUFFICES ASSUME Shape, PathInv, [Next]_vars PROVE PathInv'
    OBVIOUS
  <2>2. CASE Next
    <3>1. CallsOpen'
      BY <2>1, <2>2, CallsOpenStep DEF PathInv
    <3>2. SI \in Machine
      BY <2>1, MachineType
    <3> QED
      BY <2>1, <2>2, <3>1, <3>2, CallsOpenStep, PositionsKept DEF PathInv, CallsOpen
  <2>3. CASE UNCHANGED vars
    BY <2>1, <2>3 DEF PathInv, CallsOpen, PathWellFormed, CallMarks, ReturnMarks, Occurrences,
                     vars, programVars
  <2> QED
    BY <2>1, <2>2, <2>3
<1>3. PathInv => PathWellFormed
  BY DEF PathInv
<1> QED
  BY <1>1, <1>2, <1>3, ShapeInvariant, PTL DEF Spec

-----------------------------------------------------------------------------
(***************************************************************************)
(* What expressions depend on: only on inputs that have been read.         *)
(***************************************************************************)
OnInputs(e, n) ==
  \A a, b \in Assign : (\A i \in 0 .. n - 1 : a[i] = b[i]) => e[a] = e[b]

KnownExpr(e, n) == e = NULL \/ OnInputs(e, n)

ExprsKnown(s) ==
  /\ \A i \in 1 .. Len(s.stack) : KnownExpr(s.stack[i].expr, s.num_inputs)
  /\ \A x \in Addr : KnownExpr(s.mem[x], s.num_inputs)
  /\ s.pred # NULL => OnInputs(s.pred.expr, s.num_inputs)
  /\ \A k \in 1 .. Len(s.constraints) : OnInputs(s.constraints[k].expr, s.num_inputs)

\* The operators on expressions keep what they depend on.
LEMMA FormsKnown ==
  ASSUME NEW n, NEW x \in StackElem, NEW y \in StackElem,
         KnownExpr(x.expr, n), KnownExpr(y.expr, n)
  PROVE  /\ OnInputs(Minus(Form(x), Form(y)), n) /\ OnInputs(Plus(Form(x), Form(y)), n)
         /\ x.expr # NULL => OnInputs(Opposite(x.expr), n)
         /\ x.expr # NULL => \A c : OnInputs(Scale(x.expr, c), n)
         /\ y.expr # NULL => \A c : OnInputs(Scale(y.expr, c), n)
<1>1. OnInputs(Form(x), n) /\ OnInputs(Form(y), n)
  BY DEF Form, KnownExpr, OnInputs
<1>2. \A e, f : OnInputs(e, n) /\ OnInputs(f, n)
                  => OnInputs(Minus(e, f), n) /\ OnInputs(Plus(e, f), n)
  BY DEF OnInputs, Minus, Plus
<1>3. \A e, c : OnInputs(e, n) => OnInputs(Opposite(e), n) /\ OnInputs(Scale(e, c), n)
  BY DEF OnInputs, Opposite, Scale
<1> QED
  BY <1>1, <1>2, <1>3 DEF KnownExpr

\* So does the expression of a binary operator, whichever form it takes.
LEMMA BinaryExprKnown ==
  ASSUME NEW n, NEW x \in StackElem, NEW y \in StackElem, NEW op,
         KnownExpr(x.expr, n), KnownExpr(y.expr, n)
  PROVE  KnownExpr(BinaryExpr(op, x, y), n)
<1>1. OnInputs(Minus(Form(x), Form(y)), n) /\ OnInputs(Plus(Form(x), Form(y)), n)
  BY FormsKnown
<1>2. /\ x.expr # NULL => \A c : OnInputs(Scale(x.expr, c), n)
      /\ y.expr # NULL => \A c : OnInputs(Scale(y.expr, c), n)
  BY FormsKnown
<1> DEFINE symbolic == ~(x.expr = NULL /\ y.expr = NULL)
<1>3. CASE ~symbolic
  BY <1>3 DEF BinaryExpr, KnownExpr
<1>4. CASE symbolic /\ op = "ADD"
  BY <1>1, <1>4 DEF BinaryExpr, KnownExpr
<1>5. CASE symbolic /\ op = "SUBTRACT"
  BY <1>1, <1>5 DEF BinaryExpr, KnownExpr
<1>6. CASE symbolic /\ op = "MULTIPLY"
  <2>1. CASE y.expr # NULL
    <3>1. BinaryExpr(op, x, y) = Scale(y.expr, x.concrete)
      BY <1>6, <2>1 DEF BinaryExpr
    <3> QED
      BY <1>2, <2>1, <3>1 DEF KnownExpr
  <2>2. CASE y.expr = NULL
    <3>1. BinaryExpr(op, x, y) = Scale(x.expr, y.concrete) /\ x.expr # NULL
      BY <1>6, <2>2 DEF BinaryExpr
    <3> QED
      BY <1>2, <3>1 DEF KnownExpr
  <2> QED
    BY <2>1, <2>2
<1>7. CASE symbolic /\ op = "SHIFT_L"
  <2>1. CASE x.expr = NULL
    BY <1>7, <2>1 DEF BinaryExpr, KnownExpr
  <2>2. CASE x.expr # NULL
    <3>1. BinaryExpr(op, x, y) = Scale(x.expr, ShiftFactor(y.concrete))
      BY <1>7, <2>2 DEF BinaryExpr
    <3> QED
      BY <1>2, <2>2, <3>1 DEF KnownExpr
  <2> QED
    BY <2>1, <2>2
<1>8. CASE symbolic /\ op \notin {"ADD", "SUBTRACT", "MULTIPLY", "SHIFT_L"}
  BY <1>8 DEF BinaryExpr, KnownExpr
<1> HIDE DEF symbolic
<1> QED
  BY <1>3, <1>4, <1>5, <1>6, <1>7, <1>8

\* An operand is replaced.
LEMMA ReplacedKnown ==
  ASSUME NEW s \in Machine, NEW t \in Machine, ExprsKnown(s), NEW m \in Nat,
         m <= Len(s.stack), NEW e, NEW v, Replaced(s, m, Operand(e, v), t),
         KnownExpr(e, s.num_inputs), Unaffected(s, t), t.mem = s.mem,
         t.pred # NULL => OnInputs(t.pred.expr, s.num_inputs)
  PROVE  ExprsKnown(t)
<1>1. Len(s.stack) \in Nat
  BY TopElements
<1>2. t.num_inputs = s.num_inputs /\ t.constraints = s.constraints
  BY DEF Unaffected, SameInputs, SamePath
<1>3. ASSUME NEW i \in 1 .. Len(t.stack) PROVE KnownExpr(t.stack[i].expr, s.num_inputs)
  <2>1. CASE i = Len(s.stack) - m + 1
    BY <2>1 DEF Replaced, Operand
  <2>2. CASE i # Len(s.stack) - m + 1
    <3>1. Len(t.stack) = Len(s.stack) - m + 1
      BY DEF Replaced
    <3>2. i \in 1 .. Len(s.stack) - m /\ i \in 1 .. Len(s.stack)
      BY <1>1, <3>1, <2>2
    <3> QED
      BY <3>2 DEF Replaced, ExprsKnown
  <2> QED
    BY <2>1, <2>2
<1> QED
  BY <1>2, <1>3 DEF ExprsKnown

\* The stack shrinks, and mem_ gets at most what was on it.
LEMMA MovedKnown ==
  ASSUME NEW s \in Machine, NEW t \in Machine, ExprsKnown(s), SameInputs(s, t),
         t.constraints = s.constraints, t.pred = NULL \/ t.pred = s.pred,
         \A i \in 1 .. Len(t.stack) :
           t.stack[i].expr = NULL \/ (i \in 1 .. Len(s.stack) /\ t.stack[i] = s.stack[i]),
         \A x \in Addr : \/ t.mem[x] = NULL
                         \/ t.mem[x] = s.mem[x]
                         \/ Len(s.stack) >= 1 /\ t.mem[x] = Top(s).expr
  PROVE  ExprsKnown(t)
<1>1. t.num_inputs = s.num_inputs
  BY DEF SameInputs
<1>2. \A i \in 1 .. Len(t.stack) : KnownExpr(t.stack[i].expr, s.num_inputs)
  BY DEF ExprsKnown, KnownExpr
<1>3. Len(s.stack) >= 1 => Len(s.stack) \in 1 .. Len(s.stack)
  BY TopElements
<1>4. \A x \in Addr : KnownExpr(t.mem[x], s.num_inputs)
  BY <1>3 DEF ExprsKnown, KnownExpr, Top
<1> QED
  BY <1>1, <1>2, <1>4 DEF ExprsKnown

\* A constraint is the register's predicate or its negation.
LEMMA ConstraintsKnown ==
  ASSUME NEW s \in Machine, NEW t \in Machine, ExprsKnown(s), SameInputs(s, t),
         t.stack = << >>, t.mem = s.mem, t.pred = NULL, NullIsNull,
         \/ t.constraints = s.constraints
         \/ s.pred # NULL /\ \E p \in {s.pred, Negate(s.pred)} :
              t.constraints = Append(s.constraints, p)
  PROVE  ExprsKnown(t)
<1>1. t.num_inputs = s.num_inputs /\ Len(t.stack) = 0
  BY EmptySeq DEF SameInputs
<1>2. s.constraints \in Seq(Pred)
  BY DEF Machine
<1>3. ASSUME s.pred # NULL, NEW p \in {s.pred, Negate(s.pred)},
             t.constraints = Append(s.constraints, p),
             NEW k \in 1 .. Len(t.constraints)
      PROVE  OnInputs(t.constraints[k].expr, s.num_inputs)
  <2>1. s.pred \in Pred
    BY <1>3 DEF Machine
  <2>2. p \in Pred /\ p.expr = s.pred.expr
    BY <2>1, <1>3, NegatedPred
  <2>3. /\ Len(s.constraints) \in Nat /\ Len(t.constraints) = Len(s.constraints) + 1
        /\ t.constraints[Len(s.constraints) + 1] = p
        /\ \A j \in 1 .. Len(s.constraints) : t.constraints[j] = s.constraints[j]
    BY <1>2, <1>3, <2>2, AppendProperties, LenProperties
  <2>4. CASE k = Len(s.constraints) + 1
    BY <1>3, <2>2, <2>3, <2>4 DEF ExprsKnown
  <2>5. CASE k \in 1 .. Len(s.constraints)
    BY <2>3, <2>5 DEF ExprsKnown
  <2> QED
    BY <1>3, <2>3, <2>4, <2>5
<1> QED
  BY <1>1, <1>3 DEF ExprsKnown

\* The variable of a new input is one that has been read from now on.
LEMMA InputKnown ==
  ASSUME NEW s \in Machine, NEW t \in Machine, ExprsKnown(s), SamePath(s, t),
         t.stack = s.stack, t.pred = s.pred, t.num_inputs = s.num_inputs + 1,
         \A x \in Addr : t.mem[x] = s.mem[x] \/ t.mem[x] = InputExpr(s.num_inputs)
  PROVE  ExprsKnown(t)
<1>1. s.num_inputs \in Nat
  BY DEF Machine
<1>2. \A e : OnInputs(e, s.num_inputs) => OnInputs(e, t.num_inputs)
  <2>1. \A i \in 0 .. s.num_inputs - 1 : i \in 0 .. t.num_inputs - 1
    BY <1>1
  <2> QED
    BY <2>1 DEF OnInputs
<1>3. OnInputs(InputExpr(s.num_inputs), t.num_inputs)
  <2>1. s.num_inputs \in 0 .. t.num_inputs - 1
    BY <1>1
  <2> QED
    BY <2>1 DEF OnInputs, InputExpr
<1> QED
  BY <1>2, <1>3 DEF ExprsKnown, KnownExpr, SamePath

\* Evaluating an expression combines what the operands depend on.
LEMMA EvaluateKnown ==
  ASSUME Shape, SI' \in Machine, ExprsKnown(SI), Evaluate
  PROVE  ExprsKnown(SI')
<1>1. SI \in Machine /\ Len(SI.stack) \in Nat /\ Len(operands) \in Nat /\ pc = "stmt"
  BY MachineType, TopOperands DEF Evaluate, EvalLoad, EvalConstant, EvalUnary, EvalBinary,
     EvalCompare, EvalUnhandled, EvalCast, InExpression
<1>2. CASE pre_symbolic
  <2>1. SI' = SI
    BY <1>2 DEF Evaluate, EvalLoad, EvalConstant, EvalUnary, EvalBinary, EvalCompare,
       EvalUnhandled, EvalCast, CrestLoad, CrestApply1, CrestApply2, UnlessPreSymbolic
  <2> QED
    BY <2>1
<1>3. CASE ~pre_symbolic
  <2>1. /\ Len(SI.stack) = Len(operands)
        /\ Len(operands) >= 1 => Top(SI) \in StackElem
        /\ Len(operands) >= 2 => Top(SI) \in StackElem /\ Second(SI) \in StackElem
    BY <1>1, <1>3, TopOperands
  <2>2. /\ Len(operands) >= 1 => KnownExpr(Top(SI).expr, SI.num_inputs)
        /\ Len(operands) >= 2 => KnownExpr(Second(SI).expr, SI.num_inputs)
    BY <1>1, <2>1 DEF ExprsKnown, Top, Second
  <2>3. ASSUME NEW x, NEW v \in Int, SI' = Load(SI, x, v) PROVE ExprsKnown(SI')
    <3> DEFINE e == IF x \in Addr THEN SI.mem[x] ELSE NULL
    <3>1. /\ Unaffected(SI, SI') /\ SI'.mem = SI.mem /\ SI'.pred = NULL
          /\ Replaced(SI, 0, Operand(e, v), SI')
      BY <1>1, <2>3, LoadEffect
    <3>2. KnownExpr(e, SI.num_inputs)
      BY DEF ExprsKnown, KnownExpr
    <3> HIDE DEF e
    <3>3. 0 \in Nat /\ 0 <= Len(SI.stack)
      BY <1>1
    <3> QED
      BY <1>1, <3>1, <3>2, <3>3, ReplacedKnown
  <2>4. ASSUME NEW op, NEW v \in Int, SI' = ApplyUnaryOp(SI, op, v), Len(operands) >= 1
        PROVE  ExprsKnown(SI')
    <3>1. SI.pred = NULL \/ Top(SI).expr = NULL
      BY <1>3, <1>1, <2>4 DEF Shape, PredicateOnTop
    <3>2. /\ Unaffected(SI, SI') /\ SI'.mem = SI.mem
          /\ SI'.pred # NULL => SI'.pred = SI.pred
      BY <1>1, <2>1, <2>4, <3>1, UnaryEffect
    <3>3. PICK f \in Expr \cup {NULL} :
            /\ Replaced(SI, 1, Operand(f, v), SI')
            /\ f = NULL \/ /\ Top(SI).expr # NULL /\ op = "NEGATE"
                           /\ f = Opposite(Top(SI).expr)
            /\ Top(SI).expr = NULL => f = NULL
      BY <1>1, <2>1, <2>4, <3>1, UnaryEffect
    <3>4. KnownExpr(f, SI.num_inputs)
      BY <2>1, <2>2, <2>4, <3>3, FormsKnown DEF KnownExpr
    <3>5. 1 \in Nat /\ 1 <= Len(SI.stack)
      BY <1>1, <2>1, <2>4
    <3> QED
      BY <1>1, <3>2, <3>3, <3>4, <3>5, ReplacedKnown DEF ExprsKnown
  <2>5. ASSUME NEW code \in ArithmeticCode, NEW v \in Values, EvalBinary(code, v)
        PROVE  ExprsKnown(SI')
    <3> DEFINE op == kOpTable(code)
               e == BinaryExpr(op, Second(SI), Top(SI))
    <3>1. SI' = ApplyBinaryOp(SI, op, v) /\ Len(operands) >= 2 /\ v \in Int
      BY <1>3, <2>5, ValuesAssumption
         DEF EvalBinary, CrestApply2, UnlessPreSymbolic, ValuesAssumption
    <3> HIDE DEF op
    <3>3. e \in Expr \cup {NULL} /\ KnownExpr(e, SI.num_inputs)
      BY <1>1, <2>1, <2>2, <3>1, BinaryExprType, BinaryExprKnown, NullIsNotAnExpression
    <3>4. /\ Unaffected(SI, SI') /\ SI'.mem = SI.mem /\ SI'.pred = NULL
          /\ Replaced(SI, 2, Operand(e, v), SI')
      BY <1>1, <2>1, <3>1, <3>3, BinaryEffect
    <3> HIDE DEF e
    <3>5. 2 \in Nat /\ 2 <= Len(SI.stack)
      BY <1>1, <2>1, <3>1
    <3> QED
      BY <1>1, <3>3, <3>4, <3>5, ReplacedKnown
  <2>6. ASSUME NEW op \in CompareOp, NEW v \in Int, SI' = ApplyCompareOp(SI, op, v),
               Len(operands) >= 2
        PROVE  ExprsKnown(SI')
    <3>1. /\ Unaffected(SI, SI') /\ SI'.mem = SI.mem
          /\ SI'.pred = ComparePred(SI, op, Second(SI), Top(SI))
          /\ Replaced(SI, 2, Operand(NULL, v), SI')
      BY <1>1, <2>1, <2>6, CompareEffect, NullIsNotAnExpression
    <3> DEFINE diff == Minus(Form(Second(SI)), Form(Top(SI)))
    <3>2. OnInputs(diff, SI.num_inputs)
      <4>1. Second(SI) \in StackElem /\ Top(SI) \in StackElem
        BY <2>1, <2>6, <1>1
      <4>2. KnownExpr(Second(SI).expr, SI.num_inputs) /\ KnownExpr(Top(SI).expr, SI.num_inputs)
        BY <2>2, <2>6, <1>1
      <4> QED
        BY <4>1, <4>2, FormsKnown
    <3>3. SI'.pred \in {SI.pred, NULL, [op |-> op, expr |-> diff]}
      BY <3>1 DEF ComparePred
    <3> HIDE DEF diff
    <3>4. SI'.pred # NULL => OnInputs(SI'.pred.expr, SI.num_inputs)
      BY <3>2, <3>3 DEF ExprsKnown
    <3>5. 2 \in Nat /\ 2 <= Len(SI.stack) /\ KnownExpr(NULL, SI.num_inputs)
      BY <1>1, <2>1, <2>6 DEF KnownExpr
    <3> QED
      BY <1>1, <3>1, <3>4, <3>5, ReplacedKnown
  <2>7. ASSUME NEW a \in Addr, EvalLoad(a) PROVE ExprsKnown(SI')
    <3>1. memory[a] \in Int
      BY ValuesAssumption DEF Shape, TypeOK, ValuesAssumption
    <3>2. SI' = Load(SI, a, memory[a])
      BY <1>3, <2>7 DEF EvalLoad, CrestLoad, UnlessPreSymbolic
    <3> QED
      BY <2>3, <3>1, <3>2
  <2>8. ASSUME NEW v \in Literals, EvalConstant(v) PROVE ExprsKnown(SI')
    <3>1. v \in Int
      BY ValuesAssumption DEF ValuesAssumption
    <3>2. SI' = Load(SI, NoAddr, v)
      BY <1>3, <2>8 DEF EvalConstant, CrestLoad, UnlessPreSymbolic
    <3> QED
      BY <2>3, <3>1, <3>2
  <2>9. ASSUME NEW code \in UnaryCode, EvalUnary(code) PROVE ExprsKnown(SI')
    <3> DEFINE v == UnaryValue(code, Rand(0).val)
    <3>1. v \in Int /\ Len(operands) >= 1 /\ SI' = ApplyUnaryOp(SI, kOpTable(code), v)
      BY <1>3, <2>9, ValuesAssumption
         DEF EvalUnary, CrestApply1, UnlessPreSymbolic, ValuesAssumption
    <3> QED
      BY <2>4, <3>1
  <2>10. ASSUME NEW code \in CompareOp, EvalCompare(code) PROVE ExprsKnown(SI')
    <3> DEFINE v == IF Compare(code, Rand(1).val, Rand(0).val) THEN 1 ELSE 0
    <3>1. code \notin ArithmeticCode /\ kOpTable(code) = code
      BY DEF ArithmeticCode, ConcreteCode, CompareOp, kOpTable, Unhandled
    <3>2. v \in Int /\ Len(operands) >= 2 /\ CrestApply2(code, v)
      BY <2>10 DEF EvalCompare
    <3> HIDE DEF v
    <3>3. SI' = ApplyCompareOp(SI, code, v)
      BY <1>3, <3>1, <3>2 DEF CrestApply2, UnlessPreSymbolic
    <3> QED
      BY <2>6, <3>2, <3>3
  <2>11. ASSUME NEW v \in Foreign, EvalUnhandled(v) PROVE ExprsKnown(SI')
    <3>1. Unhandled \notin ArithmeticCode /\ kOpTable(Unhandled) = "LT" /\ "LT" \in CompareOp
      BY DEF ArithmeticCode, ConcreteCode, CompareOp, kOpTable, Unhandled
    <3>2. v \in Int /\ Len(operands) >= 2 /\ CrestApply2(Unhandled, v)
      BY <2>11, ValuesAssumption DEF EvalUnhandled, ValuesAssumption
    <3>3. SI' = ApplyCompareOp(SI, "LT", v)
      BY <1>3, <3>1, <3>2 DEF CrestApply2, UnlessPreSymbolic
    <3> QED
      BY <2>6, <3>1, <3>2, <3>3
  <2>12. ASSUME NEW conv \in Casts, EvalCast(conv) PROVE ExprsKnown(SI')
    BY <2>12 DEF EvalCast
  <2> QED
    BY <2>5, <2>7, <2>8, <2>9, <2>10, <2>11, <2>12 DEF Evaluate
<1> QED
  BY <1>2, <1>3

\* A call only extends the path.
LEMMA CallMovesKnown ==
  ASSUME SI \in Machine, ExprsKnown(SI), CrestCall
  PROVE  ExprsKnown(SI')
BY CallEffect DEF CrestCall, SameInputs, SameState, SameConstraints, ExprsKnown

\* A store moves the top of the stack to an address.
LEMMA StoreKnown ==
  ASSUME SI \in Machine, SI' \in Machine, ExprsKnown(SI), NEW x \in Addr,
         UnlessPreSymbolic(Store(SI, x)), ~pre_symbolic => Len(SI.stack) >= 1
  PROVE  ExprsKnown(SI')
<1>1. CASE SI' = SI
  BY <1>1
<1>2. CASE SI' = Store(SI, x) /\ Len(SI.stack) >= 1
  <2>1. /\ Unaffected(SI, SI') /\ SI'.pred = NULL /\ SI'.stack = Popped(SI, 1)
        /\ SI'.mem[x] \in {NULL, Top(SI).expr}
        /\ \A y \in Addr \ {x} : SI'.mem[y] = SI.mem[y]
    BY <1>2, StoreEffect
  <2>2. Len(SI.stack) \in Nat /\ 1 \in Nat /\ 1 <= Len(SI.stack)
    BY <1>2, TopElements
  <2>3. /\ Len(SI'.stack) = Len(SI.stack) - 1
        /\ \A i \in 1 .. Len(SI.stack) - 1 : SI'.stack[i] = SI.stack[i]
    BY <2>1, <2>2, PoppedStack
  <2>4. \A i \in 1 .. Len(SI'.stack) : i \in 1 .. Len(SI.stack) /\ SI'.stack[i] = SI.stack[i]
    BY <2>2, <2>3
  <2>5. \A y \in Addr : \/ SI'.mem[y] = NULL \/ SI'.mem[y] = SI.mem[y]
                        \/ Len(SI.stack) >= 1 /\ SI'.mem[y] = Top(SI).expr
    BY <2>1, <1>2
  <2> QED
    BY <2>1, <2>4, <2>5, MovedKnown DEF Unaffected, SamePath
<1> QED
  BY <1>1, <1>2 DEF UnlessPreSymbolic

\* Statements move expressions about, negate the register's predicate, or make
\* the variable of the input just read.
LEMMA StatementKnown ==
  ASSUME Shape, SI' \in Machine, ExprsKnown(SI), Statement
  PROVE  ExprsKnown(SI')
<1>1. SI \in Machine /\ Len(SI.stack) \in Nat
  BY MachineType
<1>2. CASE Start
  BY <1>1, <1>2, CallMovesKnown DEF Start
<1>3. ASSUME NEW a \in Addr, Assignment(a) PROVE ExprsKnown(SI')
  <2>1. UnlessPreSymbolic(Store(SI, a)) /\ (~pre_symbolic => Len(SI.stack) >= 1)
    <3>1. pc = "stmt" /\ Len(operands) = 1 /\ UnlessPreSymbolic(Store(SI, a))
      BY <1>3 DEF Assignment, CrestStore
    <3>2. ASSUME ~pre_symbolic PROVE Len(SI.stack) = 1
      BY <3>1, <3>2, TopOperands
    <3>3. ASSUME ~pre_symbolic PROVE Len(SI.stack) >= 1
      <4>1. Len(SI.stack) = 1
        BY <3>2, <3>3
      <4> QED
        BY <4>1
    <3> QED
      BY <3>1, <3>3
  <2> QED
    BY <1>1, <2>1, StoreKnown
<1>4. CASE If
  <2>1. PICK bid \in {1, 2}, b \in {0, 1} : CrestBranch(bid, b)
    BY <1>4 DEF If
  <2>2. bid \in Int /\ pc = "stmt" /\ Len(operands) = 1
    BY <1>4 DEF If, InExpression
  <2>3. /\ SameInputs(SI, SI') /\ SI'.mem = SI.mem
        /\ SI'.stack = << >> /\ SI'.pred = NULL
        /\ SI.pred = NULL => SI'.constraints = SI.constraints
        /\ SI.pred # NULL => \E p \in {SI.pred, Negate(SI.pred)} :
             SI'.constraints = Append(SI.constraints, p)
    BY <2>1, <2>2, BranchTaken
  <2> QED
    BY <1>1, <2>3, ConstraintsKnown, NullIsNotAnExpression
<1>5. ASSUME NEW a \in Addr, NEW type \in Type, NEW random \in Foreign, NEW received \in Values,
             ReadInput(a, type, random, received)
      PROVE  ExprsKnown(SI')
  <2>1. SI' = NewInput(SI, type, a, random)
    BY <1>5 DEF ReadInput, CrestInput
  <2>2. /\ SamePath(SI, SI') /\ SI'.stack = SI.stack /\ SI'.pred = SI.pred
        /\ SI'.num_inputs = SI.num_inputs + 1
        /\ \A x \in Addr : SI'.mem[x] = SI.mem[x] \/ SI'.mem[x] = InputExpr(SI.num_inputs)
    BY <1>1, <2>1 DEF NewInput, Machine, SamePath
  <2> QED
    BY <1>1, <2>2, InputKnown
<1> QED
  BY <1>2, <1>3, <1>4, <1>5 DEF Statement

\* Calls and returns only move them.
LEMMA ProcedureKnown ==
  ASSUME Shape, SI' \in Machine, ExprsKnown(SI), Procedure
  PROVE  ExprsKnown(SI')
<1>1. SI \in Machine /\ Len(SI.stack) \in Nat
  BY MachineType
<1>2. ASSUME NEW params, NEW dest, CallInstrumented(params, dest) PROVE ExprsKnown(SI')
  BY <1>1, <1>2, CallMovesKnown DEF CallInstrumented
<1>3. CASE StoreFormal
  <2>1. pc = "entry" /\ formals # << >>
    BY <1>3 DEF StoreFormal
  <2>2. formals \in Seq(Addr) /\ formals[Len(formals)] \in Addr /\ Len(formals) \in Nat /\ Len(formals) >= 1
    <3>1. formals \in Seq(Addr)
      BY DEF Shape, TypeOK
    <3>2. Len(formals) \in Nat /\ Len(formals) # 0
      BY <2>1, <3>1, LenProperties, EmptySeq
    <3> QED
      BY <3>1, <3>2, ElementOfSeq
  <2>3. ~pre_symbolic => Len(SI.stack) >= 1
    BY <2>1, <2>2 DEF Shape, ControlOK, StackMirrorsOperands
  <2>4. UnlessPreSymbolic(Store(SI, formals[Len(formals)]))
    BY <1>3 DEF StoreFormal, CrestStore
  <2> QED
    BY <1>1, <2>2, <2>3, <2>4, StoreKnown
<1>4. CASE EnterBody \/ Exit
  BY <1>4 DEF EnterBody, Exit
<1>5. ASSUME NEW dest, NEW v, CallUninstrumented(dest, v) PROVE ExprsKnown(SI')
  BY <1>5 DEF CallUninstrumented
<1>6. CASE ReturnFromCall
  <2>1. CrestReturn /\ pc = "stmt" /\ Len(operands) <= 1
    <3>1. CrestReturn /\ pc = "stmt" /\ Len(operands) \in {0, 1}
      BY <1>6 DEF ReturnFromCall
    <3>2. Len(operands) <= 1
      <4>1. CASE Len(operands) = 1
        BY <4>1
      <4>2. CASE Len(operands) = 0
        BY <4>2
      <4> QED
        BY <3>1, <4>1, <4>2
    <3> QED
      BY <3>1, <3>2
  <2>2. SameInputs(SI, SI') /\ SameState(SI, SI') /\ SameConstraints(SI, SI')
    BY <2>1, Returned
  <2> QED
    BY <2>2 DEF SameInputs, SameState, SameConstraints, ExprsKnown
<1>7. CASE ReturnFromMain
  <2>1. CrestReturn /\ pc = "stmt" /\ Len(operands) <= 1
    BY <1>7 DEF ReturnFromMain
  <2>2. SameInputs(SI, SI') /\ SameState(SI, SI') /\ SameConstraints(SI, SI')
    BY <2>1, Returned
  <2> QED
    BY <2>2 DEF SameInputs, SameState, SameConstraints, ExprsKnown
<1>8. CASE DiscardResult
  <2>1. UnlessPreSymbolic(ClearStack(SI))
    BY <1>8 DEF DiscardResult, CrestClearStack
  <2>2. CASE SI' = SI
    BY <2>2
  <2>3. CASE SI' = ClearStack(SI)
    <3>1. /\ Unaffected(SI, SI') /\ SI'.mem = SI.mem
          /\ SI'.stack = << >> /\ SI'.pred = NULL
      BY <1>1, <2>3, ClearStackEffect
    <3>2. Len(SI'.stack) = 0
      BY <3>1, EmptySeq
    <3> QED
      BY <3>1, <3>2 DEF Unaffected, SameInputs, SamePath, ExprsKnown
  <2> QED
    BY <2>1, <2>2, <2>3 DEF UnlessPreSymbolic
<1>9. CASE TakeResult
  <2>1. UnlessPreSymbolic(HandleReturn(SI, result)) /\ pc = "returned" /\ result \in Int
    BY <1>9, ValuesAssumption DEF TakeResult, CrestHandleReturn, Shape, TypeOK, ValuesAssumption
  <2>2. CASE SI' = SI
    BY <2>2
  <2>3. CASE SI' = HandleReturn(SI, result)
    <3>1. SI.return_value => Len(SI.stack) = 1
      BY <2>1 DEF Shape, StackMirrorsOperands
    <3>2. /\ Unaffected(SI, SI') /\ SI'.mem = SI.mem
          /\ SI.return_value => SI'.stack = SI.stack /\ SI'.pred = SI.pred
          /\ ~SI.return_value => /\ SI'.stack = << Operand(NULL, result) >>
                                 /\ SI'.pred = NULL
      BY <1>1, <2>1, <2>3, <3>1, HandleReturnEffect
    <3>3. \A i \in 1 .. Len(SI'.stack) : KnownExpr(SI'.stack[i].expr, SI.num_inputs)
      <4>1. CASE SI.return_value
        BY <3>2, <4>1 DEF ExprsKnown
      <4>2. CASE ~SI.return_value
        BY <3>2, <4>2 DEF KnownExpr, Operand
      <4> QED
        BY <4>1, <4>2
    <3> QED
      BY <3>2, <3>3 DEF ExprsKnown, Unaffected, SameInputs, SamePath
  <2> QED
    BY <2>1, <2>2, <2>3 DEF UnlessPreSymbolic
<1>10. CASE StoreResult
  <2>1. /\ pc = "handled" /\ frames[Len(frames)] \in Addr
        /\ UnlessPreSymbolic(Store(SI, frames[Len(frames)]))
    BY <1>10 DEF StoreResult, CrestStore, Shape, ControlOK
  <2>2. ASSUME ~pre_symbolic PROVE Len(SI.stack) >= 1
    <3>1. Len(SI.stack) = 1
      BY <2>1, <2>2 DEF Shape, StackMirrorsOperands
    <3> QED
      BY <3>1
  <2> QED
    BY <1>1, <2>1, <2>2, StoreKnown
<1> QED
  BY <1>2, <1>3, <1>4, <1>5, <1>6, <1>7, <1>8, <1>9, <1>10 DEF Procedure

-----------------------------------------------------------------------------
\* With expressions over the inputs read, what is written at exit is whole.
Contained ==
  /\ ExprsKnown(SI)
  /\ pc # "exited" => execution = NULL
  /\ ExecutionSelfContained

\* An execution is written once, as the program exits.
KeepsRunning == pc # "exited" /\ pc' # "exited" /\ execution' = execution

\* Every step but Exit leaves the execution unwritten.
LEMMA ExecutionWritten ==
  ASSUME Shape, Next
  PROVE  Exit \/ KeepsRunning
<1>1. ASSUME Evaluate PROVE KeepsRunning
  BY <1>1 DEF KeepsRunning, Evaluate, EvalLoad, EvalConstant, EvalUnary, EvalBinary, EvalCompare,
              EvalUnhandled, EvalCast, InExpression
<1>2. ASSUME Statement PROVE KeepsRunning
  BY <1>2 DEF KeepsRunning, Statement, Start, Assignment, If, ReadInput, AtStatement, InExpression
<1>3. ASSUME Procedure, ~Exit PROVE KeepsRunning
  <2>1. ASSUME NEW params, NEW dest, CallInstrumented(params, dest) PROVE KeepsRunning
    BY <2>1 DEF KeepsRunning, CallInstrumented, InExpression
  <2>2. ASSUME NEW dest, NEW v, CallUninstrumented(dest, v) PROVE KeepsRunning
    BY <2>2 DEF KeepsRunning, CallUninstrumented, InExpression
  <2>3. ASSUME StoreFormal \/ EnterBody \/ ReturnFromCall \/ DiscardResult PROVE KeepsRunning
    BY <2>3 DEF KeepsRunning, StoreFormal, EnterBody, ReturnFromCall, DiscardResult
  <2>4. ASSUME TakeResult \/ StoreResult \/ ReturnFromMain PROVE KeepsRunning
    BY <2>4 DEF KeepsRunning, TakeResult, StoreResult, ReturnFromMain
  <2> QED
    BY <1>3, <2>1, <2>2, <2>3, <2>4 DEF Procedure
<1> QED
  BY <1>1, <1>2, <1>3 DEF Next

\* An execution has one input for every variable, and its constraints mention
\* no other: it can be read back, solved and replayed by itself.
THEOREM ExecutionsSelfContained == Spec => []ExecutionSelfContained
<1>1. Init => Contained
  <2>1. SUFFICES ASSUME Init PROVE Contained
    OBVIOUS
  <2>2. /\ SI.stack = << >> /\ SI.constraints = << >> /\ SI.pred = NULL
        /\ \A x \in Addr : SI.mem[x] = NULL
        /\ execution = NULL
    BY <2>1 DEF Init, CrestInit, NewInterpreter
  <2>3. Len(SI.stack) = 0 /\ Len(SI.constraints) = 0
    BY <2>2, EmptySeq
  <2>4. ExprsKnown(SI)
    BY <2>2, <2>3 DEF ExprsKnown, KnownExpr
  <2> QED
    BY <2>2, <2>4 DEF Contained, ExecutionSelfContained
<1>2. Shape /\ Shape' /\ Contained /\ [Next]_vars => Contained'
  <2>1. SUFFICES ASSUME Shape, Shape', Contained, [Next]_vars PROVE Contained'
    OBVIOUS
  <2>2. CASE UNCHANGED vars
    BY <2>1, <2>2 DEF Contained, ExecutionSelfContained, ExprsKnown, vars, programVars
  <2>3. CASE Next
    <3>1. SI \in Machine /\ SI' \in Machine
      BY <2>1 DEF Shape, TypeOK
    <3>2. ExprsKnown(SI')
      BY <2>1, <2>3, <3>1, EvaluateKnown, StatementKnown, ProcedureKnown DEF Contained, Next
    <3>3. CASE KeepsRunning
      BY <2>1, <3>2, <3>3 DEF KeepsRunning, Contained, ExecutionSelfContained
    <3>4. CASE Exit
      <4> DEFINE n == SI.num_inputs
      <4>1. /\ SI' = SI /\ pc' = "exited"
            /\ execution' = [vars |-> SI.vars, inputs |-> SerializedInputs(SI),
                             branches |-> SI.branches, constraints |-> SI.constraints,
                             constraints_idx |-> SI.constraints_idx]
        BY <3>4 DEF Exit
      <4>2. /\ n \in Nat /\ Len(SI.vars) = n /\ SI.inputs \in Seq(Int)
            /\ Len(SI.inputs) \in Nat /\ Len(SI.inputs) >= n
        BY <2>1, <3>1, LenProperties DEF Machine, Shape, TypeOK
      <4>3. Len(SerializedInputs(SI)) = n
        <5>1. SerializedInputs(SI) = SubSeq(SI.inputs, 1, n)
          BY <4>2 DEF SerializedInputs
        <5>2. \A i \in 1 .. n : SI.inputs[i] \in Int
          BY <4>2, ElementOfSeq
        <5>3. 1 \in Int /\ n \in Int
          BY <4>2
        <5>4. Len(SubSeq(SI.inputs, 1, n)) = IF 1 <= n THEN n - 1 + 1 ELSE 0
          BY <5>2, <5>3, SubSeqProperties
        <5> QED
          BY <4>2, <5>1, <5>4
      <4>4. ExecutionSelfContained'
        BY <2>1, <4>1, <4>2, <4>3 DEF ExecutionSelfContained, Contained, ExprsKnown, OnInputs
      <4> QED
        BY <3>2, <4>1, <4>4 DEF Contained
    <3> QED
      BY <2>1, <2>3, <3>3, <3>4, ExecutionWritten
  <2> QED
    BY <2>1, <2>2, <2>3
<1>3. Contained => ExecutionSelfContained
  BY DEF Contained
<1> QED
  BY <1>1, <1>2, <1>3, ShapeInvariant, PTL DEF Spec
=============================================================================
