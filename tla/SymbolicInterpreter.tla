------------------------- MODULE SymbolicInterpreter -------------------------
(***************************************************************************)
(* The stack machine of src/base/symbolic_interpreter.cc that libcrest     *)
(* runs inside the program under test.  An operation of the class is an    *)
(* operator from a machine state s to the next one, so that libcrest can   *)
(* compose them (a __CrestBranch is a Load followed by a Branch while the  *)
(* program has read no input).  A failed assert() sets s.aborted.          *)
(***************************************************************************)
EXTENDS SymbolicPred, Sequences

CONSTANTS
  Addr,      \* addresses the program stores integers at (0 is not one)
  Type,      \* C types of the inputs
  TypeMin,   \* kMinValue of each type
  TypeSize,  \* number of values of each type
  NULL       \* the null SymbolicExpr or SymbolicPred pointer

\* Two's complement wrapping into the range of a type.
CastTo(val, type) == ((val - TypeMin[type]) % TypeSize[type]) + TypeMin[type]

\* The linear form of an operand, symbolic or not.
Form(elem) ==
  IF elem.expr = NULL THEN [a \in Assign |-> elem.concrete] ELSE elem.expr

-----------------------------------------------------------------------------
(***************************************************************************)
(* The machine: the members of SymbolicInterpreter, with the members of    *)
(* its execution ex_ (vars, inputs) and path (branches, constraints,       *)
(* constraints_idx) inlined.  Indices into branches count from 0.          *)
(***************************************************************************)
kCallId   == -1
kReturnId == -2

NewInterpreter(input) ==
  [stack |-> << >>, pred |-> NULL, return_value |-> FALSE,
   mem |-> [a \in Addr |-> NULL],
   branches |-> << >>, constraints |-> << >>, constraints_idx |-> << >>,
   vars |-> << >>, inputs |-> input, num_inputs |-> 0,
   aborted |-> FALSE]

\* A StackElem, and the type of the machine.
StackElem == [expr : Expr \cup {NULL}, concrete : Int]

Machine ==
  [stack : Seq(StackElem), pred : Pred \cup {NULL}, return_value : BOOLEAN,
   mem : [Addr -> Expr \cup {NULL}],
   branches : Seq(Int), constraints : Seq(Pred), constraints_idx : Seq(Nat),
   vars : Seq(Type), inputs : Seq(Int), num_inputs : Nat,
   aborted : BOOLEAN]

Abort(s) == [s EXCEPT !.aborted = TRUE]

Top(s)    == s.stack[Len(s.stack)]
Second(s) == s.stack[Len(s.stack) - 1]
Popped(s, n) == SubSeq(s.stack, 1, Len(s.stack) - n)

Operand(e, v) == [expr |-> e, concrete |-> v]

ClearStack(s) ==
  [s EXCEPT !.stack = << >>, !.pred = NULL, !.return_value = FALSE]

\* Mutant of Load: the predicate register survives a load.
LoadKeepingPred(s, addr, value) ==
  LET found == IF addr \in Addr THEN s.mem[addr] ELSE NULL
  IN  [s EXCEPT !.stack = Append(@, Operand(found, value))]

Load(s, addr, value) ==
  LET found == IF addr \in Addr THEN s.mem[addr] ELSE NULL
  IN  [s EXCEPT !.stack = Append(@, Operand(found, value)), !.pred = NULL]

\* Mutant of Store: a concrete value does not erase the address from mem_.
StoreKeepingMem(s, addr) ==
  IF Len(s.stack) = 0
    THEN Abort(s)
    ELSE LET e == Top(s).expr
         IN  [s EXCEPT !.mem[addr] = IF e = NULL THEN @ ELSE e,
                       !.stack = Popped(s, 1), !.pred = NULL]

Store(s, addr) ==
  IF Len(s.stack) = 0
    THEN Abort(s)
    ELSE LET e == Top(s).expr
             stored == IF e = NULL THEN NULL
                       ELSE IF IsConcrete(e) THEN NULL ELSE e
         IN  [s EXCEPT !.mem[addr] = stored, !.stack = Popped(s, 1),
                       !.pred = NULL]

ApplyUnaryOp(s, op, value) ==
  LET e == Top(s).expr
      WithTop(f, p) ==
        [s EXCEPT !.stack = Append(Popped(s, 1), Operand(f, value)), !.pred = p]
  IN  IF Len(s.stack) < 1 THEN Abort(s)
      ELSE IF e = NULL THEN WithTop(NULL, s.pred)
      ELSE IF op = "NEGATE" THEN WithTop(Opposite(e), NULL)
      ELSE IF op = "LOGICAL_NOT" /\ s.pred # NULL
           THEN WithTop(e, Negate(s.pred))
      ELSE WithTop(NULL, NULL)

\* The factor 1 << b, computed in int.  The processor takes the count modulo
\* the width of int, where the language leaves it undefined.
ShiftFactor(b) ==
  LET n == b % 32 IN IF n = 31 THEN -(2 ^ 30) - 2 ^ 30 ELSE 2 ^ n

\* The expression left on the stack by a binary operator, a below b.  A
\* product of two symbolic operands takes the lower one at its concrete value.
BinaryExpr(op, a, b) ==
  IF a.expr = NULL /\ b.expr = NULL THEN NULL
  ELSE CASE op = "ADD"      -> Plus(Form(a), Form(b))
         [] op = "SUBTRACT" -> Minus(Form(a), Form(b))
         [] op = "MULTIPLY" -> IF b.expr # NULL THEN Scale(b.expr, a.concrete)
                                                ELSE Scale(a.expr, b.concrete)
         [] op = "SHIFT_L"  -> IF a.expr = NULL THEN NULL
                               ELSE Scale(a.expr, ShiftFactor(b.concrete))
         [] OTHER           -> NULL

ApplyBinaryOp(s, op, value) ==
  IF Len(s.stack) < 2
    THEN Abort(s)
    ELSE LET e == BinaryExpr(op, Second(s), Top(s))
         IN  [s EXCEPT !.stack = Append(Popped(s, 2), Operand(e, value)),
                       !.pred = NULL]

\* With two concrete operands the predicate register keeps what it held.
ComparePred(s, op, a, b) ==
  LET diff == Minus(Form(a), Form(b))
  IN  IF a.expr = NULL /\ b.expr = NULL THEN s.pred
      ELSE IF IsConcrete(diff) THEN NULL
      ELSE [op |-> op, expr |-> diff]

ApplyCompareOp(s, op, value) ==
  IF Len(s.stack) < 2
    THEN Abort(s)
    ELSE [s EXCEPT !.stack = Append(Popped(s, 2), Operand(NULL, value)),
                   !.pred = ComparePred(s, op, Second(s), Top(s))]

Call(s) == [s EXCEPT !.branches = Append(@, kCallId)]

Return(s) ==
  LET t == [s EXCEPT !.branches = Append(@, kReturnId)]
  IN  IF Len(s.stack) > 1
        THEN Abort(t)
        ELSE [t EXCEPT !.return_value = (Len(s.stack) = 1)]

\* Mutant of HandleReturn: the flag of the returned value is not reset.
HandleReturnKeepingFlag(s, value) ==
  IF s.return_value
    THEN IF Len(s.stack) # 1 THEN Abort(s) ELSE s
    ELSE [ClearStack(s) EXCEPT !.stack = << Operand(NULL, value) >>]

\* Mutant of HandleReturn: one operand left on the stack, an argument of a
\* library function say, is taken for the returned value.
HandleReturnByStack(s, value) ==
  IF Len(s.stack) = 1
    THEN [s EXCEPT !.return_value = FALSE]
    ELSE [ClearStack(s) EXCEPT !.stack = << Operand(NULL, value) >>]

HandleReturn(s, value) ==
  IF s.return_value
    THEN IF Len(s.stack) # 1 THEN Abort(s)
                             ELSE [s EXCEPT !.return_value = FALSE]
    ELSE [ClearStack(s) EXCEPT !.stack = << Operand(NULL, value) >>]

\* Mutant of Branch: the constraint's index is that of the next branch.
BranchIndexedAfterPush(s, bid, pred_value) ==
  LET p == IF s.pred # NULL /\ ~pred_value THEN Negate(s.pred) ELSE s.pred
      t == [s EXCEPT !.stack = Popped(s, 1), !.pred = NULL,
                     !.branches = Append(@, bid)]
  IN  IF Len(s.stack) # 1 THEN Abort(s)
      ELSE IF p = NULL THEN t
      ELSE [t EXCEPT !.constraints = Append(@, p),
                     !.constraints_idx = Append(@, Len(t.branches))]

Branch(s, bid, pred_value) ==
  LET p == IF s.pred # NULL /\ ~pred_value THEN Negate(s.pred) ELSE s.pred
      t == [s EXCEPT !.stack = Popped(s, 1), !.pred = NULL,
                     !.branches = Append(@, bid)]
  IN  IF Len(s.stack) # 1 THEN Abort(s)
      ELSE IF p = NULL THEN t
      ELSE [t EXCEPT !.constraints = Append(@, p),
                     !.constraints_idx = Append(@, Len(s.branches))]

\* The value the program's variable is to receive: the next value of the input
\* file as it stands, or a random one cast to the type.
InputValue(s, type, random) ==
  IF s.num_inputs < Len(s.inputs)
    THEN s.inputs[s.num_inputs + 1]
    ELSE CastTo(random, type)

\* Mutant of NewInput: the variable's type is not recorded.
NewInputUntyped(s, type, addr, random) ==
  [s EXCEPT !.mem[addr] = InputExpr(s.num_inputs),
            !.inputs = IF s.num_inputs < Len(@) THEN @
                       ELSE Append(@, CastTo(random, type)),
            !.num_inputs = @ + 1]

NewInput(s, type, addr, random) ==
  [s EXCEPT !.mem[addr] = InputExpr(s.num_inputs),
            !.vars = Append(@, type),
            !.inputs = IF s.num_inputs < Len(@) THEN @
                       ELSE Append(@, CastTo(random, type)),
            !.num_inputs = @ + 1]

\* Mutant of SerializedInputs: all inputs, those the program never read too.
AllInputs(s) == s.inputs

\* What SymbolicExecution::Serialize writes of the inputs: one per variable.
SerializedInputs(s) == SubSeq(s.inputs, 1, Len(s.vars))
=============================================================================
