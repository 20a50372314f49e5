------------------------- MODULE InstrumentedProgram -------------------------
(***************************************************************************)
(* A C program instrumented by cil/src/ext/crestInstrument.ml, running     *)
(* with libcrest: the order in which the callbacks of Libcrest can come,   *)
(* and the concrete values they are given.  CIL has made every expression  *)
(* free of side effects and every call a statement of its own, so an       *)
(* expression's callbacks follow each other in postfix order.              *)
(*                                                                         *)
(* Not in the model: expressions compute with integers, casts from and to  *)
(* floating-point numbers among them; the addresses in Addr do not overlap *)
(* and are only written where the instrumenter sees it, by functions it    *)
(* instruments and not as part of a structure; the program's arithmetic    *)
(* does not leave Values, that of symbolic expressions does not leave      *)
(* FormRange, and it shifts to the left by at most 30; and instrumented    *)
(* functions have a fixed number of parameters.                            *)
(***************************************************************************)
EXTENDS Libcrest, FiniteSets

CONSTANTS
  Values,       \* integers the program computes with
  Literals,     \* the constants in its text
  Foreign,      \* values from elsewhere: rand(), library calls, pointers
  Codes,        \* the operators in its text
  Casts,        \* the conversions of its casts, functions on Values
  FormRange,    \* values a symbolic expression may have without overflow
  FileInputs,   \* contents the file "input" may have
  Nested,       \* may a comparison have a comparison as its right operand?
  MaxOperands,  \* bound on the operands of an expression or call
  MaxFrames,    \* bound on the nesting of calls
  MaxInputs,    \* bound on the inputs read
  MaxBranches   \* bound on the path

VARIABLES
  pc,        \* "start", "stmt", "entry", "returned", "handled", "exiting", "exited"
  memory,    \* the program's integers, by address
  operands,  \* values of the expressions evaluated so far, with their origin
  formals,   \* parameters of the function just entered, not yet stored
  frames,    \* for every active call, where its result goes
  result,    \* what the last call returned
  execution, \* contents of szd_execution, NULL until the program exits
  converted  \* history: has a cast changed a value since the first input?

programVars ==
  << pc, memory, operands, formals, frames, result, execution, converted >>
vars == << SI, pre_symbolic, programVars >>

NoAddr == 0

NoAddrAssumption == NoAddr \notin Addr
ASSUME NoAddrAssumption
BoundsAssumption == {MaxOperands, MaxFrames, MaxInputs, MaxBranches} \subseteq Nat
ASSUME BoundsAssumption
ValuesAssumption ==
  /\ Values \subseteq Int
  /\ {0, 1} \cup Literals \cup Foreign \subseteq Values
  /\ Casts \subseteq [Values -> Values]
  /\ Codes \subseteq UnaryCode \cup ArithmeticCode \cup CompareOp \cup {Unhandled}
  /\ FileInputs \subseteq Seq(Int)
  /\ Assign \subseteq [0 .. MaxInputs - 1 -> Int]
ASSUME ValuesAssumption
PowersAssumption == \A n \in 0 .. 30 : 2 ^ n \in Int
ASSUME PowersAssumption
TypesAssumption ==
  /\ TypeMin \in [Type -> Int]
  /\ TypeSize \in [Type -> Nat \ {0}]
ASSUME TypesAssumption
NullAssumption == NULL \notin Expr /\ NULL \notin Pred
ASSUME NullAssumption
NestedAssumption == Nested \in BOOLEAN
ASSUME NestedAssumption

-----------------------------------------------------------------------------
(***************************************************************************)
(* Operands.  Their origin tells what the C expression is: "compare" a     *)
(* comparison, "pointer" an operator crestInstrument does not translate,   *)
(* "unary" a unary operator or a cast on one of these, "plain" the rest.   *)
(***************************************************************************)
Rand(n) == operands[Len(operands) - n]

\* The top n operands are replaced by the result val of an operator.
Push(n, val, origin) ==
  operands' = Append(SubSeq(operands, 1, Len(operands) - n),
                     [val |-> val, origin |-> origin])

AtStatement == pc = "stmt" /\ operands = << >>

InExpression == pc = "stmt" /\ Len(SI.branches) < MaxBranches

\* The linear form computed for the top of the stack does not overflow.
NoOverflow ==
  IF SI'.stack = << >> THEN TRUE
  ELSE \A a \in Assign : Form(Top(SI'))[a] \in FormRange

EvalLoad(a) ==
  /\ InExpression
  /\ Len(operands) < MaxOperands
  /\ CrestLoad(a, memory[a])
  /\ Push(0, memory[a], "plain")
  /\ UNCHANGED << pc, memory, formals, frames, result, execution, converted >>

EvalConstant(v) ==
  /\ InExpression
  /\ Len(operands) < MaxOperands
  /\ CrestLoad(NoAddr, v)
  /\ Push(0, v, "plain")
  /\ UNCHANGED << pc, memory, formals, frames, result, execution, converted >>

UnaryValue(code, x) ==
  CASE code = "NEGATE" -> -x
    [] code = "NOT"    -> -x - 1
    [] code = "L_NOT"  -> IF x = 0 THEN 1 ELSE 0

\* The origin of a unary operator's or a cast's result.
UnaryOrigin == IF Rand(0).origin = "plain" THEN "plain" ELSE "unary"

EvalUnary(code) ==
  /\ InExpression
  /\ Len(operands) >= 1
  /\ LET v == UnaryValue(code, Rand(0).val)
     IN  /\ v \in Values
         /\ CrestApply1(code, v)
         /\ Push(1, v, UnaryOrigin)
  /\ UNCHANGED << pc, memory, formals, frames, result, execution, converted >>

\* Operators that the interpreter treats concretely may have any result.
IsBinaryValue(code, x, y, v) ==
  CASE code = "ADD"      -> v = x + y
    [] code = "SUBTRACT" -> v = x - y
    [] code = "MULTIPLY" -> v = x * y
    [] code = "SHIFT_L"  -> y \in 0 .. 30 /\ v = x * 2 ^ y
    [] OTHER             -> TRUE

EvalBinary(code, v) ==
  /\ InExpression
  /\ Len(operands) >= 2
  /\ IsBinaryValue(code, Rand(1).val, Rand(0).val, v)
  /\ CrestApply2(code, v)
  /\ NoOverflow
  /\ Push(2, v, "plain")
  /\ UNCHANGED << pc, memory, formals, frames, result, execution, converted >>

EvalCompare(code) ==
  /\ InExpression
  /\ Len(operands) >= 2
  /\ Nested \/ Rand(0).origin = "plain"
  /\ LET v == IF Compare(code, Rand(1).val, Rand(0).val) THEN 1 ELSE 0
     IN  CrestApply2(code, v) /\ Push(2, v, "compare")
  /\ UNCHANGED << pc, memory, formals, frames, result, execution, converted >>

\* Pointer arithmetic: binaryOpCode sends code 18, __CREST_CONCRETE.
EvalUnhandled(v) ==
  /\ InExpression
  /\ Unhandled \in Codes
  /\ Len(operands) >= 2
  /\ CrestApply2(Unhandled, v)
  /\ Push(2, v, "pointer")
  /\ UNCHANGED << pc, memory, formals, frames, result, execution, converted >>

\* A cast converts the operand for the program, by no callback: instrumentExpr
\* treats it as a no-op, "which is not precise".
EvalCast(conv) ==
  /\ InExpression
  /\ Len(operands) >= 1
  /\ LET v == conv[Rand(0).val]
     IN  /\ Push(1, v, UnaryOrigin)
         /\ converted' = (converted \/ (~pre_symbolic /\ v # Rand(0).val))
  /\ UNCHANGED << SI, pre_symbolic, pc, memory, formals, frames, result,
                  execution >>

-----------------------------------------------------------------------------
(***************************************************************************)
(* Statements.                                                             *)
(***************************************************************************)

\* main is entered: its parameters are stored before any input is read.
Start ==
  /\ pc = "start"
  /\ CrestCall
  /\ pc' = "stmt"
  /\ UNCHANGED << memory, operands, formals, frames, result, execution,
                  converted >>

Assignment(a) ==
  /\ pc = "stmt"
  /\ Len(operands) = 1
  /\ CrestStore(a)
  /\ memory' = [memory EXCEPT ![a] = Rand(0).val]
  /\ operands' = << >>
  /\ UNCHANGED << pc, formals, frames, result, execution, converted >>

\* mkPredicate has made every condition a comparison.  Its then- and
\* else-block start with the branches 1 and 2.
If ==
  /\ InExpression
  /\ Len(operands) = 1
  /\ Rand(0).origin = "compare"
  /\ IF Rand(0).val # 0 THEN CrestBranch(1, 1) ELSE CrestBranch(2, 0)
  /\ operands' = << >>
  /\ UNCHANGED << pc, memory, formals, frames, result, execution, converted >>

ReadInput(a, type, random, received) ==
  /\ AtStatement
  /\ SI.num_inputs < MaxInputs
  /\ CrestInput(type, a, random, received)
  /\ memory' = [memory EXCEPT ![a] = received]
  /\ UNCHANGED << pc, operands, formals, frames, result, execution, converted >>

\* A call of an instrumented function, whose body starts with __CrestCall and
\* the stores of its parameters, the last one first.
CallInstrumented(params, dest) ==
  /\ InExpression
  /\ Len(frames) < MaxFrames
  /\ Len(params) = Len(operands)
  /\ CrestCall
  /\ pc' = "entry"
  /\ formals' = params
  /\ frames' = Append(frames, dest)
  /\ UNCHANGED << memory, operands, result, execution, converted >>

StoreFormal ==
  /\ pc = "entry"
  /\ formals # << >>
  /\ LET a == formals[Len(formals)]
     IN  /\ CrestStore(a)
         /\ memory' = [memory EXCEPT ![a] = Rand(0).val]
  /\ operands' = SubSeq(operands, 1, Len(operands) - 1)
  /\ formals' = SubSeq(formals, 1, Len(formals) - 1)
  /\ UNCHANGED << pc, frames, result, execution, converted >>

EnterBody ==
  /\ pc = "entry"
  /\ formals = << >>
  /\ pc' = "stmt"
  /\ UNCHANGED << SI, pre_symbolic, memory, operands, formals, frames, result,
                  execution, converted >>

\* A call of a library function: no callback until it returns v.
CallUninstrumented(dest, v) ==
  /\ InExpression
  /\ Len(frames) < MaxFrames
  /\ pc' = "returned"
  /\ operands' = << >>
  /\ frames' = Append(frames, dest)
  /\ result' = v
  /\ UNCHANGED << SI, pre_symbolic, memory, formals, execution, converted >>

\* A function that returns no integer can only be called for its effect.
ReturnFromCall ==
  /\ pc = "stmt"
  /\ frames # << >>
  /\ \/ Len(operands) = 1 /\ result' = Rand(0).val
     \/ Len(operands) = 0 /\ frames[Len(frames)] = NoAddr /\ UNCHANGED result
  /\ CrestReturn
  /\ pc' = "returned"
  /\ operands' = << >>
  /\ UNCHANGED << memory, formals, frames, execution, converted >>

DiscardResult ==
  /\ pc = "returned"
  /\ frames[Len(frames)] = NoAddr
  /\ CrestClearStack
  /\ pc' = "stmt"
  /\ frames' = SubSeq(frames, 1, Len(frames) - 1)
  /\ result' = 0
  /\ UNCHANGED << memory, operands, formals, execution, converted >>

TakeResult ==
  /\ pc = "returned"
  /\ frames[Len(frames)] # NoAddr
  /\ CrestHandleReturn(result)
  /\ pc' = "handled"
  /\ UNCHANGED << memory, operands, formals, frames, result, execution,
                  converted >>

StoreResult ==
  /\ pc = "handled"
  /\ CrestStore(frames[Len(frames)])
  /\ memory' = [memory EXCEPT ![frames[Len(frames)]] = result]
  /\ pc' = "stmt"
  /\ frames' = SubSeq(frames, 1, Len(frames) - 1)
  /\ result' = 0
  /\ UNCHANGED << operands, formals, execution, converted >>

ReturnFromMain ==
  /\ pc = "stmt"
  /\ frames = << >>
  /\ Len(operands) <= 1
  /\ CrestReturn
  /\ pc' = "exiting"
  /\ operands' = << >>
  /\ UNCHANGED << memory, formals, frames, result, execution, converted >>

\* __CrestAtExit, when main has returned or the program calls exit().
Exit ==
  /\ pc = "exiting" \/ AtStatement
  /\ execution' = [vars |-> SI.vars, inputs |-> SerializedInputs(SI),
                   branches |-> SI.branches, constraints |-> SI.constraints,
                   constraints_idx |-> SI.constraints_idx]
  /\ pc' = "exited"
  /\ UNCHANGED << SI, pre_symbolic, memory, operands, formals, frames,
                  result, converted >>

Evaluate ==
  \/ \E a \in Addr : EvalLoad(a)
  \/ \E v \in Literals : EvalConstant(v)
  \/ \E code \in Codes \cap UnaryCode : EvalUnary(code)
  \/ \E code \in Codes \cap ArithmeticCode, v \in Values : EvalBinary(code, v)
  \/ \E code \in Codes \cap CompareOp : EvalCompare(code)
  \/ \E v \in Foreign : EvalUnhandled(v)
  \/ \E conv \in Casts : EvalCast(conv)

Statement ==
  \/ Start
  \/ \E a \in Addr : Assignment(a)
  \/ If
  \/ \E a \in Addr, type \in Type, random \in Foreign, received \in Values :
       ReadInput(a, type, random, received)

Procedure ==
  \/ \E n \in 0 .. MaxOperands :
       \E params \in [1 .. n -> Addr], dest \in Addr \cup {NoAddr} :
         CallInstrumented(params, dest)
  \/ StoreFormal
  \/ EnterBody
  \/ \E dest \in Addr \cup {NoAddr}, v \in Foreign : CallUninstrumented(dest, v)
  \/ ReturnFromCall
  \/ DiscardResult
  \/ TakeResult
  \/ StoreResult
  \/ ReturnFromMain
  \/ Exit

Init ==
  /\ \E input \in FileInputs : CrestInit(input)
  /\ pc = "start"
  /\ memory = [a \in Addr |-> 0]
  /\ operands = << >>
  /\ formals = << >>
  /\ frames = << >>
  /\ result = 0
  /\ execution = NULL
  /\ converted = FALSE

\* A failed assertion of libcrest ends the program.
Next == ~SI.aborted /\ (Evaluate \/ Statement \/ Procedure)

Spec == Init /\ [][Next]_vars
-----------------------------------------------------------------------------
(***************************************************************************)
(* Properties.                                                             *)
(***************************************************************************)
Origin == {"plain", "compare", "pointer", "unary"}

\* The machine state and the program's control have their types, and the
\* program stays within its bounds.
TypeOK ==
  /\ SI \in Machine
  /\ SI.num_inputs <= MaxInputs
  /\ Len(SI.vars) = SI.num_inputs
  /\ Len(SI.inputs) >= SI.num_inputs
  /\ pre_symbolic \in BOOLEAN
  /\ pc \in {"start", "stmt", "entry", "returned", "handled", "exiting", "exited"}
  /\ memory \in [Addr -> Values]
  /\ operands \in Seq([val : Values, origin : Origin])
  /\ formals \in Seq(Addr)
  /\ frames \in Seq(Addr \cup {NoAddr})
  /\ result \in Values
  /\ converted \in BOOLEAN

\* No assert() of symbolic_interpreter.cc fails, whatever the nesting of calls
\* and wherever the first input is read: every operator finds its operands, a
\* branch finds one value, a function leaves at most one.
NoAssertionFails == ~SI.aborted

\* The assignments that give the inputs read so far the values they had.
Consistent(a) == \A i \in 0 .. SI.num_inputs - 1 : a[i] = SI.inputs[i + 1]

Denotes(e, v) == \A a \in Assign : Consistent(a) => e[a] = v

ExpressionsAgree ==
  /\ \A i \in 1 .. Len(SI.stack) :
       SI.stack[i].expr # NULL => Denotes(SI.stack[i].expr, SI.stack[i].concrete)
  /\ \A x \in Addr : SI.mem[x] # NULL => Denotes(SI.mem[x], memory[x])

\* As long as no cast has changed a value, the symbolic value of an operand or
\* of an address is, for the inputs read, the concrete value the program has
\* there.  Casts are no-ops to instrumentExpr, so one that changes a value (of
\* 300 to a char, say) leaves the expression of the value it changed.
SymbolicStateAgrees == ~converted => ExpressionsAgree

ConstraintsHold ==
  \A k \in 1 .. Len(SI.constraints) : \A a \in Assign :
    Consistent(a) => Holds(SI.constraints[k], a)

\* As long as no cast has changed a value, every path constraint is true of the
\* inputs that took the path.
PathHoldsOfInputs == ~converted => ConstraintsHold

\* constraints_idx maps the constraints, in order, to conditional branches of
\* the path, and the call and return marks nest as the program's calls do.
Occurrences(bid) == {i \in 1 .. Len(SI.branches) : SI.branches[i] = bid}

PathWellFormed ==
  LET idx == SI.constraints_idx IN
  /\ Len(idx) = Len(SI.constraints)
  /\ \A k \in 1 .. Len(idx) : /\ idx[k] < Len(SI.branches)
                              /\ SI.branches[idx[k] + 1] > 0
  /\ \A j, k \in 1 .. Len(idx) : j < k => idx[j] < idx[k]
  /\ Cardinality(Occurrences(kReturnId)) <= Cardinality(Occurrences(kCallId))

\* The execution written at exit has one input for every variable, the one
\* the program read, and no constraint mentions another input.
ExecutionSelfContained ==
  execution # NULL =>
    LET known == 0 .. Len(execution.vars) - 1 IN
    /\ Len(execution.inputs) = SI.num_inputs
    /\ Len(execution.vars) = SI.num_inputs
    /\ \A k \in 1 .. Len(execution.constraints) : \A a, b \in Assign :
         (\A i \in known : a[i] = b[i]) =>
           execution.constraints[k].expr[a] = execution.constraints[k].expr[b]

-----------------------------------------------------------------------------
(***************************************************************************)
(* Why these hold: an inductive invariant.                                 *)
(***************************************************************************)

\* Before the first input the interpreter knows of nothing.
IdleBeforeInput ==
  pre_symbolic => /\ SI.stack = << >> /\ SI.pred = NULL /\ ~SI.return_value
                  /\ \A x \in Addr : SI.mem[x] = NULL

ControlOK ==
  /\ pc = "start" => pre_symbolic
  /\ pc \in {"start", "returned", "handled"} => operands = << >>
  /\ pc \in {"returned", "handled"} => frames # << >>
  /\ pc = "handled" => frames[Len(frames)] \in Addr
  /\ pc = "entry" => Len(formals) = Len(operands)

\* Between statements the stack holds the operands; after an instrumented
\* function has returned an integer, that one.
StackMirrorsOperands ==
  /\ pc \in {"start", "stmt", "entry", "handled"} => ~SI.return_value
  /\ ~pre_symbolic /\ pc \in {"stmt", "entry"} =>
       Len(SI.stack) = Len(operands)
  /\ (pc = "returned" /\ SI.return_value) \/ (pc = "handled" /\ ~pre_symbolic) =>
       Len(SI.stack) = 1

\* Its concrete values are then the program's, unless a cast changed one.
StackHasValues ==
  /\ ~pre_symbolic /\ pc \in {"stmt", "entry"} =>
       \A i \in 1 .. Len(operands) : SI.stack[i].concrete = operands[i].val
  /\ (pc = "returned" /\ SI.return_value) \/ (pc = "handled" /\ ~pre_symbolic) =>
       SI.stack[1].concrete = result

\* The predicate register belongs to a concrete value on the top of the stack.
PredicateOnTop ==
  SI.pred # NULL => SI.stack # << >> /\ Top(SI).expr = NULL

\* A predicate in the register is that of the comparison just evaluated.
PredicateMeansComparison ==
  pc \in {"stmt", "entry"} =>
    /\ operands = << >> => SI.pred = NULL
    /\ operands # << >> /\ Rand(0).origin = "plain" => SI.pred = NULL
    /\ operands # << >> /\ Rand(0).origin = "compare" /\ SI.pred # NULL =>
         \A a \in Assign :
           Consistent(a) => (Holds(SI.pred, a) <=> Rand(0).val # 0)

\* What holds of every program and every input file ...
Shape ==
  /\ TypeOK
  /\ NoAssertionFails
  /\ IdleBeforeInput
  /\ ControlOK
  /\ StackMirrorsOperands
  /\ PredicateOnTop

UnreadInputsFit ==
  \A i \in SI.num_inputs + 1 .. Len(SI.inputs) : \A type \in Type :
    CastTo(SI.inputs[i], type) = SI.inputs[i]

\* ... and what holds as well, until a cast changes a value, when no comparison
\* is the right operand of a comparison and the file's values are values of
\* every type.
Sound ==
  /\ UnreadInputsFit
  /\ StackHasValues
  /\ ExpressionsAgree
  /\ ConstraintsHold
  /\ PredicateMeansComparison

SoundUntilCast == ~converted => Sound

FilesFit ==
  \A input \in FileInputs : \A i \in 1 .. Len(input) : \A type \in Type :
    CastTo(input[i], type) = input[i]
=============================================================================
