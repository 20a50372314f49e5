------------------------------ MODULE Libcrest ------------------------------
(***************************************************************************)
(* The instrumentation callbacks of src/libcrest/crest.cc: the interpreter *)
(* SI, created by __CrestInit from the file "input", and pre_symbolic,     *)
(* true until the program reads its first symbolic input.  While it is     *)
(* true only calls, returns and branches reach the interpreter.            *)
(***************************************************************************)
EXTENDS SymbolicInterpreter

VARIABLES
  SI,           \* the SymbolicInterpreter
  pre_symbolic  \* no symbolic input has been read

libVars == << SI, pre_symbolic >>

\* Operation codes of crest.h; the operators of each list act alike here.
ConcreteCode == {"DIVIDE", "MOD", "AND", "OR", "XOR", "SHIFT_R", "L_AND", "L_OR"}
ArithmeticCode == {"ADD", "SUBTRACT", "MULTIPLY", "SHIFT_L"} \cup ConcreteCode
UnaryCode == {"NEGATE", "NOT", "L_NOT"}
Unhandled == "CONCRETE"

\* kOpTable.  The entry of the unhandled operators is binary_op_t's CONCRETE,
\* number 4, which Apply2 casts to a compare_op_t: number 4 of those is LT.
kOpTable(code) ==
  CASE code \in ConcreteCode -> "CONCRETE"
    [] code = Unhandled      -> "LT"
    [] code = "L_NOT"        -> "LOGICAL_NOT"
    [] code = "NOT"          -> "BITWISE_NOT"
    [] OTHER                 -> code

CrestInit(input) ==
  /\ SI = NewInterpreter(input)
  /\ pre_symbolic = TRUE

\* The callbacks that do nothing before the first symbolic input.
UnlessPreSymbolic(s) ==
  /\ SI' = IF pre_symbolic THEN SI ELSE s
  /\ UNCHANGED pre_symbolic

CrestLoad(addr, val)     == UnlessPreSymbolic(Load(SI, addr, val))
CrestStore(addr)         == UnlessPreSymbolic(Store(SI, addr))
CrestClearStack          == UnlessPreSymbolic(ClearStack(SI))
CrestHandleReturn(val)   == UnlessPreSymbolic(HandleReturn(SI, val))
CrestApply1(code, val)   ==
  UnlessPreSymbolic(ApplyUnaryOp(SI, kOpTable(code), val))
CrestApply2(code, val)   ==
  UnlessPreSymbolic(IF code \in ArithmeticCode
                      THEN ApplyBinaryOp(SI, kOpTable(code), val)
                      ELSE ApplyCompareOp(SI, kOpTable(code), val))

\* A branch taken before the first input is preceded by a concrete load.
CrestBranch(bid, b) ==
  /\ SI' = Branch(IF pre_symbolic THEN Load(SI, 0, b) ELSE SI, bid, b # 0)
  /\ UNCHANGED pre_symbolic

CrestCall   == SI' = Call(SI)   /\ UNCHANGED pre_symbolic
CrestReturn == SI' = Return(SI) /\ UNCHANGED pre_symbolic

\* __CrestInt and its siblings: the program gets the value cast to the type.
CrestInput(type, addr, random, received) ==
  /\ pre_symbolic' = FALSE
  /\ SI' = NewInput(SI, type, addr, random)
  /\ received = CastTo(InputValue(SI, type, random), type)
=============================================================================
