------------------------- MODULE BranchSolver_proof -------------------------
(***************************************************************************)
(* SolveAtBranch is right for every path, every set of linear forms and    *)
(* all types of inputs: leaving out the constraints that no chain of       *)
(* others connects with the negated one loses neither soundness nor        *)
(* completeness.                                                           *)
(***************************************************************************)
EXTENDS BranchSolver, YicesSolver_proof

\* The invariant of a call: its type, and where its search stands.
CallInv == TypeOK /\ SearchInv

\* What the constraints are while the call works on them.
LEMMA Working ==
  ASSUME CallInv, pc \in {"searching", "solved"}
  PROVE  /\ Constraints \in Seq(Constraint)
         /\ Len(Constraints) = index
         /\ index \in Nat \ {0}
         /\ \A i \in 1 .. index - 1 : Constraints[i] = recorded[i]
         /\ Constraints[index] = Negate(recorded[index])
         /\ Constraints = Query(recorded, index)
         /\ AppendVars(Constraints[index]) \subseteq dependent_vars
         /\ [path EXCEPT ![index] = Negate(@)] = recorded
<1>1. /\ recorded \in Seq(Constraint)
      /\ index \in 1 .. Len(recorded)
      /\ path = [recorded EXCEPT ![index] = Negate(@)]
      /\ AppendVars(recorded[index]) \subseteq dependent_vars
  BY DEF CallInv, TypeOK, SearchInv
<1>2. recorded[index] \in Constraint /\ index \in Nat \ {0}
  BY <1>1, ElementOfSeq, LenProperties
<1>3. AppendVars(Negate(recorded[index])) = AppendVars(recorded[index])
  BY <1>2, NegatedConstraint
<1> QED
  BY <1>1, <1>2, <1>3, QueryConstraints DEF Constraints

\* Initially the path is one that the inputs took.
LEMMA InitiallyCalled == Init => CallInv
<1> SUFFICES ASSUME Init PROVE CallInv
  OBVIOUS
<1>1. PICK n \in 1 .. MaxPath :
        path \in [1 .. n -> {p \in Constraint : Holds(p, inputs)}]
  BY DEF Init
<1>2. n \in Nat
  BY BoundAssumption DEF BoundAssumption
<1>3. path \in Seq({p \in Constraint : Holds(p, inputs)})
  BY <1>1, <1>2, SeqDef
<1>4. \A i \in 1 .. Len(path) : path[i] \in {p \in Constraint : Holds(p, inputs)}
  BY <1>3, ElementOfSeq
<1>5. path \in Seq(Constraint)
  BY <1>3, SeqMonotonic
<1>6. TypeOK
  BY <1>5 DEF Init, TypeOK
<1>7. SearchInv
  BY <1>4 DEF Init, SearchInv
<1> QED
  BY <1>6, <1>7 DEF CallInv

\* A repeated constraint is not negated.
LEMMA GiveUpStep ==
  ASSUME CallInv, GiveUp
  PROVE  CallInv'
BY DEF CallInv, TypeOK, SearchInv, GiveUp, args

\* The search starts from the variables of the negated constraint.
LEMMA NegateStep ==
  ASSUME CallInv, NegateConstraint
  PROVE  CallInv'
<1> USE DEF NegateConstraint, args
<1>1. /\ path = recorded /\ ~success
      /\ recorded \in Seq(Constraint)
      /\ index \in 1 .. Len(recorded)
      /\ recorded[index] \in Constraint
  BY ElementOfSeq DEF CallInv, TypeOK, SearchInv
<1>2. path' = [recorded EXCEPT ![index] = Negate(@)]
  BY <1>1
<1>3. /\ Negate(recorded[index]) \in Constraint
      /\ AppendVars(Negate(recorded[index])) = AppendVars(recorded[index])
      /\ AppendVars(recorded[index]) \in SUBSET Var
  BY <1>1, NegatedConstraint, ConstraintVars
<1>4. path' \in Seq(Constraint) /\ Len(path') = Len(path)
  BY <1>1, <1>2, <1>3, ExceptSeq
<1>5. TypeOK'
  BY <1>1, <1>3, <1>4 DEF CallInv, TypeOK
<1>6. /\ Constraints' \in Seq(Constraint)
      /\ Len(Constraints') = index
      /\ Constraints'[index] = Negate(recorded[index])
  BY <1>1, <1>2, QueryConstraints DEF Constraints
<1>7. dependent_vars' \subseteq Connected(Constraints')
  <2>1. Len(Constraints') # 0
    BY <1>6, <1>1, LenProperties
  <2>2. IsConnected(Constraints', Connected(Constraints'))
    BY <1>6, <2>1, ConnectedIsLeast
  <2> QED
    BY <2>2, <1>6, <1>3, <1>1 DEF IsConnected
<1>8. SearchInv'
  BY <1>1, <1>2, <1>7 DEF CallInv, SearchInv
<1> QED
  BY <1>5, <1>8 DEF CallInv

\* A visit finds neighbours, which are connected; the variables it leaves out
\* of the queue have theirs among those found.
LEMMA VisitStep ==
  ASSUME CallInv, NEW v \in Var, Visit(v)
  PROVE  CallInv'
<1> USE DEF Visit, args
<1>1. /\ Constraints \in Seq(Constraint)
      /\ Len(Constraints) = index
      /\ index # 0
  BY Working
<1>2. Constraints' = Constraints
  BY DEF Constraints
<1>3. Neighbours(Constraints, v) \in SUBSET Var
  BY <1>1, ElementOfSeq, ConstraintVars DEF Neighbours
<1>4. TypeOK'
  BY <1>3 DEF CallInv, TypeOK
<1>5. IsConnected(Constraints, Connected(Constraints))
  BY <1>1, ConnectedIsLeast
<1>6. v \in dependent_vars /\ dependent_vars \subseteq Connected(Constraints)
  BY DEF CallInv, TypeOK, SearchInv
<1>7. dependent_vars' \subseteq Connected(Constraints)
  BY <1>5, <1>6 DEF IsConnected
<1>8. ASSUME NEW w \in dependent_vars' \ Q'
      PROVE  Neighbours(Constraints, w) \subseteq dependent_vars'
  <2>1. CASE w = v
    BY <2>1
  <2>2. CASE w # v
    <3>1. w \in dependent_vars \ Q
      BY <2>2, <1>8
    <3> QED
      BY <3>1 DEF CallInv, SearchInv
  <2> QED
    BY <2>1, <2>2
<1>9. SearchInv'
  BY <1>2, <1>7, <1>8 DEF CallInv, SearchInv
<1> QED
  BY <1>4, <1>9 DEF CallInv

\* The solver's answer.
LEMMA SolveStep ==
  ASSUME CallInv, Solve
  PROVE  CallInv'
<1> USE DEF Solve, args
<1>1. Constraints' = Constraints
  BY DEF Constraints
<1> DEFINE found == {s \in Assign : SolvesFor(s, Constraints, dependent_vars)}
<1>2. CASE found = {}
  <2>1. UNCHANGED << soln, success >>
    BY <1>2
  <2>2. TypeOK'
    BY <2>1 DEF CallInv, TypeOK
  <2>3. ~\E s \in Assign : SolvesFor(s, Constraints, dependent_vars)
    BY <1>2
  <2>4. SearchInv'
    BY <1>1, <2>1, <2>3 DEF CallInv, SearchInv
  <2> QED
    BY <2>2, <2>4 DEF CallInv
<1>3. CASE found # {}
  <2>1. soln' \in found /\ success'
    BY <1>3
  <2>2. TypeOK'
    BY <2>1 DEF CallInv, TypeOK
  <2>3. SearchInv'
    BY <1>1, <2>1 DEF CallInv, SearchInv
  <2> QED
    BY <2>2, <2>3 DEF CallInv
<1> QED
  BY <1>2, <1>3

\* The second negation takes the first one back.
LEMMA ReturnStep ==
  ASSUME CallInv, Return
  PROVE  CallInv'
<1> USE DEF Return, args
<1>1. path' = recorded
  BY Working
<1>2. input' \in Assign
  BY MergedAssignment DEF CallInv, TypeOK
<1>3. TypeOK'
  BY <1>1, <1>2 DEF CallInv, TypeOK
<1>4. SearchInv'
  BY <1>1 DEF CallInv, SearchInv
<1> QED
  BY <1>3, <1>4 DEF CallInv

\* The invariant holds in every state of the call.
LEMMA CallInvariant == Spec => []CallInv
<1>1. CallInv /\ [Next]_vars => CallInv'
  <2> SUFFICES ASSUME CallInv, [Next]_vars PROVE CallInv'
    OBVIOUS
  <2>1. CASE Next
    BY <2>1, GiveUpStep, NegateStep, VisitStep, SolveStep, ReturnStep DEF Next
  <2>2. CASE UNCHANGED vars
    BY <2>2 DEF vars, args, CallInv, TypeOK, SearchInv, Constraints
  <2> QED
    BY <2>1, <2>2
<1> QED
  BY <1>1, InitiallyCalled, PTL DEF Spec

-----------------------------------------------------------------------------
\* What a call has established when it returns.
Answer == SolutionSatisfies /\ FailureIsInfeasible /\ AnswersAsSpecified

\* A repeated constraint holds wherever the ones before it do.
LEMMA GiveUpAnswers ==
  ASSUME CallInv, GiveUp
  PROVE  Answer'
<1> USE DEF GiveUp, args
<1>1. /\ path = recorded
      /\ ~success
      /\ recorded \in Seq(Constraint)
      /\ index \in 1 .. Len(recorded)
  BY DEF CallInv, TypeOK, SearchInv
<1>2. PICK j \in 1 .. index - 1 : recorded[j] = recorded[index]
  BY <1>1 DEF Repeats
<1>3. Solutions(inputs, recorded, index) = {}
  BY <1>1 DEF Solutions
<1>4. ~\E a \in Assign : /\ \A i \in 1 .. index - 1 : Holds(recorded[i], a)
                         /\ ~Holds(recorded[index], a)
  BY <1>2
<1> QED
  BY <1>1, <1>3, <1>4
  DEF Answer, SolutionSatisfies, FailureIsInfeasible, AnswersAsSpecified

\* When the queue is empty, exactly the connected variables have been found.
LEMMA SearchComplete ==
  ASSUME CallInv, pc = "solved"
  PROVE  /\ IsConnected(Constraints, dependent_vars)
         /\ dependent_vars = Connected(Constraints)
<1>1. /\ Constraints \in Seq(Constraint)
      /\ Len(Constraints) = index
      /\ index # 0
      /\ AppendVars(Constraints[index]) \subseteq dependent_vars
  BY Working
<1>2. /\ \A v \in dependent_vars : Neighbours(Constraints, v) \subseteq dependent_vars
      /\ dependent_vars \subseteq Connected(Constraints)
      /\ dependent_vars \in SUBSET Var
  BY DEF CallInv, TypeOK, SearchInv
<1>3. IsConnected(Constraints, dependent_vars)
  BY <1>1, <1>2 DEF IsConnected
<1> QED
  BY <1>1, <1>2, <1>3, ConnectedIsLeast

\* The merged input satisfies every constraint; without a solution for the
\* connected variables there is none for all of them.
LEMMA ReturnAnswers ==
  ASSUME CallInv, Return
  PROVE  Answer'
<1> USE DEF Return, args
<1> DEFINE cs == Constraints
<1>1. /\ cs \in Seq(Constraint)
      /\ Len(cs) = index
      /\ index \in Nat \ {0}
      /\ \A i \in 1 .. index - 1 : cs[i] = recorded[i]
      /\ cs[index] = Negate(recorded[index])
      /\ cs = Query(recorded, index)
  BY Working
<1>2. IsConnected(cs, dependent_vars) /\ dependent_vars = Connected(cs)
  BY SearchComplete
<1>3. /\ recorded[index] \in Constraint
      /\ inputs \in Assign /\ soln \in Assign
      /\ dependent_vars \in SUBSET Var
      /\ ~Repeats(recorded, index)
      /\ \A i \in 1 .. index - 1 : Holds(recorded[i], inputs)
  <2>1. recorded \in Seq(Constraint) /\ index \in 1 .. Len(recorded)
    BY DEF CallInv, TypeOK
  <2>2. recorded[index] \in Constraint /\ Len(recorded) \in Nat
    BY <2>1, ElementOfSeq, LenProperties
  <2>3. \A i \in 1 .. index - 1 : i \in 1 .. Len(recorded)
    BY <2>1, <2>2
  <2> QED
    BY <2>2, <2>3 DEF CallInv, TypeOK, SearchInv
<1>4. \A a \in Assign : Holds(cs[index], a) <=> ~Holds(recorded[index], a)
  BY <1>1, <1>3, NegatedConstraint
<1>5. Solutions(inputs, recorded, index) =
        {Merge(inputs, s, Connected(cs)) :
           s \in {s \in Assign : SolvesFor(s, cs, Connected(cs))}}
  BY <1>1, <1>3 DEF Solutions
<1> HIDE DEF cs
<1>6. CASE success
  <2>1. SolvesFor(soln, cs, dependent_vars)
    BY <1>6 DEF CallInv, SearchInv, cs
  <2>2. input' = Merge(inputs, soln, dependent_vars) /\ input' \in Assign
    BY <1>6, <1>3, MergedAssignment
  <2>3. \A i \in 1 .. index - 1 : Holds(cs[i], inputs)
    BY <1>1, <1>3
  <2>4. \A i \in 1 .. index : Holds(cs[i], input')
    BY <1>1, <1>2, <1>3, <2>1, <2>2, <2>3, MergeSatisfies
  <2>5. \A i \in 1 .. index - 1 : i \in 1 .. index /\ Holds(recorded[i], input')
    BY <2>4, <1>1
  <2>6. index \in 1 .. index /\ ~Holds(recorded[index], input')
    BY <2>2, <2>4, <1>1, <1>4
  <2>7. input' \in Solutions(inputs, recorded, index)
    BY <1>2, <1>3, <1>5, <2>1, <2>2
  <2> QED
    BY <1>6, <2>5, <2>6, <2>7
    DEF Answer, SolutionSatisfies, FailureIsInfeasible, AnswersAsSpecified
<1>7. CASE ~success
  <2>1. \A s \in Assign : ~SolvesFor(s, cs, dependent_vars)
    BY <1>7 DEF CallInv, SearchInv, cs
  <2>2. ASSUME NEW a \in Assign, ~Holds(recorded[index], a),
               \A i \in 1 .. index - 1 : Holds(recorded[i], a)
        PROVE  FALSE
    <3>1. \A i \in 1 .. index : Holds(cs[i], a)
      BY <1>1, <1>4, <2>2
    <3>2. SolvesFor(a, cs, dependent_vars)
      BY <3>1, <1>1 DEF SolvesFor
    <3> QED
      BY <3>2, <2>1
  <2>3. Solutions(inputs, recorded, index) = {}
    BY <1>2, <1>5, <2>1
  <2> QED
    BY <1>7, <2>2, <2>3
    DEF Answer, SolutionSatisfies, FailureIsInfeasible, AnswersAsSpecified
<1> QED
  BY <1>6, <1>7

\* The answer is right when it is given and does not change afterwards.
LEMMA AnswerInvariant == Spec => []Answer
<1>1. Init => Answer
  BY DEF Init, Answer, SolutionSatisfies, FailureIsInfeasible, AnswersAsSpecified
<1>2. CallInv /\ Answer /\ [Next]_vars => Answer'
  <2> SUFFICES ASSUME CallInv, Answer, [Next]_vars PROVE Answer'
    OBVIOUS
  <2>1. CASE NegateConstraint \/ (\E v \in Var : Visit(v)) \/ Solve
    <3>1. pc' # "returned"
      BY <2>1 DEF NegateConstraint, Visit, Solve
    <3> QED
      BY <3>1 DEF Answer, SolutionSatisfies, FailureIsInfeasible, AnswersAsSpecified
  <2>2. CASE UNCHANGED vars
    BY <2>2 DEF vars, args, Answer, SolutionSatisfies, FailureIsInfeasible,
                AnswersAsSpecified
  <2> QED
    BY <2>1, <2>2, GiveUpAnswers, ReturnAnswers DEF Next
<1> QED
  BY <1>1, <1>2, CallInvariant, PTL DEF Spec

\* Every variable of the call has its type; the queue holds found variables.
THEOREM CallTypeCorrect == Spec => []TypeOK
<1>1. CallInv => TypeOK
  BY DEF CallInv
<1> QED
  BY <1>1, CallInvariant, PTL

\* The input SolveAtBranch returns satisfies every constraint before the
\* branch, the ones the solver was not given too, and not that of the branch.
THEOREM SolveAtBranchSound == Spec => []SolutionSatisfies
<1>1. Answer => SolutionSatisfies
  BY DEF Answer
<1> QED
  BY <1>1, AnswerInvariant, PTL

\* SolveAtBranch fails only if no input takes the path to the branch and then
\* the other side, provided Yices decides its queries.
THEOREM SolveAtBranchComplete == Spec => []FailureIsInfeasible
<1>1. Answer => FailureIsInfeasible
  BY DEF Answer
<1> QED
  BY <1>1, AnswerInvariant, PTL

\* The constraint that is negated in place is the caller's again afterwards.
THEOREM ConstraintsRestored == Spec => []PathRestored
<1>1. CallInv => PathRestored
  BY DEF CallInv, SearchInv, PathRestored
<1> QED
  BY <1>1, CallInvariant, PTL

\* The breadth-first search computes the least connected set: a call answers
\* what the operator Solutions, which the searches are modelled with, says.
THEOREM BranchSolverImplementsSolutions == Spec => []AnswersAsSpecified
<1>1. Answer => AnswersAsSpecified
  BY DEF Answer
<1> QED
  BY <1>1, AnswerInvariant, PTL
=============================================================================
