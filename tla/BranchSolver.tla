---------------------------- MODULE BranchSolver ----------------------------
(***************************************************************************)
(* One call of Search::SolveAtBranch with the breadth-first search of      *)
(* YicesSolver::IncrementalSolve.  The constraint is negated in place, in  *)
(* the execution the caller keeps.  The queue is a set: the order in which *)
(* variables are visited does not matter.                                  *)
(***************************************************************************)
EXTENDS YicesSolver

CONSTANT MaxPath  \* bound on the constraints of a path

BoundAssumption == MaxPath \in Nat
ASSUME BoundAssumption

VARIABLES
  pc,              \* "called", "searching", "solved" or "returned"
  inputs,          \* the inputs of the execution ex
  path,            \* its constraints
  index,           \* the one to negate
  recorded,        \* the constraints before the call
  dependent_vars,  \* variables found connected
  Q,               \* those whose neighbours are not yet visited
  soln,            \* what Yices found
  success,         \* the call's result
  input            \* the input it returns

args == << inputs, index, recorded >>
vars == << pc, path, dependent_vars, Q, soln, success, input, args >>

Constraints == SubSeq(path, 1, index)

\* The path is one that the inputs took.
Init ==
  /\ pc = "called"
  /\ inputs \in Assign
  /\ \E n \in 1 .. MaxPath :
       path \in [1 .. n -> {p \in Constraint : Holds(p, inputs)}]
  /\ index \in 1 .. Len(path)
  /\ recorded = path
  /\ dependent_vars = {}
  /\ Q = {}
  /\ soln = inputs
  /\ success = FALSE
  /\ input = inputs

\* Mutant of GiveUp: the comparison operators are not compared.
GiveUpOnSameForm ==
  /\ pc = "called"
  /\ \E j \in 1 .. index - 1 : path[j].expr = path[index].expr
  /\ pc' = "returned"
  /\ UNCHANGED << path, dependent_vars, Q, soln, success, input, args >>

\* An earlier constraint is the same.
GiveUp ==
  /\ pc = "called"
  /\ Repeats(path, index)
  /\ pc' = "returned"
  /\ UNCHANGED << path, dependent_vars, Q, soln, success, input, args >>

NegateConstraint ==
  /\ pc = "called"
  /\ ~Repeats(path, index)
  /\ path' = [path EXCEPT ![index] = Negate(@)]
  /\ dependent_vars' = AppendVars(path[index])
  /\ Q' = AppendVars(path[index])
  /\ pc' = "searching"
  /\ UNCHANGED << soln, success, input, args >>

\* Mutant of Visit: the variables found are queued but not marked.
VisitUnmarked(v) ==
  /\ pc = "searching"
  /\ v \in Q
  /\ Q' = (Q \ {v}) \cup (Neighbours(Constraints, v) \ dependent_vars)
  /\ UNCHANGED << pc, path, dependent_vars, soln, success, input, args >>

Visit(v) ==
  /\ pc = "searching"
  /\ v \in Q
  /\ LET found == Neighbours(Constraints, v) \ dependent_vars
     IN  /\ Q' = (Q \ {v}) \cup found
         /\ dependent_vars' = dependent_vars \cup found
  /\ UNCHANGED << pc, path, soln, success, input, args >>

Solve ==
  /\ pc = "searching"
  /\ Q = {}
  /\ LET found == {s \in Assign : SolvesFor(s, Constraints, dependent_vars)}
     IN  IF found = {} THEN UNCHANGED << soln, success >>
                       ELSE soln' \in found /\ success' = TRUE
  /\ pc' = "solved"
  /\ UNCHANGED << path, dependent_vars, Q, input, args >>

\* Mutant of Return: the constraint stays negated when there is no solution.
ReturnEarly ==
  /\ pc = "solved"
  /\ path' = IF success THEN [path EXCEPT ![index] = Negate(@)] ELSE path
  /\ input' = IF success THEN Merge(inputs, soln, dependent_vars) ELSE input
  /\ pc' = "returned"
  /\ UNCHANGED << dependent_vars, Q, soln, success, args >>

\* Mutant of Return: the old input is not merged with the solution.
ReturnUnmerged ==
  /\ pc = "solved"
  /\ path' = [path EXCEPT ![index] = Negate(@)]
  /\ input' = IF success THEN soln ELSE input
  /\ pc' = "returned"
  /\ UNCHANGED << dependent_vars, Q, soln, success, args >>

Return ==
  /\ pc = "solved"
  /\ path' = [path EXCEPT ![index] = Negate(@)]
  /\ input' = IF success THEN Merge(inputs, soln, dependent_vars) ELSE input
  /\ pc' = "returned"
  /\ UNCHANGED << dependent_vars, Q, soln, success, args >>

Next ==
  \/ GiveUp
  \/ NegateConstraint
  \/ \E v \in Var : Visit(v)
  \/ Solve
  \/ Return

Spec == Init /\ [][Next]_vars

\* The call runs to its end.
FairSpec == Spec /\ WF_vars(Next)
-----------------------------------------------------------------------------
(***************************************************************************)
(* Properties.                                                             *)
(***************************************************************************)
TypeOK ==
  /\ pc \in {"called", "searching", "solved", "returned"}
  /\ inputs \in Assign
  /\ path \in Seq(Constraint)
  /\ recorded \in Seq(Constraint)
  /\ Len(recorded) = Len(path)
  /\ index \in 1 .. Len(path)
  /\ dependent_vars \in SUBSET Var
  /\ Q \in SUBSET dependent_vars
  /\ soln \in Assign
  /\ success \in BOOLEAN
  /\ input \in Assign

\* The input that is returned takes the path up to the branch and then the
\* other way: it satisfies the constraints that IncrementalSolve left out too.
SolutionSatisfies ==
  pc = "returned" /\ success =>
    /\ \A i \in 1 .. index - 1 : Holds(recorded[i], input)
    /\ ~Holds(recorded[index], input)

\* A branch is given up only if no input leads to it along the path.
FailureIsInfeasible ==
  pc = "returned" /\ ~success =>
    ~\E a \in Assign : /\ \A i \in 1 .. index - 1 : Holds(recorded[i], a)
                       /\ ~Holds(recorded[index], a)

\* The caller's execution has the constraints it had: the searches go on to
\* solve for other branches of it.
PathRestored == pc = "returned" => path = recorded

\* What the searches assume of a call.
AnswersAsSpecified ==
  pc = "returned" =>
    IF success THEN input \in Solutions(inputs, recorded, index)
               ELSE Solutions(inputs, recorded, index) = {}

\* The breadth-first search ends, and with it the call.
Termination == <>(pc = "returned")
-----------------------------------------------------------------------------
(***************************************************************************)
(* Why these hold.  While the search runs, the neighbours of the variables *)
(* no longer queued have been found, and nothing that is not connected.     *)
(***************************************************************************)
SearchInv ==
  /\ pc \in {"called", "returned"} => path = recorded
  /\ pc = "called" => ~success /\ input = inputs
  /\ pc \in {"searching", "solved"} =>
       /\ path = [recorded EXCEPT ![index] = Negate(@)]
       /\ ~Repeats(recorded, index)
       /\ AppendVars(recorded[index]) \subseteq dependent_vars
       /\ dependent_vars \subseteq Connected(Constraints)
       /\ \A v \in dependent_vars \ Q : Neighbours(Constraints, v) \subseteq dependent_vars
  /\ pc = "searching" => ~success
  /\ pc = "solved" =>
       /\ Q = {}
       /\ IF success THEN SolvesFor(soln, Constraints, dependent_vars)
          ELSE ~\E s \in Assign : SolvesFor(s, Constraints, dependent_vars)
  /\ pc # "returned" => input = inputs
  /\ \A i \in 1 .. Len(recorded) : Holds(recorded[i], inputs)
=============================================================================
