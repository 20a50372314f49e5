----------------------------- MODULE YicesSolver -----------------------------
(***************************************************************************)
(* What Search::SolveAtBranch asks of YicesSolver::IncrementalSolve and    *)
(* what it may get.  A path's constraint i is negated, the constraints     *)
(* before it are kept, and only the variables connected with those of the  *)
(* negated constraint are solved for; the others keep the values they had. *)
(* Yices finds a solution whenever there is one within the types.          *)
(*                                                                         *)
(* BranchSolver has the algorithm; the searches use Solutions.             *)
(***************************************************************************)
EXTENDS SymbolicPred, Sequences

CONSTANTS
  Var,    \* the symbolic inputs
  Linear  \* the linear forms of the constraints

\* Assign has every assignment of values that the variables' types allow.
AssignAssumption ==
  /\ Assign \subseteq [Var -> Int]
  /\ \A a, b \in Assign : \A V \in SUBSET Var :
       [v \in Var |-> IF v \in V THEN a[v] ELSE b[v]] \in Assign
ASSUME AssignAssumption

Agree(a, b, V) == \A v \in V : a[v] = b[v]

\* The variables with a coefficient.
VarsOf ==
  [e \in Linear |->
     {v \in Var : \E a, b \in Assign : Agree(a, b, Var \ {v}) /\ e[a] # e[b]}]

\* A form's value depends on its variables, and a constraint's form has one:
\* ApplyCompareOp records no predicate about a concrete difference.
LinearAssumption ==
  /\ Linear \subseteq Expr
  /\ \A e \in Linear : ~IsConcrete(e)
  /\ \A e \in Linear : \A a, b \in Assign : Agree(a, b, VarsOf[e]) => e[a] = e[b]
ASSUME LinearAssumption

Constraint == [op : CompareOp, expr : Linear]

AppendVars(p)   == VarsOf[p.expr]
DependsOn(p, V) == AppendVars(p) \cap V # {}

\* Mutant of Neighbours: only the variables of the last constraint.
LastNeighbours(cs, v) == AppendVars(cs[Len(cs)])

\* depends[v]: the variables that occur in a constraint with v.
Neighbours(cs, v) ==
  UNION {AppendVars(cs[i]) : i \in {j \in 1 .. Len(cs) : v \in AppendVars(cs[j])}}

\* The variables connected with those of the last constraint: the least set
\* that has these and, with a variable, its neighbours.
IsConnected(cs, V) ==
  /\ AppendVars(cs[Len(cs)]) \subseteq V
  /\ \A v \in V : Neighbours(cs, v) \subseteq V

Connected(cs) ==
  {v \in Var : \A V \in SUBSET Var : IsConnected(cs, V) => v \in V}

\* The constraints that mention one of V hold.
SolvesFor(s, cs, V) ==
  \A i \in 1 .. Len(cs) : DependsOn(cs[i], V) => Holds(cs[i], s)

\* The old input with the solution of V.
Merge(old, s, V) == [v \in DOMAIN old |-> IF v \in V THEN s[v] ELSE old[v]]

\* The constraints up to the i-th, which is negated.
Query(path, i) == [SubSeq(path, 1, i) EXCEPT ![i] = Negate(@)]

Repeats(path, i) == \E j \in 1 .. i - 1 : path[j] = path[i]

\* What SolveAtBranch may return for the i-th constraint of a path that inputs
\* took; nothing if it fails.
Solutions(inputs, path, i) ==
  LET cs == Query(path, i)
      V  == Connected(cs)
  IN  IF Repeats(path, i) THEN {}
      ELSE {Merge(inputs, s, V) : s \in {s \in Assign : SolvesFor(s, cs, V)}}

\* What SolveAtBranchNew may return: inputs that no constraint up to the i-th
\* mentions are drawn anew.
SolutionsNew(inputs, path, i) ==
  LET used == UNION {AppendVars(path[j]) : j \in 1 .. i}
  IN  {Merge(soln, a, DOMAIN inputs \ used) :
         soln \in Solutions(inputs, path, i), a \in Assign}
=============================================================================
