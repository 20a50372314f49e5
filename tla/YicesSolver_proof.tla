-------------------------- MODULE YicesSolver_proof --------------------------
(***************************************************************************)
(* What the constraints of a path have in common, and why it is enough to  *)
(* solve those connected with the negated one.  The loop that finds them   *)
(* is in BranchSolver_proof; the searches use Solutions.                   *)
(***************************************************************************)
EXTENDS YicesSolver, Operators_proof, SequenceTheorems

\* A constraint is a predicate; it has a variable, and its truth depends on
\* nothing but its variables.
LEMMA ConstraintVars ==
  ASSUME NEW p \in Constraint
  PROVE  /\ p \in Pred
         /\ AppendVars(p) \in SUBSET Var
         /\ AppendVars(p) # {}
         /\ \A a, b \in Assign : Agree(a, b, AppendVars(p)) =>
              (Holds(p, a) <=> Holds(p, b))
<1>1. p.op \in CompareOp /\ p.expr \in Linear
  BY DEF Constraint
<1>2. p \in Pred
  BY LinearAssumption DEF LinearAssumption, Constraint, Pred
<1>3. AppendVars(p) \in SUBSET Var
  BY <1>1 DEF AppendVars, VarsOf
<1>4. \A a, b \in Assign : Agree(a, b, AppendVars(p)) => p.expr[a] = p.expr[b]
  BY <1>1, LinearAssumption DEF LinearAssumption, AppendVars
<1>5. AppendVars(p) # {}
  <2>1. ~IsConcrete(p.expr)
    BY <1>1, LinearAssumption DEF LinearAssumption
  <2>2. PICK a, b \in Assign : p.expr[a] # p.expr[b]
    BY <2>1 DEF IsConcrete
  <2>3. ~Agree(a, b, AppendVars(p))
    BY <2>2, <1>4
  <2> QED
    BY <2>3 DEF Agree
<1>6. \A a, b \in Assign : Agree(a, b, AppendVars(p)) => (Holds(p, a) <=> Holds(p, b))
  BY <1>4 DEF Holds
<1> QED
  BY <1>2, <1>3, <1>5, <1>6

\* A negated constraint has the same variables.
LEMMA NegatedConstraint ==
  ASSUME NEW p \in Constraint
  PROVE  /\ Negate(p) \in Constraint
         /\ AppendVars(Negate(p)) = AppendVars(p)
         /\ Negate(Negate(p)) = p
         /\ \A a \in Assign : Holds(Negate(p), a) <=> ~Holds(p, a)
<1>1. p \in Pred
  BY ConstraintVars
<1>2. /\ Negate(p) \in Pred
      /\ Negate(p).expr = p.expr
      /\ Negate(Negate(p)) = p
      /\ \A a \in Assign : Holds(Negate(p), a) <=> ~Holds(p, a)
  BY <1>1, NegatedPred
<1>3. Negate(p) \in Constraint
  BY <1>2 DEF Constraint, Pred
<1> QED
  BY <1>2, <1>3 DEF AppendVars

\* The connected variables are connected, and they are the least such set.
LEMMA ConnectedIsLeast ==
  ASSUME NEW cs \in Seq(Constraint), Len(cs) # 0
  PROVE  /\ Connected(cs) \in SUBSET Var
         /\ IsConnected(cs, Connected(cs))
         /\ \A V \in SUBSET Var : IsConnected(cs, V) => Connected(cs) \subseteq V
<1>1. \A i \in 1 .. Len(cs) : cs[i] \in Constraint /\ AppendVars(cs[i]) \in SUBSET Var
  BY ElementOfSeq, ConstraintVars
<1>2. AppendVars(cs[Len(cs)]) \in SUBSET Var
  BY <1>1, LenProperties
<1>3. \A v : Neighbours(cs, v) \in SUBSET Var
  BY <1>1 DEF Neighbours
<1>4. Connected(cs) \in SUBSET Var
  BY DEF Connected
<1>5. AppendVars(cs[Len(cs)]) \subseteq Connected(cs)
  BY <1>2 DEF Connected, IsConnected
<1>6. ASSUME NEW v \in Connected(cs), NEW w \in Neighbours(cs, v)
      PROVE  w \in Connected(cs)
  BY <1>6, <1>3 DEF Connected, IsConnected
<1>7. \A V \in SUBSET Var : IsConnected(cs, V) => Connected(cs) \subseteq V
  BY DEF Connected
<1> QED
  BY <1>4, <1>5, <1>6, <1>7 DEF IsConnected

\* An assignment merged from two is one.
LEMMA MergedAssignment ==
  ASSUME NEW a \in Assign, NEW s \in Assign, NEW V \in SUBSET Var
  PROVE  /\ Merge(a, s, V) \in Assign
         /\ \A v \in V : Merge(a, s, V)[v] = s[v]
         /\ \A v \in Var \ V : Merge(a, s, V)[v] = a[v]
<1>1. DOMAIN a = Var
  BY AssignAssumption DEF AssignAssumption
<1>2. Merge(a, s, V) = [v \in Var |-> IF v \in V THEN s[v] ELSE a[v]]
  BY <1>1 DEF Merge
<1>3. Merge(a, s, V) \in Assign
  BY <1>2, AssignAssumption DEF AssignAssumption
<1> QED
  BY <1>2, <1>3

\* Solving for a connected set of variables and keeping the others satisfies
\* every constraint, if the old assignment satisfies all but the last.
LEMMA MergeSatisfies ==
  ASSUME NEW cs \in Seq(Constraint), Len(cs) # 0, NEW V \in SUBSET Var,
         IsConnected(cs, V), NEW a \in Assign, NEW s \in Assign,
         \A i \in 1 .. Len(cs) - 1 : Holds(cs[i], a),
         SolvesFor(s, cs, V)
  PROVE  \A i \in 1 .. Len(cs) : Holds(cs[i], Merge(a, s, V))
<1> DEFINE m == Merge(a, s, V)
<1>1. /\ m \in Assign
      /\ \A v \in V : m[v] = s[v]
      /\ \A v \in Var \ V : m[v] = a[v]
  BY MergedAssignment
<1> HIDE DEF m
<1> SUFFICES ASSUME NEW i \in 1 .. Len(cs)
             PROVE  Holds(cs[i], m)
  BY DEF m
<1>2. /\ cs[i] \in Constraint
      /\ AppendVars(cs[i]) \in SUBSET Var
      /\ AppendVars(cs[i]) # {}
      /\ \A x, y \in Assign : Agree(x, y, AppendVars(cs[i])) =>
           (Holds(cs[i], x) <=> Holds(cs[i], y))
  BY ElementOfSeq, ConstraintVars
<1>3. CASE DependsOn(cs[i], V)
  <2>1. PICK v \in V : v \in AppendVars(cs[i])
    BY <1>3 DEF DependsOn
  <2>2. AppendVars(cs[i]) \subseteq Neighbours(cs, v)
    BY <2>1 DEF Neighbours
  <2>3. AppendVars(cs[i]) \subseteq V
    BY <2>2 DEF IsConnected
  <2>4. Agree(m, s, AppendVars(cs[i]))
    BY <2>3, <1>1 DEF Agree
  <2>5. Holds(cs[i], s)
    BY <1>3 DEF SolvesFor
  <2> QED
    BY <2>4, <2>5, <1>1, <1>2
<1>4. CASE ~DependsOn(cs[i], V)
  <2>1. i # Len(cs)
    BY <1>2, <1>4 DEF DependsOn, IsConnected
  <2>2. i \in 1 .. Len(cs) - 1
    BY <2>1, LenProperties
  <2>3. Agree(m, a, AppendVars(cs[i]))
    BY <1>1, <1>2, <1>4 DEF Agree, DependsOn
  <2>4. Holds(cs[i], a)
    BY <2>2
  <2> QED
    BY <2>3, <2>4, <1>1, <1>2
<1> QED
  BY <1>3, <1>4

\* While the constraint is negated, the constraints given to IncrementalSolve
\* are the recorded ones up to it with the last one negated.
LEMMA QueryConstraints ==
  ASSUME NEW r \in Seq(Constraint), NEW n \in 1 .. Len(r)
  PROVE  LET cs == SubSeq([r EXCEPT ![n] = Negate(@)], 1, n)
         IN  /\ cs \in Seq(Constraint)
             /\ Len(cs) = n
             /\ \A i \in 1 .. n - 1 : cs[i] = r[i]
             /\ cs[n] = Negate(r[n])
             /\ cs = Query(r, n)
             /\ [[r EXCEPT ![n] = Negate(@)] EXCEPT ![n] = Negate(@)] = r
<1> DEFINE t  == [r EXCEPT ![n] = Negate(@)]
           cs == SubSeq(t, 1, n)
           q  == SubSeq(r, 1, n)
<1>1. /\ Len(r) \in Nat
      /\ n \in Nat
      /\ n <= Len(r)
      /\ \A i \in 1 .. Len(r) : r[i] \in Constraint
  BY LenProperties, ElementOfSeq
<1>2. Negate(r[n]) \in Constraint /\ Negate(Negate(r[n])) = r[n]
  BY <1>1, NegatedConstraint
<1>3. t \in Seq(Constraint) /\ Len(t) = Len(r)
  BY <1>2, ExceptSeq
<1>4. \A i \in 1 .. Len(r) : t[i] = IF i = n THEN Negate(r[n]) ELSE r[i]
  BY <1>3, <1>1, ExceptSeq
<1>5. /\ q \in Seq(Constraint)
      /\ Len(q) = n
      /\ \A i \in 1 .. n : q[i] = r[i]
  BY <1>1, SubSeqProperties
<1> HIDE DEF t
<1>6. /\ cs \in Seq(Constraint)
      /\ Len(cs) = n
      /\ \A i \in 1 .. n : cs[i] = t[i]
  BY <1>1, <1>3, <1>4, SubSeqProperties
<1>7. cs[n] = Negate(r[n]) /\ \A i \in 1 .. n - 1 : cs[i] = r[i]
  BY <1>6, <1>4, <1>1
<1> HIDE DEF q, cs
<1>8. [q EXCEPT ![n] = Negate(@)] = cs
  <2> DEFINE u == [q EXCEPT ![n] = Negate(@)]
  <2>1. u \in Seq(Constraint) /\ Len(u) = n
    BY <1>5, <1>1, <1>2, ExceptSeq
  <2>2. \A i \in 1 .. n : u[i] = IF i = n THEN Negate(q[n]) ELSE q[i]
    BY <1>5, <1>1, ExceptSeq
  <2>3. \A i \in 1 .. n : u[i] = cs[i]
    BY <2>2, <1>5, <1>6, <1>7, <1>1
  <2> QED
    BY <2>1, <2>3, <1>6, SeqEqual
<1>9. [t EXCEPT ![n] = Negate(@)] = r
  <2> DEFINE w == [t EXCEPT ![n] = Negate(@)]
  <2>1. w \in Seq(Constraint) /\ Len(w) = Len(r)
    BY <1>3, <1>4, <1>1, <1>2, ExceptSeq
  <2>2. \A i \in 1 .. Len(r) : w[i] = IF i = n THEN Negate(t[n]) ELSE t[i]
    BY <1>3, <1>1, ExceptSeq
  <2>3. \A i \in 1 .. Len(r) : w[i] = r[i]
    BY <2>2, <1>2, <1>4, <1>1
  <2> QED
    BY <2>1, <2>3, SeqEqual
<1> QED
  BY <1>6, <1>7, <1>8, <1>9 DEF Query, t, cs, q
-----------------------------------------------------------------------------
\* An assignment that takes the other side of a branch is evidence that a call
\* for this branch succeeds.
LEMMA SolutionsExist ==
  ASSUME NEW path \in Seq(Constraint), NEW i \in 1 .. Len(path), NEW inputs,
         NEW b \in Assign,
         \A j \in 1 .. i - 1 : Holds(path[j], b), ~Holds(path[i], b)
  PROVE  Solutions(inputs, path, i) # {}
<1> DEFINE cs == Query(path, i)
           V  == Connected(cs)
<1>1. /\ Len(cs) = i /\ i \in Nat
      /\ \A j \in 1 .. i - 1 : cs[j] = path[j]
      /\ cs[i] = Negate(path[i])
  BY QueryConstraints, LenProperties
<1>2. Holds(Negate(path[i]), b)
  BY ElementOfSeq, NegatedConstraint
<1>3. \A j \in 1 .. Len(cs) : Holds(cs[j], b)
  BY <1>1, <1>2
<1>4. ~Repeats(path, i)
  BY DEF Repeats
<1>5. SolvesFor(b, cs, V)
  BY <1>3 DEF SolvesFor
<1> QED  BY <1>4, <1>5 DEF Solutions

\* An assignment that agrees with a solution on the constraints' variables.
LEMMA CompletionSatisfies ==
  ASSUME NEW path \in Seq(Constraint), NEW i \in 1 .. Len(path), NEW a \in Assign,
         NEW inputs, \A v \in DOMAIN inputs : inputs[v] = a[v],
         \A j \in 1 .. i : AppendVars(path[j]) \subseteq DOMAIN inputs,
         \A j \in 1 .. i - 1 : Holds(path[j], a),
         NEW soln \in Solutions(inputs, path, i),
         NEW b \in Assign,
         \A j \in 1 .. i : \A v \in AppendVars(path[j]) : b[v] = soln[v]
  PROVE  (\A j \in 1 .. i - 1 : Holds(path[j], b)) /\ ~Holds(path[i], b)
<1> DEFINE cs == Query(path, i)
           V  == Connected(cs)
<1>1. /\ cs \in Seq(Constraint) /\ Len(cs) = i /\ i \in Nat /\ i # 0
      /\ \A j \in 1 .. i - 1 : cs[j] = path[j]
      /\ cs[i] = Negate(path[i])
  BY QueryConstraints, LenProperties
<1>2. \A j \in 1 .. i : path[j] \in Constraint
  BY ElementOfSeq, LenProperties
<1>3. V \in SUBSET Var /\ IsConnected(cs, V)
  BY <1>1, ConnectedIsLeast
<1>4. PICK s \in Assign : SolvesFor(s, cs, V) /\ soln = Merge(inputs, s, V)
  BY DEF Solutions
<1> HIDE DEF cs, V
<1> DEFINE m == Merge(a, s, V)
<1>5. \A j \in 1 .. i : Holds(cs[j], m)
  BY <1>1, <1>3, <1>4, MergeSatisfies
<1>6. /\ m \in Assign
      /\ \A v \in V : m[v] = s[v]
      /\ \A v \in Var \ V : m[v] = a[v]
  BY <1>3, MergedAssignment
<1> HIDE DEF m
<1>7. ASSUME NEW j \in 1 .. i  PROVE Holds(path[j], b) <=> Holds(path[j], m)
  <2>1. /\ AppendVars(path[j]) \subseteq Var
        /\ \A x, y \in Assign : Agree(x, y, AppendVars(path[j])) =>
             (Holds(path[j], x) <=> Holds(path[j], y))
    BY <1>2, ConstraintVars
  <2>2. \A v \in AppendVars(path[j]) : soln[v] = IF v \in V THEN s[v] ELSE a[v]
    BY <1>4 DEF Merge
  <2>3. Agree(b, m, AppendVars(path[j]))
    BY <1>6, <2>1, <2>2 DEF Agree
  <2> QED  BY <1>6, <2>1, <2>3
<1>8. ~Holds(path[i], m)
  BY <1>1, <1>2, <1>5, <1>6, NegatedConstraint
<1> QED  BY <1>1, <1>5, <1>7, <1>8

\* Drawing anew what no constraint up to the branch mentions leaves a solution
\* as it is on their variables.
LEMMA DrawnAnew ==
  ASSUME NEW path, NEW i \in Nat, NEW inputs,
         \A j \in 1 .. i : AppendVars(path[j]) \subseteq DOMAIN inputs,
         NEW input \in SolutionsNew(inputs, path, i)
  PROVE  \E soln \in Solutions(inputs, path, i) :
           /\ DOMAIN input = DOMAIN inputs
           /\ \A j \in 1 .. i : \A v \in AppendVars(path[j]) : input[v] = soln[v]
<1> DEFINE used == UNION {AppendVars(path[j]) : j \in 1 .. i}
<1>1. PICK soln \in Solutions(inputs, path, i), c \in Assign :
        input = Merge(soln, c, DOMAIN inputs \ used)
  BY DEF SolutionsNew
<1>2. DOMAIN soln = DOMAIN inputs
  BY DEF Solutions, Merge
<1>3. \A j \in 1 .. i : AppendVars(path[j]) \subseteq used
  OBVIOUS
<1>4. DOMAIN input = DOMAIN inputs /\ \A v \in DOMAIN inputs \cap used : input[v] = soln[v]
  BY <1>1, <1>2 DEF Merge
<1> HIDE DEF used
<1> QED  BY <1>3, <1>4

\* The inputs a took the path and read inputs, a solver gave input for its i-th
\* branch, and b completes it.
IsForced(path, i, inputs, a, input, b) ==
  /\ \A v \in DOMAIN inputs : inputs[v] = a[v]
  /\ \A j \in 1 .. i : AppendVars(path[j]) \subseteq DOMAIN inputs
  /\ \A j \in 1 .. i - 1 : Holds(path[j], a)
  /\ input \in Solutions(inputs, path, i) \cup SolutionsNew(inputs, path, i)
  /\ \A v \in DOMAIN input \cap Var : b[v] = input[v]

\* Every assignment that has the inputs of a solution, whatever it has for those
\* that were not read, goes the other way at the branch and not before.
LEMMA SolutionsForce ==
  ASSUME NEW path \in Seq(Constraint), NEW i \in 1 .. Len(path), NEW a \in Assign,
         NEW inputs, NEW input, NEW b \in Assign, IsForced(path, i, inputs, a, input, b)
  PROVE  (\A j \in 1 .. i - 1 : Holds(path[j], b)) /\ ~Holds(path[i], b)
<1> USE DEF IsForced
<1>1. \A j \in 1 .. i : AppendVars(path[j]) \subseteq Var
  BY ElementOfSeq, ConstraintVars, LenProperties
<1>2. PICK soln \in Solutions(inputs, path, i) :
        /\ DOMAIN input = DOMAIN inputs
        /\ \A j \in 1 .. i : \A v \in AppendVars(path[j]) : input[v] = soln[v]
  <2>1. CASE input \in Solutions(inputs, path, i)
    BY <2>1 DEF Solutions, Merge
  <2>2. CASE input \in SolutionsNew(inputs, path, i)
    BY <2>2, DrawnAnew, LenProperties
  <2> QED  BY <2>1, <2>2
<1>3. \A j \in 1 .. i : \A v \in AppendVars(path[j]) : b[v] = soln[v]
  BY <1>1, <1>2
<1> QED  BY <1>3, CompletionSatisfies
=============================================================================
