-------------------------- MODULE ExploredPaths_proof --------------------------
(***************************************************************************)
(* Proofs about the strategies that go through the paths of a program: the *)
(* depth-first, the generational and the context-guided search.            *)
(*                                                                         *)
(* What is left for them to do is a family of nodes: an execution with the *)
(* constraints of it that are still open to be forced.  A path is ahead of *)
(* a node if it leaves the execution at an open constraint.  A run takes   *)
(* one constraint from a node and adds a node with the constraints of its  *)
(* own execution that come after it.  No path is ahead of two nodes and no *)
(* path that was run is ahead of one; and if nothing else is ever closed,  *)
(* every path that was not run is ahead of one.                            *)
(***************************************************************************)
EXTENDS RunCrest_proof, YicesSolver_proof

\* The powers of two, counted by the subsets of an interval.
LEMMA Powers ==
  \A n \in Nat : 2 ^ n \in Nat /\ 2 ^ n >= 1 /\ 2 ^ (n + 1) = 2 * 2 ^ n
<1> DEFINE P(n) == SUBSET (1 .. n)
<1>1. ASSUME NEW n \in Nat
      PROVE  IsFiniteSet(P(n)) /\ Cardinality(P(n)) = 2 ^ n /\ Cardinality(P(n)) \in Nat
  <2>1. IsFiniteSet(1 .. n) /\ Cardinality(1 .. n) = n
    BY FS_Interval
  <2> QED  BY <2>1, FS_SUBSET, FS_CardinalityType
<1>2. ASSUME NEW n \in Nat  PROVE Cardinality(P(n + 1)) = Cardinality(P(n)) + Cardinality(P(n))
  <2> DEFINE f == [X \in P(n) |-> X \cup {n + 1}]
             Q == {X \cup {n + 1} : X \in P(n)}
  <2>1. P(n + 1) = P(n) \cup Q
    <3>1. P(n) \cup Q \subseteq P(n + 1)
      <4>1. 1 .. n \subseteq 1 .. n + 1 /\ n + 1 \in 1 .. n + 1
        OBVIOUS
      <4> QED  BY <4>1
    <3>2. ASSUME NEW X \in P(n + 1)  PROVE X \in P(n) \cup Q
      <4>1. CASE n + 1 \in X
        <5>1. X \ {n + 1} \in P(n)
          OBVIOUS
        <5>2. X = (X \ {n + 1}) \cup {n + 1}
          BY <4>1
        <5> QED  BY <5>1, <5>2
      <4>2. CASE n + 1 \notin X
        BY <4>2
      <4> QED  BY <4>1, <4>2
    <3> QED  BY <3>1, <3>2
  <2>2. P(n) \cap Q = {}
    <3>1. n + 1 \notin 1 .. n
      OBVIOUS
    <3> QED  BY <3>1
  <2>3. f \in Bijection(P(n), Q)
    <3>1. n + 1 \notin 1 .. n
      OBVIOUS
    <3>2. ASSUME NEW X \in P(n), NEW Y \in P(n), f[X] = f[Y]  PROVE X = Y
      BY <3>1, <3>2
    <3>3. f \in [P(n) -> Q]
      OBVIOUS
    <3>4. \A Z \in Q : \E X \in P(n) : f[X] = Z
      OBVIOUS
    <3> HIDE DEF f, Q, P
    <3> QED  BY <3>2, <3>3, <3>4, Fun_IsBij
  <2>4. IsFiniteSet(Q) /\ Cardinality(Q) = Cardinality(P(n))
    <3> HIDE DEF f, Q, P
    <3> QED  BY <1>1, <2>3, FS_Bijection DEF ExistsBijection
  <2> HIDE DEF Q, P
  <2>5. Cardinality(P(n + 1)) = Cardinality(P(n)) + Cardinality(Q) - Cardinality({})
    BY <1>1, <2>1, <2>2, <2>4, FS_Union
  <2>6. Cardinality({}) = 0
    BY FS_EmptySet
  <2> QED  BY <1>1, <2>4, <2>5, <2>6
<1>3. ASSUME NEW n \in Nat  PROVE 2 ^ n >= 1
  <2>1. {} \in P(n)
    OBVIOUS
  <2>2. Cardinality(P(n)) # 0
    <3> HIDE DEF P
    <3> QED  BY <1>1, <2>1, FS_EmptySet
  <2> HIDE DEF P
  <2> QED  BY <1>1, <2>2
<1> HIDE DEF P
<1>4. ASSUME NEW n \in Nat
      PROVE 2 ^ n \in Nat /\ 2 ^ n >= 1 /\ 2 ^ (n + 1) = 2 ^ n + 2 ^ n /\ 2 ^ n + 2 ^ n = 2 * 2 ^ n
  <2>1. n + 1 \in Nat
    OBVIOUS
  <2>2. 2 ^ n \in Nat /\ 2 ^ n >= 1
    BY <1>1, <1>3
  <2>3. 2 ^ (n + 1) = 2 ^ n + 2 ^ n
    BY <1>1, <1>2, <2>1
  <2> QED  BY <2>2, <2>3
<1> QED  BY <1>4
-----------------------------------------------------------------------------
(***************************************************************************)
(* Paths that leave an execution.                                          *)
(***************************************************************************)

\* A path goes like an execution to the branch of its i-th constraint, where it
\* takes the other side.
Leaves(path, ex, i) ==
  LET idx == ex.constraints_idx[i] IN
  /\ idx < Len(ex.branches) /\ idx < Len(path)
  /\ \A j \in 1 .. idx : path[j] = ex.branches[j]
  /\ path[idx + 1] = paired_branch[ex.branches[idx + 1]]

\* The executions of a program.
Runs(p) == {Executions[p][a] : a \in Assign}

\* This is what CheckPrediction tells of a run.
LEMMA PredictedLeaves ==
  ASSUME NEW ex, NEW other, NEW i
  PROVE  Predicted(ex, other, i) <=> Leaves(other.branches, ex, i)
BY DEF Predicted, CheckPrediction, Leaves

\* What the assumptions say of an execution.
LEMMA RunFacts ==
  ASSUME NEW p \in Program, NEW x \in Runs(p)
  PROVE  /\ x.branches \in Seq(Int) /\ x.constraints \in Seq(Constraint)
         /\ Len(x.branches) \in Nat /\ Len(x.constraints) \in Nat
         /\ \A i \in 1 .. Len(x.constraints) :
              /\ x.constraints_idx[i] \in Nat
              /\ paired_branch[x.branches[x.constraints_idx[i] + 1]]
                   # x.branches[x.constraints_idx[i] + 1]
         /\ \A i, j \in 1 .. Len(x.constraints) :
              i < j => x.constraints_idx[i] < x.constraints_idx[j]
<1>1. WellFormed(x)
  BY PathsAssumption DEF PathsAssumption, Runs
<1>2. \A i \in 1 .. Len(x.constraints) : x.constraints_idx[i] \in Nat
  BY <1>1, ElementOfSeq DEF WellFormed
<1>3. \A i \in 1 .. Len(x.constraints) : BranchAt(x, i) \in Branch
  BY <1>1 DEF WellFormed, KnownBranches
<1>4. \A i \in 1 .. Len(x.constraints) : paired_branch[BranchAt(x, i)] # BranchAt(x, i)
  BY <1>3, SearchAssumption DEF SearchAssumption
<1> QED  BY <1>1, <1>2, <1>4, LenProperties DEF WellFormed, BranchAt

\* A path leaves an execution at one constraint at most, and an execution does
\* not leave itself.
LEMMA LeavesOnce ==
  ASSUME NEW p \in Program, NEW x \in Runs(p), NEW path,
         NEW i \in 1 .. Len(x.constraints), Leaves(path, x, i)
  PROVE  /\ path # x.branches
         /\ \A j \in 1 .. Len(x.constraints) : Leaves(path, x, j) => i = j
<1>1. /\ \A k \in 1 .. Len(x.constraints) :
           /\ x.constraints_idx[k] \in Nat
           /\ paired_branch[x.branches[x.constraints_idx[k] + 1]]
                # x.branches[x.constraints_idx[k] + 1]
      /\ \A k, j \in 1 .. Len(x.constraints) :
           k < j => x.constraints_idx[k] < x.constraints_idx[j]
      /\ Len(x.constraints) \in Nat
  BY RunFacts
<1>2. path # x.branches
  BY <1>1 DEF Leaves
<1>3. ASSUME NEW k \in 1 .. Len(x.constraints), NEW j \in 1 .. Len(x.constraints), k < j,
             Leaves(path, x, k), Leaves(path, x, j)
      PROVE  FALSE
  <2>1. x.constraints_idx[k] \in Nat /\ x.constraints_idx[j] \in Nat
        /\ x.constraints_idx[k] < x.constraints_idx[j]
    BY <1>1, <1>3
  <2>2. x.constraints_idx[k] + 1 \in 1 .. x.constraints_idx[j]
    BY <2>1
  <2>3. path[x.constraints_idx[k] + 1] = x.branches[x.constraints_idx[k] + 1]
    BY <2>2, <1>3 DEF Leaves
  <2> QED  BY <2>3, <1>1, <1>3 DEF Leaves
<1>4. ASSUME NEW j \in 1 .. Len(x.constraints), Leaves(path, x, j)  PROVE i = j
  <2>1. i \in Int /\ j \in Int
    BY <1>1
  <2>2. ~(i < j) /\ ~(j < i)
    BY <1>3, <1>4
  <2> QED  BY <2>1, <2>2
<1> QED  BY <1>2, <1>4

\* What leaves y behind the branch where y left x left x there as well.
LEMMA LeavesBelow ==
  ASSUME NEW p \in Program, NEW x \in Runs(p), NEW y \in Runs(p), NEW path,
         NEW i \in 1 .. Len(x.constraints), Leaves(y.branches, x, i),
         NEW k \in 1 .. Len(y.constraints), x.constraints_idx[i] < y.constraints_idx[k],
         Leaves(path, y, k), Len(path) \in Nat
  PROVE  Leaves(path, x, i)
<1> DEFINE d == x.constraints_idx[i]
           e == y.constraints_idx[k]
<1>1. d \in Nat /\ e \in Nat /\ Len(x.branches) \in Nat /\ Len(y.branches) \in Nat
  BY RunFacts
<1>2. /\ d < Len(x.branches) /\ d < Len(y.branches)
      /\ \A j \in 1 .. d : y.branches[j] = x.branches[j]
      /\ y.branches[d + 1] = paired_branch[x.branches[d + 1]]
  BY DEF Leaves
<1>3. e < Len(path) /\ \A j \in 1 .. e : path[j] = y.branches[j]
  BY DEF Leaves
<1>4. d < e
  OBVIOUS
<1> HIDE DEF d, e
<1>5. d < Len(path) /\ d + 1 \in 1 .. e /\ \A j \in 1 .. d : j \in 1 .. e
  BY <1>1, <1>3, <1>4
<1>6. /\ \A j \in 1 .. d : path[j] = x.branches[j]
      /\ path[d + 1] = paired_branch[x.branches[d + 1]]
  BY <1>2, <1>3, <1>5
<1> QED  BY <1>2, <1>5, <1>6 DEF Leaves, d

\* Two that leave an execution at the same branch are the same up to there.
LEMMA LeaveTogether ==
  ASSUME NEW p \in Program, NEW x \in Runs(p), NEW y \in Runs(p), NEW path,
         NEW i \in 1 .. Len(x.constraints), Leaves(y.branches, x, i), Leaves(path, x, i),
         NEW k \in 1 .. Len(y.constraints), Leaves(path, y, k)
  PROVE  x.constraints_idx[i] < y.constraints_idx[k]
<1> DEFINE d == x.constraints_idx[i]
           e == y.constraints_idx[k]
<1>1. d \in Nat /\ e \in Nat
  BY RunFacts
<1>2. \A j \in 1 .. d + 1 : path[j] = y.branches[j]
  <2>1. /\ \A j \in 1 .. d : path[j] = y.branches[j]
        /\ path[d + 1] = y.branches[d + 1]
    BY DEF Leaves
  <2> HIDE DEF d
  <2> QED  BY <1>1, <2>1
<1>3. path[e + 1] # y.branches[e + 1]
  <2>1. path[e + 1] = paired_branch[y.branches[e + 1]]
    BY DEF Leaves
  <2>2. paired_branch[y.branches[e + 1]] # y.branches[e + 1]
    BY RunFacts
  <2> QED  BY <2>1, <2>2
<1> HIDE DEF d, e
<1>4. e + 1 \notin 1 .. d + 1
  BY <1>2, <1>3
<1>5. d < e
  BY <1>1, <1>4
<1> QED  BY <1>5 DEF d, e

-----------------------------------------------------------------------------
(***************************************************************************)
(* Programs whose constraints decide the path.                             *)
(***************************************************************************)

\* What is assumed of the runs of such a program: an assignment that is free to
\* choose for the inputs that were not read, the constraints that decide, and the
\* indices that paths have in common.
LEMMA ExactRuns ==
  ASSUME NEW p \in ExactPrograms
  PROVE  /\ p \in Program
         /\ \A a \in Assign : ~Behaviour[p][a].crashes
         /\ \A a \in Assign : HoldsOfInputs(Executions[p][a], a)
         /\ \A a, b \in Assign : Decides(Executions[p][a], Executions[p][b], b)
         /\ \A x, y \in Runs(p) : Aligned(x, y)
BY DEF ExactPrograms, Runs

\* A run has the path of an execution or leaves it at a constraint.
LEMMA SameOrLeaves ==
  ASSUME NEW p \in ExactPrograms, NEW x \in Runs(p), NEW z \in Runs(p)
  PROVE  \/ z.branches = x.branches
         \/ \E i \in 1 .. Len(x.constraints) : Leaves(z.branches, x, i)
<1>1. PICK b \in Assign : z = Executions[p][b]
  BY DEF Runs
<1>2. Decides(x, z, b)
  BY <1>1, ExactRuns DEF Runs
<1> DEFINE S == {i \in 1 .. Len(x.constraints) : ~Holds(x.constraints[i], b)}
<1>3. CASE S = {}
  BY <1>2, <1>3 DEF Decides, Follows
<1>4. CASE S # {}
  <2>1. Len(x.constraints) \in Nat
    BY ExactRuns, RunFacts
  <2>2. S \subseteq Nat
    BY <2>1
  <2>3. PICK i \in S : \A k \in S : i <= k
    BY <1>4, <2>2, Least
  <2>4. i \in 1 .. Len(x.constraints) /\ ~Holds(x.constraints[i], b)
    OBVIOUS
  <2>5. Follows(b, x, i - 1)
    BY <2>1, <2>3, <2>4 DEF Follows
  <2>6. Predicted(x, z, i)
    BY <1>2, <2>4, <2>5 DEF Decides
  <2> QED  BY <2>4, <2>6, PredictedLeaves
<1> QED  BY <1>3, <1>4

\* Whatever a run does with the input that a solver gives for a constraint, it
\* leaves the execution there.
LEMMA SolvedLeaves ==
  ASSUME NEW p \in ExactPrograms, NEW x \in Runs(p), NEW i \in 1 .. Len(x.constraints),
         NEW input, input \in CanSolve(x, i) \cup CanSolveNew(x, i),
         NEW b \in Completions(input)
  PROVE  Leaves(Executions[p][b].branches, x, i)
<1>1. PICK a \in Assign : x = Executions[p][a]
  BY DEF Runs
<1>2. x \in AllExecutions /\ x.constraints \in Seq(Constraint) /\ Len(x.constraints) \in Nat
  BY <1>1, ExactRuns, RunFacts DEF AllExecutions
<1>3. input \in Solutions(x.inputs, x.constraints, i)
                  \cup SolutionsNew(x.inputs, x.constraints, i)
  BY <1>2 DEF CanSolve, CanSolveNew, SolveAtBranch, SolveAtBranchNew
<1>4. \A v \in DOMAIN x.inputs : x.inputs[v] = a[v]
  BY <1>1, ExactRuns DEF Executions
<1>5. HoldsOfInputs(x, a)
  BY <1>1, ExactRuns
<1>6. \A j \in 1 .. i : AppendVars(x.constraints[j]) \subseteq DOMAIN x.inputs
  BY <1>2, <1>5 DEF HoldsOfInputs
<1>7. \A j \in 1 .. i - 1 : Holds(x.constraints[j], a)
  BY <1>2, <1>5 DEF HoldsOfInputs, Follows
<1>8. b \in Assign /\ \A v \in DOMAIN input \cap Var : b[v] = input[v]
  BY DEF Completions
<1>9. (\A j \in 1 .. i - 1 : Holds(x.constraints[j], b)) /\ ~Holds(x.constraints[i], b)
  <2> DEFINE path   == x.constraints
             inputs == x.inputs
  <2>1. IsForced(path, i, inputs, a, input, b)
    BY <1>3, <1>4, <1>6, <1>7, <1>8 DEF IsForced
  <2>2. path \in Seq(Constraint) /\ i \in 1 .. Len(path) /\ b \in Assign
    BY <1>2, <1>8
  <2> HIDE DEF path, inputs
  <2>3. (\A j \in 1 .. i - 1 : Holds(path[j], b)) /\ ~Holds(path[i], b)
    BY <2>1, <2>2, SolutionsForce
  <2> QED  BY <2>3 DEF path
<1>10. Decides(x, Executions[p][b], b)
  BY <1>1, <1>8, ExactRuns
<1>11. Predicted(x, Executions[p][b], i)
  BY <1>9, <1>10 DEF Decides, Follows
<1> QED  BY <1>11, PredictedLeaves

\* If the solver finds nothing for a constraint, no run leaves the execution there.
LEMMA UnsolvedUnreached ==
  ASSUME NEW p \in ExactPrograms, NEW x \in Runs(p), NEW i \in 1 .. Len(x.constraints),
         CanSolve(x, i) = {}, NEW z \in Runs(p)
  PROVE  ~Leaves(z.branches, x, i)
<1>1. PICK b \in Assign : z = Executions[p][b]
  BY DEF Runs
<1>2. Decides(x, z, b)
  BY <1>1, ExactRuns DEF Runs
<1>3. p \in Program /\ x.constraints \in Seq(Constraint) /\ Len(x.constraints) \in Nat
  BY ExactRuns, RunFacts
<1>4. Solutions(x.inputs, x.constraints, i) = {}
  <2>1. x \in AllExecutions
    BY <1>3 DEF AllExecutions, Runs
  <2> QED  BY <2>1 DEF CanSolve, SolveAtBranch
<1>5. ~((\A j \in 1 .. i - 1 : Holds(x.constraints[j], b)) /\ ~Holds(x.constraints[i], b))
  <2> DEFINE path   == x.constraints
             inputs == x.inputs
  <2>1. path \in Seq(Constraint) /\ i \in 1 .. Len(path) /\ Solutions(inputs, path, i) = {}
    BY <1>3, <1>4
  <2> HIDE DEF path, inputs
  <2>2. ~((\A j \in 1 .. i - 1 : Holds(path[j], b)) /\ ~Holds(path[i], b))
    BY <2>1, SolutionsExist
  <2> QED  BY <2>2 DEF path
<1> DEFINE S == {k \in 1 .. Len(x.constraints) : ~Holds(x.constraints[k], b)}
<1>6. CASE S = {}
  <2>1. z.branches = x.branches
    BY <1>2, <1>6 DEF Decides, Follows
  <2> QED  BY <1>3, <2>1, LeavesOnce
<1>7. CASE S # {}
  <2>1. S \subseteq Nat
    BY <1>3
  <2>2. PICK k \in S : \A j \in S : k <= j
    BY <1>7, <2>1, Least
  <2>3. k \in 1 .. Len(x.constraints) /\ ~Holds(x.constraints[k], b)
    OBVIOUS
  <2>4. \A j \in 1 .. k - 1 : Holds(x.constraints[j], b)
    BY <1>3, <2>2, <2>3
  <2>5. Leaves(z.branches, x, k)
    BY <1>2, <2>3, <2>4, PredictedLeaves DEF Decides, Follows
  <2>6. k # i
    BY <1>5, <2>3, <2>4
  <2> QED  BY <1>3, <2>3, <2>5, <2>6, LeavesOnce
<1> QED  BY <1>6, <1>7

\* Up to the branch where a run left an execution they have their constraints at
\* the same positions: those of the run behind it are those with a larger index.
LEMMA BehindTheBranch ==
  ASSUME NEW p \in ExactPrograms, NEW x \in Runs(p), NEW y \in Runs(p),
         NEW i \in 1 .. Len(x.constraints), Leaves(y.branches, x, i),
         NEW k \in 1 .. Len(y.constraints)
  PROVE  x.constraints_idx[i] < y.constraints_idx[k] <=> i < k
<1> DEFINE d == x.constraints_idx[i]
<1>1. /\ p \in Program /\ Aligned(x, y) /\ Len(y.constraints) \in Nat
      /\ Len(x.constraints) \in Nat /\ d \in Nat
      /\ \A j \in 1 .. Len(y.constraints) : y.constraints_idx[j] \in Nat
      /\ \A j, m \in 1 .. Len(y.constraints) :
           j < m => y.constraints_idx[j] < y.constraints_idx[m]
  BY ExactRuns, RunFacts
<1>2. Meet(x, y, d)
  BY DEF Leaves, Meet
<1>3. i <= Len(y.constraints) /\ y.constraints_idx[i] = d
  BY <1>1, <1>2 DEF Aligned
<1>4. i \in 1 .. Len(y.constraints)
  BY <1>1, <1>3
<1> HIDE DEF d
<1>5. i < k => d < y.constraints_idx[k]
  BY <1>1, <1>3, <1>4
<1>6. k < i => y.constraints_idx[k] < d
  BY <1>1, <1>3, <1>4
<1>7. i \in Int /\ k \in Int /\ y.constraints_idx[k] \in Nat
  BY <1>1
<1>8. ~(i < k) => ~(d < y.constraints_idx[k])
  <2>1. CASE k = i
    BY <1>3, <2>1, <1>1
  <2>2. CASE k < i
    BY <1>6, <2>2, <1>1, <1>7
  <2> QED  BY <2>1, <2>2, <1>7
<1> QED  BY <1>5, <1>8 DEF d
-----------------------------------------------------------------------------
(***************************************************************************)
(* Families of nodes.                                                      *)
(***************************************************************************)

\* A path is ahead of a node.
Ahead(path, node) == \E i \in node.open : Leaves(path, node.ex, i)

\* The nodes of a program: their constraints are open or not.
IsFamily(f, p) ==
  \A n \in DOMAIN f : f[n].ex \in Runs(p) /\ f[n].open \subseteq 1 .. Len(f[n].ex.constraints)

\* No path is ahead of two nodes, none that was run is ahead of one, and none was
\* run twice.
Frontier(f, p, explored) ==
  /\ explored \in Seq(Paths[p])
  /\ \A path \in Paths[p] : \A m, n \in DOMAIN f :
       Ahead(path, f[m]) /\ Ahead(path, f[n]) => m = n
  /\ \A e \in 1 .. Len(explored) : \A n \in DOMAIN f : ~Ahead(explored[e], f[n])
  /\ \A d, e \in 1 .. Len(explored) : d # e => explored[d] # explored[e]

\* Every path that was not run is ahead of a node.
Covers(f, p, explored) ==
  \A path \in Paths[p] \ Values(explored) : \E n \in DOMAIN f : Ahead(path, f[n])

\* The constraints of an execution that come after a position.
After(ex, idx) == {j \in 1 .. Len(ex.constraints) : idx < ex.constraints_idx[j]}

\* The i-th constraint of the node n is closed, and the run y is added as m.
Forked(f, n, i, m, y) ==
  [k \in DOMAIN f \cup {m} |->
     IF k = m THEN [ex |-> y, open |-> After(y, f[n].ex.constraints_idx[i])]
     ELSE IF k = n THEN [ex |-> f[n].ex, open |-> f[n].open \ {i}]
     ELSE f[k]]

\* Paths are those of the runs.
LEMMA PathsOfRuns ==
  ASSUME NEW p \in Program
  PROVE  /\ \A x \in Runs(p) : x.branches \in Paths[p]
         /\ \A path \in Paths[p] : \E x \in Runs(p) : path = x.branches
         /\ \A path \in Paths[p] : Len(path) \in Nat
<1>1. /\ \A x \in Runs(p) : x.branches \in Paths[p]
      /\ \A path \in Paths[p] : \E x \in Runs(p) : path = x.branches
  BY DEF Paths, Runs
<1> QED  BY <1>1, RunFacts

\* A path ahead of the node that a run adds leaves the old execution where the run
\* left it.
LEMMA AheadOfNew ==
  ASSUME NEW p \in Program, NEW x \in Runs(p), NEW i \in 1 .. Len(x.constraints),
         NEW y \in Runs(p), Leaves(y.branches, x, i), NEW path \in Paths[p],
         NEW k \in After(y, x.constraints_idx[i]), Leaves(path, y, k)
  PROVE  Leaves(path, x, i)
BY LeavesBelow, PathsOfRuns DEF After

\* A path that leaves the old execution where the run left it is the path of the
\* run or ahead of the node that the run adds.
LEMMA AheadOrRun ==
  ASSUME NEW p \in ExactPrograms, NEW x \in Runs(p), NEW i \in 1 .. Len(x.constraints),
         NEW y \in Runs(p), Leaves(y.branches, x, i),
         NEW path \in Paths[p], Leaves(path, x, i), path # y.branches
  PROVE  \E k \in After(y, x.constraints_idx[i]) : Leaves(path, y, k)
<1>1. p \in Program
  BY ExactRuns
<1>2. PICK k \in 1 .. Len(y.constraints) : Leaves(path, y, k)
  BY <1>1, PathsOfRuns, SameOrLeaves
<1>3. x.constraints_idx[i] < y.constraints_idx[k]
  BY <1>1, <1>2, LeaveTogether
<1> QED  BY <1>2, <1>3 DEF After

\* A sequence with one element.
LEMMA Alone ==
  ASSUME NEW S, NEW e \in S
  PROVE  << e >> \in Seq(S) /\ Len(<< e >>) = 1 /\ << e >>[1] = e
OBVIOUS

\* A sequence with one more element.
LEMMA Appended ==
  ASSUME NEW S, NEW s \in Seq(S), NEW e \in S
  PROVE  /\ Append(s, e) \in Seq(S) /\ Len(Append(s, e)) = Len(s) + 1 /\ Len(s) \in Nat
         /\ Append(s, e)[Len(s) + 1] = e
         /\ \A i \in 1 .. Len(s) : Append(s, e)[i] = s[i] /\ s[i] \in S
BY AppendProperties, LenProperties, ElementOfSeq

\* A run forks the node that it was made for.
LEMMA ForkKeeps ==
  ASSUME NEW p \in ExactPrograms, NEW f, IsFamily(f, p), NEW explored,
         NEW n \in DOMAIN f, NEW i \in f[n].open, NEW m, m \notin DOMAIN f,
         NEW y \in Runs(p), Leaves(y.branches, f[n].ex, i)
  PROVE  /\ IsFamily(Forked(f, n, i, m, y), p)
         /\ Frontier(f, p, explored) =>
              Frontier(Forked(f, n, i, m, y), p, Append(explored, y.branches))
         /\ Covers(f, p, explored) /\ explored \in Seq(Paths[p]) =>
              Covers(Forked(f, n, i, m, y), p, Append(explored, y.branches))
<1> DEFINE x   == f[n].ex
           g   == Forked(f, n, i, m, y)
           new == Append(explored, y.branches)
<1>1. /\ p \in Program /\ x \in Runs(p) /\ i \in 1 .. Len(x.constraints)
      /\ Leaves(y.branches, x, i) /\ y.branches \in Paths[p]
  BY ExactRuns, PathsOfRuns DEF IsFamily
<1>2. /\ DOMAIN g = DOMAIN f \cup {m}
      /\ g[m] = [ex |-> y, open |-> After(y, x.constraints_idx[i])]
      /\ g[n] = [ex |-> x, open |-> f[n].open \ {i}]
      /\ \A k \in DOMAIN f \ {n} : g[k] = f[k]
  BY DEF Forked
<1> HIDE DEF g
<1>3. IsFamily(g, p)
  BY <1>1, <1>2 DEF IsFamily, After
<1>4. ASSUME NEW path \in Paths[p]
      PROVE  /\ Ahead(path, g[m]) => Leaves(path, x, i)
             /\ Ahead(path, g[n]) => Ahead(path, f[n]) /\ ~Leaves(path, x, i)
             /\ \A k \in DOMAIN f \ {n} : Ahead(path, g[k]) <=> Ahead(path, f[k])
             /\ Leaves(path, x, i) => Ahead(path, f[n])
             /\ Leaves(path, x, i) => path = y.branches \/ Ahead(path, g[m])
             /\ Ahead(path, f[n]) => Leaves(path, x, i) \/ Ahead(path, g[n])
  <2>1. Ahead(path, g[m]) => Leaves(path, x, i)
    <3> SUFFICES ASSUME Ahead(path, g[m])  PROVE Leaves(path, x, i)
      OBVIOUS
    <3>1. PICK k \in After(y, x.constraints_idx[i]) : Leaves(path, y, k)
      BY <1>2 DEF Ahead
    <3> HIDE DEF x
    <3> QED  BY <1>1, <3>1, AheadOfNew
  <2>2. Ahead(path, g[n]) => Ahead(path, f[n])
    BY <1>2 DEF Ahead
  <2>3. Ahead(path, g[n]) => ~Leaves(path, x, i)
    <3> SUFFICES ASSUME Ahead(path, g[n]), Leaves(path, x, i)  PROVE FALSE
      OBVIOUS
    <3>1. PICK k \in f[n].open \ {i} : Leaves(path, x, k)
      BY <1>2 DEF Ahead
    <3>2. k \in 1 .. Len(x.constraints)
      BY DEF IsFamily
    <3> HIDE DEF x
    <3> QED  BY <1>1, <3>1, <3>2, LeavesOnce
  <2>4. \A k \in DOMAIN f \ {n} : Ahead(path, g[k]) <=> Ahead(path, f[k])
    BY <1>2
  <2>5. Leaves(path, x, i) => Ahead(path, f[n])
    BY DEF Ahead
  <2>6. Leaves(path, x, i) => path = y.branches \/ Ahead(path, g[m])
    <3> SUFFICES ASSUME Leaves(path, x, i), path # y.branches  PROVE Ahead(path, g[m])
      OBVIOUS
    <3>1. \E k \in After(y, x.constraints_idx[i]) : Leaves(path, y, k)
      <4> HIDE DEF x
      <4> QED  BY <1>1, AheadOrRun
    <3> QED  BY <1>2, <3>1 DEF Ahead
  <2>7. Ahead(path, f[n]) => Leaves(path, x, i) \/ Ahead(path, g[n])
    BY <1>2 DEF Ahead
  <2> QED  BY <2>1, <2>2, <2>3, <2>4, <2>5, <2>6, <2>7
<1>5. ASSUME explored \in Seq(Paths[p])
      PROVE  /\ new \in Seq(Paths[p]) /\ Len(new) = Len(explored) + 1 /\ Len(explored) \in Nat
             /\ new[Len(explored) + 1] = y.branches
             /\ \A e \in 1 .. Len(explored) : new[e] = explored[e] /\ explored[e] \in Paths[p]
  BY <1>1, <1>5, Appended
<1>6. ASSUME Frontier(f, p, explored)  PROVE Frontier(g, p, new)
  <2>1. /\ explored \in Seq(Paths[p])
        /\ \A path \in Paths[p] : \A j, k \in DOMAIN f :
             Ahead(path, f[j]) /\ Ahead(path, f[k]) => j = k
        /\ \A e \in 1 .. Len(explored) : \A k \in DOMAIN f : ~Ahead(explored[e], f[k])
        /\ \A d, e \in 1 .. Len(explored) : d # e => explored[d] # explored[e]
    BY <1>6 DEF Frontier
  <2> HIDE DEF x, new
  <2>2. ASSUME NEW path \in Paths[p], NEW j \in DOMAIN g, NEW k \in DOMAIN g,
               Ahead(path, g[j]), Ahead(path, g[k])
        PROVE  j = k
    <3>1. \A l \in DOMAIN f : Ahead(path, g[l]) => Ahead(path, f[l])
      BY <1>4
    <3>2. Ahead(path, g[m]) => \A l \in DOMAIN f : ~Ahead(path, g[l])
      BY <1>4, <2>1
    <3> QED  BY <1>2, <2>1, <2>2, <3>1, <3>2
  <2>3. ASSUME NEW path \in Paths[p], \A k \in DOMAIN f : ~Ahead(path, f[k])
        PROVE  (\A k \in DOMAIN g : ~Ahead(path, g[k])) /\ ~Leaves(path, x, i)
    BY <1>2, <1>4, <2>3
  <2>4. \A k \in DOMAIN g : ~Ahead(y.branches, g[k])
    <3>1. ~Ahead(y.branches, g[m])
      <4>1. \A k \in 1 .. Len(y.constraints) : ~Leaves(y.branches, y, k)
        BY <1>1, LeavesOnce
      <4> QED  BY <1>2, <4>1 DEF Ahead, After
    <3>2. \A k \in DOMAIN f \ {n} : ~Ahead(y.branches, g[k])
      BY <1>1, <1>4, <2>1
    <3>3. ~Ahead(y.branches, g[n])
      BY <1>1, <1>4
    <3> QED  BY <1>2, <3>1, <3>2, <3>3
  <2>5. ASSUME NEW e \in 1 .. Len(new)
        PROVE  \A k \in DOMAIN g : ~Ahead(new[e], g[k])
    BY <1>5, <2>1, <2>3, <2>4
  <2>6. \A e \in 1 .. Len(explored) : explored[e] # y.branches
    BY <1>1, <1>5, <2>1, <2>3
  <2>7. \A d, e \in 1 .. Len(new) : d # e => new[d] # new[e]
    BY <1>5, <2>1, <2>6
  <2> QED  BY <1>5, <2>1, <2>2, <2>5, <2>7 DEF Frontier
<1>7. ASSUME Covers(f, p, explored), explored \in Seq(Paths[p])  PROVE Covers(g, p, new)
  <2> SUFFICES ASSUME NEW path \in Paths[p] \ Values(new)
               PROVE  \E k \in DOMAIN g : Ahead(path, g[k])
    BY DEF Covers
  <2>1. path # y.branches /\ path \notin Values(explored)
    <3> HIDE DEF new
    <3> QED  BY <1>5, <1>7 DEF Values
  <2>2. PICK k \in DOMAIN f : Ahead(path, f[k])
    BY <1>7, <2>1 DEF Covers
  <2> HIDE DEF x, new
  <2> QED  BY <1>2, <1>4, <2>1, <2>2
<1> QED  BY <1>3, <1>6, <1>7 DEF g

\* Nothing is lost of the invariant if constraints are closed, nodes are dropped or
\* they are numbered anew.
LEMMA ShrinkKeeps ==
  ASSUME NEW p, NEW explored, NEW f, NEW g, NEW h,
         \A n \in DOMAIN g : /\ h[n] \in DOMAIN f
                             /\ g[n].ex = f[h[n]].ex /\ g[n].open \subseteq f[h[n]].open,
         \A m, n \in DOMAIN g : h[m] = h[n] => m = n
  PROVE  /\ IsFamily(f, p) => IsFamily(g, p)
         /\ Frontier(f, p, explored) => Frontier(g, p, explored)
<1>1. IsFamily(f, p) => IsFamily(g, p)
  BY DEF IsFamily
<1>2. \A n \in DOMAIN g : \A path : Ahead(path, g[n]) => Ahead(path, f[h[n]])
  BY DEF Ahead
<1>3. Frontier(f, p, explored) => Frontier(g, p, explored)
  BY <1>2 DEF Frontier
<1> QED  BY <1>1, <1>3

\* Paths stay covered if those ahead of the nodes do.
LEMMA CoversKeeps ==
  ASSUME NEW p, NEW explored, NEW f, NEW g,
         \A path \in Paths[p] : \A n \in DOMAIN f :
           Ahead(path, f[n]) => \E m \in DOMAIN g : Ahead(path, g[m]),
         Covers(f, p, explored)
  PROVE  Covers(g, p, explored)
BY DEF Covers

\* A search starts with one run, all of whose constraints are open.
LEMMA RootKeeps ==
  ASSUME NEW p \in ExactPrograms, NEW y \in Runs(p), NEW f, NEW r, DOMAIN f = {r},
         f[r].ex = y, f[r].open = 1 .. Len(y.constraints)
  PROVE  /\ IsFamily(f, p)
         /\ Frontier(f, p, << y.branches >>)
         /\ Covers(f, p, << y.branches >>)
<1>1. p \in Program /\ y.branches \in Paths[p]
  BY ExactRuns, PathsOfRuns
<1>2. IsFamily(f, p)
  BY DEF IsFamily
<1>3. \A k \in 1 .. Len(y.constraints) : ~Leaves(y.branches, y, k)
  BY <1>1, LeavesOnce
<1>4. Frontier(f, p, << y.branches >>)
  <2> DEFINE one == << y.branches >>
  <2>1. one \in Seq(Paths[p]) /\ Len(one) = 1 /\ one[1] = y.branches
    BY <1>1, Alone
  <2> HIDE DEF one
  <2>2. ~Ahead(y.branches, f[r])
    BY <1>3 DEF Ahead
  <2>3. \A e \in 1 .. Len(one) : e = 1
    BY <2>1
  <2>4. Frontier(f, p, one)
    BY <2>1, <2>2, <2>3 DEF Frontier
  <2> QED  BY <2>4 DEF one
<1>5. ASSUME NEW path \in Paths[p] \ Values(<< y.branches >>)  PROVE Ahead(path, f[r])
  <2>1. path # y.branches
    BY DEF Values
  <2>2. \E i \in 1 .. Len(y.constraints) : Leaves(path, y, i)
    BY <1>1, <2>1, PathsOfRuns, SameOrLeaves
  <2> QED  BY <2>2 DEF Ahead
<1> QED  BY <1>2, <1>4, <1>5 DEF Covers
-----------------------------------------------------------------------------
(***************************************************************************)
(* The depth-first search: each call is a node, whose open constraints are *)
(* those that its loop has not come to.                                    *)
(***************************************************************************)
DFSNodes(frames) ==
  [n \in 1 .. Len(frames) |->
     [ex |-> frames[n].ex, open |-> frames[n].i .. Len(frames[n].ex.constraints)]]

DFSFrames(p) == [ex : Runs(p), i : Nat \ {0}, depth : Nat]

\* A call has used up at most one of its depth for each constraint it is past.
DFSDepths(depth, frames) ==
  \A n \in 1 .. Len(frames) : frames[n].i + frames[n].depth >= depth + 1

DFSCovers(p, depth, frames, explored) ==
  explored # << >> /\ (\A x \in Runs(p) : Len(x.constraints) <= depth) =>
    Covers(DFSNodes(frames), p, explored)

\* s[n] is how many runs the first n calls can still make: a call of depth d makes
\* at most 2^d - 1, with those of its callees.
DFSBudget(depth, frames, explored) ==
  \E s \in [0 .. Len(frames) -> Nat] :
    /\ s[0] = 0
    /\ \A n \in 1 .. Len(frames) : s[n] = s[n - 1] + 2 ^ frames[n].depth - 1
    /\ s[Len(frames)] + Len(explored) <= 2 ^ depth

DFSState(p, depth, frames, explored) ==
  /\ frames \in Seq(DFSFrames(p)) /\ explored \in Seq(Paths[p])
  /\ explored = << >> => frames = << >>
  /\ Frontier(DFSNodes(frames), p, explored)
  /\ DFSDepths(depth, frames)
  /\ DFSCovers(p, depth, frames, explored)
  /\ DFSBudget(depth, frames, explored)

\* The last call returns.
LEMMA LastRemoved ==
  ASSUME NEW S, NEW s \in Seq(S), s # << >>
  PROVE  /\ SubSeq(s, 1, Len(s) - 1) \in Seq(S)
         /\ Len(SubSeq(s, 1, Len(s) - 1)) = Len(s) - 1
         /\ Len(s) \in Nat \ {0}
         /\ \A j \in 1 .. Len(s) - 1 : SubSeq(s, 1, Len(s) - 1)[j] = s[j]
<1> DEFINE n == Len(s) - 1
<1>1. Len(s) \in Nat \ {0}
  BY LenProperties, EmptySeq
<1>2. n \in Nat /\ n <= Len(s) /\ \A j \in 1 .. n : s[j] \in S
  BY <1>1, ElementOfSeq
<1> HIDE DEF n
<1>3. /\ SubSeq(s, 1, n) \in Seq(S) /\ Len(SubSeq(s, 1, n)) = n
      /\ \A j \in 1 .. n : SubSeq(s, 1, n)[j] = s[j]
  BY <1>1, <1>2, SubSeqProperties
<1> QED  BY <1>1, <1>3 DEF n

\* The last call is replaced by another one.
LEMMA LastReplaced ==
  ASSUME NEW S, NEW s \in Seq(S), s # << >>, NEW e \in S
  PROVE  LET t == Append(SubSeq(s, 1, Len(s) - 1), e)
         IN  /\ t \in Seq(S) /\ Len(t) = Len(s) /\ t[Len(s)] = e
             /\ Len(s) \in Nat \ {0}
             /\ \A j \in 1 .. Len(s) - 1 : t[j] = s[j]
<1> DEFINE c == SubSeq(s, 1, Len(s) - 1)
<1>1. /\ Len(s) \in Nat \ {0}
      /\ c \in Seq(S) /\ Len(c) = Len(s) - 1 /\ \A j \in 1 .. Len(s) - 1 : c[j] = s[j]
  BY LastRemoved
<1> HIDE DEF c
<1>2. /\ Append(c, e) \in Seq(S) /\ Len(Append(c, e)) = Len(c) + 1
      /\ Append(c, e)[Len(c) + 1] = e
      /\ \A j \in 1 .. Len(c) : Append(c, e)[j] = c[j]
  BY <1>1, Appended
<1> QED  BY <1>1, <1>2 DEF c

\* The nodes of the calls are nodes of the program.
LEMMA DFSFamily ==
  ASSUME NEW p, NEW frames \in Seq(DFSFrames(p))
  PROVE  IsFamily(DFSNodes(frames), p)
<1>1. \A n \in 1 .. Len(frames) : frames[n] \in DFSFrames(p)
  BY ElementOfSeq
<1>2. \A n \in 1 .. Len(frames) : frames[n].ex \in Runs(p) /\ frames[n].i \in Nat \ {0}
  BY <1>1 DEF DFSFrames
<1> QED  BY <1>2 DEF IsFamily, DFSNodes

\* The search starts with a call for the first run.
LEMMA DFSStarts ==
  ASSUME NEW p \in ExactPrograms, NEW depth \in Nat, NEW y \in Runs(p)
  PROVE  DFSState(p, depth, << Frame(y, 1, depth) >>, << y.branches >>)
<1> DEFINE frames   == << Frame(y, 1, depth) >>
           explored == << y.branches >>
<1>1. p \in Program /\ y.branches \in Paths[p]
  BY ExactRuns, PathsOfRuns
<1>2. Frame(y, 1, depth) \in DFSFrames(p)
  BY DEF Frame, DFSFrames
<1>3. frames \in Seq(DFSFrames(p)) /\ Len(frames) = 1 /\ frames[1] = Frame(y, 1, depth)
  BY <1>2, Alone
<1>4. explored \in Seq(Paths[p]) /\ Len(explored) = 1
  BY <1>1, Alone
<1>5. /\ DOMAIN DFSNodes(frames) = {1} /\ DFSNodes(frames)[1].ex = y
      /\ DFSNodes(frames)[1].open = 1 .. Len(y.constraints)
  <2> HIDE DEF frames
  <2>1. 1 .. Len(frames) = {1}
    BY <1>3
  <2> QED  BY <1>3, <2>1 DEF DFSNodes, Frame
<1>6. Frontier(DFSNodes(frames), p, explored) /\ Covers(DFSNodes(frames), p, explored)
  <2> HIDE DEF frames
  <2> QED  BY <1>5, RootKeeps
<1> HIDE DEF frames, explored
<1>7. DFSDepths(depth, frames)
  <2>1. frames[1].i + frames[1].depth >= depth + 1
    BY <1>3 DEF Frame
  <2>2. \A n \in 1 .. Len(frames) : n = 1
    BY <1>3
  <2>3. \A n \in 1 .. Len(frames) : frames[n].i + frames[n].depth >= depth + 1
    BY <2>1, <2>2
  <2> QED  BY <2>3 DEF DFSDepths
<1>8. DFSBudget(depth, frames, explored)
  <2> DEFINE s == [n \in 0 .. 1 |-> IF n = 0 THEN 0 ELSE 2 ^ depth - 1]
  <2>1. 2 ^ depth \in Nat /\ 2 ^ depth >= 1
    BY Powers
  <2>2. /\ s \in [0 .. 1 -> Nat] /\ s[0] = 0 /\ s[1] = 2 ^ depth - 1
    BY <2>1
  <2> HIDE DEF s
  <2>3. frames[1].depth = depth
    BY <1>3 DEF Frame
  <2>4. \A n \in 1 .. 1 : s[n] = s[n - 1] + 2 ^ frames[n].depth - 1
    BY <2>1, <2>2, <2>3
  <2>5. s[1] + Len(explored) <= 2 ^ depth
    BY <1>4, <2>1, <2>2
  <2> QED  BY <1>3, <2>2, <2>4, <2>5 DEF DFSBudget
<1> QED  BY <1>3, <1>4, <1>6, <1>7, <1>8 DEF DFSState, DFSCovers, frames, explored

\* What is known of the current call.
LEMMA DFSCurrent ==
  ASSUME NEW p, NEW frames \in Seq(DFSFrames(p)), frames # << >>
  PROVE  /\ Len(frames) \in Nat \ {0}
         /\ \A n \in 1 .. Len(frames) :
              /\ frames[n] \in DFSFrames(p)
              /\ frames[n].ex \in Runs(p) /\ frames[n].i \in Nat \ {0} /\ frames[n].depth \in Nat
<1>1. Len(frames) \in Nat \ {0}
  BY LenProperties, EmptySeq
<1>2. \A n \in 1 .. Len(frames) : frames[n] \in DFSFrames(p)
  BY ElementOfSeq
<1> QED  BY <1>1, <1>2 DEF DFSFrames

\* A call returns at the end of its loop, or when its depth is used up.
LEMMA DFSReturns ==
  ASSUME NEW p \in ExactPrograms, NEW depth \in Nat, NEW frames, NEW explored,
         DFSState(p, depth, frames, explored), frames # << >>,
         LET c == frames[Len(frames)] IN ~(c.i <= Len(c.ex.constraints) /\ c.depth > 0)
  PROVE  DFSState(p, depth, Caller(frames), explored)
<1> DEFINE S   == DFSFrames(p)
           L   == Len(frames)
           c   == frames[L]
           new == Caller(frames)
<1>1. /\ frames \in Seq(S) /\ explored \in Seq(Paths[p]) /\ explored # << >>
      /\ Frontier(DFSNodes(frames), p, explored)
      /\ DFSDepths(depth, frames) /\ DFSCovers(p, depth, frames, explored)
      /\ DFSBudget(depth, frames, explored)
  BY DEF DFSState
<1>2. /\ L \in Nat \ {0} /\ \A n \in 1 .. L : frames[n] \in S
      /\ c.ex \in Runs(p) /\ c.i \in Nat /\ c.depth \in Nat
  BY <1>1, DFSCurrent
<1>3. new \in Seq(S) /\ Len(new) = L - 1 /\ \A n \in 1 .. L - 1 : new[n] = frames[n]
  BY <1>1, LastRemoved DEF Caller
<1>4. ~(c.i <= Len(c.ex.constraints) /\ c.depth > 0)
  OBVIOUS
<1> HIDE DEF S, L, c, new
<1>5. \A n \in 1 .. Len(new) : n \in 1 .. L /\ new[n] = frames[n]
  BY <1>2, <1>3
<1>6. \A n \in DOMAIN DFSNodes(new) :
        n \in DOMAIN DFSNodes(frames) /\ DFSNodes(new)[n] = DFSNodes(frames)[n]
  BY <1>5 DEF DFSNodes, L
<1>7. Frontier(DFSNodes(new), p, explored)
  <2> DEFINE h == [n \in DOMAIN DFSNodes(new) |-> n]
  <2>1. /\ \A n \in DOMAIN DFSNodes(new) :
             /\ h[n] \in DOMAIN DFSNodes(frames)
             /\ DFSNodes(new)[n].ex = DFSNodes(frames)[h[n]].ex
             /\ DFSNodes(new)[n].open \subseteq DFSNodes(frames)[h[n]].open
        /\ \A m, n \in DOMAIN DFSNodes(new) : h[m] = h[n] => m = n
    BY <1>6
  <2> HIDE DEF h
  <2> QED  BY <1>1, <2>1, ShrinkKeeps
<1>8. DFSDepths(depth, new)
  BY <1>1, <1>5 DEF DFSDepths, L
<1>9. DFSCovers(p, depth, new, explored)
  <2> SUFFICES ASSUME explored # << >>, \A x \in Runs(p) : Len(x.constraints) <= depth
               PROVE  Covers(DFSNodes(new), p, explored)
    BY DEF DFSCovers
  <2>1. c.i + c.depth >= depth + 1
    BY <1>1, <1>2 DEF DFSDepths, L, c
  <2>2. Len(c.ex.constraints) <= depth /\ Len(c.ex.constraints) \in Nat
    BY <1>2, ExactRuns, RunFacts
  <2>3. c.i > Len(c.ex.constraints)
    BY <1>2, <1>4, <2>1, <2>2
  <2>4. DFSNodes(frames)[L].open = {}
    <3>1. c.i .. Len(c.ex.constraints) = {}
      BY <1>2, <2>2, <2>3
    <3> QED  BY <1>2, <3>1 DEF DFSNodes, L, c
  <2>5. ASSUME NEW path \in Paths[p], NEW n \in DOMAIN DFSNodes(frames),
               Ahead(path, DFSNodes(frames)[n])
        PROVE  \E m \in DOMAIN DFSNodes(new) : Ahead(path, DFSNodes(new)[m])
    <3>1. n # L
      BY <2>4, <2>5 DEF Ahead
    <3>2. n \in 1 .. L
      BY DEF DFSNodes, L
    <3>3. n \in 1 .. Len(new)
      BY <1>2, <1>3, <3>1, <3>2
    <3>4. n \in DOMAIN DFSNodes(new)
      BY <3>3 DEF DFSNodes
    <3> QED  BY <1>6, <2>5, <3>4
  <2>6. Covers(DFSNodes(frames), p, explored)
    BY <1>1 DEF DFSCovers
  <2> QED  BY <2>5, <2>6, CoversKeeps
<1>10. DFSBudget(depth, new, explored)
  <2>1. PICK s \in [0 .. L -> Nat] :
          /\ s[0] = 0
          /\ \A n \in 1 .. L : s[n] = s[n - 1] + 2 ^ frames[n].depth - 1
          /\ s[L] + Len(explored) <= 2 ^ depth
    BY <1>1 DEF DFSBudget, L
  <2> DEFINE t == [n \in 0 .. L - 1 |-> s[n]]
  <2>2. t \in [0 .. Len(new) -> Nat] /\ t[0] = 0 /\ \A n \in 0 .. L - 1 : t[n] = s[n]
    BY <1>2, <1>3, <2>1
  <2> HIDE DEF t
  <2>3. \A n \in 1 .. Len(new) : t[n] = t[n - 1] + 2 ^ new[n].depth - 1
    <3> SUFFICES ASSUME NEW n \in 1 .. Len(new)
                 PROVE  t[n] = t[n - 1] + 2 ^ new[n].depth - 1
      OBVIOUS
    <3>1. n \in 0 .. L - 1 /\ n - 1 \in 0 .. L - 1 /\ n \in 1 .. L
      BY <1>2, <1>3
    <3> QED  BY <1>5, <2>1, <2>2, <3>1
  <2>4. t[Len(new)] + Len(explored) <= 2 ^ depth
    <3> DEFINE below == 2 ^ c.depth
               all   == 2 ^ depth
    <3>1. s[L] = s[L - 1] + below - 1
      <4>1. L \in 1 .. L
        BY <1>2
      <4> QED  BY <2>1, <4>1 DEF c
    <3>2. below \in Nat /\ below >= 1 /\ all \in Nat /\ s[L] + Len(explored) <= all
      BY <1>2, <2>1, Powers
    <3>3. L - 1 \in 0 .. L /\ L \in 0 .. L /\ Len(new) = L - 1 /\ t[L - 1] = s[L - 1]
      BY <1>2, <1>3, <2>2
    <3>4. s[L - 1] \in Nat /\ s[L] \in Nat /\ Len(explored) \in Nat
      BY <1>1, <2>1, <3>3, LenProperties
    <3> HIDE DEF below, all
    <3>5. t[L - 1] + Len(explored) <= all
      BY <3>1, <3>2, <3>3, <3>4
    <3> QED  BY <3>3, <3>5 DEF all
  <2> QED  BY <2>2, <2>3, <2>4 DEF DFSBudget
<1> QED  BY <1>1, <1>3, <1>7, <1>8, <1>9, <1>10 DEF DFSState, S, new

\* The other side of the branch that the current call is at cannot be reached.
LEMMA DFSGoesOn ==
  ASSUME NEW p \in ExactPrograms, NEW depth \in Nat, NEW frames, NEW explored,
         DFSState(p, depth, frames, explored), frames # << >>,
         NEW c, c = frames[Len(frames)], c.i <= Len(c.ex.constraints),
         CanSolve(c.ex, c.i) = {}
  PROVE  DFSState(p, depth, Append(Caller(frames), Frame(c.ex, c.i + 1, c.depth)), explored)
<1> DEFINE S   == DFSFrames(p)
           L   == Len(frames)
           d   == Frame(c.ex, c.i + 1, c.depth)
           new == Append(Caller(frames), d)
<1>1. /\ frames \in Seq(S) /\ explored \in Seq(Paths[p]) /\ explored # << >>
      /\ Frontier(DFSNodes(frames), p, explored)
      /\ DFSDepths(depth, frames) /\ DFSCovers(p, depth, frames, explored)
      /\ DFSBudget(depth, frames, explored)
  BY DEF DFSState
<1>2. /\ L \in Nat \ {0} /\ \A n \in 1 .. L : frames[n] \in S
      /\ c.ex \in Runs(p) /\ c.i \in Nat \ {0} /\ c.depth \in Nat
  BY <1>1, DFSCurrent
<1>3. d \in S /\ d.ex = c.ex /\ d.i = c.i + 1 /\ d.depth = c.depth
  BY <1>2 DEF Frame, DFSFrames
<1> HIDE DEF d, S
<1>4. /\ new \in Seq(S) /\ Len(new) = L /\ new[L] = d
      /\ \A n \in 1 .. L - 1 : new[n] = frames[n]
  BY <1>1, <1>3, LastReplaced DEF Caller
<1>5. Len(c.ex.constraints) \in Nat /\ c.i \in 1 .. Len(c.ex.constraints) /\ p \in Program
  BY <1>2, ExactRuns, RunFacts
<1> HIDE DEF L, new
<1>6. c = frames[L]
  BY DEF L
<1>7. \A n \in 1 .. L : new[n] = IF n = L THEN d ELSE frames[n]
  BY <1>2, <1>4
<1>8. /\ DOMAIN DFSNodes(new) = 1 .. L /\ DOMAIN DFSNodes(frames) = 1 .. L
      /\ DFSNodes(new)[L] = [ex |-> c.ex, open |-> c.i + 1 .. Len(c.ex.constraints)]
      /\ DFSNodes(frames)[L] = [ex |-> c.ex, open |-> c.i .. Len(c.ex.constraints)]
      /\ \A n \in 1 .. L : n # L => DFSNodes(new)[n] = DFSNodes(frames)[n]
  BY <1>2, <1>3, <1>4, <1>6, <1>7 DEF DFSNodes, L
<1>9. c.i .. Len(c.ex.constraints) = {c.i} \cup (c.i + 1 .. Len(c.ex.constraints))
  BY <1>5
<1>10. Frontier(DFSNodes(new), p, explored)
  <2> DEFINE h == [n \in 1 .. L |-> n]
  <2>1. /\ \A n \in DOMAIN DFSNodes(new) :
             /\ h[n] \in DOMAIN DFSNodes(frames)
             /\ DFSNodes(new)[n].ex = DFSNodes(frames)[h[n]].ex
             /\ DFSNodes(new)[n].open \subseteq DFSNodes(frames)[h[n]].open
        /\ \A m, n \in DOMAIN DFSNodes(new) : h[m] = h[n] => m = n
    BY <1>8, <1>9
  <2> HIDE DEF h
  <2> QED  BY <1>1, <2>1, ShrinkKeeps
<1>11. DFSDepths(depth, new)
  <2>1. c.i + c.depth >= depth + 1
    BY <1>1, <1>2, <1>6 DEF DFSDepths, L
  <2>2. d.i + d.depth >= depth + 1
    BY <1>2, <1>3, <2>1
  <2> QED  BY <1>1, <1>4, <1>7, <2>2 DEF DFSDepths, L
<1>12. DFSCovers(p, depth, new, explored)
  <2> SUFFICES ASSUME explored # << >>, \A x \in Runs(p) : Len(x.constraints) <= depth
               PROVE  Covers(DFSNodes(new), p, explored)
    BY DEF DFSCovers
  <2>1. ASSUME NEW path \in Paths[p], NEW n \in DOMAIN DFSNodes(frames),
               Ahead(path, DFSNodes(frames)[n])
        PROVE  Ahead(path, DFSNodes(new)[n])
    <3>1. CASE n # L
      BY <1>8, <2>1, <3>1
    <3>2. CASE n = L
      <4>1. Ahead(path, DFSNodes(frames)[L])
        BY <2>1, <3>2
      <4>2. PICK i \in c.i .. Len(c.ex.constraints) : Leaves(path, c.ex, i)
        BY <1>8, <4>1 DEF Ahead
      <4>3. PICK z \in Runs(p) : path = z.branches
        BY <1>5, PathsOfRuns
      <4>4. ~Leaves(path, c.ex, c.i)
        <5> DEFINE x == c.ex
                   k == c.i
        <5>1. x \in Runs(p) /\ k \in 1 .. Len(x.constraints) /\ CanSolve(x, k) = {}
          BY <1>2, <1>5
        <5> HIDE DEF x, k
        <5>2. ~Leaves(path, x, k)
          BY <4>3, <5>1, UnsolvedUnreached
        <5> QED  BY <5>2 DEF x, k
      <4>5. i \in c.i + 1 .. Len(c.ex.constraints)
        BY <1>9, <4>2, <4>4
      <4>6. Ahead(path, DFSNodes(new)[L])
        BY <1>8, <4>2, <4>5 DEF Ahead
      <4> QED  BY <3>2, <4>6
    <3> QED  BY <3>1, <3>2
  <2>2. Covers(DFSNodes(frames), p, explored)
    BY <1>1 DEF DFSCovers
  <2> QED  BY <1>8, <2>1, <2>2, CoversKeeps
<1>13. DFSBudget(depth, new, explored)
  <2>1. \A n \in 1 .. L : new[n].depth = frames[n].depth
    BY <1>3, <1>6, <1>7
  <2> QED  BY <1>1, <1>4, <2>1 DEF DFSBudget, L
<1> QED  BY <1>1, <1>4, <1>10, <1>11, <1>12, <1>13 DEF DFSState, S, new, d

\* The current call forces its branch: the run y is searched by a call of its own.
LEMMA DFSForces ==
  ASSUME NEW p \in ExactPrograms, NEW depth \in Nat, NEW frames, NEW explored,
         DFSState(p, depth, frames, explored), frames # << >>,
         NEW c, c = frames[Len(frames)], c.i <= Len(c.ex.constraints), c.depth > 0,
         NEW y \in Runs(p), Leaves(y.branches, c.ex, c.i)
  PROVE  DFSState(p, depth,
                  Append(Append(Caller(frames), Frame(c.ex, c.i + 1, c.depth - 1)),
                         Frame(y, c.i + 1, c.depth - 1)),
                  Append(explored, y.branches))
<1> DEFINE S   == DFSFrames(p)
           L   == Len(frames)
           d   == Frame(c.ex, c.i + 1, c.depth - 1)
           e   == Frame(y, c.i + 1, c.depth - 1)
           mid == Append(Caller(frames), d)
           new == Append(mid, e)
           ran == Append(explored, y.branches)
<1>1. /\ frames \in Seq(S) /\ explored \in Seq(Paths[p]) /\ explored # << >>
      /\ Frontier(DFSNodes(frames), p, explored)
      /\ DFSDepths(depth, frames) /\ DFSCovers(p, depth, frames, explored)
      /\ DFSBudget(depth, frames, explored)
  BY DEF DFSState
<1>2. /\ L \in Nat \ {0} /\ \A n \in 1 .. L : frames[n] \in S
      /\ c.ex \in Runs(p) /\ c.i \in Nat \ {0} /\ c.depth \in Nat
  BY <1>1, DFSCurrent
<1>3. /\ d \in S /\ d.ex = c.ex /\ d.i = c.i + 1 /\ d.depth = c.depth - 1
      /\ e \in S /\ e.ex = y /\ e.i = c.i + 1 /\ e.depth = c.depth - 1
  BY <1>2 DEF Frame, DFSFrames
<1>4. y.branches \in Paths[p] /\ p \in Program
  BY ExactRuns, PathsOfRuns
<1>5. /\ ran \in Seq(Paths[p]) /\ Len(ran) = Len(explored) + 1 /\ Len(explored) \in Nat
  <2> DEFINE T == Paths[p]
             q == y.branches
  <2>1. explored \in Seq(T) /\ q \in T
    BY <1>1, <1>4
  <2> HIDE DEF T, q
  <2>2. Append(explored, q) \in Seq(T) /\ Len(Append(explored, q)) = Len(explored) + 1
        /\ Len(explored) \in Nat
    BY <2>1, Appended
  <2> QED  BY <2>2 DEF T, q
<1> HIDE DEF d, e, S
<1>6. /\ mid \in Seq(S) /\ Len(mid) = L /\ mid[L] = d
      /\ \A n \in 1 .. L - 1 : mid[n] = frames[n]
  BY <1>1, <1>3, LastReplaced DEF Caller
<1> HIDE DEF mid
<1>7. /\ new \in Seq(S) /\ Len(new) = L + 1 /\ new[L + 1] = e
      /\ \A n \in 1 .. L : new[n] = mid[n]
  BY <1>3, <1>6, Appended
<1>8. /\ Len(c.ex.constraints) \in Nat /\ c.i \in 1 .. Len(c.ex.constraints)
      /\ Len(y.constraints) \in Nat
  BY <1>2, <1>4, RunFacts
<1> HIDE DEF L, new, ran
<1>9. c = frames[L]
  BY DEF L
<1>10. \A n \in 1 .. L + 1 : new[n] = IF n = L + 1 THEN e ELSE IF n = L THEN d ELSE frames[n]
  BY <1>2, <1>6, <1>7
<1>11. c.i + 1 .. Len(y.constraints) = After(y, c.ex.constraints_idx[c.i])
  <2> DEFINE x == c.ex
             i == c.i
  <2>1. x \in Runs(p) /\ i \in 1 .. Len(x.constraints) /\ Leaves(y.branches, x, i)
    BY <1>2, <1>8
  <2> HIDE DEF x, i
  <2>2. \A k \in 1 .. Len(y.constraints) :
          x.constraints_idx[i] < y.constraints_idx[k] <=> i < k
    BY <2>1, BehindTheBranch
  <2>3. After(y, x.constraints_idx[i]) = {k \in 1 .. Len(y.constraints) : i < k}
    BY <2>2 DEF After
  <2>4. i + 1 .. Len(y.constraints) = {k \in 1 .. Len(y.constraints) : i < k}
    BY <1>2, <1>8 DEF i
  <2> QED  BY <2>3, <2>4 DEF x, i
<1>12. (c.i .. Len(c.ex.constraints)) \ {c.i} = c.i + 1 .. Len(c.ex.constraints)
  BY <1>8
<1>13. DFSNodes(new) = Forked(DFSNodes(frames), L, c.i, L + 1, y)
  <2> DEFINE f == DFSNodes(frames)
             g == Forked(f, L, c.i, L + 1, y)
  <2>1. /\ f = [n \in 1 .. L |->
                  [ex |-> frames[n].ex, open |-> frames[n].i .. Len(frames[n].ex.constraints)]]
        /\ L \in DOMAIN f /\ f[L].ex = c.ex /\ f[L].open = c.i .. Len(c.ex.constraints)
    BY <1>2, <1>9 DEF DFSNodes, L
  <2>2. DFSNodes(new) = [n \in 1 .. L + 1 |->
          [ex |-> new[n].ex, open |-> new[n].i .. Len(new[n].ex.constraints)]]
    BY <1>7 DEF DFSNodes
  <2>3. g = [n \in 1 .. L + 1 |->
          IF n = L + 1 THEN [ex |-> y, open |-> c.i + 1 .. Len(y.constraints)]
          ELSE IF n = L THEN [ex |-> c.ex, open |-> c.i + 1 .. Len(c.ex.constraints)]
          ELSE f[n]]
    <3>1. DOMAIN f \cup {L + 1} = 1 .. L + 1
      BY <1>2, <2>1
    <3> HIDE DEF f
    <3> QED  BY <1>11, <1>12, <2>1, <3>1 DEF Forked
  <2>4. ASSUME NEW n \in 1 .. L + 1
        PROVE  [ex |-> new[n].ex, open |-> new[n].i .. Len(new[n].ex.constraints)] =
               IF n = L + 1 THEN [ex |-> y, open |-> c.i + 1 .. Len(y.constraints)]
               ELSE IF n = L THEN [ex |-> c.ex, open |-> c.i + 1 .. Len(c.ex.constraints)]
               ELSE f[n]
    <3>1. CASE n = L + 1
      BY <1>3, <1>10, <3>1
    <3>2. CASE n # L + 1 /\ n = L
      BY <1>3, <1>10, <3>2
    <3>3. CASE n # L + 1 /\ n # L
      <4>1. n \in 1 .. L /\ new[n] = frames[n]
        BY <1>2, <1>10, <3>3
      <4> QED  BY <2>1, <3>3, <4>1
    <3> QED  BY <3>1, <3>2, <3>3
  <2> HIDE DEF f, g
  <2> QED  BY <2>2, <2>3, <2>4 DEF f, g
<1>14. /\ Frontier(DFSNodes(new), p, ran)
       /\ Covers(DFSNodes(frames), p, explored) => Covers(DFSNodes(new), p, ran)
  <2> DEFINE f == DFSNodes(frames)
             i == c.i
             m == L + 1
  <2>1. IsFamily(f, p)
    BY <1>1, DFSFamily DEF S
  <2>2. L \in DOMAIN f /\ i \in f[L].open /\ m \notin DOMAIN f /\ f[L].ex = c.ex
    BY <1>2, <1>8, <1>9 DEF DFSNodes, L
  <2>3. Leaves(y.branches, f[L].ex, i)
    BY <2>2
  <2> HIDE DEF f, i, m
  <2>4. Frontier(f, p, explored) => Frontier(Forked(f, L, i, m, y), p, ran)
    BY <2>1, <2>2, <2>3, ForkKeeps DEF ran
  <2>5. Covers(f, p, explored) => Covers(Forked(f, L, i, m, y), p, ran)
    BY <1>1, <2>1, <2>2, <2>3, ForkKeeps DEF ran
  <2> QED  BY <1>1, <1>13, <2>4, <2>5 DEF f, i, m
<1>15. DFSDepths(depth, new)
  <2>1. c.i + c.depth >= depth + 1
    BY <1>1, <1>2, <1>9 DEF DFSDepths, L
  <2>2. d.i + d.depth >= depth + 1 /\ e.i + e.depth >= depth + 1
    BY <1>2, <1>3, <2>1
  <2>3. ASSUME NEW n \in 1 .. L + 1  PROVE new[n].i + new[n].depth >= depth + 1
    <3>1. CASE n = L + 1
      BY <1>10, <2>2, <3>1
    <3>2. CASE n = L
      BY <1>7, <1>6, <2>2, <3>2
    <3>3. CASE n # L + 1 /\ n # L
      <4>1. n \in 1 .. L /\ new[n] = frames[n]
        BY <1>2, <1>10, <3>3
      <4> QED  BY <1>1, <4>1 DEF DFSDepths, L
    <3> QED  BY <3>1, <3>2, <3>3
  <2> QED  BY <1>7, <2>3 DEF DFSDepths
<1>16. DFSCovers(p, depth, new, ran)
  <2> SUFFICES ASSUME ran # << >>, \A x \in Runs(p) : Len(x.constraints) <= depth
               PROVE  Covers(DFSNodes(new), p, ran)
    BY DEF DFSCovers
  <2> QED  BY <1>1, <1>14 DEF DFSCovers
<1>17. DFSBudget(depth, new, ran)
  <2> DEFINE less == 2 ^ (c.depth - 1)
             all  == 2 ^ depth
  <2>1. /\ less \in Nat /\ less >= 1 /\ 2 ^ c.depth = 2 * less /\ all \in Nat
    <3>1. c.depth - 1 \in Nat /\ (c.depth - 1) + 1 = c.depth
      BY <1>2
    <3> QED  BY <3>1, Powers
  <2>2. PICK s \in [0 .. L -> Nat] :
          /\ s[0] = 0
          /\ \A n \in 1 .. L : s[n] = s[n - 1] + 2 ^ frames[n].depth - 1
          /\ s[L] + Len(explored) <= all
    BY <1>1 DEF DFSBudget, L
  <2>3. d.depth = c.depth - 1 /\ e.depth = c.depth - 1
    BY <1>3
  <2>4. s[L] = s[L - 1] + 2 * less - 1
    <3>1. L \in 1 .. L
      BY <1>2
    <3> QED  BY <1>9, <2>1, <2>2, <3>1
  <2>5. s[L - 1] \in Nat /\ s[L] \in Nat
    BY <1>2, <2>2
  <2> HIDE DEF all
  <2> DEFINE t == [n \in 0 .. L + 1 |->
                    IF n = L + 1 THEN s[L - 1] + (less - 1) + (less - 1)
                    ELSE IF n = L THEN s[L - 1] + (less - 1)
                    ELSE s[n]]
  <2>6. /\ t \in [0 .. Len(new) -> Nat] /\ t[0] = 0
        /\ \A n \in 0 .. L - 1 : t[n] = s[n]
        /\ t[L] = s[L - 1] + (less - 1)
        /\ t[L + 1] = s[L - 1] + (less - 1) + (less - 1)
    <3>1. \A n \in 0 .. L + 1 : n # L + 1 /\ n # L => n \in 0 .. L
      BY <1>2
    <3> HIDE DEF less
    <3>2. \A n \in 0 .. L + 1 : t[n] \in Nat
      <4>1. less - 1 \in Nat /\ s[L - 1] + (less - 1) \in Nat
            /\ s[L - 1] + (less - 1) + (less - 1) \in Nat
        BY <2>1, <2>5
      <4>2. \A n \in 0 .. L : s[n] \in Nat
        BY <2>2
      <4>3. t[L + 1] \in Nat
        BY <1>2, <4>1
      <4>4. L # L + 1 /\ L \in 0 .. L + 1
        BY <1>2
      <4>5. t[L] \in Nat
        BY <4>1, <4>4
      <4>6. ASSUME NEW n \in 0 .. L + 1, n # L + 1, n # L  PROVE t[n] \in Nat
        BY <3>1, <4>2, <4>6
      <4> HIDE DEF t
      <4> QED  BY <4>3, <4>5, <4>6
    <3>3. t \in [0 .. Len(new) -> Nat]
      BY <1>7, <3>2
    <3>4. t[0] = 0
      BY <1>2, <2>2
    <3> QED  BY <1>2, <3>3, <3>4
  <2> HIDE DEF t
  <2>7. ASSUME NEW n \in 1 .. Len(new)  PROVE t[n] = t[n - 1] + 2 ^ new[n].depth - 1
    <3>1. CASE n = L + 1
      <4>1. 2 ^ new[n].depth = less /\ n - 1 = L
        BY <1>2, <1>7, <2>3, <3>1
      <4> HIDE DEF less
      <4> QED  BY <2>1, <2>5, <2>6, <3>1, <4>1
    <3>2. CASE n = L
      <4>1. 2 ^ new[n].depth = less /\ n - 1 \in 0 .. L - 1
        BY <1>2, <1>6, <1>7, <2>3, <3>2
      <4> HIDE DEF less
      <4> QED  BY <2>1, <2>5, <2>6, <3>2, <4>1
    <3>3. CASE n # L + 1 /\ n # L
      <4>1. /\ n \in 1 .. L /\ new[n] = frames[n]
            /\ n \in 0 .. L - 1 /\ n - 1 \in 0 .. L - 1
        BY <1>2, <1>7, <1>10, <3>3
      <4> QED  BY <2>2, <2>6, <4>1
    <3> QED  BY <3>1, <3>2, <3>3
  <2>8. t[Len(new)] + Len(ran) <= all
    <3> HIDE DEF less
    <3>1. s[L] + Len(explored) <= all /\ all \in Nat
      BY <2>1, <2>2 DEF all
    <3>2. t[Len(new)] = s[L - 1] + (less - 1) + (less - 1)
      BY <1>7, <2>6
    <3>3. s[L] = s[L - 1] + 2 * less - 1
      BY <2>4
    <3>4. Len(ran) = Len(explored) + 1 /\ Len(explored) \in Nat /\ less \in Nat
      BY <1>5, <2>1
    <3>5. t[Len(new)] = s[L] - 1
      BY <2>5, <3>2, <3>3, <3>4
    <3> QED  BY <2>5, <3>1, <3>4, <3>5
  <2> QED  BY <2>6, <2>7, <2>8 DEF DFSBudget, all
<1>18. ran # << >>
  BY <1>5, EmptySeq
<1> QED  BY <1>5, <1>7, <1>18, <1>14, <1>15, <1>16, <1>17 DEF DFSState, S, new, mid, ran, d, e
-----------------------------------------------------------------------------
(***************************************************************************)
(* Steps of a search of an exact program.                                  *)
(***************************************************************************)

\* The program, the options and the strategy are as they were.
LEMMA EnvironmentKept ==
  ASSUME Next
  PROVE  program' = program /\ max_depth' = max_depth /\ strategy' = strategy
<1>1. BaseStep /\ strategy' = strategy
  BY NextIsBaseStep DEF AsBase
<1>2. UNCHANGED environment
  BY <1>1 DEF BaseStep, Counted, Uncounted, RunProgram, PrintFinalResult, Quiet, Forgets
<1> QED  BY <1>1, <1>2 DEF environment

\* A run leaves an execution of its own, if the program does not crash.
LEMMA ExactRun ==
  ASSUME Exact, NEW a \in Assign, RunProgram(a)
  PROVE  szd_execution' = Executions[program][a] /\ szd_execution' \in Runs(program)
<1>1. ~Crashes(a)
  BY ExactRuns DEF Exact, Crashes
<1> QED  BY <1>1 DEF RunProgram, Execution, Runs

\* The depth of the search is a natural number.
LEMMA DepthIsNat == TypeOK => max_depth \in Nat
BY SearchAssumption DEF TypeOK, SearchAssumption

DFSLocal(p) == [frames : Seq(DFSFrames(p)), explored : Seq(Paths[p])]

DFSInv ==
  strategy = "-dfs" /\ Exact =>
    /\ local \in DFSLocal(program)
    /\ DFSState(program, max_depth, local.frames, local.explored)

\* The invariant holds before the first run.
LEMMA DFSInvInit == Init => DFSInv
<1> SUFFICES ASSUME Init, strategy = "-dfs", Exact
             PROVE  /\ local \in DFSLocal(program)
                    /\ DFSState(program, max_depth, local.frames, local.explored)
  BY DEF DFSInv
<1>1. local = [frames |-> << >>, explored |-> << >>]
  BY DEF Init, InitStrategy, InitDFS
<1>2. local.frames = << >> /\ local.explored = << >>
  BY <1>1
<1>3. local \in DFSLocal(program)
  BY <1>1, EmptySeq DEF DFSLocal
<1>4. max_depth \in Nat
  BY SearchAssumption DEF Init, InitSearch, SearchAssumption
<1>5. Frontier(DFSNodes(<< >>), program, << >>)
  <2>1. DOMAIN DFSNodes(<< >>) = {}
    BY EmptySeq DEF DFSNodes
  <2>2. << >> \in Seq(Paths[program]) /\ Len(<< >>) = 0
    BY EmptySeq
  <2> QED  BY <2>1, <2>2 DEF Frontier
<1>6. DFSDepths(max_depth, << >>) /\ DFSCovers(program, max_depth, << >>, << >>)
  BY EmptySeq DEF DFSDepths, DFSCovers
<1>7. DFSBudget(max_depth, << >>, << >>)
  <2> DEFINE s == [n \in 0 .. 0 |-> 0]
  <2>1. s \in [0 .. 0 -> Nat] /\ s[0] = 0
    OBVIOUS
  <2>2. 2 ^ max_depth \in Nat
    BY <1>4, Powers
  <2>3. Len(<< >>) = 0 /\ 1 .. 0 = {}
    OBVIOUS
  <2> HIDE DEF s
  <2> QED  BY <2>1, <2>2, <2>3 DEF DFSBudget
<1> QED  BY <1>2, <1>3, <1>5, <1>6, <1>7 DEF DFSState, DFSLocal

\* Every step of the depth-first search keeps it.
LEMMA DFSInvKept ==
  ASSUME TypeOK, DFSInv, Next, strategy = "-dfs", Exact
  PROVE  DFSInv'
<1> DEFINE Goal == /\ local' \in DFSLocal(program)
                   /\ DFSState(program, max_depth, local'.frames, local'.explored)
           c    == local.frames[Len(local.frames)]
<1>1. program' = program /\ max_depth' = max_depth /\ strategy' = strategy
  BY EnvironmentKept
<1> SUFFICES Goal
  BY <1>1 DEF DFSInv, Exact
<1>2. /\ local \in DFSLocal(program)
      /\ DFSState(program, max_depth, local.frames, local.explored)
  BY DEF DFSInv
<1>3. max_depth \in Nat /\ program \in ExactPrograms
  BY DepthIsNat DEF Exact
<1>4. UNCHANGED local => Goal
  BY <1>2
<1>5. ASSUME NEW frames, NEW explored, local' = [frames |-> frames, explored |-> explored],
             DFSState(program, max_depth, frames, explored)
      PROVE  Goal
  BY <1>5 DEF DFSState, DFSLocal
<1>6. local = [frames |-> local.frames, explored |-> local.explored]
  BY <1>2 DEF DFSLocal
<1>7. CASE DFSStart
  <2>1. CASE UNCHANGED local
    BY <1>4, <2>1
  <2>2. CASE ~UNCHANGED local
    <3>1. PICK a \in Assign :
            RunAndCover(a, [frames   |-> << Frame(szd_execution', 1, max_depth) >>,
                            explored |-> << szd_execution'.branches >>])
      BY <1>7, <2>2 DEF DFSStart, Launch, Completions
    <3>2. /\ RunProgram(a)
          /\ local' = [frames   |-> << Frame(szd_execution', 1, max_depth) >>,
                       explored |-> << szd_execution'.branches >>]
      BY <3>1, <2>2 DEF RunAndCover
    <3>3. PICK y \in Runs(program) : szd_execution' = y
      BY <3>2, ExactRun
    <3>4. DFSState(program, max_depth, << Frame(y, 1, max_depth) >>, << y.branches >>)
      BY <1>3, DFSStarts
    <3> QED  BY <1>5, <3>2, <3>3, <3>4
  <2> QED  BY <2>1, <2>2
<1>8. CASE DFSReturn
  <2>1. /\ local.frames # << >>
        /\ ~(c.i <= Len(c.ex.constraints) /\ c.depth > 0)
        /\ local' = [frames |-> Caller(local.frames), explored |-> local.explored]
    BY <1>6, <1>8 DEF DFSReturn, InCall, Looping, Current
  <2>2. DFSState(program, max_depth, Caller(local.frames), local.explored)
    BY <1>2, <1>3, <2>1, DFSReturns
  <2> QED  BY <1>5, <2>1, <2>2
<1>9. CASE DFSUnsolved
  <2>1. /\ local.frames # << >> /\ c.i <= Len(c.ex.constraints)
        /\ CanSolve(c.ex, c.i) = {}
        /\ local' = [frames   |-> Append(Caller(local.frames), Frame(c.ex, c.i + 1, c.depth)),
                     explored |-> local.explored]
    BY <1>6, <1>9 DEF DFSUnsolved, SolveFails, InCall, Looping, Current, Continued
  <2>2. DFSState(program, max_depth, Append(Caller(local.frames), Frame(c.ex, c.i + 1, c.depth)),
                 local.explored)
    <3> HIDE DEF c
    <3> QED  BY <1>2, <1>3, <2>1, DFSGoesOn DEF c
  <2> QED  BY <1>5, <2>1, <2>2
<1>10. CASE DFSForce
  <2>1. /\ local.frames # << >> /\ c.i <= Len(c.ex.constraints) /\ c.depth > 0
    BY <1>10 DEF DFSForce, InCall, Looping, Current
  <2>2. PICK input \in CanSolve(c.ex, c.i) :
          UNCHANGED local \/ \E a \in Completions(input) :
            RunAndCover(a, AfterRun(szd_execution'))
    BY <1>10 DEF DFSForce, Launch, Current
  <2>3. CASE ~UNCHANGED local
    <3>1. PICK a \in Completions(input) : RunAndCover(a, AfterRun(szd_execution'))
      BY <2>2, <2>3
    <3>2. RunProgram(a) /\ local' = AfterRun(szd_execution') /\ a \in Assign
      BY <2>3, <3>1 DEF RunAndCover, Completions
    <3>3. PICK y \in Runs(program) : szd_execution' = y /\ y = Executions[program][a]
      BY <3>2, ExactRun
    <3> DEFINE x == c.ex
               i == c.i
    <3>4. c.ex \in Runs(program) /\ c.i \in 1 .. Len(c.ex.constraints)
      <4>1. c.ex \in Runs(program) /\ c.i \in Nat \ {0}
        <5>1. Len(local.frames) \in 1 .. Len(local.frames)
          BY <1>2, <2>1, DFSCurrent DEF DFSLocal
        <5> QED  BY <1>2, <2>1, <5>1, DFSCurrent DEF DFSLocal
      <4>2. Len(c.ex.constraints) \in Nat
        BY <1>3, <4>1, ExactRuns, RunFacts
      <4> HIDE DEF c
      <4> QED  BY <2>1, <4>1, <4>2
    <3>5. Leaves(y.branches, x, i)
      <4>1. x \in Runs(program) /\ i \in 1 .. Len(x.constraints)
            /\ input \in CanSolve(x, i)
        BY <3>4
      <4> HIDE DEF x, i
      <4> QED  BY <1>3, <3>3, <4>1, SolvedLeaves
    <3>6. local' = [frames   |-> Append(Append(Caller(local.frames), Frame(x, i + 1, c.depth - 1)),
                                       Frame(y, i + 1, c.depth - 1)),
                    explored |-> Append(local.explored, y.branches)]
      <4>1. Predicted(x, y, i)
        BY <3>5, PredictedLeaves
      <4>2. Current = c
        BY DEF Current
      <4> HIDE DEF c
      <4> QED  BY <3>2, <3>3, <4>1, <4>2 DEF AfterRun, Continued
    <3>7. DFSState(program, max_depth,
                   Append(Append(Caller(local.frames), Frame(x, i + 1, c.depth - 1)),
                          Frame(y, i + 1, c.depth - 1)),
                   Append(local.explored, y.branches))
      <4> HIDE DEF c
      <4> QED  BY <1>2, <1>3, <2>1, <3>3, <3>5, DFSForces DEF c
    <3> QED  BY <1>5, <3>6, <3>7
  <2> QED  BY <1>4, <2>3
<1>11. NextDFS
  BY DEF Next, NextStrategy
<1> HIDE DEF Goal
<1> QED  BY <1>7, <1>8, <1>9, <1>10, <1>11 DEF NextDFS
-----------------------------------------------------------------------------
(***************************************************************************)
(* The generational search: its targets are nodes, numbered from 1, and so *)
(* is the one it expands, with the number 0.                               *)
(***************************************************************************)
GenNode(t) == [ex |-> t.ex, open |-> t.cidx .. Len(t.ex.constraints)]

GenNumbers(targets, target) == (1 .. Len(targets)) \cup (IF target = << >> THEN {} ELSE {0})

GenNodes(targets, target) ==
  [n \in GenNumbers(targets, target) |-> GenNode(IF n = 0 THEN target[1] ELSE targets[n])]

GenTargets(p) == [ex : Runs(p), cidx : Nat \ {0}, score : Nat]

GenState(p, targets, target, explored) ==
  /\ targets \in Seq(GenTargets(p)) /\ explored \in Seq(Paths[p])
  /\ target = << >> \/ \E t \in GenTargets(p) : target = << t >>
  /\ explored = << >> => targets = << >> /\ target = << >>
  /\ Frontier(GenNodes(targets, target), p, explored)
  /\ explored # << >> => Covers(GenNodes(targets, target), p, explored)

\* The search starts with a target for the first run.
LEMMA GenStarts ==
  ASSUME NEW p \in ExactPrograms, NEW y \in Runs(p)
  PROVE  GenState(p, << GenTarget(y, 1, 0) >>, << >>, << y.branches >>)
<1> DEFINE targets  == << GenTarget(y, 1, 0) >>
           explored == << y.branches >>
           f        == GenNodes(targets, << >>)
<1>1. p \in Program /\ y.branches \in Paths[p]
  BY ExactRuns, PathsOfRuns
<1>2. GenTarget(y, 1, 0) \in GenTargets(p)
  BY DEF GenTarget, GenTargets
<1>3. targets \in Seq(GenTargets(p)) /\ Len(targets) = 1 /\ targets[1] = GenTarget(y, 1, 0)
  BY <1>2, Alone
<1>4. explored \in Seq(Paths[p]) /\ Len(explored) = 1
  BY <1>1, Alone
<1>5. DOMAIN f = {1} /\ f[1].ex = y /\ f[1].open = 1 .. Len(y.constraints)
  <2> HIDE DEF targets
  <2>1. 1 .. Len(targets) = {1} /\ GenNumbers(targets, << >>) = {1}
    BY <1>3 DEF GenNumbers
  <2> QED  BY <1>3, <2>1 DEF GenNodes, GenNode, GenTarget
<1>6. Frontier(f, p, explored) /\ Covers(f, p, explored)
  <2> HIDE DEF f
  <2> QED  BY <1>5, RootKeeps
<1>7. explored # << >>
  BY <1>4
<1> HIDE DEF explored, targets
<1>8. GenState(p, targets, << >>, explored)
  BY <1>3, <1>4, <1>6, <1>7 DEF GenState
<1> QED  BY <1>8 DEF targets, explored

\* What is known of the target that is expanded.
LEMMA GenCurrent ==
  ASSUME NEW p \in ExactPrograms, NEW targets, NEW target, NEW explored,
         GenState(p, targets, target, explored), target # << >>
  PROVE  /\ target = << target[1] >> /\ target[1] \in GenTargets(p)
         /\ target[1].ex \in Runs(p) /\ target[1].cidx \in Nat \ {0} /\ target[1].score \in Nat
         /\ Len(target[1].ex.constraints) \in Nat
         /\ explored # << >>
         /\ Len(targets) \in Nat
         /\ GenNumbers(targets, target) = 0 .. Len(targets)
<1>1. PICK t \in GenTargets(p) : target = << t >>
  BY DEF GenState
<1>2. target[1] = t
  BY <1>1
<1>3. t.ex \in Runs(p) /\ t.cidx \in Nat \ {0} /\ t.score \in Nat
  BY DEF GenTargets
<1>4. Len(t.ex.constraints) \in Nat
  BY <1>3, ExactRuns, RunFacts
<1>5. Len(targets) \in Nat
  BY LenProperties DEF GenState
<1>6. GenNumbers(targets, target) = 0 .. Len(targets)
  BY <1>5 DEF GenNumbers
<1>7. explored # << >>
  BY DEF GenState
<1> QED  BY <1>1, <1>2, <1>3, <1>4, <1>5, <1>6, <1>7

\* One of the targets is expanded.
LEMMA GenPicks ==
  ASSUME NEW p \in ExactPrograms, NEW targets, NEW explored,
         GenState(p, targets, << >>, explored), NEW k \in 1 .. Len(targets)
  PROVE  GenState(p, SubSeq(targets, 1, k - 1) \o SubSeq(targets, k + 1, Len(targets)),
                  << targets[k] >>, explored)
<1> DEFINE S   == GenTargets(p)
           L   == Len(targets)
           s1  == SubSeq(targets, 1, k - 1)
           s2  == SubSeq(targets, k + 1, L)
           new == s1 \o s2
           one == << targets[k] >>
           f   == GenNodes(targets, << >>)
           g   == GenNodes(new, one)
<1>1. /\ targets \in Seq(S) /\ explored \in Seq(Paths[p])
      /\ explored = << >> => targets = << >>
      /\ Frontier(f, p, explored)
      /\ explored # << >> => Covers(f, p, explored)
  BY DEF GenState
<1>2. L \in Nat /\ k \in Nat /\ k >= 1 /\ k <= L /\ \A n \in 1 .. L : targets[n] \in S
  BY <1>1, LenProperties, ElementOfSeq
<1> HIDE DEF S, L, f, g
<1>3. /\ s1 \in Seq(S) /\ Len(s1) = k - 1 /\ \A n \in 1 .. k - 1 : s1[n] = targets[n]
  <2>1. k - 1 \in Int /\ 1 \in Int /\ \A n \in 1 .. k - 1 : targets[n] \in S
    BY <1>2
  <2>2. /\ s1 \in Seq(S)
        /\ Len(s1) = IF 1 <= k - 1 THEN (k - 1) - 1 + 1 ELSE 0
        /\ \A n \in 1 .. (k - 1) - 1 + 1 : s1[n] = targets[1 + n - 1]
    BY <2>1, SubSeqProperties
  <2> HIDE DEF s1
  <2> QED  BY <1>2, <2>2
<1>4. /\ s2 \in Seq(S) /\ Len(s2) = L - k /\ \A n \in 1 .. L - k : s2[n] = targets[n + k]
  <2>1. k + 1 \in Int /\ L \in Int /\ \A n \in k + 1 .. L : targets[n] \in S
    BY <1>2
  <2>2. /\ s2 \in Seq(S)
        /\ Len(s2) = IF k + 1 <= L THEN L - (k + 1) + 1 ELSE 0
        /\ \A n \in 1 .. L - (k + 1) + 1 : s2[n] = targets[(k + 1) + n - 1]
    BY <2>1, SubSeqProperties
  <2> HIDE DEF s2
  <2> QED  BY <1>2, <2>2
<1> HIDE DEF s1, s2
<1>5. /\ new \in Seq(S) /\ Len(new) = L - 1
      /\ \A n \in 1 .. L - 1 : new[n] = targets[IF n < k THEN n ELSE n + 1]
  <2>1. /\ new \in Seq(S) /\ Len(new) = Len(s1) + Len(s2)
        /\ \A n \in 1 .. Len(s1) + Len(s2) :
             new[n] = IF n <= Len(s1) THEN s1[n] ELSE s2[n - Len(s1)]
    BY <1>3, <1>4, ConcatProperties
  <2> HIDE DEF new
  <2>2. Len(new) = L - 1
    BY <1>2, <1>3, <1>4, <2>1
  <2>3. ASSUME NEW n \in 1 .. L - 1  PROVE new[n] = targets[IF n < k THEN n ELSE n + 1]
    <3>1. n \in 1 .. Len(s1) + Len(s2)
      BY <1>2, <1>3, <1>4
    <3>2. CASE n < k
      BY <1>2, <1>3, <2>1, <3>1, <3>2
    <3>3. CASE ~(n < k)
      <4>1. n - (k - 1) \in 1 .. L - k /\ (n - (k - 1)) + k = n + 1 /\ ~(n <= k - 1)
        BY <1>2, <3>3
      <4>2. new[n] = s2[n - (k - 1)]
        BY <1>3, <2>1, <3>1, <4>1
      <4> QED  BY <1>4, <3>3, <4>1, <4>2
    <3> QED  BY <3>2, <3>3
  <2> QED  BY <2>1, <2>2, <2>3
<1>6. one # << >> /\ one[1] = targets[k] /\ targets[k] \in S
  BY <1>2
<1> HIDE DEF new, one
<1>7. DOMAIN f = 1 .. L /\ \A n \in 1 .. L : f[n] = GenNode(targets[n])
  <2>1. GenNumbers(targets, << >>) = 1 .. L
    BY DEF GenNumbers, L
  <2> QED  BY <1>2, <2>1 DEF GenNodes, f
<1>8. DOMAIN g = 0 .. L - 1 /\ \A n \in 0 .. L - 1 :
        g[n] = f[IF n = 0 THEN k ELSE IF n < k THEN n ELSE n + 1]
  <2>1. GenNumbers(new, one) = 0 .. L - 1
    BY <1>2, <1>5, <1>6 DEF GenNumbers
  <2>2. DOMAIN g = 0 .. L - 1 /\ \A n \in 0 .. L - 1 :
          g[n] = GenNode(IF n = 0 THEN one[1] ELSE new[n])
    BY <2>1 DEF GenNodes, g
  <2>3. ASSUME NEW n \in 0 .. L - 1
        PROVE  g[n] = f[IF n = 0 THEN k ELSE IF n < k THEN n ELSE n + 1]
    <3>1. CASE n = 0
      <4>1. g[0] = GenNode(targets[k]) /\ f[k] = GenNode(targets[k])
        BY <1>2, <1>6, <1>7, <2>2, <3>1
      <4> QED  BY <3>1, <4>1
    <3>2. CASE n # 0 /\ n < k
      <4>1. n \in 1 .. L - 1 /\ n \in 1 .. L
        BY <1>2, <3>2
      <4>2. g[n] = GenNode(targets[n]) /\ f[n] = GenNode(targets[n])
        BY <1>5, <1>7, <2>2, <3>2, <4>1
      <4> QED  BY <3>2, <4>2
    <3>3. CASE n # 0 /\ ~(n < k)
      <4>1. n \in 1 .. L - 1 /\ n + 1 \in 1 .. L
        BY <1>2, <3>3
      <4>2. g[n] = GenNode(targets[n + 1]) /\ f[n + 1] = GenNode(targets[n + 1])
        BY <1>5, <1>7, <2>2, <3>3, <4>1
      <4> QED  BY <3>3, <4>2
    <3> QED  BY <3>1, <3>2, <3>3
  <2> QED  BY <2>2, <2>3
<1>9. Frontier(g, p, explored)
  <2> DEFINE h == [n \in 0 .. L - 1 |-> IF n = 0 THEN k ELSE IF n < k THEN n ELSE n + 1]
  <2>1. \A n \in 0 .. L - 1 : h[n] \in 1 .. L /\ g[n] = f[h[n]]
    <3>1. \A n \in 0 .. L - 1 : (IF n = 0 THEN k ELSE IF n < k THEN n ELSE n + 1) \in 1 .. L
      BY <1>2
    <3> QED  BY <1>8, <3>1
  <2>2. \A m, n \in 0 .. L - 1 : h[m] = h[n] => m = n
    BY <1>2
  <2> HIDE DEF h
  <2>3. /\ \A n \in DOMAIN g : /\ h[n] \in DOMAIN f
                              /\ g[n].ex = f[h[n]].ex /\ g[n].open \subseteq f[h[n]].open
        /\ \A m, n \in DOMAIN g : h[m] = h[n] => m = n
    BY <1>7, <1>8, <2>1, <2>2
  <2> QED  BY <1>1, <2>3, ShrinkKeeps
<1>10. ASSUME explored # << >>  PROVE Covers(g, p, explored)
  <2>1. \A n \in 1 .. L : \E m \in 0 .. L - 1 : g[m] = f[n]
    <3> SUFFICES ASSUME NEW n \in 1 .. L  PROVE \E m \in 0 .. L - 1 : g[m] = f[n]
      OBVIOUS
    <3> DEFINE m == IF n = k THEN 0 ELSE IF n < k THEN n ELSE n - 1
    <3>1. m \in 0 .. L - 1 /\ n = IF m = 0 THEN k ELSE IF m < k THEN m ELSE m + 1
      BY <1>2
    <3> QED  BY <1>8, <3>1
  <2> QED  BY <1>1, <1>7, <1>8, <1>10, <2>1, CoversKeeps
<1>11. explored # << >>
  BY <1>1, <1>2 DEF L
<1>12. GenState(p, new, one, explored)
  BY <1>1, <1>5, <1>6, <1>9, <1>10, <1>11 DEF GenState, S, g, one
<1> QED  BY <1>12 DEF new, one, s1, s2, L

\* The target has no more constraints.
LEMMA GenFinishes ==
  ASSUME NEW p \in ExactPrograms, NEW targets, NEW target, NEW explored,
         GenState(p, targets, target, explored), target # << >>,
         ~(target[1].cidx <= Len(target[1].ex.constraints))
  PROVE  GenState(p, targets, << >>, explored)
<1> DEFINE t == target[1]
           L == Len(targets)
           f == GenNodes(targets, target)
           g == GenNodes(targets, << >>)
<1>1. /\ t.cidx \in Nat \ {0} /\ Len(t.ex.constraints) \in Nat /\ explored # << >>
      /\ L \in Nat /\ GenNumbers(targets, target) = 0 .. L
  BY GenCurrent
<1>2. /\ targets \in Seq(GenTargets(p)) /\ explored \in Seq(Paths[p])
      /\ Frontier(f, p, explored) /\ Covers(f, p, explored)
  BY <1>1 DEF GenState
<1>3. t.cidx .. Len(t.ex.constraints) = {}
  BY <1>1
<1>4. GenNumbers(targets, << >>) = 1 .. L
  BY DEF GenNumbers
<1>5. /\ DOMAIN f = 0 .. L /\ DOMAIN g = 1 .. L /\ f[0].open = {}
      /\ \A n \in 1 .. L : n \in 0 .. L /\ g[n] = f[n]
  BY <1>1, <1>3, <1>4 DEF GenNodes, GenNode
<1> HIDE DEF f, g, L, t
<1>6. Frontier(g, p, explored)
  <2> DEFINE h == [n \in 1 .. L |-> n]
  <2>1. /\ \A n \in DOMAIN g : /\ h[n] \in DOMAIN f
                              /\ g[n].ex = f[h[n]].ex /\ g[n].open \subseteq f[h[n]].open
        /\ \A m, n \in DOMAIN g : h[m] = h[n] => m = n
    BY <1>5
  <2> HIDE DEF h
  <2> QED  BY <1>2, <2>1, ShrinkKeeps
<1>7. Covers(g, p, explored)
  <2>1. ASSUME NEW path, NEW n \in DOMAIN f, Ahead(path, f[n])
        PROVE  n \in DOMAIN g /\ Ahead(path, g[n])
    <3>1. n # 0
      BY <1>5, <2>1 DEF Ahead
    <3>2. n \in 1 .. L
      BY <1>1, <1>5, <3>1
    <3> QED  BY <1>5, <2>1, <3>2
  <2> QED  BY <1>2, <2>1, CoversKeeps
<1> QED  BY <1>1, <1>2, <1>6, <1>7 DEF GenState, g

\* The other side of the branch that the target is at cannot be reached.
LEMMA GenGoesOn ==
  ASSUME NEW p \in ExactPrograms, NEW targets, NEW target, NEW explored,
         GenState(p, targets, target, explored), target # << >>,
         NEW t, t = target[1], t.cidx <= Len(t.ex.constraints), CanSolve(t.ex, t.cidx) = {}
  PROVE  GenState(p, targets, << [t EXCEPT !.cidx = @ + 1] >>, explored)
<1> DEFINE L   == Len(targets)
           u   == [t EXCEPT !.cidx = @ + 1]
           new == << u >>
           f   == GenNodes(targets, target)
           g   == GenNodes(targets, new)
<1>1. /\ t \in GenTargets(p) /\ t.ex \in Runs(p) /\ t.cidx \in Nat \ {0}
      /\ Len(t.ex.constraints) \in Nat /\ explored # << >>
      /\ L \in Nat /\ GenNumbers(targets, target) = 0 .. L /\ p \in Program
  BY GenCurrent, ExactRuns
<1>2. /\ targets \in Seq(GenTargets(p)) /\ explored \in Seq(Paths[p])
      /\ Frontier(f, p, explored) /\ Covers(f, p, explored)
  BY <1>1 DEF GenState
<1>3. u \in GenTargets(p) /\ u.ex = t.ex /\ u.cidx = t.cidx + 1
  BY <1>1 DEF GenTargets
<1> HIDE DEF u
<1>4. new # << >> /\ new[1] = u
  OBVIOUS
<1> HIDE DEF new
<1>5. GenNumbers(targets, new) = 0 .. L
  BY <1>1, <1>4 DEF GenNumbers
<1>6. /\ DOMAIN f = 0 .. L /\ DOMAIN g = 0 .. L /\ 0 \in 0 .. L
      /\ f[0] = [ex |-> t.ex, open |-> t.cidx .. Len(t.ex.constraints)]
      /\ g[0] = [ex |-> t.ex, open |-> t.cidx + 1 .. Len(t.ex.constraints)]
      /\ \A n \in 0 .. L : n # 0 => g[n] = f[n]
  BY <1>1, <1>3, <1>4, <1>5 DEF GenNodes, GenNode
<1>7. t.cidx .. Len(t.ex.constraints) = {t.cidx} \cup (t.cidx + 1 .. Len(t.ex.constraints))
      /\ t.cidx \in 1 .. Len(t.ex.constraints)
  BY <1>1
<1> HIDE DEF f, g, L
<1>8. Frontier(g, p, explored)
  <2> DEFINE h == [n \in 0 .. L |-> n]
  <2>1. /\ \A n \in DOMAIN g : /\ h[n] \in DOMAIN f
                              /\ g[n].ex = f[h[n]].ex /\ g[n].open \subseteq f[h[n]].open
        /\ \A m, n \in DOMAIN g : h[m] = h[n] => m = n
    BY <1>6, <1>7
  <2> HIDE DEF h
  <2> QED  BY <1>2, <2>1, ShrinkKeeps
<1>9. Covers(g, p, explored)
  <2>1. ASSUME NEW path \in Paths[p], NEW n \in DOMAIN f, Ahead(path, f[n])
        PROVE  Ahead(path, g[n])
    <3>1. CASE n # 0
      BY <1>6, <2>1, <3>1
    <3>2. CASE n = 0
      <4>1. Ahead(path, f[0])
        BY <2>1, <3>2
      <4>2. PICK i \in t.cidx .. Len(t.ex.constraints) : Leaves(path, t.ex, i)
        BY <1>6, <4>1 DEF Ahead
      <4>3. PICK z \in Runs(p) : path = z.branches
        BY <1>1, PathsOfRuns
      <4>4. ~Leaves(path, t.ex, t.cidx)
        <5> DEFINE x == t.ex
                   k == t.cidx
        <5>1. x \in Runs(p) /\ k \in 1 .. Len(x.constraints) /\ CanSolve(x, k) = {}
          BY <1>1, <1>7
        <5> HIDE DEF x, k
        <5>2. ~Leaves(path, x, k)
          BY <4>3, <5>1, UnsolvedUnreached
        <5> QED  BY <5>2 DEF x, k
      <4>5. i \in t.cidx + 1 .. Len(t.ex.constraints)
        BY <1>7, <4>2, <4>4
      <4>6. Ahead(path, g[0])
        BY <1>6, <4>2, <4>5 DEF Ahead
      <4> QED  BY <3>2, <4>6
    <3> QED  BY <3>1, <3>2
  <2> QED  BY <1>2, <1>6, <2>1, CoversKeeps
<1> QED  BY <1>1, <1>2, <1>3, <1>8, <1>9 DEF GenState, g, new, u

\* The branch that the target is at is forced: the run y is a target.
LEMMA GenForces ==
  ASSUME NEW p \in ExactPrograms, NEW targets, NEW target, NEW explored,
         GenState(p, targets, target, explored), target # << >>,
         NEW t, t = target[1], t.cidx <= Len(t.ex.constraints),
         NEW y \in Runs(p), Leaves(y.branches, t.ex, t.cidx), NEW score \in Nat
  PROVE  GenState(p, Append(targets, GenTarget(y, t.cidx + 1, score)),
                  << [t EXCEPT !.cidx = @ + 1] >>, Append(explored, y.branches))
<1> DEFINE S    == GenTargets(p)
           L    == Len(targets)
           i    == t.cidx
           u    == [t EXCEPT !.cidx = @ + 1]
           e    == GenTarget(y, i + 1, score)
           more == Append(targets, e)
           new  == << u >>
           ran  == Append(explored, y.branches)
           f    == GenNodes(targets, target)
           g    == GenNodes(more, new)
<1>1. /\ t \in S /\ t.ex \in Runs(p) /\ i \in Nat \ {0}
      /\ Len(t.ex.constraints) \in Nat /\ explored # << >>
      /\ L \in Nat /\ GenNumbers(targets, target) = 0 .. L /\ p \in Program
  BY GenCurrent, ExactRuns
<1>2. /\ targets \in Seq(S) /\ explored \in Seq(Paths[p])
      /\ Frontier(f, p, explored) /\ Covers(f, p, explored)
  BY <1>1 DEF GenState
<1>3. /\ u \in S /\ u.ex = t.ex /\ u.cidx = i + 1
      /\ e \in S /\ e.ex = y /\ e.cidx = i + 1
  BY <1>1 DEF GenTargets, GenTarget
<1>4. y.branches \in Paths[p] /\ Len(y.constraints) \in Nat /\ i \in 1 .. Len(t.ex.constraints)
  BY <1>1, PathsOfRuns, RunFacts
<1> HIDE DEF u, e, S
<1>5. ran \in Seq(Paths[p]) /\ ran # << >>
  <2> DEFINE T == Paths[p]
             q == y.branches
  <2>1. explored \in Seq(T) /\ q \in T
    BY <1>2, <1>4
  <2> HIDE DEF T, q
  <2>2. /\ Append(explored, q) \in Seq(T) /\ Len(Append(explored, q)) = Len(explored) + 1
        /\ Len(explored) \in Nat
    BY <2>1, Appended
  <2>3. Append(explored, q) # << >>
    BY <2>2, EmptySeq
  <2> QED  BY <2>2, <2>3 DEF T, q
<1>6. /\ more \in Seq(S) /\ Len(more) = L + 1 /\ more[L + 1] = e
      /\ \A n \in 1 .. L : more[n] = targets[n]
  BY <1>2, <1>3, Appended
<1>7. new # << >> /\ new[1] = u
  OBVIOUS
<1> HIDE DEF new, more, ran
<1>8. GenNumbers(more, new) = 0 .. L + 1
  BY <1>1, <1>6, <1>7 DEF GenNumbers
<1>9. /\ DOMAIN f = 0 .. L /\ \A n \in 0 .. L : f[n] = GenNode(IF n = 0 THEN t ELSE targets[n])
  BY <1>1 DEF GenNodes
<1>10. /\ DOMAIN g = 0 .. L + 1
       /\ \A n \in 0 .. L + 1 : g[n] = GenNode(IF n = 0 THEN u ELSE more[n])
  BY <1>7, <1>8 DEF GenNodes
<1> HIDE DEF f, L
<1>11. i + 1 .. Len(y.constraints) = After(y, t.ex.constraints_idx[i])
  <2> DEFINE x == t.ex
  <2>1. x \in Runs(p) /\ i \in 1 .. Len(x.constraints) /\ Leaves(y.branches, x, i)
    BY <1>1, <1>4
  <2> HIDE DEF x, i
  <2>2. \A k \in 1 .. Len(y.constraints) :
          x.constraints_idx[i] < y.constraints_idx[k] <=> i < k
    BY <2>1, BehindTheBranch
  <2>3. After(y, x.constraints_idx[i]) = {k \in 1 .. Len(y.constraints) : i < k}
    BY <2>2 DEF After
  <2>4. i + 1 .. Len(y.constraints) = {k \in 1 .. Len(y.constraints) : i < k}
    BY <1>1, <1>4
  <2> QED  BY <2>3, <2>4 DEF x
<1>12. (i .. Len(t.ex.constraints)) \ {i} = i + 1 .. Len(t.ex.constraints)
  BY <1>4
<1>13. /\ 0 \in DOMAIN f /\ i \in f[0].open /\ f[0].ex = t.ex
       /\ f[0].open = i .. Len(t.ex.constraints) /\ L + 1 \notin DOMAIN f
  BY <1>1, <1>4, <1>9 DEF GenNode
<1>14. g = Forked(f, 0, i, L + 1, y)
  <2>1. DOMAIN f \cup {L + 1} = 0 .. L + 1
    BY <1>1, <1>9
  <2>2. Forked(f, 0, i, L + 1, y) = [n \in 0 .. L + 1 |->
          IF n = L + 1 THEN [ex |-> y, open |-> i + 1 .. Len(y.constraints)]
          ELSE IF n = 0 THEN [ex |-> t.ex, open |-> i + 1 .. Len(t.ex.constraints)]
          ELSE f[n]]
    BY <1>11, <1>12, <1>13, <2>1 DEF Forked
  <2>3. ASSUME NEW n \in 0 .. L + 1
        PROVE  GenNode(IF n = 0 THEN u ELSE more[n]) =
                 IF n = L + 1 THEN [ex |-> y, open |-> i + 1 .. Len(y.constraints)]
                 ELSE IF n = 0 THEN [ex |-> t.ex, open |-> i + 1 .. Len(t.ex.constraints)]
                 ELSE f[n]
    <3>1. CASE n = L + 1
      <4>1. n # 0 /\ more[n] = e
        BY <1>1, <1>6, <3>1
      <4> QED  BY <1>3, <3>1, <4>1 DEF GenNode
    <3>2. CASE n # L + 1 /\ n = 0
      BY <1>3, <3>2 DEF GenNode
    <3>3. CASE n # L + 1 /\ n # 0
      <4>1. n \in 1 .. L /\ n \in 0 .. L
        BY <1>1, <3>3
      <4> QED  BY <1>6, <1>9, <3>3, <4>1
    <3> QED  BY <3>1, <3>2, <3>3
  <2>4. g = [n \in 0 .. L + 1 |-> GenNode(IF n = 0 THEN u ELSE more[n])]
    BY <1>7, <1>8 DEF GenNodes
  <2> HIDE DEF g
  <2> QED  BY <2>2, <2>3, <2>4
<1>15. Frontier(g, p, ran) /\ Covers(g, p, ran)
  <2> DEFINE m == L + 1
             r == 0
  <2>1. IsFamily(f, p)
    <3>1. \A n \in 1 .. L : targets[n] \in S
      BY <1>2, ElementOfSeq DEF L
    <3>2. \A n \in 0 .. L : (IF n = 0 THEN t ELSE targets[n]) \in S
      BY <1>1, <3>1
    <3>3. ASSUME NEW v \in S
          PROVE  GenNode(v).ex \in Runs(p) /\ GenNode(v).open \subseteq 1 .. Len(GenNode(v).ex.constraints)
      <4>1. v.ex \in Runs(p) /\ v.cidx \in Nat \ {0}
        BY DEF S, GenTargets
      <4> QED  BY <4>1 DEF GenNode
    <3> QED  BY <1>9, <3>2, <3>3 DEF IsFamily
  <2>2. Leaves(y.branches, f[r].ex, i)
    BY <1>13
  <2> HIDE DEF r, m, g
  <2>3. Frontier(Forked(f, r, i, m, y), p, ran) /\ Covers(Forked(f, r, i, m, y), p, ran)
    <3>1. r \in DOMAIN f /\ i \in f[r].open /\ m \notin DOMAIN f
      BY <1>13 DEF r, m
    <3> HIDE DEF i
    <3>2. Frontier(f, p, explored) => Frontier(Forked(f, r, i, m, y), p, ran)
      BY <2>1, <2>2, <3>1, ForkKeeps DEF ran
    <3>3. Covers(f, p, explored) => Covers(Forked(f, r, i, m, y), p, ran)
      BY <1>2, <2>1, <2>2, <3>1, ForkKeeps DEF ran
    <3> QED  BY <1>2, <3>2, <3>3
  <2> QED  BY <1>14, <2>3 DEF r, m
<1>16. \E v \in S : new = << v >>
  BY <1>3 DEF new
<1>17. GenState(p, more, new, ran)
  BY <1>5, <1>6, <1>15, <1>16 DEF GenState, S
<1> QED  BY <1>17 DEF more, new, ran, e, u

GenLocal(p) ==
  [targets : Seq(GenTargets(p)), target : Seq(GenTargets(p)), explored : Seq(Paths[p])]

GenInv ==
  strategy = "-generational" /\ Exact =>
    /\ local \in GenLocal(program)
    /\ GenState(program, local.targets, local.target, local.explored)

\* The invariant holds before the first run.
LEMMA GenInvInit == Init => GenInv
<1> SUFFICES ASSUME Init, strategy = "-generational", Exact
             PROVE  /\ local \in GenLocal(program)
                    /\ GenState(program, local.targets, local.target, local.explored)
  BY DEF GenInv
<1>1. local = [targets |-> << >>, target |-> << >>, explored |-> << >>]
  BY DEF Init, InitStrategy, InitGenerational
<1>2. local.targets = << >> /\ local.target = << >> /\ local.explored = << >>
  BY <1>1
<1>3. local \in GenLocal(program)
  BY <1>1, EmptySeq DEF GenLocal
<1>4. Frontier(GenNodes(<< >>, << >>), program, << >>)
  <2>1. DOMAIN GenNodes(<< >>, << >>) = {}
    <3>1. Len(<< >>) = 0 /\ 1 .. 0 = {}
      OBVIOUS
    <3> QED  BY <3>1 DEF GenNodes, GenNumbers
  <2>2. << >> \in Seq(Paths[program]) /\ Len(<< >>) = 0
    BY EmptySeq
  <2> QED  BY <2>1, <2>2 DEF Frontier
<1> QED  BY <1>2, <1>3, <1>4 DEF GenState, GenLocal

\* Every step of the generational search keeps it.
LEMMA GenInvKept ==
  ASSUME TypeOK, GenInv, Next, strategy = "-generational", Exact
  PROVE  GenInv'
<1> DEFINE Goal == /\ local' \in GenLocal(program)
                   /\ GenState(program, local'.targets, local'.target, local'.explored)
           t    == local.target[1]
<1>1. program' = program /\ max_depth' = max_depth /\ strategy' = strategy
  BY EnvironmentKept
<1> SUFFICES Goal
  BY <1>1 DEF GenInv, Exact
<1>2. /\ local \in GenLocal(program)
      /\ GenState(program, local.targets, local.target, local.explored)
  BY DEF GenInv
<1>3. program \in ExactPrograms
  BY DEF Exact
<1>4. UNCHANGED local => Goal
  BY <1>2
<1>5. ASSUME NEW targets, NEW target, NEW explored,
             local' = [targets |-> targets, target |-> target, explored |-> explored],
             GenState(program, targets, target, explored)
      PROVE  Goal
  <2>1. target \in Seq(GenTargets(program))
    <3>1. CASE target = << >>
      BY <3>1, EmptySeq
    <3>2. CASE target # << >>
      <4>1. PICK v \in GenTargets(program) : target = << v >>
        BY <1>5, <3>2 DEF GenState
      <4> QED  BY <4>1, Alone
    <3> QED  BY <3>1, <3>2
  <2> QED  BY <1>5, <2>1 DEF GenState, GenLocal
<1>6. local = [targets |-> local.targets, target |-> local.target, explored |-> local.explored]
  BY <1>2 DEF GenLocal
<1>7. CASE GenStart
  <2>1. CASE UNCHANGED local
    BY <1>4, <2>1
  <2>2. CASE ~UNCHANGED local
    <3>1. PICK a \in Assign :
            RunAndCover(a, [targets  |-> << GenTarget(szd_execution', 1, 0) >>,
                            target   |-> << >>,
                            explored |-> << szd_execution'.branches >>])
      BY <1>7, <2>2 DEF GenStart, Launch, Completions
    <3>2. /\ RunProgram(a)
          /\ local' = [targets  |-> << GenTarget(szd_execution', 1, 0) >>,
                       target   |-> << >>,
                       explored |-> << szd_execution'.branches >>]
      BY <3>1, <2>2 DEF RunAndCover
    <3>3. PICK y \in Runs(program) : szd_execution' = y
      BY <3>2, ExactRun
    <3>4. GenState(program, << GenTarget(y, 1, 0) >>, << >>, << y.branches >>)
      BY <1>3, GenStarts
    <3> QED  BY <1>5, <3>2, <3>3, <3>4
  <2> QED  BY <2>1, <2>2
<1>8. ASSUME NEW k \in 1 .. Len(local.targets), GenPick(k)  PROVE Goal
  <2> DEFINE s == local.targets
  <2>1. /\ local.target = << >>
        /\ local' = [targets  |-> SubSeq(s, 1, k - 1) \o SubSeq(s, k + 1, Len(s)),
                     target   |-> << s[k] >>,
                     explored |-> local.explored]
    BY <1>6, <1>8 DEF GenPick, Expanding
  <2>2. GenState(program, SubSeq(s, 1, k - 1) \o SubSeq(s, k + 1, Len(s)), << s[k] >>,
                 local.explored)
    BY <1>2, <1>3, <2>1, GenPicks
  <2> QED  BY <1>5, <2>1, <2>2
<1>9. CASE GenDone
  <2>1. /\ local.target # << >> /\ ~(t.cidx <= Len(t.ex.constraints))
        /\ local' = [targets |-> local.targets, target |-> << >>, explored |-> local.explored]
    BY <1>6, <1>9 DEF GenDone, MoreConstraints, Expanding, Target
  <2>2. GenState(program, local.targets, << >>, local.explored)
    BY <1>2, <1>3, <2>1, GenFinishes
  <2> QED  BY <1>5, <2>1, <2>2
<1>10. CASE GenUnsolved
  <2>1. /\ local.target # << >> /\ t.cidx <= Len(t.ex.constraints)
        /\ CanSolve(t.ex, t.cidx) = {}
        /\ local' = [local EXCEPT !.target[1].cidx = @ + 1]
    BY <1>10 DEF GenUnsolved, SolveFails, MoreConstraints, Expanding, Target
  <2>2. local.target = << t >>
    BY <1>2, <1>3, <2>1, GenCurrent
  <2>3. [local.target EXCEPT ![1].cidx = @ + 1] = << [t EXCEPT !.cidx = @ + 1] >>
    <3> HIDE DEF t
    <3>1. [<< t >> EXCEPT ![1].cidx = @ + 1] = << [t EXCEPT !.cidx = @ + 1] >>
      OBVIOUS
    <3> QED  BY <2>2, <3>1
  <2>4. local' = [targets  |-> local.targets,
                  target   |-> << [t EXCEPT !.cidx = @ + 1] >>,
                  explored |-> local.explored]
    <3>1. local' = [local EXCEPT !.target = [local.target EXCEPT ![1].cidx = @ + 1]]
      BY <2>1
    <3> QED  BY <1>6, <2>3, <3>1
  <2>5. GenState(program, local.targets, << [t EXCEPT !.cidx = @ + 1] >>, local.explored)
    <3> HIDE DEF t
    <3> QED  BY <1>2, <1>3, <2>1, GenGoesOn DEF t
  <2> QED  BY <1>5, <2>4, <2>5
<1>11. CASE GenForce
  <2>1. local.target # << >> /\ t.cidx <= Len(t.ex.constraints)
    BY <1>11 DEF GenForce, MoreConstraints, Expanding, Target
  <2>2. PICK input \in CanSolveNew(t.ex, t.cidx) :
          UNCHANGED local \/ \E a \in Completions(input) :
            RunAndCover(a, Expanded(szd_execution'))
    BY <1>11 DEF GenForce, Launch, Target
  <2>3. CASE ~UNCHANGED local
    <3>1. PICK a \in Completions(input) : RunAndCover(a, Expanded(szd_execution'))
      BY <2>2, <2>3
    <3>2. RunProgram(a) /\ local' = Expanded(szd_execution') /\ a \in Assign
      BY <2>3, <3>1 DEF RunAndCover, Completions
    <3>3. PICK y \in Runs(program) : szd_execution' = y /\ y = Executions[program][a]
      BY <3>2, ExactRun
    <3> DEFINE x     == t.ex
               i     == t.cidx
               score == Cardinality(Executed(y) \ covered)
    <3>4. x \in Runs(program) /\ i \in 1 .. Len(x.constraints)
      <4>1. /\ x \in Runs(program) /\ i \in Nat \ {0} /\ Len(x.constraints) \in Nat
        BY <1>2, <1>3, <2>1, GenCurrent
      <4> HIDE DEF t
      <4> QED  BY <2>1, <4>1
    <3>5. Leaves(y.branches, x, i)
      <4>1. input \in CanSolveNew(x, i)
        OBVIOUS
      <4> HIDE DEF x, i
      <4> QED  BY <1>3, <3>3, <3>4, <4>1, SolvedLeaves
    <3>6. score \in Nat
      <4>1. Executed(y) \subseteq Branch
        BY <1>3, <3>2, <3>3, SearchAssumption, ExactRuns DEF SearchAssumption
      <4>2. Executed(y) \ covered \subseteq Branch
        BY <4>1
      <4> QED  BY <4>2, FiniteParts
    <3>7. local' = [targets  |-> Append(local.targets, GenTarget(y, i + 1, score)),
                    target   |-> << [t EXCEPT !.cidx = @ + 1] >>,
                    explored |-> Append(local.explored, y.branches)]
      <4>1. Predicted(x, y, i)
        BY <3>5, PredictedLeaves
      <4>2. Target = t
        BY DEF Target
      <4> HIDE DEF t
      <4> QED  BY <3>2, <3>3, <4>1, <4>2 DEF Expanded
    <3>8. GenState(program, Append(local.targets, GenTarget(y, i + 1, score)),
                   << [t EXCEPT !.cidx = @ + 1] >>, Append(local.explored, y.branches))
      <4> HIDE DEF t, score
      <4> QED  BY <1>2, <1>3, <2>1, <3>3, <3>5, <3>6, GenForces DEF t
    <3> QED  BY <1>5, <3>7, <3>8
  <2> QED  BY <1>4, <2>3
<1>12. NextGenerational
  BY DEF Next, NextStrategy
<1> HIDE DEF Goal
<1> QED  BY <1>7, <1>8, <1>9, <1>10, <1>11, <1>12 DEF NextGenerational
-----------------------------------------------------------------------------
(***************************************************************************)
(* The context-guided search: the executions of its tree are nodes, whose  *)
(* open constraints are those behind the branch that was forced that have  *)
(* not been tried.                                                         *)
(***************************************************************************)
CGSTree(p) == [ex : Runs(p), div : Int, tried : SUBSET Nat]

CGSOpen(node) == After(node.ex, node.div) \ node.tried

CGSNodes(tree) == [n \in 1 .. Len(tree) |-> [ex |-> tree[n].ex, open |-> CGSOpen(tree[n])]]

\* What is still to do at this depth is open.
CGSToDo(tree, depth, todo) == todo \subseteq {n \in 1 .. Len(tree) : depth \in CGSOpen(tree[n])}

\* What was to do at a constraint has been done: it was tried, or the branches
\* before it, as many as size, were met.
Settled(node, i, size, cache) == i \in node.tried \/ GetContext(node.ex, i, size) \in cache

\* In the round of the largest size the depths that were passed are settled, after
\* it all of them are.
CGSSettled(size, tree, k, depth, todo, cache) ==
  \A n \in 1 .. Len(tree) : \A i \in After(tree[n].ex, tree[n].div) :
    \/ k < size
    \/ k = size /\ (i > depth \/ (i = depth /\ n \in todo))
    \/ Settled(tree[n], i, size, cache)

\* The members of the search.
CGSFields(tree, k, depth, todo, cache, explored) ==
  [tree |-> tree, k |-> k, depth |-> depth, todo |-> todo, cache |-> cache,
   explored |-> explored]

CGSRecord(l) == l = CGSFields(l.tree, l.k, l.depth, l.todo, l.cache, l.explored)

\* The assignments of the search's steps: an execution is seen to,
LEMMA CGSDrops ==
  ASSUME NEW l, CGSRecord(l), NEW a
  PROVE  [l EXCEPT !.todo = a] =
           CGSFields(l.tree, l.k, l.depth, a, l.cache, l.explored)
<1>1. PICK x1, x2, x3, x4, x5, x6 : l = CGSFields(x1, x2, x3, x4, x5, x6)
  BY DEF CGSRecord
<1>2. /\ l.tree = x1 /\ l.k = x2 /\ l.depth = x3 /\ l.todo = x4
      /\ l.cache = x5 /\ l.explored = x6
  BY <1>1 DEF CGSFields
<1>3. [l EXCEPT !.todo = a] = CGSFields(x1, x2, x3, a, x5, x6)
  BY <1>1 DEF CGSFields
<1> QED  BY <1>2, <1>3

\* a run joins the tree,
LEMMA CGSGrows ==
  ASSUME NEW l, CGSRecord(l), NEW a, NEW b
  PROVE  [l EXCEPT !.tree = a, !.explored = b] =
           CGSFields(a, l.k, l.depth, l.todo, l.cache, b)
<1>1. PICK x1, x2, x3, x4, x5, x6 : l = CGSFields(x1, x2, x3, x4, x5, x6)
  BY DEF CGSRecord
<1>2. /\ l.tree = x1 /\ l.k = x2 /\ l.depth = x3 /\ l.todo = x4
      /\ l.cache = x5 /\ l.explored = x6
  BY <1>1 DEF CGSFields
<1> DEFINE u == [l EXCEPT !.tree = a]
<1>3. u = CGSFields(a, x2, x3, x4, x5, x6)
  BY <1>1 DEF CGSFields
<1> HIDE DEF u
<1>4. [u EXCEPT !.explored = b] = CGSFields(a, x2, x3, x4, x5, b)
  BY <1>3 DEF CGSFields
<1> QED  BY <1>2, <1>4 DEF u

\* the next depth is looked at,
LEMMA CGSDescends ==
  ASSUME NEW l, CGSRecord(l), NEW a, NEW b
  PROVE  [l EXCEPT !.depth = a, !.todo = b] =
           CGSFields(l.tree, l.k, a, b, l.cache, l.explored)
<1>1. PICK x1, x2, x3, x4, x5, x6 : l = CGSFields(x1, x2, x3, x4, x5, x6)
  BY DEF CGSRecord
<1>2. /\ l.tree = x1 /\ l.k = x2 /\ l.depth = x3 /\ l.todo = x4
      /\ l.cache = x5 /\ l.explored = x6
  BY <1>1 DEF CGSFields
<1> DEFINE u == [l EXCEPT !.depth = a]
<1>3. u = CGSFields(x1, x2, a, x4, x5, x6)
  BY <1>1 DEF CGSFields
<1> HIDE DEF u
<1>4. [u EXCEPT !.todo = b] = CGSFields(x1, x2, a, b, x5, x6)
  BY <1>3 DEF CGSFields
<1> QED  BY <1>2, <1>4 DEF u

\* or the next size,
LEMMA CGSReturnsToTop ==
  ASSUME NEW l, CGSRecord(l), NEW a, NEW b
  PROVE  [l EXCEPT !.k = a, !.depth = b] =
           CGSFields(l.tree, a, b, l.todo, l.cache, l.explored)
<1>1. PICK x1, x2, x3, x4, x5, x6 : l = CGSFields(x1, x2, x3, x4, x5, x6)
  BY DEF CGSRecord
<1>2. /\ l.tree = x1 /\ l.k = x2 /\ l.depth = x3 /\ l.todo = x4
      /\ l.cache = x5 /\ l.explored = x6
  BY <1>1 DEF CGSFields
<1> DEFINE u == [l EXCEPT !.k = a]
<1>3. u = CGSFields(x1, a, x3, x4, x5, x6)
  BY <1>1 DEF CGSFields
<1> HIDE DEF u
<1>4. [u EXCEPT !.depth = b] = CGSFields(x1, a, b, x4, x5, x6)
  BY <1>3 DEF CGSFields
<1> QED  BY <1>2, <1>4 DEF u

\* and a constraint is tried.
LEMMA CGSMarksOff ==
  ASSUME NEW l, CGSRecord(l), NEW a, NEW b, NEW c
  PROVE  [l EXCEPT !.todo = a, !.tree = b, !.cache = c] =
           CGSFields(b, l.k, l.depth, a, c, l.explored)
<1>1. PICK x1, x2, x3, x4, x5, x6 : l = CGSFields(x1, x2, x3, x4, x5, x6)
  BY DEF CGSRecord
<1>2. /\ l.tree = x1 /\ l.k = x2 /\ l.depth = x3 /\ l.todo = x4
      /\ l.cache = x5 /\ l.explored = x6
  BY <1>1 DEF CGSFields
<1> DEFINE u == [l EXCEPT !.todo = a]
<1>3. u = CGSFields(x1, x2, x3, a, x5, x6)
  BY <1>1 DEF CGSFields
<1> HIDE DEF u
<1> DEFINE v == [u EXCEPT !.tree = b]
<1>4. v = CGSFields(b, x2, x3, a, x5, x6)
  BY <1>3 DEF CGSFields
<1> HIDE DEF v
<1>5. [v EXCEPT !.cache = c] = CGSFields(b, x2, x3, a, c, x6)
  BY <1>4 DEF CGSFields
<1> QED  BY <1>2, <1>5 DEF u, v

CGSState(p, size, l) ==
  /\ CGSRecord(l)
  /\ l.tree \in Seq(CGSTree(p)) /\ l.explored \in Seq(Paths[p])
  /\ l.k \in Nat \ {0} /\ l.depth \in Nat
  /\ l.tree = << >> => l.k = 1 /\ l.depth = 0 /\ l.todo = {} /\ l.explored = << >>
  /\ l.k > size => l.todo = {}
  /\ Frontier(CGSNodes(l.tree), p, l.explored)
  /\ CGSToDo(l.tree, l.depth, l.todo)
  /\ size > 0 => CGSSettled(size, l.tree, l.k, l.depth, l.todo, l.cache)

\* The nodes of the tree are nodes of the program.
LEMMA CGSFamily ==
  ASSUME NEW p, NEW tree \in Seq(CGSTree(p))
  PROVE  /\ IsFamily(CGSNodes(tree), p)
         /\ \A n \in 1 .. Len(tree) :
              /\ tree[n] \in CGSTree(p) /\ tree[n].ex \in Runs(p)
              /\ tree[n].div \in Int /\ tree[n].tried \subseteq Nat
<1>1. \A n \in 1 .. Len(tree) : tree[n] \in CGSTree(p)
  BY ElementOfSeq
<1>2. \A n \in 1 .. Len(tree) : /\ tree[n].ex \in Runs(p)
                                /\ tree[n].div \in Int /\ tree[n].tried \subseteq Nat
  BY <1>1 DEF CGSTree
<1> QED  BY <1>1, <1>2 DEF IsFamily, CGSNodes, CGSOpen, After

\* The numbers that a sequence gives for its elements have a bound.
LEMMA Bounded ==
  ASSUME NEW L \in Nat, NEW len \in [1 .. L -> Nat]
  PROVE  \E b \in Nat : \A n \in 1 .. L : len[n] <= b
<1> DEFINE Bounds(m) == {b \in Nat : \A n \in 1 .. m : len[n] <= b}
           S == {m \in 0 .. L : Bounds(m) = {}}
<1>1. CASE S = {}
  <2>1. L \in 0 .. L
    OBVIOUS
  <2> HIDE DEF Bounds
  <2>2. Bounds(L) # {}
    BY <1>1, <2>1
  <2> QED  BY <2>2 DEF Bounds
<1>2. CASE S # {}
  <2>1. S \subseteq Nat
    OBVIOUS
  <2> HIDE DEF S
  <2>2. PICK m \in S : \A k \in S : m <= k
    BY <1>2, <2>1, Least
  <2>3. m \in 0 .. L /\ Bounds(m) = {}
    BY DEF S
  <2>4. m # 0
    <3>1. 0 \in Bounds(0)
      OBVIOUS
    <3> QED  BY <2>3, <3>1
  <2>5. m - 1 \in 0 .. L /\ m \in 1 .. L /\ ~(m <= m - 1)
    BY <2>3, <2>4
  <2>6. Bounds(m - 1) # {}
    <3>1. m - 1 \notin S
      BY <2>2, <2>5
    <3> HIDE DEF Bounds
    <3> QED  BY <2>5, <3>1 DEF S
  <2>7. PICK b \in Nat : \A n \in 1 .. m - 1 : len[n] <= b
    BY <2>6
  <2>8. len[m] \in Nat
    BY <2>5
  <2> DEFINE c == IF len[m] <= b THEN b ELSE len[m]
  <2>9. c \in Nat /\ len[m] <= c /\ b <= c
    BY <2>8
  <2> HIDE DEF c
  <2>10. \A n \in 1 .. m : len[n] <= c
    <3> SUFFICES ASSUME NEW n \in 1 .. m  PROVE len[n] <= c
      OBVIOUS
    <3>1. CASE n = m
      BY <2>9, <3>1
    <3>2. CASE n # m
      <4>1. n \in 1 .. m - 1 /\ n \in 1 .. L
        BY <2>5, <3>2
      <4>2. len[n] \in Nat /\ len[n] <= b
        BY <2>7, <4>1
      <4> QED  BY <2>9, <4>2
    <3> QED  BY <3>1, <3>2
  <2>11. c \in Bounds(m)
    BY <2>9, <2>10
  <2> QED  BY <2>3, <2>11
<1> QED  BY <1>1, <1>2

\* MaxDepthT is not below the length of any execution of the tree.
LEMMA DeepestOfTree ==
  ASSUME NEW L \in Nat, NEW len \in [1 .. L -> Nat], NEW j \in 1 .. L
  PROVE  /\ len[j] <= Max({len[n] : n \in 1 .. L})
         /\ Max({len[n] : n \in 1 .. L}) \in Nat
<1> DEFINE T == {len[n] : n \in 1 .. L}
           S == {b \in Nat : \A n \in 1 .. L : len[n] <= b}
<1>1. S # {} /\ S \subseteq Nat
  BY Bounded
<1>2. PICK b \in S : \A c \in S : b <= c
  <2> HIDE DEF S
  <2> QED  BY <1>1, Least
<1>3. b \in Nat /\ \A n \in 1 .. L : len[n] <= b
  OBVIOUS
<1>4. b \in T
  <2> SUFFICES ASSUME b \notin T  PROVE FALSE
    OBVIOUS
  <2>1. \A n \in 1 .. L : len[n] \in Nat /\ len[n] # b /\ len[n] <= b
    BY <1>3
  <2>2. b # 0
    BY <2>1
  <2>3. b - 1 \in Nat /\ \A n \in 1 .. L : len[n] <= b - 1
    BY <1>3, <2>1, <2>2
  <2>4. b - 1 \in S
    BY <2>3
  <2>5. b <= b - 1
    BY <1>2, <2>4
  <2> QED  BY <1>3, <2>5
<1>5. \A x \in T : b >= x
  BY <1>3
<1> HIDE DEF S
<1>6. Max(T) \in T /\ \A x \in T : Max(T) >= x
  <2> HIDE DEF T
  <2> QED  BY <1>4, <1>5 DEF Max
<1> HIDE DEF T
<1>7. len[j] \in T /\ T \subseteq Nat
  BY DEF T
<1> QED  BY <1>6, <1>7 DEF T

\* The search starts with a tree of one run.
LEMMA CGSStarts ==
  ASSUME NEW p \in ExactPrograms, NEW size \in Nat, NEW l, CGSState(p, size, l),
         l.tree = << >>, NEW y \in Runs(p)
  PROVE  CGSState(p, size, CGSFields(<< Node(y, -1) >>, l.k, l.depth, l.todo, l.cache,
                                  << y.branches >>))
<1> DEFINE tree     == << Node(y, -1) >>
           explored == << y.branches >>
           m        == CGSFields(tree, l.k, l.depth, l.todo, l.cache, explored)
<1>1. p \in Program /\ y.branches \in Paths[p]
  BY ExactRuns, PathsOfRuns
<1>2. Node(y, -1) \in CGSTree(p)
  BY DEF Node, CGSTree
<1>3. tree \in Seq(CGSTree(p)) /\ Len(tree) = 1 /\ tree[1] = Node(y, -1)
  BY <1>2, Alone
<1>4. explored \in Seq(Paths[p]) /\ Len(explored) = 1
  BY <1>1, Alone
<1>5. l.k = 1 /\ l.depth = 0 /\ l.todo = {}
  BY DEF CGSState
<1> HIDE DEF tree, explored
<1>6. /\ CGSRecord(m)
      /\ m.tree = tree /\ m.k = 1 /\ m.depth = 0 /\ m.todo = {} /\ m.explored = explored
      /\ m.cache = l.cache
  BY <1>5 DEF CGSRecord, CGSFields
<1> HIDE DEF m
<1>7. \A i \in 1 .. Len(y.constraints) : -1 < y.constraints_idx[i] /\ i > 0
  BY <1>1, RunFacts
<1>8. /\ DOMAIN CGSNodes(tree) = {1} /\ CGSNodes(tree)[1].ex = y
      /\ CGSNodes(tree)[1].open = 1 .. Len(y.constraints)
  <2>1. 1 .. Len(tree) = {1}
    BY <1>3
  <2>2. Node(y, -1).ex = y /\ Node(y, -1).div = -1 /\ Node(y, -1).tried = {}
    BY DEF Node
  <2>3. After(y, -1) \ {} = 1 .. Len(y.constraints)
    BY <1>7 DEF After
  <2> QED  BY <1>3, <2>1, <2>2, <2>3 DEF CGSNodes, CGSOpen
<1>9. Frontier(CGSNodes(tree), p, explored)
  BY <1>8, RootKeeps DEF explored
<1>10. ASSUME size > 0  PROVE CGSSettled(size, tree, 1, 0, {}, l.cache)
  <2>1. ASSUME NEW n \in 1 .. Len(tree), NEW i \in After(tree[n].ex, tree[n].div)
        PROVE  1 < size \/ (1 = size /\ i > 0)
    <3>1. n = 1
      BY <1>3
    <3>2. i \in 1 .. Len(y.constraints)
      BY <1>3, <3>1 DEF After, Node
    <3> QED  BY <1>7, <1>10, <3>2
  <2> QED  BY <2>1 DEF CGSSettled
<1>11. size > 0 => CGSSettled(size, m.tree, m.k, m.depth, m.todo, m.cache)
  BY <1>6, <1>10
<1>12. CGSState(p, size, m)
  <2>1. CGSToDo(tree, 0, {})
    BY DEF CGSToDo
  <2>2. tree # << >>
    BY DEF tree
  <2>3. m.tree \in Seq(CGSTree(p)) /\ m.explored \in Seq(Paths[p]) /\ m.tree # << >>
    BY <1>3, <1>4, <1>6, <2>2
  <2>4. m.k \in Nat \ {0} /\ m.depth \in Nat /\ m.todo = {}
    BY <1>6
  <2>5. Frontier(CGSNodes(m.tree), p, m.explored) /\ CGSToDo(m.tree, m.depth, m.todo)
    BY <1>6, <1>9, <2>1
  <2> QED  BY <1>6, <1>11, <2>3, <2>4, <2>5 DEF CGSState
<1> QED  BY <1>12 DEF m, tree, explored

\* It goes on at the next depth.
LEMMA CGSGoesDeeper ==
  ASSUME NEW p \in ExactPrograms, NEW size \in Nat, NEW l, CGSState(p, size, l),
         l.tree # << >>, l.todo = {}, l.k <= size,
         NEW todo, todo = {n \in 1 .. Len(l.tree) :
                             /\ l.depth + 1 \notin l.tree[n].tried
                             /\ l.depth + 1 <= Len(l.tree[n].ex.constraints)
                             /\ l.tree[n].ex.constraints_idx[l.depth + 1] > l.tree[n].div}
  PROVE  CGSState(p, size, CGSFields(l.tree, l.k, l.depth + 1, todo, l.cache, l.explored))
<1> DEFINE m    == CGSFields(l.tree, l.k, l.depth + 1, todo, l.cache, l.explored)
           tree == l.tree
           d    == l.depth + 1
<1>1. /\ tree \in Seq(CGSTree(p)) /\ l.explored \in Seq(Paths[p])
      /\ l.k \in Nat \ {0} /\ l.depth \in Nat
      /\ Frontier(CGSNodes(tree), p, l.explored)
      /\ size > 0 => CGSSettled(size, tree, l.k, l.depth, {}, l.cache)
  BY DEF CGSState
<1>2. /\ CGSRecord(m)
      /\ m.tree = tree /\ m.k = l.k /\ m.depth = d /\ m.todo = todo
      /\ m.explored = l.explored /\ m.cache = l.cache
  BY DEF CGSRecord, CGSFields
<1> HIDE DEF m
<1>3. d \in Nat \ {0}
  BY <1>1
<1>4. todo = {n \in 1 .. Len(tree) : d \in CGSOpen(tree[n])}
  <2> SUFFICES ASSUME NEW n \in 1 .. Len(tree)
               PROVE  d \in CGSOpen(tree[n]) <=>
                        /\ d \notin tree[n].tried
                        /\ d <= Len(tree[n].ex.constraints)
                        /\ tree[n].ex.constraints_idx[d] > tree[n].div
    OBVIOUS
  <2> DEFINE x == tree[n].ex
  <2>1. x \in Runs(p) /\ tree[n].div \in Int /\ p \in Program
    BY <1>1, CGSFamily, ExactRuns
  <2>2. Len(x.constraints) \in Nat /\ \A i \in 1 .. Len(x.constraints) : x.constraints_idx[i] \in Nat
    BY <2>1, RunFacts
  <2> HIDE DEF x, d
  <2>3. d <= Len(x.constraints) <=> d \in 1 .. Len(x.constraints)
    BY <1>3, <2>2
  <2>4. d \in 1 .. Len(x.constraints) =>
          (x.constraints_idx[d] > tree[n].div <=> tree[n].div < x.constraints_idx[d])
    BY <2>1, <2>2
  <2> QED  BY <2>3, <2>4 DEF CGSOpen, After, x
<1>5. ASSUME size > 0  PROVE CGSSettled(size, tree, l.k, d, todo, l.cache)
  <2> SUFFICES ASSUME NEW n \in 1 .. Len(tree), NEW i \in After(tree[n].ex, tree[n].div),
                      ~(l.k < size), ~(l.k = size /\ i > d),
                      ~(l.k = size /\ i = d /\ n \in todo)
               PROVE  Settled(tree[n], i, size, l.cache)
    BY DEF CGSSettled
  <2>1. l.k = size
    BY <1>1
  <2>2. i \in Nat
    <3>1. Len(tree[n].ex.constraints) \in Nat
      BY <1>1, CGSFamily, ExactRuns, RunFacts
    <3> QED  BY <3>1 DEF After
  <2>3. CASE i = d
    <3>1. n \notin todo
      BY <2>1, <2>3
    <3>2. d \in tree[n].tried
      BY <1>4, <2>3, <3>1 DEF CGSOpen
    <3> QED  BY <2>3, <3>2 DEF Settled
  <2>4. CASE i # d
    <3>1. ~(i > d)
      BY <2>1
    <3>2. ~(i > l.depth) /\ ~(i > l.depth \/ (i = l.depth /\ n \in {}))
      BY <1>1, <2>2, <2>4, <3>1
    <3> QED  BY <1>1, <1>5, <2>1, <3>2 DEF CGSSettled
  <2> QED  BY <2>3, <2>4
<1>6. ~(l.k > size)
  BY <1>1
<1>7. CGSToDo(tree, d, todo)
  BY <1>4 DEF CGSToDo
<1> HIDE DEF tree, d
<1>8. CGSState(p, size, m)
  BY <1>1, <1>2, <1>3, <1>5, <1>6, <1>7 DEF CGSState, tree
<1> QED  BY <1>8 DEF m

\* It starts again from the top with a larger size.
LEMMA CGSWidens ==
  ASSUME NEW p \in ExactPrograms, NEW size \in Nat, NEW l, CGSState(p, size, l),
         l.tree # << >>, l.todo = {}, l.k <= size,
         l.depth >= Max({Len(l.tree[n].ex.constraints) : n \in 1 .. Len(l.tree)})
  PROVE  CGSState(p, size, CGSFields(l.tree, l.k + 1, 0, l.todo, l.cache, l.explored))
<1> DEFINE m    == CGSFields(l.tree, l.k + 1, 0, l.todo, l.cache, l.explored)
           tree == l.tree
<1>1. /\ tree \in Seq(CGSTree(p)) /\ l.explored \in Seq(Paths[p])
      /\ l.k \in Nat \ {0} /\ l.depth \in Nat
      /\ Frontier(CGSNodes(tree), p, l.explored)
      /\ size > 0 => CGSSettled(size, tree, l.k, l.depth, {}, l.cache)
  BY DEF CGSState
<1>2. /\ CGSRecord(m)
      /\ m.tree = tree /\ m.k = l.k + 1 /\ m.depth = 0 /\ m.todo = {}
      /\ m.explored = l.explored /\ m.cache = l.cache
  BY DEF CGSRecord, CGSFields
<1> HIDE DEF m
<1>3. ASSUME NEW n \in 1 .. Len(tree), NEW i \in After(tree[n].ex, tree[n].div)
      PROVE  i \in Nat \ {0} /\ ~(i > l.depth)
  <2> DEFINE L   == Len(tree)
             len == [j \in 1 .. L |-> Len(tree[j].ex.constraints)]
  <2>1. L \in Nat /\ \A j \in 1 .. L : Len(tree[j].ex.constraints) \in Nat
    BY <1>1, LenProperties, CGSFamily, ExactRuns, RunFacts
  <2>2. len \in [1 .. L -> Nat]
    BY <2>1
  <2>3. {len[j] : j \in 1 .. L} = {Len(tree[j].ex.constraints) : j \in 1 .. L}
    OBVIOUS
  <2>4. len[n] = Len(tree[n].ex.constraints)
    OBVIOUS
  <2>5. l.depth >= Max({len[j] : j \in 1 .. L})
    BY <2>3
  <2>6. n \in 1 .. L
    OBVIOUS
  <2> HIDE DEF len, L
  <2>7. /\ len[n] <= Max({len[j] : j \in 1 .. L})
        /\ Max({len[j] : j \in 1 .. L}) \in Nat
    BY <2>1, <2>2, <2>6, DeepestOfTree
  <2>8. len[n] <= l.depth
    <3> DEFINE M == Max({len[j] : j \in 1 .. L})
    <3>1. M \in Nat /\ len[n] <= M /\ l.depth >= M /\ len[n] \in Nat
      BY <2>2, <2>5, <2>6, <2>7
    <3> HIDE DEF M
    <3> QED  BY <1>1, <3>1
  <2> QED  BY <1>1, <2>1, <2>4, <2>8 DEF After
<1>4. ASSUME size > 0  PROVE CGSSettled(size, tree, l.k + 1, 0, {}, l.cache)
  <2>1. ASSUME NEW n \in 1 .. Len(tree), NEW i \in After(tree[n].ex, tree[n].div),
               ~(l.k + 1 < size), ~(l.k + 1 = size /\ i > 0)
        PROVE  Settled(tree[n], i, size, l.cache)
    <3>1. i \in Nat \ {0} /\ ~(i > l.depth)
      BY <1>3
    <3>2. l.k = size
      BY <1>1, <2>1, <3>1
    <3>3. ~(l.k < size) /\ ~(i > l.depth \/ (i = l.depth /\ n \in {}))
      BY <3>1, <3>2
    <3> QED  BY <1>1, <1>4, <3>3 DEF CGSSettled
  <2> QED  BY <2>1 DEF CGSSettled
<1> HIDE DEF tree
<1>5. CGSState(p, size, m)
  BY <1>1, <1>2, <1>4 DEF CGSState, CGSToDo, tree
<1> QED  BY <1>5 DEF m

\* It starts over with an empty tree, as at first.
LEMMA CGSForgets ==
  ASSUME NEW p, NEW size \in Nat
  PROVE  CGSState(p, size, CGSFields(<< >>, 1, 0, {}, {}, << >>))
<1> DEFINE m == CGSFields(<< >>, 1, 0, {}, {}, << >>)
<1>1. /\ CGSRecord(m)
      /\ m.tree = << >> /\ m.k = 1 /\ m.depth = 0 /\ m.todo = {} /\ m.explored = << >>
      /\ m.cache = {}
  BY DEF CGSRecord, CGSFields
<1> HIDE DEF m
<1>2. /\ << >> \in Seq(CGSTree(p)) /\ << >> \in Seq(Paths[p])
      /\ Len(<< >>) = 0 /\ 1 .. 0 = {}
  BY EmptySeq
<1>3. Frontier(CGSNodes(<< >>), p, << >>)
  <2>1. DOMAIN CGSNodes(<< >>) = {}
    BY <1>2 DEF CGSNodes
  <2> QED  BY <1>2, <2>1 DEF Frontier
<1>4. CGSSettled(size, << >>, 1, 0, {}, {}) /\ CGSToDo(<< >>, 0, {})
  BY <1>2 DEF CGSSettled, CGSToDo
<1>5. CGSState(p, size, m)
  BY <1>1, <1>2, <1>3, <1>4 DEF CGSState
<1> QED  BY <1>5 DEF m

\* What is known of an execution that is still to do.
LEMMA CGSCurrent ==
  ASSUME NEW p \in ExactPrograms, NEW size \in Nat, NEW l, CGSState(p, size, l),
         NEW n \in l.todo
  PROVE  /\ n \in 1 .. Len(l.tree) /\ l.depth \in CGSOpen(l.tree[n]) /\ l.depth \in Nat
         /\ Len(l.tree) \in Nat /\ l.tree[n] \in CGSTree(p)
         /\ l.tree[n].ex \in Runs(p) /\ l.tree[n].div \in Int /\ l.tree[n].tried \subseteq Nat
         /\ l.depth \in 1 .. Len(l.tree[n].ex.constraints)
         /\ l.k <= size /\ l.k \in Nat
<1>1. /\ l.tree \in Seq(CGSTree(p)) /\ CGSToDo(l.tree, l.depth, l.todo) /\ l.depth \in Nat
      /\ l.k \in Nat /\ ~(l.k > size)
  BY DEF CGSState
<1>2. n \in 1 .. Len(l.tree) /\ l.depth \in CGSOpen(l.tree[n])
  BY <1>1 DEF CGSToDo
<1>3. l.depth \in 1 .. Len(l.tree[n].ex.constraints)
  BY <1>2 DEF CGSOpen, After
<1> QED  BY <1>1, <1>2, <1>3, CGSFamily, LenProperties

\* The context of the constraint was met before.
LEMMA CGSPasses ==
  ASSUME NEW p \in ExactPrograms, NEW size \in Nat, NEW l, CGSState(p, size, l),
         NEW n \in l.todo, GetContext(l.tree[n].ex, l.depth, l.k) \in l.cache
  PROVE  CGSState(p, size, CGSFields(l.tree, l.k, l.depth, l.todo \ {n}, l.cache, l.explored))
<1> DEFINE todo == l.todo \ {n}
           m    == CGSFields(l.tree, l.k, l.depth, todo, l.cache, l.explored)
<1>1. /\ l.tree \in Seq(CGSTree(p)) /\ l.explored \in Seq(Paths[p])
      /\ l.k \in Nat \ {0} /\ l.depth \in Nat
      /\ l.tree = << >> => l.k = 1 /\ l.depth = 0 /\ l.todo = {} /\ l.explored = << >>
      /\ l.k > size => l.todo = {}
      /\ Frontier(CGSNodes(l.tree), p, l.explored)
      /\ CGSToDo(l.tree, l.depth, l.todo)
      /\ size > 0 => CGSSettled(size, l.tree, l.k, l.depth, l.todo, l.cache)
  BY DEF CGSState
<1>2. /\ CGSRecord(m)
      /\ m.tree = l.tree /\ m.k = l.k /\ m.depth = l.depth /\ m.todo = todo
      /\ m.explored = l.explored /\ m.cache = l.cache
  BY DEF CGSRecord, CGSFields
<1> HIDE DEF m
<1>3. CGSToDo(l.tree, l.depth, todo)
  BY <1>1 DEF CGSToDo
<1>4. ASSUME size > 0  PROVE CGSSettled(size, l.tree, l.k, l.depth, todo, l.cache)
  <2>1. ASSUME NEW j \in 1 .. Len(l.tree), NEW i \in After(l.tree[j].ex, l.tree[j].div),
               ~(l.k < size), ~(l.k = size /\ (i > l.depth \/ (i = l.depth /\ j \in todo)))
        PROVE  Settled(l.tree[j], i, size, l.cache)
    <3>1. l.k = size
      BY <2>1, CGSCurrent
    <3>2. CASE j = n /\ i = l.depth
      BY <3>1, <3>2 DEF Settled
    <3>3. CASE ~(j = n /\ i = l.depth)
      <4>1. ~(l.k = size /\ (i > l.depth \/ (i = l.depth /\ j \in l.todo)))
        BY <2>1, <3>1, <3>3
      <4> QED  BY <1>1, <1>4, <2>1, <4>1 DEF CGSSettled
    <3> QED  BY <3>2, <3>3
  <2> QED  BY <2>1 DEF CGSSettled
<1>5. (l.k > size => todo = {}) /\ (l.tree = << >> => todo = {})
  BY <1>1
<1> HIDE DEF todo
<1>6. CGSState(p, size, m)
  BY <1>1, <1>2, <1>3, <1>4, <1>5 DEF CGSState
<1> QED  BY <1>6 DEF m, todo

\* SetTried.
LEMMA CGSMarks ==
  ASSUME NEW p, NEW tree \in Seq(CGSTree(p)), NEW n \in 1 .. Len(tree), NEW d \in Nat
  PROVE  LET new == [tree EXCEPT ![n].tried = @ \cup {d}]
         IN  /\ new \in Seq(CGSTree(p)) /\ Len(new) = Len(tree)
             /\ new[n].ex = tree[n].ex /\ new[n].div = tree[n].div
             /\ new[n].tried = tree[n].tried \cup {d}
             /\ \A j \in 1 .. Len(tree) : j # n => new[j] = tree[j]
<1> DEFINE node == [tree[n] EXCEPT !.tried = @ \cup {d}]
           new  == [tree EXCEPT ![n] = node]
<1>1. tree[n] \in CGSTree(p)
  BY ElementOfSeq
<1>2. /\ node \in CGSTree(p) /\ node.ex = tree[n].ex /\ node.div = tree[n].div
      /\ node.tried = tree[n].tried \cup {d}
  BY <1>1 DEF CGSTree
<1> HIDE DEF node
<1>3. /\ new \in Seq(CGSTree(p)) /\ Len(new) = Len(tree) /\ new[n] = node
      /\ \A j \in 1 .. Len(tree) : j # n => new[j] = tree[j]
  BY <1>2, ExceptSeq
<1>4. new = [tree EXCEPT ![n].tried = @ \cup {d}]
  BY DEF node
<1> HIDE DEF new
<1> QED  BY <1>2, <1>3, <1>4

\* A constraint is tried, and its context met.
LEMMA CGSTries ==
  ASSUME NEW p \in ExactPrograms, NEW size \in Nat, NEW l, CGSState(p, size, l),
         NEW n \in l.todo, NEW context
  PROVE  CGSState(p, size, CGSFields([l.tree EXCEPT ![n].tried = @ \cup {l.depth}], l.k, l.depth,
                                     l.todo \ {n}, l.cache \cup {context}, l.explored))
<1> DEFINE tree  == l.tree
           new   == [tree EXCEPT ![n].tried = @ \cup {l.depth}]
           todo  == l.todo \ {n}
           cache == l.cache \cup {context}
           m     == CGSFields(new, l.k, l.depth, todo, cache, l.explored)
           L     == Len(tree)
           d     == l.depth
<1>1. /\ tree \in Seq(CGSTree(p)) /\ l.explored \in Seq(Paths[p])
      /\ l.k \in Nat \ {0}
      /\ l.k > size => l.todo = {}
      /\ Frontier(CGSNodes(tree), p, l.explored)
      /\ CGSToDo(tree, d, l.todo)
      /\ size > 0 => CGSSettled(size, tree, l.k, d, l.todo, l.cache)
  BY DEF CGSState
<1>2. /\ CGSRecord(m)
      /\ m.tree = new /\ m.k = l.k /\ m.depth = d /\ m.todo = todo
      /\ m.explored = l.explored /\ m.cache = cache
  BY DEF CGSRecord, CGSFields
<1>3. n \in 1 .. L /\ d \in Nat /\ L \in Nat
  BY CGSCurrent
<1> HIDE DEF m, L, tree, d
<1>4. /\ new \in Seq(CGSTree(p)) /\ Len(new) = L
      /\ new[n].ex = tree[n].ex /\ new[n].div = tree[n].div
      /\ new[n].tried = tree[n].tried \cup {d}
      /\ \A j \in 1 .. L : j # n => new[j] = tree[j]
  <2>1. tree \in Seq(CGSTree(p)) /\ n \in 1 .. Len(tree)
    BY <1>1, <1>3 DEF L
  <2> QED  BY <1>3, <2>1, CGSMarks DEF L, d
<1> HIDE DEF new
<1>5. \A j \in 1 .. L : /\ new[j].ex = tree[j].ex /\ new[j].div = tree[j].div
                        /\ tree[j].tried \subseteq new[j].tried
  BY <1>4
<1>6. Frontier(CGSNodes(new), p, l.explored)
  <2> DEFINE h == [j \in 1 .. L |-> j]
             f == CGSNodes(tree)
             g == CGSNodes(new)
  <2>1. /\ DOMAIN f = 1 .. L /\ DOMAIN g = 1 .. L
        /\ \A j \in 1 .. L : /\ f[j].ex = tree[j].ex /\ f[j].open = CGSOpen(tree[j])
                             /\ g[j].ex = new[j].ex /\ g[j].open = CGSOpen(new[j])
    BY <1>4 DEF CGSNodes, L
  <2>2. \A j \in 1 .. L : CGSOpen(new[j]) \subseteq CGSOpen(tree[j])
    BY <1>5 DEF CGSOpen
  <2> HIDE DEF f, g
  <2>3. /\ \A j \in DOMAIN g : /\ h[j] \in DOMAIN f
                              /\ g[j].ex = f[h[j]].ex /\ g[j].open \subseteq f[h[j]].open
        /\ \A i, j \in DOMAIN g : h[i] = h[j] => i = j
    BY <1>5, <2>1, <2>2
  <2> HIDE DEF h
  <2>4. Frontier(f, p, l.explored)
    BY <1>1 DEF f
  <2> QED  BY <2>3, <2>4, ShrinkKeeps DEF g
<1>7. CGSToDo(new, d, todo)
  <2>1. ASSUME NEW j \in todo  PROVE j \in 1 .. L /\ d \in CGSOpen(new[j])
    <3>1. j \in 1 .. L /\ d \in CGSOpen(tree[j]) /\ j # n
      BY <1>1, <2>1 DEF CGSToDo, L
    <3> QED  BY <1>4, <3>1
  <2> HIDE DEF todo
  <2> QED  BY <1>4, <2>1 DEF CGSToDo
<1>8. ASSUME size > 0  PROVE CGSSettled(size, new, l.k, d, todo, cache)
  <2>1. ASSUME NEW j \in 1 .. L, NEW i \in After(tree[j].ex, tree[j].div),
               ~(l.k < size), ~(l.k = size /\ (i > d \/ (i = d /\ j \in todo)))
        PROVE  Settled(new[j], i, size, cache)
    <3>1. CASE j = n /\ i = d
      BY <1>4, <3>1 DEF Settled
    <3>2. CASE ~(j = n /\ i = d)
      <4>1. ~(l.k = size /\ (i > d \/ (i = d /\ j \in l.todo)))
        BY <2>1, <3>2
      <4>2. Settled(tree[j], i, size, l.cache)
        BY <1>1, <1>8, <2>1, <4>1 DEF CGSSettled, L
      <4> QED  BY <1>5, <4>2 DEF Settled
    <3> QED  BY <3>1, <3>2
  <2> HIDE DEF todo, cache
  <2> QED  BY <1>4, <1>5, <2>1 DEF CGSSettled
<1>9. (l.k > size => todo = {}) /\ new # << >>
  <2>1. Len(<< >>) = 0
    OBVIOUS
  <2> QED  BY <1>1, <1>3, <1>4, <2>1
<1> HIDE DEF todo, cache
<1>10. CGSState(p, size, m)
  BY <1>1, <1>2, <1>3, <1>4, <1>6, <1>7, <1>8, <1>9 DEF CGSState
<1> QED  BY <1>10 DEF m, todo, cache, new, tree, d

\* It is tried with a run y that leaves the execution there, and joins the tree.
LEMMA CGSForces ==
  ASSUME NEW p \in ExactPrograms, NEW size \in Nat, NEW l, CGSState(p, size, l),
         NEW n \in l.todo, NEW context, NEW y \in Runs(p),
         Leaves(y.branches, l.tree[n].ex, l.depth)
  PROVE  CGSState(p, size,
           CGSFields(Append([l.tree EXCEPT ![n].tried = @ \cup {l.depth}],
                            Node(y, l.tree[n].ex.constraints_idx[l.depth])),
                     l.k, l.depth, l.todo \ {n}, l.cache \cup {context},
                     Append(l.explored, y.branches)))
<1> DEFINE tree  == l.tree
           mid   == [tree EXCEPT ![n].tried = @ \cup {l.depth}]
           d     == l.depth
           x     == tree[n].ex
           e     == Node(y, x.constraints_idx[d])
           new   == Append(mid, e)
           ran   == Append(l.explored, y.branches)
           todo  == l.todo \ {n}
           cache == l.cache \cup {context}
           m     == CGSFields(new, l.k, d, todo, cache, ran)
           L     == Len(tree)
<1>1. /\ tree \in Seq(CGSTree(p)) /\ l.explored \in Seq(Paths[p])
      /\ l.k \in Nat \ {0}
      /\ Frontier(CGSNodes(tree), p, l.explored)
  BY DEF CGSState
<1>2. /\ CGSRecord(m)
      /\ m.tree = new /\ m.k = l.k /\ m.depth = d /\ m.todo = todo
      /\ m.explored = ran /\ m.cache = cache
  BY DEF CGSRecord, CGSFields
<1>3. /\ n \in 1 .. L /\ d \in Nat /\ L \in Nat /\ d \in CGSOpen(tree[n])
      /\ x \in Runs(p) /\ d \in 1 .. Len(x.constraints)
  BY CGSCurrent
<1>4. Leaves(y.branches, x, d)
  OBVIOUS
<1>5. CGSState(p, size, CGSFields(mid, l.k, d, todo, cache, l.explored))
  BY CGSTries
<1>6. /\ l.k > size => todo = {}
      /\ CGSToDo(mid, d, todo)
      /\ size > 0 => CGSSettled(size, mid, l.k, d, todo, cache)
  <2> DEFINE r == CGSFields(mid, l.k, d, todo, cache, l.explored)
  <2>1. r.tree = mid /\ r.k = l.k /\ r.depth = d /\ r.todo = todo /\ r.cache = cache
    BY DEF CGSFields
  <2> HIDE DEF r, mid, d, todo, cache
  <2>2. /\ r.k > size => r.todo = {}
        /\ CGSToDo(r.tree, r.depth, r.todo)
        /\ size > 0 => CGSSettled(size, r.tree, r.k, r.depth, r.todo, r.cache)
    BY <1>5 DEF CGSState, r
  <2> QED  BY <2>1, <2>2
<1>7. p \in Program /\ y.branches \in Paths[p] /\ x.constraints_idx[d] \in Nat
  BY <1>3, ExactRuns, PathsOfRuns, RunFacts
<1> HIDE DEF m, L, tree, d, x
<1>8. /\ mid \in Seq(CGSTree(p)) /\ Len(mid) = L
      /\ mid[n].ex = tree[n].ex /\ mid[n].div = tree[n].div
      /\ mid[n].tried = tree[n].tried \cup {d}
      /\ \A j \in 1 .. L : j # n => mid[j] = tree[j]
  <2>1. tree \in Seq(CGSTree(p)) /\ n \in 1 .. Len(tree)
    BY <1>1, <1>3 DEF L
  <2> QED  BY <1>3, <2>1, CGSMarks DEF L, d
<1>9. e \in CGSTree(p) /\ e.ex = y /\ e.div = x.constraints_idx[d] /\ e.tried = {}
  BY <1>7 DEF Node, CGSTree
<1> HIDE DEF mid, e
<1>10. /\ new \in Seq(CGSTree(p)) /\ Len(new) = L + 1 /\ new[L + 1] = e
       /\ \A j \in 1 .. L : new[j] = mid[j]
  BY <1>8, <1>9, Appended
<1>11. ran \in Seq(Paths[p])
  <2> DEFINE T == Paths[p]
             q == y.branches
  <2>1. l.explored \in Seq(T) /\ q \in T
    BY <1>1, <1>7
  <2> HIDE DEF T, q
  <2>2. Append(l.explored, q) \in Seq(T)
    BY <2>1, Appended
  <2> QED  BY <2>2 DEF T, q
<1> HIDE DEF new, ran
<1>12. CGSNodes(new) = Forked(CGSNodes(tree), n, d, L + 1, y)
  <2> DEFINE f == CGSNodes(tree)
  <2>1. /\ DOMAIN f = 1 .. L /\ f[n].ex = x /\ f[n].open = CGSOpen(tree[n])
        /\ \A j \in 1 .. L : f[j] = [ex |-> tree[j].ex, open |-> CGSOpen(tree[j])]
    BY <1>3 DEF CGSNodes, L, x
  <2>2. (1 .. L) \cup {L + 1} = 1 .. L + 1
    BY <1>3
  <2> HIDE DEF f
  <2>3. Forked(f, n, d, L + 1, y) = [j \in 1 .. L + 1 |->
          IF j = L + 1 THEN [ex |-> y, open |-> After(y, x.constraints_idx[d])]
          ELSE IF j = n THEN [ex |-> x, open |-> CGSOpen(tree[n]) \ {d}]
          ELSE f[j]]
    BY <2>1, <2>2 DEF Forked
  <2>4. CGSNodes(new) = [j \in 1 .. L + 1 |-> [ex |-> new[j].ex, open |-> CGSOpen(new[j])]]
    BY <1>10 DEF CGSNodes
  <2>5. ASSUME NEW j \in 1 .. L + 1
        PROVE  [ex |-> new[j].ex, open |-> CGSOpen(new[j])] =
               IF j = L + 1 THEN [ex |-> y, open |-> After(y, x.constraints_idx[d])]
               ELSE IF j = n THEN [ex |-> x, open |-> CGSOpen(tree[n]) \ {d}]
               ELSE f[j]
    <3>1. CASE j = L + 1
      BY <1>9, <1>10, <3>1 DEF CGSOpen
    <3>2. CASE j # L + 1 /\ j = n
      <4>1. new[j] = mid[n]
        BY <1>3, <1>10, <3>2
      <4> QED  BY <1>8, <3>2, <4>1 DEF CGSOpen, x
    <3>3. CASE j # L + 1 /\ j # n
      <4>1. j \in 1 .. L
        BY <1>3, <3>3
      <4> QED  BY <1>8, <1>10, <2>1, <3>3, <4>1
    <3> QED  BY <3>1, <3>2, <3>3
  <2> QED  BY <2>3, <2>4, <2>5 DEF f
<1>13. Frontier(CGSNodes(new), p, ran)
  <2> DEFINE f == CGSNodes(tree)
             k == L + 1
  <2>1. IsFamily(f, p)
    BY <1>1, CGSFamily
  <2>2. n \in DOMAIN f /\ d \in f[n].open /\ k \notin DOMAIN f /\ f[n].ex = x
    BY <1>3 DEF CGSNodes, L, x
  <2>3. Leaves(y.branches, f[n].ex, d)
    BY <1>4, <2>2
  <2> HIDE DEF f, k
  <2>4. Frontier(f, p, l.explored) => Frontier(Forked(f, n, d, k, y), p, ran)
    BY <2>1, <2>2, <2>3, ForkKeeps DEF ran
  <2> QED  BY <1>1, <1>12, <2>4 DEF f, k
<1>14. CGSToDo(new, d, todo)
  <2>1. \A j \in todo : j \in 1 .. L /\ d \in CGSOpen(mid[j])
    BY <1>6, <1>8 DEF CGSToDo
  <2>2. \A j \in todo : j \in 1 .. L + 1 /\ d \in CGSOpen(new[j])
    BY <1>3, <1>10, <2>1
  <2> HIDE DEF todo
  <2> QED  BY <1>10, <2>2 DEF CGSToDo
<1> HIDE DEF todo, cache
<1>15. ASSUME size > 0  PROVE CGSSettled(size, new, l.k, d, todo, cache)
  <2>1. ASSUME NEW j \in 1 .. L + 1, NEW i \in After(new[j].ex, new[j].div),
               ~(l.k < size), ~(l.k = size /\ (i > d \/ (i = d /\ j \in todo)))
        PROVE  Settled(new[j], i, size, cache)
    <3>1. CASE j = L + 1
      <4>1. i \in 1 .. Len(y.constraints) /\ x.constraints_idx[d] < y.constraints_idx[i]
        BY <1>9, <1>10, <2>1, <3>1 DEF After
      <4>2. d < i
        BY <1>3, <1>4, <4>1, BehindTheBranch
      <4>3. l.k = size
        <5>1. ~(l.k > size)
          BY CGSCurrent DEF d
        <5> QED  BY <1>1, <2>1, <5>1
      <4>4. i \in Nat /\ i > d
        <5>1. Len(y.constraints) \in Nat
          BY <1>7, RunFacts
        <5> QED  BY <1>3, <4>1, <4>2, <5>1
      <4> QED  BY <2>1, <4>3, <4>4
    <3>2. CASE j # L + 1
      <4>1. j \in 1 .. Len(mid) /\ new[j] = mid[j]
        BY <1>3, <1>8, <1>10, <3>2
      <4> QED  BY <1>6, <1>15, <2>1, <4>1 DEF CGSSettled
    <3> QED  BY <3>1, <3>2
  <2> QED  BY <1>10, <2>1 DEF CGSSettled
<1>16. new # << >>
  <2>1. Len(<< >>) = 0
    OBVIOUS
  <2> QED  BY <1>3, <1>10, <2>1
<1>17. CGSState(p, size, m)
  BY <1>1, <1>2, <1>3, <1>6, <1>10, <1>11, <1>13, <1>14, <1>15, <1>16 DEF CGSState
<1> QED  BY <1>17 DEF m, todo, cache, new, mid, e, ran, tree, d, x

CGSInv == strategy = "-cgs" /\ Exact => CGSState(program, max_depth, local)

\* The invariant holds before the first run.
LEMMA CGSInvInit == Init => CGSInv
<1> SUFFICES ASSUME Init, strategy = "-cgs", Exact
             PROVE  CGSState(program, max_depth, local)
  BY DEF CGSInv
<1>1. local = CGSFields(<< >>, 1, 0, {}, {}, << >>)
  BY DEF Init, InitStrategy, InitCGS, CGSFields
<1>2. max_depth \in Nat
  BY SearchAssumption DEF Init, InitSearch, SearchAssumption
<1> QED  BY <1>1, <1>2, CGSForgets

\* Every step of the context-guided search keeps it.
LEMMA CGSInvKept ==
  ASSUME TypeOK, CGSInv, Next, strategy = "-cgs", Exact
  PROVE  CGSInv'
<1> DEFINE Goal == CGSState(program, max_depth, local')
<1>1. program' = program /\ max_depth' = max_depth /\ strategy' = strategy
  BY EnvironmentKept
<1> SUFFICES Goal
  BY <1>1 DEF CGSInv, Exact
<1>2. CGSState(program, max_depth, local)
  BY DEF CGSInv
<1>3. max_depth \in Nat /\ program \in ExactPrograms
  BY DepthIsNat DEF Exact
<1>4. UNCHANGED local => Goal
  BY <1>2
<1>5. CGSRecord(local)
  BY <1>2 DEF CGSState
<1>6. CASE CGSStart
  <2>1. local.tree = << >>
    BY <1>6 DEF CGSStart
  <2>2. CASE ~UNCHANGED local
    <3>1. PICK a \in Assign :
            RunAndCover(a, [local EXCEPT !.tree = << Node(szd_execution', -1) >>,
                                         !.explored = << szd_execution'.branches >>])
      BY <1>6, <2>2 DEF CGSStart, Launch, Completions
    <3>2. /\ RunProgram(a)
          /\ local' = [local EXCEPT !.tree = << Node(szd_execution', -1) >>,
                                    !.explored = << szd_execution'.branches >>]
      BY <3>1, <2>2 DEF RunAndCover
    <3>3. PICK y \in Runs(program) : szd_execution' = y
      BY <3>2, ExactRun
    <3>4. local' = CGSFields(<< Node(y, -1) >>, local.k, local.depth, local.todo, local.cache,
                             << y.branches >>)
      <4> DEFINE a1 == << Node(y, -1) >>
                 b1 == << y.branches >>
      <4>1. local' = [local EXCEPT !.tree = a1, !.explored = b1]
        BY <3>2, <3>3
      <4> HIDE DEF a1, b1
      <4>2. local' = CGSFields(a1, local.k, local.depth, local.todo, local.cache, b1)
        BY <1>5, <4>1, CGSGrows
      <4> QED  BY <4>2 DEF a1, b1
    <3> QED  BY <1>2, <1>3, <2>1, <3>4, CGSStarts
  <2> QED  BY <1>4, <2>2
<1>7. CASE CGSDeeper
  <2>1. CASE ~UNCHANGED local
    <3> DEFINE todo == GetExAtDepth(local.depth + 1)
    <3>1. /\ local.tree # << >> /\ local.todo = {} /\ local.k <= max_depth
          /\ local' = [local EXCEPT !.depth = local.depth + 1, !.todo = todo]
      BY <1>7, <2>1 DEF CGSDeeper, LevelDone
    <3>2. todo = {n \in 1 .. Len(local.tree) :
                    /\ local.depth + 1 \notin local.tree[n].tried
                    /\ local.depth + 1 <= Len(local.tree[n].ex.constraints)
                    /\ local.tree[n].ex.constraints_idx[local.depth + 1] > local.tree[n].div}
      BY DEF GetExAtDepth
    <3> HIDE DEF todo
    <3>3. local' = CGSFields(local.tree, local.k, local.depth + 1, todo, local.cache,
                             local.explored)
      BY <1>5, <3>1, CGSDescends
    <3>4. CGSState(program, max_depth,
                   CGSFields(local.tree, local.k, local.depth + 1, todo, local.cache,
                             local.explored))
      BY <1>2, <1>3, <3>1, <3>2, CGSGoesDeeper
    <3> QED  BY <3>3, <3>4
  <2> QED  BY <1>4, <2>1
<1>8. CASE CGSWiden
  <2>1. /\ local.tree # << >> /\ local.todo = {} /\ local.k <= max_depth
        /\ local.depth >= MaxDepthT
        /\ local' = [local EXCEPT !.k = local.k + 1, !.depth = 0]
    BY <1>8 DEF CGSWiden, LevelDone
  <2>2. local' = CGSFields(local.tree, local.k + 1, 0, local.todo, local.cache, local.explored)
    BY <1>5, <2>1, CGSReturnsToTop
  <2>3. CGSState(program, max_depth,
                 CGSFields(local.tree, local.k + 1, 0, local.todo, local.cache, local.explored))
    BY <1>2, <1>3, <2>1, CGSWidens DEF MaxDepthT
  <2> QED  BY <2>2, <2>3
<1>9. CASE CGSRestart
  <2>1. local' = CGSFields(<< >>, 1, 0, {}, {}, << >>)
    BY <1>9 DEF CGSRestart, CGSFields
  <2> QED  BY <1>3, <2>1, CGSForgets
<1>10. ASSUME NEW n \in local.todo, CGSVisited(n)  PROVE Goal
  <2> DEFINE todo == local.todo \ {n}
  <2>1. /\ GetContext(local.tree[n].ex, local.depth, local.k) \in local.cache
        /\ local' = [local EXCEPT !.todo = todo]
    BY <1>10 DEF CGSVisited, Context, Parent
  <2>2. local' = CGSFields(local.tree, local.k, local.depth, todo, local.cache, local.explored)
    <3> HIDE DEF todo
    <3> QED  BY <1>5, <2>1, CGSDrops
  <2>3. CGSState(program, max_depth, CGSFields(local.tree, local.k, local.depth, todo,
                                               local.cache, local.explored))
    BY <1>2, <1>3, <2>1, CGSPasses
  <2> QED  BY <2>2, <2>3
<1>11. ASSUME NEW n \in local.todo
       PROVE  Tries(n) = CGSFields([local.tree EXCEPT ![n].tried = @ \cup {local.depth}],
                                   local.k, local.depth, local.todo \ {n},
                                   local.cache \cup {Context(n)}, local.explored)
  <2> DEFINE a == local.todo \ {n}
             b == [local.tree EXCEPT ![n].tried = @ \cup {local.depth}]
             c == local.cache \cup {Context(n)}
  <2>1. Tries(n) = [local EXCEPT !.todo = a, !.tree = b, !.cache = c]
    BY DEF Tries
  <2> HIDE DEF a, b, c
  <2>2. Tries(n) = CGSFields(b, local.k, local.depth, a, c, local.explored)
    BY <1>5, <2>1, CGSMarksOff
  <2> QED  BY <2>2 DEF a, b, c
<1>12. ASSUME NEW n \in local.todo, CGSUnsolved(n)  PROVE Goal
  <2>1. local' = Tries(n)
    BY <1>12 DEF CGSUnsolved
  <2>2. CGSState(program, max_depth, Tries(n))
    <3> DEFINE c == Context(n)
    <3> HIDE DEF c
    <3>1. CGSState(program, max_depth,
                   CGSFields([local.tree EXCEPT ![n].tried = @ \cup {local.depth}], local.k,
                             local.depth, local.todo \ {n}, local.cache \cup {c},
                             local.explored))
      BY <1>2, <1>3, <1>12, CGSTries
    <3> QED  BY <1>11, <1>12, <3>1 DEF c
  <2> QED  BY <2>1, <2>2
<1>13. ASSUME NEW n \in local.todo, CGSForce(n)  PROVE Goal
  <2> DEFINE x == local.tree[n].ex
             d == local.depth
  <2>1. x \in Runs(program) /\ d \in 1 .. Len(x.constraints)
    BY <1>2, <1>3, CGSCurrent
  <2>2. PICK input \in CanSolveNew(x, d) :
          UNCHANGED local \/ \E a \in Completions(input) :
            RunAndCover(a, Grown(n, szd_execution'))
    BY <1>13 DEF CGSForce, Launch, Parent
  <2>3. CASE ~UNCHANGED local
    <3>1. PICK a \in Completions(input) : RunAndCover(a, Grown(n, szd_execution'))
      BY <2>2, <2>3
    <3>2. RunProgram(a) /\ local' = Grown(n, szd_execution') /\ a \in Assign
      BY <2>3, <3>1 DEF RunAndCover, Completions
    <3>3. PICK y \in Runs(program) : szd_execution' = y /\ y = Executions[program][a]
      BY <3>2, ExactRun
    <3>4. Leaves(y.branches, x, d)
      <4>1. input \in CanSolveNew(x, d)
        OBVIOUS
      <4> HIDE DEF x, d
      <4> QED  BY <1>3, <2>1, <3>3, <4>1, SolvedLeaves
    <3> DEFINE t == Tries(n)
               e == Node(y, x.constraints_idx[d])
    <3>5. local' = [t EXCEPT !.tree = Append(t.tree, e),
                             !.explored = Append(t.explored, y.branches)]
      <4>1. Predicted(x, y, d)
        BY <3>4, PredictedLeaves
      <4>2. Parent(n) = x
        BY DEF Parent
      <4> HIDE DEF x
      <4> QED  BY <3>2, <3>3, <4>1, <4>2 DEF Grown
    <3>6. /\ CGSRecord(t)
          /\ t.tree = [local.tree EXCEPT ![n].tried = @ \cup {local.depth}]
          /\ t.k = local.k /\ t.depth = local.depth /\ t.todo = local.todo \ {n}
          /\ t.cache = local.cache \cup {Context(n)} /\ t.explored = local.explored
      <4> DEFINE a1 == [local.tree EXCEPT ![n].tried = @ \cup {local.depth}]
                 b1 == local.todo \ {n}
                 c1 == local.cache \cup {Context(n)}
      <4>1. t = CGSFields(a1, local.k, local.depth, b1, c1, local.explored)
        BY <1>11
      <4> HIDE DEF a1, b1, c1, t
      <4>2. /\ CGSRecord(t) /\ t.tree = a1 /\ t.k = local.k /\ t.depth = local.depth
            /\ t.todo = b1 /\ t.cache = c1 /\ t.explored = local.explored
        BY <4>1 DEF CGSRecord, CGSFields
      <4> QED  BY <4>2 DEF a1, b1, c1
    <3> HIDE DEF t, e
    <3>7. local' = CGSFields(Append(t.tree, e), t.k, t.depth, t.todo, t.cache,
                             Append(t.explored, y.branches))
      <4> DEFINE a1 == Append(t.tree, e)
                 b1 == Append(t.explored, y.branches)
      <4>1. local' = [t EXCEPT !.tree = a1, !.explored = b1]
        BY <3>5
      <4> HIDE DEF a1, b1
      <4>2. CGSRecord(t)
        BY <3>6
      <4>3. [t EXCEPT !.tree = a1, !.explored = b1] =
              CGSFields(a1, t.k, t.depth, t.todo, t.cache, b1)
        BY <4>2, CGSGrows
      <4> QED  BY <4>1, <4>3 DEF a1, b1
    <3>8. CGSState(program, max_depth,
            CGSFields(Append([local.tree EXCEPT ![n].tried = @ \cup {local.depth}], e),
                      local.k, local.depth, local.todo \ {n}, local.cache \cup {Context(n)},
                      Append(local.explored, y.branches)))
      BY <1>2, <1>3, <3>4, CGSForces DEF e
    <3> QED  BY <3>6, <3>7, <3>8
  <2> QED  BY <1>4, <2>3
<1>14. NextCGS
  BY DEF Next, NextStrategy
<1> HIDE DEF Goal
<1> QED  BY <1>6, <1>7, <1>8, <1>9, <1>10, <1>12, <1>13, <1>14 DEF NextCGS
-----------------------------------------------------------------------------
(***************************************************************************)
(* The invariant of the three, and what follows from it.                   *)
(***************************************************************************)
ExploredInv == DFSInv /\ GenInv /\ CGSInv

\* What is left for a search to do is right in every reachable state: no path is
\* left to two nodes or was run before, and those of a deep enough systematic
\* search cover what was not run.
THEOREM ExploredInvariant == Spec => []ExploredInv
<1>1. Init => ExploredInv
  BY DFSInvInit, GenInvInit, CGSInvInit DEF ExploredInv
<1>2. TypeOK /\ ExploredInv /\ [Next]_vars => ExploredInv'
  <2> SUFFICES ASSUME TypeOK, ExploredInv, [Next]_vars  PROVE ExploredInv'
    OBVIOUS
  <2>1. CASE Next
    <3>1. program' = program /\ strategy' = strategy
      BY <2>1, EnvironmentKept
    <3>2. Exact' <=> Exact
      BY <3>1 DEF Exact
    <3>3. DFSInv'
      <4>1. CASE strategy = "-dfs" /\ Exact
        BY <2>1, <4>1, DFSInvKept DEF ExploredInv
      <4>2. CASE ~(strategy = "-dfs" /\ Exact)
        BY <3>1, <3>2, <4>2 DEF DFSInv
      <4> QED  BY <4>1, <4>2
    <3>4. GenInv'
      <4>1. CASE strategy = "-generational" /\ Exact
        BY <2>1, <4>1, GenInvKept DEF ExploredInv
      <4>2. CASE ~(strategy = "-generational" /\ Exact)
        BY <3>1, <3>2, <4>2 DEF GenInv
      <4> QED  BY <4>1, <4>2
    <3>5. CGSInv'
      <4>1. CASE strategy = "-cgs" /\ Exact
        BY <2>1, <4>1, CGSInvKept DEF ExploredInv
      <4>2. CASE ~(strategy = "-cgs" /\ Exact)
        BY <3>1, <3>2, <4>2 DEF CGSInv
      <4> QED  BY <4>1, <4>2
    <3> QED  BY <3>3, <3>4, <3>5 DEF ExploredInv
  <2>2. CASE UNCHANGED vars
    <3>1. UNCHANGED << program, strategy, max_depth, local >>
      BY <2>2 DEF vars, searchVars, environment
    <3>2. (DFSInv' <=> DFSInv) /\ (GenInv' <=> GenInv) /\ (CGSInv' <=> CGSInv)
      BY <3>1 DEF DFSInv, GenInv, CGSInv, Exact
    <3> QED  BY <3>2 DEF ExploredInv
  <2> QED  BY <2>1, <2>2
<1> QED  BY <1>1, <1>2, CampaignTypeCorrect, PTL DEF Spec

\* The depth-first, the generational and the context-guided search run no path of
\* an exact program twice between two restarts.
THEOREM NoPathTwiceHolds == Spec => []NoPathTwice
<1>1. ExploredInv => NoPathTwice
  <2> SUFFICES ASSUME ExploredInv, Systematic \/ strategy = "-cgs", Exact
               PROVE  \E f : Frontier(f, program, local.explored)
    BY DEF NoPathTwice, Frontier
  <2>1. CASE strategy = "-dfs"
    BY <2>1 DEF ExploredInv, DFSInv, DFSState
  <2>2. CASE strategy = "-generational"
    BY <2>2 DEF ExploredInv, GenInv, GenState
  <2>3. CASE strategy = "-cgs"
    BY <2>3 DEF ExploredInv, CGSInv, CGSState
  <2> QED  BY <2>1, <2>2, <2>3 DEF Systematic
<1> QED  BY <1>1, ExploredInvariant, PTL

\* When no node is left, every path was run.
LEMMA NothingAhead ==
  ASSUME NEW p, NEW f, DOMAIN f = {}, NEW explored \in Seq(Paths[p]), Covers(f, p, explored)
  PROVE  Values(explored) = Paths[p]
<1>1. Paths[p] \subseteq Values(explored)
  BY DEF Covers
<1>2. Values(explored) \subseteq Paths[p]
  BY ElementOfSeq DEF Values
<1> QED  BY <1>1, <1>2

\* When a systematic search of an exact program starts over, it has run every path
\* of the program: a depth-first search if its depth is at least the number of
\* constraints of every path.
THEOREM AllPathsExploredHolds == Spec => []AllPathsExplored
<1>1. ExploredInv => AllPathsExplored
  <2> SUFFICES ASSUME ExploredInv, Idle, Exact, strategy = "-dfs" => DeepEnough
               PROVE  Values(local.explored) = Paths[program]
    BY DEF AllPathsExplored
  <2>1. CASE strategy = "-dfs"
    <3> DEFINE f == DFSNodes(local.frames)
    <3>1. /\ local.explored # << >> /\ local.frames = << >>
          /\ DFSState(program, max_depth, local.frames, local.explored)
      BY <2>1 DEF Idle, InCall, ExploredInv, DFSInv
    <3>2. \A x \in Runs(program) : Len(x.constraints) <= max_depth
      BY <2>1 DEF DeepEnough, Execution, Runs
    <3>3. Covers(f, program, local.explored) /\ local.explored \in Seq(Paths[program])
      BY <3>1, <3>2 DEF DFSState, DFSCovers
    <3>4. DOMAIN f = {}
      <4>1. Len(<< >>) = 0 /\ 1 .. 0 = {}
        OBVIOUS
      <4> QED  BY <3>1, <4>1 DEF DFSNodes
    <3> HIDE DEF f
    <3> QED  BY <3>3, <3>4, NothingAhead
  <2>2. CASE strategy = "-generational"
    <3> DEFINE f == GenNodes(local.targets, local.target)
    <3>1. /\ local.explored # << >> /\ local.target = << >> /\ local.targets = << >>
          /\ GenState(program, local.targets, local.target, local.explored)
      BY <2>2 DEF Idle, Expanding, ExploredInv, GenInv
    <3>2. Covers(f, program, local.explored) /\ local.explored \in Seq(Paths[program])
      BY <3>1 DEF GenState
    <3>3. DOMAIN f = {}
      <4>1. Len(<< >>) = 0 /\ 1 .. 0 = {}
        OBVIOUS
      <4> QED  BY <3>1, <4>1 DEF GenNodes, GenNumbers
    <3> HIDE DEF f
    <3> QED  BY <3>2, <3>3, NothingAhead
  <2> QED  BY <2>1, <2>2 DEF Idle, Systematic
<1> QED  BY <1>1, ExploredInvariant, PTL

\* A depth-first search of an exact program makes at most 2^max_depth runs between
\* two restarts.
THEOREM DepthBoundsRunsHolds == Spec => []DepthBoundsRuns
<1>1. TypeOK /\ ExploredInv => DepthBoundsRuns
  <2> SUFFICES ASSUME TypeOK, ExploredInv, strategy = "-dfs", Exact
               PROVE  Len(local.explored) <= 2 ^ max_depth
    BY DEF DepthBoundsRuns
  <2> DEFINE L   == Len(local.frames)
             ran == Len(local.explored)
             all == 2 ^ max_depth
  <2>1. DFSState(program, max_depth, local.frames, local.explored)
    BY DEF ExploredInv, DFSInv
  <2>2. L \in Nat /\ ran \in Nat
    BY <2>1, LenProperties DEF DFSState
  <2>3. all \in Nat
    BY DepthIsNat, Powers
  <2>4. PICK s \in [0 .. L -> Nat] : s[L] + ran <= all
    BY <2>1 DEF DFSState, DFSBudget
  <2> HIDE DEF L, ran, all
  <2>5. s[L] \in Nat
    BY <2>2
  <2>6. ran <= all
    BY <2>2, <2>3, <2>4, <2>5
  <2> QED  BY <2>6 DEF ran, all
<1> QED  BY <1>1, ExploredInvariant, CampaignTypeCorrect, PTL

\* When a context-guided search of an exact program starts over, every constraint
\* that was open to it has been tried or has a context that was.
THEOREM ContextsExhaustedHolds == Spec => []ContextsExhausted
<1>1. TypeOK /\ ExploredInv => ContextsExhausted
  <2> SUFFICES ASSUME TypeOK, ExploredInv, strategy = "-cgs", Exact, max_depth > 0,
                      local.k > max_depth,
                      NEW n \in 1 .. Len(local.tree),
                      NEW i \in 1 .. Len(local.tree[n].ex.constraints),
                      ~(local.tree[n].ex.constraints_idx[i] <= local.tree[n].div)
               PROVE  Settled(local.tree[n], i, max_depth, local.cache)
    BY DEF ContextsExhausted, Settled
  <2>1. CGSState(program, max_depth, local)
    BY DEF ExploredInv, CGSInv
  <2>2. /\ local.tree \in Seq(CGSTree(program)) /\ local.k \in Nat
        /\ CGSSettled(max_depth, local.tree, local.k, local.depth, local.todo, local.cache)
    BY <2>1 DEF CGSState
  <2>3. max_depth \in Nat /\ program \in Program
    BY DepthIsNat, ExactRuns DEF Exact
  <2>4. i \in After(local.tree[n].ex, local.tree[n].div)
    <3>1. local.tree[n].ex \in Runs(program) /\ local.tree[n].div \in Int
      BY <2>2, CGSFamily
    <3>2. local.tree[n].ex.constraints_idx[i] \in Nat
      BY <2>3, <3>1, RunFacts
    <3> QED  BY <3>1, <3>2 DEF After
  <2>5. ~(local.k < max_depth) /\ ~(local.k = max_depth)
    BY <2>2, <2>3
  <2> QED  BY <2>2, <2>4, <2>5 DEF CGSSettled
<1> QED  BY <1>1, ExploredInvariant, CampaignTypeCorrect, PTL
=============================================================================
