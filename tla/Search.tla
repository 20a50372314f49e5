-------------------------------- MODULE Search --------------------------------
(***************************************************************************)
(* The base class Search of src/run_crest/concolic_search.cc: running the  *)
(* program under test, solving for the other side of a branch and counting *)
(* coverage.  Strategies extend this module and compose its operators.     *)
(*                                                                         *)
(* The program under test is external: from the inputs it reads it makes   *)
(* an execution, as InstrumentedProgram says, or it crashes before         *)
(* __CrestAtExit writes one.  The thresholds of features are left out,     *)
(* since no feature sees what UpdateCoverage computes.                     *)
(***************************************************************************)
EXTENDS YicesSolver, FiniteSets

CONSTANTS
  Branch,           \* the ids in the file "branches"
  paired_branch,    \* the other side of each branch
  branch_function,  \* the function it is in
  Program,          \* programs under test
  Behaviour,        \* of each one and each assignment, what it does
  InitialInputs,    \* contents of the initial input file; << >> if "random"
  Leftovers,        \* szd_execution before the first run; NULL if absent
  MaxIters,         \* number of iterations
  MaxDepths,        \* values of the strategies' max_depth
  MaxCount,         \* bound on the statistics of the solver
  NULL

VARIABLES
  program,         \* the program under test
  input_file,      \* the initial input
  max_depth,       \* of the strategies that have one
  szd_execution,   \* the file that the runs write
  last_run,        \* history: the inputs of the last run
  num_iters, covered, num_covered, total_covered, total_num_covered,
  reached, reachable_functions, reachable_branches,
  num_smt_try, num_smt_unsat, bid_unsat_count,
  coverage,          \* the files "coverage"
  covered_branches,  \*   "covered_branches"
  covered_functions, \*   and "covered_functions"
  status,            \* "running", "exited" or "aborted"
  local              \* local variables and members of the strategy

environment == << program, input_file, max_depth >>
statistics == << num_smt_try, num_smt_unsat, bid_unsat_count >>
coverageVars == << covered, num_covered, total_covered, total_num_covered,
                   reached, reachable_functions, reachable_branches, coverage >>
reports == << covered_branches, covered_functions >>
searchVars == << environment, szd_execution, last_run, num_iters, coverageVars,
                 statistics, reports, status, local >>

Values(seq) == {seq[i] : i \in 1 .. Len(seq)}

Function == {branch_function[b] : b \in Branch}

BranchesOf(funs) == {b \in Branch : branch_function[b] \in funs}

-----------------------------------------------------------------------------
(***************************************************************************)
(* Executions.                                                             *)
(***************************************************************************)

\* What a run of a program p with the inputs a writes: the inputs it read and
\* its path.
Executions ==
  [p \in Program |-> [a \in Assign |->
     LET b == Behaviour[p][a] IN
     [inputs |-> [v \in 0 .. b.reads - 1 |-> a[v]], branches |-> b.branches,
      constraints |-> b.constraints, constraints_idx |-> b.constraints_idx]]]

Execution(a) == Executions[program][a]

Crashes(a) == Behaviour[program][a].crashes

\* The inputs that the program can have if it is given some of them: those it
\* reads beyond are random.
Completions(given) == {a \in Assign : \A v \in DOMAIN given \cap Var : a[v] = given[v]}

Executed(ex) == {b \in Values(ex.branches) : b > 0}

\* Branches count from 1 and the two of a condition are different.  Runs are of a
\* program whose branches are all in the file "branches".
SearchAssumption ==
  /\ IsFiniteSet(Branch) /\ Branch \subseteq Nat \ {0}
  /\ \A b \in Branch : paired_branch[b] \in Branch \ {b}
  /\ MaxIters \in Nat /\ MaxCount \in Nat /\ MaxDepths \subseteq Nat
  /\ \A p \in Program, a \in Assign : Executed(Executions[p][a]) \subseteq Branch
  /\ \A ex \in Leftovers \ {NULL} : Executed(ex) \subseteq Branch
ASSUME SearchAssumption

BranchAt(ex, i) == ex.branches[ex.constraints_idx[i] + 1]

\* The branches whose conditions are symbolic are in the file "branches".
KnownBranches(ex) == \A i \in 1 .. Len(ex.constraints) : BranchAt(ex, i) \in Branch

\* A path has branches and marks of calls and returns, which are negative.  Each
\* constraint has the position of its branch, and positions increase, as
\* PathWellFormed says of what an instrumented program writes.
WellFormed(ex) ==
  /\ ex.branches \in Seq(Int) /\ 0 \notin Values(ex.branches)
  /\ ex.constraints \in Seq(Constraint)
  /\ ex.constraints_idx \in Seq(Nat) /\ Len(ex.constraints_idx) = Len(ex.constraints)
  /\ \A i \in 1 .. Len(ex.constraints) : ex.constraints_idx[i] < Len(ex.branches)
  /\ \A i, j \in 1 .. Len(ex.constraints) :
       i < j => ex.constraints_idx[i] < ex.constraints_idx[j]
  /\ KnownBranches(ex)

PathsAssumption ==
  /\ \A p \in Program, a \in Assign : WellFormed(Executions[p][a])
  /\ \A ex \in Leftovers \ {NULL} : WellFormed(ex)
ASSUME PathsAssumption

\* Mutant of CheckPrediction: the branches before branch_idx are not compared.
CheckPredictionLast(old_ex, new_ex, branch_idx) ==
  /\ branch_idx < Len(old_ex.branches)
  /\ branch_idx < Len(new_ex.branches)
  /\ new_ex.branches[branch_idx + 1] = paired_branch[old_ex.branches[branch_idx + 1]]

\* Positions in branches count from 0.
CheckPrediction(old_ex, new_ex, branch_idx) ==
  /\ branch_idx < Len(old_ex.branches)
  /\ branch_idx < Len(new_ex.branches)
  /\ \A j \in 1 .. branch_idx : new_ex.branches[j] = old_ex.branches[j]
  /\ new_ex.branches[branch_idx + 1] = paired_branch[old_ex.branches[branch_idx + 1]]

Predicted(old_ex, new_ex, i) ==
  CheckPrediction(old_ex, new_ex, old_ex.constraints_idx[i])

-----------------------------------------------------------------------------
(***************************************************************************)
(* Solving for the other side of the i-th constraint.                      *)
(***************************************************************************)
Increment(n) == IF n < MaxCount THEN n + 1 ELSE n

AllExecutions == {Executions[p][a] : p \in Program, a \in Assign}

\* The inputs that SolveAtBranch and SolveAtBranchNew can give for each branch.
SolveAtBranch ==
  [ex \in AllExecutions |-> [i \in 1 .. Len(ex.constraints) |->
     Solutions(ex.inputs, ex.constraints, i)]]
SolveAtBranchNew ==
  [ex \in AllExecutions |-> [i \in 1 .. Len(ex.constraints) |->
     SolutionsNew(ex.inputs, ex.constraints, i)]]

CanSolve(ex, i) == SolveAtBranch[ex][i]
CanSolveNew(ex, i) == SolveAtBranchNew[ex][i]

SolveSucceeds ==
  /\ num_smt_try' = Increment(num_smt_try)
  /\ UNCHANGED << num_smt_unsat, bid_unsat_count >>

\* A failure is counted for the branch not reached, unless it is found by
\* comparing constraints.
SolveFails(ex, i) ==
  /\ CanSolve(ex, i) = {}
  /\ num_smt_try' = Increment(num_smt_try)
  /\ num_smt_unsat' = Increment(num_smt_unsat)
  /\ bid_unsat_count' =
       IF Repeats(ex.constraints, i) THEN bid_unsat_count
       ELSE [bid_unsat_count EXCEPT ![paired_branch[BranchAt(ex, i)]] = Increment(@)]

-----------------------------------------------------------------------------
(***************************************************************************)
(* Running the program.                                                    *)
(***************************************************************************)

\* The first run has the initial input, the others have what they are given.
InitialInput == IF num_iters = 0 THEN input_file ELSE << >>

\* Mutant of RunProgram: the test of the budget is off by one.
RunProgramOneMore(a) ==
  /\ num_iters <= MaxIters
  /\ num_iters' = num_iters + 1
  /\ last_run' = a
  /\ szd_execution' = IF Crashes(a) THEN szd_execution ELSE Execution(a)
  /\ status' = IF szd_execution' = NULL THEN "aborted" ELSE "running"
  /\ UNCHANGED << environment, reports >>

\* Mutant of RunProgram: only the runs that leave an execution are counted.
RunProgramUncounted(a) ==
  /\ num_iters < MaxIters
  /\ num_iters' = IF Crashes(a) THEN num_iters ELSE num_iters + 1
  /\ last_run' = a
  /\ szd_execution' = IF Crashes(a) THEN szd_execution ELSE Execution(a)
  /\ status' = IF szd_execution' = NULL THEN "aborted" ELSE "running"
  /\ UNCHANGED << environment, reports >>

\* A run with the inputs a.  A program that crashes leaves the file as it was.
RunProgram(a) ==
  /\ num_iters < MaxIters
  /\ num_iters' = num_iters + 1
  /\ last_run' = a
  /\ szd_execution' = IF Crashes(a) THEN szd_execution ELSE Execution(a)
  /\ status' = IF szd_execution' = NULL THEN "aborted" ELSE "running"
  /\ UNCHANGED << environment, reports >>

\* RunProgram's way out, when the iterations or the time are used up.
PrintFinalResult ==
  /\ num_iters' = num_iters + 1
  /\ status' = "exited"
  /\ covered_branches' = total_covered
  /\ covered_functions' = reached
  /\ UNCHANGED << environment, szd_execution, last_run, coverageVars >>

\* Mutant of UpdateCoverage: the file is written before the new branches count.
UpdateCoverageLate(ex) ==
  LET executed == Executed(ex)
      new      == executed \ covered
      funs     == {branch_function[b] : b \in new} \ reached
  IN
  /\ covered' = covered \cup new
  /\ num_covered' = num_covered + Cardinality(new)
  /\ total_covered' = total_covered \cup executed
  /\ total_num_covered' = total_num_covered + Cardinality(executed \ total_covered)
  /\ reached' = reached \cup funs
  /\ reachable_functions' = reachable_functions + Cardinality(funs)
  /\ reachable_branches' = reachable_branches + Cardinality(BranchesOf(funs))
  /\ coverage' = IF new # {} THEN total_covered ELSE coverage

\* UpdateCoverage's result.
FoundNewBranch(ex) == Executed(ex) \ covered # {}

UpdateCoverage(ex) ==
  LET executed == Executed(ex)
      new      == executed \ covered
      funs     == {branch_function[b] : b \in new} \ reached
  IN
  /\ covered' = covered \cup new
  /\ num_covered' = num_covered + Cardinality(new)
  /\ total_covered' = total_covered \cup executed
  /\ total_num_covered' = total_num_covered + Cardinality(executed \ total_covered)
  /\ reached' = reached \cup funs
  /\ reachable_functions' = reachable_functions + Cardinality(funs)
  /\ reachable_branches' = reachable_branches + Cardinality(BranchesOf(funs))
  /\ coverage' = IF new # {} THEN total_covered' ELSE coverage

\* RunProgram and UpdateCoverage, with what the strategy does next.  RunProgram
\* asserts that there is an execution to read.
RunAndCover(a, next) ==
  /\ RunProgram(a)
  /\ IF status' = "running"
       THEN UpdateCoverage(szd_execution') /\ local' = next
       ELSE UNCHANGED << coverageVars, local >>

\* A call of RunProgram with an input.
Launch(given, next) ==
  \/ PrintFinalResult /\ UNCHANGED local
  \/ \E a \in Completions(given) : RunAndCover(a, next)

\* A step of the strategy that runs nothing.
NoRun == UNCHANGED << environment, szd_execution, last_run, num_iters,
                      coverageVars, reports, status >>

InitSearch ==
  /\ program \in Program
  /\ input_file \in InitialInputs
  /\ max_depth \in MaxDepths
  /\ szd_execution \in Leftovers
  /\ last_run = NULL
  /\ num_iters = 0
  /\ covered = {} /\ num_covered = 0
  /\ total_covered = {} /\ total_num_covered = 0
  /\ reached = {} /\ reachable_functions = 0 /\ reachable_branches = 0
  /\ num_smt_try = 0 /\ num_smt_unsat = 0
  /\ bid_unsat_count = [b \in Branch |-> 0]
  /\ coverage = {} /\ covered_branches = {} /\ covered_functions = {}
  /\ status = "running"
-----------------------------------------------------------------------------
(***************************************************************************)
(* Properties of every strategy.                                           *)
(***************************************************************************)

\* The counters that are printed, logged and written after every iteration
\* agree with the sets they count.
CoverageAgrees ==
  /\ num_covered = Cardinality(covered)
  /\ covered \subseteq total_covered
  /\ total_num_covered = Cardinality(total_covered)
  /\ reached = {branch_function[b] : b \in total_covered}
  /\ reachable_functions = Cardinality(reached)
  /\ reachable_branches = Cardinality(BranchesOf(reached))
  /\ coverage = total_covered

\* A run that RunProgram makes is the run whose execution it reads.
ReadsOwnExecution ==
  [][status' = "running" /\ last_run' # last_run =>
       szd_execution' = Execution(last_run')]_searchVars

\* b satisfies the constraints up to the i-th.
Follows(b, ex, i) == \A j \in 1 .. i : Holds(ex.constraints[j], b)

\* Two executions that are the same before the position idx and have a branch there.
Meet(ex, other, idx) ==
  /\ idx < Len(ex.branches) /\ idx < Len(other.branches)
  /\ \A j \in 1 .. idx : ex.branches[j] = other.branches[j]

\* The constraints are of inputs that were read, and these satisfy them.
HoldsOfInputs(ex, a) ==
  /\ \A i \in 1 .. Len(ex.constraints) : AppendVars(ex.constraints[i]) \subseteq DOMAIN ex.inputs
  /\ Follows(a, ex, Len(ex.constraints))

\* An input that satisfies the constraints takes the path, one that violates the
\* i-th first leaves it at that branch.
Decides(ex, other, b) ==
  /\ Follows(b, ex, Len(ex.constraints)) => other.branches = ex.branches
  /\ \A i \in 1 .. Len(ex.constraints) :
       Follows(b, ex, i - 1) /\ ~Holds(ex.constraints[i], b) => Predicted(ex, other, i)

\* A branch that has a constraint on one path has it, at the same index, on every
\* path that comes to it the same way.
Aligned(ex, other) ==
  \A i \in 1 .. Len(ex.constraints) :
    Meet(ex, other, ex.constraints_idx[i]) =>
      i <= Len(other.constraints) /\ other.constraints_idx[i] = ex.constraints_idx[i]

\* The programs whose constraints decide the path.
ExactPrograms ==
  {p \in Program :
     /\ \A a \in Assign : ~Behaviour[p][a].crashes
     /\ \A a \in Assign : HoldsOfInputs(Executions[p][a], a)
     /\ \A a, b \in Assign : /\ Decides(Executions[p][a], Executions[p][b], b)
                             /\ Aligned(Executions[p][a], Executions[p][b])}

Exact == program \in ExactPrograms

\* The paths of each program, and the sets of branches its runs cover.
Paths == [p \in Program |-> {Executions[p][a].branches : a \in Assign}]
Observations == [p \in Program |-> {Executed(Executions[p][a]) : a \in Assign}]
=============================================================================
