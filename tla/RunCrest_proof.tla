---------------------------- MODULE RunCrest_proof ----------------------------
(***************************************************************************)
(* Proofs about the campaigns of run_crest.  What matters of a step for    *)
(* them is only how it uses the base class: it runs the program and counts *)
(* its branches, or runs it without, or reports, or forgets what is        *)
(* covered, or does nothing of these.                                      *)
(***************************************************************************)
EXTENDS RunCrest, Operators_proof, SequenceTheorems

\* A run whose branches UpdateCoverage counts, if there is an execution.
Counted ==
  /\ \E a \in Assign : RunProgram(a)
  /\ IF status' = "running" THEN UpdateCoverage(szd_execution')
     ELSE UNCHANGED coverageVars

\* A run whose branches are not counted.
Uncounted ==
  /\ \E a \in Assign : RunProgram(a)
  /\ UNCHANGED coverageVars

\* A step that runs nothing: the strategy goes on, or an assertion fails.
Quiet ==
  /\ UNCHANGED << environment, szd_execution, last_run, num_iters, coverageVars, reports >>
  /\ status' \in {status, "aborted"}

\* The heuristic search starts over with no branch covered.
Forgets ==
  /\ covered' = {} /\ num_covered' = 0
  /\ UNCHANGED << environment, szd_execution, last_run, num_iters, total_covered,
                  total_num_covered, reached, reachable_functions, reachable_branches,
                  coverage, reports, status >>

\* What a step does to the statistics of the solver.
Solving ==
  \/ UNCHANGED statistics
  \/ SolveSucceeds
  \/ \E ex, i : SolveFails(ex, i)

BaseStep == Counted \/ Uncounted \/ PrintFinalResult \/ Quiet \/ Forgets

\* What a step of a strategy is for the base class.
AsBase == BaseStep /\ Solving

\* The steps of the depth-first search.
LEMMA DFSIsBaseStep == NextDFS => AsBase
<1>1. DFSStart => AsBase
  BY DEF DFSStart, Launch, RunAndCover, Completions, AsBase, BaseStep, Counted, Solving
<1>2. DFSReturn => AsBase
  BY DEF DFSReturn, NoRun, AsBase, BaseStep, Quiet, Solving
<1>3. DFSUnsolved => AsBase
  BY DEF DFSUnsolved, NoRun, AsBase, BaseStep, Quiet, Solving
<1>4. DFSForce => AsBase
  BY DEF DFSForce, Launch, RunAndCover, Completions, AsBase, BaseStep, Counted, Solving
<1> QED  BY <1>1, <1>2, <1>3, <1>4 DEF NextDFS

\* The steps of the generational search.
LEMMA GenerationalIsBaseStep == NextGenerational => AsBase
<1>1. GenStart => AsBase
  BY DEF GenStart, Launch, RunAndCover, Completions, AsBase, BaseStep, Counted, Solving
<1>2. ASSUME NEW k, GenPick(k)  PROVE AsBase
  BY <1>2 DEF GenPick, NoRun, AsBase, BaseStep, Quiet, Solving
<1>3. GenDone => AsBase
  BY DEF GenDone, NoRun, AsBase, BaseStep, Quiet, Solving
<1>4. GenUnsolved => AsBase
  BY DEF GenUnsolved, NoRun, AsBase, BaseStep, Quiet, Solving
<1>5. GenForce => AsBase
  BY DEF GenForce, Launch, RunAndCover, Completions, AsBase, BaseStep, Counted, Solving
<1> QED  BY <1>1, <1>2, <1>3, <1>4, <1>5 DEF NextGenerational

\* The steps of the random search.
LEMMA RandomIsBaseStep == NextRandom => AsBase
<1>1. RandomStart => AsBase
  BY DEF RandomStart, Launch, RunAndCover, Completions, AsBase, BaseStep, Counted, Solving
<1>2. RandomIterate => AsBase
  BY DEF RandomIterate, NoRun, AsBase, BaseStep, Quiet, Solving
<1>3. RandomGiveUp => AsBase
  BY DEF RandomGiveUp, NoRun, AsBase, BaseStep, Quiet, Solving
<1>4. ASSUME NEW k, RandomUnsolved(k)  PROVE AsBase
  BY <1>4 DEF RandomUnsolved, NoRun, AsBase, BaseStep, Quiet, Solving
<1>5. ASSUME NEW k, RandomForce(k)  PROVE AsBase
  BY <1>5 DEF RandomForce, Launch, RunAndCover, Completions, AsBase, BaseStep, Counted,
              Solving
<1> QED  BY <1>1, <1>2, <1>3, <1>4, <1>5 DEF NextRandom

\* The steps of the search with random inputs.
LEMMA RandomInputIsBaseStep == NextRandomInput => AsBase
<1>1. RandomInputStart => AsBase
  BY DEF RandomInputStart, Completions, AsBase, BaseStep, Uncounted, Solving
<1>2. RandomInputRun => AsBase
  BY DEF RandomInputRun, Launch, RunAndCover, Completions, AsBase, BaseStep, Counted,
         Solving
<1> QED  BY <1>1, <1>2 DEF NextRandomInput

\* The steps of the uniform random search.
LEMMA UniformIsBaseStep == NextUniform => AsBase
<1>1. UniformStart => AsBase
  BY DEF UniformStart, Launch, RunAndCover, Completions, AsBase, BaseStep, Counted, Solving
<1>2. UniformReset => AsBase
  BY DEF UniformReset, NoRun, AsBase, BaseStep, Quiet, Solving
<1>3. UniformUnsolved => AsBase
  BY DEF UniformUnsolved, NoRun, AsBase, BaseStep, Quiet, Solving
<1>4. UniformSkip => AsBase
  BY DEF UniformSkip, NoRun, AsBase, BaseStep, Quiet, Solving
<1>5. UniformForce => AsBase
  BY DEF UniformForce, Launch, RunAndCover, Completions, AsBase, BaseStep, Counted, Solving
<1> QED  BY <1>1, <1>2, <1>3, <1>4, <1>5 DEF NextUniform

\* The steps of the hybrid search, one of which may fail an assertion.
LEMMA HybridIsBaseStep == NextHybrid => AsBase
<1>1. HybridStart => AsBase
  BY DEF HybridStart, Launch, RunAndCover, Completions, AsBase, BaseStep, Counted, Solving
<1>2. HybridRestart => AsBase
  BY DEF HybridRestart, NoRun, AsBase, BaseStep, Quiet, Solving
<1>3. HybridStep => AsBase
  BY DEF HybridStep, AsBase, BaseStep, Quiet, Solving
<1>4. HybridExhausted => AsBase
  BY DEF HybridExhausted, NoRun, AsBase, BaseStep, Quiet, Solving
<1>5. ASSUME NEW k, HybridUnsolved(k)  PROVE AsBase
  BY <1>5 DEF HybridUnsolved, NoRun, AsBase, BaseStep, Quiet, Solving
<1>6. ASSUME NEW k, HybridForce(k)  PROVE AsBase
  BY <1>6 DEF HybridForce, Launch, RunAndCover, Completions, AsBase, BaseStep, Counted,
              Solving
<1> QED  BY <1>1, <1>2, <1>3, <1>4, <1>5, <1>6 DEF NextHybrid

\* The steps of the baseline search.
LEMMA BaselineIsBaseStep == NextBaseline => AsBase
<1>1. BaselineStart => AsBase
  BY DEF BaselineStart, Launch, RunAndCover, Completions, AsBase, BaseStep, Counted, Solving
<1>2. BaselineFails => AsBase
  BY DEF BaselineFails, NoRun, AsBase, BaseStep, Quiet, Solving
<1>3. ASSUME NEW k, BaselineUnsolved(k)  PROVE AsBase
  BY <1>3 DEF BaselineUnsolved, NoRun, AsBase, BaseStep, Quiet, Solving
<1>4. ASSUME NEW k, BaselineForce(k)  PROVE AsBase
  BY <1>4 DEF BaselineForce, Launch, RunAndCover, Completions, AsBase, BaseStep, Counted,
              Solving
<1> QED  BY <1>1, <1>2, <1>3, <1>4 DEF NextBaseline

\* The steps of the heuristic search and of its calls of SolveAlongCfg.
LEMMA HeuristicIsBaseStep == NextHeuristic => AsBase
<1>1. HeuristicStart => AsBase
  BY DEF HeuristicStart, Launch, RunAndCover, Completions, AsBase, BaseStep, Counted, Solving
<1>2. HeuristicReset => AsBase
  BY DEF HeuristicReset, AsBase, BaseStep, Forgets, Solving
<1>3. AlongPass => AsBase
  BY DEF AlongPass, NoRun, AsBase, BaseStep, Quiet, Solving
<1>4. AlongFails => AsBase
  BY DEF AlongFails, NoRun, AsBase, BaseStep, Quiet, Solving
<1>5. ASSUME NEW k, HeuristicUnsolved(k)  PROVE AsBase
  BY <1>5 DEF HeuristicUnsolved, NoRun, AsBase, BaseStep, Quiet, Solving
<1>6. ASSUME NEW k, HeuristicForce(k)  PROVE AsBase
  BY <1>6 DEF HeuristicForce, Launch, RunAndCover, Completions, AsBase, BaseStep, Counted,
              Solving
<1>7. ASSUME NEW j, AlongEnter(j)  PROVE AsBase
  BY <1>7 DEF AlongEnter, NoRun, AsBase, BaseStep, Quiet, Solving
<1>8. ASSUME NEW c, AlongUnsolved(c)  PROVE AsBase
  BY <1>8 DEF AlongUnsolved, NoRun, AsBase, BaseStep, Quiet, Solving
<1>9. ASSUME NEW c, AlongForce(c)  PROVE AsBase
  BY <1>9 DEF AlongForce, Launch, RunAndCover, Completions, AsBase, BaseStep, Counted,
              Solving
<1> QED  BY <1>1, <1>2, <1>3, <1>4, <1>5, <1>6, <1>7, <1>8, <1>9 DEF NextHeuristic

\* The steps of the context-guided search, which may read through a null pointer.
LEMMA CGSIsBaseStep == NextCGS => AsBase
<1>1. CGSStart => AsBase
  BY DEF CGSStart, Launch, RunAndCover, Completions, AsBase, BaseStep, Counted, Solving
<1>2. CGSDeeper => AsBase
  BY DEF CGSDeeper, AsBase, BaseStep, Quiet, Solving
<1>3. CGSWiden => AsBase
  BY DEF CGSWiden, NoRun, AsBase, BaseStep, Quiet, Solving
<1>4. CGSRestart => AsBase
  BY DEF CGSRestart, NoRun, AsBase, BaseStep, Quiet, Solving
<1>5. ASSUME NEW n, CGSVisited(n)  PROVE AsBase
  BY <1>5 DEF CGSVisited, NoRun, AsBase, BaseStep, Quiet, Solving
<1>6. ASSUME NEW n, CGSUnsolved(n)  PROVE AsBase
  BY <1>6 DEF CGSUnsolved, NoRun, AsBase, BaseStep, Quiet, Solving
<1>7. ASSUME NEW n, CGSForce(n)  PROVE AsBase
  BY <1>7 DEF CGSForce, Launch, RunAndCover, Completions, AsBase, BaseStep, Counted, Solving
<1> QED  BY <1>1, <1>2, <1>3, <1>4, <1>5, <1>6, <1>7 DEF NextCGS

\* The steps of the parameterized search, whose features may bring it down.
LEMMA ParamIsBaseStep == NextParam => AsBase
<1>1. ParamStart => AsBase
  BY DEF ParamStart, Launch, RunAndCover, Completions, AsBase, BaseStep, Counted, Solving
<1>2. ParamExtract => AsBase
  BY DEF ParamExtract, NoRun, AsBase, BaseStep, Quiet, Solving
<1>3. ASSUME NEW c, ParamSkip(c)  PROVE AsBase
  BY <1>3 DEF ParamSkip, NoRun, AsBase, BaseStep, Quiet, Solving
<1>4. ASSUME NEW c, ParamUnsolved(c)  PROVE AsBase
  BY <1>4 DEF ParamUnsolved, NoRun, AsBase, BaseStep, Quiet, Solving
<1>5. ASSUME NEW c, ParamTried(c)  PROVE AsBase
  BY <1>5 DEF ParamTried, NoRun, AsBase, BaseStep, Quiet, Solving
<1>6. ASSUME NEW c, ParamForce(c)  PROVE AsBase
  BY <1>6 DEF ParamForce, Launch, RunAndCover, Completions, AsBase, BaseStep, Counted,
              Solving
<1>7. ParamGiveUp => AsBase
  BY DEF ParamGiveUp, NoRun, AsBase, BaseStep, Quiet, Solving
<1>8. ParamBreak => AsBase
  BY DEF ParamBreak, AsBase, BaseStep, Quiet, Solving
<1> QED  BY <1>1, <1>2, <1>3, <1>4, <1>5, <1>6, <1>7, <1>8 DEF NextParam

\* Every step of a campaign.
LEMMA NextIsBaseStep ==
  Next => AsBase /\ status = "running" /\ strategy' = strategy
BY DFSIsBaseStep, GenerationalIsBaseStep, RandomIsBaseStep, RandomInputIsBaseStep,
   UniformIsBaseStep, HybridIsBaseStep, BaselineIsBaseStep, HeuristicIsBaseStep,
   CGSIsBaseStep, ParamIsBaseStep
DEF Next, NextStrategy
-----------------------------------------------------------------------------
(***************************************************************************)
(* Types.                                                                  *)
(***************************************************************************)

\* What a run leaves: an execution that was there before or its own, and the
\* search goes on only if there is one.
LEMMA RunLeaves ==
  ASSUME TypeOK, NEW a \in Assign, RunProgram(a)
  PROVE  /\ szd_execution' \in Leftovers \cup {Execution(b) : b \in Assign}
         /\ status' \in {"running", "aborted"}
         /\ status' = "running" => szd_execution' # NULL
         /\ status' # "running" => status' = "aborted"
         /\ num_iters' = num_iters + 1 /\ num_iters' \in 0 .. MaxIters
         /\ last_run' \in Assign
         /\ UNCHANGED << program, input_file, max_depth, covered_branches, covered_functions >>
BY SearchAssumption DEF RunProgram, TypeOK, SearchAssumption, environment, reports

\* The branches of such an execution are branches of the program.
LEMMA ExecutedBranches ==
  ASSUME program \in Program,
         NEW ex \in Leftovers \cup {Execution(b) : b \in Assign}, ex # NULL
  PROVE  Executed(ex) \subseteq Branch
BY SearchAssumption DEF SearchAssumption, Execution

\* The number of elements of a part of the branches or functions.
LEMMA FiniteParts ==
  /\ \A S : S \subseteq Branch => IsFiniteSet(S) /\ Cardinality(S) \in Nat
  /\ \A S : S \subseteq Function => IsFiniteSet(S) /\ Cardinality(S) \in Nat
<1>1. IsFiniteSet(Branch)
  BY SearchAssumption DEF SearchAssumption
<1>2. IsFiniteSet(Function)
  <2> DEFINE f == [b \in Branch |-> branch_function[b]]
  <2>1. f \in Surjection(Branch, Function)
    BY Fun_IsSurj DEF Function
  <2> QED  BY <1>1, <2>1, FS_Surjection
<1> QED  BY <1>1, <1>2, FS_Subset, FS_CardinalityType

\* UpdateCoverage keeps the types.
LEMMA CoverageTypes ==
  ASSUME TypeOK, NEW ex, Executed(ex) \subseteq Branch, UpdateCoverage(ex)
  PROVE  /\ covered' \subseteq Branch /\ total_covered' \subseteq Branch
         /\ coverage' \subseteq Branch /\ reached' \subseteq Function
         /\ num_covered' \in Nat /\ total_num_covered' \in Nat
         /\ reachable_functions' \in Nat /\ reachable_branches' \in Nat
<1> DEFINE executed == Executed(ex)
           new      == executed \ covered
           funs     == {branch_function[b] : b \in new} \ reached
<1>1. /\ covered \subseteq Branch /\ total_covered \subseteq Branch
      /\ coverage \subseteq Branch /\ reached \subseteq Function
      /\ num_covered \in Nat /\ total_num_covered \in Nat
      /\ reachable_functions \in Nat /\ reachable_branches \in Nat
  BY DEF TypeOK
<1>2. new \subseteq Branch /\ executed \ total_covered \subseteq Branch
  OBVIOUS
<1>3. funs \subseteq Function
  BY <1>2 DEF Function
<1>4. BranchesOf(funs) \subseteq Branch
  BY DEF BranchesOf
<1>5. /\ Cardinality(new) \in Nat /\ Cardinality(executed \ total_covered) \in Nat
      /\ Cardinality(funs) \in Nat /\ Cardinality(BranchesOf(funs)) \in Nat
  BY <1>2, <1>3, <1>4, FiniteParts
<1>6. /\ covered' = covered \cup new
      /\ num_covered' = num_covered + Cardinality(new)
      /\ total_covered' = total_covered \cup executed
      /\ total_num_covered' = total_num_covered + Cardinality(executed \ total_covered)
      /\ reached' = reached \cup funs
      /\ reachable_functions' = reachable_functions + Cardinality(funs)
      /\ reachable_branches' = reachable_branches + Cardinality(BranchesOf(funs))
      /\ coverage' = IF new # {} THEN total_covered' ELSE coverage
  BY DEF UpdateCoverage
<1> HIDE DEF executed, new, funs
<1> QED  BY <1>1, <1>2, <1>3, <1>5, <1>6 DEF executed

\* The statistics of the solver stay within their bounds.
LEMMA StatisticsTypes ==
  ASSUME TypeOK, Solving
  PROVE  /\ num_smt_try' \in 0 .. MaxCount /\ num_smt_unsat' \in 0 .. MaxCount
         /\ bid_unsat_count' \in [Branch -> 0 .. MaxCount]
<1>1. /\ num_smt_try \in 0 .. MaxCount /\ num_smt_unsat \in 0 .. MaxCount
      /\ bid_unsat_count \in [Branch -> 0 .. MaxCount] /\ MaxCount \in Nat
  BY SearchAssumption DEF TypeOK, SearchAssumption
<1>2. \A n \in 0 .. MaxCount : Increment(n) \in 0 .. MaxCount
  BY <1>1 DEF Increment
<1>3. CASE UNCHANGED statistics
  BY <1>1, <1>3 DEF statistics
<1>4. CASE SolveSucceeds
  BY <1>1, <1>2, <1>4 DEF SolveSucceeds
<1>5. ASSUME NEW ex, NEW i, SolveFails(ex, i)
      PROVE  /\ num_smt_try' \in 0 .. MaxCount /\ num_smt_unsat' \in 0 .. MaxCount
             /\ bid_unsat_count' \in [Branch -> 0 .. MaxCount]
  <2> DEFINE b == paired_branch[BranchAt(ex, i)]
  <2>1. [bid_unsat_count EXCEPT ![b] = Increment(@)] \in [Branch -> 0 .. MaxCount]
    <3> HIDE DEF b
    <3> QED  BY <1>1, <1>2
  <2>2. /\ num_smt_try' = Increment(num_smt_try)
        /\ num_smt_unsat' = Increment(num_smt_unsat)
        /\ bid_unsat_count' \in {bid_unsat_count, [bid_unsat_count EXCEPT ![b] = Increment(@)]}
    BY <1>5 DEF SolveFails
  <2> QED  BY <1>1, <1>2, <2>1, <2>2
<1> QED  BY <1>3, <1>4, <1>5 DEF Solving

\* RunProgram is called only while the budget lasts, or the campaign has ended:
\* without this the types alone are not preserved.
WithinBudget == status # "exited" => num_iters \in 0 .. MaxIters

CampaignInv == TypeOK /\ WithinBudget

\* The invariant holds initially.
LEMMA CampaignInit == Init => CampaignInv
BY SearchAssumption DEF Init, InitSearch, CampaignInv, WithinBudget, TypeOK, SearchAssumption

\* A run keeps it, counted or not.
LEMMA RunKeepsInv ==
  ASSUME TypeOK, Counted \/ Uncounted, Solving, UNCHANGED strategy
  PROVE  CampaignInv'
<1>1. PICK a \in Assign : RunProgram(a)
  BY DEF Counted, Uncounted
<1>2. /\ szd_execution' \in Leftovers \cup {Execution(b) : b \in Assign}
      /\ status' \in {"running", "aborted"}
      /\ status' = "running" => szd_execution' # NULL
      /\ num_iters' \in 0 .. MaxIters
      /\ last_run' \in Assign
      /\ UNCHANGED << program, input_file, max_depth, covered_branches, covered_functions >>
  BY <1>1, RunLeaves
<1>3. /\ covered' \subseteq Branch /\ total_covered' \subseteq Branch
      /\ coverage' \subseteq Branch /\ reached' \subseteq Function
      /\ num_covered' \in Nat /\ total_num_covered' \in Nat
      /\ reachable_functions' \in Nat /\ reachable_branches' \in Nat
  <2>1. CASE UNCHANGED coverageVars
    BY <2>1 DEF coverageVars, TypeOK
  <2>2. CASE status' = "running" /\ UpdateCoverage(szd_execution')
    <3>1. Executed(szd_execution') \subseteq Branch
      BY <1>2, <2>2, ExecutedBranches DEF TypeOK
    <3> QED  BY <2>2, <3>1, CoverageTypes
  <2> QED  BY <2>1, <2>2 DEF Counted, Uncounted
<1>4. \A b \in Assign : Execution(b)' = Execution(b)
  BY <1>2 DEF Execution
<1>5. WithinBudget'
  BY <1>2 DEF WithinBudget
<1>6. TypeOK'
  BY <1>2, <1>3, <1>4, StatisticsTypes, SearchAssumption DEF TypeOK, SearchAssumption
<1> QED  BY <1>5, <1>6 DEF CampaignInv

\* A report, a quiet step and one that forgets keep it.
LEMMA OtherStepsKeepInv ==
  ASSUME CampaignInv, status = "running", PrintFinalResult \/ Quiet \/ Forgets, Solving,
         UNCHANGED strategy
  PROVE  CampaignInv'
<1>1. /\ UNCHANGED << program, input_file, max_depth, szd_execution, last_run >>
      /\ status' \in {"running", "exited", "aborted"}
      /\ covered_branches' \in {covered_branches, total_covered}
      /\ covered_functions' \in {covered_functions, reached}
  BY DEF PrintFinalResult, Quiet, Forgets, environment, reports
<1>2. /\ covered' \in {{}, covered} /\ num_covered' \in {0, num_covered}
      /\ UNCHANGED << total_covered, total_num_covered, reached, reachable_functions,
                      reachable_branches, coverage >>
  BY DEF PrintFinalResult, Quiet, Forgets, coverageVars
<1>3. \A b \in Assign : Execution(b)' = Execution(b)
  BY <1>1 DEF Execution
<1>4. MaxIters \in Nat /\ num_iters \in 0 .. MaxIters
  BY SearchAssumption DEF CampaignInv, WithinBudget, SearchAssumption
<1>5. num_iters' \in 0 .. MaxIters + 1 /\ WithinBudget'
  BY <1>4 DEF PrintFinalResult, Quiet, Forgets, WithinBudget
<1> QED
  BY <1>1, <1>2, <1>3, <1>5, StatisticsTypes DEF CampaignInv, TypeOK

\* It is an invariant of every strategy.
THEOREM CampaignInvariant == Spec => []CampaignInv
<1>1. CampaignInv /\ [Next]_vars => CampaignInv'
  <2> SUFFICES ASSUME CampaignInv, [Next]_vars  PROVE CampaignInv'
    OBVIOUS
  <2>1. CASE Next
    BY <2>1, NextIsBaseStep, RunKeepsInv, OtherStepsKeepInv DEF AsBase, BaseStep, CampaignInv
  <2>2. CASE UNCHANGED vars
    BY <2>2 DEF vars, searchVars, environment, coverageVars, statistics, reports, TypeOK,
                Execution, CampaignInv, WithinBudget
  <2> QED  BY <2>1, <2>2
<1> QED  BY <1>1, CampaignInit, PTL DEF Spec

\* Every strategy keeps the types.
THEOREM CampaignTypeCorrect == Spec => []TypeOK
<1>1. CampaignInv => TypeOK
  BY DEF CampaignInv
<1> QED  BY <1>1, CampaignInvariant, PTL
-----------------------------------------------------------------------------
(***************************************************************************)
(* Coverage.                                                               *)
(***************************************************************************)

\* The size of a set that grows by new elements.
LEMMA GrownCardinality ==
  ASSUME NEW S, NEW T, IsFiniteSet(S), IsFiniteSet(T)
  PROVE  Cardinality(S \cup (T \ S)) = Cardinality(S) + Cardinality(T \ S)
<1>1. IsFiniteSet(T \ S)
  BY FS_Difference
<1>2. S \cap (T \ S) = {}
  OBVIOUS
<1>3. Cardinality(S) \in Nat /\ Cardinality(T \ S) \in Nat /\ Cardinality({}) = 0
  BY <1>1, FS_CardinalityType, FS_EmptySet
<1>4. Cardinality(S \cup (T \ S))
        = Cardinality(S) + Cardinality(T \ S) - Cardinality(S \cap (T \ S))
  BY <1>1, FS_Union
<1>5. Cardinality(S \cap (T \ S)) = 0
  BY <1>2, <1>3
<1> DEFINE m == Cardinality(S)
           n == Cardinality(T \ S)
           k == Cardinality(S \cap (T \ S))
           u == Cardinality(S \cup (T \ S))
<1>6. m \in Nat /\ n \in Nat /\ k = 0 /\ u = m + n - k
  BY <1>3, <1>4, <1>5
<1> HIDE DEF m, n, k, u
<1>7. u = m + n
  BY <1>6
<1> QED  BY <1>7 DEF m, n, u

\* UpdateCoverage adds each new branch, function and branch of a new function
\* once to what counts it.
LEMMA UpdateCoverageAgrees ==
  ASSUME TypeOK, CoverageAgrees, NEW ex, Executed(ex) \subseteq Branch, UpdateCoverage(ex)
  PROVE  CoverageAgrees'
<1> DEFINE executed == Executed(ex)
           new      == executed \ covered
           seen     == {branch_function[b] : b \in new}
           funs     == seen \ reached
<1>1. /\ covered' = covered \cup new
      /\ num_covered' = num_covered + Cardinality(new)
      /\ total_covered' = total_covered \cup executed
      /\ total_num_covered' = total_num_covered + Cardinality(executed \ total_covered)
      /\ reached' = reached \cup funs
      /\ reachable_functions' = reachable_functions + Cardinality(funs)
      /\ reachable_branches' = reachable_branches + Cardinality(BranchesOf(funs))
      /\ coverage' = IF new # {} THEN total_covered' ELSE coverage
  BY DEF UpdateCoverage
<1>2. /\ covered \subseteq Branch /\ total_covered \subseteq Branch
      /\ reached \subseteq Function /\ executed \subseteq Branch
  BY DEF TypeOK
<1>3. seen \subseteq Function
  BY <1>2 DEF Function
<1>4. num_covered' = Cardinality(covered')
  <2>1. covered' = covered \cup (executed \ covered)
    BY <1>1
  <2> QED  BY <1>1, <1>2, <2>1, FiniteParts, GrownCardinality DEF CoverageAgrees
<1>5. total_num_covered' = Cardinality(total_covered')
  <2>1. total_covered' = total_covered \cup (executed \ total_covered)
    BY <1>1
  <2> QED  BY <1>1, <1>2, <2>1, FiniteParts, GrownCardinality DEF CoverageAgrees
<1>6. reachable_functions' = Cardinality(reached')
  BY <1>1, <1>2, <1>3, FiniteParts, GrownCardinality DEF CoverageAgrees
<1>7. reachable_branches' = Cardinality(BranchesOf(reached'))
  <2>1. BranchesOf(reached') = BranchesOf(reached) \cup (BranchesOf(funs) \ BranchesOf(reached))
    BY <1>1 DEF BranchesOf
  <2>2. BranchesOf(funs) \ BranchesOf(reached) = BranchesOf(funs)
    BY DEF BranchesOf
  <2>3. BranchesOf(funs) \subseteq Branch /\ BranchesOf(reached) \subseteq Branch
    BY DEF BranchesOf
  <2> HIDE DEF funs
  <2>4. reachable_branches' = Cardinality(BranchesOf(reached)) + Cardinality(BranchesOf(funs))
    BY <1>1 DEF CoverageAgrees
  <2>5. IsFiniteSet(BranchesOf(reached)) /\ IsFiniteSet(BranchesOf(funs))
    BY <2>3, FiniteParts
  <2> DEFINE R == BranchesOf(reached)
             F == BranchesOf(funs)
             A == BranchesOf(reached')
  <2>6. /\ A = R \cup (F \ R) /\ F \ R = F
        /\ IsFiniteSet(R) /\ IsFiniteSet(F)
        /\ reachable_branches' = Cardinality(R) + Cardinality(F)
    BY <2>1, <2>2, <2>4, <2>5
  <2> HIDE DEF R, F, A
  <2>7. reachable_branches' = Cardinality(A)
    BY <2>6, GrownCardinality
  <2> QED  BY <2>7 DEF A
<1>8. covered' \subseteq total_covered'
  BY <1>1 DEF CoverageAgrees
<1>9. reached' = {branch_function[b] : b \in total_covered'}
  BY <1>1 DEF CoverageAgrees
<1>10. coverage' = total_covered'
  BY <1>1 DEF CoverageAgrees
<1> QED  BY <1>4, <1>5, <1>6, <1>7, <1>8, <1>9, <1>10 DEF CoverageAgrees

\* The counters that every strategy prints, logs and writes agree with the
\* branches and functions its runs have covered.
THEOREM CoverageCounted == Spec => []CoverageAgrees
<1>1. Init => CoverageAgrees
  BY FS_EmptySet DEF Init, InitSearch, CoverageAgrees, BranchesOf
<1>2. CampaignInv /\ CoverageAgrees /\ [Next]_vars => CoverageAgrees'
  <2> SUFFICES ASSUME CampaignInv, CoverageAgrees, [Next]_vars  PROVE CoverageAgrees'
    OBVIOUS
  <2>1. CASE UNCHANGED coverageVars
    BY <2>1 DEF coverageVars, CoverageAgrees, BranchesOf
  <2>2. CASE Counted
    <3>1. PICK a \in Assign : RunProgram(a)
      BY <2>2 DEF Counted
    <3>2. CASE status' = "running" /\ UpdateCoverage(szd_execution')
      <4>1. Executed(szd_execution') \subseteq Branch
        BY <3>1, <3>2, RunLeaves, ExecutedBranches DEF CampaignInv, TypeOK
      <4> QED  BY <3>2, <4>1, UpdateCoverageAgrees DEF CampaignInv
    <3> QED  BY <2>1, <2>2, <3>2 DEF Counted
  <2>3. CASE Forgets
    BY <2>3, FS_EmptySet DEF Forgets, CoverageAgrees, BranchesOf
  <2> QED
    BY <2>1, <2>2, <2>3, NextIsBaseStep
    DEF AsBase, BaseStep, Uncounted, PrintFinalResult, Quiet, vars, searchVars, coverageVars
<1> QED  BY <1>1, <1>2, CampaignInvariant, PTL DEF Spec
-----------------------------------------------------------------------------
(***************************************************************************)
(* The refinement of Campaign.                                             *)
(***************************************************************************)

\* The initial states are those of a campaign with these observations.
LEMMA CampaignStarts == Init => Campaign!Init
<1> SUFFICES ASSUME Init  PROVE Campaign!Init
  OBVIOUS
<1>1. \A S \in Seen : S \subseteq Branch
  <2>1. \A S \in Observations[program] : S \subseteq Branch
    BY SearchAssumption DEF Init, InitSearch, Observations, SearchAssumption
  <2> QED  BY <2>1, SearchAssumption DEF Seen, SearchAssumption
<1> QED  BY <1>1 DEF Init, InitSearch, Campaign!Init

\* A run, counted or not, is a launch: what it adds is a set of branches that
\* can be seen.
LEMMA RunIsLaunch ==
  ASSUME CampaignInv, status = "running", Counted \/ Uncounted
  PROVE  Campaign!Launch
<1>1. PICK a \in Assign : RunProgram(a)
  BY DEF Counted, Uncounted
<1>2. /\ szd_execution' \in Leftovers \cup {Execution(b) : b \in Assign}
      /\ status' \in {"running", "aborted"}
      /\ status' = "running" => szd_execution' # NULL
      /\ num_iters' = num_iters + 1
      /\ program' = program /\ covered_branches' = covered_branches
  BY <1>1, RunLeaves DEF CampaignInv
<1>3. num_iters < MaxIters
  BY <1>1 DEF RunProgram
<1>4. \E seen \in Seen : total_covered' = total_covered \cup seen
  <2>1. CASE UNCHANGED coverageVars
    BY <2>1 DEF coverageVars, Seen
  <2>2. CASE status' = "running" /\ UpdateCoverage(szd_execution')
    <3>1. total_covered' = total_covered \cup Executed(szd_execution')
      BY <2>2 DEF UpdateCoverage
    <3>2. CASE \E b \in Assign : szd_execution' = Execution(b)
      <4>1. PICK b \in Assign : szd_execution' = Executions[program][b]
        BY <3>2 DEF Execution
      <4>2. program \in Program
        BY DEF CampaignInv, TypeOK
      <4>3. Executed(Executions[program][b]) \in Observations[program]
        BY <4>2 DEF Observations
      <4> QED  BY <3>1, <4>1, <4>3 DEF Seen
    <3>3. CASE szd_execution' \in Leftovers
      BY <1>2, <2>2, <3>1, <3>3 DEF Seen
    <3> QED  BY <1>2, <3>2, <3>3
  <2> QED  BY <2>1, <2>2 DEF Counted, Uncounted
<1>5. Seen' = Seen
  BY <1>2 DEF Seen
<1> QED  BY <1>2, <1>3, <1>4, <1>5 DEF Campaign!Launch

\* A report ends the campaign.
LEMMA ReportIsFinish ==
  ASSUME CampaignInv, status = "running", PrintFinalResult
  PROVE  Campaign!Finish
<1>1. num_iters \in Nat /\ num_iters' = num_iters + 1 /\ num_iters' - 1 = num_iters
  BY SearchAssumption DEF PrintFinalResult, CampaignInv, TypeOK, SearchAssumption
<1>2. /\ status' = "exited" /\ covered_branches' = total_covered
      /\ total_covered' = total_covered /\ program' = program
  BY DEF PrintFinalResult, coverageVars, environment
<1>3. Seen' = Seen
  BY <1>2 DEF Seen
<1> QED  BY <1>1, <1>2, <1>3 DEF Campaign!Finish

\* The other steps do not show.
LEMMA QuietIsHidden ==
  ASSUME status = "running", Quiet \/ Forgets
  PROVE  UNCHANGED Campaign!vars
<1>1. /\ program' = program /\ num_iters' = num_iters /\ total_covered' = total_covered
      /\ covered_branches' = covered_branches /\ status' # "exited"
  BY DEF Quiet, Forgets, environment, coverageVars, reports
<1>2. Seen' = Seen
  BY <1>1 DEF Seen
<1> QED  BY <1>1, <1>2 DEF Campaign!vars

\* Whatever the strategy, run_crest runs the program at most MaxIters times,
\* forgets no branch that a run covered, and reports them all at the end.
THEOREM EveryStrategyIsCampaign == Spec => ImplementsCampaign
<1>1. CampaignInv /\ [Next]_vars => [Campaign!Next]_(Campaign!vars)
  <2> SUFFICES ASSUME CampaignInv, [Next]_vars  PROVE [Campaign!Next]_(Campaign!vars)
    OBVIOUS
  <2>1. CASE Next
    BY <2>1, NextIsBaseStep, RunIsLaunch, ReportIsFinish, QuietIsHidden
    DEF AsBase, BaseStep, Campaign!Next
  <2>2. CASE UNCHANGED vars
    BY <2>2 DEF vars, searchVars, environment, coverageVars, reports, Seen, Campaign!vars
  <2> QED  BY <2>1, <2>2
<1> QED
  BY <1>1, CampaignStarts, CampaignInvariant, PTL DEF Spec, ImplementsCampaign, Campaign!Spec
-----------------------------------------------------------------------------
(***************************************************************************)
(* What a random path and a local search keep.                             *)
(***************************************************************************)

\* A launch leaves local as it is, or there is an execution with its
\* constraints in order and the strategy goes on.
LEMMA LaunchLeaves ==
  ASSUME TypeOK, NEW given, NEW next, Launch(given, next)
  PROVE  \/ local' = local
         \/ local' = next /\ szd_execution' # NULL /\ WellFormed(szd_execution')
<1>1. CASE PrintFinalResult /\ UNCHANGED local
  BY <1>1
<1>2. CASE \E a \in Completions(given) : RunAndCover(a, next)
  <2>1. PICK a \in Assign : RunAndCover(a, next)
    BY <1>2 DEF Completions
  <2>2. CASE status' = "running"
    <3>1. /\ szd_execution' \in Leftovers \cup {Execution(b) : b \in Assign}
          /\ szd_execution' # NULL
      BY <2>1, <2>2, RunLeaves DEF RunAndCover
    <3>2. program \in Program
      BY DEF TypeOK
    <3>3. WellFormed(szd_execution')
      BY <3>1, <3>2, PathsAssumption DEF PathsAssumption, Execution
    <3> QED  BY <2>1, <2>2, <3>1, <3>3 DEF RunAndCover
  <2>3. CASE status' # "running"
    BY <2>1, <2>3 DEF RunAndCover
  <2> QED  BY <2>2, <2>3
<1> QED  BY <1>1, <1>2 DEF Launch

\* The execution of a random path has its constraints in order, and so has that
\* of a local search, whose untried indices are not before its position.
UniformInv ==
  /\ local = [f \in {"ex", "i", "depth"} |-> local[f]]
  /\ local.i \in Nat \ {0}
  /\ local.ex # NULL => WellFormed(local.ex)

HybridInv ==
  /\ local = [f \in {"ex", "pos", "iters", "idxs"} |-> local[f]]
  /\ local.pos \in Nat \ {0}
  /\ local.ex # NULL => WellFormed(local.ex)
  /\ Stepping => \A k \in UntriedIdxs : k \in local.pos .. Len(local.ex.constraints)

LocalInv ==
  /\ strategy = "-uniform_random" => UniformInv
  /\ strategy = "-hybrid" => HybridInv

\* A step changes the branches of the execution only after the constraint from.
KeepsUpTo(from) ==
  NULL \notin {local.ex, local'.ex} =>
    \A j \in 1 .. Len(local.ex.branches) :
      from <= Len(local.ex.constraints) /\ j <= local.ex.constraints_idx[from] =>
        local'.ex.branches[j] = local.ex.branches[j]

\* A run that went as predicted keeps the branches before any constraint that
\* is not after the one forced.
LEMMA PredictedKeeps ==
  ASSUME NEW old, NEW new, WellFormed(old), NEW k \in 1 .. Len(old.constraints),
         NEW from \in 1 .. k, Predicted(old, new, k),
         NEW j \in 1 .. Len(old.branches), j <= old.constraints_idx[from]
  PROVE  new.branches[j] = old.branches[j]
<1> DEFINE n == Len(old.constraints)
           idx == old.constraints_idx
<1>1. /\ idx \in Seq(Nat) /\ Len(idx) = n
      /\ \A i, l \in 1 .. n : i < l => idx[i] < idx[l]
  BY DEF WellFormed
<1>2. n \in Nat
  BY <1>1
<1>3. /\ \A i \in 1 .. idx[k] : new.branches[i] = old.branches[i]
  BY DEF Predicted, CheckPrediction
<1> HIDE DEF n, idx
<1>4. k \in 1 .. n
  BY DEF n
<1>5. from \in 1 .. n
  BY <1>2, <1>4
<1>6. idx[from] \in Nat /\ idx[k] \in Nat
  BY <1>1, <1>4, <1>5
<1>7. idx[from] <= idx[k]
  BY <1>1, <1>4, <1>5, <1>6
<1>8. j \in Int /\ j >= 1
  OBVIOUS
<1>9. j <= idx[from]
  BY DEF idx
<1> QED  BY <1>3, <1>6, <1>7, <1>8, <1>9

\* The steps of the uniform random search.
LEMMA UniformKeeps ==
  ASSUME TypeOK, UniformInv, NextUniform
  PROVE  UniformInv' /\ KeepsUpTo(local.i)
<1>1. CASE local' = local
  BY <1>1 DEF UniformInv, KeepsUpTo
<1>2. CASE UniformStart
  <2>1. CASE /\ local' = [ex |-> szd_execution', i |-> 1, depth |-> 0]
             /\ WellFormed(szd_execution')
    BY <1>2, <2>1 DEF UniformInv, KeepsUpTo, UniformStart, WellFormed
  <2> QED  BY <1>1, <1>2, <2>1, LaunchLeaves DEF UniformStart
<1>3. CASE UniformReset \/ UniformUnsolved \/ UniformSkip
  <2>1. /\ local'.ex = local.ex /\ local'.i \in {1, local.i + 1}
        /\ local' = [f \in {"ex", "i", "depth"} |-> local'[f]]
    BY <1>3 DEF UniformInv, UniformReset, UniformUnsolved, UniformSkip
  <2> QED  BY <2>1 DEF UniformInv, KeepsUpTo, WellFormed
<1>4. CASE UniformForce
  <2>1. PICK input : Launch(input, UniformAfterRun(szd_execution'))
    BY <1>4 DEF UniformForce
  <2>2. local.ex # NULL /\ local.i <= Len(local.ex.constraints)
    BY <1>4 DEF UniformForce, OnPath
  <2>3. CASE local' = UniformAfterRun(szd_execution') /\ WellFormed(szd_execution')
    <3>1. CASE Predicted(local.ex, szd_execution', local.i)
      <4>1. local' = [ex |-> szd_execution', i |-> local.i + 1, depth |-> local.depth + 1]
        BY <2>3, <3>1 DEF UniformAfterRun
      <4>2. UniformInv'
        BY <2>3, <4>1 DEF UniformInv, WellFormed
      <4>3. local.i \in 1 .. Len(local.ex.constraints)
        BY <2>2 DEF UniformInv, WellFormed
      <4>4. local.i \in 1 .. local.i /\ WellFormed(local.ex) /\ local'.ex = szd_execution'
        BY <2>2, <4>1 DEF UniformInv
      <4>5. \A j \in 1 .. Len(local.ex.branches) :
              j <= local.ex.constraints_idx[local.i] =>
                szd_execution'.branches[j] = local.ex.branches[j]
        BY <3>1, <4>3, <4>4, PredictedKeeps
      <4>6. KeepsUpTo(local.i)
        BY <4>4, <4>5 DEF KeepsUpTo
      <4> QED  BY <4>2, <4>6
    <3>2. CASE ~Predicted(local.ex, szd_execution', local.i)
      <4>1. /\ local'.ex = local.ex /\ local'.i = local.i + 1
            /\ local' = [f \in {"ex", "i", "depth"} |-> local'[f]]
        BY <2>3, <3>2 DEF UniformAfterRun, UniformInv
      <4> QED  BY <4>1 DEF UniformInv, KeepsUpTo, WellFormed
    <3> QED  BY <3>1, <3>2
  <2> QED  BY <1>1, <2>1, <2>3, LaunchLeaves
<1> QED  BY <1>2, <1>3, <1>4 DEF NextUniform

\* The steps of the hybrid search.
LEMMA HybridKeeps ==
  ASSUME TypeOK, HybridInv, NextHybrid
  PROVE  HybridInv' /\ KeepsUpTo(local.pos)
<1> DEFINE Fs == {"ex", "pos", "iters", "idxs"}
<1>0. StepSize \in Nat \ {0}
  BY HybridAssumption DEF HybridAssumption
<1>1. CASE local' = local
  BY <1>1 DEF HybridInv, KeepsUpTo, Stepping, UntriedIdxs, WellFormed
<1>2. CASE HybridStart
  <2>1. CASE /\ local' = [ex |-> szd_execution', pos |-> 1, iters |-> 0, idxs |-> << >>]
             /\ WellFormed(szd_execution')
    BY <1>2, <2>1 DEF HybridInv, KeepsUpTo, HybridStart, WellFormed, Stepping
  <2> QED  BY <1>1, <1>2, <2>1, LaunchLeaves DEF HybridStart
<1>3. CASE HybridRestart
  <2>1. /\ local'.ex = NULL /\ local'.pos = local.pos
        /\ local' = [f \in Fs |-> local'[f]]
    BY <1>3 DEF HybridInv, HybridRestart
  <2> QED  BY <2>1 DEF HybridInv, KeepsUpTo, Stepping
<1>4. CASE HybridStep
  <2>1. CASE /\ local'.ex = local.ex /\ local'.pos = local.pos
             /\ local'.idxs = << StepRange >>
             /\ local' = [f \in Fs |-> local'[f]]
    <3>1. local.ex # NULL
      BY <1>4 DEF HybridStep
    <3>2. \A k \in StepRange : k \in local.pos .. Len(local.ex.constraints)
      BY <1>0, <3>1 DEF StepRange, HybridInv, WellFormed
    <3>3. UntriedIdxs' = StepRange
      BY <2>1 DEF UntriedIdxs
    <3> QED  BY <2>1, <3>2, <3>3 DEF HybridInv, KeepsUpTo, WellFormed
  <2>2. local' = [local EXCEPT !.idxs = << StepRange >>] \/ local' = local
    BY <1>4 DEF HybridStep
  <2> QED  BY <1>1, <2>1, <2>2 DEF HybridInv
<1>5. CASE HybridExhausted
  <2>1. /\ local'.ex = local.ex /\ local'.pos = local.pos + StepSize /\ local'.idxs = << >>
        /\ local' = [f \in Fs |-> local'[f]]
    BY <1>5 DEF HybridInv, HybridExhausted
  <2> QED  BY <1>0, <2>1 DEF HybridInv, KeepsUpTo, Stepping, WellFormed
\* An index that was tried without success.
<1>6. ASSUME NEW k, Stepping, local' = [local EXCEPT !.idxs = << UntriedIdxs \ {k} >>]
      PROVE  HybridInv' /\ KeepsUpTo(local.pos)
  <2>1. /\ local'.ex = local.ex /\ local'.pos = local.pos
        /\ local'.idxs = << UntriedIdxs \ {k} >>
        /\ local' = [f \in Fs |-> local'[f]]
    BY <1>6 DEF HybridInv
  <2>2. UntriedIdxs' = UntriedIdxs \ {k}
    BY <2>1 DEF UntriedIdxs
  <2> QED  BY <1>6, <2>1, <2>2 DEF HybridInv, KeepsUpTo, WellFormed
<1>7. ASSUME NEW k \in UntriedIdxs, Stepping, HybridForce(k)
      PROVE  HybridInv' /\ KeepsUpTo(local.pos)
  <2>1. PICK input : Launch(input, HybridAfterRun(szd_execution', k))
    BY <1>7 DEF HybridForce
  <2>2. local.ex # NULL /\ k \in local.pos .. Len(local.ex.constraints)
    BY <1>7 DEF Stepping, HybridInv
  <2>3. CASE local' = HybridAfterRun(szd_execution', k) /\ WellFormed(szd_execution')
    <3>1. CASE Predicted(local.ex, szd_execution', k)
      <4>1. /\ local'.ex = szd_execution' /\ local'.idxs = << >>
            /\ local'.pos \in {local.pos, local.pos + StepSize}
            /\ local' = [f \in Fs |-> local'[f]]
        BY <2>3, <3>1 DEF HybridAfterRun, HybridInv
      <4>2. HybridInv'
        BY <1>0, <2>3, <4>1 DEF HybridInv, Stepping, WellFormed
      <4>3. k \in 1 .. Len(local.ex.constraints) /\ local.pos \in 1 .. k
        BY <2>2 DEF HybridInv, WellFormed
      <4>4. WellFormed(local.ex)
        BY <2>2 DEF HybridInv
      <4>5. \A j \in 1 .. Len(local.ex.branches) :
              j <= local.ex.constraints_idx[local.pos] =>
                szd_execution'.branches[j] = local.ex.branches[j]
        BY <3>1, <4>3, <4>4, PredictedKeeps
      <4>6. KeepsUpTo(local.pos)
        BY <4>1, <4>5 DEF KeepsUpTo
      <4> QED  BY <4>2, <4>6
    <3>2. CASE ~Predicted(local.ex, szd_execution', k)
      BY <1>6, <1>7, <2>3, <3>2 DEF HybridAfterRun
    <3> QED  BY <3>1, <3>2
  <2> QED  BY <1>1, <2>1, <2>3, LaunchLeaves
<1>8. ASSUME NEW k, Stepping, HybridUnsolved(k)
      PROVE  HybridInv' /\ KeepsUpTo(local.pos)
  BY <1>6, <1>8 DEF HybridUnsolved
<1> QED  BY <1>2, <1>3, <1>4, <1>5, <1>7, <1>8 DEF NextHybrid

\* Whatever the program and the coins, a random path and a local search change
\* an execution only from their position on.
THEOREM PrefixIsKept == Spec => PrefixKept
<1>1. Init => LocalInv
  <2>1. Init /\ strategy = "-uniform_random" => InitUniform
    BY DEF Init, InitStrategy
  <2>2. Init /\ strategy = "-hybrid" => InitHybrid
    BY DEF Init, InitStrategy
  <2>3. InitUniform => UniformInv
    BY DEF InitUniform, UniformInv
  <2>4. InitHybrid => HybridInv
    BY DEF InitHybrid, HybridInv, Stepping
  <2> QED  BY <2>1, <2>2, <2>3, <2>4 DEF LocalInv
<1>2. CampaignInv /\ LocalInv /\ [Next]_vars => LocalInv' /\ [KeepsPrefix]_vars
  <2> SUFFICES ASSUME CampaignInv, LocalInv, [Next]_vars
               PROVE  LocalInv' /\ [KeepsPrefix]_vars
    OBVIOUS
  <2>1. CASE UNCHANGED vars
    BY <2>1 DEF vars, searchVars, LocalInv, UniformInv, HybridInv, Stepping, UntriedIdxs
  <2>2. CASE Next
    <3>1. strategy' = strategy /\ TypeOK
      BY <2>2 DEF Next, CampaignInv
    <3>2. CASE strategy = "-uniform_random"
      <4>1. UniformInv' /\ KeepsUpTo(local.i)
        BY <2>2, <3>1, <3>2, UniformKeeps DEF Next, NextStrategy, LocalInv
      <4> QED  BY <3>1, <3>2, <4>1 DEF LocalInv, KeepsPrefix, KeepsUpTo, Position
    <3>3. CASE strategy = "-hybrid"
      <4>1. HybridInv' /\ KeepsUpTo(local.pos)
        BY <2>2, <3>1, <3>3, HybridKeeps DEF Next, NextStrategy, LocalInv
      <4> QED  BY <3>1, <3>3, <4>1 DEF LocalInv, KeepsPrefix, KeepsUpTo, Position
    <3>4. CASE strategy \notin {"-uniform_random", "-hybrid"}
      BY <3>1, <3>4 DEF LocalInv, KeepsPrefix
    <3> QED  BY <3>2, <3>3, <3>4
  <2> QED  BY <2>1, <2>2
<1> QED  BY <1>1, <1>2, CampaignInvariant, PTL DEF Spec, PrefixKept
-----------------------------------------------------------------------------
(***************************************************************************)
(* The parameterized search: how often it lets the solver fail for a       *)
(* branch, what it leaves when it stops, and the flags it reads.           *)
(***************************************************************************)

\* What DoSearch needs of an execution.
Searchable(ex) == ex # NULL => KnownBranches(ex)

Fields ==
  {"weights", "ex", "first", "new_ex", "scored", "candidates", "newly", "features",
   "inputs_tried", "bid_unsat_counter", "broken", "prev", "ran"}

\* The members have their types, and the candidates are constraints of the
\* execution that is searched.
ParamTypes ==
  /\ local = [f \in Fields |-> local[f]]
  /\ local.bid_unsat_counter \in [Branch -> Nat]
  /\ Searchable(local.ex) /\ KnownBranches(local.new_ex)
  /\ \A c \in local.candidates : c[2] \in 1 .. Len(local.ex.constraints)
  /\ local.candidates # {} => local.ex # NULL

\* Failures counted for a branch by Search and by the strategy.
FailuresBounded(b) ==
  /\ bid_unsat_count[paired_branch[b]] <= local.bid_unsat_counter[b]
  /\ local.bid_unsat_counter[b] <= SkipLimit + 1

ParamInv ==
  strategy = "-param" => ParamTypes /\ \A b \in Branch : FailuresBounded(b)

\* The members that a step without a failure leaves.
Kept == UNCHANGED bid_unsat_count /\ local'.bid_unsat_counter = local.bid_unsat_counter

LEMMA KeptBounded ==
  ASSUME \A b \in Branch : FailuresBounded(b), Kept
  PROVE  \A b \in Branch : FailuresBounded(b)'
BY DEF FailuresBounded, Kept

\* The executions that a search can get are searchable.
LEMMA RunsSearchable ==
  ASSUME TypeOK, NEW a \in Assign, RunProgram(a), status' = "running"
  PROVE  KnownBranches(szd_execution')
<1>1. /\ szd_execution' \in Leftovers \cup {Execution(b) : b \in Assign}
      /\ szd_execution' # NULL
  BY RunLeaves
<1>2. program \in Program
  BY DEF TypeOK
<1> QED  BY <1>1, <1>2, PathsAssumption DEF PathsAssumption, WellFormed, Execution

\* The initial states.
LEMMA ParamInit == Init => ParamInv
<1> SUFFICES ASSUME Init, strategy = "-param"
             PROVE  ParamTypes /\ \A b \in Branch : FailuresBounded(b)
  BY DEF ParamInv
<1>1. InitParam
  BY DEF Init, InitStrategy
<1>2. PICK w \in Weights, t \in [1 .. 3 -> Thresholds] :
        local = [weights |-> w, ex |-> NULL, first |-> FALSE, new_ex |-> EmptyExecution,
                 scored |-> FALSE, candidates |-> {}, newly |-> {},
                 features |-> NewFeatures(t), inputs_tried |-> {},
                 bid_unsat_counter |-> [b \in Branch |-> 0], broken |-> FALSE,
                 prev |-> NULL, ran |-> TRUE]
  BY <1>1 DEF InitParam
<1>3. local = [f \in Fields |-> local[f]]
  BY <1>2 DEF Fields
<1>4. KnownBranches(EmptyExecution)
  BY DEF KnownBranches, EmptyExecution
<1>5. ParamTypes
  BY <1>2, <1>3, <1>4 DEF ParamTypes, Searchable
<1>6. \A b \in Branch : FailuresBounded(b)
  <2>1. bid_unsat_count = [b \in Branch |-> 0] /\ SkipLimit \in Nat
    BY ParamAssumption DEF Init, InitSearch, ParamAssumption
  <2>2. \A b \in Branch : paired_branch[b] \in Branch
    BY SearchAssumption DEF SearchAssumption
  <2> QED  BY <1>2, <2>1, <2>2 DEF FailuresBounded
<1> QED  BY <1>5, <1>6
-----------------------------------------------------------------------------
\* A launch runs the program, and the strategy goes on, or leaves local.
LEMMA LaunchOutcome ==
  ASSUME TypeOK, NEW given, NEW next, Launch(given, next)
  PROVE  \/ local' = local
         \/ local' = next /\ KnownBranches(szd_execution') /\ szd_execution' # NULL
<1>1. CASE \E a \in Completions(given) : RunAndCover(a, next)
  <2>1. PICK a \in Assign : RunAndCover(a, next)
    BY <1>1 DEF Completions
  <2>2. CASE status' = "running"
    BY <2>1, <2>2, RunsSearchable, RunLeaves DEF RunAndCover
  <2>3. CASE status' # "running"
    BY <2>1, <2>3 DEF RunAndCover
  <2> QED  BY <2>2, <2>3
<1>2. CASE PrintFinalResult /\ UNCHANGED local
  BY <1>2
<1> QED  BY <1>1, <1>2 DEF Launch

\* The start of a restart.
LEMMA StartKeeps ==
  ASSUME TypeOK, ParamTypes, \A b \in Branch : FailuresBounded(b), ParamStart
  PROVE  ParamTypes' /\ \A b \in Branch : FailuresBounded(b)'
<1> DEFINE next == [local EXCEPT !.ex = szd_execution', !.first = TRUE,
                                 !.newly = covered' \ covered]
<1>1. Launch(InitialInput, next) /\ UNCHANGED statistics /\ local.ex = NULL
  BY DEF ParamStart
<1>2. local.candidates = {}
  BY <1>1 DEF ParamTypes
<1>3. CASE local' = local
  BY <1>1, <1>3 DEF ParamTypes, FailuresBounded, statistics
<1>4. CASE local' = next /\ KnownBranches(szd_execution') /\ szd_execution' # NULL
  <2>1. local = [f \in Fields |-> local[f]]
    BY DEF ParamTypes
  <2>2. /\ local' = [f \in Fields |-> local'[f]]
        /\ local'.ex = szd_execution' /\ local'.new_ex = local.new_ex
        /\ local'.candidates = local.candidates
        /\ local'.bid_unsat_counter = local.bid_unsat_counter
    BY <1>4, <2>1 DEF Fields
  <2>3. ParamTypes'
    BY <1>2, <1>4, <2>2 DEF ParamTypes, Searchable, KnownBranches, BranchAt
  <2> QED  BY <1>1, <2>2, <2>3, KeptBounded DEF Kept, statistics
<1> HIDE DEF next
<1> QED  BY <1>1, <1>3, <1>4, LaunchOutcome

\* The scores: the candidates are all the constraints.
LEMMA ExtractKeeps ==
  ASSUME ParamTypes, \A b \in Branch : FailuresBounded(b), ParamExtract
  PROVE  ParamTypes' /\ \A b \in Branch : FailuresBounded(b)'
<1> DEFINE fs == ComputeFeatures(local.features, local.newly, local.ex)
           cs == Candidates(fs, local.ex)
<1>1. local' = [local EXCEPT !.features = fs, !.scored = TRUE, !.candidates = cs]
  BY DEF ParamExtract
<1>2. \A c \in cs : c[2] \in 1 .. Len(local.ex.constraints)
  BY DEF Candidates
<1>3. local.ex # NULL /\ UNCHANGED statistics
  BY DEF ParamExtract
<1> HIDE DEF fs, cs
<1>4. local = [f \in Fields |-> local[f]]
  BY DEF ParamTypes
<1>5. /\ local' = [f \in Fields |-> local'[f]]
      /\ local'.ex = local.ex /\ local'.new_ex = local.new_ex
      /\ local'.candidates = cs
      /\ local'.bid_unsat_counter = local.bid_unsat_counter
  BY <1>1, <1>4 DEF Fields
<1>6. ParamTypes'
  BY <1>2, <1>3, <1>5 DEF ParamTypes, Searchable, KnownBranches, BranchAt
<1> QED  BY <1>3, <1>5, <1>6, KeptBounded DEF Kept, statistics

\* A candidate that is dropped without a failure.
LEMMA PopKeeps ==
  ASSUME ParamTypes, \A b \in Branch : FailuresBounded(b), NEW c, local' = Popped(c),
         UNCHANGED bid_unsat_count
  PROVE  ParamTypes' /\ \A b \in Branch : FailuresBounded(b)'
<1>1. local = [f \in Fields |-> local[f]]
  BY DEF ParamTypes
<1>2. /\ local' = [f \in Fields |-> local'[f]]
      /\ local'.ex = local.ex /\ local'.new_ex = local.new_ex
      /\ local'.candidates = local.candidates \ {c}
      /\ local'.bid_unsat_counter = local.bid_unsat_counter
  BY <1>1 DEF Fields, Popped
<1>3. ParamTypes'
  BY <1>2 DEF ParamTypes, Searchable, KnownBranches, BranchAt
<1> QED  BY <1>2, <1>3, KeptBounded DEF Kept

\* A failure: both counts go up, the strategy's for the branch taken and the
\* other, if at all, for its pair, which no other branch has.
LEMMA UnsolvedKeeps ==
  ASSUME TypeOK, ParamTypes, \A b \in Branch : FailuresBounded(b), NEW c, ParamUnsolved(c)
  PROVE  ParamTypes' /\ \A b \in Branch : FailuresBounded(b)'
<1> DEFINE bid == Bid(c)
           count == local.bid_unsat_counter
<1>1. /\ c \in local.candidates /\ local.ex # NULL /\ local' = Failed(c)
      /\ ~(count[bid] > SkipLimit) /\ SolveFails(local.ex, c[2])
  BY DEF ParamUnsolved, IsLast, Choosable, GivenUp, ParamTypes
<1>2. bid \in Branch
  BY <1>1 DEF ParamTypes, Searchable, KnownBranches, Bid
<1>3. local = [f \in Fields |-> local[f]]
  BY DEF ParamTypes
<1>4. count \in [Branch -> Nat]
  BY DEF ParamTypes
<1>5. local' = [Popped(c) EXCEPT !.bid_unsat_counter = CountFailure(bid)]
  BY <1>1 DEF Failed
<1> HIDE DEF bid
<1>6. /\ local' = [f \in Fields |-> local'[f]]
      /\ local'.ex = local.ex /\ local'.new_ex = local.new_ex
      /\ local'.candidates = local.candidates \ {c}
      /\ local'.bid_unsat_counter = [count EXCEPT ![bid] = @ + 1]
  BY <1>3, <1>5 DEF Fields, Popped, CountFailure
<1>7. ParamTypes'
  <2>1. local'.bid_unsat_counter \in [Branch -> Nat]
    BY <1>2, <1>4, <1>6
  <2> QED
    BY <1>1, <1>6, <2>1 DEF ParamTypes, Searchable, KnownBranches, BranchAt
<1>8. \A b \in Branch : FailuresBounded(b)'
  <2> SUFFICES ASSUME NEW b \in Branch  PROVE FailuresBounded(b)'
    OBVIOUS
  <2>1. /\ bid_unsat_count \in [Branch -> 0 .. MaxCount] /\ MaxCount \in Nat
        /\ SkipLimit \in Nat
    BY SearchAssumption, ParamAssumption DEF TypeOK, SearchAssumption, ParamAssumption
  <2>2. \A x \in Branch : paired_branch[x] \in Branch
    BY SearchAssumption DEF SearchAssumption
  <2>3. bid_unsat_count' \in {bid_unsat_count,
          [bid_unsat_count EXCEPT ![paired_branch[bid]] = Increment(@)]}
    BY <1>1 DEF SolveFails, bid, Bid
  <2>4. CASE b = bid
    <3>1. local'.bid_unsat_counter[b] = count[b] + 1
      BY <1>2, <1>4, <1>6, <2>4
    <3>2. count[b] \in Nat /\ count[b] <= SkipLimit
      BY <1>1, <1>4, <2>1, <2>4
    <3>3. /\ bid_unsat_count[paired_branch[b]] \in Nat
          /\ bid_unsat_count'[paired_branch[b]] <= bid_unsat_count[paired_branch[b]] + 1
      BY <2>1, <2>2, <2>3, <2>4 DEF Increment
    <3>4. bid_unsat_count'[paired_branch[b]] \in Nat
      BY <2>1, <2>2, <2>3, <2>4 DEF Increment
    <3>5. bid_unsat_count[paired_branch[b]] <= count[b]
      BY DEF FailuresBounded
    <3> QED  BY <2>1, <3>1, <3>2, <3>3, <3>4, <3>5 DEF FailuresBounded
  <2>5. CASE b # bid
    <3>1. local'.bid_unsat_counter[b] = count[b]
      BY <1>2, <1>4, <1>6, <2>5
    <3>2. paired_branch[b] # paired_branch[bid]
      BY <1>2, <2>5, ParamAssumption DEF ParamAssumption
    <3>3. bid_unsat_count'[paired_branch[b]] = bid_unsat_count[paired_branch[b]]
      BY <2>1, <2>2, <2>3, <3>2
    <3> QED  BY <3>1, <3>3 DEF FailuresBounded
  <2> QED  BY <2>4, <2>5
<1> QED  BY <1>7, <1>8

\* A run: the execution it leaves is the next one to be searched.
LEMMA ForceKeeps ==
  ASSUME TypeOK, ParamTypes, \A b \in Branch : FailuresBounded(b), NEW c, ParamForce(c)
  PROVE  ParamTypes' /\ \A b \in Branch : FailuresBounded(b)'
<1>1. PICK input, reaches, breaks :
        Launch(input, ParamAfterRun(c, input, szd_execution', reaches, breaks))
  BY DEF ParamForce
<1> DEFINE next == ParamAfterRun(c, input, szd_execution', reaches, breaks)
<1>2. UNCHANGED bid_unsat_count
  BY DEF ParamForce, SolveSucceeds
<1>3. CASE local' = local
  BY <1>2, <1>3 DEF ParamTypes, FailuresBounded
<1>4. CASE local' = next /\ KnownBranches(szd_execution') /\ szd_execution' # NULL
  <2>1. PICK fs, tried, broken :
          local' = [local EXCEPT
                      !.ex = szd_execution', !.new_ex = szd_execution', !.first = FALSE,
                      !.scored = FALSE, !.candidates = {}, !.newly = covered' \ covered,
                      !.features = fs, !.inputs_tried = tried, !.broken = broken,
                      !.prev = local.ex, !.ran = TRUE]
    BY <1>4 DEF ParamAfterRun
  <2>2. local = [f \in Fields |-> local[f]]
    BY DEF ParamTypes
  <2>3. /\ local' = [f \in Fields |-> local'[f]]
        /\ local'.ex = szd_execution' /\ local'.new_ex = szd_execution'
        /\ local'.candidates = {}
        /\ local'.bid_unsat_counter = local.bid_unsat_counter
    BY <2>1, <2>2 DEF Fields
  <2>4. ParamTypes'
    BY <1>4, <2>3 DEF ParamTypes, Searchable, KnownBranches, BranchAt
  <2> QED  BY <1>2, <2>3, <2>4, KeptBounded DEF Kept
<1> HIDE DEF next
<1> QED  BY <1>1, <1>3, <1>4, LaunchOutcome DEF next

\* A search that ends without a run.
LEMMA GiveUpKeeps ==
  ASSUME ParamTypes, \A b \in Branch : FailuresBounded(b), ParamGiveUp
  PROVE  ParamTypes' /\ \A b \in Branch : FailuresBounded(b)'
<1> DEFINE after == IF local.first THEN local.new_ex ELSE NULL
<1>1. /\ local' = [local EXCEPT !.ex = after, !.first = FALSE, !.scored = FALSE,
                                !.prev = local.ex, !.ran = FALSE]
      /\ local.candidates = {} /\ UNCHANGED statistics
  BY DEF ParamGiveUp
<1>2. Searchable(after)
  BY DEF ParamTypes, Searchable
<1> HIDE DEF after
<1>3. local = [f \in Fields |-> local[f]]
  BY DEF ParamTypes
<1>4. /\ local' = [f \in Fields |-> local'[f]]
      /\ local'.ex = after /\ local'.new_ex = local.new_ex
      /\ local'.candidates = local.candidates
      /\ local'.bid_unsat_counter = local.bid_unsat_counter
  BY <1>1, <1>3 DEF Fields
<1>5. ParamTypes'
  BY <1>1, <1>2, <1>4 DEF ParamTypes, Searchable, KnownBranches, BranchAt
<1> QED  BY <1>1, <1>4, <1>5, KeptBounded DEF Kept, statistics

\* Every step of the strategy.
LEMMA ParamKeeps ==
  ASSUME TypeOK, ParamTypes, \A b \in Branch : FailuresBounded(b), NextParam
  PROVE  ParamTypes' /\ \A b \in Branch : FailuresBounded(b)'
<1>1. ASSUME NEW c, ParamSkip(c)  PROVE ParamTypes' /\ \A b \in Branch : FailuresBounded(b)'
  BY <1>1, PopKeeps DEF ParamSkip, statistics
<1>2. ASSUME NEW c, ParamTried(c)  PROVE ParamTypes' /\ \A b \in Branch : FailuresBounded(b)'
  BY <1>2, PopKeeps DEF ParamTried, SolveSucceeds
<1>3. CASE ParamBreak
  BY <1>3 DEF ParamBreak, statistics, ParamTypes, FailuresBounded
<1> QED
  BY <1>1, <1>2, <1>3, StartKeeps, ExtractKeeps, UnsolvedKeeps, ForceKeeps, GiveUpKeeps
  DEF NextParam

\* The counts of failures, in every campaign.
LEMMA ParamInvariant == Spec => []ParamInv
<1>1. CampaignInv /\ ParamInv /\ [Next]_vars => ParamInv'
  <2> SUFFICES ASSUME CampaignInv, ParamInv, [Next]_vars  PROVE ParamInv'
    OBVIOUS
  <2>1. CASE Next
    <3>1. strategy' = strategy
      BY <2>1 DEF Next
    <3>2. strategy = "-param" => NextParam
      BY <2>1 DEF Next, NextStrategy
    <3> QED  BY <3>1, <3>2, ParamKeeps DEF ParamInv, CampaignInv
  <2>2. CASE UNCHANGED vars
    BY <2>2 DEF vars, searchVars, statistics, ParamInv, ParamTypes, FailuresBounded
  <2> QED  BY <2>1, <2>2
<1> QED  BY <1>1, ParamInit, CampaignInvariant, PTL DEF Spec

\* The solver fails for a branch at most SkipLimit + 1 times in a campaign of the
\* parameterized search, by the strategy's count and by that of Search.
THEOREM BranchesGivenUp == Spec => []GivesUpOnBranch
<1>1. ParamInv => GivesUpOnBranch
  BY DEF ParamInv, FailuresBounded, GivesUpOnBranch
<1> QED  BY <1>1, ParamInvariant, PTL
-----------------------------------------------------------------------------
(***************************************************************************)
(* What a search leaves, and the flags it reads.                           *)
(***************************************************************************)

\* Why a constraint is no candidate any more.
Explained(i) ==
  \/ CanSolve(local.ex, i) = {}
  \/ CanSolve(local.ex, i) \cap local.inputs_tried # {}
  \/ GivenUp(BranchAt(local.ex, i))

\* While a search goes on each constraint is a candidate or explained.
ChoiceInv ==
  /\ local.ex = NULL => ~local.scored
  /\ local.scored =>
       \A i \in 1 .. Len(local.ex.constraints) :
         Explained(i) \/ \E c \in local.candidates : c[2] = i

FeatureFields ==
  {"ready", "checked", "negated_cidx", "contexts", "cidx_counter", "bid_counter",
   "bid_history", "thresholds", "exec_counter", "latest_fids"}

IsSequence(s) == \E S : s \in Seq(S)

\* The flags are cleared by a search that runs the program, and only then.
FlagsInv ==
  LET fs == local.features
      n  == Len(local.ex.constraints)
  IN
  /\ local.ex # NULL => WellFormed(local.ex)
  /\ WellFormed(local.new_ex)
  /\ fs = [x \in FeatureFields |-> fs[x]]
  /\ fs.ready \subseteq FeatureIdx
  /\ \A f \in FeatureIdx : IsSequence(fs.checked[f])
  /\ local.ran /\ ~local.scored => \A f \in FeatureIdx : fs.checked[f] = << >>
  /\ local.scored =>
       \A f \in fs.ready :
         Len(fs.checked[f]) >= n /\ (local.ran => Len(fs.checked[f]) = n)

\* The initial states.
LEMMA SearchInit == Init /\ strategy = "-param" => ChoiceInv /\ FlagsInv
<1> SUFFICES ASSUME Init, strategy = "-param"
             PROVE  ChoiceInv /\ FlagsInv
  OBVIOUS
<1>1. InitParam
  BY DEF Init, InitStrategy
<1>2. PICK w \in Weights, t \in [1 .. 3 -> Thresholds] :
        local = [weights |-> w, ex |-> NULL, first |-> FALSE, new_ex |-> EmptyExecution,
                 scored |-> FALSE, candidates |-> {}, newly |-> {},
                 features |-> NewFeatures(t), inputs_tried |-> {},
                 bid_unsat_counter |-> [b \in Branch |-> 0], broken |-> FALSE,
                 prev |-> NULL, ran |-> TRUE]
  BY <1>1 DEF InitParam
<1>3. ChoiceInv
  BY <1>2 DEF ChoiceInv
<1>4. WellFormed(EmptyExecution)
  <2>1. Len(<< >>) = 0 /\ 1 .. 0 = {}
    OBVIOUS
  <2>2. Values(<< >>) = {}
    BY <2>1 DEF Values
  <2> QED  BY <2>1, <2>2 DEF WellFormed, KnownBranches, EmptyExecution
<1>5. /\ local.features = [x \in FeatureFields |-> local.features[x]]
      /\ local.features.ready = {}
      /\ \A f \in FeatureIdx : local.features.checked[f] = << >>
  BY <1>2 DEF NewFeatures, FeatureFields
<1>6. IsSequence(<< >>)
  BY DEF IsSequence
<1>7. local.ex = NULL /\ local.new_ex = EmptyExecution /\ ~local.scored
  BY <1>2
<1>8. FlagsInv
  BY <1>4, <1>5, <1>6, <1>7 DEF FlagsInv
<1> QED  BY <1>3, <1>8

\* The start of a restart: no search goes on.
LEMMA StartSearches ==
  ASSUME TypeOK, ParamTypes, ChoiceInv, FlagsInv, ParamStart
  PROVE  ChoiceInv' /\ FlagsInv'
<1> DEFINE next == [local EXCEPT !.ex = szd_execution', !.first = TRUE,
                                 !.newly = covered' \ covered]
<1>1. Launch(InitialInput, next) /\ local.ex = NULL
  BY DEF ParamStart
<1>2. CASE local' = local
  BY <1>2 DEF ChoiceInv, FlagsInv, Explained, GivenUp
<1>3. CASE local' = next /\ WellFormed(szd_execution') /\ szd_execution' # NULL
  <2>1. local = [f \in Fields |-> local[f]]
    BY DEF ParamTypes
  <2>2. /\ local'.ex = szd_execution' /\ local'.new_ex = local.new_ex
        /\ local'.scored = local.scored /\ local'.features = local.features
        /\ local'.ran = local.ran
    BY <1>3, <2>1 DEF Fields
  <2>3. ~local.scored
    BY <1>1 DEF ChoiceInv
  <2> QED  BY <1>3, <2>2, <2>3 DEF ChoiceInv, FlagsInv
<1> HIDE DEF next
<1> QED  BY <1>1, <1>2, <1>3, LaunchLeaves

\* The state of the features is a record of its fields.
HasFields(fs) == fs = [x \in FeatureFields |-> fs[x]]

\* A feature that is ready gets a flag for each constraint.
LEMMA FlagsAppended ==
  ASSUME NEW fs, NEW newly, NEW ex, NEW f \in FeatureIdx, WellFormed(ex),
         HasFields(fs), IsSequence(fs.checked[f])
  PROVE  LET new == ComputeFeatures(fs, newly, ex).checked[f] IN
         /\ IsSequence(new)
         /\ f \in fs.ready => Len(new) = Len(fs.checked[f]) + Len(ex.constraints)
<1> DEFINE new   == ComputeFeatures(fs, newly, ex).checked[f]
           flags == [i \in 1 .. Len(ex.constraints) |-> Flag(f, fs, newly, ex, i)]
           old   == fs.checked[f]
           n     == Len(ex.constraints)
<1>1. new = IF f \in fs.ready THEN old \o flags ELSE old
  BY DEF ComputeFeatures, FeatureFields, HasFields
<1>2. PICK S : old \in Seq(S)
  BY DEF IsSequence
<1>3. n \in Nat
  BY DEF WellFormed
<1>4. PICK T : flags \in Seq(T) /\ Len(flags) = n
  <2> DEFINE T == {flags[i] : i \in 1 .. n}
  <2>1. flags \in [1 .. n -> T]
    OBVIOUS
  <2> HIDE DEF T, flags, n
  <2>2. flags \in Seq(T) /\ Len(flags) = n
    BY <1>3, <2>1
  <2> QED  BY <2>2
<1> HIDE DEF new, flags, n, old
<1>5. old \in Seq(S \cup T) /\ flags \in Seq(S \cup T)
  BY <1>2, <1>4
<1>6. old \o flags \in Seq(S \cup T) /\ Len(old \o flags) = Len(old) + Len(flags)
  BY <1>5
<1>7. IsSequence(old \o flags) /\ IsSequence(old)
  BY <1>2, <1>6 DEF IsSequence
<1> QED  BY <1>1, <1>4, <1>6, <1>7 DEF new, old, n

\* Every constraint is a candidate, whatever its score.
LEMMA AllCandidates ==
  ASSUME NEW fs, NEW ex
  PROVE  \A i \in 1 .. Len(ex.constraints) : \E c \in Candidates(fs, ex) : c[2] = i
<1> SUFFICES ASSUME NEW i \in 1 .. Len(ex.constraints)
             PROVE  \E c \in Candidates(fs, ex) : c[2] = i
  OBVIOUS
<1> DEFINE c == << Score(fs, ex, i), i >>
<1>1. c \in Candidates(fs, ex)
  BY DEF Candidates
<1>2. c[2] = i
  OBVIOUS
<1> QED  BY <1>1, <1>2

\* The scores: each constraint is a candidate, and has its flags.
LEMMA ExtractSearches ==
  ASSUME ParamTypes, ChoiceInv, FlagsInv, ParamExtract
  PROVE  ChoiceInv' /\ FlagsInv'
<1> DEFINE fs == ComputeFeatures(local.features, local.newly, local.ex)
           cs == Candidates(fs, local.ex)
           n  == Len(local.ex.constraints)
           old == local.features
<1>1. local' = [local EXCEPT !.features = fs, !.scored = TRUE, !.candidates = cs]
  BY DEF ParamExtract
<1>2. local.ex # NULL /\ ~local.scored
  BY DEF ParamExtract
<1>3. \A i \in 1 .. n : \E c \in cs : c[2] = i
  BY AllCandidates
<1>4. fs = [x \in FeatureFields |-> fs[x]] /\ fs.ready = old.ready
  BY DEF FlagsInv, ComputeFeatures, FeatureFields
<1>5. \A f \in FeatureIdx : /\ IsSequence(fs.checked[f])
                            /\ f \in old.ready =>
                                 Len(fs.checked[f]) = Len(old.checked[f]) + n
  <2>1. /\ WellFormed(local.ex) /\ old = [x \in FeatureFields |-> old[x]]
        /\ \A f \in FeatureIdx : IsSequence(old.checked[f])
    BY <1>2 DEF FlagsInv
  <2> DEFINE newly == local.newly
             ex    == local.ex
  <2>2. ASSUME NEW f \in FeatureIdx
        PROVE  /\ IsSequence(ComputeFeatures(old, newly, ex).checked[f])
               /\ f \in old.ready =>
                    Len(ComputeFeatures(old, newly, ex).checked[f])
                      = Len(old.checked[f]) + Len(ex.constraints)
    <3>1. WellFormed(ex) /\ HasFields(old) /\ IsSequence(old.checked[f])
      BY <2>1 DEF HasFields
    <3> HIDE DEF old, newly, ex, fs, n
    <3> QED  BY <3>1, FlagsAppended
  <2>3. fs = ComputeFeatures(old, newly, ex) /\ n = Len(ex.constraints)
    OBVIOUS
  <2> HIDE DEF old, newly, ex, fs, n
  <2> QED  BY <2>2, <2>3
<1>6. \A f \in FeatureIdx : Len(old.checked[f]) \in Nat
  BY DEF FlagsInv, IsSequence
<1>7. local.ran => \A f \in FeatureIdx : Len(old.checked[f]) = 0
  BY <1>2 DEF FlagsInv
<1>8. n \in Nat /\ old.ready \subseteq FeatureIdx
  <2>1. WellFormed(local.ex) /\ old.ready \subseteq FeatureIdx
    BY <1>2 DEF FlagsInv
  <2> QED  BY <2>1 DEF WellFormed
<1> HIDE DEF fs, cs
<1>9. local = [f \in Fields |-> local[f]]
  BY DEF ParamTypes
<1>10. /\ local'.ex = local.ex /\ local'.new_ex = local.new_ex /\ local'.scored = TRUE
       /\ local'.features = fs /\ local'.candidates = cs /\ local'.ran = local.ran
  BY <1>1, <1>9 DEF Fields
<1>11. ChoiceInv'
  BY <1>2, <1>3, <1>10 DEF ChoiceInv
<1>12. \A f \in fs.ready : Len(fs.checked[f]) >= n /\ (local.ran => Len(fs.checked[f]) = n)
  <2> SUFFICES ASSUME NEW f \in fs.ready
               PROVE  Len(fs.checked[f]) >= n /\ (local.ran => Len(fs.checked[f]) = n)
    OBVIOUS
  <2>1. f \in FeatureIdx /\ Len(fs.checked[f]) = Len(old.checked[f]) + n
    BY <1>4, <1>5, <1>8
  <2>2. Len(old.checked[f]) \in Nat /\ (local.ran => Len(old.checked[f]) = 0)
    BY <1>6, <1>7, <2>1
  <2> HIDE DEF n, old
  <2> QED  BY <1>8, <2>1, <2>2
<1>13. FlagsInv'
  BY <1>2, <1>4, <1>5, <1>8, <1>10, <1>12 DEF FlagsInv
<1> QED  BY <1>11, <1>13

\* A candidate is dropped for a reason, and no reason goes away.
LEMMA DropSearches ==
  ASSUME ParamTypes, ChoiceInv, FlagsInv, NEW c \in local.candidates,
         local'.ex = local.ex, local'.new_ex = local.new_ex,
         local'.scored = local.scored, local'.features = local.features,
         local'.ran = local.ran, local'.inputs_tried = local.inputs_tried,
         local'.candidates = local.candidates \ {c},
         \A i \in 1 .. Len(local.ex.constraints) :
           GivenUp(BranchAt(local.ex, i)) => GivenUp(BranchAt(local.ex, i))',
         Explained(c[2])'
  PROVE  ChoiceInv' /\ FlagsInv'
<1>1. \A i \in 1 .. Len(local.ex.constraints) : Explained(i) => Explained(i)'
  BY DEF Explained, CanSolve, BranchAt
<1>2. ChoiceInv'
  BY <1>1 DEF ChoiceInv
<1>3. FlagsInv'
  BY DEF FlagsInv, WellFormed
<1> QED  BY <1>2, <1>3

\* The branch was given up, or the input had been tried.
LEMMA PopSearches ==
  ASSUME ParamTypes, ChoiceInv, FlagsInv, NEW c, ParamSkip(c) \/ ParamTried(c)
  PROVE  ChoiceInv' /\ FlagsInv'
<1>1. c \in local.candidates /\ local' = Popped(c)
  BY DEF ParamSkip, ParamTried, IsLast
<1>2. local = [f \in Fields |-> local[f]]
  BY DEF ParamTypes
<1>3. /\ local'.ex = local.ex /\ local'.new_ex = local.new_ex
      /\ local'.scored = local.scored /\ local'.features = local.features
      /\ local'.ran = local.ran /\ local'.inputs_tried = local.inputs_tried
      /\ local'.candidates = local.candidates \ {c}
      /\ local'.bid_unsat_counter = local.bid_unsat_counter
  BY <1>1, <1>2 DEF Fields, Popped
<1>4. \A b : GivenUp(b)' <=> GivenUp(b)
  BY <1>3 DEF GivenUp
<1>5. Explained(c[2])'
  BY <1>3 DEF ParamSkip, ParamTried, Explained, Bid, CanSolve, BranchAt, GivenUp
<1>6. \A i \in 1 .. Len(local.ex.constraints) :
        GivenUp(BranchAt(local.ex, i)) => GivenUp(BranchAt(local.ex, i))'
  BY <1>3 DEF GivenUp, BranchAt
<1> QED  BY <1>1, <1>3, <1>5, <1>6, DropSearches

\* There was no solution.
LEMMA UnsolvedSearches ==
  ASSUME ParamTypes, ChoiceInv, FlagsInv, NEW c, ParamUnsolved(c)
  PROVE  ChoiceInv' /\ FlagsInv'
<1> DEFINE count == local.bid_unsat_counter
<1>1. /\ c \in local.candidates /\ CanSolve(local.ex, c[2]) = {}
      /\ local' = [Popped(c) EXCEPT !.bid_unsat_counter = CountFailure(Bid(c))]
  BY DEF ParamUnsolved, IsLast, SolveFails, Failed
<1>2. local = [f \in Fields |-> local[f]] /\ count \in [Branch -> Nat]
  BY DEF ParamTypes
<1>3. /\ local'.ex = local.ex /\ local'.new_ex = local.new_ex
      /\ local'.scored = local.scored /\ local'.features = local.features
      /\ local'.ran = local.ran /\ local'.inputs_tried = local.inputs_tried
      /\ local'.candidates = local.candidates \ {c}
      /\ local'.bid_unsat_counter = [count EXCEPT ![Bid(c)] = @ + 1]
  BY <1>1, <1>2 DEF Fields, Popped, CountFailure
<1>4. \A i \in 1 .. Len(local.ex.constraints) :
        GivenUp(BranchAt(local.ex, i)) => GivenUp(BranchAt(local.ex, i))'
  <2> SUFFICES ASSUME NEW i \in 1 .. Len(local.ex.constraints),
                      GivenUp(BranchAt(local.ex, i))
               PROVE  GivenUp(BranchAt(local.ex, i))'
    OBVIOUS
  <2> DEFINE b == BranchAt(local.ex, i)
  <2>1. b \in Branch
    BY <1>1 DEF ParamTypes, Searchable, KnownBranches
  <2>2. BranchAt(local.ex, i)' = b
    BY <1>3 DEF BranchAt
  <2> HIDE DEF b
  <2>3. count[b] > SkipLimit /\ SkipLimit \in Nat
    BY ParamAssumption DEF GivenUp, ParamAssumption, b
  <2>4. local'.bid_unsat_counter[b] \in {count[b], count[b] + 1}
    BY <1>2, <1>3, <2>1
  <2>5. local'.bid_unsat_counter[b] > SkipLimit
    BY <1>2, <2>1, <2>3, <2>4
  <2> QED  BY <2>2, <2>5 DEF GivenUp
<1>5. Explained(c[2])'
  BY <1>1, <1>3 DEF Explained, CanSolve
<1> QED  BY <1>1, <1>3, <1>4, <1>5, DropSearches

\* A run ends the search and clears the flags.
LEMMA ForceSearches ==
  ASSUME TypeOK, ParamTypes, ChoiceInv, FlagsInv, NEW c, ParamForce(c)
  PROVE  ChoiceInv' /\ FlagsInv'
<1>1. PICK input, reaches, breaks :
        Launch(input, ParamAfterRun(c, input, szd_execution', reaches, breaks))
  BY DEF ParamForce
<1> DEFINE next == ParamAfterRun(c, input, szd_execution', reaches, breaks)
<1>2. CASE local' = local
  BY <1>2 DEF ChoiceInv, FlagsInv, Explained, GivenUp
<1>3. CASE local' = next /\ WellFormed(szd_execution') /\ szd_execution' # NULL
  <2> DEFINE fs == UpdateFeatureState(local.features, local.ex, c[2],
                                      Predicted(local.ex, szd_execution', c[2]),
                                      reached' \ reached, reaches)
  <2>1. PICK tried, broken :
          local' = [local EXCEPT
                      !.ex = szd_execution', !.new_ex = szd_execution', !.first = FALSE,
                      !.scored = FALSE, !.candidates = {}, !.newly = covered' \ covered,
                      !.features = fs, !.inputs_tried = tried, !.broken = broken,
                      !.prev = local.ex, !.ran = TRUE]
    <3>1. local = [f \in Fields |-> local[f]]
      BY DEF ParamTypes
    <3> QED  BY <1>3, <3>1 DEF ParamAfterRun, Fields
  <2>2. local = [f \in Fields |-> local[f]]
    BY DEF ParamTypes
  <2>3. local.features = [x \in FeatureFields |-> local.features[x]]
    BY DEF FlagsInv
  <2>4. /\ fs = [x \in FeatureFields |-> fs[x]]
        /\ fs.ready \subseteq FeatureIdx
        /\ \A f \in FeatureIdx : fs.checked[f] = << >>
    <3> DEFINE u == UpdateLatest(local.features, reached' \ reached, reaches)
    <3>1. u = [x \in FeatureFields |-> u[x]]
      BY <2>3 DEF UpdateLatest, FeatureFields
    <3>2. PICK ready, idx, contexts, cidxs, bids, history :
            /\ ready \subseteq FeatureIdx
            /\ fs = [u EXCEPT !.ready = ready, !.checked = [f \in FeatureIdx |-> << >>],
                             !.negated_cidx = idx, !.contexts = contexts,
                             !.cidx_counter = cidxs, !.bid_counter = bids,
                             !.bid_history = history]
      BY DEF UpdateFeatureState
    <3> HIDE DEF u, fs
    <3> QED  BY <3>1, <3>2 DEF FeatureFields
  <2> HIDE DEF fs
  <2>5. /\ local'.ex = szd_execution' /\ local'.new_ex = szd_execution'
        /\ local'.scored = FALSE /\ local'.features = fs
    BY <2>1, <2>2 DEF Fields
  <2>6. IsSequence(<< >>)
    BY DEF IsSequence
  <2>7. FlagsInv'
    BY <1>3, <2>4, <2>5, <2>6 DEF FlagsInv
  <2> QED  BY <1>3, <2>5, <2>7 DEF ChoiceInv
<1> HIDE DEF next
<1> QED  BY <1>1, <1>2, <1>3, LaunchLeaves DEF next

\* A search that ran nothing keeps the flags.
LEMMA GiveUpSearches ==
  ASSUME ParamTypes, ChoiceInv, FlagsInv, ParamGiveUp
  PROVE  ChoiceInv' /\ FlagsInv'
<1> DEFINE after == IF local.first THEN local.new_ex ELSE NULL
<1>1. local' = [local EXCEPT !.ex = after, !.first = FALSE, !.scored = FALSE,
                             !.prev = local.ex, !.ran = FALSE]
  BY DEF ParamGiveUp
<1>2. after = NULL \/ after = local.new_ex
  OBVIOUS
<1> HIDE DEF after
<1>3. local = [f \in Fields |-> local[f]]
  BY DEF ParamTypes
<1>4. /\ local'.ex = after /\ local'.new_ex = local.new_ex /\ local'.scored = FALSE
      /\ local'.features = local.features /\ local'.ran = FALSE
  BY <1>1, <1>3 DEF Fields
<1> QED  BY <1>2, <1>4 DEF ChoiceInv, FlagsInv, WellFormed

SearchesInv == strategy = "-param" => ChoiceInv /\ FlagsInv

\* The constraints of a search and their flags, in every campaign.
LEMMA SearchesInvariant == Spec => []SearchesInv
<1>1. CampaignInv /\ ParamInv /\ SearchesInv /\ [Next]_vars => SearchesInv'
  <2> SUFFICES ASSUME CampaignInv, ParamInv, SearchesInv, [Next]_vars,
                      strategy = "-param"
               PROVE  ChoiceInv' /\ FlagsInv'
    BY DEF SearchesInv, Next, vars
  <2>1. TypeOK /\ ParamTypes /\ ChoiceInv /\ FlagsInv
    BY DEF CampaignInv, ParamInv, SearchesInv
  <2>2. CASE NextParam
    <3>1. ASSUME NEW c, ParamSkip(c) \/ ParamTried(c) PROVE ChoiceInv' /\ FlagsInv'
      BY <2>1, <3>1, PopSearches
    <3>2. ASSUME NEW c, ParamUnsolved(c) PROVE ChoiceInv' /\ FlagsInv'
      BY <2>1, <3>2, UnsolvedSearches
    <3>3. ASSUME NEW c, ParamForce(c) PROVE ChoiceInv' /\ FlagsInv'
      BY <2>1, <3>3, ForceSearches
    <3>4. CASE ParamBreak
      BY <2>1, <3>4 DEF ParamBreak, ChoiceInv, FlagsInv, Explained, GivenUp
    <3> QED
      BY <2>1, <2>2, <3>1, <3>2, <3>3, <3>4, StartSearches, ExtractSearches, GiveUpSearches
      DEF NextParam
  <2>3. CASE UNCHANGED vars
    BY <2>1, <2>3 DEF vars, searchVars, ChoiceInv, FlagsInv, Explained, GivenUp
  <2> QED  BY <2>2, <2>3 DEF Next, NextStrategy
<1>2. Init => SearchesInv
  BY SearchInit DEF SearchesInv
<1> QED  BY <1>1, <1>2, CampaignInvariant, ParamInvariant, PTL DEF Spec

\* When a search of "-param" stops without a run, each constraint cannot be
\* solved, has a solution that was tried, or is of a branch given up.
THEOREM SearchLeavesNothing == Spec => []NothingLeftToForce
<1>1. SearchesInv => NothingLeftToForce
  BY DEF SearchesInv, ChoiceInv, NothingLeftToForce, Choosable, Explained
<1> QED  BY <1>1, SearchesInvariant, PTL

\* Each feature that is ready has a flag for every constraint it is asked about,
\* and no other if the search before ran the program.
THEOREM FlagsAreThere == Spec => []FlagsInBounds
<1>1. SearchesInv => FlagsInBounds
  <2> SUFFICES ASSUME SearchesInv, strategy = "-param", local.ex # NULL, local.scored,
                      NEW f \in local.features.ready
               PROVE  LET flags == Len(local.features.checked[f])
                          n     == Len(local.ex.constraints)
                      IN  flags >= n /\ (local.ran => flags = n)
    BY DEF FlagsInBounds
  <2> QED  BY DEF SearchesInv, FlagsInv
<1> QED  BY <1>1, SearchesInvariant, PTL
-----------------------------------------------------------------------------
(***************************************************************************)
(* The heuristic search: the distances that it goes by and the bounds of its *)
(* calls.                                                                  *)
(***************************************************************************)

\* The executions that a run can leave.
Recorded == (Leftovers \ {NULL}) \cup AllExecutions

\* Such an execution has the positions of its constraints and the branches of
\* the program; what is executed of it is what is at some position.
LEMMA RecordedExecution ==
  ASSUME NEW ex \in Recorded
  PROVE  /\ WellFormed(ex)
         /\ \A p \in Positions(ex.branches) :
              At(ex.branches, p) >= 0 =>
                At(ex.branches, p) \in Branch /\ At(ex.branches, p) \in Executed(ex)
         /\ \A k \in 1 .. Len(ex.constraints) :
              /\ ex.constraints_idx[k] \in Positions(ex.branches)
              /\ BranchAt(ex, k) = At(ex.branches, ex.constraints_idx[k])
              /\ BranchAt(ex, k) \in Branch
<1>1. WellFormed(ex)
  BY PathsAssumption DEF PathsAssumption, Recorded, AllExecutions
<1>2. Executed(ex) \subseteq Branch
  BY SearchAssumption DEF SearchAssumption, Recorded, AllExecutions
<1>3. Len(ex.branches) \in Nat /\ Len(ex.constraints) \in Nat
  BY <1>1, LenProperties DEF WellFormed
<1>4. ASSUME NEW p \in Positions(ex.branches), At(ex.branches, p) >= 0
      PROVE  At(ex.branches, p) \in Branch /\ At(ex.branches, p) \in Executed(ex)
  <2>1. p + 1 \in 1 .. Len(ex.branches)
    BY <1>3 DEF Positions
  <2>2. At(ex.branches, p) \in Int /\ At(ex.branches, p) \in Values(ex.branches)
    BY <1>1, <2>1, ElementOfSeq DEF WellFormed, At, Values
  <2>3. At(ex.branches, p) # 0
    BY <1>1, <2>2 DEF WellFormed
  <2> QED  BY <1>2, <1>4, <2>2, <2>3 DEF Executed
<1>5. ASSUME NEW k \in 1 .. Len(ex.constraints)
      PROVE  /\ ex.constraints_idx[k] \in Positions(ex.branches)
             /\ BranchAt(ex, k) = At(ex.branches, ex.constraints_idx[k])
             /\ BranchAt(ex, k) \in Branch
  <2>1. ex.constraints_idx[k] \in Nat /\ ex.constraints_idx[k] < Len(ex.branches)
    BY <1>1, ElementOfSeq DEF WellFormed
  <2>2. ex.constraints_idx[k] \in Positions(ex.branches)
    BY <1>3, <2>1 DEF Positions
  <2>3. BranchAt(ex, k) = At(ex.branches, ex.constraints_idx[k])
    BY DEF At, BranchAt
  <2>4. BranchAt(ex, k) \in Branch
    BY <1>1 DEF WellFormed, KnownBranches
  <2> QED  BY <2>2, <2>3, <2>4
<1> QED  BY <1>1, <1>4, <1>5

\* A launch leaves local and the coverage as they are, or there is an execution
\* that is counted, and the strategy goes on.
LEMMA LaunchCounts ==
  ASSUME TypeOK, NEW given, NEW next, Launch(given, next)
  PROVE  \/ UNCHANGED << local, covered >>
         \/ /\ local' = next
            /\ szd_execution' # NULL /\ szd_execution' \in Recorded
            /\ covered' = covered \cup Executed(szd_execution')
<1>1. CASE PrintFinalResult /\ UNCHANGED local
  BY <1>1 DEF PrintFinalResult, coverageVars
<1>2. CASE \E a \in Completions(given) : RunAndCover(a, next)
  <2>1. PICK a \in Assign : RunAndCover(a, next)
    BY <1>2 DEF Completions
  <2>2. CASE status' = "running"
    <3>1. /\ szd_execution' \in Leftovers \cup {Execution(b) : b \in Assign}
          /\ szd_execution' # NULL
      BY <2>1, <2>2, RunLeaves DEF RunAndCover
    <3>2. szd_execution' \in Recorded
      BY <3>1 DEF TypeOK, Recorded, AllExecutions, Execution
    <3>3. covered' = covered \cup (Executed(szd_execution') \ covered)
      BY <2>1, <2>2 DEF RunAndCover, UpdateCoverage
    <3> QED  BY <2>1, <2>2, <3>1, <3>2, <3>3 DEF RunAndCover
  <2>3. CASE status' # "running"
    BY <2>1, <2>3 DEF RunAndCover, coverageVars
  <2> QED  BY <2>2, <2>3
<1> QED  BY <1>1, <1>2 DEF Launch

\* The distances to the branches not covered are numbers, and zero only for these.
LEMMA DistancesAre ==
  ASSUME NEW b \in Branch, NEW U \in SUBSET Branch
  PROVE  Distances[U][b] \in Nat /\ (Distances[U][b] = 0 => b \in U)
<1>1. DOMAIN cfg = Branch /\ InfiniteDistance \in Nat \ {0}
  BY HeuristicAssumption DEF HeuristicAssumption
<1>2. Cardinality(Branch) \in Nat
  BY FiniteParts
<1>3. Distances[U] = DistanceTo(cfg, U, InfiniteDistance)
  BY DEF Distances
<1> QED  BY <1>1, <1>2, <1>3, DistanceIs

\* The last of a stack, the stack without it or with another in its place, and
\* the stack with one more.
LEMMA Stacks ==
  ASSUME NEW S, NEW calls \in Seq(S), calls # << >>
  PROVE  /\ Len(calls) \in Nat \ {0} /\ Last(calls) \in S /\ Front(calls) \in Seq(S)
         /\ \A c \in S : /\ Replace(calls, c) \in Seq(S) /\ Replace(calls, c) # << >>
                         /\ Append(calls, c) \in Seq(S)
<1>1. Len(calls) \in Nat \ {0}
  BY EmptySeq
<1>2. Len(calls) \in 1 .. Len(calls)
  BY <1>1
<1>3. Last(calls) \in S
  BY <1>2, ElementOfSeq DEF Last
<1>4. Front(calls) \in Seq(S)
  <2>1. \A i \in 1 .. Len(calls) - 1 : calls[i] \in S
    <3> TAKE i \in 1 .. Len(calls) - 1
    <3>1. i \in 1 .. Len(calls)
      BY <1>1
    <3> QED  BY <3>1, ElementOfSeq
  <2>2. 1 \in Int /\ Len(calls) - 1 \in Int
    BY <1>1
  <2> QED  BY <2>1, <2>2, SubSeqProperties DEF Front
<1>5. ASSUME NEW c \in S  PROVE Replace(calls, c) \in Seq(S) /\ Replace(calls, c) # << >>
  <2>1. Replace(calls, c) \in Seq(S) /\ Len(Replace(calls, c)) = Len(calls)
    BY <1>2, ExceptSeq DEF Replace
  <2> QED  BY <1>1, <2>1, EmptySeq
<1> QED  BY <1>1, <1>3, <1>4, <1>5, AppendProperties

HeuristicFields == {"ex", "dist", "untried", "iters", "calls", "cur", "lucky", "failed"}

SolveCalls == [ex : Recorded, max_dist : Nat, todo : SUBSET Nat, forcing : SUBSET Nat]

\* The calls of SolveAlongCfg that can be open when these branches are covered:
\* their executions have been counted and their bounds have not been lifted.
OpenCalls(counted, lucky) ==
  {c \in SolveCalls :
     /\ Executed(c.ex) \subseteq counted
     /\ \A j \in c.todo : j \in Positions(c.ex.branches) /\ At(c.ex.branches, j) >= 0
     /\ lucky \/ c.max_dist <= InfiniteDistance}

\* The distances are current when something is forced by them.  Nothing is covered
\* before a search, whose first run therefore finds a branch if it has any.
HeuristicInv ==
  /\ local = [f \in HeuristicFields |-> local[f]]
  /\ local.ex = NULL => covered = {} /\ local.calls = << >>
  /\ local.ex # NULL =>
       local.ex \in Recorded /\ local.untried \subseteq 1 .. Len(local.ex.constraints)
  /\ local.calls \in Seq(OpenCalls(covered, local.lucky))
  /\ local.calls # << >> =>
       /\ local.ex # NULL /\ local.ex.constraints # << >> /\ ~local.failed
       /\ local.cur # NULL /\ local.cur \in Recorded
  /\ local.lucky \in BOOLEAN /\ (local.lucky => local.calls # << >>)
  /\ local.failed \in BOOLEAN
  /\ local.ex # NULL /\ local.ex.constraints # << >> /\ ~local.lucky /\ ~local.failed =>
       local.dist = Distances[Branch \ covered]

\* The initial states.
LEMMA HeuristicStarts == Init /\ strategy = "-cfg" => HeuristicInv
<1> SUFFICES ASSUME Init, InitHeuristic  PROVE HeuristicInv
  BY DEF Init, InitStrategy
<1>1. << >> \in Seq(OpenCalls(covered, FALSE))
  BY EmptySeq
<1>2. covered = {}
  BY DEF Init, InitSearch
<1> QED  BY <1>1, <1>2 DEF HeuristicInv, InitHeuristic, HeuristicFields

\* A new search, by the distances of now.
LEMMA NewSearch ==
  ASSUME NEW ex \in Recorded, ex # NULL, NEW dist, local' = HeuristicSearch(ex, dist),
         ex.constraints # << >> => dist = Distances[Branch \ covered']
  PROVE  HeuristicInv'
<1>1. << >> \in Seq(OpenCalls(covered', FALSE))
  BY EmptySeq
<1>2. local' = [ex |-> ex, dist |-> dist, untried |-> 1 .. Len(ex.constraints),
                iters |-> SearchIters, calls |-> << >>, cur |-> NULL, lucky |-> FALSE,
                failed |-> FALSE]
  BY DEF HeuristicSearch
<1> QED  BY <1>1, <1>2 DEF HeuristicInv, HeuristicFields

\* A search that goes on, by distances that are current still, for nothing new is
\* covered, or are not used as if they were.
LEMMA SearchGoesOn ==
  ASSUME HeuristicInv, local.ex # NULL,
         local' = [f \in HeuristicFields |-> local'[f]],
         local'.ex = local.ex, local'.dist = local.dist,
         local'.untried \subseteq local.untried,
         local'.calls \in Seq(OpenCalls(covered', local'.lucky)),
         local'.calls # << >> => /\ local.ex.constraints # << >> /\ ~local'.failed
                                 /\ local'.cur # NULL /\ local'.cur \in Recorded,
         local'.lucky \in BOOLEAN, local'.lucky => local'.calls # << >>,
         local.lucky => local'.lucky,
         local'.failed \in BOOLEAN, local.failed => local'.failed,
         covered' = covered \/ local'.lucky \/ local'.failed
  PROVE  HeuristicInv'
BY DEF HeuristicInv

\* DoSearch returns false, or goes on to the next constraint.
LEMMA ResetKeeps == ASSUME HeuristicInv, HeuristicReset PROVE HeuristicInv'
<1>1. << >> \in Seq(OpenCalls(covered', local'.lucky))
  BY EmptySeq
<1>2. local' = [local EXCEPT !.ex = NULL] /\ covered' = {} /\ local.calls = << >>
  BY DEF HeuristicReset, InDoSearch
<1>3. local = [f \in HeuristicFields |-> local[f]]
  BY DEF HeuristicInv
<1>4. /\ local' = [f \in HeuristicFields |-> local'[f]]
      /\ local'.ex = NULL /\ local'.calls = << >> /\ local'.lucky = local.lucky
      /\ local'.failed = local.failed
  BY <1>2, <1>3 DEF HeuristicFields
<1> QED  BY <1>1, <1>2, <1>4 DEF HeuristicInv

\* A constraint that cannot be forced is not tried again.
LEMMA HeuristicUnsolvedKeeps ==
  ASSUME HeuristicInv, NEW k, HeuristicUnsolved(k)  PROVE HeuristicInv'
<1>1. local' = [local EXCEPT !.untried = @ \ {k}] /\ covered' = covered /\ local.ex # NULL
  BY DEF HeuristicUnsolved, NoRun, coverageVars, IsNearest, InDoSearch
<1>2. local = [f \in HeuristicFields |-> local[f]]
  BY DEF HeuristicInv
<1>3. /\ local' = [f \in HeuristicFields |-> local'[f]]
      /\ local'.ex = local.ex /\ local'.dist = local.dist
      /\ local'.untried \subseteq local.untried
      /\ local'.calls = local.calls /\ local'.cur = local.cur
      /\ local'.lucky = local.lucky /\ local'.failed = local.failed
  BY <1>1, <1>2 DEF HeuristicFields
<1> QED  BY <1>1, <1>3 DEF HeuristicInv

\* The first run of a search, with nothing covered before it.
LEMMA HeuristicStartKeeps ==
  ASSUME TypeOK, HeuristicInv, HeuristicStart  PROVE HeuristicInv'
<1>1. local.ex = NULL /\ covered = {}
  BY DEF HeuristicStart, HeuristicInv
<1>2. Launch(InitialInput,
             HeuristicSearch(szd_execution',
                             IF FoundNewBranch(szd_execution')
                               THEN Distances[Branch \ covered'] ELSE local.dist))
  BY DEF HeuristicStart
<1>3. CASE UNCHANGED << local, covered >>
  BY <1>3 DEF HeuristicInv
<1>4. CASE /\ local' = HeuristicSearch(szd_execution',
                          IF FoundNewBranch(szd_execution')
                            THEN Distances[Branch \ covered'] ELSE local.dist)
           /\ szd_execution' # NULL /\ szd_execution' \in Recorded
           /\ covered' = covered \cup Executed(szd_execution')
  <2> DEFINE dist == IF FoundNewBranch(szd_execution')
                       THEN Distances[Branch \ covered'] ELSE local.dist
  <2>1. PICK ex \in Recorded : szd_execution' = ex
    BY <1>4
  <2>2. ASSUME ex.constraints # << >>  PROVE FoundNewBranch(ex)
    <3>1. Len(ex.constraints) \in Nat \ {0}
      BY <2>2, RecordedExecution, EmptySeq DEF WellFormed
    <3>2. 1 \in 1 .. Len(ex.constraints)
      BY <3>1
    <3>3. BranchAt(ex, 1) \in Branch /\ BranchAt(ex, 1) \in Nat
      BY <3>2, RecordedExecution, SearchAssumption DEF SearchAssumption
    <3>4. BranchAt(ex, 1) \in Executed(ex)
      BY <3>2, <3>3, RecordedExecution
    <3> QED  BY <1>1, <3>4 DEF FoundNewBranch
  <2>3. ex.constraints # << >> => dist = Distances[Branch \ covered']
    BY <2>1, <2>2
  <2>4. local' = HeuristicSearch(ex, dist) /\ ex # NULL
    BY <1>4, <2>1
  <2> HIDE DEF dist
  <2> QED  BY <2>3, <2>4, NewSearch
<1> QED  BY <1>2, <1>3, <1>4, LaunchCounts

\* A new call is open if its execution is counted and its bound was not lifted.
LEMMA NewCall ==
  ASSUME NEW ex \in Recorded, NEW i \in Nat, NEW m \in Nat, NEW counted, NEW lucky,
         Executed(ex) \subseteq counted, lucky \/ m <= InfiniteDistance
  PROVE  AlongCfg(ex, i, m) \in OpenCalls(counted, lucky)
<1> DEFINE c == AlongCfg(ex, i, m)
<1>1. Len(ex.branches) \in Nat
  BY RecordedExecution, LenProperties DEF WellFormed
<1>2. /\ c.ex = ex /\ c.max_dist = m /\ c.forcing = {}
      /\ c.todo \subseteq CollectNextBranches(ex.branches, i)
      /\ c = [ex |-> ex, max_dist |-> m, todo |-> c.todo, forcing |-> {}]
  BY DEF AlongCfg
<1>3. \A j \in CollectNextBranches(ex.branches, i) :
        j \in Nat /\ j \in Positions(ex.branches) /\ At(ex.branches, j) >= 0
  BY <1>1 DEF CollectNextBranches, IsNextBranch, Positions
<1> HIDE DEF c
<1>4. c \in SolveCalls
  BY <1>2, <1>3 DEF SolveCalls
<1> QED  BY <1>2, <1>3, <1>4 DEF OpenCalls, c

\* A call that goes on stays open.
LEMMA CallChanged ==
  ASSUME NEW counted, NEW lucky, NEW c \in OpenCalls(counted, lucky),
         NEW T \in SUBSET c.todo, NEW F \in SUBSET Nat
  PROVE  /\ [c EXCEPT !.todo = T, !.forcing = F] \in OpenCalls(counted, lucky)
         /\ [c EXCEPT !.forcing = F] \in OpenCalls(counted, lucky)
<1>1. /\ c \in SolveCalls /\ Executed(c.ex) \subseteq counted
      /\ \A j \in c.todo : j \in Positions(c.ex.branches) /\ At(c.ex.branches, j) >= 0
      /\ lucky \/ c.max_dist <= InfiniteDistance
  BY DEF OpenCalls
<1>2. /\ c = [ex |-> c.ex, max_dist |-> c.max_dist, todo |-> c.todo, forcing |-> c.forcing]
      /\ c.ex \in Recorded /\ c.max_dist \in Nat /\ c.todo \subseteq Nat
  BY <1>1 DEF SolveCalls
<1> DEFINE d == [c EXCEPT !.todo = T]
<1>3. d = [ex |-> c.ex, max_dist |-> c.max_dist, todo |-> T, forcing |-> c.forcing]
  BY <1>2
<1> DEFINE e == [d EXCEPT !.forcing = F]
<1>4. e = [c EXCEPT !.todo = T, !.forcing = F]
  OBVIOUS
<1> HIDE DEF d
<1>5. e = [ex |-> c.ex, max_dist |-> c.max_dist, todo |-> T, forcing |-> F]
  BY <1>3
<1>6. [c EXCEPT !.forcing = F]
        = [ex |-> c.ex, max_dist |-> c.max_dist, todo |-> c.todo, forcing |-> F]
  BY <1>2
<1> HIDE DEF e
<1> QED  BY <1>1, <1>2, <1>4, <1>5, <1>6 DEF OpenCalls, SolveCalls

\* The bound of a further call.
LEMMA LessOneIs ==
  ASSUME NEW m \in Nat
  PROVE  LessOne(m) \in Nat /\ (m # 0 /\ m <= InfiniteDistance => LessOne(m) <= InfiniteDistance)
BY HeuristicAssumption DEF LessOne, HeuristicAssumption

\* The call that goes on, and the stack.
LEMMA InnermostCall ==
  ASSUME HeuristicInv, SolvingAlong
  PROVE  /\ Call \in OpenCalls(covered, local.lucky)
         /\ Call.ex \in Recorded /\ Call.max_dist \in Nat /\ Executed(Call.ex) \subseteq covered
         /\ local.lucky \/ Call.max_dist <= InfiniteDistance
         /\ local.ex # NULL /\ local.ex.constraints # << >> /\ ~local.failed
         /\ ~local.lucky => local.dist = Distances[Branch \ covered]
<1>1. Call \in OpenCalls(covered, local.lucky)
  BY Stacks DEF HeuristicInv, SolvingAlong, Call
<1> QED  BY <1>1 DEF OpenCalls, SolveCalls, HeuristicInv, SolvingAlong

\* A call changes only the stack.
LEMMA StackChanges ==
  ASSUME HeuristicInv, SolvingAlong, NEW calls \in Seq(OpenCalls(covered, local.lucky)),
         calls # << >>, local' = [local EXCEPT !.calls = calls], covered' = covered
  PROVE  HeuristicInv'
<1>1. local = [f \in HeuristicFields |-> local[f]]
  BY DEF HeuristicInv
<1>2. /\ local' = [f \in HeuristicFields |-> local'[f]]
      /\ local'.ex = local.ex /\ local'.dist = local.dist /\ local'.untried = local.untried
      /\ local'.calls = calls /\ local'.cur = local.cur
      /\ local'.lucky = local.lucky /\ local'.failed = local.failed
  BY <1>1 DEF HeuristicFields
<1> QED  BY <1>2 DEF HeuristicInv, SolvingAlong

\* A branch within a bound of zero is not covered, so no path that is counted
\* has it.
LEMMA NearIsNew ==
  ASSUME TypeOK, local.dist = Distances[Branch \ covered], NEW b \in Branch,
         local.dist[b] <= 0
  PROVE  b \notin covered
<1>1. Branch \ covered \in SUBSET Branch
  OBVIOUS
<1>2. local.dist[b] \in Nat /\ (local.dist[b] = 0 => b \in Branch \ covered)
  BY <1>1, DistancesAre
<1> QED  BY <1>2

\* A call that goes on from a branch along the path it is at.
LEMMA EnterKeeps ==
  ASSUME TypeOK, HeuristicInv, NEW j, AlongEnter(j)  PROVE HeuristicInv'
<1> DEFINE held == Replace(local.calls, [Call EXCEPT !.todo = @ \ {j}, !.forcing = {j}])
           next == AlongCfg(Call.ex, j, LessOne(Call.max_dist))
           S == OpenCalls(covered, local.lucky)
<1>1. /\ SolvingAlong /\ j \in Call.todo
      /\ local' = [local EXCEPT !.calls = IF NearEnough(At(Branches, j))
                                            THEN Append(held, next) ELSE held]
      /\ covered' = covered
  BY DEF AlongEnter, NoRun, coverageVars
<1>2. /\ Call \in S /\ Call.ex \in Recorded /\ Call.max_dist \in Nat
      /\ Executed(Call.ex) \subseteq covered
      /\ local.lucky \/ Call.max_dist <= InfiniteDistance
      /\ ~local.lucky => local.dist = Distances[Branch \ covered]
  BY <1>1, InnermostCall
<1>3. /\ j \in Nat /\ j \in Positions(Call.ex.branches) /\ At(Call.ex.branches, j) >= 0
  BY <1>1, <1>2 DEF OpenCalls, SolveCalls
<1>4. At(Branches, j) \in Branch /\ At(Branches, j) \in covered
  BY <1>2, <1>3, RecordedExecution DEF Branches
<1>5. [Call EXCEPT !.todo = Call.todo \ {j}, !.forcing = {j}] \in S
  BY <1>2, <1>3, CallChanged
<1>6. held \in Seq(S) /\ held # << >>
  <2> HIDE DEF S
  <2>1. local.calls \in Seq(S) /\ local.calls # << >>
    BY <1>1 DEF HeuristicInv, SolvingAlong, S
  <2> QED  BY <1>5, <2>1, Stacks
<1>7. ASSUME NearEnough(At(Branches, j))  PROVE next \in S
  <2>1. local.lucky \/ Call.max_dist # 0
    BY <1>2, <1>4, <1>7, NearIsNew DEF NearEnough
  <2>2. LessOne(Call.max_dist) \in Nat
    BY <1>2, LessOneIs
  <2>3. local.lucky \/ LessOne(Call.max_dist) <= InfiniteDistance
    BY <1>2, <2>1, LessOneIs
  <2> QED  BY <1>2, <1>3, <2>2, <2>3, NewCall
<1> HIDE DEF held, next, S
<1>8. CASE NearEnough(At(Branches, j))
  <2>1. Append(held, next) \in Seq(S) /\ Append(held, next) # << >>
    <3>1. Append(held, next) \in Seq(S) /\ Len(Append(held, next)) = Len(held) + 1
      BY <1>6, <1>7, <1>8, AppendProperties
    <3>2. Len(held) \in Nat \ {0}
      BY <1>6, EmptySeq
    <3> QED  BY <3>1, <3>2, EmptySeq
  <2> QED  BY <1>1, <1>8, <2>1, StackChanges DEF S
<1>9. CASE ~NearEnough(At(Branches, j))
  BY <1>1, <1>6, <1>9, StackChanges DEF S
<1> QED  BY <1>8, <1>9

\* The call goes on after the branch it is at.
LEMMA PassedIs ==
  ASSUME HeuristicInv, SolvingAlong
  PROVE  Passed \in Seq(OpenCalls(covered, local.lucky)) /\ Passed # << >>
<1> DEFINE S == OpenCalls(covered, local.lucky)
<1>1. [Call EXCEPT !.forcing = {}] \in S
  BY InnermostCall, CallChanged
<1>2. local.calls \in Seq(S) /\ local.calls # << >>
  BY DEF HeuristicInv, SolvingAlong
<1> HIDE DEF S
<1> QED  BY <1>1, <1>2, Stacks DEF Passed, S

\* A branch whose other side is not forced.
LEMMA PassKeeps ==
  ASSUME HeuristicInv, AlongPass \/ \E c : AlongUnsolved(c)  PROVE HeuristicInv'
<1>1. SolvingAlong /\ local' = [local EXCEPT !.calls = Passed] /\ covered' = covered
  BY DEF AlongPass, AlongUnsolved, ForcingAt, NoRun, coverageVars
<1> QED  BY <1>1, PassedIs, StackChanges

\* A run that forces the other side, along which the next call goes.
LEMMA ForceKeepsStack ==
  ASSUME TypeOK, HeuristicInv, NEW c, AlongForce(c)  PROVE HeuristicInv'
<1> DEFINE idx == Call.ex.constraints_idx[c]
           S == OpenCalls(covered, local.lucky)
<1>1. /\ SolvingAlong /\ c \in 1 .. Len(Call.ex.constraints)
      /\ NearEnough(PairedAt(idx))
  BY DEF AlongForce, ForcingAt
<1>2. /\ Call \in S /\ Call.ex \in Recorded /\ Call.max_dist \in Nat
      /\ local.lucky \/ Call.max_dist <= InfiniteDistance
      /\ ~local.lucky => local.dist = Distances[Branch \ covered]
  BY <1>1, InnermostCall
<1>3. /\ idx \in Nat /\ At(Branches, idx) \in Branch /\ PairedAt(idx) \in Branch
      /\ PairedAt(idx) = paired_branch[Call.ex.branches[idx + 1]]
  <2>1. Len(Call.ex.branches) \in Nat
    BY <1>2, RecordedExecution, LenProperties DEF WellFormed
  <2>2. idx \in Positions(Call.ex.branches) /\ At(Call.ex.branches, idx) \in Branch
    BY <1>1, <1>2, RecordedExecution
  <2>3. idx \in Nat
    BY <2>1, <2>2 DEF Positions
  <2> QED  BY <2>2, <2>3, SearchAssumption DEF SearchAssumption, PairedAt, At, Branches
<1>4. CASE UNCHANGED << local, covered >>
  BY <1>4 DEF HeuristicInv
<1>5. ASSUME NEW ex \in Recorded, ex # NULL, covered' = covered \cup Executed(ex),
             local' = IF FoundNewBranch(ex) THEN HeuristicSearch(ex, Distances[Branch \ covered'])
                      ELSE IF ~Predicted(Call.ex, ex, c) THEN [local EXCEPT !.calls = Passed]
                      ELSE [local EXCEPT !.calls = Append(Passed, AlongCfg(ex, idx,
                                                              LessOne(Call.max_dist)))]
      PROVE  HeuristicInv'
  <2>1. CASE FoundNewBranch(ex)
    <3>1. local' = HeuristicSearch(ex, Distances[Branch \ covered'])
      BY <1>5, <2>1
    <3> QED  BY <1>5, <3>1, NewSearch
  <2>2. CASE ~FoundNewBranch(ex) /\ ~Predicted(Call.ex, ex, c)
    <3>1. local' = [local EXCEPT !.calls = Passed] /\ covered' = covered
      BY <1>5, <2>2 DEF FoundNewBranch
    <3> QED  BY <1>1, <3>1, PassedIs, StackChanges
  <2>3. CASE ~FoundNewBranch(ex) /\ Predicted(Call.ex, ex, c)
    <3> DEFINE next == AlongCfg(ex, idx, LessOne(Call.max_dist))
    <3>1. local' = [local EXCEPT !.calls = Append(Passed, next)]
      BY <1>5, <2>3
    <3>2. covered' = covered /\ Executed(ex) \subseteq covered
      BY <1>5, <2>3 DEF FoundNewBranch
    <3>3. PairedAt(idx) \in covered
      <4>1. idx < Len(ex.branches) /\ ex.branches[idx + 1] = PairedAt(idx)
        BY <1>3, <2>3 DEF Predicted, CheckPrediction
      <4>2. Len(ex.branches) \in Nat
        BY <1>5, RecordedExecution, LenProperties DEF WellFormed
      <4>3. idx \in Positions(ex.branches) /\ At(ex.branches, idx) = PairedAt(idx)
        BY <1>3, <4>1, <4>2 DEF Positions, At
      <4>4. At(ex.branches, idx) >= 0
        <5>1. \A b \in Branch : b >= 0
          BY SearchAssumption DEF SearchAssumption
        <5> QED  BY <1>3, <4>3, <5>1
      <4>5. At(ex.branches, idx) \in Executed(ex)
        BY <1>5, <4>3, <4>4, RecordedExecution
      <4> QED  BY <3>2, <4>3, <4>5
    <3>4. local.lucky \/ Call.max_dist # 0
      BY <1>1, <1>2, <1>3, <3>3, NearIsNew DEF NearEnough
    <3>5. LessOne(Call.max_dist) \in Nat
      BY <1>2, LessOneIs
    <3>6. local.lucky \/ LessOne(Call.max_dist) <= InfiniteDistance
      BY <1>2, <3>4, LessOneIs
    <3>7. next \in S
      BY <1>3, <1>5, <3>2, <3>5, <3>6, NewCall
    <3>8. Passed \in Seq(S) /\ Passed # << >>
      BY <1>1, PassedIs
    <3> HIDE DEF next, S
    <3>9. Append(Passed, next) \in Seq(S) /\ Append(Passed, next) # << >>
      <4>1. Append(Passed, next) \in Seq(S) /\ Len(Append(Passed, next)) = Len(Passed) + 1
        BY <3>7, <3>8, AppendProperties
      <4>2. Len(Passed) \in Nat \ {0}
        BY <3>8, EmptySeq
      <4> QED  BY <4>1, <4>2, EmptySeq
    <3> QED  BY <1>1, <3>1, <3>2, <3>9, StackChanges DEF S
  <2> QED  BY <2>1, <2>2, <2>3
<1>6. PICK input : Launch(input,
              IF FoundNewBranch(szd_execution') THEN FoundBy(szd_execution')
              ELSE IF ~Predicted(Call.ex, szd_execution', c)
                   THEN [local EXCEPT !.calls = Passed]
              ELSE [local EXCEPT
                      !.calls = Append(Passed, AlongCfg(szd_execution', idx,
                                                        LessOne(Call.max_dist)))])
  BY DEF AlongForce
<1> HIDE DEF idx, S
<1> QED  BY <1>4, <1>5, <1>6, LaunchCounts DEF FoundBy

\* A call returns false, the first one to DoSearch.
LEMMA FailsKeeps == ASSUME HeuristicInv, AlongFails  PROVE HeuristicInv'
<1>1. SolvingAlong /\ covered' = covered
  BY DEF AlongFails, NoRun, coverageVars
<1>2. CASE Len(local.calls) > 1
  <2> DEFINE S == OpenCalls(covered, local.lucky)
  <2>1. local' = [local EXCEPT !.calls = Front(local.calls)]
    BY <1>2 DEF AlongFails
  <2>2. local.calls \in Seq(S) /\ local.calls # << >>
    BY <1>1 DEF HeuristicInv, SolvingAlong
  <2> HIDE DEF S
  <2>3. Front(local.calls) \in Seq(S)
    BY <2>2, Stacks
  <2>4. Len(local.calls) \in Nat
    BY <2>2, LenProperties
  <2>5. Front(local.calls) # << >>
    <3>1. \A i \in 1 .. Len(local.calls) - 1 : local.calls[i] \in S
      <4> TAKE i \in 1 .. Len(local.calls) - 1
      <4>1. i \in 1 .. Len(local.calls)
        BY <2>4
      <4> QED  BY <2>2, <4>1, ElementOfSeq
    <3>2. Len(Front(local.calls)) = Len(local.calls) - 1
      BY <1>2, <2>4, <3>1, SubSeqProperties DEF Front
    <3>3. Len(<< >>) = 0
      OBVIOUS
    <3> QED  BY <1>2, <2>4, <3>2, <3>3
  <2> QED  BY <1>1, <2>1, <2>3, <2>5, StackChanges DEF S
<1>3. CASE ~(Len(local.calls) > 1) /\ local.lucky
  <2>1. local' = HeuristicSearch(local.cur, Distances[Branch \ covered'])
    BY <1>1, <1>3 DEF AlongFails
  <2>2. local.cur \in Recorded /\ local.cur # NULL
    BY <1>1 DEF HeuristicInv, SolvingAlong
  <2>3. PICK cur \in Recorded : local.cur = cur
    BY <2>2
  <2> QED  BY <2>1, <2>2, <2>3, NewSearch
<1>4. CASE ~(Len(local.calls) > 1) /\ ~local.lucky
  <2>1. local' = [local EXCEPT !.calls = << >>, !.cur = NULL]
    BY <1>4 DEF AlongFails
  <2>2. local = [f \in HeuristicFields |-> local[f]] /\ local.ex # NULL
    BY <1>1, InnermostCall DEF HeuristicInv
  <2>3. /\ local' = [f \in HeuristicFields |-> local'[f]]
        /\ local'.ex = local.ex /\ local'.dist = local.dist /\ local'.untried = local.untried
        /\ local'.calls = << >>
        /\ local'.lucky = local.lucky /\ local'.failed = local.failed
    BY <2>1, <2>2 DEF HeuristicFields
  <2>4. << >> \in Seq(OpenCalls(covered', local'.lucky))
    BY EmptySeq
  <2> QED  BY <1>1, <1>4, <2>2, <2>3, <2>4 DEF HeuristicInv
<1> QED  BY <1>2, <1>3, <1>4

\* The score of a constraint that is searched for.
LEMMA ScoreIs ==
  ASSUME TypeOK, HeuristicInv, InDoSearch, NEW k \in local.untried
  PROVE  /\ local.ex \in Recorded /\ k \in 1 .. Len(local.ex.constraints)
         /\ local.ex.constraints # << >> /\ ~local.lucky
         /\ local.dist[Forced(k)] \in Nat /\ SeenBefore(k) \in Nat
         /\ local.ex.constraints_idx[k] \in Nat
<1>1. /\ local.ex \in Recorded /\ k \in 1 .. Len(local.ex.constraints)
      /\ ~local.lucky
  BY DEF HeuristicInv, InDoSearch
<1>2. Len(local.ex.constraints) \in Nat /\ Len(local.ex.branches) \in Nat
  BY <1>1, RecordedExecution, LenProperties DEF WellFormed
<1>3. local.ex.constraints # << >>
  <2>1. Len(<< >>) = 0 /\ 1 .. 0 = {}
    OBVIOUS
  <2> QED  BY <1>1, <2>1
<1>4. local.dist = Distances[Branch \ covered]
  BY <1>1, <1>3 DEF HeuristicInv, InDoSearch
<1>5. Forced(k) \in Branch
  BY <1>1, RecordedExecution, SearchAssumption DEF SearchAssumption, Forced
<1>6. local.dist[Forced(k)] \in Nat
  BY <1>4, <1>5, DistancesAre
<1>7. SeenBefore(k) \in Nat
  <2> DEFINE J == {j \in (1 .. Len(local.ex.constraints)) \ local.untried : Forced(j) = Forced(k)}
  <2>1. IsFiniteSet(1 .. Len(local.ex.constraints))
    BY <1>2, FS_Interval
  <2>2. J \subseteq 1 .. Len(local.ex.constraints)
    OBVIOUS
  <2> HIDE DEF J
  <2>3. IsFiniteSet(J)
    BY <2>1, <2>2, FS_Subset
  <2>4. Cardinality(J) \in Nat
    BY <2>3, FS_CardinalityType
  <2> QED  BY <2>4 DEF SeenBefore, J
<1>8. local.ex.constraints_idx[k] \in Nat
  BY <1>1, <1>2, RecordedExecution DEF Positions
<1> QED  BY <1>1, <1>3, <1>6, <1>7, <1>8

\* The run that forces a constraint: a search of what it found, the constraint
\* after it, or a first call of SolveAlongCfg.
LEMMA HeuristicForceKeeps ==
  ASSUME TypeOK, HeuristicInv, NEW k \in local.untried, HeuristicForce(k)
  PROVE  HeuristicInv'
<1>1. IsNearest(k) /\ InDoSearch
  BY DEF HeuristicForce, IsNearest
<1>2. /\ local.ex \in Recorded /\ k \in 1 .. Len(local.ex.constraints)
      /\ local.ex.constraints # << >> /\ ~local.lucky
      /\ local.dist[Forced(k)] \in Nat /\ SeenBefore(k) \in Nat
      /\ local.ex.constraints_idx[k] \in Nat
  BY <1>1, ScoreIs
<1>3. /\ local.ex # NULL /\ local.calls = << >>
      /\ local.lucky = FALSE /\ local.failed = FALSE
      /\ local = [f \in HeuristicFields |-> local[f]]
  BY <1>1, <1>2 DEF InDoSearch, HeuristicInv
<1>4. CASE UNCHANGED << local, covered >>
  BY <1>4 DEF HeuristicInv
<1>5. ASSUME NEW ex \in Recorded, ex # NULL, covered' = covered \cup Executed(ex),
             local' = AfterForcing(k, ex)
      PROVE  HeuristicInv'
  <2> DEFINE i     == local.ex.constraints_idx[k]
             dist  == local.dist[Forced(k)]
             new   == Executed(ex) \ covered
             along == FindAlongCfg(i, dist, ex.branches, new)
             next  == [local EXCEPT !.untried = @ \ {k}, !.iters = @ - 1]
             call  == AlongCfg(ex, i, DistanceScore(k) - 1)
  <2>1. \/ local' = FoundBy(ex)
        \/ local' = next /\ new = {}
        \/ local' = [local EXCEPT !.failed = TRUE]
        \/ /\ dist # 0
           /\ local' = [next EXCEPT !.calls = << call >>, !.cur = ex, !.lucky = new # {}]
    <3>1. new = {} => ~along
      BY DEF FindAlongCfg
    <3> HIDE DEF along
    <3> QED  BY <1>5, <3>1 DEF AfterForcing, along
  <2>2. new = {} => covered' = covered
    BY <1>5
  <2>3. << >> \in Seq(OpenCalls(covered', local'.lucky))
    BY EmptySeq
  <2>4. /\ next = [f \in HeuristicFields |-> next[f]]
        /\ next.ex = local.ex /\ next.dist = local.dist /\ next.untried \subseteq local.untried
        /\ next.calls = << >> /\ next.lucky = local.lucky /\ next.failed = local.failed
    BY <1>3 DEF HeuristicFields
  <2>5. CASE local' = FoundBy(ex)
    <3>1. local' = HeuristicSearch(ex, Distances[Branch \ covered'])
      BY <2>5 DEF FoundBy
    <3> QED  BY <1>5, <3>1, NewSearch
  <2>6. CASE local' = next /\ new = {}
    <3> HIDE DEF next, new
    <3>1. /\ local' = [f \in HeuristicFields |-> local'[f]]
          /\ local'.ex = local.ex /\ local'.dist = local.dist
          /\ local'.untried \subseteq local.untried /\ local'.calls = << >>
          /\ local'.lucky = FALSE /\ local'.failed = FALSE /\ covered' = covered
      BY <1>3, <2>2, <2>4, <2>6
    <3> QED  BY <1>3, <2>3, <3>1, SearchGoesOn
  <2>7. CASE local' = [local EXCEPT !.failed = TRUE]
    <3>1. /\ local' = [f \in HeuristicFields |-> local'[f]]
          /\ local'.ex = local.ex /\ local'.dist = local.dist
          /\ local'.untried = local.untried /\ local'.calls = << >>
          /\ local'.lucky = FALSE /\ local'.failed = TRUE
      BY <1>3, <2>7 DEF HeuristicFields
    <3> QED  BY <1>3, <2>3, <3>1, SearchGoesOn
  <2>8. CASE /\ dist # 0
             /\ local' = [next EXCEPT !.calls = << call >>, !.cur = ex, !.lucky = new # {}]
    <3>1. /\ local' = [f \in HeuristicFields |-> local'[f]]
          /\ local'.ex = local.ex /\ local'.dist = local.dist
          /\ local'.untried \subseteq local.untried /\ local'.calls = << call >>
          /\ local'.cur = ex /\ local'.lucky = (new # {}) /\ local'.failed = FALSE
      <4> HIDE DEF next, new, call, dist
      <4> QED  BY <1>3, <2>4, <2>8 DEF HeuristicFields
    <3>2. DistanceScore(k) - 1 \in Nat /\ DistanceScore(k) - 1 <= InfiniteDistance
      <4>1. DistanceScore(k) <= InfiniteDistance /\ InfiniteDistance \in Nat
        BY <1>1, HeuristicAssumption DEF IsNearest, HeuristicAssumption
      <4>2. DistanceScore(k) \in Nat \ {0}
        BY <1>2, <2>8 DEF DistanceScore
      <4> QED  BY <4>1, <4>2
    <3>3. call \in OpenCalls(covered', local'.lucky)
      <4>1. Executed(ex) \subseteq covered'
        BY <1>5
      <4> QED  BY <1>2, <3>2, <4>1, NewCall
    <3> HIDE DEF next, new, call
    <3>4. << call >> \in Seq(OpenCalls(covered', local'.lucky)) /\ << call >> # << >>
      BY <3>3
    <3>5. local'.lucky \in BOOLEAN /\ (covered' = covered \/ local'.lucky)
      BY <2>2, <3>1
    <3> QED  BY <1>2, <1>3, <1>5, <3>1, <3>4, <3>5, SearchGoesOn
  <2> HIDE DEF next, new, dist, call
  <2> QED  BY <2>1, <2>5, <2>6, <2>7, <2>8
<1>6. PICK input : Launch(input, AfterForcing(k, szd_execution'))
  BY DEF HeuristicForce
<1> QED  BY <1>4, <1>5, <1>6, LaunchCounts

\* All steps of the heuristic search.
LEMMA HeuristicKeeps == TypeOK /\ HeuristicInv /\ NextHeuristic => HeuristicInv'
<1> SUFFICES ASSUME TypeOK, HeuristicInv, NextHeuristic  PROVE HeuristicInv'
  OBVIOUS
<1> QED
  BY HeuristicStartKeeps, ResetKeeps, PassKeeps, FailsKeeps, HeuristicUnsolvedKeeps,
     HeuristicForceKeeps, EnterKeeps, ForceKeepsStack DEF NextHeuristic

\* The distances a heuristic search goes by are current, and no call has lifted
\* its bound.
THEOREM HeuristicInvariant == Spec => [](strategy = "-cfg" => HeuristicInv)
<1>1. Init => (strategy = "-cfg" => HeuristicInv)
  BY HeuristicStarts
<1>2. TypeOK /\ (strategy = "-cfg" => HeuristicInv) /\ [Next]_vars
        => (strategy = "-cfg" => HeuristicInv)'
  <2> SUFFICES ASSUME TypeOK, strategy = "-cfg" => HeuristicInv, [Next]_vars, strategy' = "-cfg"
               PROVE  HeuristicInv'
    OBVIOUS
  <2>1. CASE Next
    <3>1. strategy = "-cfg" /\ NextHeuristic
      BY <2>1 DEF Next, NextStrategy
    <3> QED  BY <3>1, HeuristicKeeps
  <2>2. CASE UNCHANGED vars
    BY <2>2 DEF vars, searchVars, coverageVars, HeuristicInv
  <2> QED  BY <2>1, <2>2
<1> QED  BY <1>1, <1>2, CampaignTypeCorrect, PTL DEF Spec

\* A bound of zero is for a branch not covered, which is on no path that was
\* counted: the call is not made.
THEOREM DistancesAreBounded == Spec => []DistanceBounded
<1>1. (strategy = "-cfg" => HeuristicInv) => DistanceBounded
  <2> SUFFICES ASSUME HeuristicInv, ~local.lucky, NEW i \in 1 .. Len(local.calls)
               PROVE  local.calls[i].max_dist <= InfiniteDistance
    BY DEF DistanceBounded
  <2>1. local.calls[i] \in OpenCalls(covered, local.lucky)
    BY ElementOfSeq DEF HeuristicInv
  <2> QED  BY <2>1 DEF OpenCalls
<1> QED  BY <1>1, HeuristicInvariant, PTL
-----------------------------------------------------------------------------
(***************************************************************************)
(* The two measures of a distance along a path.                            *)
(*                                                                         *)
(* FindAlongCfg goes from each position to those that follow it, and       *)
(* MinCflDistance along the path, with a stack.  A position follows one    *)
(* other at most, and the loop of MinCflDistance always knows which: that  *)
(* of the next position is the last one of its level, and each element of  *)
(* the stack was counted at the one that its call follows.                 *)
(***************************************************************************)
MarkedPaths == Seq(Branch \cup {CallId, ReturnId})

\* An element of a path is a branch or one of the two marks.
LEMMA PathElement ==
  ASSUME NEW path \in MarkedPaths
  PROVE  /\ Len(path) \in Nat /\ CallId # ReturnId
         /\ \A p \in Positions(path) :
              /\ At(path, p) \in Branch \cup {CallId, ReturnId}
              /\ At(path, p) >= 0 <=> At(path, p) \in Branch
              /\ At(path, p) \in Branch => At(path, p) \notin {CallId, ReturnId}
<1>1. Len(path) \in Nat
  BY LenProperties DEF MarkedPaths
<1>2. Branch \subseteq Nat \ {0}
  BY SearchAssumption DEF SearchAssumption
<1>3. ASSUME NEW p \in Positions(path)
      PROVE  At(path, p) \in Branch \cup {CallId, ReturnId}
  <2>1. p + 1 \in 1 .. Len(path)
    BY <1>1 DEF Positions
  <2> QED  BY <2>1, ElementOfSeq DEF At, MarkedPaths
<1>4. CallId = -1 /\ ReturnId = -2 /\ CallId # ReturnId
  BY DEF CallId, ReturnId
<1>5. ASSUME NEW p \in Positions(path)
      PROVE  /\ At(path, p) >= 0 <=> At(path, p) \in Branch
             /\ At(path, p) \in Branch => At(path, p) \notin {CallId, ReturnId}
  <2> DEFINE b == At(path, p)
  <2>1. b \in Branch \/ b = -1 \/ b = -2
    BY <1>3, <1>4
  <2>2. b \in Branch => b \in Nat
    BY <1>2
  <2> HIDE DEF b
  <2>3. (b >= 0 <=> b \in Branch) /\ (b \in Branch => b # -1 /\ b # -2)
    <3>1. -1 \notin Branch /\ -2 \notin Branch
      BY <1>2
    <3> QED  BY <2>1, <2>2, <3>1
  <2> QED  BY <1>4, <2>3 DEF b
<1> QED  BY <1>1, <1>3, <1>4, <1>5

\* The nesting of two parts of a path, one after the other.
LEMMA NestingAdds ==
  ASSUME NEW path, NEW a \in Int, NEW b \in Int, NEW c \in Int, a <= b + 1, b <= c
  PROVE  /\ Nesting(path, a, b) \in Int
         /\ Nesting(path, a, c) = Nesting(path, a, b) + Nesting(path, b + 1, c)
<1> DEFINE M(x, y, id) == {p \in x .. y : At(path, p) = id}
<1>1. ASSUME NEW x \in Int, NEW y \in Int, NEW id
      PROVE  IsFiniteSet(M(x, y, id)) /\ Cardinality(M(x, y, id)) \in Nat
  <2>1. IsFiniteSet(x .. y) /\ M(x, y, id) \subseteq x .. y
    BY FS_Interval
  <2> HIDE DEF M
  <2>2. IsFiniteSet(M(x, y, id))
    BY <2>1, FS_Subset
  <2> QED  BY <2>2, FS_CardinalityType
<1>2. ASSUME NEW id
      PROVE  Cardinality(M(a, c, id)) = Cardinality(M(a, b, id)) + Cardinality(M(b + 1, c, id))
  <2>1. M(a, c, id) = M(a, b, id) \cup M(b + 1, c, id)
    OBVIOUS
  <2>2. M(a, b, id) \cap M(b + 1, c, id) = {}
    OBVIOUS
  <2>3. b + 1 \in Int
    OBVIOUS
  <2>4. /\ IsFiniteSet(M(a, b, id)) /\ IsFiniteSet(M(b + 1, c, id))
        /\ Cardinality(M(a, b, id)) \in Nat /\ Cardinality(M(b + 1, c, id)) \in Nat
    BY <1>1, <2>3
  <2> HIDE DEF M
  <2>5. Cardinality(M(a, b, id) \cap M(b + 1, c, id)) = 0
    BY <2>2, FS_EmptySet
  <2>6. Cardinality(M(a, b, id) \cup M(b + 1, c, id))
          = Cardinality(M(a, b, id)) + Cardinality(M(b + 1, c, id))
              - Cardinality(M(a, b, id) \cap M(b + 1, c, id))
    BY <2>4, FS_Union
  <2> QED  BY <2>1, <2>4, <2>5, <2>6
<1>3. \A x, y \in Int : Nesting(path, x, y)
                          = Cardinality(M(x, y, CallId)) - Cardinality(M(x, y, ReturnId))
  BY DEF Nesting
<1>4. b + 1 \in Int
  OBVIOUS
<1> HIDE DEF M
<1>5. /\ Cardinality(M(a, b, CallId)) \in Nat /\ Cardinality(M(a, b, ReturnId)) \in Nat
      /\ Cardinality(M(b + 1, c, CallId)) \in Nat /\ Cardinality(M(b + 1, c, ReturnId)) \in Nat
  BY <1>1, <1>4
<1> QED  BY <1>2, <1>3, <1>4, <1>5

\* The nesting of one element and of none.
LEMMA NestingOne ==
  ASSUME NEW path, NEW b \in Int
  PROVE  /\ Nesting(path, b + 1, b) = 0
         /\ At(path, b) = CallId => Nesting(path, b, b) = 1
         /\ At(path, b) = ReturnId => Nesting(path, b, b) = -1
         /\ At(path, b) \notin {CallId, ReturnId} => Nesting(path, b, b) = 0
<1> DEFINE M(x, y, id) == {p \in x .. y : At(path, p) = id}
<1>1. \A id : M(b + 1, b, id) = {}
  OBVIOUS
<1>2. \A id : M(b, b, id) = IF At(path, b) = id THEN {b} ELSE {}
  <2>1. b .. b = {b}
    OBVIOUS
  <2> QED  BY <2>1
<1>3. \A x, y \in Int : Nesting(path, x, y)
                          = Cardinality(M(x, y, CallId)) - Cardinality(M(x, y, ReturnId))
  BY DEF Nesting
<1>4. Cardinality({}) = 0 /\ Cardinality({b}) = 1 /\ b + 1 \in Int
  <2>1. Cardinality({}) = 0
    BY FS_EmptySet
  <2>2. Cardinality({b}) = 1
    BY FS_Singleton
  <2> QED  BY <2>1, <2>2
<1>5. CallId # ReturnId
  BY DEF CallId, ReturnId
<1> HIDE DEF M
<1>6. Nesting(path, b + 1, b) = Cardinality({}) - Cardinality({})
  BY <1>1, <1>3, <1>4
<1>7. \A id : Cardinality(M(b, b, id)) = IF At(path, b) = id THEN 1 ELSE 0
  BY <1>2, <1>4
<1>8. Nesting(path, b, b)
        = (IF At(path, b) = CallId THEN 1 ELSE 0) - (IF At(path, b) = ReturnId THEN 1 ELSE 0)
  BY <1>3, <1>7
<1> QED  BY <1>4, <1>5, <1>6, <1>8

\* Position p follows q, as far as what is between them goes.
Leads(path, q, p) ==
  /\ q < p
  /\ \A r \in q + 1 .. p - 1 :
       /\ Nesting(path, q + 1, r) >= 0
       /\ At(path, r) >= 0 => \E s \in r + 1 .. p - 1 : Nesting(path, r + 1, s) < 0

\* The branches that follow.
LEMMA NextIsLed ==
  ASSUME NEW path \in MarkedPaths, NEW q \in Positions(path), NEW p \in Nat
  PROVE  p \in CollectNextBranches(path, q) <=>
           p \in Positions(path) /\ At(path, p) \in Branch /\ Leads(path, q, p)
<1>1. Len(path) \in Nat
  BY PathElement
<1>2. p \in q + 1 .. Len(path) - 1 <=> p \in Positions(path) /\ q < p
  BY <1>1 DEF Positions
<1>3. p \in Positions(path) => (At(path, p) >= 0 <=> At(path, p) \in Branch)
  BY PathElement
<1> QED  BY <1>2, <1>3 DEF CollectNextBranches, IsNextBranch, Leads

\* Of two positions, the second of them a branch, only one can be followed.
LEMMA LedByOne ==
  ASSUME NEW path, NEW p \in Int, NEW q \in Int, NEW r \in Int,
         Leads(path, q, p), Leads(path, r, p), At(path, r) >= 0
  PROVE  ~(q < r)
<1> SUFFICES ASSUME q < r  PROVE FALSE
  OBVIOUS
<1>1. r \in q + 1 .. p - 1
  BY DEF Leads
<1>2. PICK s \in r + 1 .. p - 1 : Nesting(path, r + 1, s) < 0
  BY <1>1 DEF Leads
<1>3. Nesting(path, r + 1, s) >= 0
  BY DEF Leads
<1>4. Nesting(path, r + 1, s) \in Int
  <2>1. r + 1 \in Int /\ s \in Int /\ r + 1 <= s + 1 /\ s <= s
    OBVIOUS
  <2> QED  BY <2>1, NestingAdds
<1> QED  BY <1>2, <1>3, <1>4

\* A branch leads to the next position, and what leads to a call to that after it.
LEMMA LeadsOn ==
  ASSUME NEW path \in MarkedPaths, NEW p \in Positions(path)
  PROVE  /\ Leads(path, p, p + 1)
         /\ \A q \in Nat : At(path, p) = CallId /\ Leads(path, q, p) => Leads(path, q, p + 1)
<1>1. p \in Nat /\ p + 1 .. (p + 1) - 1 = {}
  BY PathElement DEF Positions
<1>2. ASSUME NEW q \in Nat, At(path, p) = CallId, Leads(path, q, p)
      PROVE  Leads(path, q, p + 1)
  <2>1. Nesting(path, q + 1, p) >= 0
    <3>1. /\ q + 1 \in Int /\ p - 1 \in Int /\ p \in Int
          /\ q + 1 <= (p - 1) + 1 /\ p - 1 <= p /\ (p - 1) + 1 = p
      BY <1>1, <1>2 DEF Leads
    <3>2. /\ Nesting(path, q + 1, p - 1) \in Int
          /\ Nesting(path, q + 1, p) = Nesting(path, q + 1, p - 1) + Nesting(path, p, p)
      BY <3>1, NestingAdds
    <3>3. Nesting(path, p, p) = 1
      BY <1>2, <3>1, NestingOne
    <3>4. Nesting(path, q + 1, p - 1) >= 0
      <4>1. CASE q + 1 = p
        <5>1. p - 1 = q /\ q \in Int
          BY <3>1, <4>1
        <5>2. Nesting(path, q + 1, q) = 0
          BY <5>1, NestingOne
        <5> QED  BY <5>1, <5>2
      <4>2. CASE q + 1 # p
        <5>1. p - 1 \in q + 1 .. p - 1
          BY <3>1, <4>2
        <5> QED  BY <1>2, <5>1 DEF Leads
      <4> QED  BY <4>1, <4>2
    <3> QED  BY <3>2, <3>3, <3>4
  <2>2. ~(At(path, p) >= 0)
    BY <1>2 DEF CallId
  <2>3. ASSUME NEW r \in q + 1 .. (p + 1) - 1
        PROVE  /\ Nesting(path, q + 1, r) >= 0
               /\ At(path, r) >= 0 =>
                    \E s \in r + 1 .. (p + 1) - 1 : Nesting(path, r + 1, s) < 0
    <3>1. CASE r = p
      BY <2>1, <2>2, <3>1
    <3>2. CASE r # p
      <4>1. r \in q + 1 .. p - 1 /\ r + 1 .. p - 1 \subseteq r + 1 .. (p + 1) - 1
        BY <1>1, <3>2
      <4> QED  BY <1>2, <4>1 DEF Leads
    <3> QED  BY <3>1, <3>2
  <2>4. q < p + 1
    BY <1>1, <1>2 DEF Leads
  <2> QED  BY <2>3, <2>4 DEF Leads
<1>3. Leads(path, p, p + 1)
  BY <1>1 DEF Leads
<1> QED  BY <1>2, <1>3

\* The call at c is open before n, with this many calls open since.
Open(path, c, n, depth) ==
  /\ c \in Nat /\ c < n /\ At(path, c) = CallId
  /\ Nesting(path, c, n - 1) = depth
  /\ \A r \in c .. n - 1 : Nesting(path, c, r) >= 1

\* What led to a call leads on from its return.
LEMMA LeadsBack ==
  ASSUME NEW path \in MarkedPaths, NEW p \in Positions(path), At(path, p) = ReturnId,
         NEW q \in Nat, NEW c \in Nat, Leads(path, q, c), Open(path, c, p, 1)
  PROVE  Leads(path, q, p + 1)
<1>1. p \in Nat /\ q < c /\ c < p /\ At(path, c) = CallId
  BY PathElement DEF Positions, Leads, Open
<1>2. Nesting(path, c, p) = 0
  <2>1. c \in Int /\ p - 1 \in Int /\ p \in Int /\ c <= (p - 1) + 1 /\ p - 1 <= p /\ (p - 1) + 1 = p
    BY <1>1
  <2>2. Nesting(path, c, p) = Nesting(path, c, p - 1) + Nesting(path, p, p)
    BY <2>1, NestingAdds
  <2> QED  BY <2>1, <2>2, NestingOne DEF Open
<1>3. Nesting(path, q + 1, c - 1) \in Int /\ Nesting(path, q + 1, c - 1) >= 0
  <2>1. q + 1 \in Int /\ c - 1 \in Int /\ q + 1 <= (c - 1) + 1 /\ c - 1 <= c - 1
    BY <1>1
  <2>2. Nesting(path, q + 1, c - 1) \in Int
    BY <2>1, NestingAdds
  <2>3. CASE q + 1 = c
    BY <1>1, <2>3, NestingOne
  <2>4. CASE q + 1 # c
    <3>1. c - 1 \in q + 1 .. c - 1
      BY <1>1, <2>4
    <3> QED  BY <2>2, <3>1 DEF Leads
  <2> QED  BY <2>2, <2>3, <2>4
<1>4. ASSUME NEW r \in c .. p
      PROVE  Nesting(path, c, r) \in Int /\ Nesting(path, c, r) >= 0 /\ Nesting(path, q + 1, r) >= 0
  <2>1. c \in Int /\ r \in Int /\ c <= r + 1 /\ r <= r
    BY <1>1
  <2>2. Nesting(path, c, r) \in Int
    BY <2>1, NestingAdds
  <2>3. Nesting(path, c, r) >= 0
    <3>1. CASE r = p
      BY <1>2, <3>1
    <3>2. CASE r # p
      <4>1. r \in c .. p - 1
        BY <1>1, <3>2
      <4> QED  BY <2>2, <4>1 DEF Open
    <3> QED  BY <3>1, <3>2
  <2>4. Nesting(path, q + 1, r) = Nesting(path, q + 1, c - 1) + Nesting(path, c, r)
    <3>1. /\ q + 1 \in Int /\ c - 1 \in Int /\ r \in Int /\ q + 1 <= (c - 1) + 1 /\ c - 1 <= r
          /\ (c - 1) + 1 = c
      BY <1>1
    <3> QED  BY <3>1, NestingAdds
  <2> QED  BY <1>3, <2>2, <2>3, <2>4
<1>5. ASSUME NEW r \in q + 1 .. (p + 1) - 1
      PROVE  /\ Nesting(path, q + 1, r) >= 0
             /\ At(path, r) >= 0 =>
                  \E s \in r + 1 .. (p + 1) - 1 : Nesting(path, r + 1, s) < 0
  <2>1. CASE r < c
    <3>1. r \in q + 1 .. c - 1 /\ r + 1 .. c - 1 \subseteq r + 1 .. (p + 1) - 1
      BY <1>1, <2>1
    <3> QED  BY <3>1 DEF Leads
  <2>2. CASE r \in {c, p}
    <3>1. ~(At(path, r) >= 0)
      BY <1>1, <2>2 DEF CallId, ReturnId
    <3>2. r \in c .. p
      BY <1>1, <2>2
    <3> QED  BY <1>4, <3>1, <3>2
  <2>3. CASE r \in c + 1 .. p - 1
    <3>1. r \in c .. p /\ r \in c .. p - 1
      BY <1>1, <2>3
    <3>2. Nesting(path, c, p) = Nesting(path, c, r) + Nesting(path, r + 1, p)
      <4>1. c \in Int /\ r \in Int /\ p \in Int /\ c <= r + 1 /\ r <= p
        BY <1>1, <2>3
      <4> QED  BY <4>1, NestingAdds
    <3>3. Nesting(path, c, r) \in Int /\ Nesting(path, c, r) >= 1
      BY <1>4, <3>1 DEF Open
    <3>4. Nesting(path, r + 1, p) \in Int
      <4>1. r + 1 \in Int /\ p \in Int /\ r + 1 <= p + 1 /\ p <= p
        BY <1>1, <2>3
      <4> QED  BY <4>1, NestingAdds
    <3>5. Nesting(path, r + 1, p) < 0
      BY <1>2, <3>2, <3>3, <3>4
    <3>6. p \in r + 1 .. (p + 1) - 1
      BY <1>1, <2>3
    <3> QED  BY <1>4, <3>1, <3>5, <3>6
  <2>4. r < c \/ r \in {c, p} \/ r \in c + 1 .. p - 1
    BY <1>1
  <2> QED  BY <2>1, <2>2, <2>3, <2>4
<1>6. q < p + 1
  BY <1>1
<1> QED  BY <1>5, <1>6 DEF Leads

\* The nesting up to a position and that of the position.
LEMMA NestingNext ==
  ASSUME NEW path, NEW a \in Int, NEW p \in Int, a <= p
  PROVE  /\ Nesting(path, a, p) = Nesting(path, a, p - 1) + Nesting(path, p, p)
         /\ Nesting(path, a, p - 1) \in Int /\ Nesting(path, a, p) \in Int
<1>1. p - 1 \in Int /\ a <= (p - 1) + 1 /\ p - 1 <= p /\ (p - 1) + 1 = p /\ a <= p + 1 /\ p <= p
  OBVIOUS
<1> QED  BY <1>1, NestingAdds

\* A call stays open until the nesting is back where it was.
LEMMA OpenGoesOn ==
  ASSUME NEW path, NEW p \in Int, NEW c, NEW depth \in Int, Open(path, c, p, depth),
         NEW d \in Int, Nesting(path, p, p) = d, depth + d >= 1
  PROVE  Open(path, c, p + 1, depth + d)
<1>1. c \in Nat /\ c < p /\ (p + 1) - 1 = p
  BY DEF Open
<1>2. Nesting(path, c, p) = depth + d
  BY <1>1, NestingNext DEF Open
<1>3. ASSUME NEW r \in c .. p  PROVE Nesting(path, c, r) >= 1
  <2>1. r = p \/ r \in c .. p - 1
    BY <1>1
  <2> QED  BY <1>2, <2>1 DEF Open
<1> QED  BY <1>1, <1>2, <1>3 DEF Open

\* The variables of MinCflDistance, and that its loop has ended.
CountState == [stack : Seq(Nat), min : Nat, cur : Nat, done : BOOLEAN]

\* The lesser of two numbers.
LEMMA MinOfTwo ==
  ASSUME NEW a \in Nat, NEW b \in Nat
  PROVE  Min({a, b}) = IF a <= b THEN a ELSE b
<1>1. CASE a <= b
  <2>1. {a, b} \subseteq Nat /\ a \in {a, b} /\ \A m \in {a, b} : a <= m
    BY <1>1
  <2> QED  BY <1>1, <2>1, MinIs
<1>2. CASE ~(a <= b)
  <2>1. {a, b} \subseteq Nat /\ b \in {a, b} /\ \A m \in {a, b} : b <= m
    BY <1>2
  <2> QED  BY <1>2, <2>1, MinIs
<1> QED  BY <1>1, <1>2

\* What a step of the loop of MinCflDistance comes to.
CountsTo(s, b, bs, t) ==
  /\ t \in CountState
  /\ s.done => t = s
  /\ ~s.done /\ b = CallId =>
       /\ t.stack = Append(s.stack, s.cur) /\ t.min = s.min
       /\ t.cur = s.cur /\ ~t.done
  /\ ~s.done /\ b = ReturnId /\ s.stack = << >> => t.done /\ t.min = s.min
  /\ ~s.done /\ b = ReturnId /\ s.stack # << >> =>
       /\ t.stack = Front(s.stack) /\ t.min = s.min
       /\ t.cur = Last(s.stack) /\ ~t.done
  /\ ~s.done /\ b \in Branch =>
       /\ t.stack = s.stack /\ t.cur = s.cur + 1 /\ ~t.done
       /\ t.min = IF b \in bs /\ s.cur < s.min THEN s.cur ELSE s.min

\* A step comes to it, on every state and element.
LEMMA CountStep ==
  ASSUME NEW s \in CountState, NEW b \in Branch \cup {CallId, ReturnId}, NEW bs
  PROVE  CountsTo(s, b, bs, CountDistance(s, b, bs))
<1> USE DEF CountsTo
<1> DEFINE t == CountDistance(s, b, bs)
<1>1. b \in Branch => b # CallId /\ b # ReturnId
  BY SearchAssumption DEF SearchAssumption, CallId, ReturnId
<1>2. CallId # ReturnId
  BY DEF CallId, ReturnId
<1>3. s.cur \in Nat /\ s.min \in Nat /\ s.stack \in Seq(Nat) /\ s.done \in BOOLEAN
  BY DEF CountState
<1>4. CASE s.done
  BY <1>4 DEF CountDistance
<1>5. CASE ~s.done /\ b = CallId
  <2>1. t = [s EXCEPT !.stack = Append(s.stack, s.cur)]
    BY <1>5 DEF CountDistance
  <2>2. Append(s.stack, s.cur) \in Seq(Nat)
    BY <1>3, AppendProperties
  <2> HIDE DEF t
  <2>3. t.stack = Append(s.stack, s.cur) /\ t.min = s.min /\ t.cur = s.cur /\ t.done = s.done
    BY <2>1 DEF CountState
  <2>4. t \in CountState
    BY <2>1, <2>2 DEF CountState
  <2> QED  BY <1>1, <1>2, <1>5, <2>3, <2>4 DEF t
<1>6. CASE ~s.done /\ b = ReturnId /\ s.stack = << >>
  <2>1. t = [s EXCEPT !.done = TRUE]
    BY <1>2, <1>6 DEF CountDistance, TakeBack
  <2> HIDE DEF t
  <2>2. t \in CountState /\ t.done /\ t.min = s.min
    BY <2>1 DEF CountState
  <2> QED  BY <1>1, <1>2, <1>6, <2>2 DEF t
<1>7. CASE ~s.done /\ b = ReturnId /\ s.stack # << >>
  <2>1. t = [s EXCEPT !.cur = Last(s.stack), !.stack = Front(s.stack)]
    BY <1>2, <1>7 DEF CountDistance, TakeBack
  <2>2. Last(s.stack) \in Nat /\ Front(s.stack) \in Seq(Nat)
    BY <1>3, <1>7, Stacks
  <2> HIDE DEF t
  <2>3. t \in CountState
    BY <2>1, <2>2 DEF CountState
  <2>4. /\ t.stack = Front(s.stack) /\ t.min = s.min /\ t.cur = Last(s.stack)
        /\ t.done = s.done
    BY <2>1 DEF CountState
  <2> QED  BY <1>1, <1>2, <1>7, <2>3, <2>4 DEF t
<1>8. CASE ~s.done /\ b \in Branch
  <2> DEFINE min == IF b \in bs THEN Min({s.min, s.cur}) ELSE s.min
  <2>1. t = [s EXCEPT !.min = min, !.cur = s.cur + 1]
    BY <1>1, <1>8 DEF CountDistance
  <2>2. min \in Nat /\ min = IF b \in bs /\ s.cur < s.min THEN s.cur ELSE s.min
    BY <1>3, MinOfTwo
  <2> HIDE DEF t, min
  <2>3. t \in CountState
    <3> DEFINE u == [s EXCEPT !.min = min]
    <3>1. u \in CountState /\ u.cur = s.cur
      BY <2>2 DEF CountState
    <3>2. s.cur + 1 \in Nat
      BY <1>3
    <3> HIDE DEF u
    <3>3. [u EXCEPT !.cur = s.cur + 1] \in CountState
      BY <3>1, <3>2 DEF CountState
    <3> QED  BY <2>1, <3>3 DEF u
  <2>4. t.stack = s.stack /\ t.cur = s.cur + 1 /\ t.done = s.done /\ t.min = min
    BY <2>1 DEF CountState
  <2> QED  BY <1>1, <1>8, <2>2, <2>3, <2>4 DEF t
<1> QED
  BY <1>3, <1>4, <1>5, <1>6, <1>7, <1>8 DEF CountState

\* The definition of Measured is met by a function.
LEMMA MeasuredIs ==
  ASSUME NEW path \in MarkedPaths, NEW i \in Positions(path), NEW bs
  PROVE  /\ \A n \in i + 1 .. Len(path) : Measured(i, path, bs)[n] \in CountState
         /\ Measured(i, path, bs)[i + 1] = InitialCount
         /\ \A n \in i + 1 .. Len(path) - 1 :
              Measured(i, path, bs)[n + 1]
                = CountDistance(Measured(i, path, bs)[n], At(path, n), bs)
<1> DEFINE a == i + 1
           b == Len(path)
           Step(f, n) == IF n = i + 1 THEN InitialCount
                         ELSE CountDistance(f[n - 1], At(path, n - 1), bs)
           Is(f) == f = [n \in i + 1 .. Len(path) |-> Step(f, n)]
           g == [n \in a + 1 .. b |->
                   [s \in CountState |-> CountDistance(s, At(path, n - 1), bs)]]
           C == Measured(i, path, bs)
<1>1. a \in Int /\ b \in Int /\ a <= b /\ i \in Nat /\ b \in Nat
  BY PathElement DEF Positions
<1>2. \A n \in a + 1 .. b : n - 1 \in Positions(path)
  BY <1>1 DEF Positions
<1>3. \A n \in a + 1 .. b : \A s \in CountState :
        g[n][s] = CountDistance(s, At(path, n - 1), bs) /\ g[n][s] \in CountState
  <2> TAKE n \in a + 1 .. b
  <2> TAKE s \in CountState
  <2>1. At(path, n - 1) \in Branch \cup {CallId, ReturnId}
    BY <1>2, PathElement
  <2>2. CountDistance(s, At(path, n - 1), bs) \in CountState
    BY <2>1, CountStep DEF CountsTo
  <2> QED  BY <2>2
<1>4. InitialCount \in CountState
  BY HeuristicAssumption, EmptySeq DEF HeuristicAssumption, InitialCount, CountState
<1>5. PICK f : Iterates(f, g, a, b, InitialCount, CountState)
  <2>1. StepsIn(g, a, b, CountState)
    BY <1>3 DEF StepsIn
  <2> HIDE DEF g, a, b
  <2> QED  BY <1>1, <2>1, <1>4, Recursion
<1>6. /\ f \in [a .. b -> CountState] /\ f[a] = InitialCount
       /\ \A n \in a + 1 .. b : f[n] = g[n][f[n - 1]]
  <2> HIDE DEF g
  <2> QED  BY <1>5 DEF Iterates
<1>7. Is(f)
  <2>1. ASSUME NEW n \in i + 1 .. Len(path)  PROVE f[n] = Step(f, n)
    <3>1. CASE n = i + 1
      BY <1>6, <3>1
    <3>2. CASE n # i + 1
      <4>1. n \in a + 1 .. b /\ n - 1 \in a .. b
        BY <1>1, <3>2
      <4>2. f[n - 1] \in CountState
        BY <1>6, <4>1
      <4> HIDE DEF g
      <4> QED  BY <1>3, <1>6, <3>2, <4>1, <4>2
    <3> QED  BY <3>1, <3>2
  <2>2. f = [n \in i + 1 .. Len(path) |-> f[n]]
    BY <1>6
  <2> HIDE DEF Step
  <2> QED  BY <2>1, <2>2
<1>8. C = CHOOSE h : Is(h)
  BY DEF Measured
<1>9. Is(C)
  <2> HIDE DEF Is, C
  <2> QED  BY <1>7, <1>8
<1>10. \A n \in i + 1 .. Len(path) : C[n] = Step(C, n)
  <2> HIDE DEF Step, C
  <2> QED  BY <1>9
<1>11. C[i + 1] = InitialCount
  <2> HIDE DEF C
  <2>1. i + 1 \in i + 1 .. Len(path)
    BY <1>1
  <2> QED  BY <1>10, <2>1
<1>12. ASSUME NEW n \in i + 1 .. Len(path) - 1
       PROVE  C[n + 1] = CountDistance(C[n], At(path, n), bs)
  <2> HIDE DEF C
  <2>1. n + 1 \in i + 1 .. Len(path) /\ n + 1 # i + 1 /\ (n + 1) - 1 = n
    BY <1>1
  <2> QED  BY <1>10, <2>1
<1> DEFINE S == {n \in Int : C[n] \in CountState}
<1>13. a \in S
  <2> HIDE DEF C
  <2> QED  BY <1>1, <1>4, <1>11
<1>14. ASSUME NEW n \in a .. b - 1, n \in S  PROVE n + 1 \in S
  <2> HIDE DEF C
  <2>1. n \in Positions(path) /\ n \in i + 1 .. Len(path) - 1 /\ n + 1 \in Int
    BY <1>1 DEF Positions
  <2>2. At(path, n) \in Branch \cup {CallId, ReturnId}
    BY <2>1, PathElement
  <2>3. C[n] \in CountState
    BY <1>14
  <2>4. CountDistance(C[n], At(path, n), bs) \in CountState
    BY <2>2, <2>3, CountStep DEF CountsTo
  <2> QED  BY <1>12, <2>1, <2>4
<1>15. a .. b \subseteq S
  <2> HIDE DEF S
  <2> QED  BY <1>1, <1>13, <1>14, Steps
<1> HIDE DEF C
<1>16. \A n \in i + 1 .. Len(path) : C[n] \in CountState
  BY <1>15
<1> QED  BY <1>11, <1>12, <1>16 DEF C

\* The definition of Following is met by a function.
LEMMA FollowingIs ==
  ASSUME NEW path \in MarkedPaths, NEW i \in Positions(path)
  PROVE  /\ Following(i, path)[0] = {i}
         /\ \A n \in 0 .. Len(path) : Following(i, path)[n] \subseteq Positions(path)
         /\ \A n \in 0 .. Len(path) - 1 :
              Following(i, path)[n + 1]
                = UNION {CollectNextBranches(path, j) : j \in Following(i, path)[n]}
<1> DEFINE b == Len(path)
           After(X) == UNION {CollectNextBranches(path, j) : j \in X}
           Step(f, n) == IF n = 0 THEN {i}
                         ELSE UNION {CollectNextBranches(path, j) : j \in f[n - 1]}
           Is(f) == f = [n \in 0 .. Len(path) |-> Step(f, n)]
           T == SUBSET Positions(path)
           g == [n \in 1 .. b |-> [X \in T |-> After(X)]]
           F == Following(i, path)
<1>1. b \in Nat /\ i \in Nat /\ {i} \in T
  BY PathElement DEF Positions
<1>2. \A X \in T : After(X) \in T
  <2> TAKE X \in T
  <2>1. ASSUME NEW j \in X, NEW p \in CollectNextBranches(path, j)  PROVE p \in Positions(path)
    <3>1. j \in Positions(path) /\ p \in Nat
      BY DEF CollectNextBranches, Positions
    <3> QED  BY <3>1, NextIsLed
  <2> QED  BY <2>1
<1>3. PICK f : Iterates(f, g, 0, b, {i}, T)
  <2>1. StepsIn(g, 0, b, T)
    <3> HIDE DEF After, T
    <3> QED  BY <1>2 DEF StepsIn
  <2>2. 0 \in Int /\ b \in Int /\ 0 <= b
    BY <1>1
  <2> HIDE DEF g, b, T
  <2> QED  BY <1>1, <2>1, <2>2, Recursion
<1>4. /\ f \in [0 .. b -> T] /\ f[0] = {i}
       /\ \A n \in 0 + 1 .. b : f[n] = g[n][f[n - 1]]
  <2> HIDE DEF g, T
  <2> QED  BY <1>3 DEF Iterates
<1>5. Is(f)
  <2>1. ASSUME NEW n \in 0 .. Len(path)  PROVE f[n] = Step(f, n)
    <3>1. CASE n = 0
      BY <1>4, <3>1
    <3>2. CASE n # 0
      <4>1. n \in 0 + 1 .. b /\ n \in 1 .. b /\ n - 1 \in 0 .. b
        BY <1>1, <3>2
      <4>2. f[n - 1] \in T
        BY <1>4, <4>1
      <4>3. f[n] = After(f[n - 1])
        <5> HIDE DEF After, T
        <5> QED  BY <1>4, <4>1, <4>2
      <4> QED  BY <3>2, <4>3
    <3> QED  BY <3>1, <3>2
  <2>2. f = [n \in 0 .. Len(path) |-> f[n]]
    BY <1>4
  <2> HIDE DEF Step
  <2> QED  BY <2>1, <2>2
<1>6. F = CHOOSE h : Is(h)
  BY DEF Following
<1>7. Is(F)
  <2> HIDE DEF Is, F
  <2> QED  BY <1>5, <1>6
<1>8. \A n \in 0 .. Len(path) : F[n] = Step(F, n)
  <2> HIDE DEF Step, F
  <2> QED  BY <1>7
<1>9. F[0] = {i}
  <2> HIDE DEF F
  <2>1. 0 \in 0 .. Len(path)
    BY <1>1
  <2> QED  BY <1>8, <2>1
<1>10. ASSUME NEW n \in 0 .. Len(path) - 1  PROVE F[n + 1] = After(F[n])
  <2> HIDE DEF F
  <2>1. n + 1 \in 0 .. Len(path) /\ n + 1 # 0 /\ (n + 1) - 1 = n
    BY <1>1
  <2> QED  BY <1>8, <2>1
<1> DEFINE S == {n \in Nat : F[n] \in T}
<1>11. 0 \in S
  <2> HIDE DEF F, T
  <2> QED  BY <1>1, <1>9
<1>12. ASSUME NEW n \in 0 .. b - 1, n \in S  PROVE n + 1 \in S
  <2> HIDE DEF F, T, After
  <2>1. F[n + 1] = After(F[n]) /\ F[n] \in T /\ n + 1 \in Nat
    BY <1>10, <1>12
  <2> QED  BY <1>2, <2>1
<1>13. 0 .. b \subseteq S
  <2>1. 0 \in Int /\ b \in Int
    BY <1>1
  <2> HIDE DEF S, b
  <2> QED  BY <1>11, <1>12, <2>1, Steps
<1>14. \A n \in 0 .. Len(path) : F[n] \in T
  <2> HIDE DEF F, T
  <2> QED  BY <1>13
<1> HIDE DEF F
<1> QED  BY <1>9, <1>10, <1>14 DEF F

\* What the loop counts at a position, which is 0 where it starts.
CountAt(i, M, q) == IF q = i THEN 0 ELSE M[q].cur

\* The loop started from q or has counted the branch there.
OnWay(i, path, M, q, n) ==
  q = i \/ (q \in i + 1 .. n - 1 /\ At(path, q) \in Branch /\ ~M[q].done)

\* The loop has ended at a return before n.
Ended(i, path, M, n) ==
  \E p \in i + 1 .. n - 1 :
    /\ At(path, p) = ReturnId /\ Nesting(path, i + 1, p) < 0
    /\ \A r \in i + 1 .. p - 1 : Nesting(path, i + 1, r) >= 0
    /\ \A q \in p + 1 .. n : M[q].done

\* The position counted one less leads to n.
LedTo(i, path, M, n, count) ==
  \E q \in Nat : OnWay(i, path, M, q, n) /\ Leads(path, q, n) /\ count = CountAt(i, M, q) + 1

\* A call that is open at this depth, and the count that was put on the stack.
Stacked(i, path, M, n, count, depth) ==
  \E q, c \in Nat : /\ OnWay(i, path, M, q, n) /\ Leads(path, q, c)
                    /\ count = CountAt(i, M, q) + 1 /\ Open(path, c, n, depth)

\* The loop is still counting at n.
Counting(i, path, M, n) ==
  /\ \A r \in i + 1 .. n - 1 : Nesting(path, i + 1, r) >= 0
  /\ Nesting(path, i + 1, n - 1) = Len(M[n].stack)
  /\ LedTo(i, path, M, n, M[n].cur)
  /\ \A k \in 1 .. Len(M[n].stack) :
       Stacked(i, path, M, n, M[n].stack[k], Len(M[n].stack) - k + 1)

\* What the loop knows when it comes to n.
Tracked(i, path, M, n) ==
  (M[n].done => Ended(i, path, M, n)) /\ (~M[n].done => Counting(i, path, M, n))

\* One more element of the path.
LEMMA TrackedNext ==
  ASSUME NEW path \in MarkedPaths, NEW i \in Positions(path), NEW bs, NEW M,
         NEW n \in i + 1 .. Len(path) - 1, Tracked(i, path, M, n),
         M[n] \in CountState, CountsTo(M[n], At(path, n), bs, M[n + 1])
  PROVE  Tracked(i, path, M, n + 1)
<1> DEFINE s == M[n]
           t == M[n + 1]
           m == Len(s.stack)
<1>1. /\ i \in Nat /\ n \in Nat /\ n \in Positions(path) /\ (n + 1) - 1 = n
      /\ n \in i + 1 .. Len(path) /\ i + 1 \in Int /\ i + 1 <= n /\ n \in Int
  BY PathElement DEF Positions
<1>2. CountsTo(s, At(path, n), bs, t)
  OBVIOUS
<1>3. At(path, n) \in Branch \cup {CallId, ReturnId}
  BY <1>1, PathElement
<1>4. /\ s.done \in BOOLEAN /\ s.stack \in Seq(Nat) /\ m \in Nat /\ s.cur \in Nat
  BY LenProperties DEF CountState
<1>5. ASSUME NEW q, OnWay(i, path, M, q, n)  PROVE OnWay(i, path, M, q, n + 1)
  BY <1>1, <1>5 DEF OnWay
<1>6. /\ Nesting(path, i + 1, n) = Nesting(path, i + 1, n - 1) + Nesting(path, n, n)
      /\ Nesting(path, i + 1, n - 1) \in Int
  BY <1>1, NestingNext
<1>7. /\ At(path, n) = CallId => Nesting(path, n, n) = 1
      /\ At(path, n) = ReturnId => Nesting(path, n, n) = -1
      /\ At(path, n) \in Branch => Nesting(path, n, n) = 0
  BY <1>1, NestingOne, PathElement
<1>8. CASE s.done
  <2>1. t.done
    BY <1>2, <1>8 DEF CountsTo
  <2>2. PICK p \in i + 1 .. n - 1 :
          /\ At(path, p) = ReturnId /\ Nesting(path, i + 1, p) < 0
          /\ \A r \in i + 1 .. p - 1 : Nesting(path, i + 1, r) >= 0
          /\ \A q \in p + 1 .. n : M[q].done
    BY <1>8 DEF Tracked, Ended
  <2>3. p \in i + 1 .. (n + 1) - 1
    BY <1>1
  <2>4. \A q \in p + 1 .. n + 1 : q \in p + 1 .. n \/ q = n + 1
    BY <1>1
  <2>5. \A q \in p + 1 .. n + 1 : M[q].done
    BY <2>1, <2>2, <2>4
  <2>6. Ended(i, path, M, n + 1)
    BY <2>2, <2>3, <2>5 DEF Ended
  <2> QED  BY <2>1, <2>6 DEF Tracked
<1>9. ASSUME ~s.done
      PROVE  /\ \A r \in i + 1 .. n - 1 : Nesting(path, i + 1, r) >= 0
             /\ Nesting(path, i + 1, n - 1) = m /\ LedTo(i, path, M, n, s.cur)
             /\ \A k \in 1 .. m : Stacked(i, path, M, n, s.stack[k], m - k + 1)
  BY <1>9 DEF Tracked, Counting
<1>10. CASE ~s.done /\ At(path, n) = ReturnId /\ s.stack = << >>
  <2>1. t.done
    BY <1>2, <1>10 DEF CountsTo
  <2>2. Nesting(path, i + 1, n - 1) = 0
    <3>1. m = 0
      BY <1>10
    <3> QED  BY <1>9, <1>10, <3>1
  <2>3. Nesting(path, i + 1, n) < 0
    BY <1>6, <1>7, <1>10, <2>2
  <2>4. n \in i + 1 .. (n + 1) - 1 /\ \A q \in n + 1 .. n + 1 : q = n + 1
    BY <1>1
  <2>5. \A q \in n + 1 .. n + 1 : M[q].done
    BY <2>1, <2>4
  <2>6. Ended(i, path, M, n + 1)
    BY <1>9, <1>10, <2>3, <2>4, <2>5 DEF Ended
  <2> QED  BY <2>1, <2>6 DEF Tracked
<1>11. ASSUME ~s.done, ~t.done, NEW d \in Int, Nesting(path, n, n) = d, m + d >= 0,
              Len(t.stack) = m + d, LedTo(i, path, M, n + 1, t.cur),
              \A k \in 1 .. m + d : Stacked(i, path, M, n + 1, t.stack[k], m + d - k + 1)
       PROVE  Tracked(i, path, M, n + 1)
  <2>1. Nesting(path, i + 1, n) = m + d
    BY <1>6, <1>9, <1>11
  <2>2. Nesting(path, i + 1, n) >= 0
    BY <1>11, <2>1
  <2>3. ASSUME NEW r \in i + 1 .. (n + 1) - 1  PROVE Nesting(path, i + 1, r) >= 0
    <3>1. r = n \/ r \in i + 1 .. n - 1
      BY <1>1
    <3> QED  BY <1>9, <1>11, <2>2, <3>1
  <2>4. Counting(i, path, M, n + 1)
    <3>1. Nesting(path, i + 1, (n + 1) - 1) = Len(t.stack)
      BY <1>1, <1>11, <2>1
    <3>2. \A k \in 1 .. Len(t.stack) :
            Stacked(i, path, M, n + 1, t.stack[k], Len(t.stack) - k + 1)
      BY <1>11
    <3> QED  BY <1>11, <2>3, <3>1, <3>2 DEF Counting
  <2> QED  BY <1>11, <2>4 DEF Tracked
<1>12. ASSUME ~s.done, NEW k \in 1 .. m, NEW d \in Int, Nesting(path, n, n) = d, m - k + 1 + d >= 1
       PROVE  Stacked(i, path, M, n + 1, s.stack[k], m + d - k + 1)
  <2>1. PICK q \in Nat, c \in Nat :
          /\ OnWay(i, path, M, q, n) /\ Leads(path, q, c)
          /\ s.stack[k] = CountAt(i, M, q) + 1 /\ Open(path, c, n, m - k + 1)
    BY <1>9, <1>12 DEF Stacked
  <2>2. OnWay(i, path, M, q, n + 1)
    BY <1>5, <2>1
  <2>3. m - k + 1 \in Int /\ (m - k + 1) + d = m + d - k + 1 /\ (m - k + 1) + d >= 1
    <3>1. m \in Nat /\ k \in 1 .. m /\ d \in Int /\ m - k + 1 + d >= 1
      BY <1>4, <1>12
    <3> HIDE DEF m
    <3> QED  BY <3>1
  <2>4. Open(path, c, n + 1, (m - k + 1) + d)
    BY <1>1, <1>12, <2>1, <2>3, OpenGoesOn
  <2> QED  BY <2>1, <2>2, <2>3, <2>4 DEF Stacked
<1>13. CASE ~s.done /\ At(path, n) = CallId
  <2>1. t.stack = Append(s.stack, s.cur) /\ t.cur = s.cur /\ ~t.done
    BY <1>2, <1>13 DEF CountsTo
  <2>2. /\ Len(t.stack) = m + 1 /\ t.stack[m + 1] = s.cur
        /\ \A k \in 1 .. m : t.stack[k] = s.stack[k]
    BY <1>4, <2>1, AppendProperties
  <2>3. PICK q \in Nat :
          OnWay(i, path, M, q, n) /\ Leads(path, q, n) /\ s.cur = CountAt(i, M, q) + 1
    BY <1>9, <1>13 DEF LedTo
  <2>4. Leads(path, q, n + 1) /\ OnWay(i, path, M, q, n + 1)
    BY <1>1, <1>5, <1>13, <2>3, LeadsOn
  <2>5. LedTo(i, path, M, n + 1, t.cur)
    BY <2>1, <2>3, <2>4 DEF LedTo
  <2>6. Nesting(path, n, n) = 1 /\ 1 \in Int /\ m + 1 >= 0
    BY <1>4, <1>7, <1>13
  <2>7. Open(path, n, n + 1, 1)
    <3>1. \A r \in n .. (n + 1) - 1 : r = n
      BY <1>1
    <3> QED  BY <1>1, <1>13, <2>6, <3>1 DEF Open
  <2>8. Stacked(i, path, M, n + 1, s.cur, 1)
    BY <1>1, <2>3, <2>4, <2>7 DEF Stacked
  <2>9. ASSUME NEW k \in 1 .. m + 1
        PROVE  Stacked(i, path, M, n + 1, t.stack[k], m + 1 - k + 1)
    <3>1. CASE k = m + 1
      <4>1. m + 1 - k + 1 = 1
        BY <1>4, <3>1
      <4> QED  BY <2>2, <2>8, <3>1, <4>1
    <3>2. CASE k # m + 1
      <4>1. k \in 1 .. m /\ m - k + 1 + 1 >= 1
        BY <1>4, <3>2
      <4> HIDE DEF s, t, m
      <4>2. Stacked(i, path, M, n + 1, s.stack[k], m + 1 - k + 1)
        BY <1>12, <1>13, <2>6, <4>1
      <4> QED  BY <2>2, <4>1, <4>2
    <3> QED  BY <3>1, <3>2
  <2> HIDE DEF s, t, m
  <2> QED  BY <1>11, <1>13, <2>1, <2>2, <2>5, <2>6, <2>9
<1>14. CASE ~s.done /\ At(path, n) = ReturnId /\ s.stack # << >>
  <2>1. t.stack = Front(s.stack) /\ t.cur = Last(s.stack) /\ ~t.done
    BY <1>2, <1>14 DEF CountsTo
  <2>2. m \in Nat \ {0}
    BY <1>4, <1>14, Stacks
  <2>3. t.stack = SubSeq(s.stack, 1, m - 1) /\ t.cur = s.stack[m]
    BY <2>1 DEF Front, Last
  <2>4. Len(t.stack) = m - 1 /\ \A k \in 1 .. m - 1 : t.stack[k] = s.stack[k]
    <3>1. \A k \in 1 .. m - 1 : s.stack[k] \in Nat
      <4> TAKE k \in 1 .. m - 1
      <4>1. k \in 1 .. m
        BY <2>2
      <4> QED  BY <1>4, <4>1, ElementOfSeq
    <3>2. 1 \in Int /\ m - 1 \in Int /\ m - 1 >= 0
      BY <2>2
    <3> HIDE DEF s, t, m
    <3>3. /\ Len(SubSeq(s.stack, 1, m - 1)) = IF 1 <= m - 1 THEN m - 1 - 1 + 1 ELSE 0
          /\ \A k \in 1 .. m - 1 - 1 + 1 : SubSeq(s.stack, 1, m - 1)[k] = s.stack[1 + k - 1]
      BY <3>1, <3>2, SubSeqProperties
    <3>4. m - 1 - 1 + 1 = m - 1 /\ \A k \in 1 .. m - 1 : 1 + k - 1 = k
      BY <2>2
    <3> QED  BY <2>2, <2>3, <3>3, <3>4
  <2>5. PICK q \in Nat, c \in Nat :
          /\ OnWay(i, path, M, q, n) /\ Leads(path, q, c)
          /\ s.stack[m] = CountAt(i, M, q) + 1 /\ Open(path, c, n, 1)
    <3>1. m \in 1 .. m /\ m - m + 1 = 1
      BY <2>2
    <3> HIDE DEF s, m
    <3>2. Stacked(i, path, M, n, s.stack[m], 1)
      BY <1>9, <1>14, <3>1
    <3> QED  BY <3>2 DEF Stacked
  <2>6. Leads(path, q, n + 1) /\ OnWay(i, path, M, q, n + 1)
    BY <1>1, <1>5, <1>14, <2>5, LeadsBack
  <2>7. LedTo(i, path, M, n + 1, t.cur)
    BY <2>3, <2>5, <2>6 DEF LedTo
  <2>8. Nesting(path, n, n) = -1 /\ -1 \in Int /\ m + -1 >= 0 /\ m + -1 = m - 1
    BY <1>7, <1>14, <2>2
  <2>9. ASSUME NEW k \in 1 .. m + -1
        PROVE  Stacked(i, path, M, n + 1, t.stack[k], m + -1 - k + 1)
    <3>1. k \in 1 .. m /\ k \in 1 .. m - 1 /\ m - k + 1 + -1 >= 1
      BY <2>2
    <3> HIDE DEF s, t, m
    <3>2. Stacked(i, path, M, n + 1, s.stack[k], m + -1 - k + 1)
      BY <1>12, <1>14, <2>8, <3>1
    <3> QED  BY <2>4, <3>1, <3>2
  <2> HIDE DEF s, t, m
  <2>10. Len(t.stack) = m + -1
    BY <2>4, <2>8
  <2> QED  BY <1>11, <1>14, <2>1, <2>7, <2>8, <2>9, <2>10
<1>15. CASE ~s.done /\ At(path, n) \in Branch
  <2>1. t.stack = s.stack /\ t.cur = s.cur + 1 /\ ~t.done
    BY <1>2, <1>15 DEF CountsTo
  <2>2. Leads(path, n, n + 1) /\ OnWay(i, path, M, n, n + 1) /\ CountAt(i, M, n) = s.cur
    <3>1. n \in i + 1 .. (n + 1) - 1 /\ n # i
      BY <1>1
    <3> QED  BY <1>1, <1>15, <3>1, LeadsOn DEF OnWay, CountAt
  <2>3. LedTo(i, path, M, n + 1, t.cur)
    BY <1>1, <2>1, <2>2 DEF LedTo
  <2>4. Nesting(path, n, n) = 0 /\ 0 \in Int /\ m + 0 >= 0 /\ m + 0 = m
    BY <1>4, <1>7, <1>15
  <2>5. ASSUME NEW k \in 1 .. m + 0
        PROVE  Stacked(i, path, M, n + 1, t.stack[k], m + 0 - k + 1)
    <3>1. k \in 1 .. m /\ m - k + 1 + 0 >= 1
      BY <1>4
    <3> HIDE DEF s, t, m
    <3>2. Stacked(i, path, M, n + 1, s.stack[k], m + 0 - k + 1)
      BY <1>12, <1>15, <2>4, <3>1
    <3> QED  BY <2>1, <3>2
  <2>6. Len(t.stack) = m + 0
    BY <2>1, <2>4
  <2> HIDE DEF s, t, m
  <2> QED  BY <1>11, <1>15, <2>1, <2>3, <2>4, <2>5, <2>6
<1> HIDE DEF s, t, m
<1> QED  BY <1>3, <1>4, <1>8, <1>10, <1>13, <1>14, <1>15

\* Everything that the loop comes to.
LEMMA AllTracked ==
  ASSUME NEW path \in MarkedPaths, NEW i \in Positions(path), NEW bs,
         NEW n \in i + 1 .. Len(path)
  PROVE  Tracked(i, path, Measured(i, path, bs), n)
<1> DEFINE M == Measured(i, path, bs)
           S == {k \in Nat : Tracked(i, path, M, k)}
<1>1. /\ i \in Nat /\ i \in Int /\ Len(path) \in Nat /\ Len(path) \in Int
      /\ i + 1 \in Int /\ i < Len(path)
  BY PathElement DEF Positions
<1>2. i + 1 \in S
  <2>1. M[i + 1] = InitialCount
    BY MeasuredIs
  <2> HIDE DEF M
  <2>2. ~M[i + 1].done /\ M[i + 1].stack = << >> /\ M[i + 1].cur = 1
    BY <2>1 DEF InitialCount
  <2>3. Len(<< >>) = 0 /\ 1 .. 0 = {} /\ i + 1 .. (i + 1) - 1 = {} /\ (i + 1) - 1 = i
    BY <1>1
  <2>4. Nesting(path, i + 1, i) = 0
    BY <1>1, NestingOne
  <2>5. Leads(path, i, i + 1) /\ OnWay(i, path, M, i, i + 1) /\ CountAt(i, M, i) = 0
    BY LeadsOn DEF OnWay, CountAt
  <2>6. LedTo(i, path, M, i + 1, 1)
    BY <1>1, <2>5 DEF LedTo
  <2>7. Counting(i, path, M, i + 1)
    BY <1>1, <2>2, <2>3, <2>4, <2>6 DEF Counting
  <2>8. Tracked(i, path, M, i + 1)
    BY <2>2, <2>7 DEF Tracked
  <2> QED  BY <1>1, <2>8
<1>3. ASSUME NEW k \in i + 1 .. Len(path) - 1, k \in S  PROVE k + 1 \in S
  <2>1. k \in Nat /\ k + 1 \in Nat /\ k \in i + 1 .. Len(path) /\ k \in Positions(path)
    BY <1>1 DEF Positions
  <2>2. M[k] \in CountState /\ M[k + 1] = CountDistance(M[k], At(path, k), bs)
    BY <2>1, MeasuredIs
  <2>3. At(path, k) \in Branch \cup {CallId, ReturnId}
    BY <2>1, PathElement
  <2>4. Tracked(i, path, M, k)
    BY <1>3
  <2> HIDE DEF M
  <2>5. CountsTo(M[k], At(path, k), bs, M[k + 1])
    BY <2>2, <2>3, CountStep
  <2>6. Tracked(i, path, M, k + 1)
    BY <2>2, <2>4, <2>5, TrackedNext
  <2> QED  BY <2>1, <2>6
<1>4. i + 1 .. Len(path) \subseteq S
  <2> HIDE DEF S
  <2> QED  BY <1>1, <1>2, <1>3, Steps
<1> QED  BY <1>4

\* The loop comes to a branch that is n steps after i with the distance n.
CountedAs(i, path, measured, n, j) ==
  \/ n = 0 /\ j = i
  \/ /\ n # 0 /\ j \in i + 1 .. Len(path) - 1 /\ At(path, j) \in Branch
     /\ ~measured[j].done /\ measured[j].cur = n

\* What is n steps after i has been counted as n.
LEMMA FollowingCounted ==
  ASSUME NEW path \in MarkedPaths, NEW i \in Positions(path), NEW bs
  PROVE  \A n \in 0 .. Len(path) : \A j \in Following(i, path)[n] :
           CountedAs(i, path, Measured(i, path, bs), n, j)
<1> DEFINE M == Measured(i, path, bs)
           F == Following(i, path)
           Is(k, p) == \/ k = 0 /\ p = i
                       \/ /\ k # 0 /\ p \in i + 1 .. Len(path) - 1 /\ At(path, p) \in Branch
                          /\ ~M[p].done /\ M[p].cur = k
           S == {k \in Nat : \A p \in F[k] : Is(k, p)}
<1>1. i \in Nat /\ Len(path) \in Nat /\ i < Len(path)
  BY PathElement DEF Positions
<1>2. 0 \in S
  <2>1. F[0] = {i}
    BY FollowingIs
  <2> HIDE DEF F, M
  <2> QED  BY <2>1
<1>3. ASSUME NEW k \in 0 .. Len(path) - 1, k \in S  PROVE k + 1 \in S
  <2> SUFFICES ASSUME NEW p \in F[k + 1]  PROVE Is(k + 1, p)
    OBVIOUS
  <2>1. F[k + 1] = UNION {CollectNextBranches(path, q) : q \in F[k]}
    BY FollowingIs
  <2>2. k \in 0 .. Len(path) /\ k \in Nat /\ k + 1 # 0
    BY <1>1
  <2>3. F[k] \subseteq Positions(path)
    BY <2>2, FollowingIs
  <2> HIDE DEF F
  <2>4. PICK q \in F[k] : p \in CollectNextBranches(path, q)
    BY <2>1
  <2>5. q \in Positions(path) /\ q \in Nat /\ p \in Nat
    BY <2>3, <2>4 DEF Positions, CollectNextBranches
  <2>6. p \in Positions(path) /\ At(path, p) \in Branch /\ Leads(path, q, p)
    BY <2>4, <2>5, NextIsLed
  <2>7. \/ k = 0 /\ q = i
        \/ k # 0 /\ q \in i + 1 .. Len(path) - 1 /\ At(path, q) \in Branch
           /\ ~M[q].done /\ M[q].cur = k
    BY <1>3
  <2>8. q >= i /\ q < p /\ p \in i + 1 .. Len(path) - 1 /\ p \in i + 1 .. Len(path)
    BY <1>1, <2>5, <2>6, <2>7 DEF Positions, Leads
  <2>9. Tracked(i, path, M, p)
    BY <2>8, AllTracked
  <2>10. CountAt(i, M, q) = k
    BY <1>1, <2>7 DEF CountAt
  <2> HIDE DEF M
  <2>11. ~M[p].done
    <3> SUFFICES ASSUME M[p].done  PROVE FALSE
      OBVIOUS
    <3>0. Ended(i, path, M, p)
      BY <2>9 DEF Tracked
    <3>1. PICK r \in i + 1 .. p - 1 :
            /\ At(path, r) = ReturnId /\ Nesting(path, i + 1, r) < 0
            /\ \A e \in i + 1 .. r - 1 : Nesting(path, i + 1, e) >= 0
            /\ \A e \in r + 1 .. p : M[e].done
      BY <3>0 DEF Ended
    <3>2. q # r
      <4>1. CASE q = i
        BY <1>1, <4>1
      <4>2. CASE q # i
        <5>1. At(path, q) \in Branch
          BY <2>7, <4>2
        <5> QED  BY <2>5, <3>1, <5>1, PathElement
      <4> QED  BY <4>1, <4>2
    <3>3. ~(r < q)
      <4> SUFFICES ASSUME r < q  PROVE FALSE
        OBVIOUS
      <4>1. q # i /\ q \in r + 1 .. p
        BY <1>1, <2>5, <2>8
      <4> QED  BY <2>7, <3>1, <4>1
    <3>4. r \in q + 1 .. p - 1 /\ q < r
      BY <2>5, <3>2, <3>3
    <3>5. Nesting(path, q + 1, r) >= 0
      BY <2>6, <3>4 DEF Leads
    <3>6. CASE q = i
      <4>1. i + 1 \in Int /\ r \in Int /\ i + 1 <= r
        BY <1>1, <2>5
      <4>2. Nesting(path, i + 1, r) \in Int
        BY <4>1, NestingNext
      <4> QED  BY <3>1, <3>5, <3>6, <4>2
    <3>7. CASE q # i
      <4>1. q \in i + 1 .. r - 1
        BY <2>8, <3>4, <3>7, <1>1, <2>5
      <4>2. Nesting(path, i + 1, q) >= 0
        BY <3>1, <4>1
      <4>3. /\ i + 1 \in Int /\ q \in Int /\ r \in Int /\ i + 1 <= q + 1 /\ q <= r
            /\ q + 1 \in Int /\ q + 1 <= r
        BY <1>1, <2>5, <3>4, <4>1
      <4>4. /\ Nesting(path, i + 1, q) \in Int
            /\ Nesting(path, i + 1, r) = Nesting(path, i + 1, q) + Nesting(path, q + 1, r)
        BY <4>3, NestingAdds
      <4>5. Nesting(path, q + 1, r) \in Int
        BY <4>3, NestingNext
      <4> QED  BY <3>1, <3>5, <4>2, <4>4, <4>5
    <3> QED  BY <3>6, <3>7
  <2>12. PICK top \in Nat : /\ OnWay(i, path, M, top, p) /\ Leads(path, top, p)
                            /\ M[p].cur = CountAt(i, M, top) + 1
    BY <2>9, <2>11 DEF Tracked, Counting, LedTo
  <2>13. top = q
    <3>1. ~(q < top)
      <4> SUFFICES ASSUME q < top  PROVE FALSE
        OBVIOUS
      <4>1. At(path, top) \in Branch
        BY <1>1, <2>5, <2>8, <2>12 DEF OnWay
      <4>2. At(path, top) >= 0
        BY <4>1, SearchAssumption DEF SearchAssumption
      <4>3. p \in Int /\ q \in Int /\ top \in Int
        BY <2>5
      <4> QED  BY <2>6, <2>12, <4>2, <4>3, LedByOne
    <3>2. ~(top < q)
      <4> SUFFICES ASSUME top < q  PROVE FALSE
        OBVIOUS
      <4>1. top >= i
        BY <1>1, <2>12 DEF OnWay
      <4>2. At(path, q) \in Branch
        BY <1>1, <2>5, <2>7, <4>1
      <4>3. At(path, q) >= 0
        BY <4>2, SearchAssumption DEF SearchAssumption
      <4>4. p \in Int /\ q \in Int /\ top \in Int
        BY <2>5
      <4> QED  BY <2>6, <2>12, <4>3, <4>4, LedByOne
    <3> QED  BY <2>5, <3>1, <3>2
  <2>14. M[p].cur = k + 1
    BY <2>10, <2>12, <2>13
  <2> QED  BY <2>2, <2>6, <2>8, <2>11, <2>14
<1>4. 0 .. Len(path) \subseteq S
  <2>1. 0 \in Int /\ Len(path) \in Int
    BY <1>1
  <2> HIDE DEF S
  <2> QED  BY <1>2, <1>3, <2>1, Steps
<1> QED  BY <1>4 DEF CountedAs

\* What has been counted is as many steps after i.
LEMMA CountedFollows ==
  ASSUME NEW path \in MarkedPaths, NEW i \in Positions(path), NEW bs,
         NEW j \in i + 1 .. Len(path) - 1, At(path, j) \in Branch,
         ~Measured(i, path, bs)[j].done
  PROVE  /\ Measured(i, path, bs)[j].cur \in 1 .. j - i
         /\ j \in Following(i, path)[Measured(i, path, bs)[j].cur]
<1> DEFINE M == Measured(i, path, bs)
           F == Following(i, path)
           Is(p) == M[p].cur \in 1 .. p - i /\ p \in F[M[p].cur]
           Bad == {p \in i + 1 .. Len(path) - 1 : At(path, p) \in Branch /\ ~M[p].done /\ ~Is(p)}
<1>1. i \in Nat /\ Len(path) \in Nat /\ i < Len(path)
  BY PathElement DEF Positions
<1>2. Bad = {}
  <2> SUFFICES ASSUME Bad # {}  PROVE FALSE
    OBVIOUS
  <2>1. PICK p \in Bad : \A q \in Bad : p <= q
    <3>1. Bad \subseteq Nat
      BY <1>1
    <3> HIDE DEF Bad
    <3> QED  BY <3>1, Least
  <2>2. /\ p \in i + 1 .. Len(path) - 1 /\ p \in i + 1 .. Len(path)
        /\ At(path, p) \in Branch /\ ~M[p].done /\ ~Is(p)
    BY <1>1
  <2>3. Tracked(i, path, M, p)
    BY <2>2, AllTracked
  <2>4. PICK q \in Nat : /\ OnWay(i, path, M, q, p) /\ Leads(path, q, p)
                         /\ M[p].cur = CountAt(i, M, q) + 1
    <3> HIDE DEF M
    <3> QED  BY <2>2, <2>3 DEF Tracked, Counting, LedTo
  <2>5. CountAt(i, M, q) \in 0 .. q - i /\ q \in F[CountAt(i, M, q)] /\ q >= i /\ q < p
    <3>1. CASE q = i
      <4>1. F[0] = {i}
        BY FollowingIs
      <4> QED  BY <1>1, <2>2, <3>1, <4>1 DEF CountAt
    <3>2. CASE q # i
      <4>1. q \in i + 1 .. p - 1 /\ At(path, q) \in Branch /\ ~M[q].done
        <5> HIDE DEF M
        <5> QED  BY <2>4, <3>2 DEF OnWay
      <4>2. q \in i + 1 .. Len(path) - 1 /\ ~(p <= q)
        BY <1>1, <2>2, <4>1
      <4>3. q \notin Bad
        <5> HIDE DEF Bad
        <5> QED  BY <2>1, <4>2
      <4>4. Is(q)
        BY <4>1, <4>2, <4>3
      <4>5. CountAt(i, M, q) = M[q].cur
        BY <3>2 DEF CountAt
      <4> HIDE DEF M, F
      <4> QED  BY <1>1, <4>1, <4>4, <4>5
    <3> QED  BY <3>1, <3>2
  <2> DEFINE k == CountAt(i, M, q)
  <2>6. k \in 0 .. Len(path) - 1 /\ k + 1 \in 1 .. p - i /\ k \in Nat
    <3>1. k \in 0 .. q - i
      BY <2>5
    <3> HIDE DEF k
    <3> QED  BY <1>1, <2>2, <2>4, <2>5, <3>1
  <2>7. F[k + 1] = UNION {CollectNextBranches(path, e) : e \in F[k]}
    <3> HIDE DEF k
    <3> QED  BY <2>6, FollowingIs
  <2>8. q \in Positions(path) /\ p \in Positions(path) /\ p \in Nat
    BY <1>1, <2>2, <2>5 DEF Positions
  <2>9. p \in CollectNextBranches(path, q)
    BY <2>2, <2>4, <2>8, NextIsLed
  <2>10. p \in F[k + 1]
    <3> HIDE DEF k, F
    <3>1. q \in F[k]
      BY <2>5 DEF k
    <3> QED  BY <2>7, <2>9, <3>1
  <2>11. M[p].cur = k + 1
    BY <2>4
  <2> HIDE DEF k, F, M
  <2> QED  BY <2>2, <2>6, <2>10, <2>11
<1>3. Is(j)
  BY <1>2
<1> QED  BY <1>3

\* The minimum is of the counts at the branches in bs.
LEMMA LeastCounted ==
  ASSUME NEW path \in MarkedPaths, NEW i \in Positions(path), NEW bs, bs \subseteq Branch,
         NEW d \in Nat, d < UnsignedMax, NEW n \in i + 1 .. Len(path)
  PROVE  Measured(i, path, bs)[n].min <= d <=>
           \E j \in i + 1 .. n - 1 :
             /\ At(path, j) \in bs /\ ~Measured(i, path, bs)[j].done
             /\ Measured(i, path, bs)[j].cur <= d
<1> DEFINE M == Measured(i, path, bs)
           Near(j) == At(path, j) \in bs /\ ~M[j].done /\ M[j].cur <= d
           Is(k) == M[k].min <= d <=> \E j \in i + 1 .. k - 1 : Near(j)
           S == {k \in Nat : Is(k)}
<1>1. i \in Nat /\ Len(path) \in Nat /\ i < Len(path)
  BY PathElement DEF Positions
<1>2. i + 1 \in S
  <2>1. M[i + 1] = InitialCount /\ UnsignedMax \in Nat
    BY MeasuredIs, HeuristicAssumption DEF HeuristicAssumption
  <2>2. i + 1 .. (i + 1) - 1 = {}
    BY <1>1
  <2> HIDE DEF M
  <2>3. M[i + 1].min = UnsignedMax
    BY <2>1 DEF InitialCount
  <2>4. ~(M[i + 1].min <= d)
    BY <2>1, <2>3
  <2> QED  BY <1>1, <2>2, <2>4
<1>3. ASSUME NEW k \in i + 1 .. Len(path) - 1, k \in S  PROVE k + 1 \in S
  <2>1. k \in Positions(path) /\ k \in i + 1 .. Len(path) /\ k + 1 \in Nat
    BY <1>1 DEF Positions
  <2>2. At(path, k) \in Branch \cup {CallId, ReturnId} /\ M[k] \in CountState
    BY <2>1, PathElement, MeasuredIs
  <2>3. M[k + 1] = CountDistance(M[k], At(path, k), bs)
    BY MeasuredIs
  <2> HIDE DEF M
  <2>4. M[k].min \in Nat /\ M[k].cur \in Nat /\ M[k].done \in BOOLEAN
    BY <2>2 DEF CountState
  <2>10. CountsTo(M[k], At(path, k), bs, M[k + 1])
    BY <2>2, <2>3, CountStep
  <2>5. M[k + 1].min = IF At(path, k) \in bs /\ ~M[k].done /\ M[k].cur < M[k].min
                       THEN M[k].cur ELSE M[k].min
    <3>1. CASE M[k].done
      BY <2>10, <3>1 DEF CountsTo
    <3>2. CASE ~M[k].done /\ At(path, k) \in Branch
      BY <2>10, <3>2 DEF CountsTo
    <3>3. CASE ~M[k].done /\ At(path, k) \notin Branch
      <4>1. M[k + 1].min = M[k].min
        BY <2>2, <2>10, <3>3 DEF CountsTo
      <4> QED  BY <3>3, <4>1
    <3> QED  BY <3>1, <3>2, <3>3
  <2>6. M[k + 1].min <= d <=> M[k].min <= d \/ Near(k)
    BY <2>4, <2>5
  <2>7. (\E j \in i + 1 .. (k + 1) - 1 : Near(j)) <=> (\E j \in i + 1 .. k - 1 : Near(j)) \/ Near(k)
    <3>1. \A j : j \in i + 1 .. (k + 1) - 1 <=> j \in i + 1 .. k - 1 \/ j = k
      BY <1>1, <2>1
    <3> HIDE DEF Near
    <3> QED  BY <3>1
  <2>8. Is(k)
    BY <1>3
  <2> HIDE DEF Near
  <2> QED  BY <2>1, <2>6, <2>7, <2>8
<1>4. i + 1 .. Len(path) \subseteq S
  <2>1. i + 1 \in Int /\ Len(path) \in Int
    BY <1>1
  <2> HIDE DEF S
  <2> QED  BY <1>2, <1>3, <2>1, Steps
<1>5. n \in S
  BY <1>4
<1> QED  BY <1>5

\* FindAlongCfg finds a branch within a distance if MinCflDistance is no more.
LEMMA MeasuresAgree ==
  ASSUME NEW path \in MarkedPaths, NEW i \in Positions(path), NEW bs, bs \subseteq Branch,
         NEW d \in Nat, d < UnsignedMax
  PROVE  FindAlongCfg(i, d, path, bs) <=> MinCflDistance(i, path, bs) <= d
<1> DEFINE M == Measured(i, path, bs)
           F == Following(i, path)
<1>1. i \in Nat /\ Len(path) \in Nat /\ i < Len(path) /\ ~(i >= Len(path))
  BY PathElement DEF Positions
<1>2. \A n \in Nat : n \in 0 .. Min({d, Len(path)}) <=> n <= d /\ n <= Len(path)
  <2>1. Min({d, Len(path)}) = IF d <= Len(path) THEN d ELSE Len(path)
    BY <1>1, MinOfTwo
  <2> QED  BY <1>1, <2>1
<1>3. FindAlongCfg(i, d, path, bs) <=>
        \E n \in Nat : n <= d /\ n <= Len(path) /\ \E j \in F[n] : At(path, j) \in bs
  <2>1. \A n \in 0 .. Min({d, Len(path)}) : n \in Nat
    <3>1. Min({d, Len(path)}) \in Nat
      BY <1>1, MinOfTwo
    <3> QED  BY <3>1
  <2> HIDE DEF F
  <2> QED  BY <1>1, <1>2, <2>1 DEF FindAlongCfg, F
<1>4. CASE At(path, i) \in bs
  <2>1. MinCflDistance(i, path, bs) <= d
    BY <1>1, <1>4 DEF MinCflDistance
  <2>2. i \in F[0] /\ 0 \in Nat /\ 0 <= d /\ 0 <= Len(path)
    BY <1>1, FollowingIs
  <2> HIDE DEF F
  <2> QED  BY <1>3, <1>4, <2>1, <2>2
<1>5. CASE At(path, i) \notin bs
  <2>1. MinCflDistance(i, path, bs) = M[Len(path)].min
    BY <1>1, <1>5 DEF MinCflDistance
  <2>2. Len(path) \in i + 1 .. Len(path)
    BY <1>1
  <2>3. M[Len(path)].min <= d <=>
          \E j \in i + 1 .. Len(path) - 1 : At(path, j) \in bs /\ ~M[j].done /\ M[j].cur <= d
    BY <2>2, LeastCounted
  <2>4. ASSUME NEW j \in i + 1 .. Len(path) - 1,
               At(path, j) \in bs, ~M[j].done, M[j].cur <= d
        PROVE  \E n \in Nat : n <= d /\ n <= Len(path) /\ \E p \in F[n] : At(path, p) \in bs
    <3>1. M[j].cur \in 1 .. j - i /\ j \in F[M[j].cur]
      BY <2>4, CountedFollows
    <3> HIDE DEF M, F
    <3>2. M[j].cur \in Nat /\ M[j].cur <= Len(path)
      BY <1>1, <3>1
    <3> QED  BY <2>4, <3>1, <3>2
  <2>5. ASSUME NEW n \in Nat, n <= d, n <= Len(path), NEW j \in F[n], At(path, j) \in bs
        PROVE  \E p \in i + 1 .. Len(path) - 1 : At(path, p) \in bs /\ ~M[p].done /\ M[p].cur <= d
    <3>1. n \in 0 .. Len(path)
      BY <1>1, <2>5
    <3>2. CountedAs(i, path, M, n, j)
      BY <3>1, FollowingCounted
    <3> HIDE DEF M, F
    <3> QED  BY <1>5, <2>5, <3>2 DEF CountedAs
  <2> HIDE DEF M, F
  <2> QED  BY <1>3, <2>1, <2>3, <2>4, <2>5
<1> QED  BY <1>4, <1>5

\* The path of an execution that was recorded.
LEMMA RecordedPath ==
  ASSUME NEW ex \in Recorded
  PROVE  ex.branches \in MarkedPaths
<1>1. WellFormed(ex)
  BY RecordedExecution
<1>2. Values(ex.branches) \subseteq Branch \cup {CallId, ReturnId}
  BY HeuristicAssumption DEF HeuristicAssumption, Recorded
<1>3. ex.branches \in Seq(Int)
  BY <1>1 DEF WellFormed
<1> DEFINE path == ex.branches
           T    == Branch \cup {CallId, ReturnId}
<1>4. \A p \in 1 .. Len(path) : path[p] \in T
  BY <1>2, <1>3 DEF Values
<1>5. path \in [1 .. Len(path) -> T] /\ Len(path) \in Nat
  <2> HIDE DEF path, T
  <2>1. path \in [1 .. Len(path) -> Int] /\ Len(path) \in Nat
    BY <1>3, LenProperties DEF path
  <2> QED  BY <1>4, <2>1
<1>6. path \in Seq(T)
  <2> HIDE DEF path, T
  <2> QED  BY <1>5, SeqDef
<1> QED  BY <1>6 DEF MarkedPaths

\* A run that forces a constraint fails no assertion: its two measures of the
\* distance agree, and at distance 0 the branch that was forced is new.
LEMMA ForcingAgrees ==
  ASSUME TypeOK, HeuristicInv, NEW k \in local.untried, IsNearest(k), NEW ex \in Recorded,
         local' = AfterForcing(k, ex)
  PROVE  ~local'.failed
<1> DEFINE i     == local.ex.constraints_idx[k]
           dist  == local.dist[Forced(k)]
           new   == Executed(ex) \ covered
           along == FindAlongCfg(i, dist, ex.branches, new)
           near  == MinCflDistance(i, ex.branches, new) <= dist
           next  == [local EXCEPT !.untried = @ \ {k}, !.iters = @ - 1]
           call  == AlongCfg(ex, i, DistanceScore(k) - 1)
<1>1. /\ local.ex \in Recorded /\ k \in 1 .. Len(local.ex.constraints)
      /\ local.ex.constraints # << >> /\ ~local.lucky /\ dist \in Nat
      /\ local.ex # NULL /\ ~local.failed /\ local.failed = FALSE
      /\ local = [f \in HeuristicFields |-> local[f]]
  BY ScoreIs DEF IsNearest, InDoSearch, HeuristicInv
<1>2. local.dist = Distances[Branch \ covered]
  BY <1>1 DEF HeuristicInv
<1>3. Forced(k) \in Branch
  BY <1>1, RecordedExecution, SearchAssumption DEF SearchAssumption, Forced
<1>4. dist < UnsignedMax /\ (dist = 0 => Forced(k) \notin covered)
  <2>1. Branch \ covered \in SUBSET Branch
    OBVIOUS
  <2>2. dist <= InfiniteDistance
    <3>1. dist + SeenBefore(k) <= InfiniteDistance
      BY DEF IsNearest, DistanceScore
    <3>2. SeenBefore(k) \in Nat
      BY ScoreIs DEF IsNearest
    <3> HIDE DEF dist
    <3> QED  BY <1>1, <3>1, <3>2, HeuristicAssumption DEF HeuristicAssumption
  <2>3. InfiniteDistance \in Nat /\ UnsignedMax \in Nat /\ InfiniteDistance < UnsignedMax
    BY HeuristicAssumption DEF HeuristicAssumption
  <2>4. dist = 0 => Forced(k) \in Branch \ covered
    BY <1>2, <1>3, <2>1, DistancesAre
  <2> QED  BY <1>1, <1>2, <2>2, <2>3, <2>4
<1>5. ex.branches \in MarkedPaths /\ new \subseteq Branch
  <2>1. Executed(ex) \subseteq Branch
    BY SearchAssumption DEF SearchAssumption, Recorded, AllExecutions
  <2> QED  BY <2>1, RecordedPath
<1>6. ASSUME Predicted(local.ex, ex, k)
      PROVE  (along <=> near) /\ (dist = 0 /\ new # {} => along)
  <2>1. /\ i < Len(ex.branches)
        /\ ex.branches[i + 1] = paired_branch[local.ex.branches[i + 1]]
    BY <1>6 DEF Predicted, CheckPrediction
  <2>2. i \in Positions(local.ex.branches) /\ BranchAt(local.ex, k) = At(local.ex.branches, i)
    BY <1>1, RecordedExecution
  <2>3. i \in Positions(ex.branches) /\ At(ex.branches, i) = Forced(k)
    <3>1. Len(ex.branches) \in Nat
      BY <1>5, PathElement
    <3> QED  BY <2>1, <2>2, <3>1 DEF Positions, At, Forced, BranchAt
  <2>4. along <=> near
    <3> HIDE DEF i, dist, new
    <3> QED  BY <1>1, <1>4, <1>5, <2>3, MeasuresAgree
  <2>5. ASSUME dist = 0  PROVE near
    <3>1. Forced(k) \in Executed(ex)
      <4>1. \A b \in Branch : b >= 0
        BY SearchAssumption DEF SearchAssumption
      <4> HIDE DEF i
      <4> QED  BY <1>3, <2>3, <4>1, RecordedExecution
    <3>2. At(ex.branches, i) \in new
      BY <1>4, <2>3, <2>5, <3>1
    <3>3. MinCflDistance(i, ex.branches, new) = 0
      BY <2>1, <2>3, <3>2 DEF MinCflDistance, Positions
    <3> HIDE DEF i, dist, new
    <3> QED  BY <2>5, <3>3
  <2> QED  BY <2>4, <2>5
<1> DEFINE goes == [next EXCEPT !.calls = << call >>, !.cur = ex, !.lucky = new # {}]
<1>7. local' = FoundBy(ex) \/ local' = next \/ local' = goes
  <2>1. local' = IF ~Predicted(local.ex, ex, k) THEN IF new # {} THEN FoundBy(ex) ELSE next
                 ELSE IF new # {} /\ (along # near \/ (~along /\ dist = 0))
                      THEN [local EXCEPT !.failed = TRUE]
                 ELSE IF new # {} /\ along THEN FoundBy(ex)
                 ELSE IF dist = 0 THEN next
                 ELSE goes
    BY DEF AfterForcing
  <2>2. along \in BOOLEAN /\ near \in BOOLEAN
    BY DEF FindAlongCfg
  <2>3. CASE ~Predicted(local.ex, ex, k)
    <3> HIDE DEF along, near, next, goes, new, dist
    <3> QED  BY <2>1, <2>3
  <2>4. CASE Predicted(local.ex, ex, k)
    <3>1. (along <=> near) /\ (dist = 0 /\ new # {} => along)
      BY <1>6, <2>4
    <3> HIDE DEF along, near, next, goes, new, dist
    <3>2. ~(new # {} /\ (along # near \/ (~along /\ dist = 0)))
      BY <2>2, <3>1
    <3> QED  BY <2>1, <2>4, <3>2
  <2> QED  BY <2>3, <2>4
<1>8. next.failed = FALSE /\ next = [f \in HeuristicFields |-> next[f]]
  BY <1>1 DEF HeuristicFields
<1>9. FoundBy(ex).failed = FALSE
  BY DEF FoundBy, HeuristicSearch
<1>10. goes.failed = FALSE
  <2> HIDE DEF next, call, new
  <2> QED  BY <1>8 DEF HeuristicFields
<1> HIDE DEF next, goes
<1> QED  BY <1>7, <1>8, <1>9, <1>10

\* No other step fails an assertion.
LEMMA NothingFails ==
  ASSUME TypeOK, HeuristicInv, ~local.failed, NextHeuristic
  PROVE  ~local'.failed
<1>1. local = [f \in HeuristicFields |-> local[f]] /\ local.failed = FALSE
  BY DEF HeuristicInv
<1>2. ASSUME NEW ex, NEW dist  PROVE HeuristicSearch(ex, dist).failed = FALSE
  BY DEF HeuristicSearch
<1>3. ASSUME NEW calls  PROVE [local EXCEPT !.calls = calls].failed = FALSE
  BY <1>1 DEF HeuristicFields
<1>4. CASE HeuristicStart
  <2>1. PICK given, next : Launch(given, next) /\ next.failed = FALSE
    BY <1>2, <1>4 DEF HeuristicStart
  <2> QED  BY <1>1, <2>1, LaunchCounts
<1>5. CASE HeuristicReset
  BY <1>1, <1>5 DEF HeuristicReset, HeuristicFields
<1>6. CASE AlongPass
  BY <1>3, <1>6 DEF AlongPass
<1>7. CASE AlongFails
  <2>1. [local EXCEPT !.calls = << >>, !.cur = NULL].failed = FALSE
    BY <1>1 DEF HeuristicFields
  <2> QED  BY <1>2, <1>3, <1>7, <2>1 DEF AlongFails
<1>8. ASSUME NEW k \in local.untried, HeuristicUnsolved(k)  PROVE ~local'.failed
  BY <1>1, <1>8 DEF HeuristicUnsolved, HeuristicFields
<1>9. ASSUME NEW k \in local.untried, HeuristicForce(k)  PROVE ~local'.failed
  <2>1. IsNearest(k)
    BY <1>9 DEF HeuristicForce
  <2>2. PICK input : Launch(input, AfterForcing(k, szd_execution'))
    BY <1>9 DEF HeuristicForce
  <2>3. CASE UNCHANGED << local, covered >>
    BY <1>1, <2>3
  <2>4. CASE /\ local' = AfterForcing(k, szd_execution')
             /\ szd_execution' \in Recorded
    BY <2>1, <2>4, ForcingAgrees
  <2> QED  BY <2>2, <2>3, <2>4, LaunchCounts
<1>10. ASSUME NEW j, AlongEnter(j)  PROVE ~local'.failed
  BY <1>3, <1>10 DEF AlongEnter
<1>11. ASSUME NEW c, AlongUnsolved(c)  PROVE ~local'.failed
  BY <1>3, <1>11 DEF AlongUnsolved
<1>12. ASSUME NEW c, AlongForce(c)  PROVE ~local'.failed
  <2>1. PICK input, next : Launch(input, next) /\ next.failed = FALSE
    BY <1>2, <1>3, <1>12 DEF AlongForce, FoundBy
  <2> QED  BY <1>1, <2>1, LaunchCounts
<1> QED
  BY <1>4, <1>5, <1>6, <1>7, <1>8, <1>9, <1>10, <1>11, <1>12 DEF NextHeuristic

\* Whatever calls and returns are in a path, the distance that FindAlongCfg finds
\* a new branch at and the one that MinCflDistance counts are the same, so that no
\* assertion of the heuristic search fails.
THEOREM DistancesAgreeAlong == Spec => []DistancesAgree
<1>1. Init => DistancesAgree
  BY DEF Init, InitStrategy, InitHeuristic, DistancesAgree
<1>2. TypeOK /\ (strategy = "-cfg" => HeuristicInv) /\ DistancesAgree /\ [Next]_vars
        => DistancesAgree'
  <2> SUFFICES ASSUME TypeOK, strategy = "-cfg" => HeuristicInv, DistancesAgree, [Next]_vars
               PROVE  DistancesAgree'
    OBVIOUS
  <2>1. CASE Next
    <3>1. strategy' = strategy
      BY <2>1 DEF Next
    <3>2. strategy = "-cfg" => NextHeuristic
      BY <2>1 DEF Next, NextStrategy
    <3> QED  BY <3>1, <3>2, NothingFails DEF DistancesAgree
  <2>2. CASE UNCHANGED vars
    BY <2>2 DEF vars, searchVars, DistancesAgree
  <2> QED  BY <2>1, <2>2
<1> QED  BY <1>1, <1>2, HeuristicInvariant, CampaignTypeCorrect, PTL DEF Spec

\* DoSearch and SolveAlongCfg go by distances to the branches that are not covered
\* now, however many searches and restarts came before.
THEOREM DistancesAreCurrent == Spec => []DistancesCurrent
<1>1. (strategy = "-cfg" => HeuristicInv) /\ DistancesAgree => DistancesCurrent
  BY DEF HeuristicInv, DistancesAgree, DistancesCurrent
<1> QED  BY <1>1, HeuristicInvariant, DistancesAgreeAlong, PTL
=============================================================================
