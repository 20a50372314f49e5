# A formal model of ParaDySE

ParaDySE generates search heuristics for concolic testing. It is built on
CREST: a C program is instrumented, runs on concrete inputs beside a symbolic
stack machine, and leaves the constraints of the path it took in a file;
`run_crest` reads them, solves for the other side of a branch, and runs the
program again. This directory holds TLA+ modules that model that loop, TLC
configurations that check them on small instances, and theorems about them
whose proofs TLAPS checks.

Paths below are relative to the repository's root; `src/base`, `src/libcrest`
and `src/run_crest` are its directories `src/src/base` and so on in the file
`PROJECT.json`, which maps every definition to the lines it models.

## 1. The system

| Part | State | Operations |
|---|---|---|
| `SymbolicExpr`, `SymbolicPred` (`src/base`) | a linear form over the inputs; a comparison of one with 0 | `+=`, `-=`, `*=`, `Negate`, `DependsOn`, `AppendVars`, `Equal` |
| `SymbolicInterpreter` (`src/base`) | stack of values with expressions, `mem_`, predicate register, `return_value_`, number of inputs, the execution so far | `Load`, `Store`, `ClearStack`, `ApplyUnaryOp`, `ApplyBinaryOp`, `ApplyCompareOp`, `Call`, `Return`, `HandleReturn`, `Branch`, `NewInput` |
| `libcrest` (`crest.cc`) | the interpreter `SI`, the flag `pre_symbolic` | the `__Crest...` callbacks, `__CrestInit` (reads `input`), `__CrestAtExit` (writes `szd_execution`) |
| `crestInstrument.ml` (CIL module) | none at run time | puts the callbacks around loads, operators, stores, conditions, calls, entries and returns; writes `cfg`, `cfg_func_map`, `branches` |
| `YicesSolver` (`src/base`) | none between calls | `IncrementalSolve`, `Solve` |
| `Search` (`concolic_search.cc`) | `covered_`, `total_covered_`, `reached_` with their counters, number of iterations, statistics of the solver; the files `input`, `szd_execution`, `coverage` | `RunProgram`, `UpdateCoverage`, `SolveAtBranch(New)`, `CheckPrediction`, `PrintFinalResult` |
| Eleven strategies (`concolic_search.cc`) | the executions they work on, targets, positions, scores | `Run` and its helpers |
| `process_cfg`, `calc_dominator.py`, `learning.ml` | none; files in, files out | branch distances, dominators, static features |
| `feature.cc` | what the 28 dynamic features remember of earlier runs | `ComputeFeature`, `Predicate`, `UpdateFeatureState` |
| `scripts/` | directories of weights and logs | find, check, refine, repeated until coverage no longer grows |

**How they interact.** The instrumented program calls `libcrest` at every
instruction; `libcrest` drives the interpreter. The program and `run_crest`
are two processes that never run at the same time and communicate by two
files: `run_crest` writes `input` and calls `system()`, the program writes
`szd_execution` as it exits. Inside `run_crest` a strategy calls the common
operations of `Search`, and these the solver. The scripts start several
`run_crest`s with different weight files and read only their logs.

**What is hard in it.** Nothing here is multi-threaded; what goes wrong is of
other kinds.

* *Two states in step.* The interpreter's stack must mirror the operands of a
  C program it does not see, through calls that nest, calls of functions that
  are not instrumented, results that are dropped, and a first input that may be
  read anywhere (`pre_symbolic`).
* *Stale state.* The predicate register, `mem_`, the negated constraint, the
  file of the previous run; and the expression of a value that a cast has
  changed, for which there is no callback.
* *Partial solving.* Only the constraints connected to the negated one are
  solved, and the answer is merged with the old inputs.
* *Positions.* Constraints are indexed one way, branches another (call and
  return marks are between them), and the searches use both.
* *Prediction.* The run on a solved input may leave the path it was solved for.
* *Lost answers.* A crashed run writes nothing; `run_crest` does not notice.
* *Two measures of one distance.* `-cfg` computes distances on the written
  graph before a run and compares them with the path of the run; both the graph
  and the distances leave something out.
* *Contexts cached before they are solved*, in a tree that grows while the loop
  goes through it.
* *Partial failure of the scripts.* Each is a process of its own that may raise
  an exception, write no line in a log, or start in another month than the
  directory it looks for; the others go on.
* *Memory across restarts.* `-param` keeps inputs tried, branches given up and
  28 features from one restart to the next, and shares members with `Search`.
* *Termination.* The budget is tested only when the program is run.

The list `hazards` of `PROJECT.json` has every one of these at its line.

**What makes each part correct.**

* Interpreter: each expression denotes the concrete value and each recorded
  constraint is true of the recorded inputs, as far as no cast has changed a
  value; no assertion fails.
* Solver: an answer satisfies *all* constraints; no answer means there is none.
* `Search`: the counters agree with the sets; the budget is kept.
* Systematic strategies: every path once. Local ones: only what comes after the
  current position changes. `-cgs`: no context is left when it starts over.
  `-cfg`: its distances are those of the program, and current. `-param`: a
  search that runs nothing had nothing left to run, and every feature answers
  for every constraint. All: the search ends.
* `process_cfg`: it writes the branches that follow each branch, no others.
* Scripts: a campaign ends, and when it reports success `best.w` is the best
  weight of one of its trials, and after saturation of one that no other trial
  exceeds by a whole branch, whatever failed on the way.

## 2. Modules

```
SymbolicPred                     forms, predicates
 ├─ SymbolicInterpreter          the stack machine
 │   └─ Libcrest                 the callbacks
 │       └─ InstrumentedProgram  the program beside it       MCInstrumentedProgram
 └─ YicesSolver                  connected constraints, Solutions
     ├─ BranchSolver             SolveAtBranch, step by step    MCBranchSolver
     └─ Search                   RunProgram, UpdateCoverage ...
         ├─ BoundedDepthFirstSearch, GenerationalSearch, RandomSearch,
         │  UniformRandomSearch, HybridSearch, CfgBaselineSearch
         ├─ Features             the 28 features; contexts of branches
         │   ├─ ParameterizedSearch
         │   ├─ ContextGuidedSearch
         │   └─ CfgHeuristicSearch  (with BranchGraph)
         └──── RunCrest          main: one strategy             MCRunCrest
                 implements Campaign
BranchGraph                      the distance to a set of branches, defined
 └─ BranchDistances              UpdateBranchDistances       MCBranchDistances
     └─ ProcessCfg               process_cfg, which it reads
FindCheckRefine                  the scripts
```

The eight `*_proof` modules hold the theorems:

```
Operators_proof                  predicates, sequences, least elements, recursion
 ├─ InstrumentedProgram_proof    the stack machine and the program beside it
 ├─ BranchDistances_proof        process_cfg, UpdateBranchDistances
 ├─ YicesSolver_proof            connected constraints, what solving keeps
 │   └─ BranchSolver_proof
 ├─ RunCrest_proof               coverage, Campaign, -hybrid, -param, -cfg
 └─ ExploredPaths_proof          -dfs, -generational, -cgs; extends also RunCrest_proof
                                 and YicesSolver_proof
FindCheckRefine_proof            the scripts
```

**SymbolicPred.** A linear form is the function from assignments of the inputs
to its value. Coefficients are data no property tells apart; equality of forms
is equality of functions, which over the integers is what comparing the
coefficients decides. 64-bit overflow is excluded by `FormRange` (section 6).

**SymbolicInterpreter.** `Machine` is the record of the class's members. Every
member function is an operator from machine to machine, so that the module
has no variables and the callbacks can compose it. A failed `assert` sets
`aborted`, and the program stops there.

**Libcrest.** The variables are `SI` and `pre_symbolic`; one action per
callback. `kOpTable` is the code's table composed with the test that decides
whether an operator goes to `ApplyBinaryOp` or `ApplyCompareOp`.

**InstrumentedProgram.** Any program over integers that `crestInstrument.ml` can
produce, within the limits at the head of the module and of section 6, one
callback at a time: the next step is chosen freely among the loads, operators,
casts, assignments, conditions, inputs, calls and returns that a C program could
do in that state, and each does to the concrete program (`memory`, `operands`,
`frames`) what C does, and to `SI` what its callbacks do.
The *origin* of an operand is what the C expression is; a condition is always
a comparison because `mkPredicate` makes it one. A cast (`EvalCast`) has no
callback: `instrumentExpr` treats it as a no-op, "which is not precise"
(`crestInstrument.ml:401`), so that it converts the operand of the program and
leaves the stack of `SI` as it is. `Casts` has the conversions, any functions on
the values; the history variable `converted` says whether one of them has
changed a value since the first input, and only properties read it.

**YicesSolver.** `Connected` is the least set of variables that contains those
of the last constraint and is closed under sharing a constraint; `Solutions`
and `SolutionsNew` are the inputs that `SolveAtBranch` and `SolveAtBranchNew`
may return. Yices is external: it answers every query rightly and may choose
any solution.

**BranchSolver.** One call of `SolveAtBranch`: the identical-constraint
shortcut, the negation in place, the breadth-first search one visit at a time,
the query, the merge, the second negation.

**Search** and the **strategies**. `RunProgram`, `UpdateCoverage` and the
solver's counters are shared operators; a strategy is a set of actions, each
one pass through its loop up to the next run of the program. `local` holds the
strategy's own variables. The recursion of `DFS` is a stack of frames. Orders
the code draws at random are free choices. The program under test is a
function from inputs to an execution, or to a crash (`Crashes`); inputs it
reads beyond those it was given are any (`Completions`).

**Features** is `feature.cc`. What the 28 features keep is one record;
`ComputeFeatures` appends the flags of one execution, `UpdateFeatureState` is
told of the constraint that was forced, and `Flag` is the definition of each
feature, one case each. It says what the code does:
`IsLeastFrequentlyAppearedInPath` computes the same as its opposite
(`min_element` is given the inverse order), `IsNearNegatedBefore` holds of
every constraint (`||`), and `IsInMostUncoveredFunc` takes the last function of
the path (`largest` is never stored). For an execution without constraints two
features take the greatest element of an empty range (`feature.cc:97` and 126),
which is undefined and not in the model: there is no constraint with which the
number is compared. The loop of `IsInLatestCoveredFunc` that erases the element
it stands on (`feature.cc:614`) may go on in any way or fail (`ParamBreak`),
and the thresholds that three features copy before they are set have any value.

**ParameterizedSearch** is `Run` and `DoSearch`: `ParamExtract` computes the
scores, each further action takes the best candidate left (skip, no solution,
tried before, force), `ParamGiveUp` is `return false`. `prev` and `ran` are
history variables that only properties read.

**ContextGuidedSearch** is `DoCGS` with its tree, the loop over sizes and
depths, and the cache: `CGSForce` solves without the prefix
(`SolveAtBranchNew`), and only a run that went as predicted joins the tree.
`Tried` of an execution without constraints reads a vector without storage
(`concolic_search.cc:1944`), which is modelled as an abort (`TriedFaults`).

**CfgHeuristicSearch** is `-cfg`. `DoSearch` is one action for each constraint
it takes, `SolveAlongCfg` a stack of calls, each of which enters an index,
passes it by, fails to solve it or forces it. `DistanceTo` (**BranchGraph**) is
the *definition* of the distance to a set of branches, which stands here for
`UpdateBranchDistances`; that this function computes it is checked in
`BranchDistances`.

**ProcessCfg** is `process_cfg.cc`: a name of a function in the file `cfg`
stands for its first node, and for each branch Dijkstra's algorithm runs with
its set of pairs as the queue, cut off at distance 1, one visit of a node for
one action. **BranchDistances** goes on with the file it has written: any
number of calls of `UpdateBranchDistances`, with any set of covered branches,
one visit of a branch for one action. `Followers` is the definition of what
follows a branch in the program.

**FindCheckRefine** is `fullauto.py` with the scripts it starts. Its state is
what they leave to each other: the directories of weights, the month in the
names of the directories of logs, which logs are complete, and the lines of the
two logs that `fullauto.py` reads at the end. The parallel processes of
`1find.py` and `check_w.py` take their steps in any order; a search may write a
complete log or not, a process may die, and a month may end between any two
steps. One campaign follows another in what it left.

**RunCrest** is `main`: it fixes a strategy at the start, one of the ten that
report. **Campaign** is what any strategy promises: at most `MaxIters` runs,
found branches that only grow by what runs cover, and one report of exactly
those.

## 3. Runs

| Run | Module | Shows |
|---|---|---|
| InstrumentedProgram | MCInstrumentedProgram | until a cast changes a value expressions denote values and constraints hold; an execution can be replayed from the inputs it keeps |
| Calls | MCInstrumentedProgram | no assertion fails under nested calls; positions are right; constraints on values that calls pass on hold |
| BranchSolver | MCBranchSolver | the answer is sound, complete, restores the path, terminates and equals `Solutions` |
| RunCrest | MCRunCrest | ten strategies on twelve programs: coverage, exploration, depth, prefix, budget, refinement of `Campaign` |
| Guided | MCRunCrest | `-param`: flags in step with the path, branches given up, nothing left out; `-cgs`: no context left; `-cfg`: distances agree and are current |
| BranchDistances | MCBranchDistances | `process_cfg` writes the branches that follow, `UpdateBranchDistances` the distances of the program; both end |
| FindCheckRefine | FindCheckRefine | `best.w` is the weight it should be, campaigns end and stay apart |
| StalePredicate | MCInstrumentedProgram | a disagreement of the interpreter with its header |
| StaleExecution, UniformBudget, HybridAssertion, FreshPart | MCRunCrest | four disagreements of `run_crest` with its comments, usage text, assertion and names |

**Properties.** Besides one `TypeOK` per module:

* `SymbolicStateAgrees`: whatever inputs agree with those recorded, every
  expression in `mem_` and on the stack has the concrete value.
  `PathHoldsOfInputs`: each recorded constraint is true of the recorded inputs.
  Both hold until a cast has changed a value (`~converted`), and not after it:
  with `(char)x == 44` the program takes the branch for an x of 300, and records
  x == 44. What is said without that condition (`ExpressionsAgree`,
  `ConstraintsHold`) is violated in the same run. Casts that change no value,
  and those before the first input, are no exception.
* `ExecutionSelfContained`: every variable of a written execution has its
  input there and constraints mention no other.
* `NoAssertionFails`: none of the interpreter's assertions fails.
* `PathWellFormed`: positions increase, each one is that of a branch, and at no
  moment have more returns than calls been marked.
* `SolutionSatisfies`, `FailureIsInfeasible`, `PathRestored`,
  `AnswersAsSpecified`, `Termination`: of one call of `SolveAtBranch`.
* `CoverageAgrees`: each counter is the cardinality of its set.
* `NoPathTwice`: between two restarts `-dfs`, `-generational` and `-cgs` run no
  path twice; `AllPathsExplored`: the first two leave none out. Both are for
  programs whose constraints decide the path (`Exact`): inputs that satisfy the
  constraints take the path, inputs that violate one first leave it there, and
  a branch that has a constraint on one path has it, at the same index, on
  every path that comes to it the same way (`Aligned`). Without the last clause
  both are false: a call of `DFS` goes on at the index after the one that was
  forced, and where the new path has recorded a constraint more or less before
  the branch, that index is of another branch, to which the search goes back or
  which it leaves out (the program `redundant`). `DepthBoundsRuns`: `-dfs` with
  depth d makes at most 2^d runs, however long the paths.
* `PrefixKept`: a step of `-uniform_random` or `-hybrid` never changes a branch
  before its position.
* `BudgetEnds`: the search ends.
* `ImplementsCampaign`: every strategy refines `Campaign`.
* `FlagsInBounds`: when `-param` asks a feature about a constraint, the feature
  has computed its flag; one row of flags exactly, if the last search ran the
  program. (After a search that ran nothing the first row, which is read, is of
  an earlier execution, as in the code; the property is about their number.)
  `GivesUpOnBranch`: no branch counts as infeasible more than once after the
  limit, and `Search`'s count never exceeds the strategy's.
  `NothingLeftToForce`: when `DoSearch` returns false, each constraint has no
  solution, or one that was tried, or is of a branch given up.

* `ContextsExhausted`: when `-cgs` starts over, every constraint after the one
  that was forced has been tried, or has at the largest size a context that
  was. For programs whose constraints decide the path: where a constraint can
  turn concrete, those after it move to a depth that has already been passed.
  And for a maximal depth of at least 1: with 0 no size is ever tried.
* `DistancesAgree`: the assertions of `-cfg` (lines 1431 to 1444) hold.
  `DistancesCurrent`: it goes by the distances to what is not covered now.
  `DistanceBounded`: `max_dist - 1`, which is unsigned, is not taken of 0. The
  last two hold except after a *lucky* run, one that covers a new branch without
  reaching what it was forced for: then `DoSearch` goes on with distances from
  before the run, a call has `max_dist` 0 and the next one no bound at all.
* `NeighboursExact`: `process_cfg` writes for a branch exactly the other
  branches that some path meets first. `DistancesCertified`: each distance is
  justified by a branch that follows and contradicted by none, whatever is
  covered. `DistancesOfProgram`: the distances are those in the program's own
  graph, though branches that follow themselves were left out of the file; a
  way of `kInfiniteDistance` steps or more counts as none, in the loop (a branch
  at that distance is as far as one never reached) as in the definition.
  `ProcessEnds`, `CallsReturn`: both loops end.
* `WeightsOwn`: a campaign tries no weights of an earlier one, unless that one
  crashed or took more trials than directories are removed for (`untidy`; after
  these it does try them).
  `BestIsOfItsTrial`: `best.w` is copied from the directory of the trial whose
  line names it, though lines are counted in one log and read in another and a
  trial may write none. `BestWithinOne`: after saturation no trial before the
  last one has a greater average than that trial, and the last one exceeds it by
  less than 1. It may exceed it: the log has the averages with their fractions
  and `fullauto.py:109` compares integer parts, so that a trial with 12.9 after
  one with 12.0 is thrown away. Both have the exception of `WeightsOwn`.
  `CampaignEnds`.

Each property of a passing run has a mutant of a modelled definition that
breaks it (`mutants` in `PROJECT.json`; the mutated forms stand before the
definitions they mutate).

**Bounds.** *InstrumentedProgram*: two addresses (symmetric), two inputs with
three values, expressions of two operands, paths of two marks, one call. The
smallest instance with two expressions that can be confused, a product and a
difference of two inputs, an overwritten symbolic address, an input file that
is too short and one that is too long, and a cast, to `_Bool`, that changes one
of three values (418,896 states). *Calls*: one address and two values and no
casts, but two frames, two arguments and six marks in a path, so that a call
inside a call returns in every way and conditions follow the returns (638,688
states). *BranchSolver*: three variables and three constraints, the least with
which two variables are connected only through a third. *RunCrest*: twelve
programs, each for one situation: branches nested in branches (`nested`), one
branch id taken twice (`loop`), a condition the solver does not see (`inexact`,
and `hidden`, where it changes the path before the constraint forced), a
product that becomes concrete with constraints after it (`product`) and as the
only one (`scaled`), constraints that decide the path but are not at the same
index on every one (`redundant`), a crash on one input (`crashing`), a branch
that cannot be forced (`certain`), two functions of which only one is entered
at first (`callee`), a branch covered by chance (`lucky`), call and return
marks in the path (`calling`). `MaxIters` 7 lets the systematic searches finish
every program and start over within the budget; `MaxDepths` {2, 3} is both
below and at the longest path. The strategies' own limits (10000 and 1000
tries, a step of 100, 250 runs, 30 runs) are constants, set to 2. `MaxCount`
caps the solver's statistics; what the features read of them
(`bid_unsat_count_ > 10`) is below it.
*Guided*: the same programs for `-cfg`, `-cgs` and `-param`, with depth 2, which
is the largest context, and 4 runs in one `DoSearch` of `-cfg`, so that a search
goes on after a run in which `SolveAlongCfg` failed. `-param` has seven weight
files: one feature alone, for six features that remember something, or all of
them mixed against the order of the path. The numbers in `feature.cc` are
constants and scaled to paths of three constraints: the ends of a path are its
halves (`Share` 2, for 10), the parameters of the selected pairs are 0, 1, 2 and
of the histories 1, 2, 3 (for 10, 20, 30), a branch is often unsatisfiable
after one failure (`UnsatLimit` 0, for 10), a function is new for one run and
big with two branches (`LatestRuns` 1, `BigFunction` 2, for 10), and a branch is
given up after two failures (`SkipLimit` 1, for 70). A threshold read before it
is set has one of two values on either side of all counts. `MaxIters` 6 is
enough for the first search that runs nothing, for the next restart and for a
function to stop being new. `InfiniteDistance` is the code's 10000 and what
0 - 1 is (`UnsignedMax`) any greater number.
*BranchDistances*: 768 graphs over two conditional statements and four branches,
with a call in any branch or condition, a function whose first node is not
known, loops and branches that follow themselves, and eight over six branches
in which a way may have three steps; every set of covered branches at every
call. `kInfiniteDistance` 3 (for 10000) is less than the number of branches in
all of them and the length of a way in the eight: the file `branches` may have
more than 10000 (`concolic_search.cc:84` reserves 100000, and the vim of
`benchmarks` has about 35,000), and a way may in principle be that long.
*FindCheckRefine*: four weights for three processes (so that a remainder is
left over), of which two are checked, in two runs, both of which it takes for
an average (`Enough`, for 5 of 10); three trials (for 19), the least with which
an average can rise and fall, averages of halves; all directories removed
(`Removed` 3, for 9); two campaigns and two months, which is what one takes to
leave something to another, and to end between any two scripts.

`CHECK_DEADLOCK FALSE` is in every configuration because each system stops: the
program exits, the call returns, `PrintFinalResult` calls `exit`.

**Fairness.** `WF_vars(Next)` in `BranchSolver` and `RunCrest`: both are single
threads in loops that never wait, so a step that is possible is taken; a run of
the program under test is assumed to end. `SF_vars(Heads)` in `RunCrest`: the
coin `rand() % 2` of `DoUniformRandomPath` does not fall on "keep" forever.
`-uniform_random` needs in addition a program of which every execution has a
branch that can be forced; without that `BudgetEnds` is false, which is what
*UniformBudget* shows. `WF_vars(Process)` and `WF_vars(Visit)` in
`BranchDistances`: `process_cfg` and a call of `UpdateBranchDistances` go on
while they can; nothing makes the caller call. `WF_scriptVars(Step)` in
`FindCheckRefine`: the scripts go on, and each search ends since it has a
budget; no new campaign need be started and no month need end.

## 4. Findings

Five runs expect a violation and show what the code does where a comment, a
usage text or an assertion says otherwise.

1. *StalePredicate* — a comparison of two concrete operands keeps the old
   predicate register (`symbolic_interpreter.cc:223`), which is
   "for when top of stack is a symbolic predicate"
   (`symbolic_interpreter.h:69`). `1 < (y < x)` records the wrong constraint.
2. *StaleExecution* — "Read the execution from the program."
   (`concolic_search.cc:307`) reads the previous one after a crash.
3. *UniformBudget* — `-uniform_random` may never end whatever its budget
   (`run_crest.cc:24`).
4. *HybridAssertion* — `assert(start < end)` (`concolic_search.cc:1081`) fails
   after a step to a shorter path.
5. *FreshPart* — `CheckPrediction` returns true when the run went as predicted
   ("Check for prediction failure." at `concolic_search.cc:744` is a test of
   its negation), but `concolic_search.cc:2181` assigns its result to
   `prediction_failure`. `IsFreshPartOfPath` is ready only after
   mispredicted runs. With the call negated the run has no violation.

The models also have, as the code does, what no line of the repository denies:

* a cast changes the value and not the expression, which the comment at
  `crestInstrument.ml:401` admits;
* an operator the instrumentation does not handle becomes the comparison `<`
  (`crest.cc:43`), and a value of the input file is recorded uncast
  (`symbolic_interpreter.cc:317`);
* after a lucky run of `-cfg` the bound of `SolveAlongCfg` wraps
  (`concolic_search.cc:1611`), and `-cgs` reads through a null pointer when an
  execution has no constraint (`concolic_search.cc:1944`);
* after 19 trials without saturation `best.w` is of the last trial but one
  (`fullauto.py:128` on, `BestWeight`), averages are compared by their integer
  parts, which may throw away the trial with the greatest average (section 3,
  `BestWithinOne`), and the weights that remain when the iterations are divided
  among the processes are never tried (`1find.py`, `count`);
* a campaign in which a month ends between two scripts crashes or loses a
  trial, and one that crashes leaves its directories to the next program.

## 5. Proofs

The theorems hold for every value of the constants that satisfies the named
assumptions of the modules (`...Assumption`); TLC evaluates these in each run.

**Operators_proof.** Negating a predicate negates its truth; every nonempty
set of numbers has a least element (`Least`), which stands in these proofs
where a textbook has an induction: an invariant of a sequence is proved by
looking at the first element that breaks it. `Steps` and `Recursion` come from
it: a set that contains a number and the successors of its elements contains
all that follow, and a function defined by recursion over an interval exists.
The last matters because a recursive function is a `CHOOSE` of one that
satisfies its equation, so that nothing is known of `DistanceTo`, `Following`
or `Measured` before one is shown to exist.

**InstrumentedProgram_proof.** It begins with what each member function of the
interpreter does to the stack, the memory and the path. `NoAssertionFails` is
not inductive: whether `HandleReturn` finds one element depends on what the
program did at the call. `Shape` adds that nothing is known before the first
input (`IdleBeforeInput`), what each control point implies (`ControlOK`), that
the stack mirrors the operands and the flag the control point
(`StackMirrorsOperands`), and that a predicate belongs to a concrete top
(`PredicateOnTop`). It does not mention values, and so holds whatever casts do.
From it follow `TypeCorrect` and `AssertionsHold`, for any number of addresses,
operands, frames and inputs. `Sound` adds that the stack has the program's
values (`StackHasValues`), `UnreadInputsFit`, and `PredicateMeansComparison`:
the register means the comparison just evaluated. A cast that changes a value
ends all that for good, so that the inductive invariant is `Shape` with
`SoundUntilCast`, that is `~converted => Sound`; a cast that changes none keeps
`Sound` because the operand stays what it was. From it follow
`SymbolicStateSound` and `PathSound`. They assume `FilesFit` (the file's
values are values of the types they are read with) and `~Nested` (no
comparison is the right operand of a comparison). Neither can be dropped, nor
can `~converted`: finding 1 is a nested comparison, an input is recorded as the
file has it, and a cast is not recorded. That the form of a left shift denotes
the shifted value needs a count of at most 30, which `IsBinaryValue` asks of the
program: `ShiftFactors` relates `ShiftFactor`, which is 1 << b in int, to the
power of two. `PowersAssumption` says that such powers are integers, which the
provers do not know.
`PathsWellFormed` needs `Shape` only: with it `CallsOpen`, that the marks in
the path have as many calls open as the program has frames, is inductive, and
the marks of a return can only close them. `ExecutionsSelfContained` needs the
invariant `Contained`: every expression on the stack, in `mem_` and in the
register depends on inputs already read, so that no constraint can mention
another when the execution is written.

**YicesSolver_proof, BranchSolver_proof.** `SearchInv` says that the variables
found are connected and those no longer queued have their neighbours found;
when the queue is empty they are the least connected set (`ConnectedIsLeast`).
`MergeSatisfies` is the heart of soundness: the constraints outside the set
share no variable with it, so the old values keep satisfying them. Theorems:
`CallTypeCorrect`, `SolveAtBranchSound`, `SolveAtBranchComplete`,
`ConstraintsRestored`, `BranchSolverImplementsSolutions`. The last is what
entitles `Search` to use `Solutions` in place of the loop. They assume that a
call is made with inputs that took the path (part of `Init`), which is what
`PathSound` and `CheckPrediction` provide, that values of different inputs can
be combined (`AssignAssumption`), and that a form depends on the variables
with a coefficient and on nothing else (`LinearAssumption`).

**RunCrest_proof.** `CampaignInv` is `TypeOK` with the budget. Every action of
every strategy is one of: a counted run, an uncounted run, a quiet step, a
report. Theorems: `CampaignTypeCorrect`, `CoverageCounted`, and
`EveryStrategyIsCampaign`, the refinement, for all strategies, programs and
budgets. They rest on `SearchAssumption`: runs report branches of the file
`branches`, whose numbers start at 1 (`src/cil/src/ext/cfg.ml:157` increments
before it numbers a statement), and the other side of a branch is another
branch. `PrefixIsKept` rests on `LocalInv`: the execution that a random path
or a local search holds is `WellFormed`, and the constraints the hybrid has
still to try are at or after its position. A force at such a constraint is
only followed if `CheckPrediction` confirms the branches up to there
(`PredictedKeeps`). It needs positions that are in the path and increase along
it, and the branch of each constraint in the file `branches` (`WellFormed`,
assumed of every execution by `PathsAssumption`). The first is what
`PathsWellFormed` proves of instrumented programs.

Of `-param`, `Searchable` says that the execution searched is one of the
program's and `FailuresBounded` that the two counts of a branch's failures are
in order and below the limit; a failure is only counted for a branch not yet
given up, and `SolveAtBranch` counts it under the other side only if the
constraint is not a repeated one. With `ParamInv` follows `BranchesGivenUp`.
It assumes that pairing is injective (`ParamAssumption`).
`SearchLeavesNothing` needs `ChoiceInv`: during a search each constraint is a
candidate or `Explained`, and each way a constraint is dropped explains it.
`FlagsAreThere` needs `FlagsInv`: only a run clears the flags, so that a
search after a run appends one for each constraint to an empty vector, and a
search after none appends to what it finds, which can only be more than it
asks for.

Of `-cfg`, the invariant is `HeuristicInv`: the distances are those to what is
not covered now unless the last run was a lucky one, and every open call of
`SolveAlongCfg` (`OpenCalls`) is on an execution of the program with a bound
within `kInfiniteDistance`. The bound of a call is one less than a distance;
it does not wrap because a branch at distance 0 is not covered, so that it is
not on the path the call goes along, all of which has been counted
(`DistancesAreBounded`). A lucky run makes an exception of both, until the
search it belongs to ends. `DistancesAreCurrent` holds across restarts,
predictions that fail and calls that nest. Of `DistanceTo` the proofs use that
it is a number and is 0 only at the branches asked for; the graph is any with
the branches as its domain (`HeuristicAssumption`).

`DistancesAgreeAlong` is about two programs that compute one number.
`FindAlongCfg` goes recursively from a branch to each that
`CollectNextBranches` finds: the next one of its own function, and before that
the first one of each call, at every level; `MinCflDistance` goes once along
the path with a counter and a stack. Two facts bring them together. A branch
follows at most one other (`LedByOne`), so that the steps from the start form
a tree and a branch has one distance. And the loop knows which one that is:
`Tracked` is its invariant, that the counter at each position is one more than
that of the branch which leads there, that each element of the stack is the
counter of an open call, and the branch which leads to that call is the one
that will lead on from its return (`LeadsBack`). When a return finds the stack
empty the function of the start has returned, and nothing later follows it
(`Ended`). From this, `FollowingCounted` and `CountedFollows`: a branch is n
steps from the start exactly if the loop comes to it with the counter n.
`MeasuresAgree` takes the minimum, and `NothingFails` concludes that no
assertion of `DoSearch` fails, for every path made of branches and the two
marks, nested in any way, cut off by an exit or left open; that there is
nothing else in a path is the last clause of `HeuristicAssumption`
(`MinCflDistance` calls `exit(1)` otherwise).

**ExploredPaths_proof.** What is left to a systematic search is described as a
*family* of nodes: an execution with those of its constraints that are still
open. A path is *ahead* of a node if it leaves the execution at an open
constraint. `Frontier` says that no path is ahead of two nodes, none that was
run is ahead of one, and none was run twice; `Covers`, that every path that
was not run is ahead of a node. Forcing a constraint closes it and adds the
constraints of the new execution that come after it (`Forked`); that both are
kept is proved once, of families and not of any of the searches. Each search
is then shown to be a family: the frames of the recursion of `-dfs`
(`DFSNodes`), the target and the queue of `-generational` (`GenNodes`), the
tree of `-cgs` without what was tried (`CGSNodes`). From `ExploredInv`, which
is all three, follow `NoPathTwiceHolds` and, since at a restart no node is
left, `AllPathsExploredHolds`; for `-dfs` with a depth below the number of
constraints of some path it says nothing (`DeepEnough`), and `DFSDepths`, that
a call has used up at most one of its depth for each constraint it is past, is
why otherwise no call stops too early. `Solutions` being empty exactly if
there is no input comes from YicesSolver_proof. `DepthBoundsRunsHolds` counts
what the open calls can still make: one with depth d at most 2^d - 1 runs,
with those of its callees (`DFSBudget`). `ContextsExhaustedHolds` follows the
loop of `-cgs` over depths (`CGSSettled`): in the round of the largest size
every constraint at a depth that was passed is tried or its context is in the
cache. The tree grows under the loop, but a run forced at depth d adds open
constraints at depths above d only, because it is `Aligned` with the path it
left.

**BranchDistances_proof.** `ProcessInv` is the invariant of Dijkstra's
algorithm: what is at distance 0 is reached before another branch (`Sound`),
and what is finished is no farther than what is queued and has its edges
relaxed (`Relaxed`). When the queue is empty the nodes at distance 0 are
closed, hence all of `Reach`, which gives `NeighboursAreExact` for every
graph. Of the backward search the invariant says that the queue is in the
order of its distances, which differ by at most one (the *wave*), that a
branch out of the queue is relaxed, and that each finite distance has a
witness; with the queue empty that is `DistancesAreCertified`. Of
`kInfiniteDistance` only that it is a positive number is assumed
(`DistancesAssumption`): a branch at one step less reaches no other, since
`dist_[i] + 1 < dist_[j]` fails for one never reached, and `DistanceTo` is cut
off at the same length. `DistancesAreOfProgram` compares two such
certificates, that of the computed distances on the written graph and that of
`DistanceTo` on the program's: a certificate determines its distances
(`CertifiedAreDistances`), because at the least distance where two of them
differ the witness is nearer and they agree on it; and that a branch follows
itself, which the file leaves out, justifies no distance and contradicts none.

**FindCheckRefine_proof.** `ScriptsInv` says how the logs, the directories and
the trials keep together: both logs have one line for each trial that wrote one
(`Lines`); the integer parts of the averages grow until the last line
(`Climbs`); a trial without weights can neither find, nor check, nor write
(`Idle`), and so a trial without a line is followed by no further trial
(`Followed`), as long as no directories were left over (`Tidy`). This is the
point of `BestFromItsTrial` and `BestFromTrialWithinOne`: the code counts lines
and names directories with the number, which is right only because a trial that
writes no line makes no weights for the next. The second also needs what
integer parts say of the quotients they are of (`CompareWholes`).
`WeightsStayOwn` is part of `Tidy`. They hold for every number of weights,
processes, runs and trials above two.

**Only model-checked.** Liveness (`Termination`, `BudgetEnds`, `ProcessEnds`,
`CallsReturn`, `CampaignEnds`), which with fairness and `ENABLED` is beyond
the prover. Every invariant and every action property of a passing run is
stated by a theorem.

## 6. Abstractions

* Forms are functions and integers unbounded; forms that leave `FormRange` are
  not computed (`NoOverflow`). Overflow of C's own arithmetic is therefore
  outside the model, and the program shifts to the left by at most 30. The
  interpreter's `1 << b` is computed in a 32-bit int (`ShiftFactor`).
* Expressions compute with integers: a cast is any function on them, and no
  floating-point number is computed with.
* Memory changes only by instrumented statements and inputs, and the addresses
  do not overlap. Library functions return any value but write nothing.
* A program's condition has the branch ids 1 and 2; the interpreter does not
  look at ids.
* Structures, bit fields, floating point and variadic functions are left out
  of `InstrumentedProgram`.
* The text and binary formats of the files are left out; what `Serialize` drops
  is not (`SerializedInputs`).
* The time budget: a run that finds it used up is the same step as one that
  finds the iterations used up, possible at any run.
* Functions that nothing calls are left out (`SolveAtBranchOnly`, `CheckTarget`,
  `DoBoundedBFS`), and so is the computation of the
  thresholds (`concolic_search.cc:385` to 411): a feature has its own copy.
* Weights are integers; a sum of floating-point numbers may order candidates
  otherwise, as some other weights would. The twelve static features of a
  branch are one score, since they are constants.
* In `RunCrest` the file that `process_cfg` writes (`cfg`), `dominator` and
  `fid_branches_map` are constants. The last is
  not derived from the branches' functions because the code numbers functions
  in two ways; every function is assumed to have an entry.

* The scripts' weights are numbers: what `refine_w.py` computes from the best
  two is random, and no property depends on it. Logs are what is read of them:
  whether they are complete, and the coverage they end with.

## 7. Not modelled

* `-testing` (`TestingSearch`): a tool for single experiments. Its own
  `RunProgram` writes the inputs into the file that the inputs to start from
  were read from, and not into `input`, which the program reads; it makes two
  runs at most, counts no coverage and prints no report, so that nothing that
  is said of the other ten applies to it.
* `print_execution` only prints. `calc_dominator.py` computes constants of the
  model from the file `cfg`; dominators of a branch are read by one feature.
* CIL is a third-party front end, `learning.ml` extracts the twelve static
  features of a branch from its syntax, and `src/benchmarks` are programs to be
  tested. The part of `crestInstrument.ml` that writes `cfg`, `branches` and
  `cfg_func_map` is a traversal of CIL's syntax trees; its result is the input
  of `ProcessCfg`, which takes any.
* Floating-point arithmetic, overlapping addresses (unions, a variable accessed
  by a pointer of another type), variadic functions, structures assigned as a
  whole and writes the instrumentation does not see. With the last three the
  properties of the interpreter are false as stated: a variadic function leaves
  its arguments on the stack, and memory that changes unseen keeps its
  expression. They are listed under `hazards`.
* 32- and 64-bit overflow, and shifts to the left by 31 or more, after which a
  form no longer denotes the value (also under `hazards`).
* The text and binary formats of the files.
