------------------------------- MODULE RunCrest -------------------------------
(***************************************************************************)
(* main() of src/run_crest/run_crest.cc: the strategy is chosen, and its   *)
(* Run() goes on until RunProgram finds the budget used up.                *)
(***************************************************************************)
EXTENDS BoundedDepthFirstSearch, GenerationalSearch, RandomSearch,
        UniformRandomSearch, HybridSearch, CfgBaselineSearch, CfgHeuristicSearch,
        ContextGuidedSearch, ParameterizedSearch

CONSTANT Strategies  \* the values of the option -<strategy>

VARIABLE strategy

vars == << strategy, searchVars >>

InitStrategy ==
  CASE strategy = "-dfs"            -> InitDFS
    [] strategy = "-generational"   -> InitGenerational
    [] strategy \in {"-random", "-random_input"} -> InitRandom
    [] strategy = "-uniform_random" -> InitUniform
    [] strategy = "-hybrid"         -> InitHybrid
    [] strategy = "-cfg_baseline"   -> InitBaseline
    [] strategy = "-cfg"            -> InitHeuristic
    [] strategy = "-cgs"            -> InitCGS
    [] strategy = "-param"          -> InitParam

Init ==
  /\ InitSearch
  /\ strategy \in Strategies
  /\ InitStrategy

NextStrategy ==
  \/ strategy = "-dfs"            /\ NextDFS
  \/ strategy = "-generational"   /\ NextGenerational
  \/ strategy = "-random"         /\ NextRandom
  \/ strategy = "-random_input"   /\ NextRandomInput
  \/ strategy = "-uniform_random" /\ NextUniform
  \/ strategy = "-hybrid"         /\ NextHybrid
  \/ strategy = "-cfg_baseline"   /\ NextBaseline
  \/ strategy = "-cfg"            /\ NextHeuristic
  \/ strategy = "-cgs"            /\ NextCGS
  \/ strategy = "-param"          /\ NextParam

Next ==
  /\ status = "running"
  /\ NextStrategy
  /\ UNCHANGED strategy

Spec == Init /\ [][Next]_vars

\* The coin of DoUniformRandomPath does not fall on one side forever.
Heads ==
  /\ status = "running"
  /\ strategy = "-uniform_random" /\ UniformForce
  /\ UNCHANGED strategy

FairSpec == Spec /\ WF_vars(Next) /\ SF_vars(Heads)
-----------------------------------------------------------------------------
(***************************************************************************)
(* Properties.                                                             *)
(***************************************************************************)
Systematic == strategy \in {"-dfs", "-generational"}

\* Types of the variables that all strategies share.
TypeOK ==
  /\ strategy \in Strategies
  /\ program \in Program /\ input_file \in InitialInputs /\ max_depth \in MaxDepths
  /\ szd_execution \in Leftovers \cup {Execution(a) : a \in Assign}
  /\ last_run \in Assign \cup {NULL}
  /\ num_iters \in 0 .. MaxIters + 1
  /\ covered \subseteq Branch /\ total_covered \subseteq Branch
  /\ coverage \subseteq Branch /\ covered_branches \subseteq Branch
  /\ reached \subseteq Function /\ covered_functions \subseteq Function
  /\ {num_covered, total_num_covered, reachable_functions, reachable_branches} \subseteq Nat
  /\ num_smt_try \in 0 .. MaxCount /\ num_smt_unsat \in 0 .. MaxCount
  /\ bid_unsat_count \in [Branch -> 0 .. MaxCount]
  /\ status \in {"running", "exited", "aborted"}

\* The systematic strategies and the context-guided one run no path twice
\* between two restarts, when the constraints of the program decide its path:
\* the constraint forced and those before it are never forced again below.
NoPathTwice ==
  (Systematic \/ strategy = "-cgs") /\ Exact =>
    \A i, j \in 1 .. Len(local.explored) :
      i # j => local.explored[i] # local.explored[j]

\* Whether a systematic strategy is about to start over.
Idle ==
  /\ Systematic /\ status = "running" /\ local.explored # << >>
  /\ IF strategy = "-dfs" THEN ~InCall ELSE ~Expanding /\ local.targets = << >>

\* The depth covers the longest path.
DeepEnough ==
  \A a \in Assign : Len(Execution(a).constraints) <= max_depth

\* When a systematic strategy starts over it has run every path of the program.
\* A depth of as many branches as a path has is enough: the depth that a call
\* of DFS passes on is at least what its loop can still use.
AllPathsExplored ==
  Idle /\ Exact /\ (strategy = "-dfs" => DeepEnough) =>
    Values(local.explored) = Paths[program]

\* Whatever the length of the paths, max_depth bounds the runs of a depth-first
\* search: each forced branch uses up one of the budget of the runs below it.
DepthBoundsRuns ==
  strategy = "-dfs" /\ Exact => Len(local.explored) <= 2 ^ max_depth

\* Where the current random path or local search is, in constraints.
Position == IF strategy = "-hybrid" THEN local.pos ELSE local.i

\* A random path and a local search change an execution only from their current
\* position on: every branch before it stays as it was chosen.
KeepsPrefix ==
  strategy \in {"-hybrid", "-uniform_random"} /\ NULL \notin {local.ex, local'.ex} =>
    \A j \in 1 .. Len(local.ex.branches) :
      Position <= Len(local.ex.constraints) /\ j <= local.ex.constraints_idx[Position] =>
        local'.ex.branches[j] = local.ex.branches[j]

PrefixKept == [][KeepsPrefix]_vars

\* The programs each of whose executions has a branch that can be forced.
AlwaysForcible ==
  {p \in Program : \A a \in Assign :
     LET ex == Executions[p][a] IN
     \E i \in 1 .. Len(ex.constraints) : CanSolve(ex, i) # {}}

\* The budget is used up in the end, though it is only looked at before a run:
\* every loop of a strategy leads to a run.  A random path needs a branch that
\* can be forced.
BudgetEnds ==
  (strategy = "-uniform_random" => program \in AlwaysForcible) => <>(status # "running")

\* The same with no condition on the program, as the syntax message of
\* run_crest says of its fourth argument.
BudgetAlwaysEnds == <>(status # "running")

\* The parameterized search asks a feature for the flag of every constraint, and
\* there is one in checked_cidxs_: one for each constraint if the search before
\* ran the program, more if it did not, since only a run clears them.
FlagsInBounds ==
  strategy = "-param" /\ local.ex # NULL /\ local.scored =>
    \A f \in local.features.ready :
      LET flags == Len(local.features.checked[f])
          n     == Len(local.ex.constraints)
      IN  flags >= n /\ (local.ran => flags = n)

\* A branch counts as infeasible at most SkipLimit + 1 times in the whole
\* campaign.  The strategy counts its failures by the branch taken, Search by
\* the other side and without repeated constraints: the second is never more.
GivesUpOnBranch ==
  strategy = "-param" =>
    \A b \in Branch :
      /\ bid_unsat_count[paired_branch[b]] <= local.bid_unsat_counter[b]
      /\ local.bid_unsat_counter[b] <= SkipLimit + 1

\* When the parameterized search stops without a run, there is no constraint it
\* could have forced: each cannot be solved, was solved by an input already
\* tried, or is of a branch it has given up.
NothingLeftToForce ==
  strategy = "-param" /\ Choosable /\ local.candidates = {} =>
    \A i \in 1 .. Len(local.ex.constraints) :
      \/ CanSolve(local.ex, i) = {}
      \/ CanSolve(local.ex, i) \cap local.inputs_tried # {}
      \/ GivenUp(BranchAt(local.ex, i))

\* What IsFreshPartOfPath takes for the old part of a path was also in the path
\* searched before: it is only ready if the run went as predicted.
OldPartIsOld ==
  strategy = "-param" /\ Choosable /\ local.ran /\ FreshPart \in local.features.ready =>
    \A i \in 1 .. Len(local.ex.constraints) :
      \/ Predicate(local.features, FreshPart, i)
      \/ /\ local.ex.constraints_idx[i] < Len(local.prev.branches)
         /\ BranchAt(local.ex, i) = local.prev.branches[local.ex.constraints_idx[i] + 1]

\* When a context-guided search starts over, every constraint that was open to
\* it has been tried or has, at the largest size, a context that was: though the
\* tree grows while it is gone through, nothing is left for a last round.  If a
\* constraint can turn concrete, those after it move to a depth already passed.
ContextsExhausted ==
  strategy = "-cgs" /\ Exact /\ max_depth > 0 /\ LevelDone /\ local.k > max_depth =>
    \A n \in 1 .. Len(local.tree) :
      LET node == local.tree[n] IN
      \A i \in 1 .. Len(node.ex.constraints) :
        \/ node.ex.constraints_idx[i] <= node.div
        \/ i \in node.tried
        \/ GetContext(node.ex, i, max_depth) \in local.cache

\* The assertions of the heuristic search hold: the two ways it measures a
\* distance along a path agree, and a branch at distance 0 that is reached is new.
DistancesAgree == strategy = "-cfg" => ~local.failed

\* The distances that a heuristic search goes by are those to the branches not
\* covered now, unless it goes on after a lucky run.
DistancesCurrent ==
  strategy = "-cfg" /\ local.ex # NULL /\ local.ex.constraints # << >> /\ ~local.lucky =>
    local.dist = Distances[Branch \ covered]

\* SolveAlongCfg never takes one from a distance of 0, which would lift the
\* bound on it, unless it goes on after a lucky run.
DistanceBounded ==
  strategy = "-cfg" /\ ~local.lucky =>
    \A i \in 1 .. Len(local.calls) : local.calls[i].max_dist <= InfiniteDistance

\* No assertion of a strategy or of RunProgram fails.
NoSearchAssertionFails == status # "aborted"

\* The sets of branches that UpdateCoverage is given for a run: those of the
\* program's own runs, those of a file found there before the first one, and
\* none for the first run of RandomInputSearch and for one that aborts.
Seen ==
  Observations[program] \cup {{}} \cup {Executed(ex) : ex \in Leftovers \ {NULL}}

\* The abstract campaign.  The last increment of num_iters launches nothing.
Campaign == INSTANCE Campaign WITH
  observations <- Seen,
  launches <- IF status = "exited" THEN num_iters - 1 ELSE num_iters,
  found <- total_covered,
  report <- covered_branches,
  running <- status # "exited"

\* Every strategy implements the abstract campaign.
ImplementsCampaign == Campaign!Spec
=============================================================================
