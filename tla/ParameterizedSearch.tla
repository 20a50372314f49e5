------------------------- MODULE ParameterizedSearch -------------------------
(***************************************************************************)
(* The strategy "-param": class ParameterizedSearch.  It forces the        *)
(* constraint of the best score, by weights from a file, among those of    *)
(* the last execution.                                                     *)
(***************************************************************************)
EXTENDS Features

CONSTANTS
  Weights,   \* contents of the weight file, with the static features' scores
  SkipLimit  \* the failures after which a branch is not solved for (70)

ParamAssumption ==
  /\ SkipLimit \in Nat
  /\ \A w \in Weights : /\ w.static \in [Branch -> Int]
                        /\ w.dynamic \in [FeatureIdx -> Int]
  /\ \A b, c \in Branch : paired_branch[b] = paired_branch[c] => b = c
ASSUME ParamAssumption

EmptyExecution ==
  [inputs |-> << >>, branches |-> << >>, constraints |-> << >>, constraints_idx |-> << >>]

\* local.ex is the argument of DoSearch, NULL outside it, and local.scored
\* says that it has computed the scores of its candidates.
InitParam ==
  \E w \in Weights, t \in [1 .. 3 -> Thresholds] :
    local = [weights           |-> w,
             ex                |-> NULL,
             first             |-> FALSE,  \* it is DoSearch(initial_ex)
             new_ex            |-> EmptyExecution,
             scored            |-> FALSE,
             candidates        |-> {},     \* pairs of a score and an index
             newly             |-> {},     \* newly_covered_branches_
             features          |-> NewFeatures(t),
             inputs_tried      |-> {},
             bid_unsat_counter |-> [b \in Branch |-> 0],
             broken            |-> FALSE,  \* the next step of a loop fails
             prev              |-> NULL,   \* history: the execution searched before,
             ran               |-> TRUE]   \* and whether that search ran the program

Choosable == local.ex # NULL /\ local.scored /\ ~local.broken

\* ComputeScores: the weighted sum of the flags.
Score(fs, ex, i) ==
  local.weights.static[BranchAt(ex, i)]
    + MapThenSumSet(LAMBDA f : IF Predicate(fs, f, i) THEN local.weights.dynamic[f] ELSE 0,
                    FeatureIdx)

\* The candidate that is tried next: the last one after sorting.
IsLast(c) ==
  /\ Choosable /\ c \in local.candidates
  /\ \A d \in local.candidates : d[1] < c[1] \/ (d[1] = c[1] /\ d[2] <= c[2])

Bid(c) == BranchAt(local.ex, c[2])

\* Mutant of Candidates: the first constraint is left out.
CandidatesFromSecond(fs, ex) == {<< Score(fs, ex, i), i >> : i \in 2 .. Len(ex.constraints)}

Candidates(fs, ex) == {<< Score(fs, ex, i), i >> : i \in 1 .. Len(ex.constraints)}

ParamStart ==
  /\ local.ex = NULL
  /\ Launch(InitialInput, [local EXCEPT !.ex = szd_execution', !.first = TRUE,
                                        !.newly = covered' \ covered])
  /\ UNCHANGED statistics

\* ExtractFeatures and ComputeScores.
ParamExtract ==
  /\ local.ex # NULL /\ ~local.scored /\ ~local.broken
  /\ \E fs \in {ComputeFeatures(local.features, local.newly, local.ex)} :
       local' = [local EXCEPT !.features = fs, !.scored = TRUE,
                              !.candidates = Candidates(fs, local.ex)]
  /\ NoRun
  /\ UNCHANGED statistics

Popped(c) == [local EXCEPT !.candidates = @ \ {c}]

GivenUp(b) == local.bid_unsat_counter[b] > SkipLimit

ParamSkip(c) ==
  /\ IsLast(c)
  /\ GivenUp(Bid(c))
  /\ local' = Popped(c)
  /\ NoRun
  /\ UNCHANGED statistics

CountFailure(b) == [local.bid_unsat_counter EXCEPT ![b] = @ + 1]

\* Mutant of Failed: the failure counts for the branch not reached.
FailedForPair(c) ==
  [Popped(c) EXCEPT !.bid_unsat_counter = CountFailure(paired_branch[Bid(c)])]

Failed(c) == [Popped(c) EXCEPT !.bid_unsat_counter = CountFailure(Bid(c))]

ParamUnsolved(c) ==
  /\ IsLast(c)
  /\ ~GivenUp(Bid(c))
  /\ SolveFails(local.ex, c[2])
  /\ local' = Failed(c)
  /\ NoRun

\* The input has been tried.
ParamTried(c) ==
  /\ IsLast(c)
  /\ ~GivenUp(Bid(c))
  /\ CanSolve(local.ex, c[2]) \cap local.inputs_tried # {}
  /\ local' = Popped(c)
  /\ SolveSucceeds
  /\ NoRun

\* What CheckPrediction returns is taken for a failure of the prediction.
ParamAfterRun(c, input, ex, reaches, breaks) ==
  LET latest == reached' \ reached IN
  [local EXCEPT
     !.ex = ex, !.new_ex = ex, !.first = FALSE, !.scored = FALSE, !.candidates = {},
     !.newly = covered' \ covered,
     !.features = UpdateFeatureState(@, local.ex, c[2], Predicted(local.ex, ex, c[2]),
                                     latest, reaches),
     !.inputs_tried = @ \cup {input},
     !.broken = breaks /\ Expired(Renewed(local.features, latest)) # {},
     !.prev = local.ex, !.ran = TRUE]

ParamForce(c) ==
  /\ IsLast(c)
  /\ ~GivenUp(Bid(c))
  /\ \E input \in CanSolve(local.ex, c[2]) \ local.inputs_tried,
        reaches \in SUBSET Function, breaks \in BOOLEAN :
       Launch(input, ParamAfterRun(c, input, szd_execution', reaches, breaks))
  /\ SolveSucceeds

\* DoSearch returns false.  After the first one of a restart new_ex_ is
\* searched all the same.
ParamGiveUp ==
  /\ Choosable /\ local.candidates = {}
  /\ local' = [local EXCEPT !.ex = IF local.first THEN local.new_ex ELSE NULL,
                            !.first = FALSE, !.scored = FALSE,
                            !.prev = local.ex, !.ran = FALSE]
  /\ NoRun
  /\ UNCHANGED statistics

\* The loop of IsInLatestCoveredFunc goes on from an element that it erased.
ParamBreak ==
  /\ local.broken
  /\ status' = "aborted"
  /\ UNCHANGED << environment, szd_execution, last_run, num_iters, coverageVars,
                  statistics, reports, local >>

NextParam ==
  \/ ParamStart \/ ParamExtract \/ ParamGiveUp \/ ParamBreak
  \/ \E c \in local.candidates :
       ParamSkip(c) \/ ParamUnsolved(c) \/ ParamTried(c) \/ ParamForce(c)
=============================================================================
