------------------------------- MODULE Features -------------------------------
(***************************************************************************)
(* The dynamic features of src/run_crest/feature.cc, by which the strategy *)
(* "-param" scores the constraints of an execution.  A feature is asked    *)
(* for its flags before a search and told of the constraint that the       *)
(* search forced.  The static features are a score of each branch.         *)
(*                                                                         *)
(* Constraints and positions count from 1 here, from 0 in the code.        *)
(***************************************************************************)
EXTENDS Search, FiniteSetsExt

CONSTANTS
  cfg,               \* the branches that can be next after each branch
  dominator,         \* the branches that dominate it
  fid_branches_map,  \* of each function, the branches in the file "branches"
  Thresholds,        \* values of a threshold that is read before it is set; a
                     \* negative one counts as one above every function's size
  Share,             \* the ends of a path are one in so many constraints (10)
  PairLimits,        \* parameters of IsFrequentlySelectedPair (10, 20 and 30)
  Histories,         \* parameters of IsRecentlySelectedBranch (10, 20 and 30)
  UnsatLimit,        \* failures that are frequent (10)
  LatestRuns,        \* runs for which a function is new (10)
  BigFunction        \* the branches of a function that counts (10)

\* The features, in the order of their weights.
Feature == << "IsFrontBranch", "IsEndBranch", "IsMostFrequentlyAppearedInPath",
              "IsLeastFrequentlyAppearedInPath", "IsFreshBranch", "IsFreshPartOfPath",
              "IsVisitedContext", "IsVisitedContext", "IsVisitedContext",
              "IsVisitedContext", "IsVisitedContext", "IsFrequentlySelectedPair",
              "IsFrequentlySelectedPair", "IsFrequentlySelectedPair",
              "IsNearNegatedBefore", "IsFrequentlyUnsatBranch", "IsFrequentlyUnsatPair",
              "IsPairedBranchUncovered", "IsPairedBranchUncovered",
              "IsRecentlySelectedBranch", "IsRecentlySelectedBranch",
              "IsRecentlySelectedBranch", "IsInMostUncoveredFunc",
              "IsNearUncovered_Function", "IsNearUncovered_Function",
              "IsNearUncovered_Function", "IsNearUncovered_Function",
              "IsInLatestCoveredFunc" >>

FeatureIdx == 1 .. 28
ContextSizes == 1 .. 5
FreshPart == 6

FeaturesAssumption ==
  /\ Share \in Nat \ {0} /\ UnsatLimit \in Nat /\ LatestRuns \in Nat /\ BigFunction \in Nat
  /\ PairLimits \in [1 .. 3 -> Nat] /\ Histories \in [1 .. 3 -> Nat]
  /\ Thresholds \subseteq Nat
  /\ \A f \in Function : fid_branches_map[f] # {}
ASSUME FeaturesAssumption

\* What the features keep.  The thresholds of three features are copied from
\* members of Search that are set later.
NewFeatures(thresholds) ==
  [ready        |-> {},                              \* features with ready_
   checked      |-> [f \in FeatureIdx |-> << >>],    \* checked_cidxs_
   negated_cidx |-> 0,
   contexts     |-> [k \in ContextSizes |-> {}],     \* ctx_cache_
   cidx_counter |-> << >>,                           \* of indices, and
   bid_counter  |-> << >>,                           \*   branches forced
   bid_history  |-> [k \in 1 .. 3 |-> << >>],
   thresholds   |-> thresholds,
   exec_counter |-> << >>,                           \* fid_to_exec_counter_
   latest_fids  |-> {}]

\* An element of a map that counts, absent at first.
CountOf(map, x) == IF x \in DOMAIN map THEN map[x] ELSE 0
CountUp(map, x) ==
  [y \in DOMAIN map \cup {x} |-> CountOf(map, y) + (IF y = x THEN 1 ELSE 0)]

-----------------------------------------------------------------------------
(***************************************************************************)
(* The flag of the i-th constraint of an execution.                        *)
(***************************************************************************)

\* How often a branch is among the first of a path, as many as it has
\* constraints; those of its constraints are meant.
Appearances(ex, b) ==
  Cardinality({j \in 1 .. Len(ex.constraints) : ex.branches[j] = b})

\* The least frequent are found by the largest count too: std::min_element is
\* given the inverse order.
IsMostFrequent(ex, i) ==
  Appearances(ex, BranchAt(ex, i)) =
    Max({Appearances(ex, ex.branches[j]) : j \in 1 .. Len(ex.constraints)})

\* The branch and, going back, the k - 1 last ones that do not dominate it.
GetContext(ex, i, k) ==
  LET end  == ex.constraints_idx[i]
      Free(b) == b \notin dominator[BranchAt(ex, i)]
      back == SelectSeq([j \in 1 .. end |-> ex.branches[end + 1 - j]], Free)
  IN  << BranchAt(ex, i) >> \o SubSeq(back, 1, Min({k - 1, Len(back)}))

\* Either side of the range suffices.
IsNear(n, negated, i) ==
  i >= negated - (n + 4) \div 5 \/ i <= negated + n \div 5

\* The other side of a branch and what follows it within a depth.
BranchesUpTo ==
  [b \in Branch |->
     LET upto[depth \in 0 .. 2] ==
           IF depth = 0 THEN {paired_branch[b]}
           ELSE upto[depth - 1] \cup UNION {cfg[c] : c \in upto[depth - 1]}
     IN upto]

\* The loop over the functions of the path, in order, leaves the last one: the
\* largest number of uncovered branches is never stored.
MostUncoveredFunc(ex) ==
  LET fids == {branch_function[BranchAt(ex, i)] :
                 i \in {j \in 1 .. Len(ex.constraints) : BranchAt(ex, j) \in total_covered}}
  IN  IF fids = {} THEN 0 ELSE Max(fids)

\* The first branches of the functions not reached that are large enough.
EntriesUncovered(threshold) ==
  UNION {{Min(fid_branches_map[f]), paired_branch[Min(fid_branches_map[f])]} :
           f \in {g \in Function \ reached : Cardinality(fid_branches_map[g]) >= threshold}}

\* newly: the branches that the last run covered first.
Flag(f, fs, newly, ex, i) ==
  LET b == BranchAt(ex, i)
      n == Len(ex.constraints)
      kind == Feature[f]
  IN
  CASE kind = "IsFrontBranch" -> i <= n \div Share
    [] kind = "IsEndBranch" -> i > (n * (Share - 1)) \div Share + 1
    [] kind \in {"IsMostFrequentlyAppearedInPath", "IsLeastFrequentlyAppearedInPath"} ->
         IsMostFrequent(ex, i)
    [] kind = "IsFreshBranch" -> b \in newly
    [] kind = "IsFreshPartOfPath" -> i >= fs.negated_cidx
    [] kind = "IsVisitedContext" -> GetContext(ex, i, f - 6) \in fs.contexts[f - 6]
    [] kind = "IsFrequentlySelectedPair" ->
         /\ CountOf(fs.cidx_counter, i) > PairLimits[f - 11]
         /\ CountOf(fs.bid_counter, b) > PairLimits[f - 11]
    [] kind = "IsNearNegatedBefore" -> IsNear(n, fs.negated_cidx, i)
    [] kind = "IsFrequentlyUnsatBranch" -> bid_unsat_count[b] > UnsatLimit
    [] kind = "IsFrequentlyUnsatPair" -> bid_unsat_count[paired_branch[b]] > UnsatLimit
    [] kind = "IsPairedBranchUncovered" ->
         BranchesUpTo[b][f - 18] \cap total_covered = {}
    [] kind = "IsRecentlySelectedBranch" -> b \in Values(fs.bid_history[f - 19])
    [] kind = "IsInMostUncoveredFunc" -> branch_function[b] = MostUncoveredFunc(ex)
    [] kind = "IsNearUncovered_Function" ->
         LET threshold == IF f = 27 THEN BigFunction ELSE fs.thresholds[f - 23]
         IN  BranchesUpTo[b][2] \cap EntriesUncovered(threshold) # {}
    [] kind = "IsInLatestCoveredFunc" -> branch_function[b] \in fs.latest_fids

\* Features that are ready append their flags to those they have.
ComputeFeatures(fs, newly, ex) ==
  [fs EXCEPT !.checked =
     [f \in FeatureIdx |->
        IF f \in fs.ready
          THEN @[f] \o [i \in 1 .. Len(ex.constraints) |-> Flag(f, fs, newly, ex, i)]
          ELSE @[f]]]

Predicate(fs, f, i) == f \in fs.ready /\ fs.checked[f][i]

-----------------------------------------------------------------------------
(***************************************************************************)
(* After the run that forced the i-th constraint of ex.                    *)
(***************************************************************************)
Remembered(history, k, b) ==
  Append(IF Len(history) >= k THEN Tail(history) ELSE history, b)

IsBig(f) == Cardinality(fid_branches_map[f]) >= BigFunction

\* The functions that have been new long enough, after those in latest are
\* counted anew.
Renewed(fs, latest) ==
  [f \in DOMAIN fs.exec_counter \cup latest |->
     IF f \in latest THEN LatestRuns ELSE fs.exec_counter[f]]
Expired(counter) == {f \in DOMAIN counter : IsBig(f) /\ counter[f] = 0}

\* The loop erases the element it stands on.  It has reached the first one
\* that it erases; which ones it reaches from there is undefined.
UpdateLatest(fs, latest, reaches) ==
  LET counter == Renewed(fs, latest)
      seen    == {f \in DOMAIN counter :
                    \A g \in Expired(counter) : g < f => f \in reaches}
      gone    == seen \cap Expired(counter)
      fresh   == {f \in seen \ gone : IsBig(f)}
  IN [fs EXCEPT
        !.exec_counter = [f \in DOMAIN counter \ gone |->
                            IF f \in fresh THEN counter[f] - 1 ELSE counter[f]],
        !.latest_fids = (@ \ gone) \cup fresh]

\* Mutant of UpdateFeatureState: the flags are not cleared.
UpdateFeatureStateKeeping(fs, ex, i, prediction_failure, latest, reaches) ==
  LET b == BranchAt(ex, i) IN
  [UpdateLatest(fs, latest, reaches) EXCEPT
     !.ready        = IF prediction_failure THEN FeatureIdx \ {FreshPart} ELSE FeatureIdx,
     !.negated_cidx = i,
     !.contexts     = [k \in ContextSizes |-> @[k] \cup {GetContext(ex, i, k)}],
     !.cidx_counter = CountUp(@, i),
     !.bid_counter  = CountUp(@, b),
     !.bid_history  = [k \in 1 .. 3 |-> Remembered(@[k], Histories[k], b)]]

\* IsFreshPartOfPath is not ready after a failure of the prediction, and keeps
\* its negated_cidx_: that is set again before it is used.
UpdateFeatureState(fs, ex, i, prediction_failure, latest, reaches) ==
  LET b == BranchAt(ex, i) IN
  [UpdateLatest(fs, latest, reaches) EXCEPT
     !.ready        = IF prediction_failure THEN FeatureIdx \ {FreshPart} ELSE FeatureIdx,
     !.checked      = [f \in FeatureIdx |-> << >>],
     !.negated_cidx = i,
     !.contexts     = [k \in ContextSizes |-> @[k] \cup {GetContext(ex, i, k)}],
     !.cidx_counter = CountUp(@, i),
     !.bid_counter  = CountUp(@, b),
     !.bid_history  = [k \in 1 .. 3 |-> Remembered(@[k], Histories[k], b)]]
=============================================================================
