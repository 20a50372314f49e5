----------------------------- MODULE HybridSearch -----------------------------
(***************************************************************************)
(* The strategy "-hybrid": class HybridSearch.  local.pos is the variable  *)
(* of Run's loop, local.iters that of RandomLocalSearch, and local.idxs    *)
(* the indices that RandomStep has not tried yet, outside it << >>.        *)
(***************************************************************************)
EXTENDS Search

CONSTANTS
  StepSize,   \* step_size_ (100)
  LocalIters  \* the iterations of RandomLocalSearch (100)

HybridAssumption == StepSize \in Nat \ {0} /\ LocalIters \in Nat \ {0}
ASSUME HybridAssumption

InitHybrid == local = [ex |-> NULL, pos |-> 1, iters |-> 0, idxs |-> << >>]

Positioned == local.ex # NULL /\ local.pos <= Len(local.ex.constraints)
Stepping == local.ex # NULL /\ local.idxs # << >>
UntriedIdxs == local.idxs[1]

\* Indices from pos to before pos + StepSize, on the execution there is now.
StepRange ==
  {k \in local.pos .. local.pos + StepSize - 1 : k <= Len(local.ex.constraints)}

HybridStart ==
  /\ local.ex = NULL
  /\ Launch(InitialInput,
            [ex |-> szd_execution', pos |-> 1, iters |-> 0, idxs |-> << >>])
  /\ UNCHANGED statistics

\* Run starts over when pos has passed the last constraint.
HybridRestart ==
  /\ local.ex # NULL /\ ~Stepping /\ local.iters = 0 /\ ~Positioned
  /\ local' = [local EXCEPT !.ex = NULL]
  /\ NoRun
  /\ UNCHANGED statistics

\* RandomStep asserts that there is an index to try: an earlier step may have
\* left an execution with a shorter path.
HybridStep ==
  /\ local.ex # NULL /\ ~Stepping
  /\ Positioned \/ local.iters > 0
  /\ IF StepRange = {}
       THEN status' = "aborted" /\ UNCHANGED local
       ELSE local' = [local EXCEPT !.idxs = << StepRange >>] /\ UNCHANGED status
  /\ UNCHANGED << environment, szd_execution, last_run, num_iters, coverageVars,
                  statistics, reports >>

\* RandomStep has tried every index, which ends RandomLocalSearch.
HybridExhausted ==
  /\ Stepping /\ UntriedIdxs = {}
  /\ local' = [local EXCEPT !.pos = @ + StepSize, !.iters = 0, !.idxs = << >>]
  /\ NoRun
  /\ UNCHANGED statistics

HybridUnsolved(k) ==
  /\ Stepping
  /\ k \in UntriedIdxs
  /\ SolveFails(local.ex, k)
  /\ local' = [local EXCEPT !.idxs = << UntriedIdxs \ {k} >>]
  /\ NoRun

\* A step succeeds when the run went as predicted.
HybridAfterRun(ex, k) ==
  IF ~Predicted(local.ex, ex, k) THEN [local EXCEPT !.idxs = << UntriedIdxs \ {k} >>]
  ELSE IF local.iters + 1 < LocalIters
       THEN [local EXCEPT !.ex = ex, !.iters = @ + 1, !.idxs = << >>]
       ELSE [local EXCEPT !.ex = ex, !.pos = @ + StepSize, !.iters = 0, !.idxs = << >>]

HybridForce(k) ==
  /\ Stepping
  /\ k \in UntriedIdxs
  /\ \E input \in CanSolve(local.ex, k) : Launch(input, HybridAfterRun(szd_execution', k))
  /\ SolveSucceeds

NextHybrid ==
  \/ HybridStart \/ HybridRestart \/ HybridStep \/ HybridExhausted
  \/ Stepping /\ \E k \in UntriedIdxs : HybridUnsolved(k) \/ HybridForce(k)
=============================================================================
