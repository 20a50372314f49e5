-------------------------- MODULE CfgBaselineSearch --------------------------
(***************************************************************************)
(* The strategy "-cfg_baseline": class CfgBaselineSearch.  local.ex is the *)
(* execution that DoSearch is given, local.untried the indices it has left *)
(* and local.iters its budget of runs.                                     *)
(***************************************************************************)
EXTENDS Search

CONSTANT BaselineIters  \* the runs of one DoSearch (250)

BaselineAssumption == BaselineIters \in Nat \ {0}
ASSUME BaselineAssumption

DoSearch(ex) ==
  [ex |-> ex, untried |-> 1 .. Len(ex.constraints), iters |-> BaselineIters]

InitBaseline == local = [ex |-> NULL, untried |-> {}, iters |-> 0]

\* Covered branches come last, and then the branches that the search has tried
\* most often; scores are computed of a shuffled path.
ForcedBranch(k) == paired_branch[BranchAt(local.ex, k)]
TriedBefore(k) ==
  Cardinality({j \in (1 .. Len(local.ex.constraints)) \ local.untried :
                 ForcedBranch(j) = ForcedBranch(k)})
NoWorse(k, j) ==
  \/ ForcedBranch(k) \notin covered /\ ForcedBranch(j) \in covered
  \/ /\ ForcedBranch(k) \in covered <=> ForcedBranch(j) \in covered
     /\ TriedBefore(k) <= TriedBefore(j)

Searching == local.ex # NULL /\ local.untried # {} /\ local.iters > 0
IsNext(k) == Searching /\ \A j \in local.untried : NoWorse(k, j)

BaselineStart ==
  /\ local.ex = NULL
  /\ Launch(InitialInput, DoSearch(szd_execution'))
  /\ UNCHANGED statistics

BaselineFails ==
  /\ local.ex # NULL /\ ~Searching
  /\ local' = [local EXCEPT !.ex = NULL]
  /\ NoRun
  /\ UNCHANGED statistics

BaselineUnsolved(k) ==
  /\ IsNext(k)
  /\ SolveFails(local.ex, k)
  /\ local' = [local EXCEPT !.untried = @ \ {k}]
  /\ NoRun

\* A run that covers a new branch is searched from next; whether it went as
\* predicted does not matter.
BaselineForce(k) ==
  /\ IsNext(k)
  /\ \E input \in CanSolve(local.ex, k) :
       Launch(input,
              IF FoundNewBranch(szd_execution') THEN DoSearch(szd_execution')
              ELSE [local EXCEPT !.untried = @ \ {k}, !.iters = @ - 1])
  /\ SolveSucceeds

NextBaseline ==
  \/ BaselineStart \/ BaselineFails
  \/ Searching /\ \E k \in local.untried : BaselineUnsolved(k) \/ BaselineForce(k)
=============================================================================
