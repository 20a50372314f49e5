-------------------------- MODULE CfgHeuristicSearch --------------------------
(***************************************************************************)
(* The strategy "-cfg": class CfgHeuristicSearch.  DoSearch forces the     *)
(* constraints of an execution in the order of their distance, in the      *)
(* control-flow graph, to a branch not covered; SolveAlongCfg goes on from *)
(* the forced branch along that distance.                                  *)
(*                                                                         *)
(* local.ex is the execution that DoSearch is given, with the indices it   *)
(* has left and its budget of runs; local.calls is the stack of            *)
(* SolveAlongCfg, the innermost call last.  Positions in a path count from *)
(* 0, as in the code.                                                      *)
(***************************************************************************)
EXTENDS Features, BranchGraph, SequencesExt

CONSTANTS
  InfiniteDistance,  \* kInfiniteDistance (10000)
  UnsignedMax,       \* what 0 - 1 is
  SearchIters        \* the runs of one DoSearch (30)

CallId == -1
ReturnId == -2

\* A path has branches of the program, and the marks of calls and returns.
HeuristicAssumption ==
  /\ InfiniteDistance \in Nat \ {0} /\ UnsignedMax \in Nat /\ SearchIters \in Nat \ {0}
  /\ InfiniteDistance < UnsignedMax
  /\ DOMAIN cfg = Branch
  /\ \A ex \in AllExecutions \cup (Leftovers \ {NULL}) :
       Values(ex.branches) \subseteq Branch \cup {CallId, ReturnId}
ASSUME HeuristicAssumption

\* UpdateBranchDistances, for each set of branches that are not covered.
Distances == [uncovered \in SUBSET Branch |-> DistanceTo(cfg, uncovered, InfiniteDistance)]

-----------------------------------------------------------------------------
(***************************************************************************)
(* Positions in a path.                                                    *)
(***************************************************************************)
Positions(path) == 0 .. Len(path) - 1
At(path, p) == path[p + 1]

\* The calls less the returns in a part of a path.
Nesting(path, from, to) ==
  LET marks(id) == Cardinality({p \in from .. to : At(path, p) = id})
  IN  marks(CallId) - marks(ReturnId)

\* A branch follows another if between them there are only calls, and calls
\* that have returned, with what was run in these.
IsNextBranch(path, i, j) ==
  /\ At(path, j) >= 0
  /\ \A p \in i + 1 .. j - 1 :
       /\ Nesting(path, i + 1, p) >= 0
       /\ At(path, p) >= 0 => \E r \in p + 1 .. j - 1 : Nesting(path, p + 1, r) < 0

CollectNextBranches(path, i) == {j \in i + 1 .. Len(path) - 1 : IsNextBranch(path, i, j)}

\* Element n has the positions that are n steps after i.
Following(i, path) ==
  LET following[n \in 0 .. Len(path)] ==
        IF n = 0 THEN {i}
        ELSE UNION {CollectNextBranches(path, j) : j \in following[n - 1]}
  IN  following

\* One of bs is at most dist steps after the branch at position i.
FindAlongCfg(i, dist, path, bs) ==
  /\ i < Len(path)
  /\ \E n \in 0 .. Min({dist, Len(path)}) : \E j \in Following(i, path)[n] : At(path, j) \in bs

\* The variables of MinCflDistance.
InitialCount == [stack |-> << >>, min |-> UnsignedMax, cur |-> 1, done |-> FALSE]

\* Mutant of TakeBack: a return does not take the distance back.
ReturnForgotten(state) == state

\* A return ends the loop, or takes the distance back to that of the call.
TakeBack(state) ==
  IF state.stack = << >> THEN [state EXCEPT !.done = TRUE]
  ELSE [state EXCEPT !.cur = Last(state.stack), !.stack = Front(@)]

\* A step of the loop of MinCflDistance.
CountDistance(state, b, bs) ==
  IF state.done THEN state
  ELSE IF b = CallId THEN [state EXCEPT !.stack = Append(@, state.cur)]
  ELSE IF b = ReturnId THEN TakeBack(state)
  ELSE [state EXCEPT !.min = IF b \in bs THEN Min({@, state.cur}) ELSE @, !.cur = @ + 1]

\* What the loop has measured when it comes to a position.
Measured(i, path, bs) ==
  LET measured[n \in i + 1 .. Len(path)] ==
        IF n = i + 1 THEN InitialCount
        ELSE CountDistance(measured[n - 1], At(path, n - 1), bs)
  IN  measured

\* The distance along the path, which does not count what calls ran.
MinCflDistance(i, path, bs) ==
  IF i >= Len(path) THEN UnsignedMax
  ELSE IF At(path, i) \in bs THEN 0
  ELSE Measured(i, path, bs)[Len(path)].min

-----------------------------------------------------------------------------
(***************************************************************************)
(* The search.                                                             *)
(***************************************************************************)

\* A call of DoSearch.
HeuristicSearch(ex, dist) ==
  [ex |-> ex, dist |-> dist, untried |-> 1 .. Len(ex.constraints), iters |-> SearchIters,
   calls |-> << >>, cur |-> NULL, lucky |-> FALSE, failed |-> FALSE]

InitHeuristic ==
  local = [ex      |-> NULL,
           dist    |-> [b \in Branch |-> 0],  \* dist_
           untried |-> {},
           iters   |-> 0,
           calls   |-> << >>,
           cur     |-> NULL,   \* cur_ex of DoSearch, while it calls SolveAlongCfg,
           lucky   |-> FALSE,  \* and whether that run covered a new branch
           failed  |-> FALSE]  \* an assertion failed

\* Mutant of FoundBy: the distances are those of the search before.
FoundByOld(ex) == HeuristicSearch(ex, local.dist)

\* DoSearch has found a new branch: the distances are computed anew and the
\* execution is searched from.
FoundBy(ex) == HeuristicSearch(ex, Distances[Branch \ covered'])

HeuristicStart ==
  /\ local.ex = NULL
  /\ Launch(InitialInput,
            HeuristicSearch(szd_execution',
                            IF FoundNewBranch(szd_execution')
                              THEN Distances[Branch \ covered'] ELSE local.dist))
  /\ UNCHANGED statistics

\* The score of a constraint: its distance, and the times that its other side
\* came before it in the shuffled path.
Forced(k) == paired_branch[BranchAt(local.ex, k)]
SeenBefore(k) ==
  Cardinality({j \in (1 .. Len(local.ex.constraints)) \ local.untried : Forced(j) = Forced(k)})
DistanceScore(k) == local.dist[Forced(k)] + SeenBefore(k)

InDoSearch == local.ex # NULL /\ local.calls = << >> /\ ~local.failed
IsNearest(k) ==
  /\ InDoSearch /\ local.iters > 0
  /\ DistanceScore(k) <= InfiniteDistance
  /\ \A j \in local.untried : DistanceScore(k) <= DistanceScore(j)

\* DoSearch returns false, and Run forgets what was covered before it starts over.
HeuristicReset ==
  /\ InDoSearch
  /\ ~ \E k \in local.untried : IsNearest(k)
  /\ local' = [local EXCEPT !.ex = NULL]
  /\ covered' = {} /\ num_covered' = 0
  /\ UNCHANGED << environment, szd_execution, last_run, num_iters, total_covered,
                  total_num_covered, reached, reachable_functions, reachable_branches,
                  coverage, reports, status, statistics >>

HeuristicUnsolved(k) ==
  /\ IsNearest(k)
  /\ SolveFails(local.ex, k)
  /\ local' = [local EXCEPT !.untried = @ \ {k}]
  /\ NoRun

\* A call of SolveAlongCfg: the branches that follow the one at position i,
\* those from whose sides an uncovered branch is near enough.  A branch is in
\* forcing while the call is at it.
AlongCfg(ex, i, max_dist) ==
  [ex       |-> ex,
   max_dist |-> max_dist,
   todo     |-> {j \in CollectNextBranches(ex.branches, i) :
                   \/ local.dist[At(ex.branches, j)] <= max_dist
                   \/ local.dist[paired_branch[At(ex.branches, j)]] <= max_dist},
   forcing  |-> {}]

\* Unsigned arithmetic.
LessOne(dist) == IF dist = 0 THEN UnsignedMax ELSE dist - 1

\* What DoSearch makes of the run that forced the k-th constraint.  A lucky
\* run covered a new branch that is not along the graph.
AfterForcing(k, ex) ==
  LET i     == local.ex.constraints_idx[k]
      dist  == local.dist[Forced(k)]
      new   == Executed(ex) \ covered
      along == FindAlongCfg(i, dist, ex.branches, new)
      next  == [local EXCEPT !.untried = @ \ {k}, !.iters = @ - 1]
  IN
  IF ~Predicted(local.ex, ex, k) THEN IF new # {} THEN FoundBy(ex) ELSE next
  ELSE IF new # {} /\ (along # (MinCflDistance(i, ex.branches, new) <= dist)
                       \/ (~along /\ dist = 0))
       THEN [local EXCEPT !.failed = TRUE]
  ELSE IF new # {} /\ along THEN FoundBy(ex)
  ELSE IF dist = 0 THEN next
  ELSE [next EXCEPT !.calls = << AlongCfg(ex, i, DistanceScore(k) - 1) >>,
                    !.cur = ex, !.lucky = new # {}]

HeuristicForce(k) ==
  /\ IsNearest(k)
  /\ \E input \in CanSolve(local.ex, k) : Launch(input, AfterForcing(k, szd_execution'))
  /\ SolveSucceeds

-----------------------------------------------------------------------------
(***************************************************************************)
(* SolveAlongCfg.                                                          *)
(***************************************************************************)
SolvingAlong == local.calls # << >>
Call == Last(local.calls)
Branches == Call.ex.branches

\* Mutant of NearEnough: the bound is one more.
AlmostNear(b) == local.dist[b] <= Call.max_dist + 1

NearEnough(b) == local.dist[b] <= Call.max_dist

PairedAt(j) == paired_branch[At(Branches, j)]

Replace(calls, call) == [calls EXCEPT ![Len(calls)] = call]

\* The call comes to the branch at j: it goes on from there, if that is near
\* enough, before it looks at the other side.
AlongEnter(j) ==
  /\ SolvingAlong /\ Call.forcing = {} /\ j \in Call.todo
  /\ LET calls == Replace(local.calls, [Call EXCEPT !.todo = @ \ {j}, !.forcing = {j}])
     IN  local' = [local EXCEPT
                     !.calls = IF NearEnough(At(Branches, j))
                                 THEN Append(calls, AlongCfg(Call.ex, j, LessOne(Call.max_dist)))
                                 ELSE calls]
  /\ NoRun
  /\ UNCHANGED statistics

\* The constraints of the branch that the call is at, none if it is concrete.
ForcingAt(c) ==
  /\ SolvingAlong
  /\ c \in 1 .. Len(Call.ex.constraints)
  /\ Call.ex.constraints_idx[c] \in Call.forcing
  /\ NearEnough(PairedAt(Call.ex.constraints_idx[c]))

Passed == Replace(local.calls, [Call EXCEPT !.forcing = {}])

\* The other side cannot be forced, or is not near enough.
AlongPass ==
  /\ SolvingAlong /\ Call.forcing # {}
  /\ ~ \E c \in 1 .. Len(Call.ex.constraints) : ForcingAt(c)
  /\ local' = [local EXCEPT !.calls = Passed]
  /\ NoRun
  /\ UNCHANGED statistics

AlongUnsolved(c) ==
  /\ ForcingAt(c)
  /\ SolveFails(Call.ex, c)
  /\ local' = [local EXCEPT !.calls = Passed]
  /\ NoRun

AlongForce(c) ==
  /\ ForcingAt(c)
  /\ \E input \in CanSolve(Call.ex, c) :
       Launch(input,
              IF FoundNewBranch(szd_execution') THEN FoundBy(szd_execution')
              ELSE IF ~Predicted(Call.ex, szd_execution', c)
                   THEN [local EXCEPT !.calls = Passed]
              ELSE [local EXCEPT
                      !.calls = Append(Passed, AlongCfg(szd_execution',
                                                        Call.ex.constraints_idx[c],
                                                        LessOne(Call.max_dist)))])
  /\ SolveSucceeds

\* A call returns false; the first one to DoSearch, which takes the lucky run.
AlongFails ==
  /\ SolvingAlong /\ Call.todo = {} /\ Call.forcing = {}
  /\ local' = IF Len(local.calls) > 1 THEN [local EXCEPT !.calls = Front(@)]
              ELSE IF local.lucky
                   THEN HeuristicSearch(local.cur, Distances[Branch \ covered])
              ELSE [local EXCEPT !.calls = << >>, !.cur = NULL]
  /\ NoRun
  /\ UNCHANGED statistics

NextHeuristic ==
  \/ HeuristicStart \/ HeuristicReset \/ AlongPass \/ AlongFails
  \/ \E k \in local.untried : HeuristicUnsolved(k) \/ HeuristicForce(k)
  \/ SolvingAlong /\ \E j \in Call.todo : AlongEnter(j)
  \/ SolvingAlong /\ \E c \in 1 .. Len(Call.ex.constraints) : AlongUnsolved(c) \/ AlongForce(c)
=============================================================================
