-------------------------- MODULE GenerationalSearch --------------------------
(***************************************************************************)
(* The strategy "-generational": class GenerationalSearch.  local.targets  *)
(* are the executions to expand, in the order they were found;             *)
(* local.target is the one that is being expanded, if any.                 *)
(***************************************************************************)
EXTENDS Search

InitGenerational == local = [targets |-> << >>, target |-> << >>, explored |-> << >>]

GenTarget(ex, cidx, score) == [ex |-> ex, cidx |-> cidx, score |-> score]

Expanding == local.target # << >>
Target == local.target[1]
MoreConstraints == Expanding /\ Target.cidx <= Len(Target.ex.constraints)

\* The last one among those of the highest score: the back after stable_sort.
IsBest(k) ==
  /\ \A j \in 1 .. Len(local.targets) : local.targets[j].score <= local.targets[k].score
  /\ \A j \in k + 1 .. Len(local.targets) : local.targets[j].score < local.targets[k].score

GenStart ==
  /\ ~Expanding /\ local.targets = << >>
  /\ Launch(InitialInput,
            [targets  |-> << GenTarget(szd_execution', 1, 0) >>,
             target   |-> << >>,
             explored |-> << szd_execution'.branches >>])
  /\ UNCHANGED statistics

GenPick(k) ==
  /\ ~Expanding
  /\ k \in 1 .. Len(local.targets)
  /\ IsBest(k)
  /\ local' = [local EXCEPT
       !.target  = << local.targets[k] >>,
       !.targets = SubSeq(@, 1, k - 1) \o SubSeq(@, k + 1, Len(@))]
  /\ NoRun
  /\ UNCHANGED statistics

GenDone ==
  /\ Expanding /\ ~MoreConstraints
  /\ local' = [local EXCEPT !.target = << >>]
  /\ NoRun
  /\ UNCHANGED statistics

GenUnsolved ==
  /\ MoreConstraints
  /\ SolveFails(Target.ex, Target.cidx)
  /\ local' = [local EXCEPT !.target[1].cidx = @ + 1]
  /\ NoRun

\* Mutant of Expanded: the child starts at its parent's branch.
ExpandedFromParent(ex) ==
  [targets  |-> IF Predicted(Target.ex, ex, Target.cidx)
                  THEN Append(local.targets,
                              GenTarget(ex, Target.cidx, Cardinality(Executed(ex) \ covered)))
                  ELSE local.targets,
   target   |-> << [Target EXCEPT !.cidx = @ + 1] >>,
   explored |-> Append(local.explored, ex.branches)]

\* A run that went as predicted is expanded later, from the next branch on;
\* its score is the number of branches it was the first to cover.
Expanded(ex) ==
  [targets  |-> IF Predicted(Target.ex, ex, Target.cidx)
                  THEN Append(local.targets,
                              GenTarget(ex, Target.cidx + 1,
                                        Cardinality(Executed(ex) \ covered)))
                  ELSE local.targets,
   target   |-> << [Target EXCEPT !.cidx = @ + 1] >>,
   explored |-> Append(local.explored, ex.branches)]

GenForce ==
  /\ MoreConstraints
  /\ \E input \in CanSolveNew(Target.ex, Target.cidx) :
       Launch(input, Expanded(szd_execution'))
  /\ SolveSucceeds

NextGenerational ==
  \/ GenStart
  \/ \E k \in 1 .. Len(local.targets) : GenPick(k)
  \/ GenDone
  \/ GenUnsolved
  \/ GenForce
=============================================================================
