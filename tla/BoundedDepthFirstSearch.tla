----------------------- MODULE BoundedDepthFirstSearch -----------------------
(***************************************************************************)
(* The strategy "-dfs" of run_crest: class BoundedDepthFirstSearch.        *)
(*                                                                         *)
(* local.frames is the stack of the calls of DFS, with the parameters and  *)
(* the loop variable of each one; local.explored is a history of the paths *)
(* executed since Run last started from the initial input.                 *)
(***************************************************************************)
EXTENDS Search

InitDFS == local = [frames |-> << >>, explored |-> << >>]

Frame(ex, i, depth) == [ex |-> ex, i |-> i, depth |-> depth]

Caller(frames) == SubSeq(frames, 1, Len(frames) - 1)
Current == local.frames[Len(local.frames)]

InCall == local.frames # << >>
Looping == InCall /\ Current.i <= Len(Current.ex.constraints) /\ Current.depth > 0

\* The frames after the current call has finished an iteration of its loop.
Continued(depth) ==
  Append(Caller(local.frames), Frame(Current.ex, Current.i + 1, depth))

DFSStart ==
  /\ ~InCall
  /\ Launch(InitialInput,
            [frames   |-> << Frame(szd_execution', 1, max_depth) >>,
             explored |-> << szd_execution'.branches >>])
  /\ UNCHANGED statistics

DFSReturn ==
  /\ InCall /\ ~Looping
  /\ local' = [local EXCEPT !.frames = Caller(@)]
  /\ NoRun
  /\ UNCHANGED statistics

DFSUnsolved ==
  /\ Looping
  /\ SolveFails(Current.ex, Current.i)
  /\ local' = [local EXCEPT !.frames = Continued(Current.depth)]
  /\ NoRun

\* Mutant of AfterRun: the callee starts again at the branch just forced.
AfterRunSameBranch(ex) ==
  [frames   |-> IF Predicted(Current.ex, ex, Current.i)
                  THEN Append(Continued(Current.depth - 1),
                              Frame(ex, Current.i, Current.depth - 1))
                  ELSE Continued(Current.depth),
   explored |-> Append(local.explored, ex.branches)]

\* Mutant of AfterRun: a branch that was forced is not counted.
AfterRunSameDepth(ex) ==
  [frames   |-> IF Predicted(Current.ex, ex, Current.i)
                  THEN Append(Continued(Current.depth),
                              Frame(ex, Current.i + 1, Current.depth))
                  ELSE Continued(Current.depth),
   explored |-> Append(local.explored, ex.branches)]

\* Mutant of AfterRun: the callee's first branch is skipped.
AfterRunSkipping(ex) ==
  [frames   |-> IF Predicted(Current.ex, ex, Current.i)
                  THEN Append(Continued(Current.depth - 1),
                              Frame(ex, Current.i + 2, Current.depth - 1))
                  ELSE Continued(Current.depth),
   explored |-> Append(local.explored, ex.branches)]

\* Only a branch that was forced as predicted counts, and is explored further.
AfterRun(ex) ==
  [frames   |-> IF Predicted(Current.ex, ex, Current.i)
                  THEN Append(Continued(Current.depth - 1),
                              Frame(ex, Current.i + 1, Current.depth - 1))
                  ELSE Continued(Current.depth),
   explored |-> Append(local.explored, ex.branches)]

DFSForce ==
  /\ Looping
  /\ \E input \in CanSolve(Current.ex, Current.i) :
       Launch(input, AfterRun(szd_execution'))
  /\ SolveSucceeds

NextDFS == DFSStart \/ DFSReturn \/ DFSUnsolved \/ DFSForce
=============================================================================
