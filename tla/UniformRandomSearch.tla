-------------------------- MODULE UniformRandomSearch --------------------------
(***************************************************************************)
(* The strategy "-uniform_random": class UniformRandomSearch.  local.ex is *)
(* prev_ex_, local.i and local.depth are the variables of                  *)
(* DoUniformRandomPath; a tossed coin decides whether a branch is forced.  *)
(***************************************************************************)
EXTENDS Search

InitUniform == local = [ex |-> NULL, i |-> 1, depth |-> 0]

OnPath ==
  /\ local.ex # NULL
  /\ local.i <= Len(local.ex.constraints)
  /\ local.depth < max_depth

UniformStart ==
  /\ local.ex = NULL
  /\ Launch(InitialInput, [ex |-> szd_execution', i |-> 1, depth |-> 0])
  /\ UNCHANGED statistics

\* DoUniformRandomPath returns and is called again.
UniformReset ==
  /\ local.ex # NULL /\ ~OnPath
  /\ local' = [local EXCEPT !.i = 1, !.depth = 0]
  /\ NoRun
  /\ UNCHANGED statistics

UniformUnsolved ==
  /\ OnPath
  /\ SolveFails(local.ex, local.i)
  /\ local' = [local EXCEPT !.i = @ + 1]
  /\ NoRun

UniformSkip ==
  /\ OnPath
  /\ CanSolve(local.ex, local.i) # {}
  /\ local' = [local EXCEPT !.i = @ + 1, !.depth = @ + 1]
  /\ SolveSucceeds
  /\ NoRun

\* The executions are swapped if the run went as predicted.
UniformAfterRun(ex) ==
  IF Predicted(local.ex, ex, local.i)
    THEN [ex |-> ex, i |-> local.i + 1, depth |-> local.depth + 1]
    ELSE [local EXCEPT !.i = @ + 1]

UniformForce ==
  /\ OnPath
  /\ \E input \in CanSolve(local.ex, local.i) :
       Launch(input, UniformAfterRun(szd_execution'))
  /\ SolveSucceeds

NextUniform ==
  \/ UniformStart \/ UniformReset \/ UniformUnsolved \/ UniformSkip \/ UniformForce
=============================================================================
