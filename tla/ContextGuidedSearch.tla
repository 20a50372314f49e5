------------------------- MODULE ContextGuidedSearch -------------------------
(***************************************************************************)
(* The strategy "-cgs": class ContextGuidedSearch.  It forces a constraint *)
(* only if the branches before it, its context of size k, are new.         *)
(* local.tree is ex_tree_, local.cache is context_cache_ and local.todo    *)
(* the executions that the loop over exs_at_depth has not come to.         *)
(*                                                                         *)
(* Depths count from 1 here, from 0 in the code.  The largest k is the     *)
(* option that other strategies take for a depth.                          *)
(***************************************************************************)
EXTENDS Features

\* A CGSSymbolicExecution: div is the position of the branch that was forced.
Node(ex, div) == [ex |-> ex, div |-> div, tried |-> {}]

InitCGS ==
  local = [tree |-> << >>, k |-> 1, depth |-> 0, todo |-> {}, cache |-> {},
           explored |-> << >>]

\* The tree has its root, and every execution at this depth has been seen to.
LevelDone == local.tree # << >> /\ local.todo = {}

\* Mutant of MaxDepthT: only the first execution is asked.
FirstDepthT == Len(local.tree[1].ex.constraints)

MaxDepthT == Max({Len(local.tree[n].ex.constraints) : n \in 1 .. Len(local.tree)})

\* tried_ of an execution without constraints has no storage: Tried reads it
\* through a null pointer.  Past the end of another one either answer will do,
\* since the execution is then too short for the depth.
TriedFaults == \E n \in 1 .. Len(local.tree) : local.tree[n].ex.constraints = << >>

\* Mutant of GetExAtDepth: the branches before the forced one are tried as well.
GetExFromStart(depth) ==
  {n \in 1 .. Len(local.tree) :
     /\ depth \notin local.tree[n].tried
     /\ depth <= Len(local.tree[n].ex.constraints)}

\* Executions with a constraint there, after the branch that was forced.
GetExAtDepth(depth) ==
  {n \in 1 .. Len(local.tree) :
     LET node == local.tree[n] IN
     /\ depth \notin node.tried
     /\ depth <= Len(node.ex.constraints)
     /\ node.ex.constraints_idx[depth] > node.div}

CGSStart ==
  /\ local.tree = << >>
  /\ Launch(InitialInput, [local EXCEPT !.tree = << Node(szd_execution', -1) >>,
                                        !.explored = << szd_execution'.branches >>])
  /\ UNCHANGED statistics

\* The next depth.  How deep it goes is asked anew every time.
CGSDeeper ==
  /\ LevelDone /\ local.k <= max_depth /\ local.depth < MaxDepthT
  /\ IF TriedFaults
       THEN status' = "aborted" /\ UNCHANGED local
       ELSE /\ local' = [local EXCEPT !.depth = @ + 1,
                                      !.todo = GetExAtDepth(local.depth + 1)]
            /\ UNCHANGED status
  /\ UNCHANGED << environment, szd_execution, last_run, num_iters, coverageVars,
                  statistics, reports >>

CGSWiden ==
  /\ LevelDone /\ local.k <= max_depth /\ local.depth >= MaxDepthT
  /\ local' = [local EXCEPT !.k = @ + 1, !.depth = 0]
  /\ NoRun
  /\ UNCHANGED statistics

\* DoCGS returns, and is called again with the tree and the cache cleared.
CGSRestart ==
  /\ LevelDone /\ local.k > max_depth
  /\ local' = [tree |-> << >>, k |-> 1, depth |-> 0, todo |-> {}, cache |-> {},
               explored |-> << >>]
  /\ NoRun
  /\ UNCHANGED statistics

Parent(n) == local.tree[n].ex
Context(n) == GetContext(Parent(n), local.depth, local.k)

CGSVisited(n) ==
  /\ Context(n) \in local.cache
  /\ local' = [local EXCEPT !.todo = @ \ {n}]
  /\ NoRun
  /\ UNCHANGED statistics

\* SetTried and the insertion into the cache come before the solver is asked.
Tries(n) ==
  [local EXCEPT !.todo = @ \ {n},
                !.tree[n].tried = @ \cup {local.depth},
                !.cache = @ \cup {Context(n)}]

CGSUnsolved(n) ==
  /\ Context(n) \notin local.cache
  /\ SolveFails(Parent(n), local.depth)
  /\ local' = Tries(n)
  /\ NoRun

\* A run that went as predicted joins the tree.
Grown(n, ex) ==
  [Tries(n) EXCEPT
     !.tree = IF Predicted(Parent(n), ex, local.depth)
                THEN Append(@, Node(ex, Parent(n).constraints_idx[local.depth]))
                ELSE @,
     !.explored = Append(@, ex.branches)]

CGSForce(n) ==
  /\ Context(n) \notin local.cache
  /\ \E input \in CanSolveNew(Parent(n), local.depth) :
       Launch(input, Grown(n, szd_execution'))
  /\ SolveSucceeds

NextCGS ==
  \/ CGSStart \/ CGSDeeper \/ CGSWiden \/ CGSRestart
  \/ \E n \in local.todo : CGSVisited(n) \/ CGSUnsolved(n) \/ CGSForce(n)
=============================================================================
