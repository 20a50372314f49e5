---------------------------- MODULE BranchDistances ----------------------------
(***************************************************************************)
(* UpdateBranchDistances of CfgHeuristicSearch, on the graph that          *)
(* process_cfg has written: breadth-first search backward from all the     *)
(* branches that are not covered.                                          *)
(***************************************************************************)
EXTENDS ProcessCfg, BranchGraph, Sequences, Functions

CONSTANT kInfiniteDistance

VARIABLES
  covered,   \* covered_
  dist_,
  queue,     \* Q
  returned   \* a call has returned

vars == << processVars, covered, dist_, queue, returned >>

DistancesAssumption == kInfiniteDistance \in Nat \ {0}
ASSUME DistancesAssumption

\* Mutant of cfg_rev: the graph is not reversed.
cfg_forward == cfg_branches

\* cfg_rev_, made when the file is read.
cfg_rev == Reversed(cfg_branches)

\* The lists of branches are in ascending order.
Ascending(S) ==
  {s \in [1 .. Cardinality(S) -> S] :
     Range(s) = S /\ \A m, n \in DOMAIN s : m < n => s[m] < s[n]}

Init ==
  /\ InitProcess
  /\ covered = {}
  /\ dist_ = [b \in branches |-> 0]
  /\ queue = << >>
  /\ returned = FALSE

Process == NextProcess /\ UNCHANGED << covered, dist_, queue, returned >>

\* A call, whatever is covered by then.
Update(now) ==
  /\ Written /\ queue = << >>
  /\ covered' = now
  /\ dist_' = [b \in branches |-> IF b \in now THEN kInfiniteDistance ELSE 0]
  /\ queue' \in Ascending(branches \ now)
  /\ returned' = (now = branches)
  /\ UNCHANGED processVars

\* Mutant of Popped: the head stays.
Unpopped == queue

Popped == Tail(queue)

IsFarther(j, i) == dist_[i] + 1 < dist_[j]

\* The head of the queue is popped and the branches that it follows are nearer.
Visit ==
  /\ queue # << >>
  /\ LET i    == Head(queue)
         near == {j \in cfg_rev[i] : IsFarther(j, i)}
     IN
     /\ dist_' = [j \in branches |-> IF j \in near THEN dist_[i] + 1 ELSE dist_[j]]
     /\ \E pushed \in Ascending(near) : queue' = Popped \o pushed
  /\ returned' = (queue' = << >>)
  /\ UNCHANGED << processVars, covered >>

Next == Process \/ Visit \/ \E now \in SUBSET branches : Update(now)

Spec == Init /\ [][Next]_vars

\* The programs are sequential: each goes on while it can.
FairSpec == Spec /\ WF_vars(Process) /\ WF_vars(Visit)
-----------------------------------------------------------------------------
(***************************************************************************)
(* Properties.                                                             *)
(***************************************************************************)
TypeOK ==
  /\ branches \subseteq Node /\ graph \in [Node -> SUBSET Node]
  /\ todo \subseteq branches /\ src \in todo \cup {None}
  /\ dist_map \in [Node -> {0, 1, SizeMax}]
  /\ Q \subseteq {0, 1} \X Node /\ finished \subseteq Node
  /\ cfg_branches \in [branches -> SUBSET branches]
  /\ covered \subseteq branches
  /\ dist_ \in [branches -> Nat]
  /\ queue \in Seq(branches)
  /\ returned \in BOOLEAN

\* When a call returns every distance is accounted for: 0 where a branch is not
\* covered, elsewhere one more than the least distance of the branches that are
\* written to follow it, and infinite where that reaches kInfiniteDistance.
DistancesCertified ==
  returned =>
    \A b \in branches :
      /\ b \notin covered <=> dist_[b] = 0
      /\ \A c \in cfg_branches[b] : dist_[b] <= dist_[c] + 1
      /\ b \in covered /\ dist_[b] # kInfiniteDistance =>
           \E c \in cfg_branches[b] : dist_[b] = dist_[c] + 1

\* The distances that the heuristic search goes by are those in the program's
\* own control-flow graph, though branches that follow themselves were dropped,
\* up to kInfiniteDistance, which stands for every distance from there on: a
\* program may have more branches than that.
DistancesOfProgram ==
  returned =>
    dist_ = DistanceTo([b \in branches |-> Followers(b)], branches \ covered,
                       kInfiniteDistance)

\* process_cfg ends, and so does every call.
ProcessEnds == <>Written
CallsReturn == queue # << >> ~> returned
=============================================================================
