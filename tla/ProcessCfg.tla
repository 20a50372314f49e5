------------------------------ MODULE ProcessCfg ------------------------------
(***************************************************************************)
(* src/process_cfg/process_cfg.cc: from the control-flow graph of the      *)
(* statements, which the instrumentation writes, to the graph of the       *)
(* branches.  For each branch, Dijkstra's algorithm with lengths 0 and 1   *)
(* finds the branches that are the first on some path from it.             *)
(***************************************************************************)
EXTENDS Naturals, FiniteSets

CONSTANTS
  Node,     \* the statements: a branch is the first statement of its block
  Inputs,   \* contents of the files "branches", "cfg" and "cfg_func_map"
  SizeMax,  \* numeric_limits<size_t>::max()
  None      \* no branch

VARIABLES
  branches,      \* the set that main() reads
  graph,         \* cfg of main(): the neighbours of each node
  todo,          \* the branches whose neighbours are not written yet
  src,           \* the one that they are computed for
  dist_map, Q, finished,
  cfg_branches   \* the file of that name

processVars == << branches, graph, todo, src, dist_map, Q, finished, cfg_branches >>

ProcessAssumption ==
  /\ Node \subseteq Nat /\ None \notin Node
  /\ SizeMax \in Nat /\ SizeMax > 1
  /\ \A in \in Inputs : in.branches \subseteq Node /\ IsFiniteSet(in.branches)
  /\ \A in \in Inputs : \A v \in Node : in.cfg[v].nodes \subseteq Node
  /\ \A in \in Inputs : \A f \in DOMAIN in.cfg_func_map : in.cfg_func_map[f] \in Node
ASSUME ProcessAssumption

\* A line of "cfg" has the neighbours of a node and, for each call in it, the
\* name of the function, in the place of its first node if that is known.
readCfg(in) ==
  [v \in Node |->
     in.cfg[v].nodes
       \cup {in.cfg_func_map[f] : f \in in.cfg[v].calls \cap DOMAIN in.cfg_func_map}]

\* The length of an edge depends on the node it goes to.
Length(u) == IF u \in branches THEN 1 ELSE 0

max_dist == 1

InitProcess ==
  /\ \E in \in Inputs : branches = in.branches /\ graph = readCfg(in)
  /\ todo = branches
  /\ src = None
  /\ dist_map = [v \in Node |-> SizeMax] /\ Q = {} /\ finished = {}
  /\ cfg_branches = [b \in branches |-> {}]

\* The next branch: the set is gone through in order.
StartBranch ==
  /\ src = None /\ todo # {}
  /\ src' \in todo /\ \A b \in todo : src' <= b
  /\ dist_map' = [v \in Node |-> IF v = src' THEN 0 ELSE SizeMax]
  /\ Q' = {<< 0, src' >>}
  /\ finished' = {}
  /\ UNCHANGED << branches, graph, todo, cfg_branches >>

\* The head of the queue: the least pair of a distance and a node.
IsHead(q) == q \in Q /\ \A p \in Q : q[1] < p[1] \/ (q[1] = p[1] /\ q[2] <= p[2])

\* Mutant of Shorter: the bound is exclusive.
ShorterBelow(v, u) ==
  /\ u \in graph[v] /\ u \notin finished \cup {v}
  /\ dist_map[v] + Length(u) < dist_map[u]
  /\ dist_map[v] + Length(u) < max_dist

\* Mutant of Shorter: a way of the same length is taken, to finished nodes as well.
NotLonger(v, u) ==
  /\ u \in graph[v]
  /\ dist_map[v] + Length(u) <= dist_map[u]
  /\ dist_map[v] + Length(u) <= max_dist

\* Mutant of Shorter: there is no bound.
Unbounded(v, u) ==
  /\ u \in graph[v] /\ u \notin finished \cup {v}
  /\ dist_map[v] + Length(u) < dist_map[u]

\* The way through v to its neighbour u is shorter than the one known.
Shorter(v, u) ==
  /\ u \in graph[v] /\ u \notin finished \cup {v}
  /\ dist_map[v] + Length(u) < dist_map[u]
  /\ dist_map[v] + Length(u) <= max_dist

\* A vertex is popped and its edges are relaxed.
VisitNode ==
  /\ src # None
  /\ \E q \in Q :
       LET v    == q[2]
           near == {u \in Node : Shorter(v, u)}
       IN
       /\ IsHead(q) /\ q[1] <= max_dist
       /\ finished' = finished \cup {v}
       /\ dist_map' = [u \in Node |-> IF u \in near THEN dist_map[v] + Length(u)
                                      ELSE dist_map[u]]
       /\ Q' = (Q \ ({q} \cup {<< dist_map[u], u >> : u \in near}))
                 \cup {<< dist_map[v] + Length(u), u >> : u \in near}
  /\ UNCHANGED << branches, graph, todo, src, cfg_branches >>

\* The branches found at distance one are written.
WriteNeighbours ==
  /\ src # None
  /\ \A q \in Q : q[1] > max_dist
  /\ cfg_branches' = [cfg_branches EXCEPT ![src] = {b \in branches : dist_map[b] = 1}]
  /\ todo' = todo \ {src}
  /\ src' = None
  /\ UNCHANGED << branches, graph, dist_map, Q, finished >>

NextProcess == StartBranch \/ VisitNode \/ WriteNeighbours

-----------------------------------------------------------------------------
(***************************************************************************)
(* What is written.                                                        *)
(***************************************************************************)

\* R has a branch and, with a node, its neighbours that are not branches.
ClosedFrom(b, R) ==
  /\ b \in R
  /\ \A v \in R : graph[v] \ branches \subseteq R

\* What is reached from a branch before another branch is: the nodes without
\* which no set is closed.
Reach(b) == {v \in Node : \A R \in SUBSET (Node \ {v}) : ~ClosedFrom(b, R)}

\* The branches that follow it in the program.
Followers(b) == {c \in branches : \E v \in Reach(b) : c \in graph[v]}

Written == todo = {} /\ src = None

\* The neighbours that process_cfg writes for a branch are those that follow it
\* in the control-flow graph.  A branch that follows itself is left out.
NeighboursExact ==
  Written => \A b \in branches : cfg_branches[b] = Followers(b) \ {b}
=============================================================================
