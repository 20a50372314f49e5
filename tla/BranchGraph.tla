------------------------------ MODULE BranchGraph ------------------------------
(***************************************************************************)
(* Distances in a graph of branches, cfg[b] being the branches that follow *)
(* b: what UpdateBranchDistances is for.  BranchDistances has its loop,    *)
(* and CfgHeuristicSearch what it computes.                                *)
(***************************************************************************)
EXTENDS Naturals, FiniteSets, FiniteSetsExt

\* The branches that each one follows.
Reversed(cfg) == [b \in DOMAIN cfg |-> {a \in DOMAIN cfg : b \in cfg[a]}]

\* Element n has the branches from which a target is at most n steps away.
Within(cfg, targets) ==
  LET cfg_rev == Reversed(cfg)
      within[n \in 0 .. Cardinality(DOMAIN cfg)] ==
        IF n = 0 THEN targets
        ELSE targets \cup UNION {cfg_rev[b] : b \in within[n - 1]}
  IN  within

\* The steps from each branch to the nearest target, if they are fewer than
\* infinite: a target that is farther is as far as one that is not reached.
DistanceTo(cfg, targets, infinite) ==
  LET within == Within(cfg, targets) IN
  [b \in DOMAIN cfg |->
     LET near == {n \in DOMAIN within : n < infinite /\ b \in within[n]}
     IN  IF near = {} THEN infinite ELSE Min(near)]
=============================================================================
