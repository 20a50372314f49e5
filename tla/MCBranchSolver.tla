--------------------------- MODULE MCBranchSolver ---------------------------
EXTENDS BranchSolver

\* Three inputs of two values: a chain of two constraints can connect them.
MCVar == 0 .. 2
MCAssign == [MCVar -> 0 .. 1]

\* x0, x0 - x1, x1 - x2 and x2 + x2 - 1, which is never zero.
MCLinear ==
  { [a \in MCAssign |-> a[0]],
    [a \in MCAssign |-> a[0] - a[1]],
    [a \in MCAssign |-> a[1] - a[2]],
    [a \in MCAssign |-> 2 * a[2] - 1] }
=============================================================================
