--------------------------- MODULE MCBranchDistances ---------------------------
EXTENDS BranchDistances

MCNode == 1 .. 6

Line(nodes, calls) == [nodes |-> nodes, calls |-> calls]

\* Two conditional statements, 5 and 6, with the branches 1, 2 and 3, 4.  A
\* branch may lead to each of them, to 6 by a call of the function f, or may
\* itself be a conditional statement with 3 and 4.  Nothing is known of puts.
MCLines ==
  {[v \in MCNode |-> IF v < 5 THEN Line(after[v], calls[v]) ELSE IF v = 5 THEN Line({1, 2}, more)
                     ELSE Line({3, 4} \cup last, {})] :
     after \in {s \in [1 .. 4 -> {{}, {5}, {3, 4}}] : \A b \in 2 .. 4 : s[b] # {3, 4}},
     calls \in {s \in [1 .. 4 -> {{}, {"f"}}] : s[4] = {}},
     more \in {{"puts"}, {"f", "puts"}}, last \in {{}, {5}}}

\* Three pairs of branches, some of which are conditional statements with the
\* next pair: a branch may be three steps away from the nearest one not covered.
MCRings ==
  {[v \in MCNode |-> Line(IF v \notin on THEN {} ELSE IF v < 3 THEN {3, 4}
                          ELSE IF v < 5 THEN {5, 6} ELSE {1, 2}, {})] :
     on \in SUBSET {1, 3, 6}}

Input(bs, lines) == [branches |-> bs, cfg |-> lines, cfg_func_map |-> [f \in {"f"} |-> 6]]

MCInputs == {Input(1 .. 4, lines) : lines \in MCLines} \cup {Input(1 .. 6, lines) : lines \in MCRings}
=============================================================================
