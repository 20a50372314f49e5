------------------------------ MODULE MCRunCrest ------------------------------
EXTENDS RunCrest, SequencesExt

MCVar == 0 .. 2
MCAssign == [MCVar -> 0 .. 1]

X(v)        == [a \in MCAssign |-> a[v]]
Diff(v, w)  == [a \in MCAssign |-> a[v] - a[w]]
MCLinear    == {X(0), X(1), X(2), Diff(0, 1)}

MCBranch == 1 .. 6
MCPaired == [b \in MCBranch |-> IF b % 2 = 1 THEN b + 1 ELSE b - 1]
MCFunction == [b \in MCBranch |-> IF b < 3 THEN 1 ELSE 2]

\* A conditional statement: reached if the branch under (or 0) was taken; its
\* two branches are b and b + 1.  A path gets the constraint of its condition
\* with the inputs in symbolic; with those not in nonzero the condition is of 0.
Cond(under, b, form, op) ==
  [under |-> under, b |-> b, pred |-> [op |-> op, expr |-> form],
   symbolic |-> MCAssign, nonzero |-> MCAssign]

\* A condition that the instrumentation treats concretely.
Concrete(cond) == [cond EXCEPT !.symbolic = {}]

\* The form multiplied by the input v, which counts as a constant: with 0 the
\* product is concrete.
Times(cond, v) ==
  [cond EXCEPT !.symbolic = {a \in @ : a[v] = 1}, !.nonzero = {a \in @ : a[v] = 1}]

\* A call of an instrumented function, and its return.
Mark(id) == [under |-> 0, b |-> id]

GoesTrue(cond, a) == a \in cond.nonzero /\ Holds(cond.pred, a)

Execute(cond, path, a) ==
  IF cond.under # 0 /\ cond.under \notin Values(path.branches) THEN path
  ELSE IF cond.b < 0 THEN [path EXCEPT !.branches = Append(@, cond.b)]
  ELSE
    LET taken == [path EXCEPT !.branches =
                    Append(@, IF GoesTrue(cond, a) THEN cond.b ELSE cond.b + 1)]
    IN
    IF a \notin cond.symbolic THEN taken
    ELSE [taken EXCEPT
            !.constraints = Append(@, IF GoesTrue(cond, a) THEN cond.pred ELSE Negate(cond.pred)),
            !.constraints_idx = Append(@, Len(path.branches))]

\* The path that a sequence of statements takes with the inputs a.
PathOf(conds, a) ==
  FoldLeft(LAMBDA path, cond : Execute(cond, path, a),
           [branches |-> << -1 >>, constraints |-> << >>, constraints_idx |-> << >>,
            reads |-> 3, crashes |-> FALSE],
           conds)

Conds ==
  [nested   |-> << Cond(0, 1, X(0), "GT"), Cond(1, 3, Diff(0, 1), "EQ"),
                   Cond(0, 5, X(2), "GT") >>,
   loop     |-> << Cond(0, 1, X(0), "GT"), Cond(0, 1, X(0), "GT"),
                   Cond(0, 3, Diff(0, 1), "NEQ") >>,
   inexact  |-> << Concrete(Cond(0, 1, Diff(0, 1), "EQ")), Cond(0, 3, X(0), "GT"),
                   Cond(1, 5, X(2), "EQ") >>,
   product  |-> << Times(Cond(0, 1, X(0), "GT"), 1), Cond(0, 5, X(2), "GT"),
                   Cond(0, 3, X(1), "GT") >>,
   crashing |-> << Cond(0, 1, X(0), "GT"), Cond(0, 3, X(1), "GT") >>,
   callee   |-> << Cond(0, 1, X(0), "GT"), Cond(2, 3, X(1), "GT"),
                   Cond(2, 5, X(1), "GT") >>,
   hidden   |-> << Concrete(Cond(0, 1, Diff(0, 1), "EQ")), Cond(1, 3, X(2), "GT"),
                   Cond(2, 5, X(2), "GT"), Cond(0, 1, X(0), "GT") >>,
   lucky    |-> << Cond(0, 1, X(0), "GT"), Cond(0, 1, X(1), "GT"), Cond(0, 1, X(2), "GT"),
                   Concrete(Cond(0, 3, X(0), "LT")), Concrete(Cond(0, 5, X(2), "GT")) >>,
   calling  |-> << Cond(0, 1, X(1), "GT"), Cond(0, 1, X(0), "GT"),
                   Mark(CallId), Concrete(Cond(0, 3, X(0), "LT")), Mark(ReturnId),
                   Concrete(Cond(0, 5, X(0), "GT")) >>,
   scaled   |-> << Times(Cond(0, 1, X(0), "GT"), 1) >>,
   certain  |-> << Cond(0, 1, X(0), "GE") >>,
   redundant |-> << [Times(Cond(0, 1, X(2), "GE"), 1) EXCEPT !.nonzero = MCAssign],
                    Cond(0, 3, Diff(0, 1), "EQ"), Cond(0, 5, X(0), "GT") >>]

MCProgram == {"nested", "loop", "inexact", "product", "crashing", "certain", "callee",
              "hidden", "lucky", "calling", "scaled", "redundant"}

\* Some programs read fewer inputs than there are, and one crashes.
Reads(p) == CASE p = "certain" -> 1 [] p \in {"loop", "crashing", "callee", "calling", "scaled"} -> 2 [] OTHER -> 3

MCBehaviour ==
  [p \in MCProgram |-> [a \in MCAssign |->
     [PathOf(Conds[p], a) EXCEPT !.reads = Reads(p),
                                 !.crashes = p = "crashing" /\ a[0] = 1 /\ a[1] = 1]]]

MCStrategies ==
  {"-dfs", "-generational", "-random", "-random_input", "-uniform_random", "-hybrid",
   "-cfg_baseline", "-cfg", "-cgs", "-param"}

MCInitialInputs == {[v \in 0 .. 0 |-> 1]}
MCLeftovers == {NULL}

\* The graph of the programs above, an entry of a function being the first
\* condition in it.
MCCfg == << {2, 3, 4}, {1, 3, 4, 5, 6}, {4, 5, 6}, {3, 5, 6}, {}, {} >>
MCDominator == << {}, {}, {1}, {1}, {}, {} >>
MCFidBranches == << {1, 2}, {3, 4, 5, 6} >>

\* Weights: none, one feature, or several against the order of the path.
MCStatic == [b \in MCBranch |-> 0]
OnlyFeature(f) == [static |-> MCStatic, dynamic |-> [g \in 1 .. 28 |-> IF g = f THEN 1 ELSE 0]]
Mixed ==
  [static |-> [b \in MCBranch |-> -b], dynamic |-> [g \in 1 .. 28 |-> (g % 5) - 2]]
MCWeights == {OnlyFeature(f) : f \in {2, 8, 13, 18, 24, 28}} \cup {Mixed}
MCLimits == << 0, 1, 2 >>
MCHistories == << 1, 2, 3 >>

MCOneWeight == {Mixed}
MCFreshWeight == {OnlyFeature(6)}

\* For the runs of one strategy or program.
MCDFS == {"-dfs"}
MCUniform == {"-uniform_random"}
MCHybrid == {"-hybrid"}
MCParam == {"-param"}
MCGuided == {"-cfg", "-cgs", "-param"}
MCCrashing == {"crashing"}
MCCertain == {"certain"}
MCProduct == {"product"}
MCHidden == {"hidden"}
=============================================================================
