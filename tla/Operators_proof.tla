---------------------------- MODULE Operators_proof ----------------------------
(***************************************************************************)
(* Lemmas about operators that several components are built from: the      *)
(* negation of a predicate, least numbers, and distances in a graph.       *)
(***************************************************************************)
EXTENDS SymbolicPred, BranchGraph, FunctionTheorems, FiniteSetTheorems,
        WellFoundedInduction, TLAPS

-----------------------------------------------------------------------------
(***************************************************************************)
(* Predicates.                                                             *)
(***************************************************************************)

\* Each comparison and its negation, by cases on the enumeration.
LEMMA NegatedCompareOp ==
  ASSUME NEW op \in CompareOp, NEW x \in Int
  PROVE  /\ NegateCompareOp(op) \in CompareOp
         /\ NegateCompareOp(NegateCompareOp(op)) = op
         /\ Compare(NegateCompareOp(op), x, 0) <=> ~Compare(op, x, 0)
<1> USE DEF NegateCompareOp, CompareOp, Compare
<1>1. CASE op = "EQ"  BY <1>1
<1>2. CASE op = "NEQ" BY <1>2
<1>3. CASE op = "GT"  BY <1>3
<1>4. CASE op = "LE"  BY <1>4
<1>5. CASE op = "LT"  BY <1>5
<1>6. CASE op = "GE"  BY <1>6
<1> QED
  BY <1>1, <1>2, <1>3, <1>4, <1>5, <1>6

\* Negation is on the enumeration's pairs, so a predicate and its negation
\* exclude each other under every assignment.
LEMMA NegatedPred ==
  ASSUME NEW p \in Pred
  PROVE  /\ Negate(p) \in Pred
         /\ Negate(p).expr = p.expr
         /\ Negate(Negate(p)) = p
         /\ \A a \in Assign : Holds(Negate(p), a) <=> ~Holds(p, a)
<1>1. p.op \in CompareOp /\ p.expr \in Expr
  BY DEF Pred
<1>2. NegateCompareOp(p.op) \in CompareOp
  BY <1>1, NegatedCompareOp
<1>3. Negate(p) = [op |-> NegateCompareOp(p.op), expr |-> p.expr]
  BY DEF Negate, Pred
<1>4. \A x \in Int : Compare(NegateCompareOp(p.op), x, 0) <=> ~Compare(p.op, x, 0)
  BY <1>1, NegatedCompareOp
<1>5. \A a \in Assign : p.expr[a] \in Int
  BY <1>1 DEF Expr
<1>6. Negate(p) \in Pred
  BY <1>1, <1>2, <1>3 DEF Pred
<1>7. \A a \in Assign : Holds(Negate(p), a) <=> ~Holds(p, a)
  <2> TAKE a \in Assign
  <2>1. Negate(p).op = NegateCompareOp(p.op) /\ Negate(p).expr = p.expr
    BY <1>3
  <2>2. Holds(Negate(p), a) <=> Compare(NegateCompareOp(p.op), p.expr[a], 0)
    BY <2>1, Zenon DEF Holds
  <2> QED
    BY <2>2, <1>4, <1>5, Zenon DEF Holds
<1>8. Negate(Negate(p)) = [op |-> NegateCompareOp(NegateCompareOp(p.op)), expr |-> p.expr]
  <2>1. \A o \in CompareOp : \A e \in Expr :
          Negate([op |-> o, expr |-> e]) = [op |-> NegateCompareOp(o), expr |-> e]
    BY DEF Negate
  <2> QED
    BY <2>1, <1>1, <1>2, <1>3
<1>9. Negate(Negate(p)) = p
  <2>1. NegateCompareOp(NegateCompareOp(p.op)) = p.op
    BY <1>1, NegatedCompareOp
  <2> QED
    BY <1>8, <2>1 DEF Pred
<1> QED
  BY <1>3, <1>6, <1>7, <1>9
-----------------------------------------------------------------------------
(***************************************************************************)
(* Least numbers.                                                          *)
(***************************************************************************)

\* A set of natural numbers has a least element.
LEMMA Least ==
  ASSUME NEW S, S \subseteq Nat, S # {}
  PROVE  \E m \in S : \A k \in S : m <= k
<1> DEFINE R == OpToRel(<, Nat)
<1>1. IsWellFoundedOn(R, Nat)
  BY NatLessThanWellFounded
<1>2. \A x, y \in Nat : x < y => << x, y >> \in R
  BY DEF OpToRel
<1> HIDE DEF R
<1>3. PICK m \in S : \A k \in S : << k, m >> \notin R
  BY <1>1, WFMin
<1>4. ASSUME NEW k \in S  PROVE m <= k
  <2>1. m \in Nat /\ k \in Nat
    OBVIOUS
  <2>2. ~(k < m)
    BY <1>2, <1>3, <2>1
  <2> QED  BY <2>1, <2>2
<1> QED  BY <1>4

\* A number n that is the least element of a set of numbers is its minimum.
LEMMA MinIs ==
  ASSUME NEW S, S \subseteq Nat, NEW n \in S, \A m \in S : n <= m
  PROVE  Min(S) = n
<1>1. \A x \in S : (\A y \in S : x <= y) => x = n
  OBVIOUS
<1> QED  BY <1>1 DEF Min
-----------------------------------------------------------------------------
(***************************************************************************)
(* Distances in a graph.                                                   *)
(***************************************************************************)

\* One more step back from the branches in S.
StepBack(cfg, targets, S) == targets \cup UNION {Reversed(cfg)[b] : b \in S}

\* What is so of a number and stays so from each to the next is so from there on.
LEMMA Steps ==
  ASSUME NEW a \in Int, NEW b \in Int, NEW S, a \in S,
         \A n \in a .. b - 1 : n \in S => n + 1 \in S
  PROVE  a .. b \subseteq S
<1> DEFINE Bad == {k \in Nat : a + k \in a .. b /\ a + k \notin S}
<1>1. Bad = {}
  <2> SUFFICES ASSUME Bad # {}  PROVE FALSE
    OBVIOUS
  <2>1. PICK k \in Bad : \A j \in Bad : k <= j
    <3> HIDE DEF Bad
    <3>1. Bad \subseteq Nat
      BY DEF Bad
    <3> QED  BY <3>1, Least
  <2>2. k \in Nat /\ a + k \in a .. b /\ a + k \notin S
    OBVIOUS
  <2>3. k # 0
    BY <2>2
  <2>4. k - 1 \in Nat /\ ~(k <= k - 1) /\ a + (k - 1) \in a .. b - 1 /\ a + (k - 1) + 1 = a + k
    BY <2>2, <2>3
  <2>5. k - 1 \notin Bad
    <3> HIDE DEF Bad
    <3> QED  BY <2>1, <2>4
  <2>6. a + (k - 1) \in S
    BY <2>4, <2>5
  <2> QED  BY <2>2, <2>4, <2>6
<1>2. ASSUME NEW n \in a .. b  PROVE n \in S
  <2>1. n - a \in Nat /\ a + (n - a) = n
    OBVIOUS
  <2>2. n - a \notin Bad
    BY <1>1
  <2> QED  BY <2>1, <2>2
<1> QED  BY <1>2

\* Each g[n] is a step from an element of S to another.
StepsIn(g, a, b, S) == \A n \in a + 1 .. b : \A s \in S : g[n][s] \in S

\* The values that the steps of g come to from x.
Iterates(f, g, a, b, x, S) ==
  f \in [a .. b -> S] /\ f[a] = x /\ \A n \in a + 1 .. b : f[n] = g[n][f[n - 1]]

\* A recursion over an interval defines a function.
LEMMA Recursion ==
  ASSUME NEW S, NEW a \in Int, NEW b \in Int, a <= b, NEW x \in S, NEW g, StepsIn(g, a, b, S)
  PROVE  \E f : Iterates(f, g, a, b, x, S)
<1> USE DEF StepsIn, Iterates
<1> DEFINE Upto(m, f) == /\ f \in [a .. m -> S] /\ f[a] = x
                         /\ \A n \in a + 1 .. m : f[n] = g[n][f[n - 1]]
           Good == {m \in Int : \E f : Upto(m, f)}
<1>1. a \in Good
  <2> DEFINE f == [n \in a .. a |-> x]
  <2>1. Upto(a, f)
    <3>1. f \in [a .. a -> S] /\ f[a] = x /\ a + 1 .. a = {}
      OBVIOUS
    <3> HIDE DEF f
    <3> QED  BY <3>1
  <2> QED  BY <2>1
<1>2. ASSUME NEW m \in a .. b - 1, m \in Good  PROVE m + 1 \in Good
  <2>1. PICK f : Upto(m, f)
    BY <1>2
  <2> DEFINE h == [n \in a .. m + 1 |-> IF n <= m THEN f[n] ELSE g[n][f[n - 1]]]
  <2>2. f[m] \in S /\ m + 1 \in a + 1 .. b /\ m \in Int
    BY <2>1
  <2>3. g[m + 1][f[m]] \in S
    BY <2>2
  <2>4. ASSUME NEW n \in a .. m  PROVE n \in a .. m + 1 /\ h[n] = f[n] /\ f[n] \in S
    BY <2>1, <2>2
  <2>5. h[m + 1] = g[m + 1][f[m]]
    <3>1. m + 1 \in a .. m + 1 /\ ~(m + 1 <= m) /\ (m + 1) - 1 = m
      BY <2>2
    <3> QED  BY <3>1
  <2>6. ASSUME NEW n \in a .. m + 1  PROVE n \in a .. m \/ n = m + 1
    BY <2>2
  <2>7. DOMAIN h = a .. m + 1
    OBVIOUS
  <2>8. h = [n \in a .. m + 1 |-> h[n]]
    OBVIOUS
  <2> HIDE DEF h
  <2>9. h \in [a .. m + 1 -> S]
    <3>1. \A n \in a .. m + 1 : h[n] \in S
      BY <2>3, <2>4, <2>5, <2>6
    <3> QED  BY <2>8, <3>1
  <2>10. ASSUME NEW n \in a + 1 .. m + 1  PROVE h[n] = g[n][h[n - 1]]
    <3>1. n - 1 \in a .. m /\ (n \in a + 1 .. m \/ n = m + 1) /\ n \in a .. m + 1
      BY <2>2
    <3>2. h[n - 1] = f[n - 1]
      BY <2>4, <3>1
    <3>3. CASE n = m + 1
      BY <2>2, <2>5, <3>2, <3>3
    <3>4. CASE n \in a + 1 .. m
      <4>1. n \in a .. m
        BY <3>4
      <4> QED  BY <2>1, <2>4, <3>2, <3>4, <4>1
    <3> QED  BY <3>1, <3>3, <3>4
  <2>11. a \in a .. m /\ h[a] = x
    <3>1. a \in a .. m
      OBVIOUS
    <3> QED  BY <2>1, <2>4, <3>1
  <2> QED  BY <2>2, <2>9, <2>10, <2>11
<1>3. a .. b \subseteq Good
  <2> HIDE DEF Good
  <2> QED  BY <1>1, <1>2, Steps
<1>4. b \in Good
  BY <1>3
<1> QED  BY <1>4

\* The definition of Within is met by a function.
LEMMA WithinSteps ==
  ASSUME NEW cfg, NEW targets, Cardinality(DOMAIN cfg) \in Nat
  PROVE  /\ DOMAIN Within(cfg, targets) = 0 .. Cardinality(DOMAIN cfg)
         /\ Within(cfg, targets)[0] = targets
         /\ \A n \in 1 .. Cardinality(DOMAIN cfg) :
              Within(cfg, targets)[n] = StepBack(cfg, targets, Within(cfg, targets)[n - 1])
<1> DEFINE N == Cardinality(DOMAIN cfg)
           Step(g, n) == IF n = 0 THEN targets
                         ELSE targets \cup UNION {Reversed(cfg)[b] : b \in g[n - 1]}
           Upto(m, g) == g = [n \in 0 .. m |-> Step(g, n)]
           Bad == {m \in Nat : ~ \E g : Upto(m, g)}
<1>1. \E g : Upto(0, g)
  <2> DEFINE g == [n \in 0 .. 0 |-> targets]
  <2>1. g = [n \in 0 .. 0 |-> Step(g, n)]
    OBVIOUS
  <2> QED  BY <2>1
<1>2. ASSUME NEW m \in Nat, NEW g, Upto(m, g)  PROVE \E h : Upto(m + 1, h)
  <2> DEFINE h == [n \in 0 .. m + 1 |-> IF n <= m THEN g[n] ELSE Step(g, n)]
  <2>1. ASSUME NEW n \in 0 .. m + 1  PROVE h[n] = Step(h, n)
    <3>1. n # 0 => n - 1 \in 0 .. m /\ h[n - 1] = g[n - 1]
      OBVIOUS
    <3>2. Step(h, n) = Step(g, n)
      BY <3>1
    <3>3. n <= m => g[n] = Step(g, n)
      <4> HIDE DEF Step
      <4>1. g = [k \in 0 .. m |-> Step(g, k)]
        BY <1>2
      <4>2. n <= m => n \in 0 .. m
        OBVIOUS
      <4> QED  BY <4>1, <4>2
    <3> QED  BY <3>2, <3>3
  <2>2. h = [n \in 0 .. m + 1 |-> Step(h, n)]
    <3> HIDE DEF Step
    <3>1. h = [n \in 0 .. m + 1 |-> h[n]]
      OBVIOUS
    <3> HIDE DEF h
    <3> QED  BY <2>1, <3>1
  <2> QED  BY <2>2
<1>3. \E g : Upto(N, g)
  <2> SUFFICES ASSUME Bad # {}  PROVE FALSE
    OBVIOUS
  <2>1. PICK m \in Bad : \A k \in Bad : m <= k
    <3> HIDE DEF Bad
    <3>1. Bad \subseteq Nat
      BY DEF Bad
    <3> QED  BY <3>1, Least
  <2>2. m # 0
    BY <1>1
  <2>3. m - 1 \in Nat /\ m - 1 \notin Bad
    <3>1. m \in Nat
      OBVIOUS
    <3> HIDE DEF Bad
    <3>2. m - 1 \in Nat /\ ~(m <= m - 1)
      BY <3>1, <2>2
    <3> QED  BY <2>1, <3>2
  <2>4. PICK g : Upto(m - 1, g)
    BY <2>3
  <2>5. m - 1 + 1 = m
    OBVIOUS
  <2> HIDE DEF Upto
  <2>6. \E h : Upto(m, h)
    BY <2>3, <2>4, <2>5, <1>2
  <2> QED  BY <2>6
<1>4. Within(cfg, targets) = CHOOSE g : Upto(N, g)
  BY DEF Within
<1>5. Upto(N, Within(cfg, targets))
  BY <1>3, <1>4
<1> QED  BY <1>5 DEF StepBack

\* Distances are numbers or infinite, and only a target is at distance zero.
LEMMA DistanceIs ==
  ASSUME NEW cfg, NEW targets, NEW infinite \in Nat \ {0}, Cardinality(DOMAIN cfg) \in Nat,
         NEW b \in DOMAIN cfg
  PROVE  /\ DistanceTo(cfg, targets, infinite)[b] \in Nat
         /\ DistanceTo(cfg, targets, infinite)[b] = 0 => b \in targets
<1> DEFINE W == Within(cfg, targets)
           near == {n \in DOMAIN W : n < infinite /\ b \in W[n]}
<1>1. DOMAIN W = 0 .. Cardinality(DOMAIN cfg) /\ W[0] = targets
  BY WithinSteps
<1>2. DistanceTo(cfg, targets, infinite)[b] = IF near = {} THEN infinite ELSE Min(near)
  BY DEF DistanceTo
<1>3. CASE near = {}
  BY <1>2, <1>3
<1>4. CASE near # {}
  <2>1. near \subseteq Nat
    BY <1>1
  <2>2. \A n \in near : b \in W[n]
    OBVIOUS
  <2> HIDE DEF near, W
  <2>3. PICK m \in near : \A k \in near : m <= k
    BY <1>4, <2>1, Least
  <2>4. Min(near) = m
    BY <2>1, <2>3, MinIs
  <2> QED  BY <1>1, <1>2, <1>4, <2>1, <2>2, <2>3, <2>4
<1> QED  BY <1>3, <1>4

\* What certifies distances: those of the targets are zero, none is more than
\* one above that of a branch that follows, and if finite it is one above one.
Certified(cfg, targets, infinite, d) ==
  /\ d \in [DOMAIN cfg -> 0 .. infinite]
  /\ \A b \in DOMAIN cfg : b \in targets <=> d[b] = 0
  /\ \A b, c \in DOMAIN cfg : c \in cfg[b] => d[b] <= d[c] + 1
  /\ \A b \in DOMAIN cfg : b \notin targets /\ d[b] # infinite =>
       \E c \in DOMAIN cfg : c \in cfg[b] /\ d[b] = d[c] + 1

\* A finite distance is less than the number of branches: every number up to it
\* is the distance of a branch.
LEMMA FiniteDistances ==
  ASSUME NEW cfg, NEW targets, NEW infinite \in Nat, NEW d,
         Certified(cfg, targets, infinite, d),
         IsFiniteSet(DOMAIN cfg), NEW b \in DOMAIN cfg, d[b] # infinite
  PROVE  d[b] < Cardinality(DOMAIN cfg)
<1> DEFINE D == DOMAIN cfg
           Image == {d[c] : c \in D}
           Bad == {n \in Nat : \E c \in D : d[c] = n /\ n # infinite /\ ~(0 .. n \subseteq Image)}
<1>1. \A c \in D : d[c] \in 0 .. infinite
  BY DEF Certified
<1>2. Bad = {}
  <2> SUFFICES ASSUME Bad # {}  PROVE FALSE
    OBVIOUS
  <2>1. Bad \subseteq Nat
    OBVIOUS
  <2>2. PICK n \in Bad : \A k \in Bad : n <= k
    <3> HIDE DEF Bad
    <3> QED  BY <2>1, Least
  <2>3. PICK c \in D : d[c] = n /\ n # infinite /\ ~(0 .. n \subseteq Image)
    OBVIOUS
  <2>4. n # 0
    <3> SUFFICES ASSUME n = 0  PROVE FALSE
      OBVIOUS
    <3>1. 0 .. n \subseteq {0} /\ 0 \in Image
      BY <2>3
    <3> QED  BY <3>1, <2>3
  <2>5. PICK e \in D : d[c] = d[e] + 1
    BY <2>3, <2>4 DEF Certified
  <2>6. n \in Nat /\ d[e] \in Nat /\ d[e] = n - 1 /\ d[e] # infinite
    BY <1>1, <2>1, <2>3, <2>5
  <2>7. n - 1 \notin Bad
    <3> HIDE DEF Bad
    <3>1. ~(n <= n - 1)
      BY <2>6
    <3> QED  BY <2>2, <3>1
  <2>8. 0 .. n - 1 \subseteq Image
    BY <2>6, <2>7
  <2>9. n \in Image
    BY <2>3
  <2>10. 0 .. n \subseteq 0 .. (n - 1) \cup {n}
    BY <2>6
  <2> QED  BY <2>3, <2>8, <2>9, <2>10
<1>3. d[b] \in Nat /\ 0 .. d[b] \subseteq Image
  <2>1. d[b] \in Nat
    BY <1>1
  <2> QED  BY <1>2, <2>1
<1>4. IsFiniteSet(Image) /\ Cardinality(Image) <= Cardinality(D)
  <2> DEFINE f == [c \in D |-> d[c]]
  <2>1. f \in Surjection(D, Image)
    BY Fun_IsSurj
  <2> HIDE DEF f, Image
  <2> QED  BY <2>1, FS_Surjection
<1>5. /\ IsFiniteSet(0 .. d[b]) /\ Cardinality(0 .. d[b]) = d[b] + 1
      /\ Cardinality(0 .. d[b]) <= Cardinality(Image)
  <2> HIDE DEF Image
  <2>1. IsFiniteSet(0 .. d[b]) /\ Cardinality(0 .. d[b]) = d[b] + 1
    <3>1. ASSUME NEW n \in Nat  PROVE IsFiniteSet(0 .. n) /\ Cardinality(0 .. n) = n + 1
      BY FS_Interval
    <3> QED  BY <1>3, <3>1
  <2> QED  BY <1>3, <1>4, <2>1, FS_Subset
<1>6. Cardinality(D) \in Nat /\ Cardinality(Image) \in Nat
  <2> HIDE DEF Image
  <2> QED  BY <1>4, FS_CardinalityType
<1> HIDE DEF Image
<1> QED  BY <1>3, <1>4, <1>5, <1>6

\* Only the distances that DistanceTo defines are certified.
LEMMA CertifiedAreDistances ==
  ASSUME NEW cfg, NEW targets, NEW infinite \in Nat \ {0}, NEW d,
         targets \subseteq DOMAIN cfg, IsFiniteSet(DOMAIN cfg), Certified(cfg, targets, infinite, d)
  PROVE  d = DistanceTo(cfg, targets, infinite)
<1> DEFINE D == DOMAIN cfg
           N == Cardinality(D)
           W == Within(cfg, targets)
<1>1. N \in Nat
  BY FS_CardinalityType
<1>2. /\ DOMAIN W = 0 .. N /\ W[0] = targets
      /\ \A n \in 1 .. N : W[n] = StepBack(cfg, targets, W[n - 1])
  BY <1>1, WithinSteps
<1> HIDE DEF W
<1>3. \A b \in D : d[b] \in Nat
  BY DEF Certified
<1>4. \A n \in 0 .. N : n < infinite => W[n] = {b \in D : d[b] <= n}
  <2> DEFINE Bad == {n \in 0 .. N : n < infinite /\ W[n] # {b \in D : d[b] <= n}}
  <2> SUFFICES ASSUME Bad # {}  PROVE FALSE
    OBVIOUS
  <2>1. Bad \subseteq Nat
    OBVIOUS
  <2>2. PICK n \in Bad : \A k \in Bad : n <= k
    <3> HIDE DEF Bad
    <3> QED  BY <2>1, Least
  <2>3. n \in 0 .. N /\ n < infinite /\ W[n] # {b \in D : d[b] <= n}
    OBVIOUS
  <2>4. n # 0
    <3>1. \A b \in D : b \in W[0] <=> d[b] = 0
      BY <1>2 DEF Certified
    <3>2. W[0] \subseteq D
      BY <1>2
    <3>3. W[0] = {b \in D : d[b] <= 0}
      BY <1>3, <3>1, <3>2
    <3> QED  BY <2>3, <3>3
  <2>5. n \in 1 .. N /\ n - 1 \in 0 .. N /\ W[n - 1] = {b \in D : d[b] <= n - 1}
    <3>1. n \in 1 .. N /\ n - 1 \in 0 .. N /\ ~(n <= n - 1) /\ n - 1 < infinite
      BY <1>1, <2>3, <2>4
    <3>2. n - 1 \notin Bad
      <4> HIDE DEF Bad
      <4> QED  BY <2>2, <3>1
    <3> QED  BY <3>1, <3>2
  <2> HIDE DEF Bad
  <2>6. W[n] = targets \cup UNION {Reversed(cfg)[c] : c \in W[n - 1]}
    BY <1>2, <2>5 DEF StepBack
  <2>7. W[n - 1] \subseteq D
    BY <2>5
  <2>8. \A b : b \in W[n] <=> b \in targets \/ (b \in D /\ \E c \in W[n - 1] : c \in cfg[b])
    <3>1. \A c \in D : Reversed(cfg)[c] = {b \in D : c \in cfg[b]}
      BY DEF Reversed
    <3> HIDE DEF D
    <3> QED  BY <2>6, <2>7, <3>1
  <2>9. ASSUME NEW b \in D, b \in W[n]  PROVE d[b] <= n
    <3>1. CASE b \in targets
      BY <3>1, <2>5 DEF Certified
    <3>2. ASSUME NEW c \in W[n - 1], c \in cfg[b]  PROVE d[b] <= n
      <4>1. c \in D /\ d[c] <= n - 1
        BY <2>5
      <4>2. d[b] <= d[c] + 1
        BY <3>2, <4>1 DEF Certified
      <4> QED  BY <1>3, <2>5, <4>1, <4>2
    <3> QED  BY <2>8, <2>9, <3>1, <3>2
  <2>10. ASSUME NEW b \in D, d[b] <= n  PROVE b \in W[n]
    <3>1. CASE b \in targets
      BY <2>8, <3>1
    <3>2. CASE b \notin targets
      <4>1. d[b] # infinite
        BY <1>1, <1>3, <2>3, <2>5, <2>10
      <4>2. PICK c \in D : c \in cfg[b] /\ d[b] = d[c] + 1
        BY <3>2, <4>1 DEF Certified
      <4>3. d[c] <= n - 1
        BY <1>3, <2>5, <2>10, <4>2
      <4> QED  BY <2>5, <2>8, <4>2, <4>3
    <3> QED  BY <3>1, <3>2
  <2>11. W[n] \subseteq D
    BY <2>8
  <2> QED  BY <2>3, <2>9, <2>10, <2>11
<1>5. ASSUME NEW b \in D  PROVE d[b] = DistanceTo(cfg, targets, infinite)[b]
  <2> DEFINE near == {n \in DOMAIN W : n < infinite /\ b \in W[n]}
  <2>1. DistanceTo(cfg, targets, infinite)[b] = IF near = {} THEN infinite ELSE Min(near)
    BY DEF DistanceTo, W
  <2>2. near = {n \in 0 .. N : n < infinite /\ d[b] <= n}
    BY <1>2, <1>4
  <2>3. d[b] \in 0 .. infinite
    BY DEF Certified
  <2> HIDE DEF near
  <2>4. CASE d[b] = infinite
    <3>1. near = {}
      BY <1>1, <2>2, <2>4
    <3> QED  BY <2>1, <2>4, <3>1
  <2>5. CASE d[b] # infinite
    <3>1. d[b] < N
      BY <2>5, FiniteDistances
    <3>2. near \subseteq Nat /\ d[b] \in near /\ \A m \in near : d[b] <= m
      <4>1. d[b] \in 0 .. N /\ d[b] < infinite
        BY <1>1, <2>3, <2>5, <3>1
      <4>2. near \subseteq Nat
        BY <1>1, <2>2
      <4>3. d[b] \in near
        BY <2>2, <4>1
      <4>4. \A m \in near : d[b] <= m
        BY <2>2
      <4> QED  BY <4>2, <4>3, <4>4
    <3>3. Min(near) = d[b]
      BY <3>2, MinIs
    <3> QED  BY <2>1, <3>2, <3>3
  <2> QED  BY <2>4, <2>5
<1>6. d \in [D -> 0 .. infinite]
  BY DEF Certified
<1>7. DistanceTo(cfg, targets, infinite) = [b \in D |-> DistanceTo(cfg, targets, infinite)[b]]
  BY DEF DistanceTo
<1> QED  BY <1>5, <1>6, <1>7
=============================================================================
