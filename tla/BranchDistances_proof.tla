------------------------- MODULE BranchDistances_proof -------------------------
(***************************************************************************)
(* Proofs about the distances of branches, for every control-flow graph:   *)
(* Dijkstra's algorithm, cut off at distance one, finds the branches that  *)
(* follow each one, and the search backward from the branches that are not *)
(* covered leaves distances that account for each other.                   *)
(***************************************************************************)
EXTENDS BranchDistances, Operators_proof

ProcessTypes ==
  /\ branches \subseteq Node /\ IsFiniteSet(branches)
  /\ graph \in [Node -> SUBSET Node]
  /\ todo \subseteq branches /\ src \in todo \cup {None}
  /\ dist_map \in [Node -> {0, 1, SizeMax}]
  /\ Q \subseteq {0, 1} \X Node /\ finished \subseteq Node
  /\ cfg_branches \in [branches -> SUBSET branches]

\* What is at distance zero is reached before another branch, and a branch at
\* distance one follows something that is.
Sound ==
  src # None =>
    /\ dist_map[src] = 0
    /\ \A v \in Node : dist_map[v] = 0 => v \in Reach(src) /\ (v = src \/ v \notin branches)
    /\ \A b \in branches : dist_map[b] = 1 =>
         \E w \in Node : dist_map[w] = 0 /\ b \in graph[w]

\* The queue has what has been found and is not finished, which is no nearer
\* than what is finished; the edges of that have been relaxed.
Relaxed ==
  src # None =>
    /\ \A v \in Node, d \in {0, 1} :
         << d, v >> \in Q <=> dist_map[v] = d /\ v \notin finished
    /\ \A v \in finished : dist_map[v] \in {0, 1}
    /\ \A v \in finished : \A q \in Q : dist_map[v] <= q[1]
    /\ \A v \in finished : \A u \in graph[v] :
         dist_map[v] + Length(u) <= 1 => dist_map[u] <= dist_map[v] + Length(u)

Exact == \A b \in branches \ todo : cfg_branches[b] = Followers(b) \ {b}

ProcessInv == ProcessTypes /\ Sound /\ Relaxed /\ Exact

SearchTypes ==
  /\ kInfiniteDistance > 0
  /\ covered \subseteq branches
  /\ dist_ \in [branches -> 0 .. kInfiniteDistance]
  /\ queue \in Seq(branches)
  /\ returned \in BOOLEAN

Queued(c) == \E n \in DOMAIN queue : queue[n] = c

\* Distances are accounted for from the first call on, but for what the
\* branches in the queue change.
Accounted ==
  queue # << >> \/ returned =>
    /\ Written
    /\ returned <=> queue = << >>
    /\ \A b \in branches :
         /\ b \notin covered <=> dist_[b] = 0
         /\ \A c \in cfg_branches[b] : Queued(c) \/ dist_[b] <= dist_[c] + 1
         /\ b \in covered /\ dist_[b] # kInfiniteDistance =>
              \E c \in cfg_branches[b] : dist_[b] = dist_[c] + 1

\* The queue is in the order of the distances, and nothing that was reached is
\* farther than the branches that follow its head: no distance is lowered twice.
Wave ==
  queue # << >> =>
    /\ \A m, n \in DOMAIN queue : m < n => dist_[queue[m]] <= dist_[queue[n]]
    /\ \A n \in DOMAIN queue : dist_[queue[n]] < kInfiniteDistance
    /\ \A b \in branches :
         dist_[b] = kInfiniteDistance \/ dist_[b] <= dist_[queue[1]] + 1

SearchInv == SearchTypes /\ Accounted /\ Wave

-----------------------------------------------------------------------------
LEMMA ReachItself == ASSUME ProcessTypes, NEW b \in branches PROVE b \in Reach(b)
BY DEF ProcessTypes, Reach, ClosedFrom

LEMMA ReachNext ==
  ASSUME ProcessTypes, NEW b \in branches, NEW v \in Reach(b), NEW u \in graph[v] \ branches
  PROVE  u \in Reach(b)
<1>1. v \in Node /\ u \in Node
  BY DEF Reach, ProcessTypes
<1>2. ASSUME NEW R \in SUBSET (Node \ {u}), ClosedFrom(b, R) PROVE FALSE
  <2>1. v \notin R
    BY <1>2 DEF ClosedFrom
  <2>2. R \in SUBSET (Node \ {v})
    BY <2>1
  <2> QED
    BY <1>2, <2>2 DEF Reach
<1> QED
  BY <1>1, <1>2 DEF Reach

\* What is closed has all that is reached.
LEMMA ReachWithin ==
  ASSUME NEW b, NEW R \in SUBSET Node, ClosedFrom(b, R)
  PROVE  Reach(b) \subseteq R
BY DEF Reach

LEMMA Numbers ==
  /\ SizeMax \in Nat /\ SizeMax > 1 /\ None \notin Node
  /\ kInfiniteDistance \in Nat
  /\ \A u \in Node : Length(u) \in {0, 1}
BY ProcessAssumption, DistancesAssumption DEF ProcessAssumption, DistancesAssumption, Length

-----------------------------------------------------------------------------
LEMMA InitProcessKeeps == InitProcess => ProcessInv
<1> SUFFICES ASSUME InitProcess PROVE ProcessInv
  OBVIOUS
<1>1. PICK in \in Inputs : branches = in.branches /\ graph = readCfg(in)
  BY DEF InitProcess
<1>2. branches \subseteq Node /\ IsFiniteSet(branches)
  BY <1>1, ProcessAssumption DEF ProcessAssumption
<1>3. graph \in [Node -> SUBSET Node]
  <2>1. \A v \in Node : in.cfg[v].nodes \subseteq Node
    BY ProcessAssumption DEF ProcessAssumption
  <2>2. \A f \in DOMAIN in.cfg_func_map : in.cfg_func_map[f] \in Node
    BY ProcessAssumption DEF ProcessAssumption
  <2> QED
    BY <1>1, <2>1, <2>2 DEF readCfg
<1>4. ProcessTypes
  BY <1>2, <1>3, Numbers DEF ProcessTypes, InitProcess
<1> QED
  BY <1>4 DEF ProcessInv, Sound, Relaxed, Exact, InitProcess

LEMMA StartBranchKeeps == ProcessInv /\ StartBranch => ProcessInv'
<1> SUFFICES ASSUME ProcessInv, StartBranch PROVE ProcessInv'
  OBVIOUS
<1> USE DEF ProcessInv, StartBranch
<1>1. src' \in todo /\ src' \in branches /\ src' \in Node
  BY DEF ProcessTypes
<1>2. ProcessTypes'
  BY <1>1, Numbers DEF ProcessTypes
<1>3. Reach(src)' = Reach(src')
  BY DEF Reach, ClosedFrom
<1>4. Sound'
  <2>1. src' \in Reach(src')
    BY <1>1, ReachItself
  <2>2. \A v \in Node : v # src' => dist_map'[v] = SizeMax
    OBVIOUS
  <2>3. dist_map'[src'] = 0
    BY <1>1
  <2> QED
    BY <1>1, <1>3, <2>1, <2>2, <2>3, Numbers DEF Sound, ProcessTypes
<1>5. Relaxed'
  BY <1>1, Numbers DEF Relaxed
<1>6. Exact'
  BY DEF Exact, Followers, Reach, ClosedFrom
<1> QED
  BY <1>2, <1>4, <1>5, <1>6

\* The vertex is nearer than all in the queue, and so are its neighbours that
\* are finished.
LEMMA VisitNodeKeeps == ProcessInv /\ VisitNode => ProcessInv'
<1> SUFFICES ASSUME ProcessInv, VisitNode PROVE ProcessInv'
  OBVIOUS
<1> USE DEF ProcessInv
<1>1. src # None /\ UNCHANGED << branches, graph, todo, src, cfg_branches >>
  BY DEF VisitNode
<1> DEFINE near(v) == {u \in Node : Shorter(v, u)}
           known(v) == {<< dist_map[u], u >> : u \in near(v)}
           found(v) == {<< dist_map[v] + Length(u), u >> : u \in near(v)}
<1>2. PICK q \in Q :
        /\ IsHead(q)
        /\ finished' = finished \cup {q[2]}
        /\ dist_map' = [u \in Node |-> IF u \in near(q[2]) THEN dist_map[q[2]] + Length(u)
                                       ELSE dist_map[u]]
        /\ Q' = (Q \ ({q} \cup known(q[2]))) \cup found(q[2])
  BY DEF VisitNode
<1>3. PICK d \in {0, 1}, v \in Node : q = << d, v >>
  BY DEF ProcessTypes
<1>4. dist_map[v] = d /\ v \notin finished
  BY <1>1, <1>3 DEF Relaxed
<1>5. \A u \in Node : u \in near(v) <=>
        /\ u \in graph[v] /\ u \notin finished \cup {v}
        /\ d + Length(u) < dist_map[u] /\ d + Length(u) <= 1
  BY <1>4 DEF Shorter, max_dist
<1>6. \A u \in Node : dist_map'[u] = IF u \in near(v) THEN d + Length(u) ELSE dist_map[u]
  BY <1>2, <1>3, <1>4
<1>7. \A u \in Node : u \in near(v) => d + Length(u) \in {0, 1}
  BY <1>5, Numbers
<1>8. \A u \in Node : dist_map[u] \in {0, 1, SizeMax} /\ dist_map'[u] <= dist_map[u]
  BY <1>5, <1>6, <1>7, Numbers DEF ProcessTypes
<1>9. \A p \in Q : d <= p[1]
  BY <1>2, <1>3, Numbers DEF IsHead, ProcessTypes
<1>10. finished' = finished \cup {v}
  BY <1>2, <1>3
<1>11. \A u \in Node, e \in {0, 1} :
         << e, u >> \in Q' <=> dist_map'[u] = e /\ u \notin finished'
  <2> SUFFICES ASSUME NEW u \in Node, NEW e \in {0, 1}
               PROVE  << e, u >> \in Q' <=> dist_map'[u] = e /\ u \notin finished'
    OBVIOUS
  <2>1. << e, u >> \in Q <=> dist_map[u] = e /\ u \notin finished
    BY <1>1 DEF Relaxed
  <2>2. << e, u >> \in known(v) <=> u \in near(v) /\ dist_map[u] = e
    OBVIOUS
  <2>3. << e, u >> \in found(v) <=> u \in near(v) /\ d + Length(u) = e
    BY <1>4
  <2>4. << e, u >> = q <=> e = d /\ u = v
    BY <1>3
  <2>5. << e, u >> \in Q' <=>
          \/ << e, u >> \in Q /\ << e, u >> # q /\ << e, u >> \notin known(v)
          \/ << e, u >> \in found(v)
    BY <1>2, <1>3
  <2> HIDE DEF near, known, found
  <2> QED
    BY <1>4, <1>5, <1>6, <1>10, <2>1, <2>2, <2>3, <2>4, <2>5
<1>12. ProcessTypes'
  <2>1. dist_map' \in [Node -> {0, 1, SizeMax}]
    BY <1>2, <1>6, <1>7, <1>8
  <2>2. Q' \subseteq {0, 1} \X Node
    <3>1. found(v) \subseteq {0, 1} \X Node
      BY <1>4, <1>7
    <3> QED
      BY <1>2, <1>3, <3>1 DEF ProcessTypes
  <2> QED
    BY <1>1, <1>10, <2>1, <2>2 DEF ProcessTypes
<1> HIDE DEF near, known, found
<1>13. Sound'
  <2>1. src \in branches /\ src' = src /\ branches' = branches /\ graph' = graph
    BY <1>1 DEF ProcessTypes
  <2>2. \A b : Reach(b)' = Reach(b)
    BY <2>1 DEF Reach, ClosedFrom
  <2>3. \A u \in Node : dist_map[u] = 0 => dist_map'[u] = 0
    BY <1>5, <1>6, Numbers
  <2>4. ASSUME NEW u \in Node, u \in near(v)
        PROVE  /\ u \in branches => dist_map'[u] = 1 /\ dist_map[v] = 0 /\ u \in graph[v]
               /\ dist_map'[u] = 0 => u \in Reach(src) /\ u \notin branches
    <3>1. CASE u \in branches
      BY <1>4, <1>5, <1>6, <2>4, <3>1 DEF Length
    <3>2. CASE u \notin branches
      <4>1. dist_map'[u] = d
        BY <1>6, <2>4, <3>2 DEF Length
      <4>2. CASE d = 0
        <5>1. v \in Reach(src)
          BY <1>1, <1>4, <4>2 DEF Sound
        <5> QED
          BY <1>5, <2>1, <2>4, <3>2, <5>1, ReachNext
      <4> QED
        BY <3>2, <4>1, <4>2
    <3> QED
      BY <3>1, <3>2
  <2>5. \A u \in Node : u \notin near(v) => dist_map'[u] = dist_map[u]
    BY <1>6
  <2>6. dist_map'[src] = 0
    BY <1>1, <2>1, <2>3 DEF Sound, ProcessTypes
  <2>7. \A u \in Node : dist_map'[u] = 0 => u \in Reach(src) /\ (u = src \/ u \notin branches)
    BY <1>1, <2>4, <2>5 DEF Sound
  <2>8. ASSUME NEW b \in branches, dist_map'[b] = 1
        PROVE  \E w \in Node : dist_map'[w] = 0 /\ b \in graph[w]
    <3>1. b \in Node
      BY DEF ProcessTypes
    <3>2. CASE b \in near(v)
      BY <2>3, <2>4, <3>1, <3>2
    <3>3. CASE b \notin near(v)
      BY <1>1, <2>3, <2>5, <2>8, <3>1, <3>3 DEF Sound
    <3> QED
      BY <3>2, <3>3
  <2> QED
    BY <2>1, <2>2, <2>6, <2>7, <2>8 DEF Sound
<1>14. Relaxed'
  <2>1. \A u \in finished' : u \in Node /\ u \notin near(v) /\ dist_map'[u] = dist_map[u]
                             /\ dist_map[u] \in {0, 1} /\ dist_map[u] <= d
    <3>1. \A u \in finished : dist_map[u] <= d
      BY <1>1, <1>3 DEF Relaxed
    <3> QED
      BY <1>1, <1>4, <1>5, <1>6, <1>10, <3>1 DEF Relaxed, ProcessTypes
  <2>2. \A p \in Q' : d <= p[1]
    <3>1. \A p \in found(v) : d <= p[1]
      BY <1>4, Numbers DEF found, near
    <3> QED
      BY <1>2, <1>3, <1>9, <3>1
  <2>3. ASSUME NEW w \in finished', NEW u \in graph[w], dist_map'[w] + Length(u) <= 1
        PROVE  dist_map'[u] <= dist_map'[w] + Length(u)
    <3>1. u \in Node /\ w \in Node /\ Length(u) \in {0, 1}
      BY <2>1, Numbers DEF ProcessTypes
    <3>2. CASE w \in finished
      <4>1. dist_map[u] <= dist_map[w] + Length(u)
        BY <1>1, <2>1, <2>3, <3>2 DEF Relaxed
      <4> QED
        BY <1>8, <2>1, <3>1, <4>1, <1>12, Numbers DEF ProcessTypes
    <3>3. CASE w = v /\ u \in finished'
      BY <1>4, <2>1, <3>1, <3>3
    <3>4. CASE w = v /\ u \notin finished'
      BY <1>4, <1>5, <1>6, <1>8, <1>10, <2>1, <2>3, <3>1, <3>4, Numbers
    <3> QED
      BY <1>10, <3>2, <3>3, <3>4
  <2>4. \A u : Length(u)' = Length(u)
    BY <1>1 DEF Length
  <2>5. \A w \in finished' : \A p \in Q' : dist_map'[w] <= p[1]
    <3>1. \A p \in Q' : p[1] \in {0, 1}
      BY <1>12 DEF ProcessTypes
    <3> QED
      BY <2>1, <2>2, <3>1
  <2> QED
    BY <1>1, <1>11, <2>1, <2>3, <2>4, <2>5 DEF Relaxed
<1>15. Exact'
  BY <1>1 DEF Exact, Followers, Reach, ClosedFrom
<1> QED
  BY <1>12, <1>13, <1>14, <1>15

\* The search from the branch has ended: what is at distance zero is closed.
LEMMA WriteNeighboursKeeps == ProcessInv /\ WriteNeighbours => ProcessInv'
<1> SUFFICES ASSUME ProcessInv, WriteNeighbours PROVE ProcessInv'
  OBVIOUS
<1> USE DEF ProcessInv, WriteNeighbours
<1>1. src \in branches /\ src \in Node
  BY DEF ProcessTypes
<1>2. ProcessTypes'
  BY <1>1 DEF ProcessTypes
<1>3. \A u \in Node : dist_map[u] \in {0, 1} => u \in finished
  <2>1. \A q \in Q : q[1] \in {0, 1}
    BY DEF ProcessTypes
  <2>2. Q = {}
    BY <2>1 DEF max_dist
  <2> QED
    BY <2>2 DEF Relaxed
<1> DEFINE zeros == {u \in Node : dist_map[u] = 0}
<1>4. ClosedFrom(src, zeros)
  <2>1. src \in zeros
    BY <1>1 DEF Sound
  <2>2. ASSUME NEW w \in zeros, NEW u \in graph[w] \ branches PROVE u \in zeros
    <3>1. w \in finished /\ dist_map[w] = 0 /\ Length(u) = 0 /\ u \in Node
      BY <1>3 DEF Length, ProcessTypes
    <3>2. dist_map[u] <= 0
      BY <3>1 DEF Relaxed
    <3> QED
      BY <3>1, <3>2, Numbers DEF ProcessTypes
  <2> QED
    BY <2>1, <2>2 DEF ClosedFrom
<1>5. Reach(src) \subseteq zeros
  BY <1>4, ReachWithin
<1>6. {b \in branches : dist_map[b] = 1} = Followers(src) \ {src}
  <2>1. ASSUME NEW b \in branches, dist_map[b] = 1 PROVE b \in Followers(src) \ {src}
    BY <1>1, <2>1 DEF Sound, Followers
  <2>2. ASSUME NEW b \in Followers(src), b # src PROVE b \in branches /\ dist_map[b] = 1
    <3>1. PICK w \in Reach(src) : b \in graph[w]
      BY DEF Followers
    <3>2. w \in finished /\ dist_map[w] = 0 /\ Length(b) = 1 /\ b \in branches /\ b \in Node
      BY <1>3, <1>5 DEF Length, Followers, ProcessTypes
    <3>3. dist_map[b] <= 1
      BY <3>1, <3>2 DEF Relaxed
    <3>4. dist_map[b] # 0
      BY <2>2, <3>2 DEF Sound
    <3> QED
      BY <3>2, <3>3, <3>4, Numbers DEF ProcessTypes
  <2> QED
    BY <2>1, <2>2
<1>7. Exact'
  <2>1. \A b : Followers(b)' = Followers(b)
    BY DEF Followers, Reach, ClosedFrom
  <2>2. \A b \in branches :
          cfg_branches'[b] = IF b = src THEN Followers(src) \ {src} ELSE cfg_branches[b]
    BY <1>6 DEF ProcessTypes
  <2> QED
    BY <2>1, <2>2 DEF Exact
<1> QED
  BY <1>2, <1>7, Numbers DEF Sound, Relaxed, ProcessTypes

LEMMA ProcessStutters == ProcessInv /\ UNCHANGED processVars => ProcessInv'
BY DEF ProcessInv, processVars, ProcessTypes, Sound, Relaxed, Exact, Followers, Reach, ClosedFrom,
       Length

-----------------------------------------------------------------------------
LEMMA InitSearchKeeps == Init => SearchInv
<1> SUFFICES ASSUME Init PROVE SearchInv
  OBVIOUS
<1>1. PICK in \in Inputs : branches = in.branches
  BY DEF Init, InitProcess
<1>3. kInfiniteDistance \in Nat /\ kInfiniteDistance > 0
  BY DistancesAssumption DEF DistancesAssumption
<1>4. dist_ = [b \in branches |-> 0] /\ covered = {} /\ queue = << >> /\ returned = FALSE
  BY DEF Init
<1>5. dist_ \in [branches -> 0 .. kInfiniteDistance]
  BY <1>3, <1>4
<1>6. SearchTypes
  <2>1. queue \in Seq(branches) /\ covered \subseteq branches
    BY <1>4
  <2>2. returned \in BOOLEAN
    BY <1>4
  <2> QED
    BY <1>3, <1>5, <2>1, <2>2 DEF SearchTypes
<1>7. Accounted /\ Wave
  BY <1>4 DEF Accounted, Wave
<1> QED
  BY <1>6, <1>7 DEF SearchInv

\* No call is made before all neighbours are written.
LEMMA ProcessKeeps == ProcessInv /\ SearchInv /\ Process => SearchInv'
<1> SUFFICES ASSUME ProcessInv, SearchInv, Process PROVE SearchInv'
  OBVIOUS
<1>1. ~Written
  BY Numbers DEF Process, NextProcess, StartBranch, VisitNode, WriteNeighbours, Written
<1>2. branches' = branches /\ UNCHANGED << covered, dist_, queue, returned >>
  BY DEF Process, NextProcess, StartBranch, VisitNode, WriteNeighbours
<1> QED
  BY <1>1, <1>2 DEF SearchInv, SearchTypes, Accounted, Wave

\* The lists of branches have the branches they are of.
LEMMA Listed ==
  ASSUME ProcessTypes, NEW S \in SUBSET branches, NEW s \in Ascending(S)
  PROVE  /\ s \in Seq(S)
         /\ \A c : c \in S <=> \E n \in DOMAIN s : s[n] = c
<1>1. Cardinality(S) \in Nat
  BY FS_Subset, FS_CardinalityType DEF ProcessTypes
<1>2. s \in [1 .. Cardinality(S) -> S] /\ Range(s) = S
  BY DEF Ascending
<1>3. s \in Seq(S)
  BY <1>1, <1>2
<1> QED
  BY <1>2, <1>3 DEF Range

LEMMA UpdateKeeps ==
  ASSUME ProcessInv, SearchInv, NEW now \in SUBSET branches, Update(now)
  PROVE  SearchInv'
<1> USE DEF Update
<1>1. UNCHANGED << branches, todo, src, cfg_branches >> /\ Written /\ Written'
  BY DEF processVars, Written
<1>2. queue' \in Seq(branches \ now)
      /\ \A c : c \in branches \ now <=> \E n \in DOMAIN queue' : queue'[n] = c
  <2> HIDE DEF Update
  <2> DEFINE S == branches \ now
  <2>1. ProcessTypes /\ S \in SUBSET branches
    BY DEF ProcessInv
  <2>2. queue' \in Ascending(S)
    BY DEF Update
  <2> HIDE DEF S
  <2>3. /\ queue' \in Seq(S)
        /\ \A c : c \in S <=> \E n \in DOMAIN queue' : queue'[n] = c
    BY <2>1, <2>2, Listed
  <2> QED
    BY <2>3 DEF S
<1>3. \A b \in branches : dist_'[b] = IF b \in now THEN kInfiniteDistance ELSE 0
  OBVIOUS
<1>4. kInfiniteDistance \in Nat /\ kInfiniteDistance > 0
  BY Numbers DEF SearchInv, SearchTypes
<1>5. SearchTypes'
  <2>1. queue' \in Seq(branches)
    BY <1>2
  <2>2. dist_' \in [branches -> 0 .. kInfiniteDistance]
    BY <1>4
  <2>3. returned' \in BOOLEAN
    OBVIOUS
  <2> QED
    BY <1>1, <1>4, <2>1, <2>2, <2>3 DEF SearchInv, SearchTypes
<1>6. \A n \in DOMAIN queue' : dist_'[queue'[n]] = 0
  BY <1>2, <1>3
<1>7. returned' <=> queue' = << >>
  <2>1. queue' = << >> <=> \A n \in DOMAIN queue' : FALSE
    BY <1>2
  <2>2. now = branches <=> \A c : c \notin branches \ now
    OBVIOUS
  <2> QED
    BY <1>2, <2>1, <2>2
<1>8. Accounted'
  <2>1. ASSUME NEW b \in branches, NEW c \in cfg_branches[b]
        PROVE  Queued(c)' \/ dist_'[b] <= dist_'[c] + 1
    <3>1. c \in branches
      BY DEF ProcessInv, ProcessTypes
    <3>2. CASE c \in now
      BY <1>3, <1>4, <3>1, <3>2
    <3> QED
      BY <1>2, <3>1, <3>2 DEF Queued
  <2> QED
    BY <1>1, <1>3, <1>4, <1>7, <2>1 DEF Accounted
<1>9. Wave'
  <2>1. queue' # << >> => 1 \in DOMAIN queue'
    BY <1>2
  <2>2. queue' # << >> => dist_'[queue'[1]] = 0
    BY <1>6, <2>1
  <2>3. \A b \in branches : dist_'[b] \in {0, kInfiniteDistance}
    BY <1>3
  <2>4. \A m, n \in DOMAIN queue' : dist_'[queue'[m]] <= dist_'[queue'[n]]
    <3>1. 0 <= 0
      OBVIOUS
    <3> QED
      BY <1>6, <3>1
  <2>5. \A n \in DOMAIN queue' : dist_'[queue'[n]] < kInfiniteDistance
    BY <1>4, <1>6
  <2>6. ASSUME queue' # << >>, NEW b \in branches
        PROVE  dist_'[b] = kInfiniteDistance \/ dist_'[b] <= dist_'[queue'[1]] + 1
    <3>1. 0 <= 0 + 1
      OBVIOUS
    <3>2. CASE dist_'[b] = 0
      BY <2>2, <2>6, <3>1, <3>2
    <3> QED
      BY <2>3, <3>2
  <2> HIDE DEF Update
  <2> QED
    BY <1>1, <2>4, <2>5, <2>6 DEF Wave
<1> QED
  BY <1>5, <1>8, <1>9 DEF SearchInv

\* The branches that are nearer now had not been reached.
LEMMA VisitKeeps == ProcessInv /\ SearchInv /\ Visit => SearchInv'
<1> SUFFICES ASSUME ProcessInv, SearchInv, Visit PROVE SearchInv'
  OBVIOUS
<1>1. /\ queue # << >> /\ queue \in Seq(branches) /\ Written
      /\ kInfiniteDistance \in Nat /\ kInfiniteDistance > 0
      /\ dist_ \in [branches -> 0 .. kInfiniteDistance]
  BY Numbers DEF Visit, SearchInv, SearchTypes, Accounted
<1>2. UNCHANGED << branches, todo, src, cfg_branches, covered >> /\ Written'
  BY <1>1 DEF Visit, processVars, Written
<1> DEFINE i == queue[1]
           near == {j \in cfg_rev[i] : IsFarther(j, i)}
<1>3. i \in branches /\ Head(queue) = i /\ 1 \in DOMAIN queue
  BY <1>1
<1>4. PICK pushed \in Ascending(near) :
        /\ queue' = Tail(queue) \o pushed
        /\ dist_' = [j \in branches |-> IF j \in near THEN dist_[i] + 1 ELSE dist_[j]]
        /\ returned' = (queue' = << >>)
  BY <1>3 DEF Visit, Popped
<1>5. cfg_branches \in [branches -> SUBSET branches]
  BY DEF ProcessInv, ProcessTypes
<1>6. \A j : j \in near <=>
        j \in branches /\ i \in cfg_branches[j] /\ dist_[i] + 1 < dist_[j]
  BY <1>3, <1>5 DEF cfg_rev, Reversed, IsFarther
<1>7. pushed \in Seq(near) /\ \A c : c \in near <=> \E n \in DOMAIN pushed : pushed[n] = c
  BY <1>6, Listed DEF ProcessInv
<1> DEFINE d == dist_[i]
<1>8. d \in 0 .. kInfiniteDistance /\ d < kInfiniteDistance
  BY <1>1, <1>3 DEF SearchInv, Wave
<1>9. \A j \in near : dist_[j] = kInfiniteDistance /\ d + 1 < kInfiniteDistance
  BY <1>1, <1>6, <1>8 DEF SearchInv, Wave
<1>10. \A j \in branches : dist_'[j] = IF j \in near THEN d + 1 ELSE dist_[j]
  BY <1>4
<1>11. i \notin near /\ dist_'[i] = d
  BY <1>3, <1>6, <1>8, <1>10
<1> HIDE DEF near, d
<1>12. /\ queue' \in Seq(branches)
       /\ DOMAIN queue' = 1 .. (Len(queue) - 1 + Len(pushed))
       /\ \A n \in DOMAIN queue' :
            queue'[n] = IF n <= Len(queue) - 1 THEN queue[n + 1]
                        ELSE pushed[n - (Len(queue) - 1)]
  <2>1. Tail(queue) \in Seq(branches) /\ Len(Tail(queue)) = Len(queue) - 1
        /\ \A n \in 1 .. Len(queue) - 1 : Tail(queue)[n] = queue[n + 1]
    BY <1>1
  <2>2. pushed \in Seq(branches)
    BY <1>6, <1>7
  <2> QED
    BY <1>4, <2>1, <2>2
<1>13. SearchTypes'
  <2>1. dist_' \in [branches -> 0 .. kInfiniteDistance]
    BY <1>1, <1>4, <1>8, <1>9 DEF d
  <2>2. returned' \in BOOLEAN
    BY <1>4
  <2> QED
    BY <1>2, <1>12, <2>1, <2>2 DEF SearchInv, SearchTypes
<1>14. \A c \in near : Queued(c)'
  <2> SUFFICES ASSUME NEW c \in near PROVE \E n \in DOMAIN queue' : queue'[n] = c
    BY DEF Queued
  <2>1. PICK n \in DOMAIN pushed : pushed[n] = c
    BY <1>7
  <2>2. n \in 1 .. Len(pushed) /\ Len(queue) \in Nat \ {0} /\ Len(pushed) \in Nat
    BY <1>1, <1>7
  <2>3. n + (Len(queue) - 1) \in DOMAIN queue' /\ queue'[n + (Len(queue) - 1)] = c
    BY <1>12, <2>1, <2>2
  <2> QED
    BY <2>3
<1>15. \A c : Queued(c) /\ c # i => Queued(c)'
  <2> SUFFICES ASSUME NEW c, NEW n \in DOMAIN queue, queue[n] = c, c # i
               PROVE \E m \in DOMAIN queue' : queue'[m] = c
    BY DEF Queued
  <2>1. n - 1 \in 1 .. Len(queue) - 1 /\ Len(pushed) \in Nat /\ Len(queue) \in Nat
    BY <1>1, <1>7
  <2>2. n - 1 \in DOMAIN queue' /\ queue'[n - 1] = queue[n]
    BY <1>12, <2>1
  <2> QED
    BY <2>2
<1>16. Accounted'
  <2>1. ASSUME NEW b \in branches PROVE b \notin covered <=> dist_'[b] = 0
    BY <1>1, <1>8, <1>9, <1>10 DEF SearchInv, Accounted
  <2>2. ASSUME NEW b \in branches, NEW c \in cfg_branches[b]
        PROVE  Queued(c)' \/ dist_'[b] <= dist_'[c] + 1
    <3>1. c \in branches
      BY <1>5
    <3>2. CASE c = i
      <4>1. dist_'[b] <= d + 1
        BY <1>1, <1>6, <1>8, <1>10, <3>2 DEF d
      <4> QED
        BY <1>11, <3>2, <4>1
    <3>3. CASE c # i /\ ~Queued(c) /\ c \notin near
      <4>1. dist_[b] <= dist_[c] + 1
        BY <1>1, <3>3 DEF SearchInv, Accounted
      <4> QED
        BY <1>1, <1>8, <1>9, <1>10, <3>1, <3>3, <4>1
    <3> QED
      BY <1>14, <1>15, <3>2, <3>3
  <2>3. ASSUME NEW b \in branches, b \in covered, dist_'[b] # kInfiniteDistance
        PROVE  \E c \in cfg_branches[b] : dist_'[b] = dist_'[c] + 1
    <3>1. CASE b \in near
      BY <1>6, <1>10, <1>11, <3>1
    <3>2. CASE b \notin near
      <4>1. PICK c \in cfg_branches[b] : dist_[b] = dist_[c] + 1
        BY <1>1, <1>10, <2>3, <3>2 DEF SearchInv, Accounted
      <4>2. c \in branches /\ c \notin near
        BY <1>1, <1>5, <1>9, <4>1
      <4> QED
        BY <1>10, <3>2, <4>1, <4>2
    <3> QED
      BY <3>1, <3>2
  <2> QED
    BY <1>2, <1>4, <2>1, <2>2, <2>3 DEF Accounted
<1>17. Wave'
  <2> SUFFICES ASSUME queue' # << >> PROVE Wave'
    BY DEF Wave
  <2>1. /\ \A n \in DOMAIN queue' : queue'[n] \in branches
        /\ Len(queue) \in Nat \ {0} /\ Len(pushed) \in Nat /\ 1 \in DOMAIN queue'
    BY <1>1, <1>7, <1>12
  <2>2. \A n \in 1 .. Len(queue) :
          queue[n] \in branches /\ d <= dist_[queue[n]] /\ dist_[queue[n]] <= d + 1
          /\ dist_'[queue[n]] = dist_[queue[n]] /\ dist_[queue[n]] < kInfiniteDistance
    <3> SUFFICES ASSUME NEW n \in 1 .. Len(queue)
                 PROVE  queue[n] \in branches /\ d <= dist_[queue[n]] /\ dist_[queue[n]] <= d + 1
                        /\ dist_'[queue[n]] = dist_[queue[n]]
                        /\ dist_[queue[n]] < kInfiniteDistance
      OBVIOUS
    <3>1. queue[n] \in branches /\ dist_[queue[n]] < kInfiniteDistance
      BY <1>1 DEF SearchInv, Wave
    <3>2. n = 1 \/ d <= dist_[queue[n]]
      BY <1>1, <1>3 DEF SearchInv, Wave, d
    <3>3. d <= dist_[queue[n]]
      BY <1>8, <3>2 DEF d
    <3>4. dist_[queue[n]] <= d + 1
      BY <1>1, <3>1 DEF SearchInv, Wave, d
    <3>5. queue[n] \notin near
      BY <1>1, <1>9, <3>1
    <3> QED
      BY <1>10, <3>1, <3>3, <3>4, <3>5
  <2>3. \A n \in 1 .. Len(pushed) : dist_'[pushed[n]] = d + 1 /\ d + 1 < kInfiniteDistance
    BY <1>6, <1>7, <1>9, <1>10
  <2>4. ASSUME NEW n \in DOMAIN queue'
        PROVE  /\ dist_'[queue'[n]] < kInfiniteDistance /\ d <= dist_'[queue'[n]]
               /\ dist_'[queue'[n]] <= d + 1
               /\ n > Len(queue) - 1 => dist_'[queue'[n]] = d + 1
    <3>1. CASE n <= Len(queue) - 1
      <4>1. n + 1 \in 1 .. Len(queue) /\ queue'[n] = queue[n + 1]
        BY <1>12, <2>1, <3>1
      <4> QED
        BY <1>12, <2>1, <2>2, <3>1, <4>1
    <3>2. CASE n > Len(queue) - 1
      <4>1. n - (Len(queue) - 1) \in 1 .. Len(pushed)
            /\ queue'[n] = pushed[n - (Len(queue) - 1)]
        BY <1>12, <2>1, <3>2
      <4> QED
        BY <1>8, <2>3, <4>1
    <3> QED
      BY <1>12, <2>1, <3>1, <3>2
  <2>5. ASSUME NEW m \in DOMAIN queue', NEW n \in DOMAIN queue', m < n
        PROVE  dist_'[queue'[m]] <= dist_'[queue'[n]]
    <3>1. CASE n <= Len(queue) - 1
      <4>1. /\ m + 1 \in 1 .. Len(queue) /\ n + 1 \in 1 .. Len(queue) /\ m + 1 < n + 1
            /\ queue'[m] = queue[m + 1] /\ queue'[n] = queue[n + 1]
        BY <1>12, <2>1, <2>5, <3>1
      <4>2. dist_[queue[m + 1]] <= dist_[queue[n + 1]]
        BY <1>1, <4>1 DEF SearchInv, Wave
      <4> QED
        BY <2>2, <4>1, <4>2
    <3>2. CASE n > Len(queue) - 1
      BY <2>4, <3>2
    <3> QED
      BY <1>12, <2>1, <3>1, <3>2
  <2>6. ASSUME NEW b \in branches
        PROVE  dist_'[b] = kInfiniteDistance \/ dist_'[b] <= dist_'[queue'[1]] + 1
    <3>1. d <= dist_'[queue'[1]] /\ dist_'[queue'[1]] \in Nat
      BY <1>13, <2>1, <2>4 DEF SearchTypes
    <3>2. dist_'[b] = kInfiniteDistance \/ dist_'[b] <= d + 1
      BY <1>1, <1>8, <1>10 DEF SearchInv, Wave, d
    <3> QED
      BY <1>2, <1>8, <1>13, <3>1, <3>2 DEF SearchTypes
  <2> QED
    BY <1>2, <2>4, <2>5, <2>6 DEF Wave
<1> QED
  BY <1>13, <1>16, <1>17 DEF SearchInv

-----------------------------------------------------------------------------
\* Every step of process_cfg and of the heuristic's calls keeps what the searches
\* rest on, for every control-flow graph and whatever is covered.
THEOREM DistancesInvariant == Spec => [](ProcessInv /\ SearchInv)
<1>1. Init => ProcessInv /\ SearchInv
  BY InitProcessKeeps, InitSearchKeeps DEF Init
<1>2. ProcessInv /\ SearchInv /\ [Next]_vars => (ProcessInv /\ SearchInv)'
  <2> SUFFICES ASSUME ProcessInv, SearchInv, [Next]_vars
               PROVE  ProcessInv' /\ SearchInv'
    OBVIOUS
  <2>1. CASE Process
    BY <2>1, StartBranchKeeps, VisitNodeKeeps, WriteNeighboursKeeps, ProcessKeeps
       DEF Process, NextProcess
  <2>2. CASE Visit
    BY <2>2, VisitKeeps, ProcessStutters DEF Visit
  <2>3. ASSUME NEW now \in SUBSET branches, Update(now) PROVE ProcessInv' /\ SearchInv'
    BY <2>3, UpdateKeeps, ProcessStutters DEF Update
  <2>4. CASE UNCHANGED vars
    <3>1. ProcessInv'
      BY <2>4, ProcessStutters DEF vars
    <3>2. SearchInv'
      BY <2>4 DEF vars, processVars, SearchInv, SearchTypes, Accounted, Wave, Queued, Written
    <3> QED
      BY <3>1, <3>2
  <2> QED
    BY <2>1, <2>2, <2>3, <2>4 DEF Next
<1> QED
  BY <1>1, <1>2, PTL DEF Spec

\* The data of process_cfg and of the calls stay of their types: the path of a
\* branch never passes another one.
THEOREM DistancesTypeCorrect == Spec => []TypeOK
<1>1. ProcessInv /\ SearchInv => TypeOK
  <2> SUFFICES ASSUME ProcessTypes, SearchTypes PROVE TypeOK
    BY DEF ProcessInv, SearchInv
  <2>1. dist_ \in [branches -> Nat]
    BY Numbers DEF SearchTypes
  <2> QED
    BY <2>1 DEF TypeOK, ProcessTypes, SearchTypes
<1> QED
  BY <1>1, DistancesInvariant, PTL

\* Dijkstra's algorithm, cut off at distance one, writes for every branch the
\* branches that follow it in the control-flow graph, and only these.
THEOREM NeighboursAreExact == Spec => []NeighboursExact
<1>1. ProcessInv => NeighboursExact
  BY DEF ProcessInv, Exact, NeighboursExact, Written
<1> QED
  BY <1>1, DistancesInvariant, PTL

\* When UpdateBranchDistances returns, every distance is accounted for by that
\* of a branch which follows, and contradicts none.
THEOREM DistancesAreCertified == Spec => []DistancesCertified
<1>1. SearchInv => DistancesCertified
  BY DEF SearchInv, Accounted, DistancesCertified, Queued
<1> QED
  BY <1>1, DistancesInvariant, PTL

\* The distances of UpdateBranchDistances are those in the control-flow graph of
\* the program, from the neighbours that process_cfg has written: a distance that
\* each branch accounts for by those that follow it can only be the length of a
\* shortest way, and a branch that follows itself is on no such way.  A way of
\* kInfiniteDistance steps or more counts as none, however large the program.
THEOREM DistancesAreOfProgram == Spec => []DistancesOfProgram
<1>1. ProcessInv /\ SearchInv => DistancesOfProgram
  <2> SUFFICES ASSUME ProcessInv, SearchInv, returned  PROVE DistancesOfProgram
    BY DEF DistancesOfProgram
  <2> DEFINE program == [b \in branches |-> Followers(b)]
             uncovered == branches \ covered
  <2>1. DOMAIN program = branches /\ IsFiniteSet(branches) /\ uncovered \subseteq branches
    BY DEF ProcessInv, ProcessTypes
  <2>2. kInfiniteDistance \in Nat \ {0}
    BY DistancesAssumption DEF DistancesAssumption
  <2>3. /\ Written /\ queue = << >>
        /\ \A b \in branches :
             /\ b \notin covered <=> dist_[b] = 0
             /\ \A c \in cfg_branches[b] : dist_[b] <= dist_[c] + 1
             /\ b \in covered /\ dist_[b] # kInfiniteDistance =>
                  \E c \in cfg_branches[b] : dist_[b] = dist_[c] + 1
    BY DEF SearchInv, Accounted, Queued
  <2>4. \A b \in branches : /\ cfg_branches[b] = Followers(b) \ {b}
                            /\ Followers(b) \subseteq branches
    BY <2>3 DEF ProcessInv, Exact, Written, Followers
  <2>5. dist_ \in [branches -> 0 .. kInfiniteDistance]
    BY DEF SearchInv, SearchTypes
  <2>6. ASSUME NEW b \in branches, NEW c \in branches, c \in program[b]
        PROVE  dist_[b] <= dist_[c] + 1
    <3>1. CASE c = b
      <4>1. dist_[b] \in Nat
        BY <2>2, <2>5
      <4> QED  BY <3>1, <4>1
    <3>2. CASE c # b
      BY <2>3, <2>4, <2>6, <3>2
    <3> QED  BY <3>1, <3>2
  <2>7. ASSUME NEW b \in branches, b \notin uncovered, dist_[b] # kInfiniteDistance
        PROVE  \E c \in branches : c \in program[b] /\ dist_[b] = dist_[c] + 1
    BY <2>3, <2>4, <2>7
  <2>8. \A b \in branches : b \in uncovered <=> dist_[b] = 0
    BY <2>3
  <2> HIDE DEF program, uncovered
  <2>9. Certified(program, uncovered, kInfiniteDistance, dist_)
    BY <2>1, <2>5, <2>6, <2>7, <2>8 DEF Certified
  <2>10. dist_ = DistanceTo(program, uncovered, kInfiniteDistance)
    BY <2>1, <2>2, <2>9, CertifiedAreDistances
  <2> QED  BY <2>10 DEF DistancesOfProgram, program, uncovered
<1> QED  BY <1>1, DistancesInvariant, PTL
=============================================================================
