------------------------- MODULE FindCheckRefine_proof -------------------------
(***************************************************************************)
(* Proofs about the campaigns of fullauto.py: a campaign that reports      *)
(* success has copied the weight it should have, whatever failed in it.    *)
(* Where a trial wrote no line in the logs, no weights were made for the   *)
(* next one either, which stops the campaign before it reads the logs.     *)
(***************************************************************************)
EXTENDS FindCheckRefine, TLAPS

Running == phase \in {"find", "check"}

\* The two logs grow together, by at most a line each trial.
Lines ==
  /\ phase # "ended" => trial >= 1
  /\ Len(topcheck) = Len(top2w) + 1
  /\ Len(top2w) <= trial /\ (Running => Len(top2w) < trial)

\* A complete log covers something, so that the first trial never saturates.
Averages ==
  /\ \A w \in Weight : logs[w].n <= logs[w].sum
  /\ Whole(topcheck[1]) = 0
  /\ \A n \in 2 .. Len(topcheck) : Whole(topcheck[n]) >= 1

\* The integer parts of the averages grow from trial to trial, but for the last
\* one, which is compared after it is written.
Climbs ==
  \A m, n \in DOMAIN topcheck :
    m < n /\ (n = Len(topcheck) => Running) => Whole(topcheck[m]) < Whole(topcheck[n])

\* Without weights there is nothing to check.
Idle ==
  /\ \A w \in Weight : phase # "check" \/ check_date = None => left[w] = 0
  /\ phase = "find" => check_date = None
  /\ phase = "find" /\ weights[trial] = "none" => Complete = {}
  /\ phase = "check" /\ weights[trial] = "none" => check_date = None

\* Which directories of weights there are, in a campaign that found none.
Tidy ==
  \A t \in 1 .. Trials + 1 :
    /\ weights[t] # "left"
    /\ t > trial + 1 => weights[t] = "none"
    /\ Running /\ t = trial + 1 => weights[t] = "none"
    /\ phase = "ended" => weights[t] = "none"
    /\ phase \in {"saturated", "exhausted"} /\ t <= Removed => weights[t] = "none"

\* Every trial has its line in the logs, except one after which there are no
\* weights or one whose directory was not made.
Followed ==
  /\ \A n \in DOMAIN top2w : top2w[n].trial = n
  /\ Running => Len(top2w) = trial - 1 \/ weights[trial] = "none"
  /\ phase = "refined" =>
       \/ check_date = None
       \/ Len(top2w) = trial
       \/ Len(top2w) = trial - 1 /\ weights[trial + 1] = "none"

ScriptsInv ==
  /\ TypeOK
  /\ Lines /\ Averages /\ Climbs /\ Idle
  /\ ~untidy => Tidy /\ Followed
  /\ BestIsOfItsTrial /\ BestWithinOne

-----------------------------------------------------------------------------
LEMMA Constants ==
  /\ Iters \in Nat /\ Parallel \in Nat \ {0} /\ Runs \in Nat
  /\ Trials \in Nat /\ Trials >= 3 /\ Removed \in Nat
  /\ Campaigns \in Nat /\ Months \in Nat \ {0}
  /\ Coverage \subseteq Nat \ {0}
BY ScriptsAssumption DEF ScriptsAssumption

\* The processes of 1find.py stay within the weights there are.
LEMMA Shares ==
  ASSUME NEW p \in Process
  PROVE  /\ First(p) \in 1 .. Iters + 1
         /\ Done(p) \in 1 .. Iters + 1
<1>1. count \in Nat /\ Parallel * count <= Iters
  BY Constants DEF count
<1>2. p \in Nat /\ 1 <= p /\ p <= Parallel
  BY Constants DEF Process
<1>3. p * count <= Parallel * count
  BY Constants, <1>1, <1>2
<1>4. (p - 1) * count \in Nat /\ (p - 1) * count <= p * count
  BY <1>1, <1>2
<1> QED
  BY Constants, <1>1, <1>2, <1>3, <1>4 DEF First, Done

\* The integer part of an average.
LEMMA WholeIs ==
  ASSUME NEW a \in Average
  PROVE  /\ Whole(a) \in Nat
         /\ Whole(a) * a.n <= a.sum
         /\ a.sum < Whole(a) * a.n + a.n
         /\ a.n <= a.sum => Whole(a) >= 1
<1>1. PICK sum \in Nat, n \in Nat \ {0} : a = [sum |-> sum, n |-> n]
  BY DEF Average
<1>2. /\ sum \div n \in Nat
      /\ (sum \div n) * n <= sum
      /\ sum < (sum \div n) * n + n
      /\ n <= sum => sum \div n >= 1
  BY <1>1
<1> QED
  BY <1>1, <1>2 DEF Whole

\* What comparing integer parts says of the averages.
LEMMA CompareWholes ==
  ASSUME NEW a \in Average, NEW b \in Average
  PROVE  /\ Whole(a) < Whole(b) => ~IsLess(b, a)
         /\ Whole(a) <= Whole(b) => IsLess(a, OneMore(b))
<1>1. PICK s, t \in Nat, m, n \in Nat \ {0} :
        a = [sum |-> s, n |-> m] /\ b = [sum |-> t, n |-> n]
  BY DEF Average
<1>2. PICK p, q \in Nat : p = Whole(a) /\ q = Whole(b)
  BY WholeIs
<1>3. s < p * m + m /\ q * n <= t
  BY <1>1, <1>2, WholeIs
<1>4. s * n < (p * m + m) * n /\ (q * n) * m <= t * m
  BY <1>1, <1>2, <1>3
<1>5. (p * m + m) * n = (p + 1) * (m * n) /\ (q * n) * m = q * (m * n) /\ m * n \in Nat
  BY <1>1, <1>2
<1>6. \A x, y, z \in Nat : x <= y => x * z <= y * z
  OBVIOUS
<1>7. s * n \in Nat /\ t * m \in Nat
  BY <1>1
<1>8. ASSUME p < q PROVE ~IsLess(b, a)
  <2>1. (p + 1) * (m * n) <= q * (m * n)
    BY <1>2, <1>5, <1>6, <1>8
  <2>2. ~(t * m < s * n)
    BY <1>1, <1>2, <1>4, <1>5, <1>7, <2>1
  <2> QED
    BY <1>1, <2>2 DEF IsLess
<1>9. ASSUME p <= q PROVE IsLess(a, OneMore(b))
  <2>1. (p + 1) * (m * n) <= (q + 1) * (m * n)
    BY <1>2, <1>5, <1>6, <1>9
  <2>2. (q + 1) * (m * n) = q * (m * n) + n * m
    BY <1>1, <1>2
  <2>3. (t + n) * m = t * m + n * m
    BY <1>1
  <2>4. s * n < (t + n) * m
    BY <1>1, <1>2, <1>4, <1>5, <1>7, <2>1, <2>2, <2>3
  <2>5. OneMore(b) = [sum |-> t + n, n |-> n]
    <3>1. OneMore([sum |-> t, n |-> n]) = [sum |-> t + n, n |-> n]
      BY DEF OneMore
    <3> QED
      BY <1>1, <3>1
  <2> QED
    BY <1>1, <2>4, <2>5 DEF IsLess
<1> QED
  BY <1>2, <1>8, <1>9

LEMMA ZeroIs == Zero \in Average /\ Whole(Zero) = 0
BY DEF Zero, Average, Whole

-----------------------------------------------------------------------------
LEMMA InitKeeps == InitScripts => ScriptsInv
<1> SUFFICES ASSUME InitScripts PROVE ScriptsInv
  OBVIOUS
<1>1. TypeOK
  <2>1. next_idx \in [Process -> 1 .. Iters + 1] /\ left \in [Weight -> 0 .. Runs]
    BY Constants, Shares DEF InitScripts
  <2>2. logs \in [Weight -> [n : Nat, sum : Nat]] /\ best \in [trial : 0 .. Trials, top1 : 0 .. Iters]
    BY Constants DEF InitScripts, NoLog, NoBest
  <2>3. topcheck \in Seq(Average) /\ top2w \in Seq(Line)
    BY ZeroIs DEF InitScripts
  <2>4. untidy \in BOOLEAN /\ weights \in [1 .. Trials + 1 -> {"none", "own", "left"}]
    BY DEF InitScripts
  <2>5. month \in 1 .. Months /\ date \in 1 .. month /\ campaign \in 0 .. Campaigns
    BY Constants DEF InitScripts
  <2>6. find_date \in 0 .. month /\ check_date \in 0 .. month /\ phase \in Phases
        /\ trial \in 0 .. Trials
    BY Constants DEF InitScripts, None, Phases
  <2> QED
    BY <2>1, <2>2, <2>3, <2>4, <2>5, <2>6 DEF TypeOK
<1>2. Lines /\ Averages /\ Climbs /\ Idle
  BY ZeroIs DEF InitScripts, Lines, Averages, Climbs, Idle, NoLog, Running
<1>3. Tidy /\ Followed
  BY Constants DEF InitScripts, Tidy, Followed, Running
<1> QED
  BY <1>1, <1>2, <1>3 DEF ScriptsInv, InitScripts, BestIsOfItsTrial, BestWithinOne

LEMMA NewMonthKeeps == ScriptsInv /\ NewMonth => ScriptsInv'
<1> SUFFICES ASSUME ScriptsInv, NewMonth PROVE ScriptsInv'
  OBVIOUS
<1> USE DEF ScriptsInv, NewMonth
<1>1. TypeOK'
  BY Constants DEF TypeOK
<1>2. (Lines /\ Averages /\ Climbs /\ Idle)'
  BY DEF Lines, Averages, Climbs, Idle, Complete, Running
<1>3. (~untidy => Tidy /\ Followed)'
  BY DEF Tidy, Followed, Running
<1> QED
  BY <1>1, <1>2, <1>3 DEF BestIsOfItsTrial, BestWithinOne

\* A campaign starts with no line and, after tidy ones, with no weights but its
\* own.
LEMMA StartCampaignKeeps == ScriptsInv /\ StartCampaign => ScriptsInv'
<1> SUFFICES ASSUME ScriptsInv, StartCampaign PROVE ScriptsInv'
  OBVIOUS
<1> USE DEF ScriptsInv, StartCampaign
<1>1. TypeOK'
  BY Constants, Shares, ZeroIs DEF TypeOK, StartFind, Phases, NoLog, NoBest, None, Line
<1>2. (Lines /\ Averages /\ Climbs)'
  BY ZeroIs DEF StartFind, Lines, Averages, Climbs, NoLog, Running
<1>3. weights'[1] # "none"
  BY Constants DEF TypeOK
<1>4. Idle'
  BY <1>3 DEF StartFind, Idle, Ended, Complete, NoLog
<1>5. ASSUME ~untidy' PROVE Tidy' /\ Followed'
  <2>1. ~untidy /\ Tidy
    BY <1>5
  <2>2. \A t \in 1 .. Trials + 1 : weights[t] = "none"
    BY <1>5, <2>1, Constants DEF Tidy, Ended, TypeOK
  <2>3. \A t \in 1 .. Trials + 1 : weights'[t] = IF t = 1 THEN "own" ELSE "none"
    BY <2>2 DEF TypeOK
  <2>4. trial' = 1 /\ phase' = "find" /\ top2w' = << >>
    BY DEF StartFind
  <2>5. Tidy'
    <3> HIDE DEF ScriptsInv, StartCampaign
    <3> SUFFICES ASSUME NEW t \in 1 .. Trials + 1
                 PROVE  /\ weights'[t] # "left"
                        /\ t > trial' + 1 => weights'[t] = "none"
                        /\ t = trial' + 1 => weights'[t] = "none"
      BY <2>4 DEF Tidy
    <3> QED
      BY <2>3, <2>4, Constants
  <2>6. Len(top2w') = trial' - 1 /\ \A n \in DOMAIN top2w' : FALSE
    BY <2>4
  <2>7. Followed'
    BY <2>4, <2>6 DEF Followed, Running
  <2> QED
    BY <2>5, <2>7
<1> QED
  BY <1>1, <1>2, <1>4, <1>5 DEF StartFind, BestIsOfItsTrial, BestWithinOne

LEMMA FindKeeps ==
  ASSUME ScriptsInv, NEW p \in Process, Find(p)
  PROVE  ScriptsInv'
<1> USE DEF ScriptsInv, Find
<1>1. PICK k : k = next_idx[p] /\ k \in Weight
  <2>1. Done(p) \in Nat /\ Done(p) <= Iters + 1
    BY Shares, Constants
  <2> QED
    BY <2>1, Constants DEF TypeOK, Weight
<1>2. \/ /\ weights[trial] # "none"
         /\ \E c \in Coverage : logs' = [logs EXCEPT ![k] = [n |-> 1, sum |-> c]]
      \/ logs' = logs
  BY <1>1
<1>3. next_idx' \in [Process -> 1 .. Iters + 1]
  <2>1. Done(p) \in 1 .. Iters + 1 /\ k + 1 \in 1 .. Iters + 1
    BY <1>1, Shares, Constants DEF Weight
  <2>2. next_idx' = [next_idx EXCEPT ![p] = k + 1] \/ next_idx' = [next_idx EXCEPT ![p] = Done(p)]
    BY <1>1 DEF Died
  <2> QED
    BY <2>1, <2>2 DEF TypeOK
<1>4. logs' \in [Weight -> [n : Nat, sum : Nat]] /\ \A w \in Weight : logs'[w].n <= logs'[w].sum
  <2>1. CASE logs' = logs
    BY <2>1 DEF TypeOK, Averages
  <2>2. ASSUME NEW c \in Coverage, logs' = [logs EXCEPT ![k] = [n |-> 1, sum |-> c]]
        PROVE  logs' \in [Weight -> [n : Nat, sum : Nat]]
               /\ \A w \in Weight : logs'[w].n <= logs'[w].sum
    <3>1. c \in Nat /\ c >= 1
      BY Constants
    <3>2. [n |-> 1, sum |-> c] \in [n : Nat, sum : Nat]
      BY <3>1
    <3>3. \A w \in Weight : logs'[w] = IF w = k THEN [n |-> 1, sum |-> c] ELSE logs[w]
      BY <2>2 DEF TypeOK
    <3> QED
      BY <1>1, <2>2, <3>1, <3>2, <3>3 DEF TypeOK, Averages
  <2> QED
    BY <1>2, <2>1, <2>2
<1>5. TypeOK'
  BY <1>3, <1>4 DEF TypeOK, Line
<1>6. (Lines /\ Averages /\ Climbs)'
  BY <1>4 DEF Lines, Averages, Climbs, Running
<1>7. Idle'
  BY <1>2 DEF Idle, Complete
<1>8. (~untidy => Tidy /\ Followed)'
  BY DEF Tidy, Followed, Running
<1> QED
  BY <1>5, <1>6, <1>7, <1>8 DEF BestIsOfItsTrial, BestWithinOne

LEMMA StartCheckKeeps == ScriptsInv /\ StartCheck => ScriptsInv'
<1> SUFFICES ASSUME ScriptsInv, StartCheck PROVE ScriptsInv'
  OBVIOUS
<1> USE DEF ScriptsInv, StartCheck
<1>1. \/ /\ Complete # {} /\ check_date' = month
         /\ left' \in [Weight -> 0 .. Runs]
      \/ UNCHANGED << left, check_date >>
  BY Constants
<1>2. TypeOK'
  BY <1>1, Constants DEF TypeOK, Phases, NoLog, Line, None
<1>3. (Lines /\ Averages /\ Climbs)'
  BY DEF Lines, Averages, Climbs, Running, NoLog
<1>4. Idle'
  BY <1>1 DEF Idle, TypeOK, None
<1>5. (~untidy => Tidy /\ Followed)'
  BY DEF Tidy, Followed, Running
<1> QED
  BY <1>2, <1>3, <1>4, <1>5 DEF BestIsOfItsTrial, BestWithinOne

\* One more search in the log of a weight.
LEMMA LogGrows ==
  ASSUME NEW f \in [Weight -> [n : Nat, sum : Nat]], NEW w \in Weight, NEW c \in Coverage,
         \A v \in Weight : f[v].n <= f[v].sum,
         NEW g, g = [f EXCEPT ![w] = [n |-> @.n + 1, sum |-> @.sum + c]]
  PROVE  g \in [Weight -> [n : Nat, sum : Nat]] /\ \A v \in Weight : g[v].n <= g[v].sum
<1>1. c \in Nat /\ c >= 1
  BY Constants
<1>2. PICK n, sum \in Nat : f[w].n = n /\ f[w].sum = sum /\ n <= sum
  OBVIOUS
<1>3. \A v \in Weight : g[v] = IF v = w THEN [n |-> n + 1, sum |-> sum + c] ELSE f[v]
  BY <1>2
<1>4. [n |-> n + 1, sum |-> sum + c] \in [n : Nat, sum : Nat] /\ n + 1 <= sum + c
  BY <1>1, <1>2
<1> QED
  BY <1>3, <1>4

LEMMA CheckKeeps ==
  ASSUME ScriptsInv, NEW w \in Weight, Check(w)
  PROVE  ScriptsInv'
<1> USE DEF ScriptsInv, Check
<1>1. logs' \in [Weight -> [n : Nat, sum : Nat]] /\ \A v \in Weight : logs'[v].n <= logs'[v].sum
  <2>1. logs \in [Weight -> [n : Nat, sum : Nat]] /\ \A v \in Weight : logs[v].n <= logs[v].sum
    BY DEF TypeOK, Averages
  <2>2. \/ logs' = logs
        \/ \E c \in Coverage : logs' = [logs EXCEPT ![w] = [n |-> @.n + 1, sum |-> @.sum + c]]
    OBVIOUS
  <2> HIDE DEF ScriptsInv, Check
  <2> QED
    BY <2>1, <2>2, LogGrows
<1>2. left' \in [Weight -> 0 .. Runs]
  <2>1. left \in [Weight -> 0 .. Runs] /\ left[w] - 1 \in 0 .. Runs /\ 0 \in 0 .. Runs
    <3>1. left \in [Weight -> 0 .. Runs] /\ left[w] > 0
      BY DEF TypeOK
    <3> HIDE DEF ScriptsInv, Check
    <3> QED
      BY <3>1, Constants
  <2>2. left' = [left EXCEPT ![w] = left[w] - 1] \/ left' = [left EXCEPT ![w] = 0]
    BY DEF Check
  <2> QED
    BY <2>1, <2>2
<1>7. check_date # None
  BY Constants DEF TypeOK, Idle
<1>3. TypeOK'
  BY <1>1, <1>2 DEF TypeOK, Line
<1>4. (Lines /\ Averages /\ Climbs)'
  BY <1>1 DEF Lines, Averages, Climbs, Running
<1>5. Idle'
  BY <1>7 DEF Idle
<1>6. (~untidy => Tidy /\ Followed)'
  BY DEF Tidy, Followed, Running
<1> QED
  BY <1>3, <1>4, <1>5, <1>6 DEF BestIsOfItsTrial, BestWithinOne

\* A line of the logs is written for the trial that runs.
LEMMA RefineKeeps == ScriptsInv /\ Refine => ScriptsInv'
<1> SUFFICES ASSUME ScriptsInv, Refine PROVE ScriptsInv'
  OBVIOUS
<1> USE DEF ScriptsInv, Refine
<1>1. trial \in 1 .. Trials /\ topcheck \in Seq(Average) /\ top2w \in Seq(Line)
      /\ Len(topcheck) = Len(top2w) + 1 /\ Len(top2w) < trial
  BY DEF TypeOK, Lines, Running
<1>2. CASE Averaged
  <2>1. PICK top1 \in Weight :
          /\ IsTop1(top1)
          /\ topcheck' = Append(topcheck, [sum |-> logs[top1].sum, n |-> logs[top1].n])
          /\ top2w' = Append(top2w, [trial |-> trial, top1 |-> top1])
          /\ weights' = Made(trial + 1)
    BY <1>2
  <2> DEFINE a == [sum |-> logs[top1].sum, n |-> logs[top1].n]
             line == [trial |-> trial, top1 |-> top1]
  <2>2. a \in Average /\ Whole(a) >= 1
    <3>1. PICK n, sum \in Nat : logs[top1].n = n /\ logs[top1].sum = sum /\ n <= sum /\ n > 0
      BY <2>1 DEF TypeOK, Averages, IsTop1, Complete
    <3> QED
      BY <3>1, WholeIs DEF Average
  <2>3. line \in Line
    BY <1>1 DEF Line
  <2> HIDE DEF a, line
  <2>4. /\ topcheck' \in Seq(Average) /\ Len(topcheck') = Len(topcheck) + 1
        /\ \A n \in 1 .. Len(topcheck) : topcheck'[n] = topcheck[n]
        /\ topcheck'[Len(topcheck) + 1] = a
    BY <1>1, <2>1, <2>2 DEF a
  <2>5. /\ top2w' \in Seq(Line) /\ Len(top2w') = Len(top2w) + 1
        /\ \A n \in 1 .. Len(top2w) : top2w'[n] = top2w[n]
        /\ top2w'[Len(top2w) + 1] = line
    BY <1>1, <2>1, <2>3 DEF line
  <2>6. weights' \in [1 .. Trials + 1 -> {"none", "own", "left"}]
    BY <1>1, <2>1 DEF Made, TypeOK
  <2>7. TypeOK'
    BY <2>4, <2>5, <2>6 DEF TypeOK, Phases
  <2>8. (Lines /\ Averages)'
    BY <1>1, <2>2, <2>4, <2>5 DEF Lines, Averages, Running
  <2>9. Climbs'
    <3>1. ASSUME NEW m \in 1 .. Len(topcheck), NEW n \in 1 .. Len(topcheck), m < n
          PROVE  Whole(topcheck'[m]) < Whole(topcheck'[n])
      <4>1. Running /\ DOMAIN topcheck = 1 .. Len(topcheck)
        BY <1>1 DEF Running
      <4>2. Whole(topcheck[m]) < Whole(topcheck[n])
        BY <3>1, <4>1 DEF Climbs
      <4> QED
        BY <2>4, <3>1, <4>2
    <3>2. ASSUME NEW m \in DOMAIN topcheck', NEW n \in DOMAIN topcheck', m < n,
                 n # Len(topcheck')
          PROVE  m \in 1 .. Len(topcheck) /\ n \in 1 .. Len(topcheck)
      BY <1>1, <2>4, <3>2
    <3>3. ~Running'
      BY DEF Running
    <3> QED
      BY <3>1, <3>2, <3>3 DEF Climbs
  <2>10. Idle'
    BY DEF Idle
  <2>11. (~untidy => Tidy /\ Followed)'
    <3> SUFFICES ASSUME ~untidy' PROVE Tidy' /\ Followed'
      OBVIOUS
    <3>1. Tidy /\ Followed
      OBVIOUS
    <3>2. weights[trial] # "none"
      BY <1>2 DEF Averaged, Idle, TypeOK, None
    <3>3. Len(top2w) = trial - 1
      BY <3>1, <3>2 DEF Followed, Running
    <3>4. Tidy'
      BY <1>1, <2>1, <3>1 DEF Tidy, Made, TypeOK, Running
    <3>5. \A n \in DOMAIN top2w' : top2w'[n].trial = n
      BY <1>1, <2>5, <3>1, <3>3 DEF Followed, line
    <3>6. Followed'
      BY <1>1, <2>5, <3>3, <3>5 DEF Followed, Running
    <3> QED
      BY <3>4, <3>6
  <2> QED
    BY <2>7, <2>8, <2>9, <2>10, <2>11 DEF BestIsOfItsTrial, BestWithinOne
<1>3. CASE ~Averaged
  <2>1. UNCHANGED << topcheck, top2w, weights >>
    BY <1>3
  <2>2. TypeOK'
    BY <2>1 DEF TypeOK, Phases, Line
  <2>3. (Lines /\ Averages /\ Climbs /\ Idle)'
    BY <2>1 DEF Lines, Averages, Climbs, Idle, Running
  <2>4. ASSUME ~untidy' PROVE Tidy' /\ Followed'
    <3>1. Tidy /\ Followed /\ Running /\ trial + 1 \in 1 .. Trials + 1
      BY <1>1, <2>4, Constants DEF Running
    <3>2. Tidy'
      BY <2>1, <3>1 DEF Tidy, Running
    <3>3. weights[trial + 1] = "none"
      BY <3>1 DEF Tidy
    <3>4. check_date = None \/ Len(top2w) = trial - 1
      BY <3>1 DEF Idle, Followed, Running
    <3> QED
      BY <2>1, <3>1, <3>2, <3>3, <3>4 DEF Followed, Running
  <2> QED
    BY <2>2, <2>3, <2>4 DEF BestIsOfItsTrial, BestWithinOne
<1> QED
  BY <1>2, <1>3

\* A climb that goes on with its last line is one to the end.
LEMMA ClimbGoesOn ==
  ASSUME NEW t \in Seq(Average), Len(t) >= 2,
         Whole(t[Len(t) - 1]) < Whole(t[Len(t)]),
         \A m, n \in DOMAIN t : m < n /\ n # Len(t) => Whole(t[m]) < Whole(t[n])
  PROVE  \A m, n \in DOMAIN t : m < n => Whole(t[m]) < Whole(t[n])
<1>1. PICK l \in Nat : l = Len(t) /\ l >= 2
  OBVIOUS
<1> DEFINE w == [n \in 1 .. l |-> Whole(t[n])]
<1>2. w \in [1 .. l -> Nat]
  BY <1>1, WholeIs
<1>3. /\ w[l - 1] < w[l]
      /\ \A m, n \in 1 .. l : m < n /\ n # l => w[m] < w[n]
  BY <1>1
<1>4. \A m, n \in 1 .. l : m < n => w[m] < w[n]
  <2> HIDE DEF w
  <2>1. l - 1 \in 1 .. l /\ w[l - 1] \in Nat /\ w[l] \in Nat
    BY <1>1, <1>2
  <2>2. ASSUME NEW m \in 1 .. l, m < l PROVE w[m] < w[l]
    <3>1. w[m] \in Nat /\ (m # l - 1 => w[m] < w[l - 1])
      BY <1>1, <1>2, <1>3, <2>1, <2>2
    <3> QED
      BY <1>3, <2>1, <3>1
  <2> QED
    BY <1>3, <2>2
<1> QED
  BY <1>1, <1>4

LEMMA NextTrialKeeps == ScriptsInv /\ NextTrial => ScriptsInv'
<1> SUFFICES ASSUME ScriptsInv, NextTrial PROVE ScriptsInv'
  OBVIOUS
<1> USE DEF ScriptsInv, NextTrial
<1>1. TypeOK'
  BY Constants, Shares DEF TypeOK, StartFind, Phases, NoLog, None, Line
<1>2. topcheck \in Seq(Average) /\ Len(topcheck) >= 2
      /\ Whole(topcheck[Len(topcheck) - 1]) < Whole(topcheck[Len(topcheck)])
  <2>1. topcheck \in Seq(Average) /\ \A n \in DOMAIN topcheck : Whole(topcheck[n]) \in Nat
    BY WholeIs DEF TypeOK
  <2>2. Len(topcheck) >= 1 /\ Before(Len(topcheck)) \in DOMAIN topcheck
    BY <2>1 DEF Lines, TypeOK, Before
  <2>3. Whole(topcheck[Before(Len(topcheck))]) < Whole(topcheck[Len(topcheck)])
    BY <2>1, <2>2 DEF Saturated
  <2> QED
    BY <2>1, <2>2, <2>3 DEF Before
<1>3. (Lines /\ Averages)'
  <2>1. trial \in Nat /\ trial' = trial + 1 /\ Len(top2w) \in Nat /\ Len(top2w) <= trial
    BY Constants DEF StartFind, TypeOK, Lines
  <2>2. Lines'
    BY <2>1 DEF Lines, StartFind
  <2>3. Averages'
    BY DEF StartFind, Averages, NoLog
  <2> QED
    BY <2>2, <2>3
<1>4. Climbs'
  <2>1. \A m, n \in DOMAIN topcheck : m < n => Whole(topcheck[m]) < Whole(topcheck[n])
    <3>1. \A m, n \in DOMAIN topcheck :
            m < n /\ n # Len(topcheck) => Whole(topcheck[m]) < Whole(topcheck[n])
      BY DEF Climbs
    <3> QED
      BY <1>2, <3>1, ClimbGoesOn
  <2> QED
    BY <2>1 DEF Climbs, StartFind
<1>5. Idle'
  BY DEF StartFind, Idle, Complete, NoLog
<1>6. check_date # None
  BY DEF InDate, TypeOK, None
<1>7. (~untidy => Tidy /\ Followed)'
  BY <1>6 DEF StartFind, Tidy, Followed, Running, TypeOK
<1> QED
  BY <1>1, <1>3, <1>4, <1>5, <1>7 DEF StartFind, BestIsOfItsTrial, BestWithinOne

LEMMA BeforeLast ==
  ASSUME NEW n \in Nat \ {0}
  PROVE  /\ Before(n) \in 1 .. n /\ n - 1 \in 0 .. n
         /\ n >= 2 => Before(n) = n - 1 /\ n - 1 \in 1 .. n
BY DEF Before

\* A campaign that finds saturation or has no trials left has a line before
\* the last, which saturation shows to be the greatest but for the last.
LEMMA FinishKeeps == ScriptsInv /\ Finish => ScriptsInv'
<1> SUFFICES ASSUME ScriptsInv, Finish PROVE ScriptsInv'
  OBVIOUS
<1> USE DEF ScriptsInv, Finish
<1> DEFINE l == Len(top2w)
           b == Before(l)
<1>1. /\ l \in Nat \ {0} /\ l <= trial /\ trial \in Nat
      /\ topcheck \in Seq(Average) /\ Len(topcheck) = l + 1
      /\ top2w \in Seq(Line)
  BY DEF TypeOK, Lines
<1>2. b \in 1 .. l /\ l - 1 \in 0 .. Trials /\ top2w[b] \in Line
  <2>1. trial \in 0 .. Trials
    BY DEF TypeOK
  <2>2. b \in 1 .. l /\ l - 1 \in 0 .. Trials
    <3> HIDE DEF l
    <3>1. Before(l) \in 1 .. l /\ l - 1 \in 0 .. l
      BY <1>1, BeforeLast
    <3> QED
      BY <1>1, <2>1, <3>1, Constants
  <2>3. DOMAIN top2w = 1 .. l
    BY <1>1
  <2> HIDE DEF b, l
  <2>4. \A n \in DOMAIN top2w : top2w[n] \in Line
    BY <1>1
  <2> QED
    BY <2>2, <2>3, <2>4
<1>3. best' = [trial |-> l - 1, top1 |-> top2w[b].top1]
  BY DEF BestWeight
<1>4. weights' \in [1 .. Trials + 1 -> {"none", "own", "left"}]
      /\ \A t \in 1 .. Trials + 1 : weights'[t] = IF t <= Removed THEN "none" ELSE weights[t]
  BY DEF Kept, TypeOK
<1>5. TypeOK'
  <2>1. best' \in [trial : 0 .. Trials, top1 : 0 .. Iters]
    BY <1>2, <1>3, Constants DEF Line, Weight
  <2> QED
    BY <1>4, <2>1 DEF TypeOK, Phases
<1>6. (Lines /\ Averages /\ Climbs)'
  BY DEF Lines, Averages, Climbs, Running
<1>7. Idle'
  BY DEF Idle
<1>8. ASSUME ~untidy' PROVE Tidy' /\ Followed'
  <2>1. Tidy /\ Followed
    BY <1>8
  <2>2. Tidy'
    BY <1>4, <2>1 DEF Tidy, Running
  <2> QED
    BY <2>1, <2>2 DEF Followed, Running
<1>9. ASSUME Saturated PROVE l >= 2
  <2>1. ASSUME Len(topcheck) = 2 PROVE FALSE
    <3>1. Whole(topcheck[2]) <= Whole(topcheck[1])
      BY <1>9, <2>1 DEF Saturated, Before
    <3>2. Whole(topcheck[1]) = 0 /\ Whole(topcheck[2]) >= 1 /\ Whole(topcheck[2]) \in Nat
      BY <1>1, <2>1, WholeIs DEF Averages
    <3> QED
      BY <3>1, <3>2
  <2> HIDE DEF l
  <2> QED
    BY <1>1, <2>1
<1>10. ASSUME ~untidy PROVE l >= 2
  <2>1. CASE trial = Trials
    <3>1. l = trial \/ l = trial - 1
      BY <1>1, <1>10 DEF Followed, InDate, TypeOK, None
    <3> QED
      BY <1>1, <2>1, <3>1, Constants
  <2> QED
    BY <1>9, <2>1
<1>11. ASSUME ~untidy PROVE l - 1 \in DOMAIN top2w /\ best' = top2w[l - 1]
  <2>1. l - 1 \in DOMAIN top2w /\ top2w[l - 1] \in Line /\ b = l - 1
    <3>1. b = l - 1 /\ l - 1 \in 1 .. l
      <4> HIDE DEF l
      <4> QED
        BY <1>1, <1>10, <1>11, BeforeLast
    <3>2. DOMAIN top2w = 1 .. l
      BY <1>1
    <3> HIDE DEF l, b
    <3> QED
      BY <1>2, <3>1, <3>2
  <2>2. top2w[l - 1].trial = l - 1
    BY <1>11, <2>1 DEF Followed
  <2> QED
    BY <1>3, <2>1, <2>2 DEF Line
<1>12. BestIsOfItsTrial'
  BY <1>11 DEF BestIsOfItsTrial
<1>13. ASSUME Saturated, ~untidy
       PROVE  /\ \A m \in 1 .. Len(topcheck) - 1 : ~IsLess(topcheck[l], topcheck[m])
              /\ IsLess(topcheck[Len(topcheck)], OneMore(topcheck[l]))
  <2>1. l >= 2 /\ Whole(topcheck[l + 1]) <= Whole(topcheck[l])
    BY <1>1, <1>9, <1>13 DEF Saturated, Before
  <2>2. topcheck[l] \in Average /\ topcheck[l + 1] \in Average
    BY <1>1, <2>1
  <2>3. ASSUME NEW m \in 1 .. Len(topcheck) - 1
        PROVE  ~IsLess(topcheck[l], topcheck[m])
    <3>1. topcheck[m] \in Average /\ m \in 1 .. l
      BY <1>1
    <3>2. CASE m = l
      BY <2>2, <3>2 DEF Average, IsLess
    <3>3. CASE m < l
      <4>1. Whole(topcheck[m]) < Whole(topcheck[l])
        BY <1>1, <2>1, <3>3 DEF Climbs
      <4> QED
        BY <2>2, <3>1, <4>1, CompareWholes
    <3> QED
      BY <1>1, <3>1, <3>2, <3>3
  <2>4. IsLess(topcheck[l + 1], OneMore(topcheck[l]))
    BY <2>1, <2>2, CompareWholes
  <2> QED
    BY <1>1, <2>3, <2>4
<1>14. BestWithinOne'
  <2> SUFFICES ASSUME phase' = "saturated", ~untidy'
               PROVE  BestWithinOne'
    BY DEF BestWithinOne
  <2>1. Saturated /\ ~untidy
    OBVIOUS
  <2>2. l - 1 \in DOMAIN top2w' /\ best' = top2w'[l - 1] /\ l - 1 + 1 = l
    BY <1>1, <1>11, <2>1
  <2>3. /\ \A m \in 1 .. Len(topcheck') - 1 : ~IsLess(topcheck'[l - 1 + 1], topcheck'[m])
        /\ IsLess(topcheck'[Len(topcheck')], OneMore(topcheck'[l - 1 + 1]))
    BY <1>13, <2>1, <2>2
  <2> HIDE DEF l
  <2> QED
    BY <2>2, <2>3 DEF BestWithinOne
<1> QED
  BY <1>5, <1>6, <1>7, <1>8, <1>12, <1>14

LEMMA CrashKeeps == ScriptsInv /\ Crash => ScriptsInv'
<1> SUFFICES ASSUME ScriptsInv, Crash PROVE ScriptsInv'
  OBVIOUS
<1> USE DEF ScriptsInv, Crash
<1>1. TypeOK'
  BY DEF TypeOK, Phases
<1>2. (Lines /\ Averages /\ Climbs /\ Idle)'
  BY DEF Lines, Averages, Climbs, Idle, Running
<1>3. (~untidy => Tidy /\ Followed)'
  BY DEF Tidy, Followed, Running
<1> QED
  BY <1>1, <1>2, <1>3 DEF BestIsOfItsTrial, BestWithinOne

LEMMA StutterKeeps == ScriptsInv /\ UNCHANGED scriptVars => ScriptsInv'
<1> SUFFICES ASSUME ScriptsInv, UNCHANGED scriptVars PROVE ScriptsInv'
  OBVIOUS
<1> USE DEF scriptVars
<1>1. TypeOK' = TypeOK
  BY DEF TypeOK
<1>2. Lines' = Lines /\ Averages' = Averages /\ Climbs' = Climbs /\ Idle' = Idle
  BY DEF Lines, Averages, Climbs, Idle, Complete, Running
<1>3. Tidy' = Tidy /\ Followed' = Followed /\ untidy' = untidy
  BY DEF Tidy, Followed, Running
<1>4. BestIsOfItsTrial' = BestIsOfItsTrial /\ BestWithinOne' = BestWithinOne
  BY DEF BestIsOfItsTrial, BestWithinOne
<1> HIDE DEF scriptVars
<1> QED
  BY <1>1, <1>2, <1>3, <1>4 DEF ScriptsInv

-----------------------------------------------------------------------------
\* Every step of the scripts, and every month and campaign between them, keeps
\* the files as the next script expects them, whatever fails.
THEOREM ScriptsInvariant == SpecScripts => []ScriptsInv
<1>1. InitScripts => ScriptsInv
  BY InitKeeps
<1>2. ScriptsInv /\ [NextScripts]_scriptVars => ScriptsInv'
  <2> SUFFICES ASSUME ScriptsInv, [NextScripts]_scriptVars PROVE ScriptsInv'
    OBVIOUS
  <2>1. CASE \E p \in Process : Find(p)
    BY <2>1, FindKeeps
  <2>2. CASE StartCheck
    BY <2>2, StartCheckKeeps
  <2>3. CASE \E w \in Weight : Check(w)
    BY <2>3, CheckKeeps
  <2>4. CASE Refine
    BY <2>4, RefineKeeps
  <2>5. CASE NextTrial
    BY <2>5, NextTrialKeeps
  <2>6. CASE Finish
    BY <2>6, FinishKeeps
  <2>7. CASE Crash
    BY <2>7, CrashKeeps
  <2>8. CASE StartCampaign
    BY <2>8, StartCampaignKeeps
  <2>9. CASE NewMonth
    BY <2>9, NewMonthKeeps
  <2>10. CASE UNCHANGED scriptVars
    BY <2>10, StutterKeeps
  <2> QED
    BY <2>1, <2>2, <2>3, <2>4, <2>5, <2>6, <2>7, <2>8, <2>9, <2>10 DEF NextScripts, Step
<1> QED
  BY <1>1, <1>2, PTL DEF SpecScripts

\* The variables of fullauto.py and its subscripts, and what their files say,
\* stay of their types: no process leaves its weights, no list of lines its form.
THEOREM ScriptsTypeCorrect == SpecScripts => []TypeOK
<1>1. ScriptsInv => TypeOK
  BY DEF ScriptsInv
<1> QED
  BY <1>1, ScriptsInvariant, PTL

\* The weights 1find.py and refine_w.py find were made in their own campaign, as
\* long as every campaign before it has removed all directories it made.
THEOREM WeightsStayOwn == SpecScripts => []WeightsOwn
<1>1. ScriptsInv => WeightsOwn
  BY DEF ScriptsInv, TypeOK, Tidy, WeightsOwn
<1> QED
  BY <1>1, ScriptsInvariant, PTL

\* When fullauto.py prints success, best.w is the best weight of the trial whose
\* directory it is copied from, although line and directory are counted apart;
\* except where an earlier campaign crashed or left weights by its many trials.
THEOREM BestFromItsTrial == SpecScripts => []BestIsOfItsTrial
<1>1. ScriptsInv => BestIsOfItsTrial
  BY DEF ScriptsInv
<1> QED
  BY <1>1, ScriptsInvariant, PTL

\* After saturation, with that exception, the trial that best.w is of has an
\* average that no trial before the last one exceeds, and the last one by less
\* than 1, the comparison of fullauto.py being one of integer parts.
THEOREM BestFromTrialWithinOne == SpecScripts => []BestWithinOne
<1>1. ScriptsInv => BestWithinOne
  BY DEF ScriptsInv
<1> QED
  BY <1>1, ScriptsInvariant, PTL
=============================================================================
