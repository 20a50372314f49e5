---------------------------- MODULE FindCheckRefine ----------------------------
(***************************************************************************)
(* scripts/fullauto.py and its subscripts: campaign after campaign, each   *)
(* for a program of its own, of trials that run the search with sets of    *)
(* weights (1find.py), run the best of these again (2check.py, check_w.py) *)
(* and make the next weights from the best two (3refine.py, refine_w.py).  *)
(* The scripts share files only, in directories named by the month in      *)
(* which a script starts.  A script that raises an exception ends, and the *)
(* next one is started all the same; fullauto.py too may raise one.        *)
(***************************************************************************)
EXTENDS Naturals, Sequences, FiniteSets, FiniteSetsExt

CONSTANTS
  Iters,      \* n_iter: the weights of a trial
  Parallel,   \* n_parallel: the processes of 1find.py
  Coverage,   \* how many branches a search may cover
  Top,        \* how many weights are checked (10)
  Runs,       \* and how often each (10)
  Enough,     \* the runs without which a weight has no average (5)
  Trials,     \* the trials of a campaign (19)
  Removed,    \* the directories of weights that are removed after it (9)
  Campaigns,  \* bounds the campaigns
  Months      \* and the months in which they run

ScriptsAssumption ==
  /\ {Iters, Parallel, Top, Runs, Enough, Removed, Campaigns, Months} \subseteq Nat \ {0}
  /\ Trials \in Nat \ {0, 1, 2}
  /\ Coverage \subseteq Nat \ {0} /\ IsFiniteSet(Coverage)
ASSUME ScriptsAssumption

VARIABLES
  month,
  campaign,    \* how many have been started
  date,        \* configs['date'] of fullauto.py
  phase,       \* the script that runs
  trial,       \* i
  weights,     \* which directories <n>_weights there are, and since when
  find_date,   \* the month in the name of the directory of 1find.py, and of
  check_date,  \* that of check_w.py; None if it was not made
  next_idx,    \* idx of each process of 1find.py
  left,        \* the runs left to each process of check_w.py
  logs,        \* what the complete logs of the trial say, for each weight
  topcheck,    \* the averages in the lines of ..._topcheck_log
  top2w,       \* the lines of top2w_..._log, each with the trial it is of
  best,        \* the weight that best.w is copied from
  untidy       \* an earlier campaign has left directories of weights

scriptVars == << month, campaign, date, phase, trial, weights, find_date, check_date,
                 next_idx, left, logs, topcheck, top2w, best, untidy >>

None == 0

Weight == 1 .. Iters
Process == 1 .. Parallel

\* The weights of a process: a remainder of the division is nobody's.
count == Iters \div Parallel

\* Mutant of First: the weights are counted from 0.
FirstFromZero(p) == (p - 1) * count

First(p) == (p - 1) * count + 1

Done(p) == p * count + 1

\* No complete log, and no weight.
NoLog == [n |-> 0, sum |-> 0]
NoBest == [trial |-> 0, top1 |-> 0]

\* An average is a sum and by what it is divided.  The log starts with a zero.
Zero == [sum |-> 0, n |-> 1]

IsLess(a, b) == a.sum * b.n < b.sum * a.n

InitScripts ==
  /\ month = 1 /\ campaign = 0 /\ date = 1
  /\ phase = "ended" /\ trial = 0
  /\ weights = [t \in 1 .. Trials + 1 |-> "none"]
  /\ find_date = None /\ check_date = None
  /\ next_idx = [p \in Process |-> Done(p)]
  /\ left = [w \in Weight |-> 0]
  /\ logs = [w \in Weight |-> NoLog]
  /\ topcheck = << Zero >> /\ top2w = << >>
  /\ best = NoBest /\ untidy = FALSE

NewMonth ==
  /\ month < Months
  /\ month' = month + 1
  /\ UNCHANGED << campaign, date, phase, trial, weights, find_date, check_date, next_idx,
                  left, logs, topcheck, top2w, best, untidy >>

Ended == phase \in {"ended", "saturated", "exhausted", "crashed"}

\* os.mkdir fails, and what is there stays, if there is such a directory.
Made(t) ==
  [weights EXCEPT ![t] = IF @ = "none" THEN "own" ELSE @]

\* 1find.py starts.
StartFind(t) ==
  /\ phase' = "find" /\ trial' = t
  /\ find_date' = month /\ check_date' = None
  /\ next_idx' = [p \in Process |-> First(p)]
  /\ logs' = [w \in Weight |-> NoLog]

\* fullauto.py is started for another program.  Weights that an earlier
\* campaign has left are of that program.
StartCampaign ==
  /\ Ended /\ campaign < Campaigns
  /\ campaign' = campaign + 1 /\ date' = month
  /\ StartFind(1)
  /\ weights' = [t \in DOMAIN weights |-> IF weights[t] # "none" THEN "left"
                                          ELSE IF t = 1 THEN "own" ELSE "none"]
  /\ topcheck' = << Zero >> /\ top2w' = << >> /\ best' = NoBest
  /\ untidy' = \/ untidy \/ phase = "crashed"
               \/ phase # "ended" /\ trial + 1 > Removed
  /\ UNCHANGED << month, left >>

\* Mutant of Died: the weight is tried again.
Retries(p) == next_idx

\* An exception ends the process.
Died(p) == [next_idx EXCEPT ![p] = Done(p)]

\* A process of 1find.py runs the search with a weight.  A log may not be
\* complete, and if there is none shutil.move raises an exception.
Find(p) ==
  /\ phase = "find" /\ next_idx[p] < Done(p)
  /\ \/ /\ weights[trial] # "none"
        /\ \E c \in Coverage : logs' = [logs EXCEPT ![next_idx[p]] = [n |-> 1, sum |-> c]]
        /\ next_idx' = [next_idx EXCEPT ![p] = @ + 1]
     \/ /\ weights[trial] # "none"
        /\ next_idx' = [next_idx EXCEPT ![p] = @ + 1] /\ logs' = logs
     \/ next_idx' = Died(p) /\ logs' = logs
  /\ UNCHANGED << month, campaign, date, phase, trial, weights, find_date, check_date, left,
                  topcheck, top2w, best, untidy >>

Complete == {w \in Weight : logs[w].n > 0}

\* The weights that 2check.py lists.
IsTop(tops) ==
  /\ tops \subseteq Complete
  /\ \A w \in tops : \A v \in Complete \ tops : logs[v].sum <= logs[w].sum
  /\ Cardinality(tops) = Min({Top, Cardinality(Complete)})

\* 2check.py reads the logs, if it finds them, and starts check_w.py, which
\* cannot do with an empty list.
StartCheck ==
  /\ phase = "find"
  /\ \A p \in Process : next_idx[p] = Done(p)
  /\ phase' = "check"
  /\ IF find_date = month /\ Complete # {}
     THEN \E tops \in SUBSET Weight :
            /\ IsTop(tops)
            /\ left' = [w \in Weight |-> IF w \in tops THEN Runs ELSE 0]
            /\ check_date' = month
     ELSE UNCHANGED << left, check_date >>
  /\ logs' = [w \in Weight |-> NoLog]
  /\ UNCHANGED << month, campaign, date, trial, weights, find_date, next_idx, topcheck, top2w,
                  best, untidy >>

\* The process of a weight runs the search once more.
Check(w) ==
  /\ phase = "check" /\ left[w] > 0
  /\ \/ /\ \E c \in Coverage : logs' = [logs EXCEPT ![w] = [n |-> @.n + 1, sum |-> @.sum + c]]
        /\ left' = [left EXCEPT ![w] = @ - 1]
     \/ left' = [left EXCEPT ![w] = @ - 1] /\ logs' = logs
     \/ left' = [left EXCEPT ![w] = 0] /\ logs' = logs
  /\ UNCHANGED << month, campaign, date, phase, trial, weights, find_date, check_date, next_idx,
                  topcheck, top2w, best, untidy >>

\* What 3refine.py needs: every weight that has a complete log has enough.
Averaged ==
  /\ check_date = month /\ Complete # {}
  /\ \A w \in Complete : logs[w].n >= Enough

\* The average of w is the greatest.
IsTop1(w) == w \in Complete /\ \A v \in Complete : ~IsLess(logs[w], logs[v])

Refine ==
  /\ phase = "check"
  /\ \A w \in Weight : left[w] = 0
  /\ phase' = "refined"
  /\ IF Averaged
     THEN \E top1 \in Weight :
            /\ IsTop1(top1)
            /\ topcheck' = Append(topcheck, [sum |-> logs[top1].sum, n |-> logs[top1].n])
            /\ top2w' = Append(top2w, [trial |-> trial, top1 |-> top1])
            /\ weights' = Made(trial + 1)
     ELSE UNCHANGED << topcheck, top2w, weights >>
  /\ UNCHANGED << month, campaign, date, trial, find_date, check_date, next_idx, left, logs,
                  best, untidy >>

\* The line before the last of n: lines[-1] is the last one.
Before(n) == IF n = 1 THEN 1 ELSE n - 1

\* int(float(...)) of a line.
Whole(a) == a.sum \div a.n

Saturated == Whole(topcheck[Len(topcheck)]) <= Whole(topcheck[Before(Len(topcheck))])

\* Both directories are where fullauto.py looks for them.
InDate == find_date = date /\ check_date = date

NextTrial ==
  /\ phase = "refined" /\ InDate /\ ~Saturated /\ trial < Trials
  /\ StartFind(trial + 1)
  /\ UNCHANGED << month, campaign, date, weights, left, topcheck, top2w, best, untidy >>

\* Mutant of BestWeight: of the last line.
LastWeight == [trial |-> Len(top2w), top1 |-> top2w[Len(top2w)].top1]

\* Mutant of BestWeight: the directory of the last trial.
WeightOfNext == [trial |-> Len(top2w), top1 |-> top2w[Before(Len(top2w))].top1]

\* The directory is named by the number of lines.
BestWeight == [trial |-> Len(top2w) - 1, top1 |-> top2w[Before(Len(top2w))].top1]

\* Mutant of Kept: one directory less is removed.
KeptOneMore == [t \in DOMAIN weights |-> IF t < Removed THEN "none" ELSE weights[t]]

Kept == [t \in DOMAIN weights |-> IF t <= Removed THEN "none" ELSE weights[t]]

\* best.w is copied, directories of weights are removed, and success is printed.
Finish ==
  /\ phase = "refined" /\ InDate /\ top2w # << >>
  /\ Saturated \/ trial = Trials
  /\ phase' = IF Saturated THEN "saturated" ELSE "exhausted"
  /\ best' = BestWeight
  /\ weights' = Kept
  /\ UNCHANGED << month, campaign, date, trial, find_date, check_date, next_idx, left, logs,
                  topcheck, top2w, untidy >>

\* os.chdir or open raises an exception.
Crash ==
  /\ phase = "refined"
  /\ InDate => (Saturated \/ trial = Trials) /\ top2w = << >>
  /\ phase' = "crashed"
  /\ UNCHANGED << month, campaign, date, trial, weights, find_date, check_date, next_idx, left,
                  logs, topcheck, top2w, best, untidy >>

Step ==
  \/ \E p \in Process : Find(p)
  \/ StartCheck
  \/ \E w \in Weight : Check(w)
  \/ Refine \/ NextTrial \/ Finish \/ Crash

NextScripts == Step \/ StartCampaign \/ NewMonth

SpecScripts == InitScripts /\ [][NextScripts]_scriptVars

\* Every script that is running goes on; nobody need start a campaign.
FairScripts == SpecScripts /\ WF_scriptVars(Step)
-----------------------------------------------------------------------------
(***************************************************************************)
(* Properties.                                                             *)
(***************************************************************************)
Phases == {"ended", "find", "check", "refined", "saturated", "exhausted", "crashed"}
Line == [trial : 1 .. Trials, top1 : Weight]
Average == [sum : Nat, n : Nat \ {0}]

TypeOK ==
  /\ month \in 1 .. Months /\ date \in 1 .. month
  /\ campaign \in 0 .. Campaigns
  /\ phase \in Phases
  /\ trial \in 0 .. Trials
  /\ weights \in [1 .. Trials + 1 -> {"none", "own", "left"}]
  /\ find_date \in 0 .. month /\ check_date \in 0 .. month
  /\ next_idx \in [Process -> 1 .. Iters + 1]
  /\ left \in [Weight -> 0 .. Runs]
  /\ logs \in [Weight -> [n : Nat, sum : Nat]]
  /\ topcheck \in Seq(Average) /\ top2w \in Seq(Line)
  /\ best \in [trial : 0 .. Trials, top1 : 0 .. Iters]
  /\ untidy \in BOOLEAN

\* The weights that a campaign tries were made in it, as long as no campaign
\* before it crashed or took so many trials that directories were not removed.
WeightsOwn == ~untidy => \A t \in DOMAIN weights : weights[t] # "left"

\* Unless an earlier campaign has left weights in that way, best.w is the best
\* weight of one of the trials, copied from the directory of that trial, whatever
\* searches of the campaign died, wrote no log or came in another month.
BestIsOfItsTrial ==
  phase \in {"saturated", "exhausted"} /\ ~untidy => \E n \in DOMAIN top2w : best = top2w[n]

OneMore(a) == [a EXCEPT !.sum = @ + a.n]

\* After saturation, with the same exception, no trial before the last one has
\* a greater average than the trial that best.w is of; the average of the last,
\* which is thrown away, may be greater, but by less than one branch.
BestWithinOne ==
  phase = "saturated" /\ ~untidy =>
    \E n \in DOMAIN top2w :
      /\ best = top2w[n]
      /\ \A m \in 1 .. Len(topcheck) - 1 : ~IsLess(topcheck[n + 1], topcheck[m])
      /\ IsLess(topcheck[Len(topcheck)], OneMore(topcheck[n + 1]))

\* A campaign ends, with success or with an exception.
CampaignEnds == phase = "find" ~> Ended
=============================================================================
