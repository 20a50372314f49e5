----------------------------- MODULE RandomSearch -----------------------------
(***************************************************************************)
(* The strategies "-random" and "-random_input": classes RandomSearch and  *)
(* RandomInputSearch.  local.ex is ex_, local.count the variable of Run,   *)
(* and local.idxs the indices that SolveRandomBranch has not tried yet,    *)
(* outside that function << >>.                                            *)
(***************************************************************************)
EXTENDS Search

CONSTANTS
  RandomTries,  \* the fruitless iterations before a restart (10000)
  SolveTries    \* the indices tried by SolveRandomBranch (1000)

RandomAssumption == RandomTries \in Nat \ {0} /\ SolveTries \in Nat \ {0}
ASSUME RandomAssumption

InitRandom == local = [ex |-> NULL, count |-> 0, idxs |-> << >>]

Choosing == local.ex # NULL /\ local.idxs # << >>
Untried == local.idxs[1]
MoreTries ==
  Untried # {} /\ Len(local.ex.constraints) - Cardinality(Untried) < SolveTries

RandomStart ==
  /\ local.ex = NULL
  /\ Launch(InitialInput, [ex |-> szd_execution', count |-> 0, idxs |-> << >>])
  /\ UNCHANGED statistics

RandomIterate ==
  /\ local.ex # NULL /\ ~Choosing
  /\ local' = IF local.count < RandomTries
                THEN [local EXCEPT !.count = @ + 1,
                                   !.idxs = << 1 .. Len(local.ex.constraints) >>]
                ELSE [local EXCEPT !.ex = NULL]
  /\ NoRun
  /\ UNCHANGED statistics

RandomGiveUp ==
  /\ Choosing /\ ~MoreTries
  /\ local' = [local EXCEPT !.idxs = << >>]
  /\ NoRun
  /\ UNCHANGED statistics

RandomUnsolved(k) ==
  /\ Choosing /\ MoreTries /\ k \in Untried
  /\ SolveFails(local.ex, k)
  /\ local' = [local EXCEPT !.idxs = << Untried \ {k} >>]
  /\ NoRun

\* A run that covers a new branch or goes as predicted is searched from next.
RandomAfterRun(ex, k) ==
  [ex    |-> IF FoundNewBranch(ex) \/ Predicted(local.ex, ex, k) THEN ex ELSE local.ex,
   count |-> IF FoundNewBranch(ex) THEN 0 ELSE local.count,
   idxs  |-> << >>]

RandomForce(k) ==
  /\ Choosing /\ MoreTries /\ k \in Untried
  /\ \E input \in CanSolve(local.ex, k) : Launch(input, RandomAfterRun(szd_execution', k))
  /\ SolveSucceeds

NextRandom ==
  \/ RandomStart \/ RandomIterate \/ RandomGiveUp
  \/ Choosing /\ \E k \in Untried : RandomUnsolved(k) \/ RandomForce(k)

-----------------------------------------------------------------------------
\* The first run of RandomInputSearch is not counted by UpdateCoverage.
RandomInputStart ==
  /\ local.ex = NULL
  /\ \/ /\ \E a \in Completions(InitialInput) : RunProgram(a)
        /\ local' = [local EXCEPT !.ex = szd_execution']
        /\ UNCHANGED coverageVars
     \/ PrintFinalResult /\ UNCHANGED local
  /\ UNCHANGED statistics

\* RandomInput gives every variable of the last execution a random value, and
\* the program makes up the others.
RandomInputRun ==
  /\ local.ex # NULL
  /\ Launch(<< >>, [local EXCEPT !.ex = szd_execution'])
  /\ UNCHANGED statistics

NextRandomInput == RandomInputStart \/ RandomInputRun
=============================================================================
