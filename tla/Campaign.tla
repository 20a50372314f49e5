------------------------------ MODULE Campaign ------------------------------
(***************************************************************************)
(* What run_crest promises whatever its strategy (src/README.md, "the      *)
(* number of executions of the program"): it runs the program at most      *)
(* MaxIters times, counts the branches that the runs cover, stops, and     *)
(* then reports the branches it counted.                                   *)
(***************************************************************************)
EXTENDS Naturals

CONSTANTS
  MaxIters,  \* the testing budget
  Branch     \* the branches of the program

VARIABLES
  observations,  \* the sets of branches that one run can cover
  launches,      \* runs of the program so far
  found,         \* branches they covered
  report,        \* what is reported at the end
  running        \* the campaign goes on

vars == << observations, launches, found, report, running >>

Init ==
  /\ observations \subseteq SUBSET Branch
  /\ launches = 0
  /\ found = {}
  /\ report = {}
  /\ running = TRUE

Launch ==
  /\ running
  /\ launches < MaxIters
  /\ launches' = launches + 1
  /\ \E seen \in observations : found' = found \cup seen
  /\ UNCHANGED << observations, report, running >>

Finish ==
  /\ running
  /\ running' = FALSE
  /\ report' = found
  /\ UNCHANGED << observations, launches, found >>

Next == Launch \/ Finish

Spec == Init /\ [][Next]_vars
=============================================================================
