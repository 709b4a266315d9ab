----------------------------- MODULE TestRunner -----------------------------
(***************************************************************************)
(* What run_tests (runschedtests.py) promises, without worlds or ids: the  *)
(* tests of the list run strictly one after another, in list order; each  *)
(* is first set up, then measured (run + results + shutdown), and only a  *)
(* measured test counts as finished. The run ends either after the last  *)
(* test ("done") or at the first uncaught exception ("fatal").            *)
(***************************************************************************)
EXTENDS Naturals

CONSTANT NumTests          \* Len of the test list handed to run_tests

ASSUME NumTests \in Nat \ {0}

VARIABLES
  finished,   \* how many tests of the list have been measured
  phase       \* "setup" | "measure" of test finished + 1, or "done" | "fatal"

vars == <<finished, phase>>

Init == finished = 0 /\ phase = "setup"

\* every world of the test has been started: the test runs
SetUp == phase = "setup" /\ phase' = "measure" /\ UNCHANGED finished

\* the test has been measured and shut down; the next one, if any, follows
Measured ==
  /\ phase = "measure"
  /\ finished' = finished + 1
  /\ phase' = IF finished + 1 = NumTests THEN "done" ELSE "setup"

\* an exception escapes setup or results and ends the program
Fail == phase \in {"setup", "measure"} /\ phase' = "fatal" /\ UNCHANGED finished

Next == SetUp \/ Measured \/ Fail

\* the runner is one thread that always makes progress
Spec == Init /\ [][Next]_vars /\ WF_vars(Next)

=============================================================================
