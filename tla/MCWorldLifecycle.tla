------------------------- MODULE MCWorldLifecycle --------------------------
(***************************************************************************)
(* Model-checking instance of WorldLifecycle: three real tests of the     *)
(* suites of schedtests.py, each cut to its first two worlds: a basic test *)
(* without configuration (fairness #3), a timer test whose first world    *)
(* sets a min (minmax #4) and a basic test whose worlds set an affinity    *)
(* (affinity #1). A basic test follows a timer test and the other way     *)
(* round across a shutdown; a suite never mixes kinds within a test.       *)
(***************************************************************************)
EXTENDS WorldLifecycle

S == INSTANCE Suites

\* the kind of world and whether TestWorld.start writes a config node
AbstractWorld(w) == [kind |-> w.kind, cfg |-> S!WritesConfig(w)]

\* the first two worlds of test t of suite name
Prefix(name, t) ==
  [i \in 1..2 |-> AbstractWorld(S!SuiteTests(name, FALSE)[t].worlds[i])]

MCTests == << Prefix("fairness", 3), Prefix("minmax", 4), Prefix("affinity", 1) >>

\* the spin bound of TestWorld.start: "if spincount > 5"
MCMaxSpin == 5

\* room for every world both setup attempts of the three tests can create,
\* plus the console and a leftover world
MCMaxId == 14
=============================================================================
