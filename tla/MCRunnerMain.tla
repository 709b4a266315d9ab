---------------------------- MODULE MCRunnerMain ----------------------------
(***************************************************************************)
(* Model-checking instance of RunnerMain: every option of the getopt       *)
(* string "Nht:n:vVBS:b" (with a good and a bad value where it takes one)  *)
(* plus an unknown one, in lists of up to two, and argument lists that     *)
(* name all suites, one suite, two suites, an unknown suite or none.       *)
(***************************************************************************)
EXTENDS RunnerMain

\* the suite names in the order of the all_tests dict literal
MCKeyOrder == <<"fairness", "perfstats", "minmax", "affinity", "vmkstats",
                "affintorture", "htsharing">>

MCOptChoices ==
  {[o |-> f, val |-> NoVal] : f \in {"-v", "-V", "-N", "-B", "-b", "-h", "-x"}}
  \cup {[o |-> "-t", val |-> v] : v \in {10, Bad}}
  \cup {[o |-> "-S", val |-> v] : v \in {2, Bad}}
  \cup {[o |-> "-n", val |-> v] : v \in {<<1>>, <<0, 3>>, Bad}}

MCArgChoices ==
  {<<>>, <<"all">>, <<"htsharing">>, <<"affinity", "minmax">>,
   <<"minmax", "bogus">>}
=============================================================================
