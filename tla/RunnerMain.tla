----------------------------- MODULE RunnerMain -----------------------------
(***************************************************************************)
(* The program around the tests: runschedtests.py's __main__ (option loop, *)
(* test generation through schedtests.py, the -n filter, the three output  *)
(* modes), run_tests / run_batch_tests, and the optional CpuBurner thread. *)
(*                                                                         *)
(* A test is abstracted to one step that completes or raises (its worlds   *)
(* and verdicts are WorldLifecycle's and TestResults' business). A suite   *)
(* is the number of tests its get_*_tests() returns. Two threads: main,    *)
(* and the burner, which the interpreter waits for at exit.                *)
(*                                                                         *)
(* schedtests.py does "from runschedtests import *": that imports the file *)
(* a second time as module runschedtests, distinct from __main__. The test *)
(* classes, and so BasicTest.__init__ and BasicTest.run, read that         *)
(* module's RUN_TIME and TEST_SIZE_FACTOR; -t and -S assign __main__'s.    *)
(***************************************************************************)
EXTENDS Integers, Sequences, SequencesExt, FiniteSets, Suites

CONSTANTS
  KeyOrder,       \* all_tests.keys(): the suite names in dict order
  OptChoices,     \* options getopt may return, [o |-> flag, val |-> value]
  MaxOpts,        \* longest option list considered
  ArgChoices,     \* positional argument lists considered
  Bad,            \* an option value int() cannot parse
  NoVal,          \* no value: an option without argument, testLimits = None
  TestsMayRaise   \* TRUE: a test may raise out of run_tests

RUN_TIME == 50                 \* runschedtests.py: RUN_TIME = 50


\* get_tests(name) returns all_tests[name](): as many tests as the suite's
\* constructor in schedtests.py builds
SuiteSize(name, htNode) == Len(SuiteTests(name, htNode))

SuiteNames == Range(KeyOrder)

\* get_tests(name): all_tests[name](), the i-th test of suite name as <<name, i>>
GetTests(name, htNode) == [i \in 1..SuiteSize(name, htNode) |-> <<name, i>>]

\* get_all_tests(): every suite's tests, in all_tests.keys() order
GetAllTests(htNode) ==
  FlattenSeq([j \in 1..Len(KeyOrder) |-> GetTests(KeyOrder[j], htNode)])

\* the -n filter: position num (from 0) is kept when testLimits is None or
\* num is in it
Filter(ret, lim) ==
  LET keep == SelectSeq([i \in 1..Len(ret) |-> i],
                        LAMBDA i : lim = NoVal \/ (i - 1) \in Range(lim))
  IN  [j \in 1..Len(keep) |-> ret[keep[j]]]

MainPcs == {"main", "opts", "filter", "loop", "print", "die",
            "end", "exit", "crash"}
\* the main thread has finished: normally, by sys.exit(-1), or by an
\* uncaught exception
Ended == {"end", "exit", "crash"}

VARIABLES
  opts, args, htNode,    \* argv after getopt, and whether the HT node exists
  mpc,                   \* control point of the main thread
  oi,                    \* index of the option being processed
  verbose, printName, batchTest, testLimits, burner,
  mainRunTime, mainSize, \* __main__'s RUN_TIME and TEST_SIZE_FACTOR
  returned, toRun, num,  \* returnedTests, testsToRun, the run loop's num
  ran,                   \* history: <<test, RUN_TIME, size factor>> per test run
  reported,              \* history: <<num, test>> of each "Test [num]" line
  cause,                 \* history: what ended the main thread by an
                         \* exception: "raise" in a test, "report" in
                         \* run_tests' printing of a failure, or "none"
  bpc, die               \* burner thread: control point, self.die

vars == <<opts, args, htNode, mpc, oi, verbose, printName, batchTest,
          testLimits, burner, mainRunTime, mainSize, returned, toRun, num,
          ran, reported, cause, bpc, die>>
mainVars == <<oi, verbose, printName, batchTest, testLimits, burner,
              mainRunTime, mainSize, returned, toRun, num, ran, reported, cause>>

Init ==
  /\ opts \in UNION {[1..n -> OptChoices] : n \in 0..MaxOpts}
  /\ args \in ArgChoices
  /\ htNode \in BOOLEAN
  /\ mpc = "main" /\ oi = 1
  /\ verbose = 0 /\ printName = FALSE /\ batchTest = FALSE
  /\ testLimits = NoVal /\ burner = FALSE
  /\ mainRunTime = RUN_TIME /\ mainSize = TEST_SIZE_FACTOR
  /\ returned = <<>> /\ toRun = <<>> /\ num = 0
  /\ ran = <<>> /\ reported = <<>> /\ cause = "none"
  /\ bpc = "none" /\ die = NoVal

\* stop_timer_worlds(); getopt.getopt(), which raises on an unknown option
\* ("-x") and then "invalid options" and show_help(): sys.exit(-1)
MainStart ==
  /\ mpc = "main"
  /\ mpc' = IF \E i \in DOMAIN opts : opts[i].o = "-x" THEN "exit" ELSE "opts"
  /\ UNCHANGED <<opts, args, htNode, mainVars, bpc, die>>

-----------------------------------------------------------------------------
(* The option loop, one action per branch of its if/elif chain.            *)

Opt == opts[oi]
OptIs(flags) == mpc = "opts" /\ oi <= Len(opts) /\ Opt.o \in flags

\* -h: show_help() exits
OptHelp ==
  /\ OptIs({"-h"})
  /\ mpc' = "exit"
  /\ UNCHANGED <<opts, args, htNode, mainVars, bpc, die>>

\* -v / -V: assert verbose == 0, "Cannot combine -v and -V"
OptVerbose ==
  /\ OptIs({"-v", "-V"})
  /\ IF verbose # 0
     THEN mpc' = "crash" /\ UNCHANGED verbose
     ELSE verbose' = (IF Opt.o = "-v" THEN 1 ELSE 2) /\ UNCHANGED mpc
  /\ oi' = oi + 1
  /\ UNCHANGED <<opts, args, htNode, printName, batchTest, testLimits, burner,
                 mainRunTime, mainSize, returned, toRun, num, ran, reported, cause,
                 bpc, die>>

\* -N, -b, -B: flags; -B builds a CpuBurner (not yet started)
OptFlag ==
  /\ OptIs({"-N", "-b", "-B"})
  /\ printName' = (printName \/ Opt.o = "-N")
  /\ batchTest' = (batchTest \/ Opt.o = "-b")
  /\ burner' = (burner \/ Opt.o = "-B")
  /\ oi' = oi + 1
  /\ UNCHANGED <<opts, args, htNode, mpc, verbose, testLimits, mainRunTime,
                 mainSize, returned, toRun, num, ran, reported, cause, bpc, die>>

\* -t: RUN_TIME = int(val) in __main__; a bad value prints and sys.exit(-1)
\* -S: TEST_SIZE_FACTOR = int(val) in __main__; a bad value raises
\* -n: testLimits = map(int, val.split(",")); a bad value raises
OptValue ==
  /\ OptIs({"-t", "-S", "-n"})
  /\ IF Opt.val = Bad
     THEN mpc' = (IF Opt.o = "-t" THEN "exit" ELSE "crash")
          /\ UNCHANGED <<mainRunTime, mainSize, testLimits>>
     ELSE /\ mainRunTime' = (IF Opt.o = "-t" THEN Opt.val ELSE mainRunTime)
          /\ mainSize' = (IF Opt.o = "-S" THEN Opt.val ELSE mainSize)
          /\ testLimits' = (IF Opt.o = "-n" THEN Opt.val ELSE testLimits)
          /\ UNCHANGED mpc
  /\ oi' = oi + 1
  /\ UNCHANGED <<opts, args, htNode, verbose, printName, batchTest, burner,
                 returned, toRun, num, ran, reported, cause, bpc, die>>

\* end of the option loop; "all" in args -> get_all_tests(), else
\* get_tests(t) for each t, which raises KeyError on an unknown name
Generate ==
  /\ mpc = "opts" /\ oi > Len(opts)
  /\ IF "all" \in Range(args)
     THEN returned' = GetAllTests(htNode) /\ mpc' = "filter"
     ELSE IF Range(args) \subseteq SuiteNames
     THEN returned' = FlattenSeq([j \in 1..Len(args) |-> GetTests(args[j], htNode)])
          /\ mpc' = "filter"
     ELSE mpc' = "crash" /\ UNCHANGED returned
  /\ UNCHANGED <<opts, args, htNode, oi, verbose, printName, batchTest,
                 testLimits, burner, mainRunTime, mainSize, toRun, num, ran,
                 reported, cause, bpc, die>>

-----------------------------------------------------------------------------
(* Selection, the run loops and the burner.                                *)

\* mutant: burner.start() without its "if burner:" guard
SelectTestsUnguardedStart ==
  /\ mpc = "filter"
  /\ toRun' = Filter(returned, testLimits)
  /\ bpc' = IF toRun' # <<>> THEN "started" ELSE bpc
  /\ mpc' = CASE toRun' = <<>>           -> "exit"
              [] batchTest \/ ~printName -> "loop"
              [] OTHER                   -> "print"
  /\ UNCHANGED <<opts, args, htNode, oi, verbose, printName, batchTest,
                 testLimits, burner, mainRunTime, mainSize, returned, num,
                 ran, reported, cause, die>>

\* mutant: the burner is started before the "no tests selected" check
SelectTestsBurnerFirst ==
  /\ mpc = "filter"
  /\ toRun' = Filter(returned, testLimits)
  /\ bpc' = IF burner THEN "started" ELSE bpc
  /\ mpc' = CASE toRun' = <<>>           -> "exit"
              [] batchTest \/ ~printName -> "loop"
              [] OTHER                   -> "print"
  /\ UNCHANGED <<opts, args, htNode, oi, verbose, printName, batchTest,
                 testLimits, burner, mainRunTime, mainSize, returned, num,
                 ran, reported, cause, die>>

\* the -n filter; "no tests selected!" and show_help() exits; otherwise
\* burner.start() and one of run_batch_tests, the -N name listing, run_tests
SelectTests ==
  /\ mpc = "filter"
  /\ toRun' = Filter(returned, testLimits)
  /\ bpc' = IF burner /\ toRun' # <<>> THEN "started" ELSE bpc
  /\ mpc' = CASE toRun' = <<>>           -> "exit"
              [] batchTest \/ ~printName -> "loop"
              [] OTHER                   -> "print"
  /\ UNCHANGED <<opts, args, htNode, oi, verbose, printName, batchTest,
                 testLimits, burner, mainRunTime, mainSize, returned, num,
                 ran, reported, cause, die>>

\* the class of generated test t (<<suite, i>>)
ClassOf(t) == SuiteTests(t[1], htNode)[t[2]].class

\* results() returns [] as its errors for PerfStatsTest and VmkstatsTest
MayFail(cls) == cls \notin {"PerfStatsTest", "VmkstatsTest"}

\* the errors carry the snapshot (.sched): TestError and FairnessError
\* objects; AffinityTortureTest's errors are plain strings
ErrorsHaveSched(cls) == cls \in {"FairnessTest", "MinMaxTest"}

\* one iteration of run_tests / run_batch_tests: setup, run (sleeping the
\* runschedtests module's RUN_TIME), results, shutdown; run_tests prints
\* "Test [num]" with num counted in testsToRun, and for a failed test its
\* errors and, with -V (verbose > 1), errors[0].sched. Or an exception
\* escapes the test.
RunTest ==
  LET t == toRun[num + 1] IN
  /\ mpc = "loop" /\ num < Len(toRun)
  /\ \/ \E failed \in {FALSE} \cup (IF MayFail(ClassOf(t)) THEN {TRUE} ELSE {}) :
          LET breaks == failed /\ ~batchTest /\ verbose > 1
                        /\ ~ErrorsHaveSched(ClassOf(t))
          IN  /\ ran' = Append(ran, <<t, RUN_TIME, TEST_SIZE_FACTOR>>)
              /\ reported' = IF batchTest THEN reported
                             ELSE Append(reported, <<num, t>>)
              /\ num' = IF breaks THEN num ELSE num + 1
              /\ mpc' = IF breaks THEN "crash" ELSE mpc
              /\ cause' = IF breaks THEN "report" ELSE cause
     \/ /\ TestsMayRaise
        /\ mpc' = "crash" /\ cause' = "raise"
        /\ UNCHANGED <<ran, reported, num>>
  /\ UNCHANGED <<opts, args, htNode, oi, verbose, printName, batchTest,
                 testLimits, burner, mainRunTime, mainSize, returned, toRun,
                 bpc, die>>

LoopDone ==
  /\ mpc = "loop" /\ num = Len(toRun)
  /\ mpc' = "die"
  /\ UNCHANGED <<opts, args, htNode, mainVars, bpc, die>>

\* -N: print every name
PrintNames ==
  /\ mpc = "print"
  /\ mpc' = "die"
  /\ UNCHANGED <<opts, args, htNode, mainVars, bpc, die>>

\* if burner: burner.die = True; the main thread's code ends
SetDie ==
  /\ mpc = "die"
  /\ die' = IF burner THEN 1 ELSE die
  /\ mpc' = "end"
  /\ UNCHANGED <<opts, args, htNode, mainVars, bpc>>

\* CpuBurner.run begins: self.die = 0
BurnerRun ==
  /\ bpc = "started"
  /\ die' = 0 /\ bpc' = "looping"
  /\ UNCHANGED <<opts, args, htNode, mpc, mainVars>>

\* "while self.die != 1": the loop test that ends the thread (while die is
\* not 1 it spins without changing anything)
BurnerExit ==
  /\ bpc = "looping" /\ die = 1
  /\ bpc' = "exited"
  /\ UNCHANGED <<opts, args, htNode, mpc, mainVars, die>>

Main ==
  \/ MainStart \/ OptHelp \/ OptVerbose \/ OptFlag \/ OptValue \/ Generate
  \/ SelectTests \/ RunTest \/ LoopDone \/ PrintNames \/ SetDie

Burner == BurnerRun \/ BurnerExit

Next == Main \/ Burner

\* both are Python threads; the interpreter switches between them, so each
\* that can move eventually does
Spec == Init /\ [][Next]_vars /\ WF_vars(Main) /\ WF_vars(Burner)

-----------------------------------------------------------------------------
TypeOK ==
  /\ mpc \in MainPcs /\ oi \in 1..MaxOpts + 1
  /\ verbose \in 0..2 /\ printName \in BOOLEAN /\ batchTest \in BOOLEAN
  /\ burner \in BOOLEAN /\ num \in 0..Len(toRun)
  /\ \A j \in DOMAIN ran : ran[j][1] \in Range(returned)
  /\ bpc \in {"none", "started", "looping", "exited"} /\ die \in {NoVal, 0, 1}
  /\ bpc # "none" => burner
  /\ cause \in {"none", "raise", "report"}

(***************************************************************************)
(* The sys.exit(-1) paths (show_help for -h, an unknown option or no test  *)
(* selected, and a bad -t) leave nothing behind: no test has run and no    *)
(* CpuBurner thread was started, which the interpreter would wait for     *)
(* forever since nobody sets its die flag on these paths.                  *)
(***************************************************************************)
ExitBeforeWork == mpc = "exit" => ran = <<>> /\ bpc = "none"

(***************************************************************************)
(* The program ends: the main thread finishes and the CpuBurner thread,    *)
(* if one was started, leaves its loop, so the interpreter can exit.       *)
(***************************************************************************)
ProgramExits == <>(mpc \in Ended /\ bpc \in {"none", "exited"})

(***************************************************************************)
(* -t and -S reach the tests: every test ran for the -t seconds and with   *)
(* its world list multiplied by -S (the defaults without the options), as *)
(* the usage text promises.                                               *)
(***************************************************************************)
OptionsHonoured ==
  \A j \in DOMAIN ran : ran[j][2] = mainRunTime /\ ran[j][3] = mainSize

(***************************************************************************)
(* The number run_tests prints for a test ("Test [num]") is the number -n  *)
(* selects that test by, so a failing test can be rerun on its own.        *)
(***************************************************************************)
ReportedNumberSelects ==
  \A j \in DOMAIN reported :
    LET n == reported[j][1] IN n < Len(returned) /\ returned[n + 1] = reported[j][2]

(***************************************************************************)
(* A failed test is a soft finding: run_tests reports it FAILED and goes   *)
(* on with the next test (the spec's error-handling design). Only an      *)
(* exception out of a test itself -- a fatal harness error -- may end the *)
(* run, never the printing of a failure's errors.                          *)
(***************************************************************************)
SoftFailuresContinue == cause # "report"

=============================================================================
