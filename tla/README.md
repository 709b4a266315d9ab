# TLA+ models of the scheduler regression harness

The harness lives in `src/test_apps/schedtest/`. It drives synthetic workloads
("test worlds") inside a vmkernel through `/proc/vmware/...` files. It parses
the scheduler's `cpu-verbose` dump and checks fairness, min/max, affinity and
admission-control guarantees. The modules here model the harness code, with
the vmkernel as an asynchronous, nondeterministic environment. TLC checks what
the code promises, and where it fails.

## The system

| Part | Source | State it changes | Interacts with |
|---|---|---|---|
| Snapshot parser | `parse_sched.py` `load_data`, `LineData` | file position, record lists, exception | every `results()`, `get_max_vmid` |
| World lifecycle and id discovery | `runschedtests.py` `get_max_vmid`, `TestWorld.start`, `stop_timer_worlds`, `BasicTest.setup/run/shutdown`, `run_tests`, `__main__` | worlds in the kernel, each TestWorld's `vmid`, the run's control flow | kernel (create, show, destroy), parser |
| Verification tests | `runschedtests.py` `FairnessTest`, `MinMaxTest`, `PerfStatsTest`, `AffinityTortureTest`, `checkAffinity`, VM getters | errors and metrics; affinities in the kernel (torture) | parser, kernel scheduler |
| Admission probe script | `affinmintests.py` with `configMin`, `readMin`, `setAffinity` | worlds and granted mins in the kernel; printed ERRORs | kernel admission controller |
| Suite definitions (`Suites`) | `schedtests.py` `gen_worlds`, `get_*_tests`, `all_tests`, `get_tests`, `get_all_tests` | none (static test lists) | `__main__`, the test classes |
| Command line and run loops | `runschedtests.py` `__main__`, `run_tests`, `run_batch_tests`, `CpuBurner` | options, the selected tests, the burner thread and its `die` flag | every test; the interpreter's exit |
| Profiler test | `runschedtests.py` `VmkstatsTest.run`, `results` | the profiler's state and counters (via its control file), `dumpDir`, the profile | kernel profiler, external dump and view tools |
| Not modelled | printing, `format_results`, `parse_table_file` | see below | |

### How the parts interact

`run_tests` runs each test in turn: `setup()` starts every world, `run()`
sleeps, `results()` loads a snapshot, and `shutdown()` stops the worlds.

World creation is asynchronous. `start()` takes the world's id to be the new
maximum id seen by `get_max_vmid()`. That value is the min of the largest
`/proc/vmware/vm` entry and the largest world id in the dump. `start()` polls
it until it changes, and gives up after the sixth poll. A failure in `start()`
makes `setup()` stop the timer worlds, pause, and start every world again
once. Only timer worlds are ever stopped: nothing writes "stop" to the basic
node.

`__main__` stops the timer worlds and parses the options. It builds the
tests through `schedtests`, keeps those `-n` selects, and starts the optional
`CpuBurner` thread. Then it runs the tests (or lists them) and sets the
burner's `die` flag. `schedtests` does `from runschedtests import *`, which
loads `runschedtests.py` a second time as a module distinct from `__main__`.
The test classes read that module's `RUN_TIME` and `TEST_SIZE_FACTOR`.

## Modules

**`WorldLifecycle`** (with `MCWorldLifecycle`) models the harness thread as a
control point `pc`, one action per step of the code:

- `MainStop` (`__main__`'s stop);
- `PauseEnds` (end of a `PAUSE_TIME` sleep);
- `StartBegin` (read oldmax);
- `StartWrite` (the start request, delivered at `close()`);
- `Poll` (one spin of the loop, with the raise when `spincount > 5`);
- `Config` (the `cpu/*` writes, which raise if the directory is gone);
- `Run`, `Results` (the leader assertion of `setSchedData`), `Shutdown`.

`StartRaised` is setup's `except:` branch: the first failure stops the timer
worlds, pauses and retries; a second one is fatal.

The kernel has its own actions:

- `Create`, to fulfil a request;
- `Refuse`, to drop a request;
- `ShowProc` and `ShowSched`, since the two views update independently;
- `Vanish`, for a stopped world.

A history variable `owner` records which `start()` call (test, vm, attempt)
each world was created for. `Init` allows a world left over by an earlier run.

**`TestRunner`** is the abstract specification of what `run_tests`
promises. Tests are numbered and run one at a time:

- `SetUp` moves a test from setup to measurement.
- `Measured` finishes it, and the next test follows, or the run is done.
- `Fail` is an exception that ends the run.

`WorldLifecycle` maps onto it (`RunnerFinished`, `RunnerPhase`): setup's
world starts, both attempts included, are the setup phase, and run, results
and shutdown are the measurement. `RunnerSpec == Runner!Spec` is checked as
a property, fairness included.

**`ForeignLifecycle`** (with `MCForeignLifecycle`) adds one environment
actor to `WorldLifecycle`: another process that starts a world of its own at
any moment (`ForeignCreate`). The spec names this race as a known weakness
of the new-maximum heuristic.

**`RunnerMain`** (with `MCRunnerMain`) models the program around the tests:

- `MainStart` is `stop_timer_worlds()` and `getopt`, which exits through
  `show_help()` on an unknown option.
- There is one action per branch of the option loop: `OptHelp`,
  `OptVerbose` (with its "Cannot combine" assertion), `OptFlag` (`-N`, `-b`,
  `-B`) and `OptValue` (`-t`, `-S`, `-n`, whose bad values exit or raise).
- `Generate` builds the tests: `get_all_tests()`, or `get_tests` for each
  name, with a `KeyError` on an unknown one.
- `SelectTests` is the `-n` filter, the "no tests selected" exit,
  `burner.start()` and the choice of mode.
- `RunTest` is one iteration of `run_tests` / `run_batch_tests`: the test
  passes, fails, or raises when `TestsMayRaise`. Only classes whose
  `results()` can return errors fail (`MayFail`: not PerfStats or Vmkstats).
  With `-V`, a failure prints `errors[0].sched`, which raises for the string
  errors of `AffinityTortureTest` (`ErrorsHaveSched`). The history variable
  `cause` records which of the two exceptions ended the thread. Then come `LoopDone`,
  `PrintNames` and `SetDie`.
- The burner thread has `BurnerRun` (`self.die = 0`) and `BurnerExit` (the
  loop test `while self.die != 1` failing).

`RunnerMain` counts each suite's tests in `Suites` (`SuiteSize`).
`htsharing` returns none without the hyperthreading node. `RUN_TIME` and
`TEST_SIZE_FACTOR` are the `runschedtests` module's, which the tests read. `mainRunTime` and
`mainSize` are `__main__`'s, which `-t` and `-S` write. The history
variables `ran` and `reported` record each test run (with the run time and
size factor it used) and each "Test [num]" line.

**`Suites`** is the suites of `schedtests.py` as data. A world is a record
built as `TestWorld.__init__` builds it: `max` is `100 * numvcpus` unless
given, and an affinity is `<<>>` (None), `<<a>>` (an int) or the list. Then:

- `GenWorlds` is `gen_worlds`, and `Test` is `BasicTest.__init__`'s
  `vms * TEST_SIZE_FACTOR`.
- There is one operator per `get_*_tests`, and `SuiteTests` is `all_tests`.
- `WritesConfig` is `start()`'s test for writing a `cpu/*` node.

The lifecycle and torture instances take their worlds from it.

**`SchedParse`** (with `MCSchedParse`) runs `load_data(verbose=1)` one
`readline()` at a time. The dump is generated from a shape with these parts:

- a global table;
- a cell table of any length;
- pcpu and vcpu tables whose lines are good or carry an extra token;
- a blank line or EOF at the end.

A line is abstracted to whether it matches `\s*\d+` and how many tokens it
splits into. `LineData` raising is a token-count mismatch.

**`AffinityTorture`** (with `MCAffinityTorture`) models
`AffinityTortureTest.run`. Each repetition takes a `Sample`: the scheduler
places every vcpu on any pcpu, and each vcpu has run or not. It then does one
`CheckWorld` per world: `checkAffinity`, the stuck test, `randAffinity` and
`configAffinity`. History variables record which vcpus were really misplaced
or starved.
The constant `InIndexOrder` says whether the dump lists each world's vcpus
by vcpu index (`order`, the order `setSchedData` appends them in).
The fault model is `MayDropLine`: a snapshot may hold one corrupt vcpu line
(`dropped`), which `load_data` leaves out of `vcpu_list`. `Parsed` is the
`vm.vcpus` list `setSchedData` builds. `seen` is whether `vm.leader` was ever
set, because `setSchedData` keeps a stale leader. `Outcome` is the first
step of the loop body that raises:

- the leader assertion;
- `checkAffinity`'s `vm.vcpus[i]` (`IndexFails`);
- `getVcpuVal`'s `reduce` of an empty list;
- the stuck message.

The history variable `crash` records which step raised, `"draw"` included.

**`TestResults`** (with `MCTestResults`) computes the `results()` of
`FairnessTest`, `MinMaxTest` and `PerfStatsTest` over every snapshot in
bounds. It also models `VmkstatsTest`, whose `run()` drives the kernel
profiler:

- `VmkRun` is `run()` up to the sleep. It asserts the control file, removes
  `dumpDir`, and writes "stop", "reset" and "start" (`ProfilerRestart`).
- `Sample` is the kernel profiler taking one sample. It fires during the
  sleep and after it, until the dump command has read the counters. Each
  sample is tagged `old` (before the reset), `window` or `after`.
- `WakeUp` is the end of the sleep. `VmkDump` runs the dump command, which
  succeeds or fails; its status is never read.
- `VmkResults` classifies each function's line by the first `regexTuples`
  entry it matches (`LineCategory`). The constant `Matches` says which
  patterns a function's line matches. The MC module gives one function per
  case: `SP_WaitLockIRQ`, `CpuSched_IdleLoop` (matches idle and "CpuSched"),
  `CpuSched_Wait`, and `Other`.
- At `Init` an earlier VmkstatsTest may have left the profiler running with
  samples, and left its dump in `dumpDir`.
- The percentages `vmkstatsview` prints are exact shares of the dump. The
  tool is not in the repository, so its rounding is left out.

- Float arithmetic is exact rational arithmetic.
- A comparison whose exact operands are equal and nonzero, where float
  rounding decides, may go either way.
- Python 2 `int / int` is floor division.
- A failing harness assertion is the `fatal` outcome.

**`AdmissionScript`** (with `MCAdmissionScript`) is `affinmintests.py`
written as a program: the sequence of calls the script makes, five
scenarios.

- One action per kind of call: `StopTimerWorlds`, `StartWorld`, `SetAffin`,
  `SetMin`, `ReadBack`, `ExitWhen`.
- The admission controller is not code of this repository. It is modelled
  from the spec (section 4.4), either keeping the contract (`Honest`) or
  answering each request freely:
  - each vcpu takes min/numvcpus of a distinct pcpu in its affinity;
  - the mins of all live worlds must fit on the pcpus;
  - the console holds `Reserved`% of pcpu 0.
- `StopTimerWorlds` leaves BasicWorlds running, as the code does.

## Runs

| Run | Checks | Result | What it shows |
|---|---|---|---|
| `lifecycle` | `TypeOK`, `IdsAreOwn`, `LeadersInDump`, `Terminates`, `RunnerSpec` | pass | Assume the kernel settles within the polling window and stopped worlds are gone within `PAUSE_TIME`. Then every started world holds its own id, the leaders are in the dump at `results()`, and the harness always ends, even when the kernel refuses requests. The harness also implements `TestRunner`: tests run one at a time, in order, none skipped or repeated. |
| `lifecycle_adopt` | `IdsAreOwn` | violation | The new-maximum heuristic adopts worlds this `start()` did not create. One case is a world created for an earlier attempt after `start()` gave up, which the setup retry takes. The other is a world another process starts while a TestWorld polls. (Module `MCForeignLifecycle`, cfg `MCWorldLifecycle_late.cfg`.) |
| `lifecycle_isolation` | `TestIsolation` | violation | Basic worlds, including one left over from an earlier run, are never stopped and run through later tests. |
| `parse` | `TypeOK`, `ParseMatchesDump` | pass | Over all dumps in bounds, the records are exactly the pcpu lines and the good vcpu lines, in order. A corrupt vcpu line costs only its own record. |
| `torture` | `TypeOK`, `AffinityErrorsExact` | pass | A snapshot may drop one corrupt vcpu line. Every fully checked world reports exactly the vcpus outside the affinity written in the previous repetition. |
| `torture_stuck` | `StuckVcpuReported` | violation | A stuck world crashes the test (`AttributeError` building the message). A starved vcpu of a dual is masked by the sum. |
| `results` | `TypeOK`, `FairnessVerdict`, `MinMaxVerdict`, `VmkCategoriesExact`, `VmkProfileOwn` | pass | The fairness and min/max verdicts agree with the spec's formulas. This includes scale invariance, zero bounds meaning "unset", and ratios reported for every world. A VmkstatsTest's shares are stated by what the categories mean, not by the order of `regexTuples`: idle is the idle-loop functions (which also match `CpuSched`), sched the other `CpuSched` functions, locks and udelay their own. Its dump never holds a sample from before its own reset, even after an earlier test left samples in the profiler or a dump in `dumpDir`. |
| `admission` | `TypeOK`, `ErrorOnlyOnBreach` | pass | Whatever the controller answers, the script prints ERROR only for a scenario in which the controller broke its contract. The `tw1.readMin` typo is harmless. |
| `main` | `TypeOK`, `ExitBeforeWork` | pass | The run covers every option list of up to two options and every argument list in bounds. Each `sys.exit(-1)` path happens before any test runs and before any burner thread starts. |
| `main_burner` | `ProgramExits` | violation | With `-B`, `__main__` can set `burner.die` before the thread's `run()` executes `self.die = 0`. The thread then spins forever, and the interpreter waits for it. |
| `vmkstats_dump` | `VmkDumpFailureNoticed` | violation | The dump command's exit status is ignored, and `dumpDir` was already removed. A failed dump (the command is a fixed path on one developer's machine) gives a profile of zeros with no error. (cfg `MCTestResults_vmkdump.cfg`.) |
| `main_options` | `OptionsHonoured` | violation | `-t` and `-S` assign `__main__`'s globals. The tests read those of the second import, so they always run 50 s at size factor 1. |

### Further checks

These configurations check further disagreements found while modelling,
beyond the twelve runs above. Each one gives a violation with
`tlc -config <cfg> <module>`:

- **`MCWorldLifecycle_lastpoll.cfg`** (`GivesUpOnlyWithoutNewId`): the sixth
  poll's result is thrown away, so `start()` raises although the world
  appeared.
- **`MCSchedParse_abort.cfg`** (`NoAbortOnCorruptLine`): a corrupt global or
  pcpu line raises out of `load_data`, because only vcpu lines are parsed
  under `try`.
- **`MCTestResults_rates.cfg`** (`PerfRatesExact`): PerfStats rates are
  truncated by Python 2 integer division by `RUN_TIME`: a total below
  `RUN_TIME` reads 0.
- **`MCAffinityTorture_order.cfg`** (`AffinityErrorsExact` with
  `InIndexOrder = FALSE`): `checkAffinity` compares the i-th vcpu of the
  dump with the affinity written for vcpu index i. If the dump lists a
  dual's vcpus out of index order, which the spec allows, the errors name
  the wrong vcpus. The `torture` run assumes index order.
- **`MCAdmissionScript_honest.cfg`** (`HonestKernelPasses`): a controller
  that keeps its contract still draws an ERROR. The leaked BasicWorlds keep
  their mins, and scenario 4 is rejected. The root cause is the one
  `lifecycle_isolation` shows: `stop_timer_worlds` never stops BasicWorlds.
- **`MCTestResults_window.cfg`** (`VmkWindowOnly`): the profiler is not
  stopped before the dump, so the profile holds samples taken after
  `RUN_TIME`.
- **`MCRunnerMain_numbers.cfg`** (`ReportedNumberSelects`): `-n` selects by
  0-based position in the generated list, but `run_tests` prints positions
  in the filtered list. After `-n 1`, the one test is "Test [0]".
- **`MCRunnerMain_verbose.cfg`** (`SoftFailuresContinue`): the spec says a
  failed test is reported FAILED and the run goes on. With `-V`, `run_tests`
  prints `errors[0].sched`. An `AffinityTortureTest`'s errors are strings,
  so its first failure raises `AttributeError` and ends the program.
- **`MCAffinityTorture_drop.cfg`** (`DroppedLineTolerated`): the spec says a
  corrupt line is dropped silently and the parse goes on. But when a dual's
  second vcpu line is dropped under a list affinity, `checkAffinity` raises
  `IndexError` on `vm.vcpus[1]` and ends the whole run.

Each property of a passing run has a mutant in `PROJECT.json`. The mutant is a
plausible bug in the code that TLC must catch:

- the pause without waiting;
- `get_max_vmid` without the dump cap;
- the spin loop without its counter;
- the test loop stopping one test early (breaks `RunnerSpec`);
- the vcpu loop without `try`;
- `checkAffinity` checking one vcpu;
- integer-division share fractions;
- the max check without its `amax and` guard;
- `regexTuples` with the `CpuSched` pattern before the idle one;
- "stop" and "start" without "reset";
- the script probing the wrong world;
- `burner.start()` before the "no tests selected" exit, or without its
  `if burner:` guard.

## Bounds, and why they are enough

- **Lifecycle.** Three real tests from `Suites`, each cut to its first two
  worlds: fairness #3 (`[basic, basic]`), minmax #4 (`[timer with config,
  timer]`) and affinity #1 (`[basic with config, basic with config]`).
  `MaxSpin` = 5, as in the code, and world ids up to 14, enough for both setup
  attempts of every test. A timer test follows a basic one and a basic test a
  timer one across a shutdown, with and without config writes. No suite mixes
  kinds within a test, so neither does the model. There is a retry,
  and a leftover world of either kind. Every race needs at most two of the
  harness's own worlds.
- **Parser.** Up to 1 cell line, 2 pcpu lines and 3 vcpu lines, each good or
  bad, with both endings. This covers empty tables, a corrupt line first,
  middle and last, and two corrupt lines.
- **Torture.** Two logical cpus and two repetitions. The worlds are the dual
  and the uni that meet in the middle of `mixedUniSmpTorture` (worlds 5 and 6). That is
  enough to see an affinity written in one repetition and checked in the
  next, a dual with one vcpu stuck, and a dual's second line or its leader
  line dropped. The host has exactly as many cpus as the widest world
  (`MCNumLogical` is computed from `Suites`). On it the draw of
  `randAffinity` cannot run out of pcpus, and no property claims it: a host
  narrower than a world refuses that world in `start()` before `run()`
  draws.
- **Results.**
  - Three worlds for fairness (as in the spec's example), with shares 1..3
    and used 0..3. These give exact, inside and outside splits, and exact 10%
    ties.
  - Two worlds for min/max, with min and max 0, 40 or 120, as in the suites,
    and uptime 0 or 5.
  - Counts 0, 1, 50 and 74 against `RUN_TIME` = 50. Their sums give totals
    below, at and above `RUN_TIME`, and 75, which rounding would round up.
  - Vmkstats uses the four functions above and at most two samples a test,
    enough for two categories in one dump, or a window and an after sample.
    An earlier test may leave nothing or one `Other` sample, in the profiler
    or in `dumpDir`.
- **Command line.** Every option of the getopt string, each with a good
  and a bad value where it takes one, and an unknown option, in lists of up
  to two. Argument lists are: none, `all`, `htsharing`, two suites, and a
  suite plus an unknown name. The hyperthreading node is present or absent.
  Suite sizes are the real ones (`all` is 26 or 28 tests). The `-n` lists
  `[1]` and `[0, 3]` select tests other than the first. The dict order of
  `all_tests` is fixed per interpreter; the model takes the literal's
  order, and no property depends on it.
- **Admission.** Four logical cpus without hyperthreading, the smallest
  machine on which the script runs all five scenarios. The `ncpus` node
  (`NcpusNode`) is the two-line format; `get_num_cpus` is modelled for both. Console reservation is
  10%.

## Fairness

- Every harness is one thread that never blocks forever, so weak fairness on
  its steps is justified.
- In `WorldLifecycle` the kernel is weakly fair: it eventually answers each
  request (create or refuse) and eventually shows and destroys its worlds.
  Without that, `Terminates` would fail only by the kernel stopping, which
  says nothing about the harness.

- In `RunnerMain` both threads are weakly fair. The interpreter switches
  between Python threads, so a runnable thread eventually runs. No fairness
  is assumed for `ForeignCreate`: another process may or may not start a
  world.

## Not modelled

- **The vmkstats tools' text.** `vmkstatsview`'s lines are modelled by what
  they carry: a function and its exact share. The regexes are modelled by
  which functions' lines they match, not as character patterns.
- **Printing and `format_results`.** No property is about the text. The
  numbers printed by `run_tests` are kept as history, because `-n` depends
  on them.
- **Whole suite tests in the lifecycle.** `Suites` holds every world of
  every test, but `WorldLifecycle` runs two-world prefixes of them, because a
  13-world test is out of TLC's reach with the kernel's interleavings. The test
  names and the `maxUnfairness`/`maxErr` tolerances are not carried:
  `TestResults` takes the tolerance as a constant. The aliasing that
  `vms * TEST_SIZE_FACTOR` would cause (the same TestWorld started twice) is
  unreachable from the command line, since `-S` never reaches the tests.
- **`parse_table_file`, `LineData.__sub__`, `filter_vcpu_name`,
  `find_vcpu`.** These are never called, and some read undefined names.
- **`verbose=0` parsing.** No caller uses it.
- **Column names of the dump.** `SchedParse` abstracts a line to its token
  count, and the other modules read fields by meaning. So the zero that
  `LineData.__getattr__` returns for a missing column is not modelled. The
  spec names that zero as a known masking hazard.
- **`getTestElements`, batch metric lines, `shortFormat`, the `__repr__`s of
  `TestError` and `FairnessError`, `VM.format`.** These only build text. The
  metric keys are unique while `TEST_SIZE_FACTOR` is 1, which is all the
  command line can reach.
- **Dead code.** `MinMaxTest.baseShares` is set from `get_num_cpus()` and
  never read. `setShares`, `parse_sched.set_shares` and `set_affinity` are
  never called. `parse_sched`'s own `__main__` (`make_verbose`, then one
  printed dump) is a debugging aid.
- **Not yet modelled:**
  - `PerfStatsTest`'s use of `setSchedData`.

## Plan for later work

1. Compose: feed `SchedParse`'s records into `TestResults` instead of
   abstract snapshots. `AffinityTorture` already takes the parser's
   per-line policy as its fault model (`MayDropLine`).
2. Model the setAffinity/min interplay in `AdmissionScript` on HT machines.
3. Run longer prefixes of the real suite tests (`Suites`) in
   `WorldLifecycle`, to show which suites are disturbed by basic worlds
   leaked from earlier tests.
