---------------------------- MODULE TestResults ----------------------------
(***************************************************************************)
(* results() of FairnessTest, MinMaxTest and PerfStatsTest                 *)
(* (runschedtests.py): the verdict each test computes from one snapshot;  *)
(* and VmkstatsTest's run() and results(): the profiler it drives through *)
(* the vmkstats control file, the dump it takes and the profile it reads. *)
(*                                                                         *)
(* The snapshot gives every world of the test its summed usedsec, and its  *)
(* leader's min, max and uptime, in small integer units; the harness       *)
(* arithmetic is on Python floats, modelled as exact rationals <<n, d>>.   *)
(* Where a float comparison is decided by rounding (the exact values are   *)
(* equal, e.g. a ratio of exactly 1.1 against the 0.1 limit) the outcome   *)
(* is a nondeterministic choice, as the build gives either one.            *)
(*                                                                         *)
(* setSchedData and its leader assertion are modelled in WorldLifecycle;   *)
(* here every world's vcpus and leader are in the snapshot.                *)
(***************************************************************************)
EXTENDS Integers, Sequences, FiniteSets, Functions

Kinds  == {"fairness", "minmax", "perfstats", "vmkstats"}

\* mutant: regexTuples with the "CpuSched" pattern before the idle one
VmkOrderSchedFirst == <<"locks", "udelay", "sched", "idle">>

\* the names of VmkstatsTest.results' regexTuples, in the order it tries them
VmkOrder == <<"locks", "udelay", "idle", "sched">>
VmkNames == {VmkOrder[i] : i \in 1..4}
\* when the profiler took a sample: before this test's "reset", during the
\* RUN_TIME sleep, or after it, until the dump command read the counters
Tags == {"old", "window", "after"}

CONSTANTS
  NumWorlds,       \* kind -> len(self.vms) of the test of that kind
  ShareVals,       \* v.shares of a world (its configuration)
  UsedVals,        \* summed usedsec of a world in the snapshot
  PctVals,         \* min / max of a leader line, in percent of a cpu
  UptimeVals,      \* uptime of a leader line
  CountVals,       \* pmigs / switch / yield / idle usedsec totals
  NumPcpus,        \* len(sched.pcpu_list)
  MaxUnfairness,   \* FairnessTest maxUnfairness, in percent (0.1 -> 10)
  MaxErr,          \* MinMaxTest maxErr, in percent
  RunTime,         \* RUN_TIME, an int
  Funcs,           \* kernel functions a vmkstats sample can fall in
  Matches,         \* f -> the regexTuples names whose pattern f's line matches
  MaxSamples,      \* bound on the samples the profiler takes in one test
  OldProfiles      \* dumps an earlier VmkstatsTest may have left in dumpDir

ASSUME /\ NumWorlds \in [Kinds -> Nat \ {0}] /\ NumPcpus \in Nat \ {0}
       /\ RunTime \in Nat \ {0} /\ {MaxUnfairness, MaxErr} \subseteq 0..100
       /\ ShareVals \cup UsedVals \cup PctVals \cup UptimeVals \cup CountVals
            \subseteq Nat
       /\ Matches \in [Funcs -> SUBSET VmkNames] /\ MaxSamples \in Nat


Sum(f) == FoldFunction(LAMBDA x, y : x + y, 0, f)

\* a Python float or int value as the rational n / d, d > 0
Rat(n, d) == <<n, d>>
Zero      == Rat(0, 1)
IsZero(r) == r[1] = 0
Quot(a, b) == Rat(a[1] * b[2], a[2] * b[1])          \* a / b, b # 0
\* x < y on floats: decided where the exact values differ or are both 0
\* (exact in floating point), either way where they are equal otherwise
FloatLess(x, y) ==
  IF x[1] * y[2] # y[1] * x[2] THEN {x[1] * y[2] < y[1] * x[2]}
  ELSE IF x[1] = 0 THEN {FALSE} ELSE {FALSE, TRUE}
\* x * (100 + p) / 100, the float x * (1.0 + p / 100)
Scale(x, p) == Rat(x[1] * (100 + p), x[2] * 100)

VARIABLES
  kind,     \* which results() the runner calls
  snap,     \* the snapshot results() reads
  status,   \* "ran", "reported" (returned resmap, errs) or "fatal" (raised)
  errs,     \* the returned error list, as <<world, what>> pairs
  resmap,   \* the returned metrics: key -> rational
  vmkOn,    \* the vmkstats control file exists (vmkstats is in the kernel)
  prof,     \* the profiler's state: "running" or "stopped"
  samples,  \* the profiler's counters: <<tag, f>> -> samples since reset
  dumpDir   \* VmkstatsTest.dumpDir: NoDump or the counters a dump wrote

vmkvars == <<vmkOn, prof, samples, dumpDir>>
vars == <<kind, snap, status, errs, resmap, vmkvars>>

\* self.vms of the test that is running, by index
Worlds == 1..NumWorlds[kind]

NoDump == [t \in {} |-> 0]

\* counters with only the given samples of the given tag
Counters(tag, old) == [k \in Tags \X Funcs |-> IF k[1] = tag THEN old[k[2]] ELSE 0]

\* the test is about to run: a VmkstatsTest comes first to run(), the
\* others to results() after BasicTest.run; an earlier VmkstatsTest may
\* have left the profiler running with samples and its dump in dumpDir
Init ==
  /\ kind \in Kinds /\ snap = [none |-> 0]
  /\ status = IF kind = "vmkstats" THEN "setup" ELSE "ran"
  /\ errs = {} /\ resmap = << >>
  /\ vmkOn \in BOOLEAN /\ prof \in {"running", "stopped"}
  /\ samples \in {Counters("old", o) : o \in OldProfiles}
  /\ dumpDir \in {NoDump} \cup {Counters("old", o) : o \in OldProfiles}

(***************************************************************************)
(* FairnessTest.results                                                    *)
(***************************************************************************)
\* mutant: Python 2 integer division without the float() conversions
ShareFractionInt(sh, i) == Rat(sh[i] \div Sum(sh), 1)

\* float(v.shares) / float(totalShares)
ShareFraction(sh, i) == Rat(sh[i], Sum(sh))

\* (v.getUsedSec() / totalUsed) / shareFraction
Fairness(sh, used, i) == Quot(Rat(used[i], Sum(used)), ShareFraction(sh, i))

\* abs(fairness - 1.0) > self.maxUnfairness, as the set of float outcomes
Unfair(f) ==
  LET dev == Rat(IF f[1] >= f[2] THEN f[1] - f[2] ELSE f[2] - f[1], f[2])
  IN  FloatLess(Rat(MaxUnfairness, 100), dev)

FairnessResults ==
  /\ status = "ran" /\ kind = "fairness"
  /\ \E sh \in [Worlds -> ShareVals], used \in [Worlds -> UsedVals] :
       /\ snap' = [shares |-> sh, used |-> used]
       \* assert totalUsed > 0.0; assert totalShares > 0; and, per world,
       \* assert v.shares > 0 and ZeroDivisionError on a zero shareFraction
       /\ IF Sum(used) = 0 \/ Sum(sh) = 0
             \/ \E i \in Worlds : sh[i] = 0 \/ IsZero(ShareFraction(sh, i))
          THEN /\ status' = "fatal" /\ UNCHANGED <<errs, resmap>>
          ELSE \E bad \in SUBSET Worlds :
                 /\ \A i \in Worlds : (i \in bad) \in Unfair(Fairness(sh, used, i))
                 /\ errs' = {<<i, "unfair">> : i \in bad}
                 /\ resmap' = [i \in Worlds |-> Fairness(sh, used, i)]
                 /\ status' = "reported"
  /\ UNCHANGED <<kind, vmkvars>>

(***************************************************************************)
(* MinMaxTest.results                                                      *)
(***************************************************************************)
\* mutant: the max check without its "amax and" guard
MaxExceededUnguarded(amax, used, maxUsage) ==
  FloatLess(Scale(maxUsage, MaxErr), Rat(used, 1))

\* amax and usedsec > maxUsage * (1.0 + self.maxErr)
MaxExceeded(amax, used, maxUsage) ==
  IF amax = 0 THEN {FALSE}
  ELSE FloatLess(Scale(maxUsage, MaxErr), Rat(used, 1))

\* amin and usedsec < minUsage * (1.0 - self.maxErr)
BelowMin(amin, used, minUsage) ==
  IF amin = 0 THEN {FALSE}
  ELSE FloatLess(Rat(used, 1), Scale(minUsage, -MaxErr))

\* mutant: usedsec / minUsage without the "== 0.0" test
RatioUnguarded(used, usage) == Quot(Rat(used, 1), usage)

\* minRatio / maxRatio: 0.0 when the usage bound is 0.0
Ratio(used, usage) == IF IsZero(usage) THEN Zero ELSE Quot(Rat(used, 1), usage)

MinMaxResults ==
  /\ status = "ran" /\ kind = "minmax"
  /\ \E amin \in [Worlds -> PctVals], amax \in [Worlds -> PctVals],
        up \in [Worlds -> UptimeVals], used \in [Worlds -> UsedVals] :
       LET minUsage(i) == Rat(up[i] * amin[i], 100)
           maxUsage(i) == Rat(up[i] * amax[i], 100)
       IN
       /\ snap' = [min |-> amin, max |-> amax, uptime |-> up, used |-> used]
       /\ \E below \in SUBSET Worlds, over \in SUBSET Worlds :
            /\ \A i \in Worlds :
                 /\ (i \in below) \in BelowMin(amin[i], used[i], minUsage(i))
                 /\ (i \in over) \in MaxExceeded(amax[i], used[i], maxUsage(i))
            /\ errs' = {<<i, "below min">> : i \in below}
                         \cup {<<i, "exceeded max">> : i \in over}
       /\ resmap' = [k \in Worlds \X {"minratio", "maxratio"} |->
                       IF k[2] = "minratio" THEN Ratio(used[k[1]], minUsage(k[1]))
                       ELSE Ratio(used[k[1]], maxUsage(k[1]))]
       /\ status' = "reported"
  /\ UNCHANGED <<kind, vmkvars>>

(***************************************************************************)
(* PerfStatsTest.results: totals over the test's worlds, the yields of     *)
(* every pcpu, and the idle vcpus of the dump (one per pcpu asserted);     *)
(* the integer totals are divided by the int RUN_TIME (Python 2 floor      *)
(* division), the float idle total by float division.                      *)
(***************************************************************************)
\* total / RUN_TIME on two Python 2 ints: floor division
Rate(total) == Rat(total \div RunTime, 1)

PerfStatsResults ==
  /\ status = "ran" /\ kind = "perfstats"
  /\ \E migs \in [Worlds -> CountVals], sw \in [Worlds -> CountVals],
        yld \in [1..NumPcpus -> CountVals], nidle \in {NumPcpus - 1, NumPcpus},
        idle \in CountVals :
       /\ snap' = [pmigs |-> Sum(migs), switch |-> Sum(sw),
                   yield |-> Sum(yld), idle |-> idle]
       /\ IF nidle # NumPcpus
          THEN /\ status' = "fatal" /\ UNCHANGED resmap
          ELSE /\ resmap' = [switch |-> Rate(Sum(sw)),
                             pmigs  |-> Rate(Sum(migs)),
                             yields |-> Rate(Sum(yld)),
                             idle   |-> Rat(idle, RunTime)]
               /\ status' = "reported"
  /\ UNCHANGED <<kind, errs, vmkvars>>

(***************************************************************************)
(* VmkstatsTest.run: assert the control file exists, remove dumpDir, write *)
(* "stop", "reset", "start" (no sample is taken between them: the          *)
(* profiler is stopped until "start"), then BasicTest.run's sleep; after  *)
(* it the dump command runs while the profiler is still running, and its  *)
(* exit status is never looked at.                                         *)
(***************************************************************************)
\* mutant: "stop" and "start" without the "reset" between them
ProfilerRestartNoReset(s) == s

\* the counters after "stop", "reset", "start"
ProfilerRestart(s) == [k \in Tags \X Funcs |-> 0]

VmkRun ==
  /\ status = "setup"
  /\ IF ~vmkOn
     THEN /\ status' = "fatal" /\ UNCHANGED <<prof, samples, dumpDir>>
     ELSE /\ dumpDir' = NoDump
          /\ samples' = ProfilerRestart(samples)
          /\ prof' = "running"
          /\ status' = "sleeping"
  /\ UNCHANGED <<kind, snap, errs, resmap, vmkOn>>

\* the kernel's profiler samples a function, while the harness sleeps for
\* RUN_TIME or, after it, while the dump command starts up
Sample ==
  /\ prof = "running" /\ status \in {"sleeping", "dumping"}
  /\ Sum([k \in {"window", "after"} \X Funcs |-> samples[k]]) < MaxSamples
  /\ \E f \in Funcs :
       LET tag == IF status = "sleeping" THEN "window" ELSE "after"
       IN  samples' = [samples EXCEPT ![<<tag, f>>] = @ + 1]
  /\ UNCHANGED <<kind, snap, status, errs, resmap, vmkOn, prof, dumpDir>>

\* time.sleep(RUN_TIME) returns; commands.getstatusoutput starts the dump
WakeUp ==
  /\ status = "sleeping" /\ status' = "dumping"
  /\ UNCHANGED <<kind, snap, errs, resmap, vmkvars>>

\* the dump writes the counters to dumpDir, or fails (the script is at a
\* fixed path of one developer's machine) and leaves dumpDir as it was
VmkDump ==
  /\ status = "dumping"
  /\ \E ok \in BOOLEAN : dumpDir' = IF ok THEN samples ELSE dumpDir
  /\ status' = "ran"
  /\ UNCHANGED <<kind, snap, errs, resmap, vmkOn, prof, samples>>

(***************************************************************************)
(* VmkstatsTest.results: vmkstatsview prints one line per function of the *)
(* dump, "pct% samples cum% name"; each line adds its pct to the first    *)
(* regexTuples entry it matches (the break), or to none. With no dump the *)
(* viewer prints an error and every result stays 0.0. The tool's own      *)
(* rounding of pct is left out: pct is the exact share of the dump.       *)
(***************************************************************************)
LineCategory(f) ==
  LET m == SelectSeq(VmkOrder, LAMBDA c : c \in Matches[f])
  IN  IF m = << >> THEN "none" ELSE Head(m)

\* the line of function f adds its pct to self.results[c]
VmkLineAdds(f, c) == c = LineCategory(f)

\* the samples of f in a dump, whenever they were taken
FuncCount(d, f) == Sum([t \in Tags |-> d[<<t, f>>]])

VmkProfile(d) ==
  LET total == Sum([f \in Funcs |-> FuncCount(d, f)])
  IN  [c \in VmkNames |->
         IF d = NoDump \/ total = 0 THEN Zero
         ELSE Rat(100 * Sum([f \in {g \in Funcs : VmkLineAdds(g, c)} |->
                                FuncCount(d, f)]), total)]

\* the control file is asserted again; run() already did, so it holds
VmkResults ==
  /\ status = "ran" /\ kind = "vmkstats"
  /\ resmap' = VmkProfile(dumpDir)
  /\ status' = "reported"
  /\ UNCHANGED <<kind, snap, errs, vmkvars>>

Next == FairnessResults \/ MinMaxResults \/ PerfStatsResults
          \/ VmkRun \/ Sample \/ WakeUp \/ VmkDump \/ VmkResults

Spec == Init /\ [][Next]_vars /\ WF_vars(Next)

-----------------------------------------------------------------------------
TypeOK ==
  /\ kind \in Kinds
  /\ status \in {"setup", "sleeping", "dumping", "ran", "reported", "fatal"}
  /\ prof \in {"running", "stopped"} /\ samples \in [Tags \X Funcs -> Nat]
  /\ dumpDir \in {NoDump} \cup [Tags \X Funcs -> Nat]
  /\ errs \subseteq Worlds \X {"unfair", "below min", "exceeded max"}
  \* every metric is a number: no division by zero produced it
  /\ \A k \in DOMAIN resmap : resmap[k][2] > 0

(***************************************************************************)
(* FairnessTest: whenever the worlds used any time at all, results()       *)
(* returns a verdict, and it reports exactly the worlds whose used time    *)
(* is off their shares-proportional part of the group's total by more     *)
(* than maxUnfairness of that part (worlds exactly at the limit may go     *)
(* either way); so a group that splits its time in proportion to its       *)
(* shares passes, and scaling every share by one factor changes nothing.   *)
(***************************************************************************)
FairnessVerdict ==
  (kind = "fairness" /\ status # "ran") =>
    LET sh == snap.shares  used == snap.used
        \* 100 * |used_i - fair_i| compared with MaxUnfairness * fair_i,
        \* fair_i = totalUsed * shares_i / totalShares, times totalShares
        off(i)   == 100 * (IF used[i] * Sum(sh) >= Sum(used) * sh[i]
                           THEN used[i] * Sum(sh) - Sum(used) * sh[i]
                           ELSE Sum(used) * sh[i] - used[i] * Sum(sh))
        limit(i) == MaxUnfairness * Sum(used) * sh[i]
    IN  /\ Sum(used) > 0 => status = "reported"
        /\ status = "reported" =>
             \A i \in Worlds :
                /\ off(i) > limit(i) => <<i, "unfair">> \in errs
                /\ off(i) < limit(i) => <<i, "unfair">> \notin errs

(***************************************************************************)
(* MinMaxTest: a world whose used time is within the min and max the       *)
(* scheduler accepted (a bound of 0 meaning none) never gets an error, a   *)
(* world outside a configured bound by more than maxErr always gets the    *)
(* error for that bound, and both ratios are reported for every world      *)
(* even when there are no errors.                                          *)
(***************************************************************************)
MinMaxVerdict ==
  (kind = "minmax" /\ status = "reported") =>
    \A i \in Worlds :
      LET u == snap.used[i]  up == snap.uptime[i]
          lo == snap.min[i]  hi == snap.max[i]
      IN  /\ (lo = 0 \/ 100 * u >= up * lo) => <<i, "below min">> \notin errs
          /\ (hi = 0 \/ 100 * u <= up * hi) => <<i, "exceeded max">> \notin errs
          /\ (lo > 0 /\ 10000 * u < up * lo * (100 - MaxErr))
               => <<i, "below min">> \in errs
          /\ (hi > 0 /\ 10000 * u > up * hi * (100 + MaxErr))
               => <<i, "exceeded max">> \in errs
          /\ {<<i, "minratio">>, <<i, "maxratio">>} \subseteq DOMAIN resmap

(***************************************************************************)
(* PerfStatsTest reports each total as a per-second rate: the total        *)
(* divided by the sampling duration RUN_TIME, as the spec defines it.      *)
(***************************************************************************)
PerfRatesExact ==
  (kind = "perfstats" /\ status = "reported") =>
    \A k \in {"switch", "pmigs", "yields", "idle"} :
      LET total == IF k = "yields" THEN snap.yield
                   ELSE IF k = "switch" THEN snap.switch
                   ELSE IF k = "pmigs" THEN snap.pmigs ELSE snap.idle
      IN  resmap[k][1] * RunTime = total * resmap[k][2]

(***************************************************************************)
(* VmkstatsTest: the idle-loop functions (CpuSched_IdleLoop,               *)
(* SMP_SlaveHaltCheck, CpuSchedBusyWait) also match the "CpuSched"         *)
(* pattern, so only the order of regexTuples and the break keep them out   *)
(* of the scheduler share. Stated by what the categories mean, not by      *)
(* that order: the idle share is the part of the profile in idle-loop      *)
(* functions, the scheduler share the part in the other CpuSched           *)
(* functions, and the lock and udelay shares the part in their functions.  *)
(***************************************************************************)
VmkCategoriesExact ==
  (kind = "vmkstats" /\ status = "reported" /\ dumpDir # NoDump) =>
    LET cnt(f)   == FuncCount(dumpDir, f)
        total    == Sum([f \in Funcs |-> cnt(f)])
        idleF    == {f \in Funcs : "idle" \in Matches[f]}
        meant(c) == IF c = "idle" THEN idleF
                    ELSE {f \in Funcs \ idleF : c \in Matches[f]}
    IN  total > 0 =>
          \A c \in VmkNames :
             resmap[c][1] * total
               = 100 * Sum([f \in meant(c) |-> cnt(f)]) * resmap[c][2]

(***************************************************************************)
(* VmkstatsTest reports a profile of its own test only: the dump          *)
(* results() reads holds no sample taken before this test's run() reset   *)
(* the profiler, neither one left from the tests before it in the         *)
(* profiler's counters nor a dump an earlier test left in dumpDir.        *)
(***************************************************************************)
VmkProfileOwn ==
  (kind = "vmkstats" /\ status = "reported") =>
    dumpDir = NoDump \/ \A f \in Funcs : dumpDir[<<"old", f>>] = 0

(***************************************************************************)
(* A VmkstatsTest whose profile was never dumped does not return results  *)
(* without an error: the dump command's exit status is read.              *)
(***************************************************************************)
VmkDumpFailureNoticed ==
  (kind = "vmkstats" /\ status = "reported") => dumpDir # NoDump \/ errs # {}

(***************************************************************************)
(* The docstring: the profile is of "the course of the test run", the     *)
(* RUN_TIME sleep; no sample taken after it is in the dump.               *)
(***************************************************************************)
VmkWindowOnly ==
  (kind = "vmkstats" /\ status = "reported") =>
    dumpDir = NoDump \/ \A f \in Funcs : dumpDir[<<"after", f>>] = 0

=============================================================================
