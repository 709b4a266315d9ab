------------------------------- MODULE Suites -------------------------------
(***************************************************************************)
(* The test suites of schedtests.py as data: every test each get_*_tests  *)
(* function builds, with its class and its worlds' configuration as        *)
(* TimerWorld / BasicWorld / TestWorld.__init__ (runschedtests.py) set it *)
(* up. A world is a record; a test is [class, worlds]; a suite is the      *)
(* sequence of tests its function returns.                                 *)
(***************************************************************************)
EXTENDS Integers, Sequences

\* affinity=None, an int a or a list: as <<>>, <<a>> and the list (the
\* suites give a list only to duals, an int only to unis)
NoAffinity == << >>
NoHT       == "None"       \* self.htsharing = None

\* TimerWorld / BasicWorld(run, wait, shares, numvcpus, min=0, max=0,
\* affinity): TestWorld.__init__ stores max = 100 * numvcpus for max = 0
World(kind, run, wait, shares, n, aff) ==
  [kind |-> kind, run |-> run, wait |-> wait, shares |-> shares,
   vcpus |-> n, min |-> 0, max |-> 100 * n, affinity |-> aff, ht |-> NoHT]
Timer(run, wait, shares, n) == World("timer", run, wait, shares, n, NoAffinity)
Basic(run, wait, shares, n) == World("basic", run, wait, shares, n, NoAffinity)

\* the suites' "newworld.min = 40" etc. after construction
Set(w, field, v) == [w EXCEPT ![field] = v]

\* gen_worlds(numWorlds, exampleWorld, variedShares): deep copies; world i
\* (from 1) gets shares i * 1000 when variedShares
GenWorlds(num, w, varied) ==
  [i \in 1..num |-> IF varied THEN Set(w, "shares", i * 1000) ELSE w]

\* runschedtests.py: TEST_SIZE_FACTOR = 1 (the module's, which the test
\* classes read; -S assigns __main__'s)
TEST_SIZE_FACTOR == 1

\* BasicTest.__init__: self.vms = vms * TEST_SIZE_FACTOR, the list repeated
Test(class, worlds) ==
  [class |-> class,
   worlds |-> [i \in 1..Len(worlds) * TEST_SIZE_FACTOR |->
                 worlds[((i - 1) % Len(worlds)) + 1]]]

PerfstatsTests ==
  LET t1 == [k \in 1..6 |-> Timer(3, 1, ((k + 1) \div 2) * 1000,
                                  IF k % 2 = 1 THEN 2 ELSE 1)]
  IN  << Test("PerfStatsTest", t1),
         Test("PerfStatsTest", GenWorlds(13, Basic(10, 0, 1000, 2), FALSE)),
         Test("PerfStatsTest", GenWorlds(13, Basic(10, 0, 1000, 1), FALSE)),
         Test("PerfStatsTest", GenWorlds(21, Timer(5, 5, 1000, 1), FALSE)),
         Test("PerfStatsTest", GenWorlds(11, Timer(5, 5, 1000, 2), FALSE)) >>

MinmaxTests ==
  LET t3(i) == Set(Set(Timer(5, 5, i * 1000, 1), "min", 20), "max", 40)
  IN  << Test("MinMaxTest",
              GenWorlds(3, Set(Basic(10, 0, 1000, 1), "min", 40), FALSE)
                \o << Basic(10, 0, 8000, 1) >>),
         Test("MinMaxTest",
              GenWorlds(3, Set(Basic(10, 0, 1000, 1), "max", 25), FALSE)),
         Test("MinMaxTest", [i \in 1..4 |-> t3(i)]),
         Test("MinMaxTest",
              << Set(Timer(10, 5, 1000, 2), "min", 120), Timer(10, 5, 3000, 2),
                 Timer(10, 5, 2000, 1), Set(Timer(10, 5, 6000, 1), "max", 50) >>) >>

AffinityTests ==
  LET b(s) == World("basic", 10, 0, s, 1, <<1>>)
      t(s, a) == World("timer", 10, 2, s, 1, <<a>>)
      d(s, a) == World("timer", 10, 2, s, 2, a)
  IN  << Test("FairnessTest", << b(1000), b(4000), b(4000), b(4000), b(12000) >>),
         Test("FairnessTest", << t(1000, 1), t(5000, 1), t(10000, 1),
                                 t(5000, 0), t(5000, 0), t(6000, 0) >>),
         Test("FairnessTest", << d(1000, <<0, 1>>), d(5000, <<1, 0>>),
                                 d(10000, <<0, 1>>) >>) >>

AffinitytortureTests ==
  << Test("AffinityTortureTest", GenWorlds(9, Basic(10, 0, 1000, 1), FALSE)),
     Test("AffinityTortureTest", GenWorlds(5, Basic(10, 0, 1000, 2), FALSE)),
     Test("AffinityTortureTest", GenWorlds(5, Timer(5, 5, 1000, 2), FALSE)
                                   \o GenWorlds(4, Timer(8, 2, 2000, 1), FALSE)) >>

\* the 13 BasicWorlds built first are never used
VmkstatsTests ==
  << Test("VmkstatsTest", GenWorlds(11, Timer(1, 1, 1000, 2), FALSE)),
     Test("VmkstatsTest", GenWorlds(13, Basic(10, 0, 1000, 1), FALSE)),
     Test("VmkstatsTest", GenWorlds(13, Timer(5, 5, 1000, 2), FALSE)),
     Test("VmkstatsTest", GenWorlds(13, Timer(5, 5, 1000, 1), FALSE)),
     Test("VmkstatsTest", GenWorlds(21, Timer(5, 5, 1000, 1), FALSE)) >>

\* three 5-5 unis then three 5-5 duals, as both htsharing tests and the
\* last fairness test build them
UnisDuals == GenWorlds(3, Timer(5, 5, 1000, 1), FALSE)
               \o GenWorlds(3, Timer(5, 5, 1000, 2), FALSE)

\* [] without the /proc/vmware/sched/hyperthreading node; vms[3], vms[4]
\* (from 0) get "internal", then vms[0], vms[3] get "none"
HtsharingTests(htNode) ==
  IF ~htNode THEN << >>
  ELSE << Test("FairnessTest", [UnisDuals EXCEPT ![4].ht = "internal",
                                                 ![5].ht = "internal"]),
          Test("FairnessTest", [UnisDuals EXCEPT ![1].ht = "none",
                                                 ![4].ht = "none"]) >>

FairnessTests ==
  LET t3 == [k \in 1..8 |-> Basic(10, 0, ((k + 1) \div 2) * 1000,
                                  IF k % 2 = 1 THEN 1 ELSE 2)]
      sh == << 1000, 2000, 3000, 3000, 1000, 2000, 3000, 1000, 2000, 3000 >>
  IN  << Test("FairnessTest", GenWorlds(13, Basic(10, 0, 1000, 1), TRUE)),
         Test("FairnessTest", GenWorlds(13, Timer(10, 10, 1000, 1), TRUE)),
         Test("FairnessTest", t3),
         Test("FairnessTest", GenWorlds(3, Timer(10, 0, 1000, 1), FALSE)),
         Test("FairnessTest", [i \in 1..10 |-> Timer(1, 4, sh[i], 1)]),
         Test("FairnessTest", UnisDuals) >>

\* all_tests[name](): the tests of suite name
SuiteTests(name, htNode) ==
  CASE name = "fairness"     -> FairnessTests
    [] name = "perfstats"    -> PerfstatsTests
    [] name = "minmax"       -> MinmaxTests
    [] name = "affinity"     -> AffinityTests
    [] name = "vmkstats"     -> VmkstatsTests
    [] name = "affintorture" -> AffinitytortureTests
    [] name = "htsharing"    -> HtsharingTests(htNode)

\* TestWorld.start writes a cpu/* config node for w: min, max, affinity or
\* hyperthreading differ from their defaults
WritesConfig(w) ==
  w.min # 0 \/ w.max # 100 * w.vcpus \/ w.affinity # NoAffinity \/ w.ht # NoHT

=============================================================================
