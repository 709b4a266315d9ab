--------------------------- MODULE MCTestResults ---------------------------
(* Three worlds for the fairness test, as in the spec's example, two for   *)
(* the others, whose checks are per world; the share values of          *)
(* the suites scaled down (their ratios kept), usedsec in 0..3 so exact    *)
(* proportional, off-by-less-than and off-by-more-than-10% splits occur;   *)
(* min and max 0 (unset), 40 and 120 percent as in get_minmax_tests; an    *)
(* uptime of 0 and one where the 10% tolerance bands have integer edges;   *)
(* counts below, at and above RUN_TIME (and 74: 1 + 74 rounds up); four   *)
(* kernel functions for vmkstats, one per way a vmkstatsview line can     *)
(* match regexTuples: a lock function, the idle loop (matching both the   *)
(* idle and the "CpuSched" pattern), another CpuSched function, and one   *)
(* matching none; up to two samples, and an earlier test's leftovers.     *)
EXTENDS TestResults, TLC

MCNumWorlds  == [fairness |-> 3, minmax |-> 2, perfstats |-> 2, vmkstats |-> 1]
MCShareVals  == {1, 2, 3}
MCUsedVals   == 0..3
MCPctVals    == {0, 40, 120}
MCUptimeVals == {0, 5}
MCCountVals  == {0, 1, 50, 74}
CONSTANTS SP_WaitLockIRQ, CpuSched_IdleLoop, CpuSched_Wait, Other
MCFuncs      == {SP_WaitLockIRQ, CpuSched_IdleLoop, CpuSched_Wait, Other}
MCMatches    == (SP_WaitLockIRQ :> {"locks"}) @@ (CpuSched_IdleLoop :> {"idle", "sched"})
                  @@ (CpuSched_Wait :> {"sched"}) @@ (Other :> {})
MCOldProfiles == {[f \in MCFuncs |-> 0], [f \in MCFuncs |-> IF f = Other THEN 1 ELSE 0]}
MCNumPcpus   == 2
=============================================================================
