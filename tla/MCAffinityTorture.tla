------------------------- MODULE MCAffinityTorture -------------------------
(***************************************************************************)
(* Worlds 5 and 6 of the suite's "mixedUniSmpTorture" test, its last dual *)
(* and first uni, on a two-cpu host, two repetitions: the second          *)
(* repetition checks the affinities drawn in the first.                    *)
(***************************************************************************)
EXTENDS AffinityTorture

S == INSTANCE Suites

Torture == S!SuiteTests("affintorture", FALSE)

\* the smallest host every world of the affintorture suite fits on: as
\* many logical cpus as its widest world has vcpus (2, its duals)
MCNumLogical ==
  LET widths == UNION {{Torture[t].worlds[i].vcpus : i \in DOMAIN Torture[t].worlds}
                        : t \in DOMAIN Torture}
  IN  CHOOSE m \in widths : \A v \in widths : v <= m

MCVcpuCounts ==
  [i \in 1..2 |-> Torture[3].worlds[i + 4].vcpus]
MCNumReps == 2
=============================================================================
