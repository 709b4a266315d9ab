\* A snapshot may list a dual's vcpus in any order: checkAffinity then
\* misattributes affinity errors.
\* The torture loop ends after NumReps repetitions (or an exception), so
\* its final states are not deadlocks.
CONSTANTS
  NumLogical <- MCNumLogical
  VcpuCounts <- MCVcpuCounts
  NumReps <- MCNumReps
  InIndexOrder = FALSE
  MayDropLine = FALSE
SPECIFICATION Spec
INVARIANT AffinityErrorsExact
CHECK_DEADLOCK FALSE
