\* Affinity errors are exactly the misplaced vcpus, with a corrupt vcpu
\* line possibly dropped from a snapshot.
\* The torture loop ends after NumReps repetitions (or an exception), so
\* its final states are not deadlocks.
CONSTANTS
  NumLogical <- MCNumLogical
  VcpuCounts <- MCVcpuCounts
  NumReps <- MCNumReps
  InIndexOrder = TRUE
  MayDropLine = TRUE
SPECIFICATION Spec
INVARIANT TypeOK
INVARIANT AffinityErrorsExact
CHECK_DEADLOCK FALSE
