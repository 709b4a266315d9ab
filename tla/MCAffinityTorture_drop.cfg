\* Whether a single corrupt vcpu line, which load_data drops, is tolerated
\* by the torture test as the spec's per-line policy says, or ends the run.
CONSTANTS
  NumLogical <- MCNumLogical
  VcpuCounts <- MCVcpuCounts
  NumReps <- MCNumReps
  InIndexOrder = TRUE
  MayDropLine = TRUE
SPECIFICATION Spec
INVARIANT DroppedLineTolerated
CHECK_DEADLOCK FALSE
