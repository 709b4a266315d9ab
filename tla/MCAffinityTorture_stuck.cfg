\* Whether a vcpu that did not run during a window is reported as stuck.
CONSTANTS
  NumLogical <- MCNumLogical
  VcpuCounts <- MCVcpuCounts
  NumReps <- MCNumReps
  InIndexOrder = TRUE
  MayDropLine = FALSE
SPECIFICATION Spec
INVARIANT StuckVcpuReported
CHECK_DEADLOCK FALSE
