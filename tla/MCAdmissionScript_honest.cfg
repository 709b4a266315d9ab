\* the script against a controller that keeps its contract
CONSTANTS
  NcpusNode <- MCNcpusNode
  Reserved = 10
  Honest = TRUE
SPECIFICATION Spec
INVARIANT HonestKernelPasses
CHECK_DEADLOCK FALSE
