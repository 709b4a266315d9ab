\* the script against a controller that answers each request either way
CONSTANTS
  NcpusNode <- MCNcpusNode
  Reserved = 10
  Honest = FALSE
SPECIFICATION Spec
INVARIANT TypeOK
INVARIANT ErrorOnlyOnBreach
CHECK_DEADLOCK FALSE
