\* Whether a failed test only ever gets reported and the run goes on, as the
\* spec's error handling says, when tests raise no exception of their own.
CONSTANTS
  KeyOrder <- MCKeyOrder
  OptChoices <- MCOptChoices
  ArgChoices <- MCArgChoices
  MaxOpts = 2
  Bad = Bad
  NoVal = NoVal
  TestsMayRaise = FALSE
SPECIFICATION Spec
INVARIANT SoftFailuresContinue
CHECK_DEADLOCK FALSE
