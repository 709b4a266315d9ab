\* Every option list of up to two options, every argument list above, with
\* and without the hyperthreading node, and tests that may raise: the
\* sys.exit(-1) paths leave no test run and no thread behind. The program
\* ends after its last test, so final states are not deadlocks.
CONSTANTS
  KeyOrder <- MCKeyOrder
  OptChoices <- MCOptChoices
  ArgChoices <- MCArgChoices
  MaxOpts = 2
  Bad = Bad
  NoVal = NoVal
  TestsMayRaise = TRUE
SPECIFICATION Spec
INVARIANT TypeOK
INVARIANT ExitBeforeWork
CHECK_DEADLOCK FALSE
