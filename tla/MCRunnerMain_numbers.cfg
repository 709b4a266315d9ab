\* Whether the number run_tests prints for a test is the one -n selects it
\* by.
CONSTANTS
  KeyOrder <- MCKeyOrder
  OptChoices <- MCOptChoices
  ArgChoices <- MCArgChoices
  MaxOpts = 2
  Bad = Bad
  NoVal = NoVal
  TestsMayRaise = FALSE
SPECIFICATION Spec
INVARIANT ReportedNumberSelects
CHECK_DEADLOCK FALSE
