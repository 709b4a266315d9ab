\* Whether -t and -S change how long each test runs and how many worlds it
\* starts.
CONSTANTS
  KeyOrder <- MCKeyOrder
  OptChoices <- MCOptChoices
  ArgChoices <- MCArgChoices
  MaxOpts = 2
  Bad = Bad
  NoVal = NoVal
  TestsMayRaise = FALSE
SPECIFICATION Spec
INVARIANT OptionsHonoured
CHECK_DEADLOCK FALSE
