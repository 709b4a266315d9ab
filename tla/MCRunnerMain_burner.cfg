\* Whether the program always exits when no test raises: main sets the
\* burner's die flag after the last test, and the burner thread polls it.
CONSTANTS
  KeyOrder <- MCKeyOrder
  OptChoices <- MCOptChoices
  ArgChoices <- MCArgChoices
  MaxOpts = 2
  Bad = Bad
  NoVal = NoVal
  TestsMayRaise = FALSE
SPECIFICATION Spec
PROPERTY ProgramExits
CHECK_DEADLOCK FALSE
