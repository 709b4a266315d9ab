\* Whether shutdown() and the setup retry leave only the current test's
\* worlds running when results() samples the scheduler.
CONSTANTS
  Tests <- MCTests
  MaxSpin <- MCMaxSpin
  MaxId <- MCMaxId
  LateCreation = FALSE
  PauseSuffices = TRUE
SPECIFICATION Spec
INVARIANT TestIsolation
CHECK_DEADLOCK FALSE
