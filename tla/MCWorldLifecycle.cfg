\* Sound id discovery, leaders present at results() and termination, when
\* the kernel settles within the polling window and stopped worlds are gone
\* by the end of PAUSE_TIME. The harness process ends after its last test
\* (or an uncaught exception), so a final state is not a deadlock;
\* Terminates checks that every behaviour gets there.
CONSTANTS
  Tests <- MCTests
  MaxSpin <- MCMaxSpin
  MaxId <- MCMaxId
  LateCreation = FALSE
  PauseSuffices = TRUE
SPECIFICATION Spec
INVARIANT TypeOK
INVARIANT IdsAreOwn
INVARIANT LeadersInDump
PROPERTY Terminates
PROPERTY RunnerSpec
CHECK_DEADLOCK FALSE
