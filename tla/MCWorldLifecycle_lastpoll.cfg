\* Whether TestWorld.start gives up only when no new world id was seen.
CONSTANTS
  Tests <- MCTests
  MaxSpin <- MCMaxSpin
  MaxId <- MCMaxId
  LateCreation = FALSE
  PauseSuffices = TRUE
SPECIFICATION Spec
PROPERTY GivesUpOnlyWithoutNewId
CHECK_DEADLOCK FALSE
