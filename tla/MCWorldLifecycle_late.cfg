\* Whether id discovery only ever adopts the world its own start request
\* created, when a request may complete after TestWorld.start has given up
\* (the setup retry then polls while it appears) and another process may
\* start a world while a TestWorld polls for its new id. Run on
\* MCForeignLifecycle.
CONSTANTS
  Tests <- MCTests
  MaxSpin <- MCMaxSpin
  MaxId <- MCMaxId
  LateCreation = TRUE
  PauseSuffices = TRUE
SPECIFICATION SpecForeign
INVARIANT IdsAreOwn
CHECK_DEADLOCK FALSE
