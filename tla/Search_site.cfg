\* Two commands, two calls of monkeyPatchAjax, a ping, two early searches;
\* a page that has done all it may do stops.
CONSTANTS
  MaxId = 2
  MaxPatches = 2
  MaxPings = 1
  Queries = {"here", "nowhere"}
  Hits <- SomeHits
  MaxSearches = 2
SPECIFICATION Spec
INVARIANTS SettledByItsAnswer SearchesAreRight
PROPERTIES RequestIsKeyed ComesUp
CHECK_DEADLOCK FALSE
