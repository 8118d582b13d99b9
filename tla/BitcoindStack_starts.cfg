\* Each of the three chains, with any contents of ~/.bitcoin; any three
\* disturbances.
CONSTANTS
  Chains <- AllChains
  MaxFaults = 3
SPECIFICATION Spec
INVARIANTS TypeOK SeedsOnlyFresh
PROPERTIES StartsBringItUp OneChanceToSeed
