\* One tier rebuilt with a backup at hand.
CONSTANTS
  Chains <- AllChains
  MaxFaults = 3
SPECIFICATION Spec
INVARIANTS RestoredFirst
