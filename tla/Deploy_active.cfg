\* One chain, one fault.
CONSTANTS
  Chains = {mainnet}
  Provided <- Everything
  MaxFaults = 1
SPECIFICATION Spec
INVARIANTS DoneMeansActive
