\* Two chains; any three faults, then undisturbed runs.
CONSTANTS
  Chains = {mainnet, testnet}
  Provided <- Everything
  MaxFaults = 3
SPECIFICATION Spec
INVARIANTS TypeOK RunningHasDisk ManagerComplete
PROPERTIES HostLives RerunDeploys BlockedForGood
