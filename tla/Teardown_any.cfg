\* Two chains; runs of bcm and destroy scripts in any order, one fault.
CONSTANTS
  Chains = {mainnet, testnet}
  Provided <- Everything
  MaxFaults = 1
SPECIFICATION AnyOrder
INVARIANTS TeardownTypeOK
PROPERTIES OthersKeepTheirs HostsLiveAndDie HopelessForGood
