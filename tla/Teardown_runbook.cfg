\* One chain, three faults; the broken tier is destroyed, else bcm is run.
CONSTANTS
  Chains = {testnet}
  Provided <- Everything
  MaxFaults = 3
SPECIFICATION Runbook
PROPERTIES RunbookDeploys
