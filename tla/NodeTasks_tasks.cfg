\* Two addresses for torproxy; any three crashes and removals.  The system
\* rests once every container runs: deadlock is not an error.
CONSTANTS
  Addresses <- TwoAddresses
  MaxFaults = 3
SPECIFICATION Spec
INVARIANTS TypeOK BehindTor
PROPERTIES NodesComeUp ClightningAfterBitcoind
CHECK_DEADLOCK FALSE
