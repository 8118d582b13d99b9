\* One session, standalone or on a cluster of three endpoints, up to three
\* interrupted runs.
CONSTANTS
  Sessions = {s1}
  EndpointLists <- StandaloneOrCluster
  MaxFaults = 3
SPECIFICATION Spec
INVARIANTS TypeOK
PROPERTIES ImplementsHostImage RerunPublishes StuckForGood
