\* Three sessions against one LXD, two interruptions.
CONSTANTS
  Sessions = {s1, s2, s3}
  EndpointLists <- Standalone
  MaxFaults = 2
SPECIFICATION Spec
INVARIANTS CleanupIsLast OnePublisher
