SPECIFICATION FairSpec
CHECK_DEADLOCK FALSE
CONSTANTS
  Users = {alice}
  None = None
  kMaxPendingWrites = 1
  Faults = {"kill", "tokenError", "connectionLost", "refused"}
  MaxFaults = 2
  MaxWrites = 2
  MaxSwitches = 2
PROPERTY
  Answers
