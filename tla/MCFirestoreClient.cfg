SPECIFICATION Spec
CHECK_DEADLOCK FALSE
SYMMETRY Symmetry
CONSTANTS
  Users = {alice, bob}
  None = None
  kMaxPendingWrites = 2
  Faults = {"kill", "tokenError", "connectionLost", "refused"}
  MaxFaults = 2
  MaxWrites = 3
  MaxSwitches = 2
INVARIANTS
  TypeOK
  CommittedAsOwner
  HardAssertsHold
PROPERTY
  WriteQueueSpec
