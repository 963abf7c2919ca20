SPECIFICATION Spec
CHECK_DEADLOCK FALSE
CONSTANTS
  Missing = Missing
  kMaxWatchStreamFailures = 1
  Blind = FALSE
  OtherKinds = {"set"}
  Faults = {"restart", "connectionLost", "credential"}
  MaxFaults = 1
  MaxReads = 2
  MaxWrites = 1
  MaxOthers = 1
INVARIANTS
  TypeOK
  HardAssertsHold
  SyncedReads
  MonotonicReads
  NoReadLeftWaiting
