SPECIFICATION Spec
CHECK_DEADLOCK FALSE
CONSTANTS
  Missing = Missing
  kMaxWatchStreamFailures = 1
  Blind = FALSE
  OtherKinds = {"set", "update"}
  Faults = {}
  MaxFaults = 0
  MaxReads = 2
  MaxWrites = 1
  MaxOthers = 1
INVARIANT
  UpToDateUnlessFromCache
