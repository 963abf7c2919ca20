SPECIFICATION Spec
CHECK_DEADLOCK FALSE
CONSTANTS
  Phones = {p1, p2}
  Users = {alice}
  Devices = {atv1}
  None = None
  Missing = Missing
  Faults = {}
  MaxFaults = 0
  MaxChoices = 1
INVARIANT
  CreatedOnlyIfMissing
