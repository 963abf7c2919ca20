SPECIFICATION FairSpec
CHECK_DEADLOCK FALSE
CONSTANTS
  Phones = {p1}
  Users = {alice}
  Devices = {atv1}
  None = None
  Missing = Missing
  Faults = {"kill"}
  MaxFaults = 1
  MaxChoices = 1
PROPERTY
  AutologinLeadsHome
