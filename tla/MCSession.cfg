SPECIFICATION FairSpec
CHECK_DEADLOCK FALSE
CONSTANTS
  Phones = {p1}
  Users = {alice, bob}
  Devices = {atv1, atv2}
  None = None
  Missing = Missing
  Faults = {"kill", "readError", "signOutError"}
  MaxFaults = 2
  MaxChoices = 2
INVARIANTS
  TypeOK
  HomeIsOwn
  HomeShowsChoice
  CreatedOnlyIfMissing
  ChoiceStored
  NoCrash
PROPERTY
  SignInLeadsHome
