SPECIFICATION Spec
CHECK_DEADLOCK FALSE
CONSTANTS
  Rides <- MCRides
  MonthsPerYear = 2
  DaysPerMonth = 2
INVARIANTS
  TypeOK
  CalendarOrder
  FiledOnce
  TotalsAgree
  RidesInOrder
