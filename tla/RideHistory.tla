---------------------------- MODULE RideHistory ----------------------------
(***************************************************************************)
(* FirebaseManager.organizeUserRides(rides:), which files a user's rides   *)
(* by year and month, over the classes of Models/RideOrganization.swift.   *)
(* A step is one iteration of the loop over the rides sorted by date;      *)
(* rides of one date may come in any order.  DataManager.organizeUserRides *)
(* is the same loop without the totals.                                    *)
(***************************************************************************)
EXTENDS Integers, Sequences, FiniteSetsExt, SequencesExt

CONSTANTS
  Rides,            \* the rides there may be
  MonthsPerYear,    \* the calendar: months of a year
  DaysPerMonth      \* and days of a month, all of one length

ASSUME CalendarAssumption == MonthsPerYear \in Nat \ {0} /\ DaysPerMonth \in Nat \ {0}

\* Two rides may have everything but the id in common.
RideType == [id : Nat, rideDate : Nat, totalTime : Nat, mileage : Nat, didRollover : BOOLEAN]

ASSUME RidesAssumption == Rides \subseteq RideType

VARIABLES
  rides,      \* the argument, any set of rides
  pending,    \* rides the loop has not come to
  history     \* history.years: a sequence of years, each a sequence of months

vars == <<rides, pending, history>>

\* What the formatters make of a date.
Year(ride) == (ride.rideDate \div DaysPerMonth) \div MonthsPerYear

\* Mutant: the month is taken from the day as if years did not begin anew.
MonthOfAllTime(ride) == ride.rideDate \div DaysPerMonth

Month(ride) == (ride.rideDate \div DaysPerMonth) % MonthsPerYear

RideMonths ==
  [monthName : 0 .. MonthsPerYear - 1, rides : Seq(Rides),
   time : Nat, mileage : Nat, rollovers : Nat]

RideYears == [yearName : Nat, months : Seq(RideMonths)]

TypeOK ==
  /\ rides \subseteq Rides /\ pending \subseteq rides
  /\ history \in Seq(RideYears)

Init == rides \in SUBSET Rides /\ pending = rides /\ history = <<>>

-----------------------------------------------------------------------------
RideYear(year) == [yearName |-> year, months |-> <<>>]

RideMonth(month) ==
  [monthName |-> month, rides |-> <<>>, time |-> 0, mileage |-> 0, rollovers |-> 0]

\* Mutant: a year is looked for in the first place only.
WithYearFirst(years, ride) ==
  IF years # <<>> /\ years[1].yearName = Year(ride)
    THEN years ELSE Append(years, RideYear(Year(ride)))

WithYear(years, ride) ==
  IF \E y \in DOMAIN years : years[y].yearName = Year(ride)
    THEN years ELSE Append(years, RideYear(Year(ride)))

\* Mutant: the test of the year is dropped.
MonthsForEveryYear(year, ride) ==
  IF \A m \in DOMAIN year.months : year.months[m].monthName # Month(ride)
    THEN Append(year.months, RideMonth(Month(ride))) ELSE year.months

\* The months of a year, the ride's among them if it is the ride's year.
MonthsFor(year, ride) ==
  IF /\ \A m \in DOMAIN year.months : year.months[m].monthName # Month(ride)
     /\ year.yearName = Year(ride)
    THEN Append(year.months, RideMonth(Month(ride))) ELSE year.months

\* Mutant: the rollovers are not counted by ride.
addRideAllRollovers(month, ride) ==
  [month EXCEPT !.rides = Append(@, ride),
                !.time = @ + ride.totalTime,
                !.mileage = @ + ride.mileage,
                !.rollovers = @ + 1]

addRide(month, ride) ==
  [month EXCEPT !.rides = Append(@, ride),
                !.time = @ + ride.totalTime,
                !.mileage = @ + ride.mileage,
                !.rollovers = @ + (IF ride.didRollover THEN 1 ELSE 0)]

\* The inner loop of one year: every month of the ride's name gets the ride.
Filed(year, ride) ==
  LET months == MonthsFor(year, ride)
  IN [year EXCEPT !.months =
        [m \in DOMAIN months |->
           IF months[m].monthName = Month(ride) THEN addRide(months[m], ride)
                                                ELSE months[m]]]

\* Mutant: the rides are taken as they come.
EarliestAny(some) == some

\* The rides sorted { $0.rideDate < $1.rideDate } may begin with.
Earliest(some) == { r \in some : \A s \in some : r.rideDate <= s.rideDate }

\* One iteration: the ride's year is there, then every year is gone through.
organizeUserRide ==
  \E ride \in Earliest(pending) :
    /\ pending' = pending \ {ride}
    /\ LET years == WithYear(history, ride)
       IN history' = [y \in DOMAIN years |-> Filed(years[y], ride)]
  /\ UNCHANGED rides

Next == organizeUserRide

Spec == Init /\ [][Next]_vars

FairSpec == Spec /\ WF_vars(Next)

-----------------------------------------------------------------------------
(***************************************************************************)
(* The years, and the months of each year, are in calendar order and each  *)
(* is there once, although the loops only ever append.                     *)
(***************************************************************************)
CalendarOrder ==
  /\ \A i, j \in DOMAIN history : i < j => history[i].yearName < history[j].yearName
  /\ \A y \in DOMAIN history : \A i, j \in DOMAIN history[y].months :
       i < j => history[y].months[i].monthName < history[y].months[j].monthName

(***************************************************************************)
(* Every ride the loop has come to is in the month of its own year and     *)
(* name, and in the months of that name of earlier years, in each of them  *)
(* once; it is in no other month, and a ride to come is in none.           *)
(***************************************************************************)
FiledOnce ==
  \A ride \in rides :
    /\ ride \notin pending =>
         \E y \in DOMAIN history : \E m \in DOMAIN history[y].months :
           /\ history[y].yearName = Year(ride)
           /\ history[y].months[m].monthName = Month(ride)
    /\ \A y \in DOMAIN history : \A m \in DOMAIN history[y].months :
         LET month == history[y].months[m]
         IN Cardinality({ i \in DOMAIN month.rides : month.rides[i] = ride }) =
              IF /\ ride \notin pending
                 /\ month.monthName = Month(ride)
                 /\ history[y].yearName <= Year(ride)
                THEN 1 ELSE 0

(***************************************************************************)
(* The totals of a month are those of the rides shown in it, and a month   *)
(* is shown only if it has a ride of its own year, in first place.         *)
(***************************************************************************)
TotalsAgree ==
  \A y \in DOMAIN history : \A m \in DOMAIN history[y].months :
    LET month == history[y].months[m]
        places == DOMAIN month.rides
    IN /\ month.rides # <<>> /\ Year(month.rides[1]) = history[y].yearName
       /\ month.time = MapThenSumSet(LAMBDA i : month.rides[i].totalTime, places)
       /\ month.mileage = MapThenSumSet(LAMBDA i : month.rides[i].mileage, places)
       /\ month.rollovers = Cardinality({ i \in places : month.rides[i].didRollover })

(***************************************************************************)
(* The rides of a month are in the order of their dates, which is how      *)
(* MonthlyHistoryTableViewController lists them.                           *)
(***************************************************************************)
RidesInOrder ==
  \A y \in DOMAIN history : \A m \in DOMAIN history[y].months :
    LET shown == history[y].months[m].rides
    IN \A i, j \in DOMAIN shown : i < j => shown[i].rideDate <= shown[j].rideDate

(***************************************************************************)
(* A ride is filed in the scope of its year only: the loop is commented    *)
(* "iterate through months in ride year".                                  *)
(***************************************************************************)
OnlyInItsYear ==
  \A y \in DOMAIN history : \A m \in DOMAIN history[y].months :
    \A i \in DOMAIN history[y].months[m].rides :
      Year(history[y].months[m].rides[i]) = history[y].yearName
=============================================================================
