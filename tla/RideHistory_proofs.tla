------------------------- MODULE RideHistory_proofs -------------------------
(***************************************************************************)
(* Filing keeps the calendar order, files each ride where it is due and    *)
(* keeps the totals, for every set of rides and every calendar.            *)
(***************************************************************************)
EXTENDS RideHistory, SequenceTheorems, FiniteSetTheorems, TLAPS

\* A set of natural numbers has a least one.
LEMMA LeastNatural ==
  ASSUME NEW T, T \subseteq Nat, T # {}
  PROVE  \E b \in T : \A y \in T : b <= y
<1> DEFINE Less == { p \in Nat \X Nat : p[1] < p[2] }
<1>1. IsWellFoundedOn(Less, Nat)
  BY NatLessThanWellFounded DEF OpToRel
<1>2. \A m, n \in Nat : m < n => <<m, n>> \in Less
  OBVIOUS
<1> HIDE DEF Less
<1>3. PICK b \in T : \A y \in T : ~ (<<y, b>> \in Less)
  BY <1>1, WFMin
<1>4. \A y \in T : ~ (y < b)
  BY <1>2, <1>3
<1>5. QED
  BY <1>4


-----------------------------------------------------------------------------
LEMMA DivMod ==
  ASSUME NEW K \in Nat \ {0}, NEW n \in Nat
  PROVE  /\ n \div K \in Nat
         /\ n % K \in 0 .. K - 1
         /\ n = K * (n \div K) + (n % K)
OBVIOUS

LEMMA DivMonotone ==
  ASSUME NEW K \in Nat \ {0}, NEW a \in Nat, NEW b \in Nat, a <= b
  PROVE  /\ a \div K <= b \div K
         /\ a \div K = b \div K => a % K <= b % K
OBVIOUS

LEMMA FormatterTypes ==
  ASSUME NEW ride \in RideType
  PROVE  Year(ride) \in Nat /\ Month(ride) \in 0 .. MonthsPerYear - 1
<1> DEFINE n == ride.rideDate \div DaysPerMonth
<1>1. n \in Nat
  BY DivMod, CalendarAssumption DEF RideType
<1> HIDE DEF n
<1>2. n \div MonthsPerYear \in Nat /\ n % MonthsPerYear \in 0 .. MonthsPerYear - 1
  BY <1>1, DivMod, CalendarAssumption
<1>3. QED
  BY <1>2 DEF Year, Month, n

\* Years, and months within a year, do not decrease with the date.
LEMMA FormattersMonotone ==
  ASSUME NEW r \in RideType, NEW s \in RideType, r.rideDate <= s.rideDate
  PROVE  /\ Year(r) <= Year(s)
         /\ Year(r) = Year(s) => Month(r) <= Month(s)
<1> DEFINE a == r.rideDate \div DaysPerMonth
           b == s.rideDate \div DaysPerMonth
<1>1. a \in Nat /\ b \in Nat /\ a <= b
  BY DivMod, DivMonotone, CalendarAssumption DEF RideType
<1> HIDE DEF a, b
<1>2. /\ a \div MonthsPerYear <= b \div MonthsPerYear
      /\ a \div MonthsPerYear = b \div MonthsPerYear => a % MonthsPerYear <= b % MonthsPerYear
  BY <1>1, DivMonotone, CalendarAssumption
<1>3. QED
  BY <1>2 DEF Year, Month, a, b

-----------------------------------------------------------------------------
MonthsOrdered(year) ==
  \A i, j \in DOMAIN year.months :
    i < j => year.months[i].monthName < year.months[j].monthName

RidesOrdered(month) ==
  \A i, j \in DOMAIN month.rides : i < j => month.rides[i].rideDate <= month.rides[j].rideDate

\* Nothing of the month, or of the year, is later than ride r.
MonthBefore(month, r) == \A i \in DOMAIN month.rides : month.rides[i].rideDate <= r.rideDate

YearBefore(year, r) ==
  /\ year.yearName <= Year(r)
  /\ \A m \in DOMAIN year.months :
       /\ year.yearName = Year(r) => year.months[m].monthName <= Month(r)
       /\ MonthBefore(year.months[m], r)

\* Nothing filed is later than a ride still to come.
Behind == \A r \in pending : \A y \in DOMAIN history : YearBefore(history[y], r)

IInv == TypeOK /\ CalendarOrder /\ RidesInOrder /\ Behind

\* WithYear appends the ride's year when it is not there.
LEMMA WithYearProperties ==
  ASSUME NEW years \in Seq(RideYears), NEW ride \in RideType
  PROVE  LET all == WithYear(years, ride)
         IN /\ all \in Seq(RideYears)
            /\ \/ all = years
               \/ /\ Len(all) = Len(years) + 1
                  /\ all[Len(all)] = RideYear(Year(ride))
                  /\ \A y \in DOMAIN years : /\ all[y] = years[y]
                                             /\ years[y].yearName # Year(ride)
<1> DEFINE new == RideYear(Year(ride))
<1>1. new \in RideYears
  BY FormatterTypes DEF RideYear, RideYears
<1> HIDE DEF new
<1>2. CASE \E y \in DOMAIN years : years[y].yearName = Year(ride)
  BY <1>2 DEF WithYear
<1>3. CASE ~ \E y \in DOMAIN years : years[y].yearName = Year(ride)
  <2>1. WithYear(years, ride) = Append(years, new)
    BY <1>3 DEF WithYear, new
  <2>2. /\ Append(years, new) \in Seq(RideYears)
        /\ Len(Append(years, new)) = Len(years) + 1
        /\ Append(years, new)[Len(years) + 1] = new
        /\ \A y \in DOMAIN years : Append(years, new)[y] = years[y]
    BY <1>1, AppendProperties
  <2>3. QED
    BY <1>3, <2>1, <2>2 DEF new
<1>4. QED
  BY <1>2, <1>3

\* MonthsFor appends the ride's month to the ride's year when it is not there.
LEMMA MonthsForProperties ==
  ASSUME NEW year \in RideYears, NEW ride \in RideType
  PROVE  LET all == MonthsFor(year, ride)
         IN /\ all \in Seq(RideMonths)
            /\ \/ all = year.months
               \/ /\ year.yearName = Year(ride)
                  /\ Len(all) = Len(year.months) + 1
                  /\ all[Len(all)] = RideMonth(Month(ride))
                  /\ \A m \in DOMAIN year.months :
                       /\ all[m] = year.months[m]
                       /\ year.months[m].monthName # Month(ride)
<1> DEFINE new == RideMonth(Month(ride))
           months == year.months
<1>1. months \in Seq(RideMonths)
  BY DEF RideYears
<1>2. new \in RideMonths
  BY FormatterTypes DEF RideMonth, RideMonths
<1> DEFINE absent == /\ \A m \in DOMAIN months : months[m].monthName # Month(ride)
                     /\ year.yearName = Year(ride)
<1> HIDE DEF new
<1>3. CASE ~absent
  BY <1>1, <1>3 DEF MonthsFor
<1>4. CASE absent
  <2>1. MonthsFor(year, ride) = Append(months, new)
    BY <1>4 DEF MonthsFor, new
  <2> HIDE DEF months
  <2>2. /\ Append(months, new) \in Seq(RideMonths)
        /\ Len(Append(months, new)) = Len(months) + 1
        /\ Append(months, new)[Len(months) + 1] = new
        /\ \A m \in DOMAIN months : Append(months, new)[m] = months[m]
    BY <1>1, <1>2, AppendProperties
  <2>3. QED
    BY <1>4, <2>1, <2>2 DEF new, months
<1>5. QED
  BY <1>3, <1>4

LEMMA addRideProperties ==
  ASSUME NEW month \in RideMonths, NEW ride \in Rides
  PROVE  /\ addRide(month, ride) \in RideMonths
         /\ addRide(month, ride).monthName = month.monthName
         /\ addRide(month, ride).rides = Append(month.rides, ride)
<1>1. ride \in RideType
  BY RidesAssumption
<1>2. /\ month.time + ride.totalTime \in Nat
      /\ month.mileage + ride.mileage \in Nat
      /\ month.rollovers + (IF ride.didRollover THEN 1 ELSE 0) \in Nat
  BY <1>1 DEF RideMonths, RideType
<1>3. Append(month.rides, ride) \in Seq(Rides)
  BY DEF RideMonths
<1>4. QED
  BY <1>2, <1>3 DEF addRide, RideMonths

\* What the inner loop does to a year.
LEMMA FiledProperties ==
  ASSUME NEW year \in RideYears, NEW ride \in Rides
  PROVE  LET months == MonthsFor(year, ride)
             filed == Filed(year, ride)
         IN /\ filed \in RideYears
            /\ filed.yearName = year.yearName
            /\ DOMAIN filed.months = DOMAIN months
            /\ \A m \in DOMAIN months :
                 /\ filed.months[m].monthName = months[m].monthName
                 /\ \/ filed.months[m].rides = months[m].rides
                    \/ filed.months[m].rides = Append(months[m].rides, ride)
<1> DEFINE months == MonthsFor(year, ride)
           after == [m \in DOMAIN months |->
                       IF months[m].monthName = Month(ride) THEN addRide(months[m], ride)
                                                            ELSE months[m]]
<1>1. months \in Seq(RideMonths)
  BY MonthsForProperties, RidesAssumption
<1>2. Filed(year, ride) = [year EXCEPT !.months = after]
  BY DEF Filed
<1> HIDE DEF months
<1>3. \A m \in DOMAIN months :
        /\ after[m] \in RideMonths
        /\ after[m].monthName = months[m].monthName
        /\ \/ after[m].rides = months[m].rides
           \/ after[m].rides = Append(months[m].rides, ride)
  <2> TAKE m \in DOMAIN months
  <2>1. months[m] \in RideMonths
    BY <1>1
  <2>2. QED
    BY <2>1, addRideProperties
<1>4. after \in Seq(RideMonths) /\ DOMAIN after = DOMAIN months
  BY <1>1, <1>3, IsASeq
<1> HIDE DEF after
<1>5. QED
  BY <1>2, <1>3, <1>4 DEF RideYears, months

LEMMA AppendRideKeepsOrder ==
  ASSUME NEW old \in Seq(Rides), NEW ride \in Rides, NEW r \in Rides,
         \A i, j \in DOMAIN old : i < j => old[i].rideDate <= old[j].rideDate,
         \A i \in DOMAIN old : old[i].rideDate <= ride.rideDate,
         ride.rideDate <= r.rideDate
  PROVE  LET new == Append(old, ride)
         IN /\ \A i, j \in DOMAIN new : i < j => new[i].rideDate <= new[j].rideDate
            /\ \A i \in DOMAIN new : new[i].rideDate <= r.rideDate
<1> DEFINE new == Append(old, ride)
<1>1. /\ DOMAIN old = 1 .. Len(old) /\ Len(old) \in Nat
      /\ DOMAIN new = 1 .. Len(old) + 1
      /\ new[Len(old) + 1] = ride
      /\ \A i \in DOMAIN old : new[i] = old[i]
  BY AppendProperties
<1>2. /\ ride.rideDate \in Nat /\ r.rideDate \in Nat
      /\ \A i \in DOMAIN old : old[i].rideDate \in Nat
  BY RidesAssumption DEF RideType
<1> HIDE DEF new
<1>3. \A i \in DOMAIN new : i \in DOMAIN old \/ i = Len(old) + 1
  BY <1>1
<1>4. \A i \in DOMAIN new : new[i].rideDate <= r.rideDate
  BY <1>1, <1>2, <1>3
<1>5. ASSUME NEW i \in DOMAIN new, NEW j \in DOMAIN new, i < j
      PROVE  new[i].rideDate <= new[j].rideDate
  <2>1. i \in DOMAIN old
    BY <1>1, <1>5
  <2>2. CASE j \in DOMAIN old
    BY <1>1, <1>5, <2>1, <2>2
  <2>3. CASE j = Len(old) + 1
    BY <1>1, <2>1, <2>3
  <2>4. QED
    BY <1>3, <2>2, <2>3
<1>6. QED
  BY <1>4, <1>5 DEF new

\* The months the ride's year gets are still in order and before the ride.
LEMMA MonthsForKeepsOrder ==
  ASSUME NEW year \in RideYears, NEW ride \in Rides, NEW r \in Rides,
         ride.rideDate <= r.rideDate,
         MonthsOrdered(year), \A m \in DOMAIN year.months : RidesOrdered(year.months[m]),
         YearBefore(year, ride), YearBefore(year, r)
  PROVE  LET all == MonthsFor(year, ride)
         IN /\ \A i, j \in DOMAIN all : i < j => all[i].monthName < all[j].monthName
            /\ \A m \in DOMAIN all :
                 /\ RidesOrdered(all[m])
                 /\ MonthBefore(all[m], ride)
                 /\ year.yearName = Year(r) => all[m].monthName <= Month(r)
<1> DEFINE all == MonthsFor(year, ride)
           months == year.months
<1>1. /\ ride \in RideType /\ r \in RideType
      /\ months \in Seq(RideMonths)
  BY RidesAssumption DEF RideYears
<1>2. /\ all \in Seq(RideMonths)
      /\ \/ all = months
         \/ /\ year.yearName = Year(ride)
            /\ Len(all) = Len(months) + 1
            /\ all[Len(all)] = RideMonth(Month(ride))
            /\ \A m \in DOMAIN months : all[m] = months[m] /\ months[m].monthName # Month(ride)
  <2> HIDE DEF all
  <2>1. QED
    BY <1>1, MonthsForProperties DEF all, months
<1> HIDE DEF all
<1>3. CASE all = months
  BY <1>3 DEF MonthsOrdered, YearBefore, all
<1>4. CASE /\ year.yearName = Year(ride)
           /\ Len(all) = Len(months) + 1
           /\ all[Len(all)] = RideMonth(Month(ride))
           /\ \A m \in DOMAIN months : all[m] = months[m] /\ months[m].monthName # Month(ride)
  <2> DEFINE n == Len(months)
  <2>1. /\ n \in Nat /\ DOMAIN months = 1 .. n /\ DOMAIN all = 1 .. n + 1
    BY <1>1, <1>2, <1>4
  <2>2. \A m \in DOMAIN all : m \in DOMAIN months \/ m = n + 1
    BY <2>1
  <2>3. all[n + 1] = RideMonth(Month(ride))
    BY <1>4
  <2>4. /\ all[n + 1].monthName = Month(ride)
        /\ RidesOrdered(all[n + 1])
        /\ MonthBefore(all[n + 1], ride)
    BY <2>3 DEF RideMonth, RidesOrdered, MonthBefore
  <2>5. /\ Month(ride) \in Nat /\ \A m \in DOMAIN months : months[m].monthName \in Nat
    <3>1. Month(ride) \in Nat
      BY <1>1, FormatterTypes, CalendarAssumption
    <3>2. \A m \in DOMAIN months : months[m] \in RideMonths
      BY <1>1
    <3>3. \A m \in DOMAIN months : months[m].monthName \in Nat
      BY <3>2, CalendarAssumption DEF RideMonths
    <3>4. QED
      BY <3>1, <3>3
  <2>6. \A m \in DOMAIN months : months[m].monthName < Month(ride)
    BY <1>4, <2>5 DEF YearBefore
  <2>7. year.yearName = Year(r) => Month(ride) <= Month(r)
    BY <1>1, <1>4, FormattersMonotone
  <2>8. ASSUME NEW i \in DOMAIN all, NEW j \in DOMAIN all, i < j
        PROVE  all[i].monthName < all[j].monthName
    <3>1. i \in DOMAIN months
      BY <2>1, <2>8
    <3>2. CASE j \in DOMAIN months
      BY <1>4, <2>8, <3>1, <3>2 DEF MonthsOrdered
    <3>3. CASE j = n + 1
      BY <1>4, <2>4, <2>6, <3>1, <3>3
    <3>4. QED
      BY <2>2, <3>2, <3>3
  <2>9. \A m \in DOMAIN all :
          /\ RidesOrdered(all[m])
          /\ MonthBefore(all[m], ride)
          /\ year.yearName = Year(r) => all[m].monthName <= Month(r)
    BY <1>4, <2>2, <2>4, <2>7 DEF YearBefore
  <2>10. QED
    BY <2>8, <2>9 DEF all
<1>5. QED
  BY <1>2, <1>3, <1>4 DEF all

\* Filing a ride keeps a year in order and before every later ride.
LEMMA FiledKeepsOrder ==
  ASSUME NEW year \in RideYears, NEW ride \in Rides, NEW r \in Rides,
         ride.rideDate <= r.rideDate,
         MonthsOrdered(year), \A m \in DOMAIN year.months : RidesOrdered(year.months[m]),
         YearBefore(year, ride), YearBefore(year, r)
  PROVE  LET filed == Filed(year, ride)
         IN /\ MonthsOrdered(filed)
            /\ \A m \in DOMAIN filed.months : RidesOrdered(filed.months[m])
            /\ YearBefore(filed, r)
<1> DEFINE all == MonthsFor(year, ride)
           filed == Filed(year, ride)
<1>1. /\ filed.yearName = year.yearName
      /\ DOMAIN filed.months = DOMAIN all
      /\ \A m \in DOMAIN all :
           /\ filed.months[m].monthName = all[m].monthName
           /\ \/ filed.months[m].rides = all[m].rides
              \/ filed.months[m].rides = Append(all[m].rides, ride)
  BY FiledProperties
<1>2. /\ \A i, j \in DOMAIN all : i < j => all[i].monthName < all[j].monthName
      /\ \A m \in DOMAIN all :
           /\ RidesOrdered(all[m])
           /\ MonthBefore(all[m], ride)
           /\ year.yearName = Year(r) => all[m].monthName <= Month(r)
  BY MonthsForKeepsOrder
<1>3. all \in Seq(RideMonths)
  BY MonthsForProperties, RidesAssumption
<1> HIDE DEF all, filed
<1>4. MonthsOrdered(filed)
  BY <1>1, <1>2 DEF MonthsOrdered
<1>5. \A m \in DOMAIN all : RidesOrdered(filed.months[m]) /\ MonthBefore(filed.months[m], r)
  <2> SUFFICES ASSUME NEW m \in DOMAIN all
               PROVE  RidesOrdered(filed.months[m]) /\ MonthBefore(filed.months[m], r)
    OBVIOUS
  <2> DEFINE old == all[m].rides
  <2>1. old \in Seq(Rides)
    <3>1. all[m] \in RideMonths
      BY <1>3
    <3>2. QED
      BY <3>1 DEF RideMonths
  <2>2. /\ \A i, j \in DOMAIN old : i < j => old[i].rideDate <= old[j].rideDate
        /\ \A i \in DOMAIN old : old[i].rideDate <= ride.rideDate
    BY <1>2 DEF RidesOrdered, MonthBefore
  <2> HIDE DEF old
  <2>3. CASE filed.months[m].rides = old
    <3>1. \A i \in DOMAIN old : old[i].rideDate \in Nat
      BY <2>1, RidesAssumption DEF RideType
    <3>2. ride.rideDate \in Nat /\ r.rideDate \in Nat
      BY RidesAssumption DEF RideType
    <3>3. \A i \in DOMAIN old : old[i].rideDate <= r.rideDate
      BY <2>2, <3>1, <3>2
    <3>4. QED
      BY <2>2, <2>3, <3>3 DEF RidesOrdered, MonthBefore
  <2>4. CASE filed.months[m].rides = Append(old, ride)
    <3> DEFINE new == Append(old, ride)
    <3>1. /\ \A i, j \in DOMAIN new : i < j => new[i].rideDate <= new[j].rideDate
          /\ \A i \in DOMAIN new : new[i].rideDate <= r.rideDate
      BY <2>1, <2>2, AppendRideKeepsOrder
    <3> HIDE DEF new
    <3>2. QED
      BY <2>4, <3>1 DEF RidesOrdered, MonthBefore, new
  <2>5. QED
    BY <1>1, <2>3, <2>4 DEF old
<1>6. YearBefore(filed, r)
  BY <1>1, <1>2, <1>5 DEF YearBefore
<1>7. QED
  BY <1>1, <1>4, <1>5, <1>6 DEF filed
-----------------------------------------------------------------------------
\* The ride the loop takes is one of the rides still to come, none of which
\* is earlier, and none of which is earlier than a year that is new.
LEMMA WithYearKeepsOrder ==
  ASSUME IInv, NEW ride \in Rides, ride \in pending, NEW r \in pending,
         ride.rideDate <= r.rideDate
  PROVE  LET years == WithYear(history, ride)
         IN /\ \A i, j \in DOMAIN years : i < j => years[i].yearName < years[j].yearName
            /\ \A y \in DOMAIN years :
                 /\ MonthsOrdered(years[y])
                 /\ \A m \in DOMAIN years[y].months : RidesOrdered(years[y].months[m])
                 /\ YearBefore(years[y], ride)
                 /\ YearBefore(years[y], r)
<1> DEFINE years == WithYear(history, ride)
<1>1. /\ history \in Seq(RideYears)
      /\ ride \in RideType /\ r \in RideType
  BY RidesAssumption DEF IInv, TypeOK
<1>2. /\ years \in Seq(RideYears)
      /\ \/ years = history
         \/ /\ Len(years) = Len(history) + 1
            /\ years[Len(years)] = RideYear(Year(ride))
            /\ \A y \in DOMAIN history : /\ years[y] = history[y]
                                         /\ history[y].yearName # Year(ride)
  BY <1>1, WithYearProperties
<1>3. /\ \A i, j \in DOMAIN history : i < j => history[i].yearName < history[j].yearName
      /\ \A y \in DOMAIN history :
           /\ MonthsOrdered(history[y])
           /\ \A m \in DOMAIN history[y].months : RidesOrdered(history[y].months[m])
           /\ YearBefore(history[y], ride)
           /\ YearBefore(history[y], r)
  BY DEF IInv, CalendarOrder, RidesInOrder, Behind, MonthsOrdered, RidesOrdered
<1> HIDE DEF years
<1>4. CASE years = history
  BY <1>3, <1>4 DEF years
<1>5. CASE /\ Len(years) = Len(history) + 1
           /\ years[Len(years)] = RideYear(Year(ride))
           /\ \A y \in DOMAIN history : /\ years[y] = history[y]
                                        /\ history[y].yearName # Year(ride)
  <2> DEFINE n == Len(history)
  <2>1. /\ n \in Nat /\ DOMAIN history = 1 .. n /\ DOMAIN years = 1 .. n + 1
    BY <1>1, <1>2, <1>5
  <2>2. \A y \in DOMAIN years : y \in DOMAIN history \/ y = n + 1
    BY <2>1
  <2>3. years[n + 1] = RideYear(Year(ride))
    BY <1>5
  <2>4. Year(ride) \in Nat /\ Year(r) \in Nat /\ Year(ride) <= Year(r)
    BY <1>1, FormatterTypes, FormattersMonotone
  <2>5. \A y \in DOMAIN history : history[y].yearName < Year(ride)
    <3>1. \A y \in DOMAIN history : history[y] \in RideYears
      BY <1>1
    <3>2. \A y \in DOMAIN history : history[y].yearName \in Nat
      BY <3>1 DEF RideYears
    <3>3. QED
      BY <1>3, <1>5, <2>4, <3>2 DEF YearBefore
  <2>6. /\ years[n + 1].yearName = Year(ride)
        /\ DOMAIN years[n + 1].months = {}
    BY <2>3 DEF RideYear
  <2>7. /\ MonthsOrdered(years[n + 1])
        /\ \A m \in DOMAIN years[n + 1].months : RidesOrdered(years[n + 1].months[m])
        /\ YearBefore(years[n + 1], ride)
        /\ YearBefore(years[n + 1], r)
    BY <2>4, <2>6 DEF MonthsOrdered, YearBefore
  <2>8. ASSUME NEW i \in DOMAIN years, NEW j \in DOMAIN years, i < j
        PROVE  years[i].yearName < years[j].yearName
    <3>1. i \in DOMAIN history
      BY <2>1, <2>8
    <3>2. CASE j \in DOMAIN history
      BY <1>3, <1>5, <2>8, <3>1, <3>2
    <3>3. CASE j = n + 1
      BY <1>5, <2>5, <2>6, <3>1, <3>3
    <3>4. QED
      BY <2>2, <3>2, <3>3
  <2>9. \A y \in DOMAIN years :
          /\ MonthsOrdered(years[y])
          /\ \A m \in DOMAIN years[y].months : RidesOrdered(years[y].months[m])
          /\ YearBefore(years[y], ride)
          /\ YearBefore(years[y], r)
    BY <1>3, <1>5, <2>2, <2>7
  <2>10. QED
    BY <2>8, <2>9 DEF years
<1>6. QED
  BY <1>2, <1>4, <1>5

LEMMA InitIInv == Init => IInv
BY DEF Init, IInv, TypeOK, CalendarOrder, RidesInOrder, Behind

LEMMA StepIInv == IInv /\ [Next]_vars => IInv'
<1> SUFFICES ASSUME IInv, [Next]_vars
             PROVE  IInv'
  OBVIOUS
<1>1. CASE UNCHANGED vars
  BY <1>1 DEF vars, IInv, TypeOK, CalendarOrder, RidesInOrder, Behind
<1>2. CASE Next
  <2>1. PICK ride \in Earliest(pending) :
          /\ pending' = pending \ {ride}
          /\ LET years == WithYear(history, ride)
             IN history' = [y \in DOMAIN years |-> Filed(years[y], ride)]
    BY <1>2 DEF Next, organizeUserRide
  <2>2. /\ rides' = rides /\ ride \in pending /\ ride \in Rides
        /\ pending \subseteq Rides
        /\ \A r \in pending : ride.rideDate <= r.rideDate
    BY <1>2, <2>1 DEF Next, organizeUserRide, Earliest, IInv, TypeOK
  <2> DEFINE years == WithYear(history, ride)
  <2>3. years \in Seq(RideYears)
    BY <2>2, WithYearProperties, RidesAssumption DEF IInv, TypeOK
  <2>4. history' = [y \in DOMAIN years |-> Filed(years[y], ride)]
    BY <2>1
  <2>5. /\ \A i, j \in DOMAIN years : i < j => years[i].yearName < years[j].yearName
        /\ \A r \in pending : \A y \in DOMAIN years :
             /\ MonthsOrdered(years[y])
             /\ \A m \in DOMAIN years[y].months : RidesOrdered(years[y].months[m])
             /\ YearBefore(years[y], ride)
             /\ YearBefore(years[y], r)
    BY <2>2, WithYearKeepsOrder
  <2> HIDE DEF years
  <2>6. \A y \in DOMAIN years : years[y] \in RideYears
    BY <2>3
  <2>7. ASSUME NEW y \in DOMAIN years
        PROVE  /\ history'[y] \in RideYears
               /\ history'[y].yearName = years[y].yearName
               /\ MonthsOrdered(history'[y])
               /\ \A m \in DOMAIN history'[y].months : RidesOrdered(history'[y].months[m])
               /\ \A r \in pending : YearBefore(history'[y], r)
    <3> DEFINE filed == Filed(years[y], ride)
    <3>1. history'[y] = filed
      BY <2>4
    <3>2. filed \in RideYears /\ filed.yearName = years[y].yearName
      BY <2>2, <2>6, FiledProperties
    <3>3. ASSUME NEW r \in pending
          PROVE  /\ MonthsOrdered(filed)
                 /\ \A m \in DOMAIN filed.months : RidesOrdered(filed.months[m])
                 /\ YearBefore(filed, r)
      BY <2>2, <2>5, <2>6, FiledKeepsOrder
    <3>4. QED
      BY <2>2, <3>1, <3>2, <3>3
  <2>8. history' \in Seq(RideYears) /\ DOMAIN history' = DOMAIN years
    BY <2>3, <2>4, <2>7, IsASeq
  <2>9. TypeOK'
    BY <2>1, <2>2, <2>8 DEF IInv, TypeOK
  <2>10. CalendarOrder'
    BY <2>5, <2>7, <2>8 DEF CalendarOrder, MonthsOrdered
  <2>11. RidesInOrder'
    BY <2>7, <2>8 DEF RidesInOrder, RidesOrdered
  <2>12. Behind'
    BY <2>1, <2>7, <2>8 DEF Behind
  <2>13. QED
    BY <2>9, <2>10, <2>11, <2>12 DEF IInv
<1>3. QED
  BY <1>1, <1>2

-----------------------------------------------------------------------------
(* Sums.  MapThenSumSet is a CHOOSE of a function over the subsets of a     *)
(* set, which takes one chosen element from each: Folded says so of g.     *)

First(s) == CHOOSE x \in s : TRUE

FoldOnce(F, g, s) == IF s = {} THEN 0 ELSE F[First(s)] + g[s \ {First(s)}]

Folded(F, S, g) == g = [s \in SUBSET S |-> FoldOnce(F, g, s)]

\* The function there has to be for a CHOOSE of it to say anything.
LEMMA FoldedExists ==
  ASSUME NEW S, IsFiniteSet(S), NEW F \in [S -> Nat]
  PROVE  \E g : Folded(F, S, g)
<1> DEFINE Upto(k) == \E g \in [SUBSET S -> Nat] :
             \A s \in SUBSET S : Cardinality(s) <= k => g[s] = FoldOnce(F, g, s)
           Bad == { k \in Nat : ~Upto(k) }
<1>1. ASSUME NEW s \in SUBSET S
      PROVE  /\ IsFiniteSet(s) /\ Cardinality(s) \in Nat /\ Cardinality(s) <= Cardinality(S)
             /\ s # {} => /\ First(s) \in s /\ s \ {First(s)} \in SUBSET S
                          /\ Cardinality(s \ {First(s)}) = Cardinality(s) - 1
  <2>1. IsFiniteSet(s) /\ Cardinality(s) \in Nat /\ Cardinality(s) <= Cardinality(S)
    BY FS_Subset, FS_CardinalityType
  <2>2. s # {} => First(s) \in s
    BY DEF First
  <2>3. QED
    BY <2>1, <2>2, FS_RemoveElement
<1>2. ASSUME NEW g \in [SUBSET S -> Nat], NEW s \in SUBSET S
      PROVE  FoldOnce(F, g, s) \in Nat
  BY <1>1 DEF FoldOnce
<1>3. Upto(0)
  <2> DEFINE g == [s \in SUBSET S |-> 0]
  <2>1. g \in [SUBSET S -> Nat]
    OBVIOUS
  <2>2. \A s \in SUBSET S : Cardinality(s) <= 0 => s = {}
    <3> SUFFICES ASSUME NEW s \in SUBSET S, Cardinality(s) <= 0 PROVE s = {}
      OBVIOUS
    <3>1. IsFiniteSet(s) /\ Cardinality(s) \in Nat
      BY <1>1
    <3>2. Cardinality(s) = 0
      BY <3>1
    <3>3. QED
      BY <3>1, <3>2, FS_EmptySet
  <2>3. \A s \in SUBSET S : Cardinality(s) <= 0 => g[s] = FoldOnce(F, g, s)
    BY <2>2 DEF FoldOnce
  <2>4. QED
    BY <2>1, <2>3
<1>4. ASSUME NEW k \in Nat, Upto(k) PROVE Upto(k + 1)
  <2>1. PICK g \in [SUBSET S -> Nat] :
          \A s \in SUBSET S : Cardinality(s) <= k => g[s] = FoldOnce(F, g, s)
    BY <1>4
  <2> DEFINE h == [s \in SUBSET S |-> FoldOnce(F, g, s)]
  <2>2. h \in [SUBSET S -> Nat]
    BY <1>2
  <2>3. ASSUME NEW s \in SUBSET S, Cardinality(s) <= k + 1
        PROVE  h[s] = FoldOnce(F, h, s)
    <3>1. CASE s = {}
      BY <3>1 DEF FoldOnce
    <3>2. CASE s # {}
      <4> DEFINE t == s \ {First(s)}
      <4>1. t \in SUBSET S /\ Cardinality(t) <= k
        BY <1>1, <2>3, <3>2
      <4>2. h[t] = g[t]
        BY <2>1, <4>1
      <4>3. QED
        BY <3>2, <4>2 DEF FoldOnce
    <3>3. QED
      BY <3>1, <3>2
  <2>4. QED
    BY <2>2, <2>3
<1> HIDE DEF Upto
<1>5. \A k \in Nat : Upto(k)
  <2> SUFFICES ASSUME Bad # {} PROVE FALSE
    OBVIOUS
  <2>1. PICK k \in Bad : \A l \in Bad : k <= l
    BY LeastNatural
  <2>2. k # 0 /\ k \in Nat /\ ~Upto(k)
    BY <1>3
  <2>3. k - 1 \in Nat /\ k - 1 \notin Bad
    BY <2>1, <2>2
  <2>4. Upto(k - 1)
    BY <2>3
  <2>5. Upto((k - 1) + 1)
    BY <1>4, <2>3, <2>4
  <2>6. QED
    BY <2>2, <2>5
<1>6. Cardinality(S) \in Nat
  BY FS_CardinalityType
<1>7. Upto(Cardinality(S))
  BY <1>5, <1>6
<1>8. PICK g \in [SUBSET S -> Nat] : \A s \in SUBSET S : g[s] = FoldOnce(F, g, s)
  BY <1>1, <1>7 DEF Upto
<1>9. Folded(F, S, g)
  BY <1>8 DEF Folded
<1>10. QED
  BY <1>9

\* Whichever element is taken first, the rest is the same.
Sums(F, S, g) ==
  /\ g[{}] = 0
  /\ \A s \in SUBSET S : g[s] \in Nat /\ \A y \in s : g[s] = F[y] + g[s \ {y}]

LEMMA FoldedSums ==
  ASSUME NEW S, IsFiniteSet(S), NEW F \in [S -> Nat], NEW g, Folded(F, S, g)
  PROVE  Sums(F, S, g)
<1> DEFINE Good(s) == g[s] \in Nat /\ \A y \in s : g[s] = F[y] + g[s \ {y}]
           Bad == { s \in SUBSET S : ~Good(s) }
           Sizes == { Cardinality(s) : s \in Bad }
<1>1. \A s \in SUBSET S : IsFiniteSet(s) /\ Cardinality(s) \in Nat
  BY FS_Subset, FS_CardinalityType
<1>2. \A s \in SUBSET S : \A x \in s : Cardinality(s \ {x}) = Cardinality(s) - 1
  BY <1>1, FS_RemoveElement
<1>3. g[{}] = 0
  BY DEF Folded, FoldOnce
<1>4. \A s \in SUBSET S : s # {} => g[s] = F[First(s)] + g[s \ {First(s)}]
  BY DEF Folded, FoldOnce
<1>5. \A s \in SUBSET S : s # {} => First(s) \in s
  BY DEF First
<1>6. \A s \in SUBSET S : Good(s)
  <2> SUFFICES ASSUME Bad # {} PROVE FALSE
    OBVIOUS
  <2>1. Sizes \subseteq Nat /\ Sizes # {}
    BY <1>1
  <2>2. PICK n \in Sizes : \A m \in Sizes : n <= m
    BY <2>1, LeastNatural
  <2>3. PICK s \in Bad : n = Cardinality(s)
    OBVIOUS
  <2>4. s # {}
    <3>1. Good({})
      BY <1>3
    <3>2. ~Good(s)
      BY <2>3
    <3> HIDE DEF Good
    <3>3. QED
      BY <3>1, <3>2
  <2>5. PICK x \in s : x = First(s)
    BY <1>5, <2>3, <2>4
  <2>6. \A y \in s : Good(s \ {y})
    <3> SUFFICES ASSUME NEW y \in s, ~Good(s \ {y}) PROVE FALSE
      OBVIOUS
    <3>1. s \ {y} \in Bad
      OBVIOUS
    <3> HIDE DEF Bad
    <3>2. Cardinality(s \ {y}) \in Sizes
      BY <3>1
    <3>3. s \in SUBSET S
      BY DEF Bad
    <3>4. Cardinality(s) \in Nat /\ Cardinality(s \ {y}) = Cardinality(s) - 1
      BY <1>1, <1>2, <3>3
    <3> HIDE DEF Sizes
    <3>5. QED
      BY <2>2, <2>3, <3>2, <3>4
  <2>7. g[s] = F[x] + g[s \ {x}]
    BY <1>4, <2>3, <2>4, <2>5
  <2>8. ASSUME NEW y \in s PROVE g[s] = F[y] + g[s \ {y}]
    <3>1. CASE y = x
      BY <2>7, <3>1
    <3>2. CASE y # x
      <4> DEFINE rest == s \ {x, y}
      <4>1. (s \ {x}) \ {y} = rest /\ (s \ {y}) \ {x} = rest
        OBVIOUS
      <4>2. g[s \ {x}] \in Nat /\ g[s \ {x}] = F[y] + g[rest]
        <5>1. Good(s \ {x})
          BY <2>6
        <5>2. y \in s \ {x}
          BY <3>2
        <5>3. g[s \ {x}] = F[y] + g[(s \ {x}) \ {y}]
          BY <5>1, <5>2
        <5>4. QED
          BY <4>1, <5>1, <5>3
      <4>3. g[s \ {y}] \in Nat /\ g[s \ {y}] = F[x] + g[rest]
        <5>1. Good(s \ {y})
          BY <2>6
        <5>2. x \in s \ {y}
          BY <3>2
        <5>3. g[s \ {y}] = F[x] + g[(s \ {y}) \ {x}]
          BY <5>1, <5>2
        <5>4. QED
          BY <4>1, <5>1, <5>3
      <4>4. rest \in SUBSET S /\ (s \ {x}) \in SUBSET S
        BY <2>3
      <4>5. F[x] \in Nat /\ F[y] \in Nat
        BY <2>3
      <4>6. g[rest] \in Int
        <5>1. Cardinality(s \ {x}) = Cardinality(s) - 1 /\ Cardinality(s) \in Nat
          BY <1>1, <1>2, <2>3
        <5>2. Cardinality(rest) < n /\ Cardinality(rest) \in Nat
          <6>1. y \in s \ {x}
            BY <3>2
          <6>2. Cardinality((s \ {x}) \ {y}) = Cardinality(s \ {x}) - 1
            BY <1>2, <4>4, <6>1
          <6>3. Cardinality(rest) = Cardinality(s \ {x}) - 1
            BY <4>1, <6>2
          <6>4. Cardinality(rest) \in Nat
            BY <1>1, <4>4
          <6> HIDE DEF rest
          <6>5. QED
            BY <2>3, <5>1, <6>3, <6>4
        <5>3. rest \notin Bad
          <6> HIDE DEF Bad, rest
          <6>1. rest \in Bad => Cardinality(rest) \in Sizes
            OBVIOUS
          <6> HIDE DEF Sizes
          <6>2. n \in Nat
            BY <2>1
          <6>3. QED
            BY <2>2, <5>2, <6>1, <6>2
        <5>4. QED
          BY <4>4, <5>3
      <4> HIDE DEF rest
      <4>7. QED
        BY <2>7, <4>2, <4>3, <4>5, <4>6
    <3>3. QED
      BY <3>1, <3>2
  <2>9. g[s] \in Nat
    <3>1. F[x] \in Nat
      BY <2>3
    <3>2. Good(s \ {x})
      BY <2>6
    <3>3. g[s \ {x}] \in Nat
      BY <3>2
    <3>4. QED
      BY <2>7, <3>1, <3>3
  <2>10. QED
    BY <2>3, <2>8, <2>9
<1>7. QED
  BY <1>3, <1>6 DEF Sums

\* Sums of the same numbers are the same.
LEMMA SumsAgree ==
  ASSUME NEW S, IsFiniteSet(S), NEW R, S \subseteq R, NEW F, NEW G, \A i \in S : F[i] = G[i],
         NEW g, Sums(F, S, g), NEW h, Sums(G, R, h)
  PROVE  g[S] = h[S]
<1> DEFINE Bad == { s \in SUBSET S : g[s] # h[s] }
           Sizes == { Cardinality(s) : s \in Bad }
<1>1. \A s \in SUBSET S : IsFiniteSet(s) /\ Cardinality(s) \in Nat
  BY FS_Subset, FS_CardinalityType
<1>2. SUFFICES ASSUME Bad # {} PROVE FALSE
  OBVIOUS
<1>3. Sizes \subseteq Nat /\ Sizes # {}
  BY <1>1, <1>2
<1>4. PICK n \in Sizes : \A m \in Sizes : n <= m
  BY <1>3, LeastNatural
<1>5. PICK s \in Bad : n = Cardinality(s)
  OBVIOUS
<1>6. s \in SUBSET S /\ g[s] # h[s] /\ s # {}
  BY <1>5 DEF Sums
<1>7. PICK y \in s : TRUE
  BY <1>6
<1>8. g[s] = F[y] + g[s \ {y}] /\ h[s] = G[y] + h[s \ {y}] /\ F[y] = G[y]
  BY <1>6 DEF Sums
<1>9. s \ {y} \in Bad
  BY <1>6, <1>8
<1>10. Cardinality(s \ {y}) = Cardinality(s) - 1
  BY <1>1, <1>6, FS_RemoveElement
<1>11. Cardinality(s \ {y}) \in Sizes
  BY <1>9
<1> HIDE DEF Bad, Sizes
<1>12. QED
  BY <1>3, <1>4, <1>5, <1>10, <1>11

\* What one element more adds to a sum.
LEMMA SumsAppend ==
  ASSUME NEW n \in Nat, NEW F, NEW G, \A i \in 1 .. n : G[i] = F[i],
         G[n + 1] \in Nat, NEW g, Sums(F, 1 .. n, g), NEW h, Sums(G, 1 .. n + 1, h)
  PROVE  h[1 .. n + 1] = g[1 .. n] + G[n + 1]
<1>1. IsFiniteSet(1 .. n) /\ 1 .. n \subseteq 1 .. n + 1
  BY FS_Interval
<1>2. g[1 .. n] = h[1 .. n]
  BY <1>1, SumsAgree
<1>3. (1 .. n + 1) \ {n + 1} = 1 .. n /\ n + 1 \in 1 .. n + 1
  OBVIOUS
<1>4. h[1 .. n + 1] \in Nat /\ h[1 .. n] \in Nat
  BY <1>1 DEF Sums
<1>5. h[1 .. n + 1] = G[n + 1] + h[1 .. n]
  <2> DEFINE S == 1 .. n + 1
  <2>1. S \in SUBSET S /\ n + 1 \in S
    BY <1>3
  <2> HIDE DEF S
  <2>2. h[S] = G[n + 1] + h[S \ {n + 1}]
    BY <2>1 DEF Sums, S
  <2>3. QED
    BY <1>3, <2>2 DEF S
<1>6. QED
  BY <1>2, <1>4, <1>5

\* The totals of the rides of a month.
TimeOf(list) == MapThenSumSet(LAMBDA i : list[i].totalTime, DOMAIN list)

MileageOf(list) == MapThenSumSet(LAMBDA i : list[i].mileage, DOMAIN list)

RolloversOf(list) == Cardinality({ i \in DOMAIN list : list[i].didRollover })

LEMMA TimeSums ==
  ASSUME NEW list \in Seq(RideType)
  PROVE  \E g : /\ Sums([i \in DOMAIN list |-> list[i].totalTime], DOMAIN list, g)
                /\ TimeOf(list) = g[DOMAIN list]
<1> DEFINE S == DOMAIN list
           F == [i \in S |-> list[i].totalTime]
           E(g) == g = [s \in SUBSET S |-> IF s = {} THEN 0
                                           ELSE list[First(s)].totalTime + g[s \ {First(s)}]]
<1>1. IsFiniteSet(S) /\ F \in [S -> Nat]
  <2>1. Len(list) \in Nat /\ S = 1 .. Len(list)
    OBVIOUS
  <2>2. IsFiniteSet(S)
    BY <2>1, FS_Interval
  <2>3. \A i \in S : list[i] \in RideType
    OBVIOUS
  <2>4. QED
    BY <2>2, <2>3 DEF RideType
<1>2. TimeOf(list) = (CHOOSE g : E(g))[S]
  BY Zenon DEF TimeOf, MapThenSumSet, MapThenFoldSet, First
<1>3. \A s \in SUBSET S : s # {} => First(s) \in S
  BY DEF First
<1>4. \A g : E(g) <=> Folded(F, S, g)
  BY <1>3 DEF Folded, FoldOnce
<1> HIDE DEF E, F, S
<1>5. \E g : Folded(F, S, g)
  BY <1>1, FoldedExists
<1>6. Folded(F, S, CHOOSE g : E(g))
  BY <1>4, <1>5
<1>7. Sums(F, S, CHOOSE g : E(g))
  BY <1>1, <1>6, FoldedSums
<1>8. QED
  BY <1>2, <1>7 DEF F, S

LEMMA MileageSums ==
  ASSUME NEW list \in Seq(RideType)
  PROVE  \E g : /\ Sums([i \in DOMAIN list |-> list[i].mileage], DOMAIN list, g)
                /\ MileageOf(list) = g[DOMAIN list]
<1> DEFINE S == DOMAIN list
           F == [i \in S |-> list[i].mileage]
           E(g) == g = [s \in SUBSET S |-> IF s = {} THEN 0
                                           ELSE list[First(s)].mileage + g[s \ {First(s)}]]
<1>1. IsFiniteSet(S) /\ F \in [S -> Nat]
  <2>1. Len(list) \in Nat /\ S = 1 .. Len(list)
    OBVIOUS
  <2>2. IsFiniteSet(S)
    BY <2>1, FS_Interval
  <2>3. \A i \in S : list[i] \in RideType
    OBVIOUS
  <2>4. QED
    BY <2>2, <2>3 DEF RideType
<1>2. MileageOf(list) = (CHOOSE g : E(g))[S]
  BY Zenon DEF MileageOf, MapThenSumSet, MapThenFoldSet, First
<1>3. \A s \in SUBSET S : s # {} => First(s) \in S
  BY DEF First
<1>4. \A g : E(g) <=> Folded(F, S, g)
  BY <1>3 DEF Folded, FoldOnce
<1> HIDE DEF E, F, S
<1>5. \E g : Folded(F, S, g)
  BY <1>1, FoldedExists
<1>6. Folded(F, S, CHOOSE g : E(g))
  BY <1>4, <1>5
<1>7. Sums(F, S, CHOOSE g : E(g))
  BY <1>1, <1>6, FoldedSums
<1>8. QED
  BY <1>2, <1>7 DEF F, S

\* A list of no rides has no totals, and one ride more adds its own.
LEMMA TotalsOfNone == TimeOf(<<>>) = 0 /\ MileageOf(<<>>) = 0 /\ RolloversOf(<<>>) = 0
<1>1. <<>> \in Seq(RideType) /\ DOMAIN <<>> = {}
  OBVIOUS
<1>2. TimeOf(<<>>) = 0
  BY <1>1, TimeSums DEF Sums
<1>3. MileageOf(<<>>) = 0
  BY <1>1, MileageSums DEF Sums
<1>4. RolloversOf(<<>>) = 0
  BY <1>1, FS_EmptySet DEF RolloversOf
<1>5. QED
  BY <1>2, <1>3, <1>4

LEMMA TotalsOfAppend ==
  ASSUME NEW list \in Seq(RideType), NEW ride \in RideType
  PROVE  LET more == Append(list, ride)
         IN /\ TimeOf(more) = TimeOf(list) + ride.totalTime
            /\ MileageOf(more) = MileageOf(list) + ride.mileage
            /\ RolloversOf(more) = RolloversOf(list) + (IF ride.didRollover THEN 1 ELSE 0)
<1> DEFINE more == Append(list, ride)
           n == Len(list)
<1>1. /\ n \in Nat /\ DOMAIN list = 1 .. n
      /\ more \in Seq(RideType) /\ DOMAIN more = 1 .. n + 1
      /\ more[n + 1] = ride
      /\ \A i \in 1 .. n : more[i] = list[i]
  BY AppendProperties
<1>2. n + 1 \in 1 .. n + 1 /\ \A i \in 1 .. n : i \in 1 .. n + 1
  BY <1>1
<1> HIDE DEF more, n
<1>3. TimeOf(more) = TimeOf(list) + ride.totalTime
  <2> DEFINE F == [i \in 1 .. n |-> list[i].totalTime]
             G == [i \in 1 .. n + 1 |-> more[i].totalTime]
  <2>1. PICK g : Sums(F, 1 .. n, g) /\ TimeOf(list) = g[1 .. n]
    BY <1>1, TimeSums
  <2>2. PICK h : Sums(G, 1 .. n + 1, h) /\ TimeOf(more) = h[1 .. n + 1]
    BY <1>1, TimeSums
  <2>3. G[n + 1] = ride.totalTime /\ G[n + 1] \in Nat /\ \A i \in 1 .. n : G[i] = F[i]
    BY <1>1, <1>2 DEF RideType
  <2> HIDE DEF F, G
  <2>4. h[1 .. n + 1] = g[1 .. n] + G[n + 1]
    <3>1. n \in Nat
      BY <1>1
    <3>2. Sums(F, 1 .. n, g) /\ Sums(G, 1 .. n + 1, h)
      BY <2>1, <2>2
    <3>3. G[n + 1] \in Nat
      BY <2>3
    <3>4. \A i \in 1 .. n : G[i] = F[i]
      BY <2>3
    <3>5. QED
      BY ONLY <3>1, <3>2, <3>3, <3>4, SumsAppend
  <2>5. QED
    BY <2>1, <2>2, <2>3, <2>4
<1>4. MileageOf(more) = MileageOf(list) + ride.mileage
  <2> DEFINE F == [i \in 1 .. n |-> list[i].mileage]
             G == [i \in 1 .. n + 1 |-> more[i].mileage]
  <2>1. PICK g : Sums(F, 1 .. n, g) /\ MileageOf(list) = g[1 .. n]
    BY <1>1, MileageSums
  <2>2. PICK h : Sums(G, 1 .. n + 1, h) /\ MileageOf(more) = h[1 .. n + 1]
    BY <1>1, MileageSums
  <2>3. G[n + 1] = ride.mileage /\ G[n + 1] \in Nat /\ \A i \in 1 .. n : G[i] = F[i]
    BY <1>1, <1>2 DEF RideType
  <2> HIDE DEF F, G
  <2>4. h[1 .. n + 1] = g[1 .. n] + G[n + 1]
    <3>1. n \in Nat
      BY <1>1
    <3>2. Sums(F, 1 .. n, g) /\ Sums(G, 1 .. n + 1, h)
      BY <2>1, <2>2
    <3>3. G[n + 1] \in Nat
      BY <2>3
    <3>4. \A i \in 1 .. n : G[i] = F[i]
      BY <2>3
    <3>5. QED
      BY ONLY <3>1, <3>2, <3>3, <3>4, SumsAppend
  <2>5. QED
    BY <2>1, <2>2, <2>3, <2>4
<1>5. RolloversOf(more) = RolloversOf(list) + (IF ride.didRollover THEN 1 ELSE 0)
  <2> DEFINE old == { i \in 1 .. n : list[i].didRollover }
             new == { i \in 1 .. n + 1 : more[i].didRollover }
  <2>1. RolloversOf(list) = Cardinality(old) /\ RolloversOf(more) = Cardinality(new)
    BY <1>1 DEF RolloversOf
  <2>2. IsFiniteSet(old) /\ n + 1 \notin old /\ Cardinality(old) \in Nat
    <3>1. IsFiniteSet(1 .. n) /\ old \in SUBSET (1 .. n) /\ n + 1 \notin 1 .. n
      BY <1>1, FS_Interval
    <3>2. IsFiniteSet(old)
      BY <3>1, FS_Subset
    <3>3. QED
      BY <3>1, <3>2, FS_CardinalityType
  <2>3. \A i : i \in 1 .. n + 1 <=> i \in 1 .. n \/ i = n + 1
    BY <1>1
  <2>4. CASE ride.didRollover
    <3>1. \A i : i \in new <=> i \in old \cup {n + 1}
      BY <1>1, <2>3, <2>4
    <3>2. new = old \cup {n + 1}
      BY <3>1
    <3> HIDE DEF old, new
    <3>3. Cardinality(new) = Cardinality(old) + 1
      BY <2>2, <3>2, FS_AddElement
    <3>4. QED
      BY <2>1, <2>4, <3>3
  <2>5. CASE ~ride.didRollover
    <3>1. \A i : i \in new <=> i \in old
      BY <1>1, <2>3, <2>5
    <3>2. new = old
      BY <3>1
    <3> HIDE DEF old, new
    <3>3. QED
      BY <2>1, <2>2, <2>5, <3>2
  <2>6. QED
    BY <2>4, <2>5
<1>6. QED
  BY <1>3, <1>4, <1>5 DEF more

-----------------------------------------------------------------------------
(* What is filed.  The months are complete because the rides come in the   *)
(* order of their dates: a month that is missing when a ride needs it is   *)
(* missing because no ride before was of that month and year, and a ride   *)
(* of a later year, which would belong in it too, has not come yet.        *)

\* The month lists the rides it should of those done, each once.
Lists(month, yearName, done) ==
  /\ \A i \in DOMAIN month.rides :
       /\ month.rides[i] \in done
       /\ Month(month.rides[i]) = month.monthName
       /\ yearName <= Year(month.rides[i])
  /\ \A ride \in done : Month(ride) = month.monthName /\ yearName <= Year(ride) =>
       \E i \in DOMAIN month.rides : month.rides[i] = ride
  /\ \A i, j \in DOMAIN month.rides : month.rides[i] = month.rides[j] => i = j

SumsUp(month) ==
  /\ month.time = TimeOf(month.rides)
  /\ month.mileage = MileageOf(month.rides)
  /\ month.rollovers = RolloversOf(month.rides)

\* A ride of the year has opened the month.
Opened(month, yearName) == month.rides # <<>> /\ Year(month.rides[1]) = yearName

HasMonthOf(year, ride) ==
  year.yearName = Year(ride) => \E m \in DOMAIN year.months : year.months[m].monthName = Month(ride)

YearComplete(year, done) ==
  /\ \A ride \in done : HasMonthOf(year, ride)
  /\ \A m \in DOMAIN year.months :
       /\ Lists(year.months[m], year.yearName, done)
       /\ SumsUp(year.months[m])
       /\ Opened(year.months[m], year.yearName)

Done == rides \ pending

Complete ==
  /\ \A d \in Done : \A r \in pending : d.rideDate <= r.rideDate
  /\ \A d \in Done : \E y \in DOMAIN history : history[y].yearName = Year(d)
  /\ \A y \in DOMAIN history : YearComplete(history[y], Done)

\* A ride more for a month of its name, which is complete, or empty and new.
LEMMA AddedIsListed ==
  ASSUME NEW month \in RideMonths, NEW yearName, NEW done, NEW ride \in Rides,
         ride \notin done, Month(ride) = month.monthName, yearName <= Year(ride),
         Lists(month, yearName, done), SumsUp(month),
         month.rides = <<>> => Year(ride) = yearName,
         month.rides # <<>> => Opened(month, yearName)
  PROVE  LET added == addRide(month, ride)
         IN /\ Lists(added, yearName, done \cup {ride})
            /\ SumsUp(added)
            /\ Opened(added, yearName)
<1> DEFINE added == addRide(month, ride)
           old == month.rides
           new == Append(old, ride)
           n == Len(old)
<1>1. /\ added.monthName = month.monthName
      /\ added.rides = new
  BY addRideProperties
<1>2. old \in Seq(Rides) /\ old \in Seq(RideType) /\ ride \in RideType
  <2>1. old \in Seq(Rides)
    BY DEF RideMonths
  <2>2. \A i \in DOMAIN old : old[i] \in RideType
    BY <2>1, RidesAssumption
  <2>3. old \in Seq(RideType)
    BY <2>1, <2>2, IsASeq
  <2>4. QED
    BY <2>1, <2>3, RidesAssumption
<1>3. added.time = month.time + ride.totalTime
  BY DEF addRide, RideMonths
<1>4. added.mileage = month.mileage + ride.mileage
  BY DEF addRide, RideMonths
<1>5. added.rollovers = month.rollovers + (IF ride.didRollover THEN 1 ELSE 0)
  BY DEF addRide, RideMonths
<1> HIDE DEF added, old
<1>6. /\ n \in Nat /\ DOMAIN old = 1 .. n /\ DOMAIN new = 1 .. n + 1
      /\ new[n + 1] = ride
      /\ \A i \in 1 .. n : new[i] = old[i]
      /\ new # <<>>
  BY <1>2, AppendProperties
<1>7. /\ TimeOf(new) = TimeOf(old) + ride.totalTime
      /\ MileageOf(new) = MileageOf(old) + ride.mileage
      /\ RolloversOf(new) = RolloversOf(old) + (IF ride.didRollover THEN 1 ELSE 0)
  BY <1>2, TotalsOfAppend
<1>8. SumsUp(added)
  BY <1>1, <1>3, <1>4, <1>5, <1>7 DEF SumsUp, old
<1> HIDE DEF new, n
<1>9. \A i : i \in 1 .. n + 1 <=> i \in 1 .. n \/ i = n + 1
  BY <1>6
<1>10. n + 1 \notin 1 .. n
  BY <1>6
<1>11. Lists(added, yearName, done \cup {ride})
  <2>1. /\ \A i \in 1 .. n : /\ old[i] \in done
                             /\ Month(old[i]) = month.monthName
                             /\ yearName <= Year(old[i])
        /\ \A r \in done : Month(r) = month.monthName /\ yearName <= Year(r) =>
             \E i \in 1 .. n : old[i] = r
        /\ \A i, j \in 1 .. n : old[i] = old[j] => i = j
    BY <1>6 DEF Lists, old
  <2>2. \A i \in 1 .. n + 1 : /\ new[i] \in done \cup {ride}
                              /\ Month(new[i]) = month.monthName
                              /\ yearName <= Year(new[i])
    BY <1>6, <1>9, <2>1
  <2>3. ASSUME NEW r \in done \cup {ride}, Month(r) = month.monthName, yearName <= Year(r)
        PROVE  \E i \in 1 .. n + 1 : new[i] = r
    BY <1>6, <1>9, <2>1, <2>3
  <2>4. \A i, j \in 1 .. n + 1 : new[i] = new[j] => i = j
    BY <1>6, <1>9, <2>1
  <2>5. QED
    BY <1>1, <1>6, <2>2, <2>3, <2>4 DEF Lists
<1>12. Opened(added, yearName)
  <2>1. CASE old = <<>>
    <3>1. n = 0
      BY <2>1 DEF n
    <3>2. new[1] = ride
      BY <1>6, <3>1
    <3>3. QED
      BY <1>1, <1>6, <2>1, <3>2 DEF Opened, old
  <2>2. CASE old # <<>>
    <3>1. 1 \in 1 .. n
      BY <1>2, <2>2 DEF n
    <3>2. new[1] = old[1]
      BY <1>6, <3>1
    <3>3. QED
      BY <1>1, <1>6, <2>2, <3>2 DEF Opened, old
  <2>3. QED
    BY <2>1, <2>2
<1>13. QED
  BY <1>8, <1>11, <1>12 DEF added

\* The year has its months, and if it is the ride's, that month among them,
\* which lists nothing if it is new.
LEMMA MonthsForComplete ==
  ASSUME NEW year \in RideYears, NEW ride \in Rides, NEW done, done \subseteq Rides,
         \A d \in done : d.rideDate <= ride.rideDate,
         YearComplete(year, done)
  PROVE  LET all == MonthsFor(year, ride)
         IN /\ all \in Seq(RideMonths)
            /\ year.yearName = Year(ride) => \E m \in DOMAIN all : all[m].monthName = Month(ride)
            /\ \A d \in done : year.yearName = Year(d) =>
                 \E m \in DOMAIN all : all[m].monthName = Month(d)
            /\ \A m \in DOMAIN all :
                 /\ Lists(all[m], year.yearName, done)
                 /\ SumsUp(all[m])
                 /\ all[m].rides = <<>> =>
                      Year(ride) = year.yearName /\ Month(ride) = all[m].monthName
                 /\ all[m].rides # <<>> => Opened(all[m], year.yearName)
<1> DEFINE all == MonthsFor(year, ride)
           months == year.months
           n == Len(months)
           absent == /\ \A m \in DOMAIN months : months[m].monthName # Month(ride)
                     /\ year.yearName = Year(ride)
<1>1. /\ ride \in RideType /\ months \in Seq(RideMonths) /\ all \in Seq(RideMonths)
      /\ \A d \in done : d \in RideType
  BY RidesAssumption, MonthsForProperties DEF RideYears
<1>2. /\ \A d \in done : year.yearName = Year(d) =>
           \E m \in DOMAIN months : months[m].monthName = Month(d)
      /\ \A m \in DOMAIN months :
           /\ Lists(months[m], year.yearName, done)
           /\ SumsUp(months[m])
           /\ Opened(months[m], year.yearName)
  BY DEF YearComplete, HasMonthOf
<1>3. \A m \in DOMAIN months : months[m].rides # <<>>
  BY <1>2 DEF Opened
<1>4. CASE ~absent
  <2>1. all = months
    BY <1>4 DEF MonthsFor
  <2>2. year.yearName = Year(ride) => \E m \in DOMAIN months : months[m].monthName = Month(ride)
    BY <1>4
  <2> HIDE DEF all, months
  <2>3. QED
    BY <1>1, <1>2, <1>3, <2>1, <2>2 DEF all
<1>5. CASE absent
  <2> DEFINE new == RideMonth(Month(ride))
  <2>1. all = Append(months, new)
    BY <1>5 DEF MonthsFor
  <2>2. new \in RideMonths
    BY <1>1, FormatterTypes DEF RideMonth, RideMonths
  <2>3. new.monthName = Month(ride) /\ new.rides = <<>> /\ SumsUp(new)
    BY TotalsOfNone DEF RideMonth, SumsUp
  <2>4. /\ \A m \in DOMAIN months : months[m].monthName # Month(ride)
        /\ year.yearName = Year(ride)
    BY <1>5
  <2> HIDE DEF all, months, new, absent
  <2>5. /\ n \in Nat /\ DOMAIN months = 1 .. n /\ DOMAIN all = 1 .. n + 1
        /\ all[n + 1] = new
        /\ \A m \in 1 .. n : all[m] = months[m]
    BY <1>1, <2>1, <2>2, AppendProperties
  <2> HIDE DEF n
  <2>6. \A m : m \in 1 .. n + 1 <=> m \in 1 .. n \/ m = n + 1
    BY <2>5
  <2>7. ASSUME NEW d \in done, Month(d) = Month(ride), year.yearName <= Year(d)
        PROVE  FALSE
    <3>1. Year(d) <= Year(ride) /\ Year(d) \in Nat /\ Year(ride) \in Nat
      BY <1>1, FormattersMonotone, FormatterTypes
    <3>2. Year(d) = year.yearName
      BY <2>4, <2>7, <3>1
    <3>3. QED
      BY <1>2, <2>4, <2>7, <3>2
  <2>8. Lists(new, year.yearName, done)
    BY <2>3, <2>7 DEF Lists
  <2>9. \A m \in 1 .. n + 1 :
          /\ Lists(all[m], year.yearName, done)
          /\ SumsUp(all[m])
          /\ all[m].rides = <<>> => Year(ride) = year.yearName /\ Month(ride) = all[m].monthName
          /\ all[m].rides # <<>> => Opened(all[m], year.yearName)
    BY <1>2, <1>3, <2>3, <2>4, <2>5, <2>6, <2>8
  <2>10. \E m \in 1 .. n + 1 : all[m].monthName = Month(ride)
    BY <2>3, <2>5, <2>6
  <2>11. \A d \in done : year.yearName = Year(d) =>
           \E m \in 1 .. n + 1 : all[m].monthName = Month(d)
    BY <1>2, <2>5, <2>6
  <2>12. QED
    BY <1>1, <2>5, <2>9, <2>10, <2>11 DEF all
<1>6. QED
  BY <1>4, <1>5

\* The inner loop leaves a year complete, the ride now being one of those done.
LEMMA FiledComplete ==
  ASSUME NEW year \in RideYears, NEW ride \in Rides, NEW done, done \subseteq Rides,
         ride \notin done, \A d \in done : d.rideDate <= ride.rideDate,
         year.yearName <= Year(ride), YearComplete(year, done)
  PROVE  YearComplete(Filed(year, ride), done \cup {ride})
<1> DEFINE all == MonthsFor(year, ride)
           filed == Filed(year, ride)
           after == [m \in DOMAIN all |->
                       IF all[m].monthName = Month(ride) THEN addRide(all[m], ride)
                                                         ELSE all[m]]
<1>1. /\ all \in Seq(RideMonths)
      /\ year.yearName = Year(ride) => \E m \in DOMAIN all : all[m].monthName = Month(ride)
      /\ \A d \in done : year.yearName = Year(d) =>
           \E m \in DOMAIN all : all[m].monthName = Month(d)
      /\ \A m \in DOMAIN all :
           /\ Lists(all[m], year.yearName, done)
           /\ SumsUp(all[m])
           /\ all[m].rides = <<>> =>
                Year(ride) = year.yearName /\ Month(ride) = all[m].monthName
           /\ all[m].rides # <<>> => Opened(all[m], year.yearName)
  BY MonthsForComplete
<1>2. filed.months = after /\ filed.yearName = year.yearName
  BY DEF Filed, RideYears
<1> HIDE DEF all, filed
<1>3. \A m \in DOMAIN all : all[m] \in RideMonths
  BY <1>1
<1>4. DOMAIN after = DOMAIN all
  OBVIOUS
<1>5. ASSUME NEW m \in DOMAIN all
      PROVE  /\ Lists(after[m], year.yearName, done \cup {ride})
             /\ SumsUp(after[m])
             /\ Opened(after[m], year.yearName)
             /\ after[m].monthName = all[m].monthName
  <2>1. CASE all[m].monthName = Month(ride)
    <3>1. after[m] = addRide(all[m], ride)
      BY <2>1
    <3> HIDE DEF after
    <3>2. addRide(all[m], ride).monthName = all[m].monthName
      BY <1>3, addRideProperties
    <3>3. /\ Lists(addRide(all[m], ride), year.yearName, done \cup {ride})
          /\ SumsUp(addRide(all[m], ride))
          /\ Opened(addRide(all[m], ride), year.yearName)
      BY <1>1, <1>3, <2>1, AddedIsListed
    <3>4. QED
      BY <3>1, <3>2, <3>3
  <2>2. CASE all[m].monthName # Month(ride)
    <3>1. after[m] = all[m]
      BY <2>2
    <3> HIDE DEF after
    <3>2. Opened(all[m], year.yearName)
      BY <1>1, <2>2
    <3>3. Lists(all[m], year.yearName, done \cup {ride})
      BY <1>1, <2>2 DEF Lists
    <3>4. QED
      BY <1>1, <3>1, <3>2, <3>3
  <2>3. QED
    BY <2>1, <2>2
<1> HIDE DEF after
<1>6. \A d \in done \cup {ride} : year.yearName = Year(d) =>
        \E m \in DOMAIN all : all[m].monthName = Month(d)
  BY <1>1
<1>7. \A d \in done \cup {ride} : HasMonthOf(filed, d)
  BY <1>2, <1>4, <1>5, <1>6 DEF HasMonthOf
<1>8. YearComplete(filed, done \cup {ride})
  BY <1>2, <1>4, <1>5, <1>7 DEF YearComplete
<1>9. QED
  BY <1>8 DEF filed

\* The ride's year is there, complete: no ride done is of a year that is new.
LEMMA WithYearComplete ==
  ASSUME IInv, Complete, NEW ride \in pending
  PROVE  LET years == WithYear(history, ride)
         IN /\ years \in Seq(RideYears)
            /\ \A d \in Done \cup {ride} : \E y \in DOMAIN years : years[y].yearName = Year(d)
            /\ \A y \in DOMAIN years :
                 years[y].yearName <= Year(ride) /\ YearComplete(years[y], Done)
<1> DEFINE years == WithYear(history, ride)
           n == Len(history)
           present == \E y \in DOMAIN history : history[y].yearName = Year(ride)
<1>1. /\ history \in Seq(RideYears) /\ ride \in Rides /\ ride \in RideType
      /\ Done \subseteq RideType
  BY RidesAssumption DEF IInv, TypeOK, Done
<1>2. years \in Seq(RideYears)
  BY <1>1, WithYearProperties
<1>3. /\ \A d \in Done : \E y \in DOMAIN history : history[y].yearName = Year(d)
      /\ \A y \in DOMAIN history :
           history[y].yearName <= Year(ride) /\ YearComplete(history[y], Done)
  BY DEF Complete, IInv, Behind, YearBefore
<1>4. CASE present
  <2>1. years = history
    BY <1>4 DEF WithYear
  <2> HIDE DEF years
  <2>2. QED
    BY <1>2, <1>3, <1>4, <2>1 DEF years
<1>5. CASE ~present
  <2> DEFINE new == RideYear(Year(ride))
  <2>1. years = Append(history, new)
    BY <1>5 DEF WithYear
  <2>2. Year(ride) \in Nat
    BY <1>1, FormatterTypes
  <2>3. new \in RideYears /\ new.yearName = Year(ride) /\ DOMAIN new.months = {}
    BY <2>2 DEF RideYear, RideYears
  <2> HIDE DEF years, new
  <2>4. /\ n \in Nat /\ DOMAIN history = 1 .. n /\ DOMAIN years = 1 .. n + 1
        /\ years[n + 1] = new
        /\ \A y \in 1 .. n : years[y] = history[y]
    BY <1>1, <2>1, <2>3, AppendProperties
  <2> HIDE DEF n
  <2>5. \A y : y \in 1 .. n + 1 <=> y \in 1 .. n \/ y = n + 1
    BY <2>4
  <2>6. \A d \in Done : Year(d) # Year(ride)
    BY <1>3, <1>5
  <2>7. YearComplete(new, Done)
    BY <2>3, <2>6 DEF YearComplete, HasMonthOf
  <2>8. \A y \in 1 .. n + 1 : years[y].yearName <= Year(ride) /\ YearComplete(years[y], Done)
    BY <1>3, <2>2, <2>3, <2>4, <2>5, <2>7
  <2>9. \A d \in Done \cup {ride} : \E y \in 1 .. n + 1 : years[y].yearName = Year(d)
    BY <1>3, <2>3, <2>4, <2>5
  <2>10. QED
    BY <1>2, <2>4, <2>8, <2>9 DEF years
<1>6. QED
  BY <1>4, <1>5

LEMMA InitComplete == Init => Complete
BY DEF Init, Complete, Done

LEMMA StepComplete == IInv /\ Complete /\ [Next]_vars => Complete'
<1> SUFFICES ASSUME IInv, Complete, [Next]_vars
             PROVE  Complete'
  OBVIOUS
<1>1. CASE UNCHANGED vars
  BY <1>1 DEF vars, Complete, Done
<1>2. CASE Next
  <2>1. PICK ride \in Earliest(pending) :
          /\ pending' = pending \ {ride}
          /\ LET years == WithYear(history, ride)
             IN history' = [y \in DOMAIN years |-> Filed(years[y], ride)]
    BY <1>2 DEF Next, organizeUserRide
  <2>2. /\ rides' = rides /\ ride \in pending /\ ride \in Rides
        /\ pending \subseteq rides /\ rides \subseteq Rides
        /\ \A r \in pending : ride.rideDate <= r.rideDate
    BY <1>2, <2>1 DEF Next, organizeUserRide, Earliest, IInv, TypeOK
  <2> DEFINE years == WithYear(history, ride)
             now == Done \cup {ride}
  <2>3. history' = [y \in DOMAIN years |-> Filed(years[y], ride)]
    BY <2>1
  <2>4. Done' = now /\ ride \notin Done /\ Done \subseteq Rides
    BY <2>1, <2>2 DEF Done
  <2>5. /\ years \in Seq(RideYears)
        /\ \A d \in now : \E y \in DOMAIN years : years[y].yearName = Year(d)
        /\ \A y \in DOMAIN years :
             years[y].yearName <= Year(ride) /\ YearComplete(years[y], Done)
    BY <2>2, WithYearComplete
  <2>6. \A d \in Done : d.rideDate <= ride.rideDate
    BY <2>2 DEF Complete
  <2> HIDE DEF years
  <2>7. \A y \in DOMAIN years : years[y] \in RideYears
    BY <2>5
  <2>8. ASSUME NEW y \in DOMAIN years
        PROVE  YearComplete(history'[y], now) /\ history'[y].yearName = years[y].yearName
    <3>1. history'[y] = Filed(years[y], ride)
      BY <2>3
    <3>2. Filed(years[y], ride).yearName = years[y].yearName
      BY <2>2, <2>7, FiledProperties
    <3>3. YearComplete(Filed(years[y], ride), now)
      BY <2>2, <2>4, <2>5, <2>6, <2>7, FiledComplete
    <3>4. QED
      BY <3>1, <3>2, <3>3
  <2>9. DOMAIN history' = DOMAIN years
    BY <2>3
  <2>10. \A d \in now : \A r \in pending' : d.rideDate <= r.rideDate
    BY <2>1, <2>2 DEF Complete
  <2>11. \A d \in now : \E y \in DOMAIN history' : history'[y].yearName = Year(d)
    BY <2>5, <2>8, <2>9
  <2> HIDE DEF now
  <2>12. QED
    BY <2>4, <2>8, <2>9, <2>10, <2>11 DEF Complete
<1>3. QED
  BY <1>1, <1>2

LEMMA CompleteFilesOnce == TypeOK /\ Complete => FiledOnce
<1> SUFFICES ASSUME TypeOK, Complete, NEW ride \in rides
             PROVE  /\ ride \notin pending =>
                         \E y \in DOMAIN history : \E m \in DOMAIN history[y].months :
                           /\ history[y].yearName = Year(ride)
                           /\ history[y].months[m].monthName = Month(ride)
                    /\ \A y \in DOMAIN history : \A m \in DOMAIN history[y].months :
                         LET month == history[y].months[m]
                         IN Cardinality({ i \in DOMAIN month.rides : month.rides[i] = ride }) =
                              IF /\ ride \notin pending
                                 /\ month.monthName = Month(ride)
                                 /\ history[y].yearName <= Year(ride)
                                THEN 1 ELSE 0
  BY DEF FiledOnce
<1>1. ASSUME ride \notin pending
      PROVE  \E y \in DOMAIN history : \E m \in DOMAIN history[y].months :
               /\ history[y].yearName = Year(ride)
               /\ history[y].months[m].monthName = Month(ride)
  <2>1. ride \in Done
    BY <1>1 DEF Done
  <2>2. PICK y \in DOMAIN history : history[y].yearName = Year(ride)
    BY <2>1 DEF Complete
  <2>3. HasMonthOf(history[y], ride)
    BY <2>1 DEF Complete, YearComplete
  <2>4. QED
    BY <2>2, <2>3 DEF HasMonthOf
<1>2. ASSUME NEW y \in DOMAIN history, NEW m \in DOMAIN history[y].months
      PROVE  LET month == history[y].months[m]
             IN Cardinality({ i \in DOMAIN month.rides : month.rides[i] = ride }) =
                  IF /\ ride \notin pending
                     /\ month.monthName = Month(ride)
                     /\ history[y].yearName <= Year(ride)
                    THEN 1 ELSE 0
  <2> DEFINE month == history[y].months[m]
             places == { i \in DOMAIN month.rides : month.rides[i] = ride }
             due == /\ ride \notin pending
                    /\ month.monthName = Month(ride)
                    /\ history[y].yearName <= Year(ride)
  <2>1. Lists(month, history[y].yearName, Done)
    BY DEF Complete, YearComplete
  <2> HIDE DEF month
  <2>2. CASE due
    <3>1. ride \in Done
      BY <2>2 DEF Done
    <3>2. PICK i \in DOMAIN month.rides : month.rides[i] = ride
      BY <2>1, <2>2, <3>1 DEF Lists
    <3>3. \A j \in DOMAIN month.rides : month.rides[j] = ride => j = i
      BY <2>1, <3>2 DEF Lists
    <3>4. places = {i}
      BY <3>2, <3>3
    <3> HIDE DEF places
    <3>5. Cardinality(places) = 1
      BY <3>4, FS_Singleton
    <3>6. QED
      BY <2>2, <3>5 DEF month, places
  <2>3. CASE ~due
    <3>1. \A i \in DOMAIN month.rides : month.rides[i] # ride
      BY <2>1, <2>3 DEF Lists, Done
    <3>2. places = {}
      BY <3>1
    <3> HIDE DEF places
    <3>3. Cardinality(places) = 0
      BY <3>2, FS_EmptySet
    <3>4. QED
      BY <2>3, <3>3 DEF month, places
  <2>4. QED
    BY <2>2, <2>3
<1>3. QED
  BY <1>1, <1>2

LEMMA CompleteTotalsAgree == Complete => TotalsAgree
<1> SUFFICES ASSUME Complete, NEW y \in DOMAIN history, NEW m \in DOMAIN history[y].months
             PROVE  LET month == history[y].months[m]
                        places == DOMAIN month.rides
                    IN /\ month.rides # <<>> /\ Year(month.rides[1]) = history[y].yearName
                       /\ month.time = MapThenSumSet(LAMBDA i : month.rides[i].totalTime, places)
                       /\ month.mileage = MapThenSumSet(LAMBDA i : month.rides[i].mileage, places)
                       /\ month.rollovers = Cardinality({ i \in places : month.rides[i].didRollover })
  BY Zenon DEF TotalsAgree
<1>1. /\ SumsUp(history[y].months[m])
      /\ Opened(history[y].months[m], history[y].yearName)
  BY DEF Complete, YearComplete
<1>2. QED
  BY <1>1, Zenon DEF SumsUp, Opened, TimeOf, MileageOf, RolloversOf
-----------------------------------------------------------------------------
THEOREM InductiveInvariant == Spec => []IInv
BY InitIInv, StepIInv, PTL DEF Spec

\* The history is at all times a sequence of years of months of rides.
THEOREM TypeCorrect == Spec => []TypeOK
<1>1. IInv => TypeOK
  BY DEF IInv
<1>2. QED
  BY <1>1, InductiveInvariant, PTL

\* Whatever the rides and the calendar, the appending loops of
\* organizeUserRides leave the years, and the months of a year, in order.
THEOREM InCalendarOrder == Spec => []CalendarOrder
<1>1. IInv => CalendarOrder
  BY DEF IInv
<1>2. QED
  BY <1>1, InductiveInvariant, PTL

\* The rides of every month are in the order of their dates, those that do
\* not belong to its year included.
THEOREM MonthsListRidesInOrder == Spec => []RidesInOrder
<1>1. IInv => RidesInOrder
  BY DEF IInv
<1>2. QED
  BY <1>1, InductiveInvariant, PTL

\* Together with the order of the calendar, what is filed is complete.
THEOREM CompleteAlways == Spec => []Complete
BY InitComplete, StepComplete, InductiveInvariant, PTL DEF Spec

\* Every ride the loop has come to is in the month of its own year, and in
\* each month of its name of an earlier year, exactly once; no other month
\* lists it, nor does any month a ride to come.
THEOREM FiledOnceAlways == Spec => []FiledOnce
<1>1. TypeOK /\ Complete => FiledOnce
  BY CompleteFilesOnce
<1>2. QED
  BY <1>1, TypeCorrect, CompleteAlways, PTL

\* The totals beside a month's list are those of the rides in it, and the
\* month was opened by a ride of its own year.
THEOREM TotalsAlwaysAgree == Spec => []TotalsAgree
<1>1. Complete => TotalsAgree
  BY CompleteTotalsAgree
<1>2. QED
  BY <1>1, CompleteAlways, PTL
=============================================================================
