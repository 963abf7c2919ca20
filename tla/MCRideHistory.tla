--------------------------- MODULE MCRideHistory ---------------------------
(* Three years of two months: rides of one month in three years and of two *)
(* months in one, two of one date, and a pair alike but for the id.        *)
EXTENDS RideHistory

Ride(id, date, time, miles, rollover) ==
  [id |-> id, rideDate |-> date, totalTime |-> time, mileage |-> miles,
   didRollover |-> rollover]

MCRides ==
  { Ride(1, 0, 1, 2, TRUE), Ride(2, 1, 2, 3, FALSE), Ride(3, 3, 1, 1, TRUE),
    Ride(4, 4, 3, 1, FALSE), Ride(5, 4, 3, 1, TRUE), Ride(6, 5, 2, 2, TRUE),
    Ride(7, 9, 2, 5, FALSE), Ride(8, 9, 2, 5, FALSE), Ride(9, 11, 1, 4, TRUE) }
=============================================================================
