---------------------------- MODULE MCReservations ----------------------------
(***************************************************************************)
(* Small instances of what customers reserve: the seats of a trip and      *)
(* pieces of equipment.  Trips and equipment share nothing, and a trip is  *)
(* looked at twice, so a behaviour moves one of three things while the     *)
(* rest is still: the seats that bookings compete for; the lifecycle of    *)
(* the trip, with commands that are sent twice; equipment and its rentals. *)
(***************************************************************************)
EXTENDS MCTripBooking, EquipmentRentals
CONSTANTS t1, t2

VARIABLE moves

\* A step of the trip that changes something, and not its price, which is free.
TripStep ==
    /\ Next /\ vars' # vars
    /\ RefusalFirst
    /\ repricing' = NONE

-----------------------------------------------------------------------------
\* Bookings of up to MaxSeats seats: a command at a time, whose request id is not used again
\* while it is in flight, and nothing on the calendar.
SeatsStep ==
    /\ TripStep
    /\ ~Busy(bookingCmd'[q2]) /\ ~Busy(tripCmd'[t2])
    /\ ~(InFlight(bookingCmd'[q1]) /\ InFlight(tripCmd'[t1]))
    /\ InFlight(bookingCmd'[q1]) \/ InFlight(tripCmd'[t1]) => audited' = {}
    /\ event' = "NONE"

-----------------------------------------------------------------------------
\* The lifecycle.  A copy races the command it repeats and whatever else happens to one booking,
\* or to the trip; what the whole trip holds does not matter to it; nor do the allocations of a
\* trip depend on how many bookings it has.  So a state has a copy in flight, or a second
\* booking, or allocations; a booking has one seat, and no crew is offered the trip.

\* More than one personal booking without allocations.
Crowded == Cardinality(Existing) > 1 \/ allocated # {} \/ \E b \in Bookings : booker[b] \in Organizations

LifecycleStep ==
    /\ TripStep
    /\ \A b \in Bookings : seats'[b] <= 1
    /\ offered' = {}
    /\ Copied(bookingCmd, q1, q2) /\ Copied(tripCmd, t1, t2)
    /\ Busy(bookingCmd'[q2]) => ~Busy(tripCmd'[t1]) /\ ~Crowded'
    /\ Busy(tripCmd'[t2]) => ~Busy(bookingCmd'[q1]) /\ ~Crowded'
    /\ Cardinality(Existing') > 1 => allocated' = {}

-----------------------------------------------------------------------------
\* Equipment.  Rentals meet each other and the warehouse in one asset, and the pieces of one
\* rental meet in its status: an instance has either one asset in use, or one rental whose pieces
\* nobody else moves.
UsedAssets == {a \in Assets : \/ stock[a] # "AVAILABLE" \/ a \in unfit
                              \/ \E r \in Rentals : a \in rental[r].items
                              \/ \E h \in Handlers : a \in handler[h].items}
OnlyRented ==
    /\ Cardinality({r \in Rentals : rental'[r].status # "NONE"}) <= 1
    /\ unfit' = {} /\ \A h \in Handlers : handler'[h].does \notin Movements
    /\ stock' = stock \/ handler' # handler

EquipmentStep == EquipmentNext /\ (Cardinality(UsedAssets') <= 1 \/ OnlyRented)

-----------------------------------------------------------------------------
ReservationInit ==
    /\ Init /\ EquipmentInit
    /\ moves \in {"seats", "lifecycle", "equipment"}
    /\ moves = "equipment" => tripStatus = "OPEN"
ReservationNext ==
    /\ UNCHANGED moves
    /\ \/ moves = "seats" /\ SeatsStep /\ UNCHANGED equipmentVars
       \/ moves = "lifecycle" /\ LifecycleStep /\ UNCHANGED equipmentVars
       \/ moves = "equipment" /\ EquipmentStep /\ UNCHANGED vars
ReservationSpec == ReservationInit /\ [][ReservationNext]_<<vars, equipmentVars, moves>>
===============================================================================
