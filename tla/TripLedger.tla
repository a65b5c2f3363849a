---------------------------- MODULE TripLedger ----------------------------
(* The trip's bookings seen as a ledger of its seats. *)
EXTENDS TripBooking

\* A live booking holds its seats, a cancelled one keeps the number but holds none.
Held == [b \in Bookings |-> IF b \in Live THEN seats[b] ELSE 0]

Ledger == INSTANCE SeatLedger WITH
    held <- Held, sure <- Confirmed, over <- tripStatus \in Terminal

\* While the capacity rule is enforced, everything the booking and lifecycle services do to
\* the bookings of a trip is a step of the ledger: no booking is confirmed that held nothing,
\* no seats appear on an ended trip, none are lost by completing it.
ImplementsLedger == Ledger!Spec

=============================================================================
