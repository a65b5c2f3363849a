---------------------------- MODULE SeatLedger ----------------------------
(***************************************************************************)
(* What the booking services promise about the seats of one trip, without  *)
(* saying how: seats are taken while there are enough, a booking is then   *)
(* confirmed or gives its seats back, and once the trip is over the ledger *)
(* is closed, with the seats of its confirmed bookings or with none.       *)
(* Commands, tokens, rosters, payments and policies do not appear: the     *)
(* detailed specification implements this one (TripLedger).                *)
(***************************************************************************)
EXTENDS Naturals, FiniteSets

CONSTANTS Bookings, Capacity, MaxSeats

VARIABLES
    held,   \* the seats each booking holds
    sure,   \* the bookings that are confirmed
    over    \* whether the trip was cancelled or completed

\* The seats held by all bookings together.
Total(h) == Cardinality({p \in Bookings \X (1..MaxSeats) : p[2] <= h[p[1]]})

Init ==
    /\ held = [b \in Bookings |-> 0]
    /\ sure = {}
    /\ over \in BOOLEAN

\* A booking that holds nothing takes seats, if that leaves the trip within its capacity.
Take(b, n) ==
    /\ ~over
    /\ held[b] = 0
    /\ held' = [held EXCEPT ![b] = n]
    /\ Total(held') <= Capacity
    /\ UNCHANGED <<sure, over>>

\* A booking that holds seats is confirmed, once.
Confirm(b) ==
    /\ ~over
    /\ held[b] > 0 /\ b \notin sure
    /\ sure' = sure \cup {b}
    /\ UNCHANGED <<held, over>>

\* A booking, confirmed or not, gives its seats back.
GiveBack(b) ==
    /\ ~over
    /\ held[b] > 0
    /\ held' = [held EXCEPT ![b] = 0]
    /\ sure' = sure \ {b}
    /\ UNCHANGED over

\* The trip is completed, with its confirmed bookings, or cancelled, with none.
Close ==
    /\ ~over
    /\ over' = TRUE
    /\ sure' \in {sure, {}}
    /\ held' = [b \in Bookings |-> IF b \in sure' THEN held[b] ELSE 0]

Next ==
    \/ \E b \in Bookings, n \in 1..MaxSeats : Take(b, n)
    \/ \E b \in Bookings : Confirm(b) \/ GiveBack(b)
    \/ Close

Spec == Init /\ [][Next]_<<held, sure, over>>

=============================================================================
