---------------------------- MODULE MCTripBooking ----------------------------
(* Small instances of TripBooking: the policies each run lets vary. *)
EXTENDS TripLedger, TLC
CONSTANTS q1, q2

\* Every rule fixed, except the ones an instance names.
Fixed(state) == [r \in PolicyRules |-> {state}]

\* Capacity is always enforced, nothing else is.
PolicyCapacityOnly == [Fixed("DISABLED") EXCEPT !["capacity"] = {"ENABLED"}]

\* Bookings are paid for, nothing else is enforced.
PolicyPayment == [Fixed("DISABLED") EXCEPT !["payment"] = {"ENABLED"}]

\* Eligibility is for the operator to review, the rest is enforced, but capacity may be
\* relaxed and enforced again.
PolicyReviewed == [Fixed("ENABLED") EXCEPT !["participant"] = {"REVIEW"},
                                           !["capacity"] = {"ENABLED", "REVIEW"}]

\* Rows and request ids are interchangeable.
Interchangeable == Permutations(Bookings) \cup Permutations(Requests)

Busy(cmd) == cmd.stage # "idle"

\* A copy is sent while the first one is in flight, under its request id; the operator gives no
\* other command of the kind before it is answered.
Copied(cmds, first, copy) ==
    /\ Busy(cmds'[copy]) /\ ~Busy(cmds[copy]) =>
          Busy(cmds[first]) /\ cmds'[copy].request = cmds[first].request
    /\ Busy(cmds[copy]) /\ ~Busy(cmds[first]) => ~Busy(cmds'[first])

\* A refusal reaches its client before anything else happens: nobody but the client looks at a
\* refused command.
RefusalFirst ==
    /\ \A q \in BookingCommands : bookingCmd[q].stage = "refused" => bookingCmd'[q].stage = "idle"
    /\ \A q \in TripCommands : tripCmd[q].stage = "refused" => tripCmd'[q].stage = "idle"

\* Two bookings meet in the capacity and the policies: the price is set around one booking, and
\* one payment is created at a time.  The copy of a command races it over one personal booking,
\* while its payments, the price and the policies stay.
Reviewed ==
    /\ RefusalFirst
    /\ Copied(bookingCmd, q1, q2)
    /\ Cardinality(Existing') > 1 => repricing' = NONE
    /\ Cardinality({b \in Bookings : quoted'[b] # {}}) <= 1
    /\ Busy(bookingCmd'[q2]) =>
          /\ Cardinality(Existing') = 1 /\ \A b \in Existing' : booker'[b] \in Accounts
          /\ repricing' = NONE /\ policy'["capacity"] = "ENABLED"
          /\ \A b \in Bookings : quoted'[b] = {} /\ paid'[b] = billed'[b]
=============================================================================
