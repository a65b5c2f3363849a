---------------------------- MODULE TripBooking ----------------------------
(***************************************************************************)
(* One trip and everything that is booked on it: the booking services      *)
(* (trips.service, booking-management.service, booking-participant.service) *)
(* the trip lifecycle (trip-lifecycle.service) and the decisions both of   *)
(* them depend on: safety, weather, price, payments, policies, calendar.   *)
(*                                                                         *)
(* Every operation of these services on one trip reads and writes rows of  *)
(* that trip only, so the trip is the unit of the model.  A call of        *)
(* DatabaseService.serializable is one atomic step.  The two operations    *)
(* that span several transactions, apply() of a booking and apply() of a   *)
(* trip, are protocols: the client is shown a state with a token, sends a  *)
(* command carrying the token, a first transaction checks it, outside work *)
(* happens, a second transaction checks it again and commits.  A token is  *)
(* a hash over rows and their updatedAt; it is modelled by what it detects, *)
(* the set of rows it covers and whether one of them was written since.    *)
(***************************************************************************)
EXTENDS Naturals, FiniteSets

CONSTANTS
    Bookings,           \* identities of the Booking rows the trip may have
    Accounts,           \* accounts booking for themselves
    Organizations,      \* organizations booking through a member
    BookingCommands,    \* apply() calls on bookings in flight
    TripCommands,       \* apply() calls on the trip in flight
    Requests,           \* request ids of the commands in flight
    Capacity,           \* Trip.capacity
    MaxSeats,           \* most seats of one booking
    Resources,          \* calendar resources of the trip
    AllocationChoices,  \* the sets of resources an operator may allocate
    PolicyStates,       \* the states each policy rule may be set to
    SafetyDecisions,    \* the decisions safety staff may take
    WeatherStates,      \* whether the weather gate may block, not block
    Prices,             \* prices per seat an operator may set, NONE while none is configured
    NONE                \* no account, no booking, no checklist, no price

ASSUME CapacityAssumption == Capacity \in Nat /\ MaxSeats \in Nat /\ IsFiniteSet(Bookings)
ASSUME BookerAssumption == Accounts \cap Organizations = {} /\ NONE \notin Accounts \cup Organizations \cup Nat
ASSUME ChoiceAssumption == /\ AllocationChoices \subseteq SUBSET Resources
                           /\ WeatherStates \subseteq BOOLEAN
                           /\ Prices \subseteq Nat \cup {NONE}
                           /\ SafetyDecisions \subseteq {"REVIEW_REQUIRED", "ALLOWED", "DEFERRED"}

-----------------------------------------------------------------------------
\* The domains.

Bookers == Accounts \cup Organizations
SeatNumbers == 1..MaxSeats
TripStatus == {"DRAFT", "OPEN", "CLOSED", "CANCELLED", "COMPLETED"}
Terminal == {"CANCELLED", "COMPLETED"}
BookingStatus == {"FREE", "PENDING", "CONFIRMED", "CANCELLED"}   \* FREE: the row does not exist
PolicyState == {"ENABLED", "REVIEW", "DISABLED"}

\* The policy rules the two services consult, and the ones the booking token hashes.
BookingRules == {"participant", "safety", "capacity", "payment", "weather"}
PolicyRules == BookingRules \cup {"tripSafety", "logEligibility"}

ASSUME PolicyAssumption == PolicyStates \in [PolicyRules -> SUBSET PolicyState]

VARIABLES
    tripStatus,     \* Trip.status
    clock,          \* now, relative to Trip.startsAt and Trip.endsAt
    bookingStatus,  \* Booking.status
    booker,         \* Booking.organizationId, or Booking.accountId of a personal booking
    seats,          \* Booking.seats
    eligible,       \* the places of the roster whose participant is ELIGIBLE
    price,          \* the setting trip-price:<id>: the price per seat, 0 for a free trip
    repricing,      \* the price a setPrice() call found it may set and is about to write
    quoted,         \* amounts create() calls of payments.service computed, about to insert
    billed,         \* the amounts of the booking's Payment rows
    paid,           \* the amounts of the ones that are CAPTURED
    safety,         \* the latest SafetyChecklist: its decision, whether its items all pass
    weatherBlocks,  \* whether the weather gate blocks on the latest review
    policy,         \* PolicyControl.state by rule
    event,          \* the trip's CalendarEvent
    allocated,      \* resources with an ACTIVE CalendarAllocation of the event
    offered,        \* resources with a PENDING or ACCEPTED CrewAssignment
    diveLogs,       \* participants, as <<booking, place>>, with a DiveLog of the trip
    bookingCmd,     \* apply() calls of booking-management.service in flight
    tripCmd,        \* apply() calls of trip-lifecycle.service in flight
    audited         \* request ids with an audit event of a committed command

trip == <<tripStatus, clock>>
rows == <<bookingStatus, booker, seats, eligible>>
money == <<price, repricing, quoted, billed, paid>>
gates == <<safety, weatherBlocks, policy>>
calendar == <<event, allocated, offered>>
commands == <<bookingCmd, tripCmd, audited>>
vars == <<tripStatus, clock, bookingStatus, booker, seats, eligible, price, repricing, quoted, billed,
          paid, safety, weatherBlocks, policy, event, allocated, offered, diveLogs, bookingCmd, tripCmd, audited>>

-----------------------------------------------------------------------------
\* What the services compute from the rows.

Existing == {b \in Bookings : bookingStatus[b] # "FREE"}
Live == {b \in Bookings : bookingStatus[b] \in {"PENDING", "CONFIRMED"}}
Confirmed == {b \in Bookings : bookingStatus[b] = "CONFIRMED"}

\* The roster always has one participant per seat (ensureForBooking, createMany).
Places(b) == {i \in SeatNumbers : i <= seats[b]}

\* SUM(seats) over a set of bookings: the number of their places.
Participants(S) == {p \in S \X SeatNumbers : p[2] <= seats[p[1]]}
SeatsOf(S) == Cardinality(Participants(S))

\* A rule refuses only while its policy enforces it.
Passes(rule, met) == met \/ policy[rule] # "ENABLED"

\* What the booking costs, and whether one captured payment covers exactly that.
AmountOf(b) == price * seats[b]
CapturedInFull(b) == price # NONE /\ (price = 0 \/ AmountOf(b) \in paid[b])

\* Mutant of BookingGates: the capacity counts confirmed seats only.
BookingGatesOnConfirmed(n) ==
    /\ tripStatus = "OPEN"
    /\ clock = "BEFORE"
    /\ safety.decision # "DEFERRED"
    /\ Passes("safety", safety.decision = "ALLOWED")
    /\ Passes("weather", ~weatherBlocks)
    /\ Passes("capacity", SeatsOf(Confirmed) + n <= Capacity)

\* The gates both book() and bookForOrganization() apply to n more seats.
BookingGates(n) ==
    /\ tripStatus = "OPEN"
    /\ clock = "BEFORE"
    /\ safety.decision # "DEFERRED"
    /\ Passes("safety", safety.decision = "ALLOWED")
    /\ Passes("weather", ~weatherBlocks)
    /\ Passes("capacity", SeatsOf(Live) + n <= Capacity)

\* state().actions contains CONFIRM: there is no blocker.
Confirmable(b) ==
    /\ bookingStatus[b] = "PENDING"
    /\ tripStatus \in {"OPEN", "CLOSED"}
    /\ clock = "BEFORE"
    /\ Passes("participant", eligible[b] = Places(b))
    /\ safety.decision # "DEFERRED"
    /\ Passes("safety", safety.decision = "ALLOWED")
    /\ Passes("capacity", SeatsOf(Confirmed) + seats[b] <= Capacity)
    /\ price = NONE => policy["payment"] = "DISABLED"
    /\ Passes("payment", CapturedInFull(b))
    /\ Passes("weather", ~weatherBlocks)

\* state().actions contains CANCEL.
Cancellable(b) ==
    /\ bookingStatus[b] \in {"PENDING", "CONFIRMED"}
    /\ tripStatus \notin Terminal
    /\ clock = "BEFORE"

-----------------------------------------------------------------------------
\* Tokens.  A row is named by its kind and its booking; a write names the rows whose
\* content or updatedAt it changes, and every command whose token covers one goes stale.

Row(b) == <<"booking", b>>
Roster(b) == <<"participants", b>>
PaymentRows(b) == <<"payments", b>>
TripRow == <<"trip", NONE>>
PriceRow == <<"price", NONE>>
SafetyRow == <<"safety", NONE>>
CalendarRow == <<"calendar", NONE>>
WeatherRow == <<"weather", NONE>>

\* Mutant of BookingToken: the token trusts the booking's updatedAt to cover its roster.
BookingTokenWithoutRoster(b) ==
    {Row(b), PaymentRows(b), TripRow, PriceRow, SafetyRow, CalendarRow, WeatherRow}

BookingToken(b) ==
    {Row(b), Roster(b), PaymentRows(b), TripRow, PriceRow, SafetyRow, CalendarRow, WeatherRow}

\* Mutant of TripToken: Trip.updatedAt and the bookings alone, as the comment of snapshot()
\* warns against.
TripTokenOfBookings == {TripRow} \cup {Row(b) : b \in Bookings}

\* The lifecycle token covers the participants of confirmed bookings only.
TripToken ==
    {TripRow} \cup {Row(b) : b \in Bookings} \cup {PaymentRows(b) : b \in Bookings}
              \cup {Roster(b) : b \in Confirmed}

\* What the operator is shown with the token.
BookingFacts(b) ==
    [seats |-> seats[b], eligible |-> eligible[b], captured |-> CapturedInFull(b),
     safety |-> safety.decision, confirmed |-> SeatsOf(Confirmed), weather |-> weatherBlocks,
     rules |-> [r \in BookingRules |-> policy[r]]]

TripFacts ==
    [status |-> bookingStatus, paid |-> paid,
     roster |-> [b \in Bookings |-> IF b \in Confirmed THEN eligible[b] ELSE {}]]

NoFacts == [nothing |-> NONE]

IdleBookingCmd == [stage |-> "idle", action |-> "CANCEL", booking |-> NONE, request |-> NONE,
                   fresh |-> FALSE, seen |-> NoFacts]
IdleTripCmd == [stage |-> "idle", action |-> "CANCEL", attended |-> {}, request |-> NONE,
                fresh |-> FALSE, seen |-> NoFacts]

Stages == {"idle", "shown", "checked", "refused"}
Actions == {"PUBLISH", "REOPEN", "CLOSE", "CANCEL", "COMPLETE"}
ShownBookings ==
    [seats : Nat, eligible : SUBSET SeatNumbers, captured : BOOLEAN,
     safety : SafetyDecisions \cup {NONE}, confirmed : Nat, weather : BOOLEAN,
     rules : [BookingRules -> PolicyState]]
ShownTrips ==
    [status : [Bookings -> BookingStatus], paid : [Bookings -> SUBSET Nat],
     roster : [Bookings -> SUBSET SeatNumbers]]
BookingCmds ==
    [stage : Stages, action : {"CONFIRM", "CANCEL"}, booking : Bookings \cup {NONE},
     request : Requests \cup {NONE}, fresh : BOOLEAN, seen : ShownBookings \cup {NoFacts}]
TripCmds ==
    [stage : Stages, action : Actions, attended : SUBSET (Bookings \X SeatNumbers),
     request : Requests \cup {NONE}, fresh : BOOLEAN, seen : ShownTrips \cup {NoFacts}]

InFlight(c) == c.stage \in {"shown", "checked"}

\* The commands after the rows W were written.
Aged(c, token, W) == IF InFlight(c) /\ token \cap W # {} THEN [c EXCEPT !.fresh = FALSE] ELSE c
AgedBookingCmds(W) ==
    [q \in BookingCommands |-> Aged(bookingCmd[q], BookingToken(bookingCmd[q].booking), W)]
AgedTripCmds(W) == [q \in TripCommands |-> Aged(tripCmd[q], TripToken, W)]

Wrote(W) == /\ bookingCmd' = AgedBookingCmds(W)
            /\ tripCmd' = AgedTripCmds(W)
            /\ UNCHANGED audited

-----------------------------------------------------------------------------
Init ==
    /\ tripStatus \in {"DRAFT", "OPEN", "CLOSED", "CANCELLED"}
    /\ clock = "BEFORE"
    /\ bookingStatus = [b \in Bookings |-> "FREE"]
    /\ booker = [b \in Bookings |-> NONE]
    /\ seats = [b \in Bookings |-> 0]
    /\ eligible = [b \in Bookings |-> {}]
    /\ price \in Prices
    /\ repricing = NONE
    /\ quoted = [b \in Bookings |-> {}]
    /\ billed = [b \in Bookings |-> {}]
    /\ paid = [b \in Bookings |-> {}]
    /\ safety = [decision |-> NONE, passed |-> FALSE]
    /\ weatherBlocks \in WeatherStates
    /\ policy \in {p \in [PolicyRules -> PolicyState] : \A r \in PolicyRules : p[r] \in PolicyStates[r]}
    /\ event = "NONE"
    /\ allocated = {}
    /\ offered = {}
    /\ diveLogs = {}
    /\ bookingCmd = [q \in BookingCommands |-> IdleBookingCmd]
    /\ tripCmd = [q \in TripCommands |-> IdleTripCmd]
    /\ audited = {}

-----------------------------------------------------------------------------
\* trips.service: taking seats.

RowsOf(w) == {b \in Existing : booker[b] = w}

\* Mutant of PlaceBooking: a re-booking keeps the old roster.
PlaceBookingKeepingRoster(b, w, n, fit) ==
    /\ bookingStatus' = [bookingStatus EXCEPT ![b] = "PENDING"]
    /\ booker' = [booker EXCEPT ![b] = w]
    /\ seats' = [seats EXCEPT ![b] = n]
    /\ eligible' = [eligible EXCEPT ![b] = @ \cup fit]
    /\ Wrote({Row(b), Roster(b)})
    /\ UNCHANGED <<trip, money, gates, calendar, diveLogs>>

\* The row b becomes a pending booking of w for n seats; `fit' are the places whose
\* participant is eligible from the start.
PlaceBooking(b, w, n, fit) ==
    /\ bookingStatus' = [bookingStatus EXCEPT ![b] = "PENDING"]
    /\ booker' = [booker EXCEPT ![b] = w]
    /\ seats' = [seats EXCEPT ![b] = n]
    /\ eligible' = [eligible EXCEPT ![b] = fit]
    /\ Wrote({Row(b), Roster(b)})
    /\ UNCHANGED <<trip, money, gates, calendar, diveLogs>>

\* book(): an account has one row per trip, which a later booking reuses once it is
\* cancelled.  Only the booker's own place can be eligible at once (ensureForBooking).
Book(a, b, n) ==
    /\ IF RowsOf(a) = {} THEN b \notin Existing
                         ELSE b \in RowsOf(a) /\ bookingStatus[b] = "CANCELLED"
    /\ BookingGates(n)
    /\ \E fit \in {{}, {1}} : PlaceBooking(b, a, n, fit)

\* Mutant of BookForOrganization: only a confirmed booking of the organization conflicts.
BookForOrganizationTwice(o, b, n) ==
    /\ b \notin Existing
    /\ RowsOf(o) \cap Confirmed = {}
    /\ BookingGates(n)
    /\ PlaceBooking(b, o, n, {})

\* bookForOrganization(): a new row for each request key; the same key again returns the
\* row it made and writes nothing.
BookForOrganization(o, b, n) ==
    /\ b \notin Existing
    /\ RowsOf(o) \cap Live = {}
    /\ BookingGates(n)
    /\ PlaceBooking(b, o, n, {})

-----------------------------------------------------------------------------
\* booking-participant.service and trip-admin.service: the roster.

\* updateForOwner(): it reads that the personal booking is not cancelled, in a statement of its
\* own, and then writes the participant, not the booking.  Every row was live once, so a write
\* may reach any row that exists.
UpdateForOwner(b, i) ==
    /\ b \in Existing /\ booker[b] \in Accounts /\ i \in Places(b)
    /\ eligible' = [eligible EXCEPT ![b] = @ \ {i}]
    /\ Wrote({Roster(b)})
    /\ UNCHANGED <<trip, bookingStatus, booker, seats, money, gates, calendar, diveLogs>>

\* updateForOrganization(): only while pending and before the start.
UpdateForOrganization(b, i) ==
    /\ bookingStatus[b] = "PENDING" /\ booker[b] \in Organizations /\ i \in Places(b)
    /\ clock = "BEFORE"
    /\ eligible' = [eligible EXCEPT ![b] = @ \ {i}]
    /\ Wrote({Row(b), Roster(b)})
    /\ UNCHANGED <<trip, bookingStatus, booker, seats, money, gates, calendar, diveLogs>>

\* setParticipantEligibility(): ELIGIBLE or REJECTED, on a pending booking only.
SetParticipantEligibility(b, i, fit) ==
    /\ bookingStatus[b] = "PENDING" /\ i \in Places(b)
    /\ tripStatus \notin Terminal /\ clock = "BEFORE"
    /\ eligible' = [eligible EXCEPT ![b] = IF fit THEN @ \cup {i} ELSE @ \ {i}]
    /\ Wrote({Row(b), Roster(b)})
    /\ UNCHANGED <<trip, bookingStatus, booker, seats, money, gates, calendar, diveLogs>>

-----------------------------------------------------------------------------
\* booking-management.service: detail() and apply().

\* A client sends every command under a request id of its own.  An id that no command in
\* flight carries stands for a fresh one.
FreshRequests ==
    Requests \ ({bookingCmd[q].request : q \in BookingCommands}
                \cup {tripCmd[q].request : q \in TripCommands})

\* detail(): the operator sees the booking and its token, and decides on an action.
ShowBooking(q, b, action) ==
    /\ bookingCmd[q].stage = "idle"
    /\ \/ action = "CONFIRM" /\ Confirmable(b)
       \/ action = "CANCEL" /\ Cancellable(b)
    /\ \E r \in FreshRequests :
          /\ bookingCmd' = [bookingCmd EXCEPT ![q] =
                [stage |-> "shown", action |-> action, booking |-> b, request |-> r,
                 fresh |-> TRUE, seen |-> BookingFacts(b)]]
          /\ audited' = audited \ {r}
    /\ UNCHANGED <<trip, rows, money, gates, calendar, diveLogs, tripCmd>>

\* The token still matches: no covered row was written, and the values it hashes without
\* a row of their own (the confirmed seats of the trip, the rules) are the ones shown.
BookingTokenMatches(c) ==
    /\ c.fresh
    /\ c.seen.confirmed = SeatsOf(Confirmed)
    /\ c.seen.rules = [r \in BookingRules |-> policy[r]]

\* Mutant of BookingAccepts: a matching token is taken for a permitted action.
BookingAcceptsToken(c) == BookingTokenMatches(c)

BookingAccepts(c) ==
    /\ BookingTokenMatches(c)
    /\ \/ c.action = "CONFIRM" /\ Confirmable(c.booking)
       \/ c.action = "CANCEL" /\ Cancellable(c.booking)

\* check() in the first transaction of apply().
AdmitBookingCmd(q) ==
    /\ bookingCmd[q].stage = "shown"
    /\ bookingCmd[q].request \notin audited
    /\ BookingAccepts(bookingCmd[q])
    /\ bookingCmd' = [bookingCmd EXCEPT ![q].stage = "checked"]
    /\ UNCHANGED <<trip, rows, money, gates, calendar, diveLogs, tripCmd, audited>>

\* check() in either transaction, on a request that already committed.
ReplayBookingCmd(q) ==
    /\ InFlight(bookingCmd[q])
    /\ bookingCmd[q].request \in audited
    /\ bookingCmd' = [bookingCmd EXCEPT ![q] = IdleBookingCmd]
    /\ UNCHANGED <<trip, rows, money, gates, calendar, diveLogs, tripCmd, audited>>

\* A transaction of apply() throws: a stale token, an action no longer offered, or, in the
\* second one, a weather rule that is enforced on a forecast that could not be refreshed.
RefuseBookingCmd(q) ==
    LET c == bookingCmd[q] IN
    /\ InFlight(c)
    /\ c.request \notin audited
    /\ ~BookingAccepts(c) \/ (c.stage = "checked" /\ c.action = "CONFIRM" /\ policy["weather"] = "ENABLED")
    /\ bookingCmd' = [bookingCmd EXCEPT ![q] = [IdleBookingCmd EXCEPT !.stage = "refused"]]
    /\ UNCHANGED <<trip, rows, money, gates, calendar, diveLogs, tripCmd, audited>>

\* The second transaction: check() again, write the booking, offer the allocated crew
\* the trip (dispatchForConfirmedBooking, for the qualified among them), audit.
CommitBookingCmd(q) ==
    LET c == bookingCmd[q] IN
    /\ c.stage = "checked"
    /\ c.request \notin audited
    /\ BookingAccepts(c)
    /\ bookingStatus' = [bookingStatus EXCEPT ![c.booking] =
                            IF c.action = "CONFIRM" THEN "CONFIRMED" ELSE "CANCELLED"]
    /\ \E qualified \in SUBSET allocated :
          offered' = IF c.action = "CONFIRM" THEN offered \cup qualified ELSE offered
    /\ audited' = audited \cup {c.request}
    /\ bookingCmd' = [AgedBookingCmds({Row(c.booking)}) EXCEPT ![q] = IdleBookingCmd]
    /\ tripCmd' = AgedTripCmds({Row(c.booking)})
    /\ UNCHANGED <<trip, booker, seats, eligible, money, gates, event, allocated, diveLogs>>

\* The client, or a proxy, sends the same request again while it is unanswered.
ResendBookingCmd(q, p) ==
    /\ bookingCmd[q].stage = "idle"
    /\ InFlight(bookingCmd[p])
    /\ bookingCmd' = [bookingCmd EXCEPT ![q] = [bookingCmd[p] EXCEPT !.stage = "shown"]]
    /\ UNCHANGED <<trip, rows, money, gates, calendar, diveLogs, tripCmd, audited>>

\* The client got its refusal, gave up, or the process died before the second transaction.
DropBookingCmd(q) ==
    /\ bookingCmd[q].stage # "idle"
    /\ bookingCmd' = [bookingCmd EXCEPT ![q] = IdleBookingCmd]
    /\ UNCHANGED <<trip, rows, money, gates, calendar, diveLogs, tripCmd, audited>>

-----------------------------------------------------------------------------
\* trip-lifecycle.service: preview() and apply().

\* Mutant of Transition: cancelling does not ask whether the trip already ended.
TransitionAnytime(action) ==
    CASE action = "CANCEL" -> TRUE
      [] action = "CLOSE" -> tripStatus = "OPEN"
      [] action = "COMPLETE" -> tripStatus \in {"OPEN", "CLOSED"} /\ clock = "ENDED"
      [] action = "REOPEN" -> tripStatus \in {"CLOSED", "DRAFT"} /\ clock = "BEFORE"
      [] action = "PUBLISH" -> tripStatus = "DRAFT" /\ clock = "BEFORE"

\* assertTransition(), over the center's and the platform's modes.
Transition(action) ==
    /\ tripStatus \notin Terminal
    /\ CASE action = "CANCEL" -> TRUE
         [] action = "CLOSE" -> tripStatus = "OPEN"
         [] action = "COMPLETE" -> tripStatus \in {"OPEN", "CLOSED"} /\ clock = "ENDED"
         [] action = "REOPEN" -> tripStatus \in {"CLOSED", "DRAFT"} /\ clock = "BEFORE"
         [] action = "PUBLISH" -> tripStatus = "DRAFT" /\ clock = "BEFORE"

NextStatus(action) ==
    CASE action \in {"PUBLISH", "REOPEN"} -> "OPEN"
      [] action = "CLOSE" -> "CLOSED"
      [] action = "CANCEL" -> "CANCELLED"
      [] action = "COMPLETE" -> "COMPLETED"

\* The participants a completion may name as having attended: any of those shown.
Attendances(action) ==
    IF action = "COMPLETE" THEN (SUBSET Participants(Confirmed)) \ {{}} ELSE {{}}

\* preview(): the operator sees the trip and its token, and decides on an action.
ShowTrip(q, action) ==
    /\ tripCmd[q].stage = "idle"
    /\ Transition(action)
    /\ \E r \in FreshRequests, who \in Attendances(action) :
          /\ tripCmd' = [tripCmd EXCEPT ![q] =
                [stage |-> "shown", action |-> action, attended |-> who, request |-> r,
                 fresh |-> TRUE, seen |-> TripFacts]]
          /\ audited' = audited \ {r}
    /\ UNCHANGED <<trip, rows, money, gates, calendar, diveLogs, bookingCmd>>

TripAccepts(c) == c.fresh /\ Transition(c.action)

\* What only the second transaction checks: a price before opening, and on completion the
\* safety decision, the capacity, the attendance and its eligibility, no earlier dive log.
EffectAllowed(c) ==
    /\ NextStatus(c.action) = "OPEN" => price # NONE
    /\ c.action = "COMPLETE" =>
          /\ safety.decision # "DEFERRED"
          /\ Passes("tripSafety", safety.decision = "ALLOWED")
          /\ Passes("capacity", SeatsOf(Confirmed) <= Capacity)
          /\ c.attended \subseteq Participants(Confirmed)
          /\ Passes("logEligibility", \A p \in c.attended : p[2] \in eligible[p[1]])
          /\ c.attended \cap diveLogs = {}

\* check() in the first transaction of apply().
AdmitTripCmd(q) ==
    /\ tripCmd[q].stage = "shown"
    /\ tripCmd[q].request \notin audited
    /\ TripAccepts(tripCmd[q])
    /\ tripCmd' = [tripCmd EXCEPT ![q].stage = "checked"]
    /\ UNCHANGED <<trip, rows, money, gates, calendar, diveLogs, bookingCmd, audited>>

\* check() in either transaction, on a request that already committed.
ReplayTripCmd(q) ==
    /\ InFlight(tripCmd[q])
    /\ tripCmd[q].request \in audited
    /\ tripCmd' = [tripCmd EXCEPT ![q] = IdleTripCmd]
    /\ UNCHANGED <<trip, rows, money, gates, calendar, diveLogs, bookingCmd, audited>>

\* A transaction of apply() throws: stale, not a transition, or not allowed to take effect.
RefuseTripCmd(q) ==
    LET c == tripCmd[q] IN
    /\ InFlight(c)
    /\ c.request \notin audited
    /\ ~TripAccepts(c) \/ (c.stage = "checked" /\ ~EffectAllowed(c))
    /\ tripCmd' = [tripCmd EXCEPT ![q] = [IdleTripCmd EXCEPT !.stage = "refused"]]
    /\ UNCHANGED <<trip, rows, money, gates, calendar, diveLogs, bookingCmd, audited>>

\* Closing and completing need the operational clearance or, while that rule is not enforced,
\* the readiness of the trip: assertValid() or assertReadinessWithoutClearance() between the two
\* transactions.  They do not look for the request, so a copy of a request that was committed
\* meanwhile is refused like any other.  What they read is an input here and they may refuse any
\* time; the revocation of a stale clearance that assertValid() records is among what they read.
\* assertCurrent() and assertReadinessUnchanged() of the second transaction refuse no more.
RefuseClearance(q) ==
    /\ tripCmd[q].stage = "checked"
    /\ tripCmd[q].action \in {"CLOSE", "COMPLETE"}
    /\ tripCmd' = [tripCmd EXCEPT ![q] = [IdleTripCmd EXCEPT !.stage = "refused"]]
    /\ UNCHANGED <<trip, rows, money, gates, calendar, diveLogs, bookingCmd, audited>>

\* Mutant of Dropped: a cancelled trip keeps its confirmed bookings.
DroppedPending(action) ==
    IF action \in {"CANCEL", "COMPLETE"} THEN Live \ Confirmed ELSE {}

\* Mutant of Dropped: a completed trip drops its confirmed bookings too.
DroppedLive(action) ==
    IF action \in {"CANCEL", "COMPLETE"} THEN Live ELSE {}

\* The bookings apply() cancels with the trip's new status.
Dropped(action) ==
    CASE action = "CANCEL" -> Live
      [] action = "COMPLETE" -> Live \ Confirmed
      [] OTHER -> {}

\* The second transaction: check() again, dive logs, bookings, calendar release, trip, audit.
\* The clearance it requires of CLOSE and COMPLETE can only refuse: RefuseClearance.
CommitTripCmd(q) ==
    LET c == tripCmd[q]
        ends == NextStatus(c.action) \in Terminal
        dropped == Dropped(c.action)
        written == {TripRow} \cup {Row(b) : b \in dropped} \cup (IF ends THEN {CalendarRow} ELSE {})
    IN
    /\ c.stage = "checked"
    /\ c.request \notin audited
    /\ TripAccepts(c)
    /\ EffectAllowed(c)
    /\ tripStatus' = NextStatus(c.action)
    /\ diveLogs' = diveLogs \cup c.attended
    /\ bookingStatus' = [b \in Bookings |-> IF b \in dropped THEN "CANCELLED" ELSE bookingStatus[b]]
    /\ allocated' = IF ends THEN {} ELSE allocated
    /\ event' = IF ends /\ event = "ACTIVE" THEN "INACTIVE" ELSE event
    /\ audited' = audited \cup {c.request}
    /\ tripCmd' = [AgedTripCmds(written) EXCEPT ![q] = IdleTripCmd]
    /\ bookingCmd' = AgedBookingCmds(written)
    /\ UNCHANGED <<clock, booker, seats, eligible, money, gates, offered>>

ResendTripCmd(q, p) ==
    /\ tripCmd[q].stage = "idle"
    /\ InFlight(tripCmd[p])
    /\ tripCmd' = [tripCmd EXCEPT ![q] = [tripCmd[p] EXCEPT !.stage = "shown"]]
    /\ UNCHANGED <<trip, rows, money, gates, calendar, diveLogs, bookingCmd, audited>>

\* The client got its refusal, gave up, or the process died before the second transaction.
DropTripCmd(q) ==
    /\ tripCmd[q].stage # "idle"
    /\ tripCmd' = [tripCmd EXCEPT ![q] = IdleTripCmd]
    /\ UNCHANGED <<trip, rows, money, gates, calendar, diveLogs, bookingCmd, audited>>

\* publish() of center-trip-management and marine-trip-management: one transaction.
PublishByOperator ==
    /\ tripStatus = "DRAFT" /\ clock = "BEFORE" /\ price # NONE
    /\ tripStatus' = "OPEN"
    /\ Wrote({TripRow})
    /\ UNCHANGED <<clock, rows, money, gates, calendar, diveLogs>>

-----------------------------------------------------------------------------
\* The decisions the two protocols depend on, each taken by another service.

\* trip-admin.service setPrice() finds no payment of the trip ...
CheckPrice(p) ==
    /\ repricing = NONE
    /\ p \in Nat
    /\ tripStatus \notin Terminal /\ clock = "BEFORE"
    /\ \A b \in Bookings : billed[b] = {}
    /\ repricing' = p
    /\ UNCHANGED <<trip, rows, price, quoted, billed, paid, gates, calendar, diveLogs, commands>>

\* ... and writes the price, in a statement of its own.
SetPrice ==
    /\ repricing # NONE
    /\ price' = repricing
    /\ repricing' = NONE
    /\ Wrote({PriceRow})
    /\ UNCHANGED <<trip, rows, quoted, billed, paid, gates, calendar, diveLogs>>

\* payments.service create() reads a live personal booking and the price ...
QuotePayment(b) ==
    /\ b \in Live /\ booker[b] \in Accounts
    /\ policy["payment"] # "DISABLED"
    /\ price # NONE /\ price # 0
    /\ quoted' = [quoted EXCEPT ![b] = @ \cup {AmountOf(b)}]
    /\ UNCHANGED <<trip, rows, price, repricing, billed, paid, gates, calendar, diveLogs, commands>>

\* ... and inserts the payment of that amount.
CreatePayment(b, a) ==
    /\ a \in quoted[b]
    /\ quoted' = [quoted EXCEPT ![b] = @ \ {a}]
    /\ billed' = [billed EXCEPT ![b] = @ \cup {a}]
    /\ Wrote({PaymentRows(b)})
    /\ UNCHANGED <<trip, rows, price, repricing, paid, gates, calendar, diveLogs>>

\* The provider reports the invoice paid, at any time after.
CapturePayment(b, a) ==
    /\ a \in billed[b] \ paid[b]
    /\ paid' = [paid EXCEPT ![b] = @ \cup {a}]
    /\ Wrote({PaymentRows(b)})
    /\ UNCHANGED <<trip, rows, price, repricing, quoted, billed, gates, calendar, diveLogs>>

\* The provider reports a captured payment refunded.
RefundPayment(b, a) ==
    /\ a \in paid[b]
    /\ paid' = [paid EXCEPT ![b] = @ \ {a}]
    /\ Wrote({PaymentRows(b)})
    /\ UNCHANGED <<trip, rows, price, repricing, quoted, billed, gates, calendar, diveLogs>>

\* safety.service assess(): a new checklist, deferred when an item fails.
AssessSafety(decision) ==
    /\ decision \in {"DEFERRED", "REVIEW_REQUIRED"}
    /\ safety' = [decision |-> decision, passed |-> decision = "REVIEW_REQUIRED"]
    /\ Wrote({SafetyRow})
    /\ UNCHANGED <<trip, rows, money, weatherBlocks, policy, calendar, diveLogs>>

\* safety-review.service decide() on the latest checklist.
DecideSafety(decision) ==
    /\ safety.decision # NONE
    /\ decision = "ALLOWED" => safety.passed
    /\ safety' = [safety EXCEPT !.decision = decision]
    /\ Wrote({SafetyRow})
    /\ UNCHANGED <<trip, rows, money, weatherBlocks, policy, calendar, diveLogs>>

\* trip-weather-review.service: a forecast is refreshed, reviewed or its location moves.
\* The refresh of a confirmation, between its two transactions, is this step too.
ReviewWeather(blocks) ==
    /\ weatherBlocks' = blocks
    /\ Wrote({WeatherRow})
    /\ UNCHANGED <<trip, rows, money, safety, policy, calendar, diveLogs>>

\* policy-control.service setState().
SetPolicy(rule, state) ==
    /\ policy' = [policy EXCEPT ![rule] = state]
    /\ UNCHANGED <<trip, rows, money, safety, weatherBlocks, calendar, diveLogs, commands>>

\* calendar-allocation.service allocate(): the event and its allocations are replaced.
Allocate(choice) ==
    /\ tripStatus \notin Terminal
    /\ event' = "ACTIVE"
    /\ allocated' = choice
    /\ Wrote({CalendarRow})
    /\ UNCHANGED <<trip, rows, money, gates, offered, diveLogs>>

\* Time passes the start and the end of the trip.
Start == /\ clock = "BEFORE"
         /\ clock' = "UNDERWAY"
         /\ UNCHANGED <<tripStatus, rows, money, gates, calendar, diveLogs, commands>>
End == /\ clock = "UNDERWAY"
       /\ clock' = "ENDED"
       /\ UNCHANGED <<tripStatus, rows, money, gates, calendar, diveLogs, commands>>

-----------------------------------------------------------------------------
Booking ==
    \/ \E a \in Accounts, b \in Bookings, n \in SeatNumbers : Book(a, b, n)
    \/ \E o \in Organizations, b \in Bookings, n \in SeatNumbers : BookForOrganization(o, b, n)

EditRoster ==
    \E b \in Bookings, i \in SeatNumbers :
       \/ UpdateForOwner(b, i)
       \/ UpdateForOrganization(b, i)
       \/ \E fit \in BOOLEAN : SetParticipantEligibility(b, i, fit)

ManageBooking ==
    \E q \in BookingCommands :
       \/ \E b \in Bookings, action \in {"CONFIRM", "CANCEL"} : ShowBooking(q, b, action)
       \/ AdmitBookingCmd(q)
       \/ ReplayBookingCmd(q)
       \/ RefuseBookingCmd(q)
       \/ CommitBookingCmd(q)
       \/ \E p \in BookingCommands : ResendBookingCmd(q, p)
       \/ DropBookingCmd(q)

ManageTrip ==
    \/ PublishByOperator
    \/ \E q \in TripCommands :
          \/ \E action \in Actions : ShowTrip(q, action)
          \/ AdmitTripCmd(q)
          \/ ReplayTripCmd(q)
          \/ RefuseTripCmd(q)
          \/ RefuseClearance(q)
          \/ CommitTripCmd(q)
          \/ \E p \in TripCommands : ResendTripCmd(q, p)
          \/ DropTripCmd(q)

Decide ==
    \/ \E p \in Prices : CheckPrice(p)
    \/ SetPrice
    \/ \E b \in Bookings :
          \/ QuotePayment(b)
          \/ \E a \in quoted[b] : CreatePayment(b, a)
          \/ \E a \in billed[b] : CapturePayment(b, a) \/ RefundPayment(b, a)
    \/ \E d \in SafetyDecisions : AssessSafety(d) \/ DecideSafety(d)
    \/ \E blocks \in WeatherStates : ReviewWeather(blocks)
    \/ \E rule \in PolicyRules : \E state \in PolicyStates[rule] : SetPolicy(rule, state)
    \/ \E choice \in AllocationChoices : Allocate(choice)

Next == Booking \/ EditRoster \/ ManageBooking \/ ManageTrip \/ Decide \/ Start \/ End

Spec == Init /\ [][Next]_vars

-----------------------------------------------------------------------------
\* What the trip promises.

\* The trip's own row, and where its calendar stands.
TripTypeOK ==
    /\ tripStatus \in TripStatus
    /\ clock \in {"BEFORE", "UNDERWAY", "ENDED"}
    /\ event \in {"NONE", "ACTIVE", "INACTIVE"}
    /\ allocated \subseteq Resources
    /\ offered \subseteq Resources
    /\ diveLogs \subseteq Bookings \X SeatNumbers

\* An eligible participant has a seat of the booking, and exactly the rows that exist
\* have a booker.
BookingsTypeOK ==
    /\ bookingStatus \in [Bookings -> BookingStatus]
    /\ booker \in [Bookings -> Bookers \cup {NONE}]
    /\ seats \in [Bookings -> 0..MaxSeats]
    /\ eligible \in [Bookings -> SUBSET SeatNumbers]
    /\ \A b \in Bookings : eligible[b] \subseteq Places(b)
    /\ \A b \in Bookings : b \in Existing <=> booker[b] # NONE

\* A captured payment is one of the booking's.
MoneyTypeOK ==
    /\ price \in Nat \cup {NONE}
    /\ repricing \in Nat \cup {NONE}
    /\ quoted \in [Bookings -> SUBSET Nat]
    /\ billed \in [Bookings -> SUBSET Nat]
    /\ paid \in [Bookings -> SUBSET Nat]
    /\ \A b \in Bookings : paid[b] \subseteq billed[b]

\* A policy takes only the states it may be set to.
GatesTypeOK ==
    /\ safety \in [decision : SafetyDecisions \cup {NONE}, passed : BOOLEAN]
    /\ weatherBlocks \in BOOLEAN
    /\ policy \in [PolicyRules -> PolicyState]
    /\ \A r \in PolicyRules : policy[r] \in PolicyStates[r]

\* A command in flight names its request, and a booking command its booking.
CommandsTypeOK ==
    /\ bookingCmd \in [BookingCommands -> BookingCmds]
    /\ tripCmd \in [TripCommands -> TripCmds]
    /\ audited \subseteq Requests
    /\ \A q \in BookingCommands : InFlight(bookingCmd[q]) =>
          bookingCmd[q].booking \in Bookings /\ bookingCmd[q].request \in Requests
    /\ \A q \in TripCommands : InFlight(tripCmd[q]) => tripCmd[q].request \in Requests

\* Every row and command keeps its type, through re-bookings, payments and retries.
TypeOK == /\ TripTypeOK /\ BookingsTypeOK /\ MoneyTypeOK /\ GatesTypeOK /\ CommandsTypeOK

\* While the capacity rule cannot be relaxed, bookings, re-bookings, confirmations and
\* cancellations in any order never hold more seats than the trip has.
CapacityGoverned == PolicyStates["capacity"] = {"ENABLED"}
NoOverbooking == CapacityGoverned => SeatsOf(Live) <= Capacity

\* An account, or an organization through any of its members, holds at most one live
\* booking of the trip, though nothing in the schema makes the pair unique.
OneLiveBookingPerBooker ==
    \A b, c \in Live : booker[b] = booker[c] => b = c

\* "Cancellation releases capacity and resources": a cancelled trip keeps no live booking
\* and no allocation, a completed one no pending booking and no allocation, whatever was
\* in flight when it ended.
EndedTripHoldsNothing ==
    /\ tripStatus = "CANCELLED" => Live = {}
    /\ tripStatus = "COMPLETED" => Live = Confirmed
    /\ tripStatus \in Terminal => allocated = {} /\ event # "ACTIVE"

\* Dive logs exist only for participants of confirmed bookings of a completed trip: no
\* cancellation or roster change after the attendance was shown lets another one in.
DiveLogsOfConfirmed ==
    /\ diveLogs # {} => tripStatus = "COMPLETED"
    /\ diveLogs \subseteq Participants(Confirmed)

\* A confirmation takes effect on exactly what the operator was shown: seats, roster,
\* payment, safety, weather, confirmed seats and rules, though other requests run between
\* the page and each of the two transactions.
ConfirmsWhatWasShown ==
    [][\A b \in Bookings :
          bookingStatus[b] = "PENDING" /\ bookingStatus'[b] = "CONFIRMED" =>
             \E q \in BookingCommands :
                /\ bookingCmd[q].stage = "checked"
                /\ bookingCmd[q].booking = b
                /\ bookingCmd[q].seen = BookingFacts(b)]_vars

\* A trip is cancelled or completed with exactly the bookings, confirmed rosters and
\* captured payments the operator was shown.
EndsWhatWasShown ==
    [][(tripStatus \notin Terminal /\ tripStatus' \in Terminal) =>
          \E q \in TripCommands :
             /\ tripCmd[q].stage = "checked"
             /\ tripCmd[q].seen = TripFacts]_vars

\* At the moment a booking is confirmed every rule that is enforced then is met, the trip
\* has not started, and an explicit deferral is never overridden by a relaxed rule.
ConfirmMeetsRules ==
    [][\A b \in Bookings :
          bookingStatus[b] # "CONFIRMED" /\ bookingStatus'[b] = "CONFIRMED" =>
             /\ clock = "BEFORE" /\ tripStatus \in {"OPEN", "CLOSED"}
             /\ safety.decision # "DEFERRED"
             /\ policy["safety"] = "ENABLED" => safety.decision = "ALLOWED"
             /\ policy["participant"] = "ENABLED" => eligible[b] = Places(b)
             /\ policy["payment"] = "ENABLED" => CapturedInFull(b)
             /\ policy["weather"] = "ENABLED" => ~weatherBlocks
             /\ policy["capacity"] = "ENABLED" => SeatsOf(Confirmed') <= Capacity]_vars

\* "Trip price cannot be changed after a payment has been created."
PriceHoldsOncePaid ==
    [][price' # price => \A b \in Bookings : billed[b] = {}]_vars

\* Once a trip is cancelled or completed neither its status nor that of any of its
\* bookings ever changes again.
EndedIsFinal ==
    [][(tripStatus \in Terminal) =>
          tripStatus' = tripStatus /\ bookingStatus' = bookingStatus]_vars

=============================================================================
