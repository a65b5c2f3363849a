------------------------- MODULE TripBooking_proofs --------------------------
(***************************************************************************)
(* Proofs about one trip and its seats: its types, on which the proofs     *)
(* about its commands rest as well; it is never overbooked while the       *)
(* capacity rule is enforced, no booker holds two live bookings, and what  *)
(* happens to its bookings are steps of the ledger of its seats.           *)
(***************************************************************************)
EXTENDS TripLedger, FiniteSetTheorems, TLAPS

-----------------------------------------------------------------------------
\* Commands.

\* Aging keeps every command of its type, with the booking and the request it names.
LEMMA AgedCommands ==
    ASSUME CommandsTypeOK, NEW W
    PROVE  /\ AgedBookingCmds(W) \in [BookingCommands -> BookingCmds]
           /\ AgedTripCmds(W) \in [TripCommands -> TripCmds]
           /\ \A q \in BookingCommands : InFlight(AgedBookingCmds(W)[q]) =>
                 /\ AgedBookingCmds(W)[q].booking \in Bookings
                 /\ AgedBookingCmds(W)[q].request \in Requests
           /\ \A q \in TripCommands : InFlight(AgedTripCmds(W)[q]) =>
                 AgedTripCmds(W)[q].request \in Requests
<1>1. ASSUME NEW c \in BookingCmds, NEW token
      PROVE  /\ Aged(c, token, W) \in BookingCmds
             /\ Aged(c, token, W).stage = c.stage
             /\ Aged(c, token, W).booking = c.booking
             /\ Aged(c, token, W).request = c.request
  BY DEF Aged, BookingCmds
<1>2. ASSUME NEW c \in TripCmds, NEW token
      PROVE  /\ Aged(c, token, W) \in TripCmds
             /\ Aged(c, token, W).stage = c.stage
             /\ Aged(c, token, W).request = c.request
  BY DEF Aged, TripCmds
<1> QED
  BY <1>1, <1>2 DEF CommandsTypeOK, AgedBookingCmds, AgedTripCmds, InFlight

\* Writing rows leaves every command of its type, in flight or not as before.
LEMMA WroteCommands ==
    ASSUME CommandsTypeOK, NEW W, Wrote(W)
    PROVE  CommandsTypeOK'
BY AgedCommands DEF CommandsTypeOK, Wrote

\* A part of the type invariant that no variable of changed still holds.
LEMMA FrameTypes ==
    ASSUME TypeOK
    PROVE  /\ UNCHANGED <<trip, calendar, diveLogs>> => TripTypeOK'
           /\ UNCHANGED rows => BookingsTypeOK'
           /\ UNCHANGED money => MoneyTypeOK'
           /\ UNCHANGED gates => GatesTypeOK'
           /\ UNCHANGED commands => CommandsTypeOK'
<1>1. UNCHANGED <<trip, calendar, diveLogs>> => TripTypeOK'
  BY DEF TypeOK, TripTypeOK, trip, calendar
<1>2. UNCHANGED rows => BookingsTypeOK'
  BY DEF TypeOK, BookingsTypeOK, rows, Places, Existing
<1>3. UNCHANGED money => MoneyTypeOK'
  BY DEF TypeOK, MoneyTypeOK, money
<1>4. UNCHANGED gates => GatesTypeOK'
  BY DEF TypeOK, GatesTypeOK, gates
<1>5. UNCHANGED commands => CommandsTypeOK'
  BY DEF TypeOK, CommandsTypeOK, commands
<1> QED
  BY <1>1, <1>2, <1>3, <1>4, <1>5

\* The number of seats of a set of bookings is a number: bookings and seats are finite.
LEMMA SeatsType ==
    ASSUME NEW S \in SUBSET Bookings
    PROVE  IsFiniteSet(Participants(S)) /\ SeatsOf(S) \in Nat
<1>1. IsFiniteSet(S)
  BY FS_Subset, CapacityAssumption
<1>2. IsFiniteSet(SeatNumbers)
  BY FS_Interval, CapacityAssumption DEF SeatNumbers
<1>3. IsFiniteSet(S \X SeatNumbers)
  BY <1>1, <1>2, FS_Product
<1>4. IsFiniteSet(Participants(S))
  BY <1>3, FS_Subset DEF Participants
<1> QED
  BY <1>4, FS_CardinalityType DEF SeatsOf

-----------------------------------------------------------------------------
\* Types, action by action.

\* Every initial state has its types.
LEMMA InitTypes == Init => TypeOK
<1> SUFFICES ASSUME Init PROVE TypeOK
  OBVIOUS
<1>1. TripTypeOK
  BY DEF Init, TripTypeOK, TripStatus
<1>2. BookingsTypeOK
  <2>1. \A b \in Bookings : {} \subseteq Places(b) /\ b \notin Existing
    BY DEF Init, Existing
  <2> QED
    BY <2>1, CapacityAssumption DEF Init, BookingsTypeOK, BookingStatus
<1>3. MoneyTypeOK
  BY ChoiceAssumption DEF Init, MoneyTypeOK
<1>4. GatesTypeOK
  BY ChoiceAssumption DEF Init, GatesTypeOK
<1>5. CommandsTypeOK
  <2>1. IdleBookingCmd \in BookingCmds /\ ~InFlight(IdleBookingCmd)
    BY DEF IdleBookingCmd, BookingCmds, Stages, InFlight
  <2>2. IdleTripCmd \in TripCmds /\ ~InFlight(IdleTripCmd)
    BY DEF IdleTripCmd, TripCmds, Stages, Actions, InFlight
  <2> QED
    BY <2>1, <2>2 DEF Init, CommandsTypeOK
<1> QED
  BY <1>1, <1>2, <1>3, <1>4, <1>5 DEF TypeOK

\* book() and bookForOrganization() write a row of the right type.
LEMMA PlaceBookingTypes ==
    ASSUME TypeOK, NEW b \in Bookings, NEW w \in Bookers, NEW n \in SeatNumbers,
           NEW fit \in {{}, {1}}, PlaceBooking(b, w, n, fit)
    PROVE  TypeOK'
<1>1. CommandsTypeOK'
  BY WroteCommands DEF TypeOK, PlaceBooking
<1>2. BookingsTypeOK'
  <2>1. n \in 1..MaxSeats /\ MaxSeats \in Nat /\ w # NONE /\ fit \subseteq SeatNumbers
    BY CapacityAssumption, BookerAssumption DEF SeatNumbers, Bookers
  <2>2. /\ bookingStatus' \in [Bookings -> BookingStatus]
        /\ booker' \in [Bookings -> Bookers \cup {NONE}]
        /\ seats' \in [Bookings -> 0..MaxSeats]
        /\ eligible' \in [Bookings -> SUBSET SeatNumbers]
    BY <2>1 DEF TypeOK, BookingsTypeOK, PlaceBooking, BookingStatus
  <2>3. ASSUME NEW c \in Bookings
        PROVE  eligible'[c] \subseteq Places(c)' /\ (c \in Existing' <=> booker'[c] # NONE)
    <3>1. CASE c = b
      <4>1. seats'[b] = n /\ eligible'[b] = fit /\ booker'[b] = w /\ bookingStatus'[b] = "PENDING"
        BY DEF TypeOK, BookingsTypeOK, PlaceBooking
      <4>2. \A i \in fit : i \in SeatNumbers /\ i <= n
        BY <2>1 DEF SeatNumbers
      <4> QED
        BY <2>1, <3>1, <4>1, <4>2 DEF Places, Existing
    <3>2. CASE c # b
      BY <3>2 DEF TypeOK, BookingsTypeOK, PlaceBooking, Places, Existing
    <3> QED
      BY <3>1, <3>2
  <2> QED
    BY <2>2, <2>3 DEF BookingsTypeOK
<1> QED
  BY <1>1, <1>2, FrameTypes DEF TypeOK, PlaceBooking

\* Editing the participants keeps the rosters within the seats.
LEMMA EditRosterTypes ==
    ASSUME TypeOK, EditRoster
    PROVE  TypeOK'
<1>1. PICK b \in Bookings, i \in SeatNumbers :
         \/ UpdateForOwner(b, i)
         \/ UpdateForOrganization(b, i)
         \/ \E fit \in BOOLEAN : SetParticipantEligibility(b, i, fit)
  BY DEF EditRoster
<1>2. /\ i \in Places(b)
      /\ eligible' \in {[eligible EXCEPT ![b] = @ \ {i}], [eligible EXCEPT ![b] = @ \cup {i}]}
      /\ Wrote({Roster(b)}) \/ Wrote({Row(b), Roster(b)})
      /\ UNCHANGED <<trip, bookingStatus, booker, seats, money, gates, calendar, diveLogs>>
  BY <1>1 DEF UpdateForOwner, UpdateForOrganization, SetParticipantEligibility
<1>3. CommandsTypeOK'
  BY <1>2, WroteCommands DEF TypeOK
<1>4. BookingsTypeOK'
  BY <1>2 DEF TypeOK, BookingsTypeOK, Places, Existing
<1> QED
  BY <1>2, <1>3, <1>4, FrameTypes DEF TypeOK

\* The facts a booking page shows are of the type a command keeps.
LEMMA ShownBookingType ==
    ASSUME TypeOK, NEW b \in Bookings
    PROVE  BookingFacts(b) \in ShownBookings
<1>1. SeatsOf(Confirmed) \in Nat
  BY SeatsType DEF Confirmed
<1>2. seats[b] \in Nat /\ eligible[b] \in SUBSET SeatNumbers
  BY CapacityAssumption DEF TypeOK, BookingsTypeOK
<1>3. CapturedInFull(b) \in BOOLEAN
  BY DEF CapturedInFull
<1>4. /\ safety.decision \in SafetyDecisions \cup {NONE}
      /\ weatherBlocks \in BOOLEAN
      /\ [r \in BookingRules |-> policy[r]] \in [BookingRules -> PolicyState]
  BY DEF TypeOK, GatesTypeOK, PolicyRules
<1> QED
  BY <1>1, <1>2, <1>3, <1>4 DEF BookingFacts, ShownBookings

\* So are the facts of a trip page.
LEMMA ShownTripType ==
    ASSUME TypeOK
    PROVE  TripFacts \in ShownTrips
BY DEF TypeOK, BookingsTypeOK, MoneyTypeOK, TripFacts, ShownTrips

\* Every stage of a booking command.
LEMMA ManageBookingTypes ==
    ASSUME TypeOK, NEW q \in BookingCommands,
           \/ \E b \in Bookings, action \in {"CONFIRM", "CANCEL"} : ShowBooking(q, b, action)
           \/ AdmitBookingCmd(q)
           \/ ReplayBookingCmd(q)
           \/ RefuseBookingCmd(q)
           \/ CommitBookingCmd(q)
           \/ \E p \in BookingCommands : ResendBookingCmd(q, p)
           \/ DropBookingCmd(q)
    PROVE  TypeOK'
<1>a. /\ IdleBookingCmd \in BookingCmds /\ ~InFlight(IdleBookingCmd)
      /\ [IdleBookingCmd EXCEPT !.stage = "refused"] \in BookingCmds
      /\ ~InFlight([IdleBookingCmd EXCEPT !.stage = "refused"])
  BY DEF IdleBookingCmd, BookingCmds, Stages, InFlight
<1>1. ASSUME NEW b \in Bookings, NEW action \in {"CONFIRM", "CANCEL"}, ShowBooking(q, b, action)
      PROVE  TypeOK'
  <2>1. PICK r \in Requests :
           /\ bookingCmd' = [bookingCmd EXCEPT ![q] =
                [stage |-> "shown", action |-> action, booking |-> b, request |-> r,
                 fresh |-> TRUE, seen |-> BookingFacts(b)]]
           /\ audited' = audited \ {r}
    BY <1>1 DEF ShowBooking, FreshRequests
  <2>2. [stage |-> "shown", action |-> action, booking |-> b, request |-> r,
         fresh |-> TRUE, seen |-> BookingFacts(b)] \in BookingCmds
    BY ShownBookingType DEF BookingCmds, Stages
  <2>3. CommandsTypeOK'
    BY <1>1, <2>1, <2>2 DEF TypeOK, CommandsTypeOK, ShowBooking
  <2> QED
    BY <1>1, <2>3, FrameTypes DEF TypeOK, ShowBooking
<1>2. ASSUME AdmitBookingCmd(q)
      PROVE  TypeOK'
  <2>1. CommandsTypeOK'
    BY <1>2 DEF TypeOK, CommandsTypeOK, AdmitBookingCmd, BookingCmds, Stages, InFlight
  <2> QED
    BY <1>2, <2>1, FrameTypes DEF TypeOK, AdmitBookingCmd
<1>3. ASSUME ReplayBookingCmd(q) \/ RefuseBookingCmd(q) \/ DropBookingCmd(q)
      PROVE  TypeOK'
  <2>1. CommandsTypeOK'
    BY <1>a, <1>3 DEF TypeOK, CommandsTypeOK, ReplayBookingCmd, RefuseBookingCmd, DropBookingCmd
  <2> QED
    BY <1>3, <2>1, FrameTypes
       DEF TypeOK, ReplayBookingCmd, RefuseBookingCmd, DropBookingCmd
<1>4. ASSUME CommitBookingCmd(q)
      PROVE  TypeOK'
  <2> DEFINE c == bookingCmd[q]
  <2>1. c.request \in Requests /\ c.booking \in Bookings /\ bookingStatus[c.booking] # "FREE"
    <3>1. InFlight(c)
      BY <1>4 DEF CommitBookingCmd, InFlight
    <3>2. bookingStatus[c.booking] # "FREE"
      BY <1>4 DEF CommitBookingCmd, BookingAccepts, Confirmable, Cancellable
    <3> QED
      BY <3>1, <3>2 DEF TypeOK, CommandsTypeOK
  <2>2. CommandsTypeOK'
    <3> DEFINE W == {Row(c.booking)}
    <3>1. /\ AgedBookingCmds(W) \in [BookingCommands -> BookingCmds]
          /\ \A p \in BookingCommands : InFlight(AgedBookingCmds(W)[p]) =>
                 /\ AgedBookingCmds(W)[p].booking \in Bookings
                 /\ AgedBookingCmds(W)[p].request \in Requests
      BY AgedCommands DEF TypeOK
    <3>2. /\ tripCmd' \in [TripCommands -> TripCmds]
          /\ \A p \in TripCommands : InFlight(tripCmd'[p]) => tripCmd'[p].request \in Requests
      BY <1>4, AgedCommands DEF TypeOK, CommitBookingCmd
    <3>3. bookingCmd' = [p \in BookingCommands |->
                            IF p = q THEN IdleBookingCmd ELSE AgedBookingCmds(W)[p]]
      BY <1>4 DEF CommitBookingCmd, AgedBookingCmds
    <3>4. audited' \subseteq Requests
      BY <1>4, <2>1 DEF TypeOK, CommandsTypeOK, CommitBookingCmd
    <3> QED
      BY <1>a, <3>1, <3>2, <3>3, <3>4 DEF CommandsTypeOK
  <2>3. BookingsTypeOK'
    BY <1>4, <2>1 DEF TypeOK, BookingsTypeOK, CommitBookingCmd, BookingStatus, Places, Existing
  <2>4. TripTypeOK'
    BY <1>4 DEF TypeOK, TripTypeOK, CommitBookingCmd, trip
  <2> QED
    BY <1>4, <2>2, <2>3, <2>4, FrameTypes DEF TypeOK, CommitBookingCmd
<1>5. ASSUME NEW p \in BookingCommands, ResendBookingCmd(q, p)
      PROVE  TypeOK'
  <2>1. CommandsTypeOK'
    BY <1>5 DEF TypeOK, CommandsTypeOK, ResendBookingCmd, BookingCmds, Stages, InFlight
  <2> QED
    BY <1>5, <2>1, FrameTypes DEF TypeOK, ResendBookingCmd
<1> QED
  BY <1>1, <1>2, <1>3, <1>4, <1>5

\* Every stage of a trip command.
LEMMA ManageTripTypes ==
    ASSUME TypeOK, ManageTrip
    PROVE  TypeOK'
<1>a. /\ IdleTripCmd \in TripCmds /\ ~InFlight(IdleTripCmd)
      /\ [IdleTripCmd EXCEPT !.stage = "refused"] \in TripCmds
      /\ ~InFlight([IdleTripCmd EXCEPT !.stage = "refused"])
  BY DEF IdleTripCmd, TripCmds, Stages, Actions, InFlight
<1>1. ASSUME PublishByOperator
      PROVE  TypeOK'
  <2>1. CommandsTypeOK'
    BY <1>1, WroteCommands DEF TypeOK, PublishByOperator
  <2>2. TripTypeOK'
    BY <1>1 DEF TypeOK, TripTypeOK, TripStatus, PublishByOperator, calendar
  <2> QED
    BY <1>1, <2>1, <2>2, FrameTypes DEF TypeOK, PublishByOperator
<1>2. ASSUME NEW q \in TripCommands, NEW action \in Actions, ShowTrip(q, action)
      PROVE  TypeOK'
  <2>0. Attendances(action) \subseteq SUBSET (Bookings \X SeatNumbers)
    <3>1. Participants(Confirmed) \subseteq Bookings \X SeatNumbers
      BY DEF Participants, Confirmed
    <3> QED
      BY <3>1 DEF Attendances
  <2>1. PICK r \in Requests, who \in SUBSET (Bookings \X SeatNumbers) :
           /\ tripCmd' = [tripCmd EXCEPT ![q] =
                [stage |-> "shown", action |-> action, attended |-> who, request |-> r,
                 fresh |-> TRUE, seen |-> TripFacts]]
           /\ audited' = audited \ {r}
    BY <1>2, <2>0 DEF ShowTrip, FreshRequests
  <2>2. [stage |-> "shown", action |-> action, attended |-> who, request |-> r,
         fresh |-> TRUE, seen |-> TripFacts] \in TripCmds
    BY ShownTripType DEF TripCmds, Stages
  <2>3. CommandsTypeOK'
    BY <1>2, <2>1, <2>2 DEF TypeOK, CommandsTypeOK, ShowTrip
  <2> QED
    BY <1>2, <2>3, FrameTypes DEF TypeOK, ShowTrip
<1>3. ASSUME NEW q \in TripCommands, AdmitTripCmd(q)
      PROVE  TypeOK'
  <2>1. CommandsTypeOK'
    BY <1>3 DEF TypeOK, CommandsTypeOK, AdmitTripCmd, TripCmds, Stages, InFlight
  <2> QED
    BY <1>3, <2>1, FrameTypes DEF TypeOK, AdmitTripCmd
<1>4. ASSUME NEW q \in TripCommands, ReplayTripCmd(q) \/ RefuseTripCmd(q) \/ RefuseClearance(q) \/ DropTripCmd(q)
      PROVE  TypeOK'
  <2>1. CommandsTypeOK'
    BY <1>a, <1>4 DEF TypeOK, CommandsTypeOK, ReplayTripCmd, RefuseTripCmd, RefuseClearance, DropTripCmd
  <2> QED
    BY <1>4, <2>1, FrameTypes DEF TypeOK, ReplayTripCmd, RefuseTripCmd, RefuseClearance, DropTripCmd
<1>5. ASSUME NEW q \in TripCommands, CommitTripCmd(q)
      PROVE  TypeOK'
  <2> DEFINE c == tripCmd[q]
             ends == NextStatus(c.action) \in Terminal
             W == {TripRow} \cup {Row(b) : b \in Dropped(c.action)}
                            \cup (IF ends THEN {CalendarRow} ELSE {})
  <2>1. /\ c \in TripCmds
        /\ c.action \in Actions
        /\ c.attended \subseteq Bookings \X SeatNumbers
        /\ c.request \in Requests
    <3>1. c \in TripCmds /\ InFlight(c)
      BY <1>5 DEF TypeOK, CommandsTypeOK, CommitTripCmd, InFlight
    <3> QED
      BY <3>1 DEF TypeOK, CommandsTypeOK, TripCmds
  <2>2. CommandsTypeOK'
    <3> HIDE DEF c, W
    <3>1. bookingCmd' = AgedBookingCmds(W) /\ audited' = audited \cup {c.request}
      BY <1>5 DEF CommitTripCmd, c, W
    <3>2. tripCmd' = [AgedTripCmds(W) EXCEPT ![q] = IdleTripCmd]
      BY <1>5 DEF CommitTripCmd, c, W
    <3>3. tripCmd' = [p \in TripCommands |-> IF p = q THEN IdleTripCmd ELSE AgedTripCmds(W)[p]]
      BY <3>2 DEF AgedTripCmds
    <3> QED
      BY <1>a, <2>1, <3>1, <3>3, AgedCommands DEF TypeOK, CommandsTypeOK
  <2>3. BookingsTypeOK'
    <3>1. Dropped(c.action) \subseteq Live
      BY <2>1 DEF Dropped, Actions
    <3>2. /\ bookingStatus' = [b \in Bookings |->
                 IF b \in Dropped(c.action) THEN "CANCELLED" ELSE bookingStatus[b]]
          /\ UNCHANGED <<booker, seats, eligible>>
      BY <1>5 DEF CommitTripCmd
    <3> QED
      BY <3>1, <3>2 DEF TypeOK, BookingsTypeOK, BookingStatus, Places, Existing, Live
  <2>4. TripTypeOK'
    <3>1. NextStatus(c.action) \in TripStatus
      BY <2>1 DEF NextStatus, Actions, TripStatus
    <3> QED
      BY <1>5, <2>1, <3>1 DEF TypeOK, TripTypeOK, CommitTripCmd
  <2> QED
    BY <1>5, <2>2, <2>3, <2>4, FrameTypes DEF TypeOK, CommitTripCmd
<1>6. ASSUME NEW q \in TripCommands, NEW p \in TripCommands, ResendTripCmd(q, p)
      PROVE  TypeOK'
  <2>1. CommandsTypeOK'
    BY <1>6 DEF TypeOK, CommandsTypeOK, ResendTripCmd, TripCmds, Stages, InFlight
  <2> QED
    BY <1>6, <2>1, FrameTypes DEF TypeOK, ResendTripCmd
<1> QED
  BY <1>1, <1>2, <1>3, <1>4, <1>5, <1>6 DEF ManageTrip

\* Prices, payments, safety, weather and policy decisions.
LEMMA DecideTypes ==
    ASSUME TypeOK, Decide
    PROVE  TypeOK'
<1>1. ASSUME NEW p \in Prices, CheckPrice(p)
      PROVE  TypeOK'
  BY <1>1, FrameTypes DEF TypeOK, MoneyTypeOK, CheckPrice
<1>2. ASSUME SetPrice
      PROVE  TypeOK'
  BY <1>2, FrameTypes, WroteCommands DEF TypeOK, MoneyTypeOK, SetPrice
<1>3. ASSUME NEW b \in Bookings, QuotePayment(b)
      PROVE  TypeOK'
  <2>1. AmountOf(b) \in Nat
    BY <1>3, CapacityAssumption DEF TypeOK, MoneyTypeOK, BookingsTypeOK, QuotePayment, AmountOf
  <2> QED
    BY <1>3, <2>1, FrameTypes DEF TypeOK, MoneyTypeOK, QuotePayment
<1>4. ASSUME NEW b \in Bookings, NEW a \in quoted[b], CreatePayment(b, a)
      PROVE  TypeOK'
  BY <1>4, FrameTypes, WroteCommands DEF TypeOK, MoneyTypeOK, CreatePayment
<1>5. ASSUME NEW b \in Bookings, NEW a \in billed[b], CapturePayment(b, a) \/ RefundPayment(b, a)
      PROVE  TypeOK'
  <2>1. /\ paid' \in {[paid EXCEPT ![b] = @ \cup {a}], [paid EXCEPT ![b] = @ \ {a}]}
        /\ UNCHANGED <<price, repricing, quoted, billed>>
    BY <1>5 DEF CapturePayment, RefundPayment
  <2>2. MoneyTypeOK'
    BY <2>1 DEF TypeOK, MoneyTypeOK
  <2> QED
    BY <1>5, <2>2, FrameTypes, WroteCommands DEF TypeOK, CapturePayment, RefundPayment
<1>6. ASSUME NEW d \in SafetyDecisions, AssessSafety(d) \/ DecideSafety(d)
      PROVE  TypeOK'
  <2>1. GatesTypeOK'
    <3>1. CASE AssessSafety(d)
      BY <3>1 DEF TypeOK, GatesTypeOK, AssessSafety
    <3>2. CASE DecideSafety(d)
      <4>1. safety' = [decision |-> d, passed |-> safety.passed]
        BY <3>2 DEF TypeOK, GatesTypeOK, DecideSafety
      <4> QED
        BY <3>2, <4>1 DEF TypeOK, GatesTypeOK, DecideSafety
    <3> QED
      BY <1>6, <3>1, <3>2
  <2> QED
    BY <1>6, <2>1, FrameTypes, WroteCommands DEF TypeOK, AssessSafety, DecideSafety
<1>7. ASSUME NEW blocks \in WeatherStates, ReviewWeather(blocks)
      PROVE  TypeOK'
  BY <1>7, FrameTypes, WroteCommands, ChoiceAssumption DEF TypeOK, GatesTypeOK, ReviewWeather
<1>8. ASSUME NEW rule \in PolicyRules, NEW state \in PolicyStates[rule], SetPolicy(rule, state)
      PROVE  TypeOK'
  <2>1. state \in PolicyState
    BY PolicyAssumption
  <2>2. GatesTypeOK'
    BY <1>8, <2>1 DEF TypeOK, GatesTypeOK, SetPolicy
  <2> QED
    BY <1>8, <2>2, FrameTypes DEF TypeOK, SetPolicy
<1>9. ASSUME NEW choice \in AllocationChoices, Allocate(choice)
      PROVE  TypeOK'
  <2>1. TripTypeOK'
    BY <1>9, ChoiceAssumption DEF TypeOK, TripTypeOK, Allocate, trip
  <2> QED
    BY <1>9, <2>1, FrameTypes, WroteCommands DEF TypeOK, Allocate
<1> QED
  BY <1>1, <1>2, <1>3, <1>4, <1>5, <1>6, <1>7, <1>8, <1>9 DEF Decide

\* Every step of the specification keeps the types.
LEMMA NextTypes == TypeOK /\ [Next]_vars => TypeOK'
<1> SUFFICES ASSUME TypeOK, [Next]_vars PROVE TypeOK'
  OBVIOUS
<1>1. CASE Booking
  <2>1. ASSUME NEW a \in Accounts, NEW b \in Bookings, NEW n \in SeatNumbers, Book(a, b, n)
        PROVE  TypeOK'
    BY <2>1, PlaceBookingTypes DEF Book, Bookers
  <2>2. ASSUME NEW o \in Organizations, NEW b \in Bookings, NEW n \in SeatNumbers,
               BookForOrganization(o, b, n)
        PROVE  TypeOK'
    BY <2>2, PlaceBookingTypes DEF BookForOrganization, Bookers
  <2> QED
    BY <1>1, <2>1, <2>2 DEF Booking
<1>2. CASE EditRoster
  BY <1>2, EditRosterTypes
<1>3. CASE ManageBooking
  BY <1>3, ManageBookingTypes DEF ManageBooking
<1>4. CASE ManageTrip
  BY <1>4, ManageTripTypes
<1>5. CASE Decide
  BY <1>5, DecideTypes
<1>6. CASE Start \/ End
  <2>1. TripTypeOK'
    BY <1>6 DEF TypeOK, TripTypeOK, Start, End, calendar
  <2> QED
    BY <1>6, <2>1, FrameTypes DEF TypeOK, Start, End
<1>7. CASE UNCHANGED vars
  BY <1>7, FrameTypes DEF TypeOK, vars, trip, rows, money, gates, calendar, commands
<1> QED
  BY <1>1, <1>2, <1>3, <1>4, <1>5, <1>6, <1>7 DEF Next

\* Every row and every command of a trip keeps its type, whatever the number of bookings,
\* commands, requests and resources.
THEOREM TypeInvariant == Spec => []TypeOK
<1>1. Init => TypeOK
  BY InitTypes
<1>2. TypeOK /\ [Next]_vars => TypeOK'
  BY NextTypes
<1> QED
  BY <1>1, <1>2, PTL DEF Spec

-----------------------------------------------------------------------------
\* A booking becomes confirmed by the commit of a confirmation of it, and no other way.
LEMMA ConfirmSteps ==
    ASSUME TypeOK, [Next]_vars, NEW b \in Bookings,
           bookingStatus[b] # "CONFIRMED", bookingStatus'[b] = "CONFIRMED"
    PROVE  \E q \in BookingCommands :
              /\ CommitBookingCmd(q)
              /\ bookingCmd[q].booking = b
              /\ bookingCmd[q].action = "CONFIRM"
<1>1. bookingStatus \in [Bookings -> BookingStatus]
  BY DEF TypeOK, BookingsTypeOK
<1>2. ~Booking
  BY <1>1 DEF Booking, Book, BookForOrganization, PlaceBooking
<1>3. ~EditRoster
  BY DEF EditRoster, UpdateForOwner, UpdateForOrganization, SetParticipantEligibility
<1>4. ~ManageTrip
  BY DEF ManageTrip, PublishByOperator, ShowTrip, AdmitTripCmd, ReplayTripCmd, RefuseTripCmd,
         RefuseClearance, CommitTripCmd, ResendTripCmd, DropTripCmd, rows
<1>5. ~Decide
  BY DEF Decide, CheckPrice, SetPrice, QuotePayment, CreatePayment, CapturePayment,
         RefundPayment, AssessSafety, DecideSafety, ReviewWeather, SetPolicy, Allocate, rows
<1>6. ~(Start \/ End \/ UNCHANGED vars)
  BY DEF Start, End, vars, rows
<1>7. PICK q \in BookingCommands : CommitBookingCmd(q)
  BY <1>2, <1>3, <1>4, <1>5, <1>6
     DEF Next, ManageBooking, ShowBooking, AdmitBookingCmd, ReplayBookingCmd, RefuseBookingCmd,
         ResendBookingCmd, DropBookingCmd, rows
<1>8. bookingStatus' = [bookingStatus EXCEPT ![bookingCmd[q].booking] =
                            IF bookingCmd[q].action = "CONFIRM" THEN "CONFIRMED" ELSE "CANCELLED"]
  BY <1>7 DEF CommitBookingCmd
<1> QED
  BY <1>1, <1>7, <1>8

-----------------------------------------------------------------------------
\* What a step does to the booking rows: it places one booking, or it only moves live
\* bookings forward.

OnlyMovesOn ==
    /\ UNCHANGED <<booker, seats>>
    /\ \A b \in Bookings :
          \/ bookingStatus'[b] = bookingStatus[b]
          \/ b \in Live /\ bookingStatus'[b] = "CANCELLED"
          \/ bookingStatus[b] = "PENDING" /\ bookingStatus'[b] = "CONFIRMED"

\* A step books, or moves existing bookings on without taking seats.
LEMMA RowSteps ==
    ASSUME TypeOK, [Next]_vars
    PROVE  \/ \E a \in Accounts, b \in Bookings, n \in SeatNumbers : Book(a, b, n)
           \/ \E o \in Organizations, b \in Bookings, n \in SeatNumbers : BookForOrganization(o, b, n)
           \/ OnlyMovesOn
<1>1. CASE UNCHANGED <<bookingStatus, booker, seats>>
  BY <1>1 DEF OnlyMovesOn
<1>2. CASE Booking
  BY <1>2 DEF Booking
<1>3. CASE EditRoster
  BY <1>1, <1>3 DEF EditRoster, UpdateForOwner, UpdateForOrganization, SetParticipantEligibility
<1>4. ASSUME NEW q \in BookingCommands, CommitBookingCmd(q)
      PROVE  OnlyMovesOn
  <2> DEFINE c == bookingCmd[q]
  <2>1. /\ UNCHANGED <<booker, seats>>
        /\ bookingStatus' = [bookingStatus EXCEPT ![c.booking] =
                                IF c.action = "CONFIRM" THEN "CONFIRMED" ELSE "CANCELLED"]
        /\ c.action = "CONFIRM" => bookingStatus[c.booking] = "PENDING"
        /\ c.action # "CONFIRM" => bookingStatus[c.booking] \in {"PENDING", "CONFIRMED"}
    BY <1>4 DEF CommitBookingCmd, BookingAccepts, Confirmable, Cancellable
  <2> HIDE DEF c
  <2> QED
    BY <2>1 DEF OnlyMovesOn, TypeOK, BookingsTypeOK, Live
<1>5. CASE ManageBooking
  BY <1>1, <1>4, <1>5
     DEF ManageBooking, ShowBooking, AdmitBookingCmd, ReplayBookingCmd, RefuseBookingCmd,
         ResendBookingCmd, DropBookingCmd, rows
<1>6. ASSUME NEW q \in TripCommands, CommitTripCmd(q)
      PROVE  OnlyMovesOn
  <2> DEFINE D == Dropped(tripCmd[q].action)
  <2>1. /\ UNCHANGED <<booker, seats>>
        /\ bookingStatus' = [b \in Bookings |-> IF b \in D THEN "CANCELLED" ELSE bookingStatus[b]]
    BY <1>6 DEF CommitTripCmd
  <2>2. D \subseteq Live
    <3>1. tripCmd[q].action \in Actions
      BY DEF TypeOK, CommandsTypeOK, TripCmds
    <3> QED
      BY <3>1 DEF Dropped, Actions
  <2> HIDE DEF D
  <2> QED
    BY <2>1, <2>2 DEF OnlyMovesOn
<1>7. CASE ManageTrip
  BY <1>1, <1>6, <1>7
     DEF ManageTrip, PublishByOperator, ShowTrip, AdmitTripCmd, ReplayTripCmd, RefuseTripCmd,
         RefuseClearance, ResendTripCmd, DropTripCmd, rows
<1>8. CASE Decide
  BY <1>1, <1>8
     DEF Decide, CheckPrice, SetPrice, QuotePayment, CreatePayment, CapturePayment, RefundPayment,
         AssessSafety, DecideSafety, ReviewWeather, SetPolicy, Allocate, rows
<1>9. CASE Start \/ End \/ UNCHANGED vars
  BY <1>1, <1>9 DEF Start, End, vars, rows
<1> QED
  BY <1>2, <1>3, <1>5, <1>7, <1>8, <1>9 DEF Next

-----------------------------------------------------------------------------
\* Capacity.

\* Placing a booking for n seats on a row that is not live adds at most n seats.
LEMMA PlacedSeats ==
    ASSUME TypeOK, NEW b \in Bookings, b \notin Live, NEW n \in SeatNumbers,
           bookingStatus' = [bookingStatus EXCEPT ![b] = "PENDING"],
           seats' = [seats EXCEPT ![b] = n]
    PROVE  SeatsOf(Live)' \in Nat /\ SeatsOf(Live)' <= SeatsOf(Live) + n
<1> DEFINE P == Participants(Live)
           N == {b} \X (1..n)
<1>1. n \in Nat /\ 1..n \subseteq SeatNumbers
  BY CapacityAssumption DEF SeatNumbers
<1>2. IsFiniteSet(N) /\ Cardinality(N) = n
  <2>1. IsFiniteSet(1..n) /\ Cardinality(1..n) = n
    BY <1>1, FS_Interval
  <2>2. IsFiniteSet({b}) /\ Cardinality({b}) = 1
    BY FS_Singleton
  <2> QED
    BY <1>1, <2>1, <2>2, FS_Product
<1>3. IsFiniteSet(P) /\ Cardinality(P) \in Nat
  BY SeatsType DEF Live, SeatsOf
<1>4. IsFiniteSet(P \cup N) /\ Cardinality(P \cup N) <= Cardinality(P) + n
  <2>1. /\ IsFiniteSet(P \cup N)
        /\ Cardinality(P \cup N) = Cardinality(P) + Cardinality(N) - Cardinality(P \cap N)
    BY <1>2, <1>3, FS_Union
  <2>2. Cardinality(P \cap N) \in Nat
    <3>1. IsFiniteSet(P \cap N)
      BY <1>2, FS_Subset
    <3> QED
      BY <3>1, FS_CardinalityType
  <2> QED
    BY <1>1, <1>2, <1>3, <2>1, <2>2
<1>5. Participants(Live)' \subseteq P \cup N
  <2> SUFFICES ASSUME NEW p \in Participants(Live)' PROVE p \in P \cup N
    OBVIOUS
  <2>1. p[1] \in Live' /\ p[2] \in SeatNumbers /\ p = <<p[1], p[2]>> /\ p[2] <= seats'[p[1]]
    BY DEF Participants
  <2>2. CASE p[1] = b
    BY <1>1, <2>1, <2>2 DEF TypeOK, BookingsTypeOK, SeatNumbers
  <2>3. CASE p[1] # b
    BY <2>1, <2>3 DEF TypeOK, BookingsTypeOK, Participants, Live
  <2> QED
    BY <2>2, <2>3
<1>6. Cardinality(Participants(Live)') <= Cardinality(P \cup N)
  BY <1>4, <1>5, FS_Subset
<1>7. Cardinality(Participants(Live)') \in Nat /\ Cardinality(P \cup N) \in Nat
  BY <1>4, <1>5, FS_Subset, FS_CardinalityType
<1> QED
  BY <1>1, <1>3, <1>4, <1>6, <1>7 DEF SeatsOf

\* Bookings that only move on hold no more seats than before.
LEMMA MovedSeats ==
    ASSUME TypeOK, OnlyMovesOn
    PROVE  SeatsOf(Live)' \in Nat /\ SeatsOf(Live)' <= SeatsOf(Live)
<1>1. Participants(Live)' \subseteq Participants(Live)
  BY DEF OnlyMovesOn, Participants, Live
<1>2. IsFiniteSet(Participants(Live))
  BY SeatsType DEF Live
<1>3. IsFiniteSet(Participants(Live)') /\ Cardinality(Participants(Live)') <= Cardinality(Participants(Live))
  BY <1>1, <1>2, FS_Subset
<1> QED
  BY <1>3, FS_CardinalityType DEF SeatsOf

\* Booking checks the seats of all live bookings against the capacity.
LEMMA CapacityStep ==
    ASSUME TypeOK, [Next]_vars, NoOverbooking
    PROVE  NoOverbooking'
<1> SUFFICES ASSUME CapacityGoverned PROVE SeatsOf(Live)' <= Capacity
  BY DEF NoOverbooking, CapacityGoverned
<1>1. SeatsOf(Live) <= Capacity
  BY DEF NoOverbooking
<1>2. policy["capacity"] = "ENABLED"
  BY DEF TypeOK, GatesTypeOK, CapacityGoverned, PolicyRules, BookingRules
<1>3. SeatsOf(Live) \in Nat
  BY SeatsType DEF Live
<1>4. ASSUME NEW b \in Bookings, b \notin Live, NEW n \in SeatNumbers, NEW w, NEW fit,
             BookingGates(n), PlaceBooking(b, w, n, fit)
      PROVE  SeatsOf(Live)' <= Capacity
  <2>1. SeatsOf(Live) + n <= Capacity
    BY <1>2, <1>4 DEF BookingGates, Passes
  <2>2. SeatsOf(Live)' \in Nat /\ SeatsOf(Live)' <= SeatsOf(Live) + n
    BY <1>4, PlacedSeats DEF PlaceBooking
  <2>3. n \in Nat
    BY CapacityAssumption DEF SeatNumbers
  <2> QED
    BY <1>3, <2>1, <2>2, <2>3, CapacityAssumption
<1>5. ASSUME NEW a \in Accounts, NEW b \in Bookings, NEW n \in SeatNumbers, Book(a, b, n)
      PROVE  SeatsOf(Live)' <= Capacity
  <2>1. b \notin Live
    BY <1>5 DEF Book, Existing, Live
  <2>2. PICK fit \in {{}, {1}} : BookingGates(n) /\ PlaceBooking(b, a, n, fit)
    BY <1>5 DEF Book
  <2> QED
    BY <1>4, <2>1, <2>2
<1>6. ASSUME NEW o \in Organizations, NEW b \in Bookings, NEW n \in SeatNumbers,
             BookForOrganization(o, b, n)
      PROVE  SeatsOf(Live)' <= Capacity
  <2>1. b \notin Live
    BY <1>6 DEF BookForOrganization, Existing, Live
  <2> QED
    BY <1>4, <1>6, <2>1 DEF BookForOrganization
<1>7. CASE OnlyMovesOn
  BY <1>1, <1>3, <1>7, MovedSeats, CapacityAssumption
<1> QED
  BY <1>5, <1>6, <1>7, RowSteps

\* A trip whose capacity rule is never relaxed is never overbooked: trips.service counts
\* every live booking's seats, pending ones included, in the transaction that adds some.
THEOREM NeverOverbooked == Spec => []NoOverbooking
<1>1. Init => NoOverbooking
  <2> SUFFICES ASSUME Init PROVE SeatsOf(Live) <= Capacity
    BY DEF NoOverbooking
  <2>1. Participants(Live) = {}
    BY DEF Init, Participants, Live
  <2>2. SeatsOf(Live) = 0
    BY <2>1, FS_EmptySet DEF SeatsOf
  <2> QED
    BY <2>2, CapacityAssumption
<1> QED
  BY <1>1, CapacityStep, TypeInvariant, PTL DEF Spec

-----------------------------------------------------------------------------
\* One live booking per booker.

\* What makes it inductive: an account's cancelled bookings count too, since book() looks
\* for any row of the account and takes the one it finds.
OneRowPerAccount ==
    \A b, c \in Existing : booker[b] \in Accounts /\ booker[b] = booker[c] => b = c

OneEach == OneRowPerAccount /\ OneLiveBookingPerBooker

\* A booker without another live booking may be given one.
LEMMA BookedOnce ==
    ASSUME TypeOK, OneEach, NEW b \in Bookings, NEW w \in Bookers, NEW n, NEW fit,
           PlaceBooking(b, w, n, fit),
           \A c \in Live : booker[c] = w => c = b,
           w \in Accounts => \A c \in Existing : booker[c] = w => c = b
    PROVE  OneEach'
<1>1. /\ bookingStatus' = [bookingStatus EXCEPT ![b] = "PENDING"]
      /\ booker' = [booker EXCEPT ![b] = w]
      /\ bookingStatus \in [Bookings -> BookingStatus]
      /\ booker \in [Bookings -> Bookers \cup {NONE}]
  BY DEF PlaceBooking, TypeOK, BookingsTypeOK
<1>2. \A c \in Bookings : c # b => /\ bookingStatus'[c] = bookingStatus[c]
                                   /\ booker'[c] = booker[c]
  BY <1>1
<1>3. booker'[b] = w
  BY <1>1
<1>4. OneRowPerAccount'
  BY <1>2, <1>3 DEF OneEach, OneRowPerAccount, Existing
<1>5. OneLiveBookingPerBooker'
  BY <1>2, <1>3 DEF OneEach, OneLiveBookingPerBooker, Live
<1> QED
  BY <1>4, <1>5 DEF OneEach

\* Every step keeps a booker to one live booking and an account to one row.
LEMMA OneEachStep ==
    ASSUME TypeOK, [Next]_vars, OneEach
    PROVE  OneEach'
<1>1. ASSUME NEW a \in Accounts, NEW b \in Bookings, NEW n \in SeatNumbers, Book(a, b, n)
      PROVE  OneEach'
  <2>1. \A c \in Existing : booker[c] = a => c = b
    BY <1>1 DEF Book, RowsOf, OneEach, OneRowPerAccount
  <2>2. Live \subseteq Existing
    BY DEF Live, Existing
  <2>3. PICK fit \in {{}, {1}} : PlaceBooking(b, a, n, fit)
    BY <1>1 DEF Book
  <2> QED
    BY <2>1, <2>2, <2>3, BookedOnce DEF Bookers
<1>2. ASSUME NEW o \in Organizations, NEW b \in Bookings, NEW n \in SeatNumbers,
             BookForOrganization(o, b, n)
      PROVE  OneEach'
  <2>1. \A c \in Live : booker[c] = o => c = b
    BY <1>2 DEF BookForOrganization, RowsOf, Live, Existing
  <2>2. o \notin Accounts
    BY BookerAssumption
  <2> QED
    BY <1>2, <2>1, <2>2, BookedOnce DEF Bookers, BookForOrganization
<1>3. CASE OnlyMovesOn
  <2>1. booker' = booker /\ Live' \subseteq Live /\ Existing' \subseteq Existing
    BY <1>3 DEF OnlyMovesOn, Live, Existing
  <2> QED
    BY <2>1 DEF OneEach, OneRowPerAccount, OneLiveBookingPerBooker
<1> QED
  BY <1>1, <1>2, <1>3, RowSteps

\* Nobody books a trip twice: trips.service looks for the booker's other bookings in the
\* transaction that creates one, and only that keeps two rows of one booker apart.
THEOREM OneBookingEach == Spec => []OneLiveBookingPerBooker
<1>1. Init => OneEach
  BY DEF Init, OneEach, OneRowPerAccount, OneLiveBookingPerBooker, Existing, Live
<1>2. OneEach => OneLiveBookingPerBooker
  BY DEF OneEach
<1> QED
  BY <1>1, <1>2, OneEachStep, TypeInvariant, PTL DEF Spec

-----------------------------------------------------------------------------
\* What holds at a confirmation.

\* One more booking adds at most its seats.
LEMMA OneMoreBooking ==
    ASSUME TypeOK, NEW S \in SUBSET Bookings, NEW b \in Bookings
    PROVE  SeatsOf(S \cup {b}) <= SeatsOf(S) + seats[b]
<1>1. PICK n \in Nat : n = seats[b] /\ n <= MaxSeats
  BY CapacityAssumption DEF TypeOK, BookingsTypeOK
<1> DEFINE P == Participants(S)
           N == {b} \X (1..n)
<1>2. IsFiniteSet(N) /\ Cardinality(N) = n
  <2>1. IsFiniteSet(1..n) /\ Cardinality(1..n) = n
    <3>1. 1 \in Int /\ n \in Int /\ (1 > n => n = 0) /\ n - 1 + 1 = n
      OBVIOUS
    <3> QED
      BY <3>1, FS_Interval
  <2>2. IsFiniteSet({b}) /\ Cardinality({b}) = 1
    BY FS_Singleton
  <2>3. Cardinality(N) = 1 * n /\ IsFiniteSet(N)
    BY <2>1, <2>2, FS_Product
  <2> QED
    BY <2>3
<1>3. IsFiniteSet(P) /\ Cardinality(P) \in Nat
  BY SeatsType DEF SeatsOf
<1>4. IsFiniteSet(P \cup N) /\ Cardinality(P \cup N) <= Cardinality(P) + n
  <2>1. /\ IsFiniteSet(P \cup N)
        /\ Cardinality(P \cup N) = Cardinality(P) + Cardinality(N) - Cardinality(P \cap N)
    BY <1>2, <1>3, FS_Union
  <2>2. Cardinality(P \cap N) \in Nat
    <3>1. IsFiniteSet(P \cap N)
      BY <1>2, FS_Subset
    <3> QED
      BY <3>1, FS_CardinalityType
  <2> QED
    BY <1>1, <1>2, <1>3, <2>1, <2>2
<1>5. Participants(S \cup {b}) \subseteq P \cup N
  <2> SUFFICES ASSUME NEW p \in Participants(S \cup {b}) PROVE p \in P \cup N
    OBVIOUS
  <2>1. p[1] \in S \cup {b} /\ p[2] \in SeatNumbers /\ p = <<p[1], p[2]>> /\ p[2] <= seats[p[1]]
    BY DEF Participants
  <2>2. CASE p[1] = b
    BY <1>1, <2>1, <2>2, CapacityAssumption DEF SeatNumbers
  <2>3. CASE p[1] \in S
    BY <2>1, <2>3 DEF Participants
  <2> QED
    BY <2>1, <2>2, <2>3
<1>6. Cardinality(Participants(S \cup {b})) <= Cardinality(P \cup N)
  BY <1>4, <1>5, FS_Subset
<1>7. Cardinality(Participants(S \cup {b})) \in Nat /\ Cardinality(P \cup N) \in Nat
  BY <1>4, <1>5, FS_Subset, FS_CardinalityType
<1> QED
  BY <1>1, <1>3, <1>4, <1>6, <1>7 DEF SeatsOf

\* booking-management.service: check() runs again in the transaction that confirms, so a
\* rule enforced at that moment is met at that moment, whatever it was on the page.
THEOREM ConfirmedByRules == Spec => ConfirmMeetsRules
<1>1. ASSUME TypeOK, [Next]_vars, NEW b \in Bookings,
             bookingStatus[b] # "CONFIRMED", bookingStatus'[b] = "CONFIRMED"
      PROVE  /\ clock = "BEFORE" /\ tripStatus \in {"OPEN", "CLOSED"}
             /\ safety.decision # "DEFERRED"
             /\ policy["safety"] = "ENABLED" => safety.decision = "ALLOWED"
             /\ policy["participant"] = "ENABLED" => eligible[b] = Places(b)
             /\ policy["payment"] = "ENABLED" => CapturedInFull(b)
             /\ policy["weather"] = "ENABLED" => ~weatherBlocks
             /\ policy["capacity"] = "ENABLED" => SeatsOf(Confirmed') <= Capacity
  <2>1. PICK q \in BookingCommands : /\ CommitBookingCmd(q)
                                     /\ bookingCmd[q].booking = b
                                     /\ bookingCmd[q].action = "CONFIRM"
    BY <1>1, ConfirmSteps
  <2>2. Confirmable(b)
    BY <2>1 DEF CommitBookingCmd, BookingAccepts
  <2>3. Confirmed' = Confirmed \cup {b}
    BY <1>1, <2>1 DEF CommitBookingCmd, Confirmed, TypeOK, BookingsTypeOK
  <2>4. policy["capacity"] = "ENABLED" => SeatsOf(Confirmed') <= Capacity
    <3>1. SeatsOf(Confirmed') <= SeatsOf(Confirmed) + seats[b]
      BY <1>1, <2>3, OneMoreBooking DEF Confirmed
    <3>2. SeatsOf(Confirmed') \in Nat /\ SeatsOf(Confirmed) \in Nat
      BY <2>3, SeatsType DEF Confirmed
    <3>3. seats[b] \in Nat
      BY <1>1, CapacityAssumption DEF TypeOK, BookingsTypeOK
    <3> QED
      BY <2>2, <3>1, <3>2, <3>3, CapacityAssumption DEF Confirmable, Passes
  <2> QED
    BY <2>2, <2>4 DEF Confirmable, Passes
<1>2. TypeOK /\ [Next]_vars =>
        [\A b \in Bookings :
          bookingStatus[b] # "CONFIRMED" /\ bookingStatus'[b] = "CONFIRMED" =>
             /\ clock = "BEFORE" /\ tripStatus \in {"OPEN", "CLOSED"}
             /\ safety.decision # "DEFERRED"
             /\ policy["safety"] = "ENABLED" => safety.decision = "ALLOWED"
             /\ policy["participant"] = "ENABLED" => eligible[b] = Places(b)
             /\ policy["payment"] = "ENABLED" => CapturedInFull(b)
             /\ policy["weather"] = "ENABLED" => ~weatherBlocks
             /\ policy["capacity"] = "ENABLED" => SeatsOf(Confirmed') <= Capacity]_vars
  BY <1>1
<1> QED
  BY <1>2, TypeInvariant, PTL DEF Spec, ConfirmMeetsRules


-----------------------------------------------------------------------------
\* The ledger counts the seats the capacity rule counts.

\* The ledger counts as the bookings do.
LEMMA SameCardinality ==
    ASSUME NEW S
    PROVE  Ledger!Cardinality(S) = Cardinality(S)
BY DEF Ledger!Cardinality, Cardinality

\* The seats taken in the ledger are those of the live bookings.
LEMMA TotalIsSeats == TypeOK => Ledger!Total(Held) = SeatsOf(Live)
<1> SUFFICES ASSUME TypeOK PROVE Ledger!Total(Held) = SeatsOf(Live)
  OBVIOUS
<1>1. {p \in Bookings \X (1..MaxSeats) : p[2] <= Held[p[1]]} = Participants(Live)
  <2>1. ASSUME NEW b \in Bookings, NEW i \in 1..MaxSeats
        PROVE  i <= Held[b] <=> b \in Live /\ i <= seats[b]
    BY CapacityAssumption DEF Held, TypeOK, BookingsTypeOK
  <2> QED
    BY <2>1 DEF Participants, Live, SeatNumbers
<1> QED
  BY <1>1, SameCardinality DEF Ledger!Total, SeatsOf

\* The same of the next state.
LEMMA TotalIsSeatsNext == TypeOK' => (Ledger!Total(Held) = SeatsOf(Live))'
BY TotalIsSeats, PTL

\* A live booking has seats: what makes a confirmation one of a booking that holds some.
LiveSeated == \A b \in Live : seats[b] >= 1

\* A placed booking holds at least one seat.
LEMMA PlacedSeated ==
    ASSUME TypeOK, LiveSeated, NEW b \in Bookings, NEW w, NEW n \in SeatNumbers, NEW fit,
           PlaceBooking(b, w, n, fit)
    PROVE  LiveSeated'
BY CapacityAssumption DEF LiveSeated, PlaceBooking, TypeOK, BookingsTypeOK, Live, SeatNumbers

\* No step leaves a live booking without seats.
LEMMA SeatedStep ==
    ASSUME TypeOK, [Next]_vars, LiveSeated
    PROVE  LiveSeated'
<1>1. ASSUME NEW a \in Accounts, NEW b \in Bookings, NEW n \in SeatNumbers, Book(a, b, n)
      PROVE  LiveSeated'
  BY <1>1, PlacedSeated DEF Book
<1>2. ASSUME NEW o \in Organizations, NEW b \in Bookings, NEW n \in SeatNumbers,
             BookForOrganization(o, b, n)
      PROVE  LiveSeated'
  BY <1>2, PlacedSeated DEF BookForOrganization
<1>3. CASE OnlyMovesOn
  BY <1>3 DEF OnlyMovesOn, LiveSeated, Live
<1> QED
  BY <1>1, <1>2, <1>3, RowSteps

-----------------------------------------------------------------------------
\* Steps.

\* The steps that move the trip's status or its booking rows.
LEMMA MovingSteps ==
    ASSUME [Next]_vars
    PROVE  \/ \E a \in Accounts, b \in Bookings, n \in SeatNumbers : Book(a, b, n)
           \/ \E o \in Organizations, b \in Bookings, n \in SeatNumbers : BookForOrganization(o, b, n)
           \/ \E q \in BookingCommands : CommitBookingCmd(q)
           \/ \E q \in TripCommands : CommitTripCmd(q)
           \/ PublishByOperator
           \/ UNCHANGED <<tripStatus, bookingStatus, seats>>
<1>1. CASE Booking
  BY <1>1 DEF Booking
<1>2. CASE EditRoster
  BY <1>2
     DEF EditRoster, UpdateForOwner, UpdateForOrganization, SetParticipantEligibility, trip
<1>3. CASE ManageBooking
  BY <1>3
     DEF ManageBooking, ShowBooking, AdmitBookingCmd, ReplayBookingCmd, RefuseBookingCmd,
         ResendBookingCmd, DropBookingCmd, trip, rows
<1>4. CASE ManageTrip
  BY <1>4
     DEF ManageTrip, ShowTrip, AdmitTripCmd, ReplayTripCmd, RefuseTripCmd, RefuseClearance, ResendTripCmd,
         DropTripCmd, trip, rows
<1>5. CASE Decide
  BY <1>5
     DEF Decide, CheckPrice, SetPrice, QuotePayment, CreatePayment, CapturePayment, RefundPayment,
         AssessSafety, DecideSafety, ReviewWeather, SetPolicy, Allocate, trip, rows
<1>6. CASE Start \/ End \/ UNCHANGED vars
  BY <1>6 DEF Start, End, vars, rows
<1> QED
  BY <1>1, <1>2, <1>3, <1>4, <1>5, <1>6 DEF Next

\* Placing a booking on a row that is not live takes its seats from the ledger.
LEMMA PlacingTakes ==
    ASSUME TypeOK, TypeOK', SeatsOf(Live)' <= Capacity, tripStatus = "OPEN",
           NEW b \in Bookings, b \notin Live, NEW w, NEW n \in SeatNumbers, NEW fit,
           PlaceBooking(b, w, n, fit)
    PROVE  Ledger!Take(b, n)
<1>1. /\ bookingStatus' = [bookingStatus EXCEPT ![b] = "PENDING"]
      /\ seats' = [seats EXCEPT ![b] = n]
      /\ tripStatus' = tripStatus
      /\ bookingStatus \in [Bookings -> BookingStatus]
      /\ seats \in [Bookings -> 0..MaxSeats]
  BY DEF PlaceBooking, trip, TypeOK, BookingsTypeOK
<1>2. Held' = [Held EXCEPT ![b] = n]
  BY <1>1 DEF Held, Live
<1>3. Held[b] = 0
  BY DEF Held
<1>4. Confirmed' = Confirmed
  BY <1>1 DEF Confirmed, Live
<1>5. Ledger!Total(Held)' = SeatsOf(Live)'
  BY TotalIsSeatsNext
<1> QED
  BY <1>1, <1>2, <1>3, <1>4, <1>5 DEF Ledger!Take, Terminal

\* The commit of a booking command confirms a booking or gives its seats back.
LEMMA CommitMovesLedger ==
    ASSUME TypeOK, LiveSeated, NEW q \in BookingCommands, CommitBookingCmd(q)
    PROVE  \E b \in Bookings : Ledger!Confirm(b) \/ Ledger!GiveBack(b)
<1> DEFINE b == bookingCmd[q].booking
<1>1. /\ bookingStatus' = [bookingStatus EXCEPT ![b] =
                              IF bookingCmd[q].action = "CONFIRM" THEN "CONFIRMED" ELSE "CANCELLED"]
      /\ UNCHANGED <<seats, tripStatus>>
      /\ tripStatus \notin Terminal
      /\ bookingCmd[q].action = "CONFIRM" => bookingStatus[b] = "PENDING"
      /\ bookingStatus[b] \in {"PENDING", "CONFIRMED"}
  BY DEF CommitBookingCmd, BookingAccepts, Confirmable, Cancellable, Terminal, trip
<1>2. b \in Bookings /\ bookingStatus \in [Bookings -> BookingStatus]
  BY DEF CommitBookingCmd, InFlight, TypeOK, CommandsTypeOK, BookingsTypeOK
<1> HIDE DEF b
<1>3. b \in Live /\ Held[b] = seats[b] /\ Held[b] > 0
  BY <1>1, <1>2, CapacityAssumption DEF Live, Held, LiveSeated, TypeOK, BookingsTypeOK
<1>4. CASE bookingCmd[q].action = "CONFIRM"
  <2>1. Confirmed' = Confirmed \cup {b} /\ b \notin Confirmed
    BY <1>1, <1>2, <1>4 DEF Confirmed
  <2>2. Held' = Held
    BY <1>1, <1>2, <1>4 DEF Held, Live
  <2> QED
    BY <1>1, <1>2, <1>3, <2>1, <2>2 DEF Ledger!Confirm
<1>5. CASE bookingCmd[q].action # "CONFIRM"
  <2>1. Confirmed' = Confirmed \ {b}
    BY <1>1, <1>2, <1>5 DEF Confirmed
  <2>2. Held' = [Held EXCEPT ![b] = 0]
    BY <1>1, <1>2, <1>5 DEF Held, Live
  <2> QED
    BY <1>1, <1>2, <1>3, <2>1, <2>2 DEF Ledger!GiveBack
<1> QED
  BY <1>4, <1>5

\* The commit of a trip command closes the ledger or leaves it alone.
LEMMA CommitClosesLedger ==
    ASSUME TypeOK, NEW q \in TripCommands, CommitTripCmd(q)
    PROVE  Ledger!Close \/ UNCHANGED <<Held, Confirmed, tripStatus \in Terminal>>
<1> DEFINE act == tripCmd[q].action
<1>1. /\ tripStatus \notin Terminal
      /\ tripStatus' = NextStatus(act)
      /\ bookingStatus' = [b \in Bookings |-> IF b \in Dropped(act) THEN "CANCELLED" ELSE bookingStatus[b]]
      /\ UNCHANGED seats
  BY DEF CommitTripCmd, TripAccepts, Transition
<1>2. act \in Actions
  BY DEF TypeOK, CommandsTypeOK, TripCmds
<1>3. bookingStatus \in [Bookings -> BookingStatus]
  BY DEF TypeOK, BookingsTypeOK
<1> HIDE DEF act
<1>4. CASE act = "CANCEL"
  <2>1. tripStatus' \in Terminal /\ Dropped(act) = Live
    BY <1>1, <1>4 DEF NextStatus, Dropped, Terminal
  <2>2. Confirmed' = {} /\ Live' = {}
    BY <1>1, <1>3, <2>1 DEF Confirmed, Live
  <2>3. Held' = [b \in Bookings |-> IF b \in Confirmed' THEN Held[b] ELSE 0]
    BY <2>2 DEF Held
  <2> QED
    BY <1>1, <2>1, <2>2, <2>3 DEF Ledger!Close
<1>5. CASE act = "COMPLETE"
  <2>1. tripStatus' \in Terminal /\ Dropped(act) = Live \ Confirmed
    BY <1>1, <1>5 DEF NextStatus, Dropped, Terminal
  <2>2. Confirmed' = Confirmed /\ Live' = Confirmed
    BY <1>1, <1>3, <2>1 DEF Confirmed, Live
  <2>3. Held' = [b \in Bookings |-> IF b \in Confirmed' THEN Held[b] ELSE 0]
    BY <1>1, <2>2 DEF Held, Live, Confirmed
  <2> QED
    BY <1>1, <2>1, <2>2, <2>3 DEF Ledger!Close
<1>6. CASE act \notin {"CANCEL", "COMPLETE"}
  <2>1. tripStatus' \notin Terminal /\ Dropped(act) = {}
    BY <1>1, <1>2, <1>6 DEF NextStatus, Dropped, Terminal, Actions
  <2>2. bookingStatus' = bookingStatus
    BY <1>1, <1>3, <2>1
  <2> QED
    BY <1>1, <2>1, <2>2 DEF Held, Live, Confirmed
<1> QED
  BY <1>4, <1>5, <1>6

\* Every step of a trip and its bookings is a step of the ledger or a stutter.
LEMMA LedgerStep ==
    ASSUME TypeOK, TypeOK', LiveSeated, CapacityGoverned, NoOverbooking', [Next]_vars
    PROVE  [Ledger!Next]_<<Held, Confirmed, tripStatus \in Terminal>>
<1>1. SeatsOf(Live)' <= Capacity
  BY DEF NoOverbooking, CapacityGoverned
<1>2. ASSUME NEW a \in Accounts, NEW b \in Bookings, NEW n \in SeatNumbers, Book(a, b, n)
      PROVE  Ledger!Take(b, n)
  <2>1. b \notin Live /\ tripStatus = "OPEN"
    BY <1>2 DEF Book, BookingGates, Existing, Live
  <2>2. PICK fit \in {{}, {1}} : PlaceBooking(b, a, n, fit)
    BY <1>2 DEF Book
  <2> QED
    BY <1>1, <2>1, <2>2, PlacingTakes
<1>3. ASSUME NEW o \in Organizations, NEW b \in Bookings, NEW n \in SeatNumbers,
             BookForOrganization(o, b, n)
      PROVE  Ledger!Take(b, n)
  <2>1. b \notin Live /\ tripStatus = "OPEN" /\ PlaceBooking(b, o, n, {})
    BY <1>3 DEF BookForOrganization, BookingGates, Existing, Live
  <2> QED
    BY <1>1, <2>1, PlacingTakes
<1>4. CASE PublishByOperator \/ UNCHANGED <<tripStatus, bookingStatus, seats>>
  <2>1. UNCHANGED <<bookingStatus, seats>> /\ (tripStatus' \in Terminal <=> tripStatus \in Terminal)
    BY <1>4 DEF PublishByOperator, rows, Terminal
  <2>2. UNCHANGED <<Held, Confirmed>>
    BY <2>1 DEF Held, Live, Confirmed
  <2> QED
    BY <2>1, <2>2
<1>5. ASSUME NEW q \in BookingCommands, CommitBookingCmd(q)
      PROVE  \E b \in Bookings : Ledger!Confirm(b) \/ Ledger!GiveBack(b)
  BY <1>5, CommitMovesLedger
<1>6. ASSUME NEW q \in TripCommands, CommitTripCmd(q)
      PROVE  Ledger!Close \/ UNCHANGED <<Held, Confirmed, tripStatus \in Terminal>>
  BY <1>6, CommitClosesLedger
<1> QED
  BY <1>2, <1>3, <1>4, <1>5, <1>6, MovingSteps DEF Ledger!Next, SeatNumbers

\* The booking services and the trip lifecycle implement the ledger: with the capacity rule
\* always enforced, whatever they do to the bookings of a trip is a step of the ledger.
THEOREM LedgerImplemented ==
    ASSUME CapacityGoverned
    PROVE  Spec => ImplementsLedger
<1>1. Init => LiveSeated
  BY DEF Init, LiveSeated, Live
<1>2. Init => Ledger!Init
  <2>1. Init => Live = {} /\ Confirmed = {}
    BY DEF Init, Live, Confirmed
  <2> QED
    BY <2>1 DEF Ledger!Init, Held
<1>3. Spec => [](TypeOK /\ LiveSeated /\ NoOverbooking)
  BY <1>1, SeatedStep, TypeInvariant, NeverOverbooked, PTL DEF Spec
<1>4. /\ TypeOK /\ LiveSeated /\ NoOverbooking
      /\ (TypeOK /\ LiveSeated /\ NoOverbooking)'
      /\ [Next]_vars
      => [Ledger!Next]_<<Held, Confirmed, tripStatus \in Terminal>>
  BY LedgerStep
<1> QED
  BY <1>2, <1>3, <1>4, PTL DEF Spec, ImplementsLedger, Ledger!Spec

==============================================================================
