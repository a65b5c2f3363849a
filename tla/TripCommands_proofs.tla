------------------------- MODULE TripCommands_proofs -------------------------
(***************************************************************************)
(* Proofs about the commands of one trip and of its bookings, which take   *)
(* effect after other writes: the end of the trip is final, releases what  *)
(* the trip held, and leaves dive logs of participants of confirmed        *)
(* bookings only; and a command that takes effect does so on the state its *)
(* client was shown.                                                       *)
(***************************************************************************)
EXTENDS TripBooking_proofs

-----------------------------------------------------------------------------
\* Only the commit of a trip command ends a trip or writes a dive log, and nothing that
\* depends on the end moves once the trip has ended.

held == <<tripStatus, bookingStatus, seats, allocated, event, diveLogs>>

\* Only a committed trip command ends the trip, writes dive logs or changes what it holds then.
LEMMA EndSteps ==
    ASSUME [Next]_vars
    PROVE  \/ \E q \in TripCommands : CommitTripCmd(q)
           \/ /\ tripStatus' = tripStatus \/ tripStatus' \notin Terminal
              /\ UNCHANGED diveLogs
              /\ tripStatus \in Terminal => UNCHANGED held
<1> DEFINE Other == /\ tripStatus' = tripStatus \/ tripStatus' \notin Terminal
                    /\ UNCHANGED diveLogs
                    /\ tripStatus \in Terminal => UNCHANGED held
<1>1. CASE Booking
  BY <1>1
     DEF Booking, Book, BookForOrganization, BookingGates, PlaceBooking, Terminal, trip, held
<1>2. CASE EditRoster
  BY <1>2
     DEF EditRoster, UpdateForOwner, UpdateForOrganization, SetParticipantEligibility, trip,
         calendar, held
<1>3. CASE ManageBooking
  <2>1. ASSUME NEW q \in BookingCommands, CommitBookingCmd(q)
        PROVE  Other
    BY <2>1
       DEF CommitBookingCmd, BookingAccepts, Confirmable, Cancellable, Terminal, trip
  <2>2. ASSUME NEW q \in BookingCommands,
               \/ \E b \in Bookings, action \in {"CONFIRM", "CANCEL"} : ShowBooking(q, b, action)
               \/ AdmitBookingCmd(q) \/ ReplayBookingCmd(q) \/ RefuseBookingCmd(q)
               \/ \E p \in BookingCommands : ResendBookingCmd(q, p)
               \/ DropBookingCmd(q)
        PROVE  Other
    BY <2>2
       DEF ShowBooking, AdmitBookingCmd, ReplayBookingCmd, RefuseBookingCmd, ResendBookingCmd,
           DropBookingCmd, trip, rows, calendar, held
  <2> QED
    BY <1>3, <2>1, <2>2 DEF ManageBooking
<1>4. CASE ManageTrip
  <2>1. CASE PublishByOperator
    BY <2>1 DEF PublishByOperator, Terminal
  <2>2. ASSUME NEW q \in TripCommands,
               \/ \E action \in Actions : ShowTrip(q, action)
               \/ AdmitTripCmd(q) \/ ReplayTripCmd(q) \/ RefuseTripCmd(q) \/ RefuseClearance(q)
               \/ \E p \in TripCommands : ResendTripCmd(q, p)
               \/ DropTripCmd(q)
        PROVE  Other
    BY <2>2
       DEF ShowTrip, AdmitTripCmd, ReplayTripCmd, RefuseTripCmd, RefuseClearance,
           ResendTripCmd, DropTripCmd,
           trip, rows, calendar, held
  <2> QED
    BY <1>4, <2>1, <2>2 DEF ManageTrip
<1>5. CASE Decide
  BY <1>5
     DEF Decide, CheckPrice, SetPrice, QuotePayment, CreatePayment, CapturePayment, RefundPayment,
         AssessSafety, DecideSafety, ReviewWeather, SetPolicy, Allocate, trip, rows, calendar, held
<1>6. CASE Start \/ End \/ UNCHANGED vars
  BY <1>6 DEF Start, End, vars, rows, calendar, held
<1> QED
  BY <1>1, <1>2, <1>3, <1>4, <1>5, <1>6 DEF Next

\* A trip command takes effect on a trip that has not ended.
LEMMA CommitBeforeEnd ==
    ASSUME NEW q \in TripCommands, CommitTripCmd(q)
    PROVE  tripStatus \notin Terminal
BY DEF CommitTripCmd, TripAccepts, Transition

\* The end of a trip is final: assertTransition, and the trip status every booking
\* operation looks at, refuse whatever arrives later.
THEOREM EndIsFinal == Spec => EndedIsFinal
<1>1. [Next]_vars =>
        [(tripStatus \in Terminal) => tripStatus' = tripStatus /\ bookingStatus' = bookingStatus]_vars
  BY EndSteps, CommitBeforeEnd DEF held
<1> QED
  BY <1>1, PTL DEF Spec, EndedIsFinal

-----------------------------------------------------------------------------
\* What an ended trip holds.

\* The end releases everything at once, and nothing is held anew after it.
LEMMA EndedStep ==
    ASSUME TypeOK, [Next]_vars, EndedTripHoldsNothing
    PROVE  EndedTripHoldsNothing'
<1>1. ASSUME NEW q \in TripCommands, CommitTripCmd(q)
      PROVE  EndedTripHoldsNothing'
  <2> DEFINE action == tripCmd[q].action
             ends == NextStatus(action) \in Terminal
  <2>1. /\ tripStatus' = NextStatus(action)
        /\ bookingStatus' = [b \in Bookings |->
              IF b \in Dropped(action) THEN "CANCELLED" ELSE bookingStatus[b]]
        /\ allocated' = IF ends THEN {} ELSE allocated
        /\ event' = IF ends /\ event = "ACTIVE" THEN "INACTIVE" ELSE event
    BY <1>1 DEF CommitTripCmd
  <2>2. action \in Actions
    BY DEF TypeOK, CommandsTypeOK, TripCmds
  <2> HIDE DEF action
  <2>3. CASE action = "CANCEL"
    <3>1. Live' = {}
      BY <2>1, <2>3 DEF Dropped, Live
    <3> QED
      BY <2>1, <2>3, <3>1 DEF NextStatus, Terminal, EndedTripHoldsNothing
  <2>4. CASE action = "COMPLETE"
    <3>1. Live' = Confirmed'
      BY <2>1, <2>4 DEF Dropped, Live, Confirmed
    <3> QED
      BY <2>1, <2>4, <3>1 DEF NextStatus, Terminal, EndedTripHoldsNothing
  <2>5. CASE action \notin {"CANCEL", "COMPLETE"}
    BY <2>1, <2>2, <2>5 DEF NextStatus, Actions, Terminal, EndedTripHoldsNothing
  <2> QED
    BY <2>3, <2>4, <2>5
<1>2. CASE /\ tripStatus' = tripStatus \/ tripStatus' \notin Terminal
           /\ tripStatus \in Terminal => UNCHANGED held
  BY <1>2 DEF EndedTripHoldsNothing, held, Live, Confirmed, Terminal
<1> QED
  BY <1>1, <1>2, EndSteps

\* "Cancellation releases capacity and resources": apply() cancels the bookings and
\* releases the calendar in the transaction that ends the trip, and allocate() and the
\* booking services refuse an ended one.
THEOREM EndReleases == Spec => []EndedTripHoldsNothing
<1>1. Init => EndedTripHoldsNothing
  BY DEF Init, EndedTripHoldsNothing, Live
<1> QED
  BY <1>1, EndedStep, TypeInvariant, PTL DEF Spec

-----------------------------------------------------------------------------
\* Dive logs.

\* What makes it inductive: only a completion carries an attendance.
OnlyCompletionAttends ==
    \A q \in TripCommands :
       InFlight(tripCmd[q]) /\ tripCmd[q].action # "COMPLETE" => tripCmd[q].attended = {}

LogsInv == DiveLogsOfConfirmed /\ OnlyCompletionAttends

\* Ageing a command leaves its attendance alone.
LEMMA AgedAttendance ==
    ASSUME NEW c, NEW token, NEW W, InFlight(c) /\ c.action # "COMPLETE" => c.attended = {},
           c \in TripCmds
    PROVE  LET d == Aged(c, token, W) IN
           InFlight(d) /\ d.action # "COMPLETE" => d.attended = {}
BY DEF Aged, InFlight, TripCmds

\* Only a completion is ever given an attendance.
LEMMA AttendanceStep ==
    ASSUME TypeOK, [Next]_vars, OnlyCompletionAttends
    PROVE  OnlyCompletionAttends'
<1>1. tripCmd \in [TripCommands -> TripCmds]
  BY DEF TypeOK, CommandsTypeOK
<1>2. CASE UNCHANGED tripCmd
  BY <1>2 DEF OnlyCompletionAttends, InFlight
<1>3. ASSUME NEW W, Wrote(W)
      PROVE  OnlyCompletionAttends'
  BY <1>1, <1>3, AgedAttendance DEF OnlyCompletionAttends, Wrote, AgedTripCmds
<1>4. CASE Booking \/ EditRoster
  BY <1>3, <1>4
     DEF Booking, Book, BookForOrganization, PlaceBooking, EditRoster, UpdateForOwner,
         UpdateForOrganization, SetParticipantEligibility
<1>5. CASE ManageBooking
  <2>1. ASSUME NEW q \in BookingCommands, CommitBookingCmd(q)
        PROVE  OnlyCompletionAttends'
    BY <1>1, <2>1, AgedAttendance DEF OnlyCompletionAttends, CommitBookingCmd, AgedTripCmds
  <2> QED
    BY <1>2, <1>5, <2>1
       DEF ManageBooking, ShowBooking, AdmitBookingCmd, ReplayBookingCmd, RefuseBookingCmd,
           ResendBookingCmd, DropBookingCmd
<1>6. CASE ManageTrip
  <2>1. ~InFlight(IdleTripCmd) /\ ~InFlight([IdleTripCmd EXCEPT !.stage = "refused"])
    BY DEF InFlight, IdleTripCmd
  <2>2. ASSUME NEW q \in TripCommands, NEW c,
               \/ ~InFlight(c)
               \/ c.action = "COMPLETE"
               \/ c.attended = {},
               tripCmd' = [tripCmd EXCEPT ![q] = c]
        PROVE  OnlyCompletionAttends'
    BY <1>1, <2>2 DEF OnlyCompletionAttends
  <2>3. ASSUME NEW q \in TripCommands, NEW action \in Actions, ShowTrip(q, action)
        PROVE  OnlyCompletionAttends'
    <3>1. PICK r \in FreshRequests, who \in Attendances(action) :
            tripCmd' = [tripCmd EXCEPT ![q] =
                [stage |-> "shown", action |-> action, attended |-> who, request |-> r,
                 fresh |-> TRUE, seen |-> TripFacts]]
      BY <2>3 DEF ShowTrip
    <3>2. action = "COMPLETE" \/ who = {}
      BY DEF Attendances
    <3> QED
      BY <2>2, <3>1, <3>2
  <2>4. ASSUME NEW q \in TripCommands, AdmitTripCmd(q)
        PROVE  OnlyCompletionAttends'
    BY <1>1, <2>4 DEF AdmitTripCmd, OnlyCompletionAttends, InFlight, TripCmds
  <2>5. ASSUME NEW q \in TripCommands, ReplayTripCmd(q) \/ RefuseTripCmd(q) \/ RefuseClearance(q) \/ DropTripCmd(q)
        PROVE  OnlyCompletionAttends'
    BY <2>1, <2>2, <2>5 DEF ReplayTripCmd, RefuseTripCmd, RefuseClearance, DropTripCmd
  <2>6. ASSUME NEW q \in TripCommands, NEW p \in TripCommands, ResendTripCmd(q, p)
        PROVE  OnlyCompletionAttends'
    BY <1>1, <2>6 DEF ResendTripCmd, OnlyCompletionAttends, InFlight, TripCmds
  <2>7. ASSUME NEW q \in TripCommands, CommitTripCmd(q)
        PROVE  OnlyCompletionAttends'
    <3>1. PICK W : tripCmd' = [AgedTripCmds(W) EXCEPT ![q] = IdleTripCmd]
      BY <2>7 DEF CommitTripCmd
    <3> QED
      BY <1>1, <2>1, <3>1, AgedAttendance DEF OnlyCompletionAttends, AgedTripCmds
  <2> QED
    BY <1>3, <1>6, <2>3, <2>4, <2>5, <2>6, <2>7 DEF ManageTrip, PublishByOperator
<1>7. CASE Decide
  BY <1>2, <1>3, <1>7
     DEF Decide, CheckPrice, SetPrice, QuotePayment, CreatePayment, CapturePayment, RefundPayment,
         AssessSafety, DecideSafety, ReviewWeather, SetPolicy, Allocate, commands
<1>8. CASE Start \/ End \/ UNCHANGED vars
  BY <1>2, <1>8 DEF Start, End, vars, commands
<1> QED
  BY <1>4, <1>5, <1>6, <1>7, <1>8 DEF Next

\* A completion logs participants of bookings that are confirmed at that moment.
LEMMA LogsStep ==
    ASSUME TypeOK, [Next]_vars, LogsInv
    PROVE  DiveLogsOfConfirmed'
<1>1. ASSUME NEW q \in TripCommands, CommitTripCmd(q)
      PROVE  DiveLogsOfConfirmed'
  <2> DEFINE action == tripCmd[q].action
  <2>1. /\ tripStatus' = NextStatus(action)
        /\ bookingStatus' = [b \in Bookings |->
              IF b \in Dropped(action) THEN "CANCELLED" ELSE bookingStatus[b]]
        /\ diveLogs' = diveLogs \cup tripCmd[q].attended
        /\ UNCHANGED seats
        /\ tripCmd[q].stage = "checked"
        /\ EffectAllowed(tripCmd[q])
    BY <1>1 DEF CommitTripCmd
  <2>2. diveLogs = {}
    BY <1>1, CommitBeforeEnd DEF LogsInv, DiveLogsOfConfirmed, Terminal
  <2>3. CASE action = "COMPLETE"
    <3>1. diveLogs' \subseteq Participants(Confirmed)
      BY <2>1, <2>2, <2>3 DEF EffectAllowed
    <3>2. Confirmed' = Confirmed
      BY <2>1, <2>3 DEF Dropped, Confirmed, Live
    <3>3. Participants(Confirmed)' = Participants(Confirmed)
      BY <2>1, <3>2 DEF Participants
    <3> QED
      BY <2>1, <2>3, <3>1, <3>3 DEF DiveLogsOfConfirmed, NextStatus
  <2>4. CASE action # "COMPLETE"
    <3>1. tripCmd[q].attended = {}
      BY <2>1, <2>4 DEF LogsInv, OnlyCompletionAttends, InFlight
    <3> QED
      BY <2>1, <2>2, <3>1 DEF DiveLogsOfConfirmed
  <2> QED
    BY <2>3, <2>4
<1>2. CASE UNCHANGED diveLogs /\ (tripStatus \in Terminal => UNCHANGED held)
  <2>1. CASE diveLogs = {}
    BY <1>2, <2>1 DEF DiveLogsOfConfirmed
  <2>2. CASE diveLogs # {}
    BY <1>2, <2>2
       DEF LogsInv, DiveLogsOfConfirmed, Terminal, held, Participants, Confirmed
  <2> QED
    BY <2>1, <2>2
<1> QED
  BY <1>1, <1>2, EndSteps

\* Every dive log is that of a place of a confirmed booking of a completed trip: apply()
\* checks the attendance against the rows of its own transaction, not those shown.
THEOREM LogsOfConfirmed == Spec => []DiveLogsOfConfirmed
<1>1. Init => LogsInv
  BY DEF Init, LogsInv, DiveLogsOfConfirmed, OnlyCompletionAttends, InFlight, IdleTripCmd
<1>2. TypeOK /\ [Next]_vars /\ LogsInv => LogsInv'
  BY AttendanceStep, LogsStep DEF LogsInv
<1>3. LogsInv => DiveLogsOfConfirmed
  BY DEF LogsInv
<1> QED
  BY <1>1, <1>2, <1>3, TypeInvariant, PTL DEF Spec

-----------------------------------------------------------------------------
\* The invariant: while nothing made a command stale, what its token covers is unchanged.

\* What the token of booking b hashes from rows; the confirmed seats n and the rules r it
\* hashes by value.
FactsWith(b, n, r) ==
    [seats |-> seats[b], eligible |-> eligible[b], captured |-> CapturedInFull(b),
     safety |-> safety.decision, confirmed |-> n, weather |-> weatherBlocks, rules |-> r]

BookingCurrent(c) == InFlight(c) /\ c.fresh => \E n, r : c.seen = FactsWith(c.booking, n, r)
TripCurrent(c) == InFlight(c) /\ c.fresh => c.seen = TripFacts

FreshIsCurrent ==
    /\ \A q \in BookingCommands : BookingCurrent(bookingCmd[q])
    /\ \A q \in TripCommands : TripCurrent(tripCmd[q])

\* A step that writes the rows W changes nothing that a token W does not touch covers.
SameBooking(b) == \A n, r : FactsWith(b, n, r)' = FactsWith(b, n, r)
Covers(W) == /\ \A b \in Bookings : BookingToken(b) \cap W = {} => SameBooking(b)
             /\ TripToken \cap W = {} => TripFacts' = TripFacts

\* What a booking page shows depends on these rows only.
LEMMA FramedBooking ==
    ASSUME NEW b, seats'[b] = seats[b], eligible'[b] = eligible[b], paid'[b] = paid[b],
           UNCHANGED <<price, safety, weatherBlocks>>
    PROVE  SameBooking(b)
<1>1. CapturedInFull(b)' = CapturedInFull(b)
  BY DEF CapturedInFull, AmountOf
<1> QED
  BY <1>1 DEF SameBooking, FactsWith

\* What a trip page shows depends on these rows only.
LEMMA FramedTrip ==
    ASSUME UNCHANGED <<bookingStatus, paid>>,
           \A b \in Confirmed : eligible'[b] = eligible[b]
    PROVE  TripFacts' = TripFacts
BY DEF TripFacts, Confirmed

-----------------------------------------------------------------------------
\* Commands under a write.

\* A command d whose token, if it is still fresh, shows the state after the step, and the
\* commands in flight F that are all such.
BookingStays(d) == InFlight(d) /\ d.fresh => \E n, r : d.seen = FactsWith(d.booking, n, r)'
TripStays(d) == InFlight(d) /\ d.fresh => d.seen = TripFacts'
BookingsStay(F) == \A q \in BookingCommands : \A d : d = F[q] => BookingStays(d)
TripsStay(F) == \A q \in TripCommands : \A d : d = F[q] => TripStays(d)

\* It is enough that each command of the next state stays current.
LEMMA AllStay ==
    ASSUME BookingsStay(bookingCmd'), TripsStay(tripCmd')
    PROVE  FreshIsCurrent'
<1>1. ASSUME NEW q \in BookingCommands
      PROVE  BookingCurrent(bookingCmd[q])'
  <2>1. PICK d : d = bookingCmd'[q]
    OBVIOUS
  <2>2. BookingStays(d)
    BY <2>1 DEF BookingsStay
  <2> QED
    BY <2>1, <2>2
       DEF BookingStays, BookingCurrent, InFlight, FactsWith, CapturedInFull, AmountOf
<1>2. ASSUME NEW q \in TripCommands
      PROVE  TripCurrent(tripCmd[q])'
  BY DEF TripsStay, TripStays, TripCurrent, InFlight
<1> QED
  BY <1>1, <1>2 DEF FreshIsCurrent

\* The invariant of one command, as a fact about its record.
LEMMA CurrentCommands ==
    ASSUME FreshIsCurrent
    PROVE  /\ \A q \in BookingCommands : \A d : d = bookingCmd[q] => BookingCurrent(d)
           /\ \A q \in TripCommands : \A d : d = tripCmd[q] => TripCurrent(d)
BY DEF FreshIsCurrent

\* A write that ages the commands whose token covers it leaves the others current.
LEMMA AgedStay ==
    ASSUME TypeOK, FreshIsCurrent, NEW W, Covers(W)
    PROVE  BookingsStay(AgedBookingCmds(W)) /\ TripsStay(AgedTripCmds(W))
<1>1. ASSUME NEW q \in BookingCommands, NEW d, d = AgedBookingCmds(W)[q]
      PROVE  BookingStays(d)
  <2>1. PICK c : c = bookingCmd[q]
    OBVIOUS
  <2>2. c \in BookingCmds /\ BookingCurrent(c) /\ (InFlight(c) => c.booking \in Bookings)
    BY <2>1, CurrentCommands DEF TypeOK, CommandsTypeOK
  <2>3. d = Aged(c, BookingToken(c.booking), W)
    BY <1>1, <2>1 DEF AgedBookingCmds
  <2>4. CASE InFlight(c) /\ BookingToken(c.booking) \cap W = {}
    <3>1. d = c /\ SameBooking(c.booking)
      BY <2>2, <2>3, <2>4 DEF Aged, Covers
    <3> QED
      BY <2>2, <3>1 DEF BookingStays, BookingCurrent, SameBooking
  <2>5. CASE InFlight(c) /\ BookingToken(c.booking) \cap W # {}
    <3>1. d.fresh = FALSE
      BY <2>2, <2>3, <2>5 DEF Aged, BookingCmds
    <3> QED
      BY <3>1 DEF BookingStays
  <2>6. CASE ~InFlight(c)
    BY <2>3, <2>6 DEF Aged, BookingStays
  <2> QED
    BY <2>4, <2>5, <2>6
<1>2. ASSUME NEW q \in TripCommands, NEW d, d = AgedTripCmds(W)[q]
      PROVE  TripStays(d)
  <2>1. PICK c : c = tripCmd[q]
    OBVIOUS
  <2>2. c \in TripCmds /\ TripCurrent(c)
    BY <2>1, CurrentCommands DEF TypeOK, CommandsTypeOK
  <2>3. d = Aged(c, TripToken, W)
    BY <1>2, <2>1 DEF AgedTripCmds
  <2>4. CASE InFlight(c) /\ TripToken \cap W = {}
    <3>1. d = c /\ TripFacts' = TripFacts
      BY <2>3, <2>4 DEF Aged, Covers
    <3> QED
      BY <2>2, <3>1 DEF TripStays, TripCurrent
  <2>5. CASE InFlight(c) /\ TripToken \cap W # {}
    <3>1. d.fresh = FALSE
      BY <2>2, <2>3, <2>5 DEF Aged, TripCmds
    <3> QED
      BY <3>1 DEF TripStays
  <2>6. CASE ~InFlight(c)
    BY <2>3, <2>6 DEF Aged, TripStays
  <2> QED
    BY <2>4, <2>5, <2>6
<1> QED
  BY <1>1, <1>2 DEF BookingsStay, TripsStay

\* The three ways a step treats the commands in flight.
LEMMA WroteCurrent ==
    ASSUME TypeOK, FreshIsCurrent, NEW W, Covers(W), Wrote(W)
    PROVE  FreshIsCurrent'
BY AgedStay, AllStay DEF Wrote

\* A step that changes no fact of a page leaves every command current.
LEMMA UnwrittenCurrent ==
    ASSUME FreshIsCurrent, \A b : SameBooking(b), TripFacts' = TripFacts
    PROVE  BookingsStay(bookingCmd) /\ TripsStay(tripCmd)
<1>1. ASSUME NEW q \in BookingCommands, NEW d, d = bookingCmd[q]
      PROVE  BookingStays(d)
  BY <1>1, CurrentCommands DEF BookingCurrent, BookingStays, SameBooking
<1>2. ASSUME NEW q \in TripCommands, NEW d, d = tripCmd[q]
      PROVE  TripStays(d)
  BY <1>2, CurrentCommands DEF TripCurrent, TripStays
<1> QED
  BY <1>1, <1>2 DEF BookingsStay, TripsStay

\* A step that writes no row changes no fact of a page.
LEMMA NothingWritten ==
    ASSUME UNCHANGED <<rows, money, gates>>
    PROVE  (\A b : SameBooking(b)) /\ TripFacts' = TripFacts
BY FramedBooking, FramedTrip DEF rows, money, gates

-----------------------------------------------------------------------------
\* The invariant, action by action.

\* Booking and editing rosters age what they change.
LEMMA BookingCurrentStep ==
    ASSUME TypeOK, FreshIsCurrent, Booking \/ EditRoster
    PROVE  FreshIsCurrent'
<1>1. ASSUME NEW b \in Bookings, NEW w, NEW n, NEW fit, PlaceBooking(b, w, n, fit)
      PROVE  FreshIsCurrent'
  <2>1. Row(b) \in BookingToken(b) /\ Row(b) \in TripToken
    BY DEF BookingToken, TripToken
  <2>2. \A c \in Bookings : c # b => SameBooking(c)
    BY <1>1, FramedBooking DEF PlaceBooking, money, gates, TypeOK, BookingsTypeOK
  <2>3. Covers({Row(b), Roster(b)})
    BY <2>1, <2>2 DEF Covers
  <2> QED
    BY <1>1, <2>3, WroteCurrent DEF PlaceBooking
<1>2. ASSUME NEW b \in Bookings, NEW i \in SeatNumbers,
             \/ UpdateForOwner(b, i)
             \/ UpdateForOrganization(b, i)
             \/ \E fit \in BOOLEAN : SetParticipantEligibility(b, i, fit)
      PROVE  FreshIsCurrent'
  <2>1. PICK W : /\ Roster(b) \in W
                 /\ Wrote(W)
    BY <1>2 DEF UpdateForOwner, UpdateForOrganization, SetParticipantEligibility
  <2>2. /\ eligible' \in {[eligible EXCEPT ![b] = @ \ {i}], [eligible EXCEPT ![b] = @ \cup {i}]}
        /\ UNCHANGED <<bookingStatus, seats, money, gates>>
    BY <1>2 DEF UpdateForOwner, UpdateForOrganization, SetParticipantEligibility
  <2>3. \A c \in Bookings : c # b => SameBooking(c) /\ eligible'[c] = eligible[c]
    BY <2>2, FramedBooking DEF money, gates, TypeOK, BookingsTypeOK
  <2>4. Roster(b) \in BookingToken(b) /\ (b \in Confirmed => Roster(b) \in TripToken)
    BY DEF BookingToken, TripToken
  <2>5. b \notin Confirmed => TripFacts' = TripFacts
    BY <2>2, <2>3, FramedTrip DEF money, Confirmed
  <2>6. Covers(W)
    BY <2>1, <2>3, <2>4, <2>5 DEF Covers
  <2> QED
    BY <2>1, <2>6, WroteCurrent
<1> QED
  BY <1>1, <1>2 DEF Booking, Book, BookForOrganization, EditRoster

\* Every stage of a booking command keeps fresh commands current.
LEMMA ManageBookingCurrent ==
    ASSUME TypeOK, FreshIsCurrent, ManageBooking
    PROVE  FreshIsCurrent'
<1>1. bookingCmd \in [BookingCommands -> BookingCmds]
  BY DEF TypeOK, CommandsTypeOK
<1>2. ASSUME NEW q \in BookingCommands, CommitBookingCmd(q)
      PROVE  FreshIsCurrent'
  <2>1. PICK b \in Bookings : b = bookingCmd[q].booking
    BY <1>2 DEF CommitBookingCmd, TypeOK, CommandsTypeOK, InFlight
  <2>2. /\ UNCHANGED <<seats, eligible, money, gates>>
        /\ bookingCmd' = [AgedBookingCmds({Row(b)}) EXCEPT ![q] = IdleBookingCmd]
        /\ tripCmd' = AgedTripCmds({Row(b)})
    BY <1>2, <2>1 DEF CommitBookingCmd
  <2>3. \A c \in Bookings : SameBooking(c)
    BY <2>2, FramedBooking DEF money, gates
  <2>4. Row(b) \in TripToken
    BY DEF TripToken
  <2>5. Covers({Row(b)})
    BY <2>3, <2>4 DEF Covers
  <2>6. BookingsStay(bookingCmd')
    <3>1. ~InFlight(IdleBookingCmd)
      BY DEF InFlight, IdleBookingCmd
    <3> QED
      BY <2>2, <2>5, <3>1, AgedStay DEF BookingsStay, AgedBookingCmds, BookingStays
  <2> QED
    BY <2>2, <2>5, <2>6, AgedStay, AllStay
<1>3. ASSUME NEW q \in BookingCommands, NEW c, BookingStays(c),
             bookingCmd' = [bookingCmd EXCEPT ![q] = c],
             UNCHANGED <<rows, money, gates, tripCmd>>
      PROVE  FreshIsCurrent'
  <2>1. BookingsStay(bookingCmd) /\ TripsStay(tripCmd)
    BY <1>3, NothingWritten, UnwrittenCurrent
  <2>2. BookingsStay(bookingCmd') /\ TripsStay(tripCmd')
    BY <1>1, <1>3, <2>1 DEF BookingsStay, TripsStay
  <2> QED
    BY <2>2, AllStay
<1>4. ~InFlight(IdleBookingCmd) /\ ~InFlight([IdleBookingCmd EXCEPT !.stage = "refused"])
  BY DEF InFlight, IdleBookingCmd
<1>5. ASSUME NEW q \in BookingCommands, NEW b \in Bookings, NEW action, ShowBooking(q, b, action)
      PROVE  FreshIsCurrent'
  <2>0. PICK id : bookingCmd' = [bookingCmd EXCEPT ![q] =
                [stage |-> "shown", action |-> action, booking |-> b, request |-> id,
                 fresh |-> TRUE, seen |-> BookingFacts(b)]]
    BY <1>5 DEF ShowBooking
  <2>1. PICK c : c = [stage |-> "shown", action |-> action, booking |-> b, request |-> id,
                      fresh |-> TRUE, seen |-> BookingFacts(b)]
    OBVIOUS
  <2>2. SameBooking(b)
    BY <1>5, FramedBooking DEF ShowBooking, rows, money, gates
  <2>3. BookingFacts(b) = FactsWith(b, SeatsOf(Confirmed), [r \in BookingRules |-> policy[r]])
    BY DEF BookingFacts, FactsWith
  <2>4. PICK n, r : c.seen = FactsWith(b, n, r)
    BY <2>1, <2>3
  <2>5. BookingStays(c)
    BY <2>1, <2>2, <2>4 DEF BookingStays, SameBooking
  <2> QED
    BY <1>3, <1>5, <2>0, <2>1, <2>5 DEF ShowBooking
<1>6. ASSUME NEW q \in BookingCommands, NEW p \in BookingCommands, InFlight(bookingCmd[p]),
             NEW stage \in {"shown", "checked"},
             bookingCmd' = [bookingCmd EXCEPT ![q] = [bookingCmd[p] EXCEPT !.stage = stage]],
             UNCHANGED <<rows, money, gates, tripCmd>>
      PROVE  FreshIsCurrent'
  <2>1. PICK d \in BookingCmds : d = bookingCmd[p]
    BY <1>1
  <2>2. PICK c : c = [d EXCEPT !.stage = stage]
    OBVIOUS
  <2>3. c.fresh = d.fresh /\ c.seen = d.seen /\ c.booking = d.booking
    BY <2>1, <2>2 DEF BookingCmds
  <2>4. BookingStays(d)
    BY <1>6, <2>1, NothingWritten, UnwrittenCurrent DEF BookingsStay
  <2>5. BookingStays(c)
    BY <1>6, <2>1, <2>3, <2>4 DEF BookingStays
  <2> QED
    BY <1>3, <1>6, <2>1, <2>2, <2>5
<1>7. ASSUME NEW q \in BookingCommands, AdmitBookingCmd(q)
      PROVE  FreshIsCurrent'
  BY <1>6, <1>7 DEF AdmitBookingCmd, InFlight
<1>8. ASSUME NEW q \in BookingCommands, NEW p \in BookingCommands, ResendBookingCmd(q, p)
      PROVE  FreshIsCurrent'
  BY <1>6, <1>8 DEF ResendBookingCmd
<1>9. ASSUME NEW q \in BookingCommands, ReplayBookingCmd(q) \/ RefuseBookingCmd(q) \/ DropBookingCmd(q)
      PROVE  FreshIsCurrent'
  BY <1>3, <1>4, <1>9 DEF ReplayBookingCmd, RefuseBookingCmd, DropBookingCmd, BookingStays
<1> QED
  BY <1>2, <1>5, <1>7, <1>8, <1>9 DEF ManageBooking

\* Every stage of a trip command keeps fresh commands current.
LEMMA ManageTripCurrent ==
    ASSUME TypeOK, FreshIsCurrent, ManageTrip
    PROVE  FreshIsCurrent'
<1>1. tripCmd \in [TripCommands -> TripCmds]
  BY DEF TypeOK, CommandsTypeOK
<1>2. ASSUME NEW q \in TripCommands, CommitTripCmd(q)
      PROVE  FreshIsCurrent'
  <2>1. PICK W : /\ TripRow \in W
                 /\ tripCmd' = [AgedTripCmds(W) EXCEPT ![q] = IdleTripCmd]
                 /\ bookingCmd' = AgedBookingCmds(W)
    BY <1>2 DEF CommitTripCmd
  <2>2. \A b \in Bookings : SameBooking(b)
    BY <1>2, FramedBooking DEF CommitTripCmd, money, gates
  <2>3. TripRow \in TripToken
    BY DEF TripToken
  <2>4. Covers(W)
    BY <2>1, <2>2, <2>3 DEF Covers
  <2>5. TripsStay(tripCmd')
    <3>1. ~InFlight(IdleTripCmd)
      BY DEF InFlight, IdleTripCmd
    <3> QED
      BY <2>1, <2>4, <3>1, AgedStay DEF TripsStay, AgedTripCmds, TripStays
  <2> QED
    BY <2>1, <2>4, <2>5, AgedStay, AllStay
<1>3. ASSUME NEW q \in TripCommands, NEW c, TripStays(c),
             tripCmd' = [tripCmd EXCEPT ![q] = c],
             UNCHANGED <<rows, money, gates, bookingCmd>>
      PROVE  FreshIsCurrent'
  <2>1. BookingsStay(bookingCmd) /\ TripsStay(tripCmd)
    BY <1>3, NothingWritten, UnwrittenCurrent
  <2>2. BookingsStay(bookingCmd') /\ TripsStay(tripCmd')
    BY <1>1, <1>3, <2>1 DEF BookingsStay, TripsStay
  <2> QED
    BY <2>2, AllStay
<1>4. ~InFlight(IdleTripCmd) /\ ~InFlight([IdleTripCmd EXCEPT !.stage = "refused"])
  BY DEF InFlight, IdleTripCmd
<1>5. ASSUME NEW q \in TripCommands, NEW action, ShowTrip(q, action)
      PROVE  FreshIsCurrent'
  <2>1. PICK r, who : tripCmd' = [tripCmd EXCEPT ![q] =
                [stage |-> "shown", action |-> action, attended |-> who, request |-> r,
                 fresh |-> TRUE, seen |-> TripFacts]]
    BY <1>5 DEF ShowTrip
  <2>2. TripFacts' = TripFacts
    BY <1>5, FramedTrip DEF ShowTrip, rows, money
  <2> QED
    BY <1>3, <1>5, <2>1, <2>2 DEF ShowTrip, TripStays
<1>6. ASSUME NEW q \in TripCommands, NEW p \in TripCommands, InFlight(tripCmd[p]),
             NEW stage \in {"shown", "checked"},
             tripCmd' = [tripCmd EXCEPT ![q] = [tripCmd[p] EXCEPT !.stage = stage]],
             UNCHANGED <<rows, money, gates, bookingCmd>>
      PROVE  FreshIsCurrent'
  <2>1. PICK d \in TripCmds : d = tripCmd[p]
    BY <1>1
  <2>2. PICK c : c = [d EXCEPT !.stage = stage]
    OBVIOUS
  <2>3. c.fresh = d.fresh /\ c.seen = d.seen
    BY <2>1, <2>2 DEF TripCmds
  <2>4. TripStays(d)
    BY <1>6, <2>1, NothingWritten, UnwrittenCurrent DEF TripsStay
  <2>5. TripStays(c)
    BY <1>6, <2>1, <2>3, <2>4 DEF TripStays
  <2> QED
    BY <1>3, <1>6, <2>1, <2>2, <2>5
<1>7. ASSUME NEW q \in TripCommands, AdmitTripCmd(q)
      PROVE  FreshIsCurrent'
  BY <1>6, <1>7 DEF AdmitTripCmd, InFlight
<1>8. ASSUME NEW q \in TripCommands, NEW p \in TripCommands, ResendTripCmd(q, p)
      PROVE  FreshIsCurrent'
  BY <1>6, <1>8 DEF ResendTripCmd
<1>9. ASSUME NEW q \in TripCommands, ReplayTripCmd(q) \/ RefuseTripCmd(q) \/ RefuseClearance(q) \/ DropTripCmd(q)
      PROVE  FreshIsCurrent'
  BY <1>3, <1>4, <1>9 DEF ReplayTripCmd, RefuseTripCmd, RefuseClearance, DropTripCmd, TripStays
<1>10. CASE PublishByOperator
  BY <1>10, NothingWritten, WroteCurrent DEF PublishByOperator, Covers
<1> QED
  BY <1>2, <1>5, <1>7, <1>8, <1>9, <1>10 DEF ManageTrip

\* Decisions about price, payment, safety, weather and policy age what they change.
LEMMA DecideCurrent ==
    ASSUME TypeOK, FreshIsCurrent, Decide
    PROVE  FreshIsCurrent'
<1>1. CASE UNCHANGED <<rows, price, paid, gates, bookingCmd, tripCmd>>
  <2>1. (\A b : SameBooking(b)) /\ TripFacts' = TripFacts
    BY <1>1, FramedBooking, FramedTrip DEF rows, gates
  <2> QED
    BY <1>1, <2>1, UnwrittenCurrent, AllStay
<1>2. ASSUME NEW p, CheckPrice(p)
      PROVE  FreshIsCurrent'
  BY <1>1, <1>2 DEF CheckPrice, commands
<1>3. ASSUME NEW W, Wrote(W), UNCHANGED rows, UNCHANGED paid,
             \A b \in Bookings : W \cap BookingToken(b) = {} => UNCHANGED <<price, safety, weatherBlocks>>
      PROVE  FreshIsCurrent'
  <2>1. TripFacts' = TripFacts
    BY <1>3, FramedTrip DEF rows
  <2>2. ASSUME NEW b \in Bookings, BookingToken(b) \cap W = {}
        PROVE  SameBooking(b)
    BY <1>3, <2>2, FramedBooking DEF rows
  <2> QED
    BY <1>3, <2>1, <2>2, WroteCurrent DEF Covers
<1>4. \A b \in Bookings :
         /\ PriceRow \in BookingToken(b)
         /\ SafetyRow \in BookingToken(b)
         /\ WeatherRow \in BookingToken(b)
         /\ PaymentRows(b) \in BookingToken(b)
         /\ PaymentRows(b) \in TripToken
  BY DEF BookingToken, TripToken
<1>5. ASSUME SetPrice
      PROVE  FreshIsCurrent'
  BY <1>3, <1>4, <1>5 DEF SetPrice
<1>6. ASSUME NEW b \in Bookings, QuotePayment(b)
      PROVE  FreshIsCurrent'
  BY <1>1, <1>6 DEF QuotePayment, commands
<1>7. ASSUME NEW b \in Bookings, NEW a, CreatePayment(b, a)
      PROVE  FreshIsCurrent'
  BY <1>3, <1>7 DEF CreatePayment, gates
<1>8. ASSUME NEW b \in Bookings, NEW a, CapturePayment(b, a) \/ RefundPayment(b, a)
      PROVE  FreshIsCurrent'
  <2>1. /\ Wrote({PaymentRows(b)})
        /\ \A c \in Bookings : c # b => paid'[c] = paid[c]
        /\ UNCHANGED <<rows, price, gates>>
    BY <1>8 DEF CapturePayment, RefundPayment, TypeOK, MoneyTypeOK
  <2>2. \A c \in Bookings : c # b => SameBooking(c)
    BY <2>1, FramedBooking DEF rows, gates
  <2>3. Covers({PaymentRows(b)})
    BY <1>4, <2>2 DEF Covers
  <2> QED
    BY <2>1, <2>3, WroteCurrent
<1>9. ASSUME NEW d, AssessSafety(d) \/ DecideSafety(d)
      PROVE  FreshIsCurrent'
  BY <1>3, <1>4, <1>9 DEF AssessSafety, DecideSafety, money
<1>10. ASSUME NEW blocks, ReviewWeather(blocks)
       PROVE  FreshIsCurrent'
  BY <1>3, <1>4, <1>10 DEF ReviewWeather, money
<1>11. ASSUME NEW rule, NEW state, SetPolicy(rule, state)
       PROVE  FreshIsCurrent'
  <2>1. UNCHANGED <<rows, price, paid, safety, weatherBlocks, bookingCmd, tripCmd>>
    BY <1>11 DEF SetPolicy, money, commands
  <2>2. (\A b : SameBooking(b)) /\ TripFacts' = TripFacts
    BY <2>1, FramedBooking, FramedTrip DEF rows
  <2> QED
    BY <2>1, <2>2, UnwrittenCurrent, AllStay
<1>12. ASSUME NEW choice, Allocate(choice)
       PROVE  FreshIsCurrent'
  BY <1>12, NothingWritten, WroteCurrent DEF Allocate, Covers
<1> QED
  BY <1>2, <1>5, <1>6, <1>7, <1>8, <1>9, <1>10, <1>11, <1>12 DEF Decide

\* Every step of the specification keeps fresh commands current.
LEMMA FreshStep ==
    ASSUME TypeOK, FreshIsCurrent, [Next]_vars
    PROVE  FreshIsCurrent'
<1>1. CASE Start \/ End \/ UNCHANGED vars
  <2>1. UNCHANGED <<rows, money, gates, bookingCmd, tripCmd>>
    BY <1>1 DEF Start, End, vars, rows, money, gates, commands
  <2> QED
    BY <2>1, NothingWritten, UnwrittenCurrent, AllStay
<1> QED
  BY <1>1, BookingCurrentStep, ManageBookingCurrent, ManageTripCurrent, DecideCurrent DEF Next

\* A command that no write has aged acts on the facts its page showed.
LEMMA FreshInvariant == Spec => [](TypeOK /\ FreshIsCurrent)
<1>1. Init => FreshIsCurrent
  BY DEF Init, FreshIsCurrent, BookingCurrent, TripCurrent, InFlight, IdleBookingCmd, IdleTripCmd
<1> QED
  BY <1>1, FreshStep, TypeInvariant, PTL DEF Spec

-----------------------------------------------------------------------------
\* What takes effect is what was shown.

\* booking-management.service apply(): between the page and the second transaction other
\* requests run, and the token makes the confirmation see their effect or be refused.
THEOREM ConfirmsShown == Spec => ConfirmsWhatWasShown
<1>1. ASSUME TypeOK, FreshIsCurrent, [Next]_vars, NEW b \in Bookings,
             bookingStatus[b] = "PENDING", bookingStatus'[b] = "CONFIRMED"
      PROVE  \E q \in BookingCommands :
                /\ bookingCmd[q].stage = "checked"
                /\ bookingCmd[q].booking = b
                /\ bookingCmd[q].seen = BookingFacts(b)
  <2>1. PICK q \in BookingCommands : CommitBookingCmd(q) /\ bookingCmd[q].booking = b
    BY <1>1, ConfirmSteps
  <2>2. /\ bookingCmd[q].stage = "checked"
        /\ BookingTokenMatches(bookingCmd[q])
    BY <2>1 DEF CommitBookingCmd, BookingAccepts
  <2>3. PICK n, r : bookingCmd[q].seen = FactsWith(b, n, r)
    BY <1>1, <2>1, <2>2 DEF FreshIsCurrent, BookingCurrent, BookingTokenMatches, InFlight
  <2>4. n = SeatsOf(Confirmed) /\ r = [x \in BookingRules |-> policy[x]]
    BY <2>2, <2>3 DEF BookingTokenMatches, FactsWith
  <2>5. bookingCmd[q].seen = BookingFacts(b)
    BY <2>3, <2>4 DEF FactsWith, BookingFacts
  <2> QED
    BY <2>1, <2>2, <2>5
<1>2. TypeOK /\ FreshIsCurrent /\ [Next]_vars =>
        [\A b \in Bookings :
          bookingStatus[b] = "PENDING" /\ bookingStatus'[b] = "CONFIRMED" =>
             \E q \in BookingCommands :
                /\ bookingCmd[q].stage = "checked"
                /\ bookingCmd[q].booking = b
                /\ bookingCmd[q].seen = BookingFacts(b)]_vars
  BY <1>1
<1> QED
  BY <1>2, FreshInvariant, PTL DEF Spec, ConfirmsWhatWasShown

\* trip-lifecycle.service apply(): a trip ends with the bookings, rosters and captured
\* payments of the preview, or the command is refused.
THEOREM EndsShown == Spec => EndsWhatWasShown
<1>1. ASSUME TypeOK, FreshIsCurrent, [Next]_vars, tripStatus \notin Terminal, tripStatus' \in Terminal
      PROVE  \E q \in TripCommands :
                /\ tripCmd[q].stage = "checked"
                /\ tripCmd[q].seen = TripFacts
  <2>1. PICK q \in TripCommands : CommitTripCmd(q)
    BY <1>1, EndSteps
  <2>2. tripCmd[q].stage = "checked" /\ tripCmd[q].fresh
    BY <2>1 DEF CommitTripCmd, TripAccepts
  <2> QED
    BY <1>1, <2>2 DEF FreshIsCurrent, TripCurrent, InFlight
<1>2. TypeOK /\ FreshIsCurrent /\ [Next]_vars =>
        [(tripStatus \notin Terminal /\ tripStatus' \in Terminal) =>
          \E q \in TripCommands :
             /\ tripCmd[q].stage = "checked"
             /\ tripCmd[q].seen = TripFacts]_vars
  BY <1>1
<1> QED
  BY <1>2, FreshInvariant, PTL DEF Spec, EndsWhatWasShown

==============================================================================
