---------------------------- MODULE CrewCalendar ----------------------------
(***************************************************************************)
(* The calendar of resources and people: who is allocated to which trip    *)
(* or meeting (calendar-allocation.service, administrative-affairs), who   *)
(* trains whom and when (training-session.service), and the crew of a trip *)
(* being offered it, answering and being replaced (crew-assignment.service *)
(* and its escalation scheduler).                                          *)
(*                                                                         *)
(* A reservation is a row with a half-open interval; an interval is the    *)
(* set of instants it contains, so that adjacent ones do not overlap.      *)
(* Every writer of a reservation is one serializable transaction, one step *)
(* here.  A rejected or overdue assignment is replaced in three steps, a   *)
(* search between two transactions, by a worker: a request or the          *)
(* scheduler.                                                              *)
(***************************************************************************)
EXTENDS Naturals, FiniteSets

CONSTANTS
    Trips, Meetings, Sessions,  \* identities of what reserves time
    Resources,          \* the CalendarResource rows
    AccountOf,          \* the account a human resource refers to, NONE for boats and sites
    RoleOf,             \* CalendarResource.type
    Switchable,         \* the resources setActive() is called on
    People,             \* the accounts
    Times,              \* the intervals in use, as sets of instants
    AllocationChoices,  \* the sets of resources an operator may allocate
    Assignments,        \* identities of the CrewAssignment rows
    Workers,            \* respond() and escalatePending() calls in flight
    TrainingStates,     \* whether the training conflict rule may be enforced, not enforced
    NONE                \* no account, no assignment, no resource

ASSUME PeopleAssumption == /\ AccountOf \in [Resources -> People \cup {NONE}]
                           /\ NONE \notin People \cup Assignments \cup Resources \cup Trips \cup Meetings
ASSUME ReservationAssumption == /\ Trips \cap Meetings = {}
                                /\ AllocationChoices \subseteq SUBSET Resources
                                /\ Switchable \subseteq Resources
                                /\ TrainingStates \subseteq BOOLEAN

VARIABLES
    tripStatus,     \* Trip.status: OPEN stands for OPEN and CLOSED, ENDED for the other two
    tripAt,         \* Trip.startsAt and Trip.endsAt
    allocations,    \* the ACTIVE CalendarAllocation rows
    active,         \* the resources with CalendarResource.active
    disabling,      \* resources a setActive() call found idle and is about to disable
    session,        \* the TrainingSession rows
    enforced,       \* whether the rule TRAINING/SCHEDULE_CONFLICT is enforced
    assignment,     \* the CrewAssignment rows
    worker          \* the calls that look for a replacement

calendar == <<tripStatus, tripAt, allocations>>
assets == <<active, disabling>>
training == <<session, enforced>>
crew == <<assignment, worker>>
vars == <<tripStatus, tripAt, allocations, active, disabling, session, enforced, assignment, worker>>

-----------------------------------------------------------------------------
\* The domains.

LiveSession == {"SCHEDULED", "CHECK_IN_OPEN", "IN_PROGRESS"}
SessionRecords ==
    [status : LiveSession \cup {"NONE", "COMPLETED", "CANCELLED"},
     instructor : People \cup {NONE}, student : People \cup {NONE}, at : Times \cup {{}}]
AllocationRecords == [event : Trips \cup Meetings, resource : Resources, at : Times]
AssignmentRecords ==
    [status : {"NONE", "PENDING", "ACCEPTED", "REJECTED", "REASSIGNED"},
     trip : Trips \cup {NONE}, resource : Resources \cup {NONE}, replaces : Assignments \cup {NONE}]
WorkerRecords ==
    [stage : {"idle", "searching", "chosen"}, escalates : BOOLEAN,
     assignment : Assignments \cup {NONE}, replacement : Resources \cup {NONE}]

NoSession == [status |-> "NONE", instructor |-> NONE, student |-> NONE, at |-> {}]
NoAssignment == [status |-> "NONE", trip |-> NONE, resource |-> NONE, replaces |-> NONE]
Idle == [stage |-> "idle", escalates |-> FALSE, assignment |-> NONE, replacement |-> NONE]

-----------------------------------------------------------------------------
\* Who is busy when.

Overlap(i, j) == i \cap j # {}

\* The people behind a set of resources, and those of a session.
Humans(R) == {AccountOf[r] : r \in R} \ {NONE}
Party(s) == {session[s].instructor, session[s].student}

AllocationsOf(e) == {x \in allocations : x.event = e}
Allocated(e) == {x.resource : x \in AllocationsOf(e)}
LiveSessions == {s \in Sessions : session[s].status \in LiveSession}

\* Some active allocation of these resources at this time, of another event than e.
ResourceBusy(R, at, e) ==
    \E x \in allocations : x.event # e /\ x.resource \in R /\ Overlap(x.at, at)

\* Mutant of CalendarBusy: people are told apart by their resource of the first role.
CalendarBusyByRole(who, at, e) ==
    \E x \in allocations :
        /\ x.event # e
        /\ AccountOf[x.resource] \in who /\ RoleOf[x.resource] = "INSTRUCTOR"
        /\ Overlap(x.at, at)

\* calendarBusyAccounts(): an active allocation of one of these people, through any of
\* their human resources, inactive ones included.
CalendarBusy(who, at, e) ==
    \E x \in allocations : x.event # e /\ AccountOf[x.resource] \in who /\ Overlap(x.at, at)

\* A session in progress keeps its party busy beyond its planned end.
Occupies(s, at) == session[s].status = "IN_PROGRESS" \/ Overlap(session[s].at, at)

\* trainingBusyAccounts(): a live session of one of these people, unless the rule is relaxed.
TrainingBusy(who, at) ==
    enforced /\ \E s \in LiveSessions : Party(s) \cap who # {} /\ Occupies(s, at)

\* assertCalendarHumanAvailable().
HumansAvailable(R, at, e) == ~CalendarBusy(Humans(R), at, e) /\ ~TrainingBusy(Humans(R), at)

\* Mutant of SessionAvailable: training looks at training only.
SessionAvailableInTraining(who, at, s) ==
    enforced => ~\E o \in LiveSessions \ {s} : Party(o) \cap who # {} /\ Occupies(o, at)

\* assertAvailable() of a training session, s being the session itself.
SessionAvailable(who, at, s) ==
    enforced => /\ ~\E o \in LiveSessions \ {s} : Party(o) \cap who # {} /\ Occupies(o, at)
                /\ ~CalendarBusy(who, at, NONE)

-----------------------------------------------------------------------------
Init ==
    /\ tripStatus = [t \in Trips |-> "DRAFT"]
    /\ tripAt \in [Trips -> Times]
    /\ allocations = {}
    /\ active = Resources
    /\ disabling = {}
    /\ session = [s \in Sessions |-> NoSession]
    /\ enforced \in TrainingStates
    /\ assignment = [a \in Assignments |-> NoAssignment]
    /\ worker = [w \in Workers |-> Idle]

-----------------------------------------------------------------------------
\* Trips.

\* Mutant of EditDraft: the allocations keep the dates they were made for.
EditDraftFreely(t, at) ==
    /\ tripStatus[t] = "DRAFT"
    /\ tripAt' = [tripAt EXCEPT ![t] = at]
    /\ UNCHANGED <<tripStatus, allocations, assets, training, crew>>

\* save() of center-trip-management and marine-trip-management on a draft.
EditDraft(t, at) ==
    /\ tripStatus[t] = "DRAFT"
    /\ AllocationsOf(t) = {}
    /\ tripAt' = [tripAt EXCEPT ![t] = at]
    /\ UNCHANGED <<tripStatus, allocations, assets, training, crew>>

Publish(t) ==
    /\ tripStatus[t] = "DRAFT"
    /\ tripStatus' = [tripStatus EXCEPT ![t] = "OPEN"]
    /\ UNCHANGED <<tripAt, allocations, assets, training, crew>>

\* trip-lifecycle.service cancels or completes the trip: its allocations are released,
\* its assignments stay as they are.
EndTrip(t) ==
    /\ tripStatus[t] # "ENDED"
    /\ tripStatus' = [tripStatus EXCEPT ![t] = "ENDED"]
    /\ allocations' = allocations \ AllocationsOf(t)
    /\ UNCHANGED <<tripAt, assets, training, crew>>

-----------------------------------------------------------------------------
\* Allocations.

\* calendar-allocation.service allocate(): the trip's allocations are replaced.
Allocate(t, R) ==
    /\ tripStatus[t] # "ENDED"
    /\ R \subseteq active
    /\ HumansAvailable(R, tripAt[t], t)
    /\ ~ResourceBusy(R, tripAt[t], t)
    /\ allocations' = (allocations \ AllocationsOf(t))
                         \cup {[event |-> t, resource |-> r, at |-> tripAt[t]] : r \in R}
    /\ UNCHANGED <<tripStatus, tripAt, assets, training, crew>>

\* Mutant of ScheduleMeeting: the resources are locked but their calendar is not read.
ScheduleMeetingBlindly(m, R, at) ==
    /\ AllocationsOf(m) = {} /\ R # {}
    /\ R \subseteq active
    /\ allocations' = allocations \cup {[event |-> m, resource |-> r, at |-> at] : r \in R}
    /\ UNCHANGED <<tripStatus, tripAt, assets, training, crew>>

\* scheduleMeeting() of administrative-affairs: it asks for the resources themselves, not
\* for the people behind them, and nothing ever releases a meeting.
ScheduleMeeting(m, R, at) ==
    /\ AllocationsOf(m) = {} /\ R # {}
    /\ R \subseteq active
    /\ ~ResourceBusy(R, at, NONE)
    /\ allocations' = allocations \cup {[event |-> m, resource |-> r, at |-> at] : r \in R}
    /\ UNCHANGED <<tripStatus, tripAt, assets, training, crew>>

\* calendar-resource.service setActive(): no trip to come holds the resource ...
CheckIdle(r) ==
    /\ r \in active \ disabling
    /\ \A t \in Trips : r \notin Allocated(t)
    /\ disabling' = disabling \cup {r}
    /\ UNCHANGED <<calendar, active, training, crew>>

\* ... and it is disabled, in a statement of its own.
Disable(r) ==
    /\ r \in disabling
    /\ disabling' = disabling \ {r}
    /\ active' = active \ {r}
    /\ UNCHANGED <<calendar, training, crew>>

Enable(r) ==
    /\ r \notin active
    /\ active' = active \cup {r}
    /\ UNCHANGED <<calendar, disabling, training, crew>>

-----------------------------------------------------------------------------
\* Training.  The time windows of check-in and start only delay what is enabled here.

\* create().
CreateSession(s, instructor, student, at) ==
    /\ session[s].status = "NONE"
    /\ SessionAvailable({instructor, student}, at, s)
    /\ session' = [session EXCEPT ![s] = [status |-> "SCHEDULED", instructor |-> instructor,
                                          student |-> student, at |-> at]]
    /\ UNCHANGED <<calendar, assets, enforced, crew>>

\* reschedule(), before the check-in opens.
Reschedule(s, at) ==
    /\ session[s].status = "SCHEDULED"
    /\ SessionAvailable(Party(s), at, s)
    /\ session' = [session EXCEPT ![s].at = at]
    /\ UNCHANGED <<calendar, assets, enforced, crew>>

\* training-assignment.service: one session, or several of one course in one transaction,
\* go to another instructor.
Transfer(S, instructor) ==
    /\ \A s \in S : session[s].status = "SCHEDULED" /\ session[s].instructor # instructor
    /\ \A s, o \in S : session[s].student = session[o].student
    /\ \A s \in S : SessionAvailable({instructor, session[s].student}, session[s].at, s)
    /\ session' = [s \in Sessions |->
                      IF s \in S THEN [session[s] EXCEPT !.instructor = instructor] ELSE session[s]]
    /\ UNCHANGED <<calendar, assets, enforced, crew>>

\* Mutant of StartSession: the calendar is not read again.
StartSessionAnyway(s) ==
    /\ session[s].status = "CHECK_IN_OPEN"
    /\ session' = [session EXCEPT ![s].status = "IN_PROGRESS"]
    /\ UNCHANGED <<calendar, assets, enforced, crew>>

\* act(): START reads the calendar again, it may have filled while the rule was relaxed.
StartSession(s) ==
    /\ session[s].status = "CHECK_IN_OPEN"
    /\ SessionAvailable(Party(s), session[s].at, s)
    /\ session' = [session EXCEPT ![s].status = "IN_PROGRESS"]
    /\ UNCHANGED <<calendar, assets, enforced, crew>>

\* Mutant of MoveSession: a cancelled session loses its record.
MoveSessionForgetting(s) ==
    /\ session[s].status \in LiveSession
    /\ session' = [session EXCEPT ![s] = [NoSession EXCEPT !.status = "CANCELLED"]]
    /\ UNCHANGED <<calendar, assets, enforced, crew>>

\* act(): OPEN, COMPLETE and CANCEL.
MoveSession(s) ==
    /\ \E to \in {"CHECK_IN_OPEN", "COMPLETED", "CANCELLED"} :
          /\ to = "CHECK_IN_OPEN" => session[s].status = "SCHEDULED"
          /\ to = "COMPLETED" => session[s].status = "IN_PROGRESS"
          /\ to = "CANCELLED" => session[s].status \in LiveSession
          /\ session' = [session EXCEPT ![s].status = to]
    /\ UNCHANGED <<calendar, assets, enforced, crew>>

\* policy-control.service setState() of TRAINING/SCHEDULE_CONFLICT.
SetTraining(state) ==
    /\ enforced' = state
    /\ UNCHANGED <<calendar, assets, session, crew>>

-----------------------------------------------------------------------------
\* Crew.

\* The account has a pending or accepted assignment of the trip.
Engaged(t) == {AccountOf[assignment[a].resource] :
                  a \in {b \in Assignments : /\ assignment[b].trip = t
                                             /\ assignment[b].status \in {"PENDING", "ACCEPTED"}}}

\* eligibleResources(), before qualifications, which may leave out any of them.
Eligible(t) ==
    {r \in active :
        /\ AccountOf[r] # NONE
        /\ AccountOf[r] \notin Engaged(t)
        /\ ~ResourceBusy({r}, tripAt[t], t)
        /\ HumansAvailable({r}, tripAt[t], t)}

FreeRows == {a \in Assignments : assignment[a].status = "NONE"}

\* dispatchForConfirmedBooking(): every allocated, qualified member who has not been asked
\* is offered the trip.
Dispatch(t) ==
    /\ tripStatus[t] = "OPEN"
    /\ \E asked \in SUBSET (Eligible(t) \cap Allocated(t)) \ {{}} :
          \E row \in [asked -> FreeRows] :
             /\ \A r, q \in asked : row[r] = row[q] => r = q
             /\ assignment' = [a \in Assignments |->
                   IF \E r \in asked : row[r] = a
                   THEN [status |-> "PENDING", trip |-> t, replaces |-> NONE,
                         resource |-> CHOOSE r \in asked : row[r] = a]
                   ELSE assignment[a]]
    /\ UNCHANGED <<calendar, assets, training, worker>>

\* respond() with ACCEPTED.
Accept(a) ==
    /\ assignment[a].status = "PENDING"
    /\ tripStatus[assignment[a].trip] # "ENDED"
    /\ assignment' = [assignment EXCEPT ![a].status = "ACCEPTED"]
    /\ UNCHANGED <<calendar, assets, training, worker>>

\* respond() with REJECTED: the answer commits, then the call looks for a replacement.
Reject(w, a) ==
    /\ worker[w] = Idle
    /\ assignment[a].status = "PENDING"
    /\ tripStatus[assignment[a].trip] # "ENDED"
    /\ assignment' = [assignment EXCEPT ![a].status = "REJECTED"]
    /\ worker' = [worker EXCEPT ![w] = [Idle EXCEPT !.stage = "searching", !.assignment = a]]
    /\ UNCHANGED <<calendar, assets, training>>

\* escalatePending() reads a pending assignment close to its trip's start.
Escalate(w, a) ==
    /\ worker[w] = Idle
    /\ assignment[a].status = "PENDING"
    /\ tripStatus[assignment[a].trip] = "OPEN"
    /\ worker' = [worker EXCEPT ![w] = [stage |-> "searching", escalates |-> TRUE,
                                        assignment |-> a, replacement |-> NONE]]
    /\ UNCHANGED <<calendar, assets, training, assignment>>

\* findReplacement(), outside any transaction.
FindReplacement(w, r) ==
    LET old == assignment[worker[w].assignment] IN
    /\ worker[w].stage = "searching"
    /\ r \in Eligible(old.trip)
    /\ RoleOf[r] = RoleOf[old.resource]
    /\ AccountOf[r] # AccountOf[old.resource]
    /\ worker' = [worker EXCEPT ![w].stage = "chosen", ![w].replacement = r]
    /\ UNCHANGED <<calendar, assets, training, assignment>>

\* replaceAssignment(), the writes: the allocation moves to the replacement, if there still
\* is one, and the replacement is offered the trip.
Replaced(w, n) ==
    LET c == worker[w]
        old == assignment[c.assignment]
        moved == {x \in AllocationsOf(old.trip) : x.resource = old.resource}
    IN
    /\ assignment' = [assignment EXCEPT
          ![c.assignment].status = IF c.escalates THEN "REASSIGNED" ELSE @,
          ![n] = [status |-> "PENDING", trip |-> old.trip, resource |-> c.replacement,
                  replaces |-> c.assignment]]
    /\ allocations' = (allocations \ moved)
                         \cup {[x EXCEPT !.resource = c.replacement] : x \in moved}
    /\ worker' = [worker EXCEPT ![w] = Idle]
    /\ UNCHANGED <<tripStatus, tripAt, assets, training>>

\* Mutants of TripGoesOn and StillUnanswered: what the search or the list said is trusted.
TripGoesOnAsRead(t) == TRUE
StillUnansweredAsRead(c) == TRUE

\* What replaceAssignment() checks before it writes.
TripGoesOn(t) == tripStatus[t] # "ENDED"
StillAvailable(r, t) ==
    /\ r \in active
    /\ HumansAvailable({r}, tripAt[t], t)
    /\ ~ResourceBusy({r}, tripAt[t], t)
StillUnanswered(c) == c.escalates => assignment[c.assignment].status = "PENDING"

\* replaceAssignment(), the transaction.
Replace(w) ==
    LET c == worker[w]
        t == assignment[c.assignment].trip
    IN
    /\ c.stage = "chosen"
    /\ TripGoesOn(t)
    /\ StillAvailable(c.replacement, t)
    /\ StillUnanswered(c)
    /\ \E n \in FreeRows : Replaced(w, n)

\* Nobody was found, the transaction refused, or the process died in between.
GiveUp(w) ==
    /\ worker[w] # Idle
    /\ worker' = [worker EXCEPT ![w] = Idle]
    /\ UNCHANGED <<calendar, assets, training, assignment>>

-----------------------------------------------------------------------------
MoveTrip ==
    \E t \in Trips :
       \/ \E at \in Times : EditDraft(t, at)
       \/ Publish(t)
       \/ EndTrip(t)
       \/ \E R \in AllocationChoices : Allocate(t, R)
       \/ Dispatch(t)

Meet == \E m \in Meetings, R \in AllocationChoices, at \in Times : ScheduleMeeting(m, R, at)

KeepResources == \E r \in Switchable : CheckIdle(r) \/ Disable(r) \/ Enable(r)

Train ==
    \/ \E s \in Sessions :
          \/ \E i, p \in People, at \in Times : CreateSession(s, i, p, at)
          \/ \E at \in Times : Reschedule(s, at)
          \/ StartSession(s)
          \/ MoveSession(s)
    \/ \E S \in (SUBSET Sessions) \ {{}}, i \in People : Transfer(S, i)
    \/ \E state \in TrainingStates : SetTraining(state)

ReplaceCrew ==
    \/ \E a \in Assignments : Accept(a)
    \/ \E w \in Workers :
          \/ \E a \in Assignments : Reject(w, a) \/ Escalate(w, a)
          \/ \E r \in Resources : FindReplacement(w, r)
          \/ Replace(w)
          \/ GiveUp(w)

Next == MoveTrip \/ Meet \/ KeepResources \/ Train \/ ReplaceCrew

Spec == Init /\ [][Next]_vars

-----------------------------------------------------------------------------
\* What the calendar promises.

\* Every row keeps its type: a session keeps its party and its time however it ends, an
\* assignment its trip and resource, and a worker holds an assignment that exists.
TypeOK ==
    /\ tripStatus \in [Trips -> {"DRAFT", "OPEN", "ENDED"}]
    /\ tripAt \in [Trips -> Times]
    /\ allocations \subseteq AllocationRecords
    /\ active \subseteq Resources
    /\ disabling \subseteq Resources
    /\ session \in [Sessions -> SessionRecords]
    /\ \A s \in Sessions : session[s].status # "NONE" => Party(s) \subseteq People
    /\ enforced \in BOOLEAN
    /\ assignment \in [Assignments -> AssignmentRecords]
    /\ worker \in [Workers -> WorkerRecords]
    /\ \A a \in Assignments : assignment[a].status # "NONE" =>
          assignment[a].trip \in Trips /\ assignment[a].resource \in Resources
    /\ \A w \in Workers : worker[w].stage # "idle" =>
          /\ worker[w].assignment \in Assignments
          /\ assignment[worker[w].assignment].status # "NONE"
    /\ \A w \in Workers : worker[w].stage = "chosen" => worker[w].replacement \in Resources

\* "The account cannot be allocated to two overlapping trips through different human role
\* resource IDs": not by an operator, not by a replacement found before the other trip was
\* staffed, not by moving a draft that is already staffed, and whatever the training rule.
NobodyOnTwoTrips ==
    \A x, y \in allocations :
       /\ x.event \in Trips /\ y.event \in Trips /\ x.event # y.event
       /\ AccountOf[x.resource] # NONE /\ AccountOf[x.resource] = AccountOf[y.resource]
       => ~Overlap(tripAt[x.event], tripAt[y.event])

\* A resource is never reserved by two events at once, meetings included.
ResourceExclusive ==
    \A x, y \in allocations :
       x.resource = y.resource /\ x.event # y.event => ~Overlap(x.at, y.at)

\* An allocation is for the time of its trip: the dates of a staffed draft do not move.
AllocationsFollowTrip ==
    \A x \in allocations : x.event \in Trips => x.at = tripAt[x.event]

\* The session's own time is also that of a trip its party is allocated to, or of another
\* live session of theirs: what it clashes with.
Clashes(s) ==
    {x.event : x \in {y \in allocations : /\ y.event \in Trips
                                         /\ AccountOf[y.resource] \in Party(s)
                                         /\ Overlap(y.at, session[s].at)}}
    \cup {o \in LiveSessions \ {s} :
             Party(o) \cap Party(s) # {} /\ Overlap(session[o].at, session[s].at)}
Clashing == {clash \in LiveSessions \X (Trips \cup Sessions) : clash[2] \in Clashes(clash[1])}

\* Under the training rule nobody comes to train and sail, or to train twice, at the same
\* time: each side reads the other's rows before it writes its own, and a clash made while
\* the rule was relaxed is not joined by another.
NoNewClash == [][enforced => Clashing' \subseteq Clashing]_vars

\* A session whose time filled up while the rule was relaxed does not start under it.
StartsUndisturbed ==
    [][\A s \in Sessions :
          /\ session[s].status # "IN_PROGRESS" /\ session'[s].status = "IN_PROGRESS"
          /\ enforced
          => Clashes(s) = {}]_vars

\* An answer is final: a rejection, an acceptance or an escalation that comes second, from a
\* page or a list read before, changes nothing.
AnswerIsFinal ==
    [][\A a \in Assignments :
          assignment[a].status \in {"ACCEPTED", "REJECTED", "REASSIGNED"} =>
             assignment'[a] = assignment[a]]_vars

\* The readiness of a trip counts the assignments nobody replaced: a replaced one is no
\* longer live, and it has one successor, though its rejection and its escalation may race.
Successors(a) == {n \in Assignments : assignment[n].replaces = a}
ReplacedOnce ==
    \A a \in Assignments : Successors(a) # {} =>
       /\ assignment[a].status \in {"REJECTED", "REASSIGNED"}
       /\ \A n, m \in Successors(a) : n = m

\* Once a trip has ended nobody is offered it, answers for it or is reserved for it, though
\* a replacement was being looked for when it ended.
EndedTripIsLeftAlone ==
    [][\A t \in Trips : tripStatus[t] = "ENDED" =>
          /\ AllocationsOf(t)' = {}
          /\ \A a \in Assignments :
                assignment[a].trip = t \/ assignment'[a].trip = t =>
                   assignment'[a] = assignment[a]]_vars

\* "Resource has an active future allocation and cannot be disabled."
DisabledIsIdle ==
    [][\A r \in active \ active' : \A t \in Trips : r \notin Allocated(t)]_vars

=============================================================================
