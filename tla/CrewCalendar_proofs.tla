------------------------- MODULE CrewCalendar_proofs -------------------------
(***************************************************************************)
(* Proofs about the calendar: nobody and nothing is reserved twice at one  *)
(* time, whoever reserves and however late; training under its rule makes  *)
(* no new clash; an answer of the crew is final, a refused or overdue      *)
(* assignment has one successor, and an ended trip is left alone.          *)
(***************************************************************************)
EXTENDS CrewCalendar, TLAPS

-----------------------------------------------------------------------------
\* Types.

LEMMA CrewInitTypes == Init => TypeOK
<1> SUFFICES ASSUME Init PROVE TypeOK
  OBVIOUS
<1>1. NoSession \in SessionRecords
  BY DEF NoSession, SessionRecords, LiveSession
<1>2. NoAssignment \in AssignmentRecords
  BY DEF NoAssignment, AssignmentRecords
<1>3. Idle \in WorkerRecords
  BY DEF Idle, WorkerRecords
<1> QED
  BY <1>1, <1>2, <1>3, ReservationAssumption
     DEF Init, TypeOK, NoSession, NoAssignment, Idle

\* The operator and the meetings: reservations of a known event, resource and time.
LEMMA MoveTripTypes == ASSUME TypeOK, MoveTrip PROVE TypeOK'
<1> PICK t \in Trips :
       \/ \E at \in Times : EditDraft(t, at)
       \/ Publish(t)
       \/ EndTrip(t)
       \/ \E R \in AllocationChoices : Allocate(t, R)
       \/ Dispatch(t)
  BY DEF MoveTrip
<1>1. CASE \E at \in Times : EditDraft(t, at)
  BY <1>1 DEF TypeOK, EditDraft, Party, assets, training, crew
<1>2. CASE Publish(t)
  BY <1>2 DEF TypeOK, Publish, Party, assets, training, crew
<1>3. CASE EndTrip(t)
  BY <1>3 DEF TypeOK, EndTrip, Party, assets, training, crew
<1>4. CASE \E R \in AllocationChoices : Allocate(t, R)
  <2> PICK R \in AllocationChoices : Allocate(t, R)
    BY <1>4
  <2>1. \A r \in R : [event |-> t, resource |-> r, at |-> tripAt[t]] \in AllocationRecords
    BY DEF TypeOK, Allocate, AllocationRecords
  <2> QED
    BY <2>1 DEF TypeOK, Allocate, Party, assets, training, crew
<1>5. CASE Dispatch(t)
  <2>1. PICK asked \in SUBSET (Eligible(t) \cap Allocated(t)) :
            \E row \in [asked -> FreeRows] :
               assignment' = [a \in Assignments |->
                   IF \E r \in asked : row[r] = a
                   THEN [status |-> "PENDING", trip |-> t, replaces |-> NONE,
                         resource |-> CHOOSE r \in asked : row[r] = a]
                   ELSE assignment[a]]
    BY <1>5 DEF Dispatch
  <2>2. PICK row \in [asked -> FreeRows] :
               assignment' = [a \in Assignments |->
                   IF \E r \in asked : row[r] = a
                   THEN [status |-> "PENDING", trip |-> t, replaces |-> NONE,
                         resource |-> CHOOSE r \in asked : row[r] = a]
                   ELSE assignment[a]]
    BY <2>1
  <2>3. asked \subseteq Resources
    BY DEF Eligible, TypeOK
  <2>4. \A a \in Assignments : \/ assignment'[a] = assignment[a]
                               \/ /\ assignment'[a] \in AssignmentRecords
                                  /\ assignment'[a].status # "NONE"
                                  /\ assignment'[a].trip \in Trips
                                  /\ assignment'[a].resource \in Resources
    BY <2>2, <2>3 DEF AssignmentRecords
  <2>5. assignment' \in [Assignments -> AssignmentRecords]
    BY <2>2, <2>4 DEF TypeOK
  <2> QED
    BY <1>5, <2>4, <2>5 DEF TypeOK, Dispatch, Party, calendar, assets, training
<1> QED
  BY <1>1, <1>2, <1>3, <1>4, <1>5

LEMMA MeetTypes == ASSUME TypeOK, Meet PROVE TypeOK'
<1> PICK m \in Meetings, R \in AllocationChoices, at \in Times : ScheduleMeeting(m, R, at)
  BY DEF Meet
<1>1. \A r \in R : [event |-> m, resource |-> r, at |-> at] \in AllocationRecords
  BY DEF TypeOK, ScheduleMeeting, AllocationRecords
<1> QED
  BY <1>1 DEF TypeOK, ScheduleMeeting, Party, assets, training, crew

LEMMA KeepResourcesTypes == ASSUME TypeOK, KeepResources PROVE TypeOK'
<1> PICK r \in Switchable : CheckIdle(r) \/ Disable(r) \/ Enable(r)
  BY DEF KeepResources
<1> QED
  BY ReservationAssumption
     DEF TypeOK, CheckIdle, Disable, Enable, Party, calendar, training, crew

\* A session that is written keeps a party of people.
LEMMA SessionsWritten ==
    ASSUME TypeOK, UNCHANGED <<calendar, assets, enforced, crew>>,
           session' \in [Sessions -> SessionRecords],
           \A s \in Sessions : session'[s] = session[s]
              \/ {session'[s].instructor, session'[s].student} \subseteq People
    PROVE  TypeOK'
  BY DEF TypeOK, Party, calendar, assets, crew

LEMMA TrainTypes == ASSUME TypeOK, Train PROVE TypeOK'
<1>1. CASE \E s \in Sessions, i, p \in People, at \in Times : CreateSession(s, i, p, at)
  <2> PICK s \in Sessions, i \in People, p \in People, at \in Times : CreateSession(s, i, p, at)
    BY <1>1
  <2>1. [status |-> "SCHEDULED", instructor |-> i, student |-> p, at |-> at] \in SessionRecords
    BY DEF SessionRecords, LiveSession
  <2> QED
    BY <2>1, SessionsWritten DEF TypeOK, CreateSession
<1>2. CASE \E s \in Sessions, at \in Times : Reschedule(s, at)
  <2> PICK s \in Sessions, at \in Times : Reschedule(s, at)
    BY <1>2
  <2>1. [session[s] EXCEPT !.at = at] \in SessionRecords
    BY DEF TypeOK, SessionRecords
  <2>2. {session[s].instructor, session[s].student} \subseteq People
    BY DEF TypeOK, Reschedule, Party
  <2> QED
    BY <2>1, <2>2, SessionsWritten DEF TypeOK, Reschedule, SessionRecords
<1>3. CASE \E s \in Sessions : StartSession(s) \/ MoveSession(s)
  <2> PICK s \in Sessions, to \in {"CHECK_IN_OPEN", "IN_PROGRESS", "COMPLETED", "CANCELLED"} :
         /\ session[s].status \in LiveSession
         /\ session' = [session EXCEPT ![s].status = to]
         /\ UNCHANGED <<calendar, assets, enforced, crew>>
    BY <1>3 DEF StartSession, MoveSession, LiveSession
  <2>1. [session[s] EXCEPT !.status = to] \in SessionRecords
    BY DEF TypeOK, SessionRecords, LiveSession
  <2>2. {session[s].instructor, session[s].student} \subseteq People
    BY DEF TypeOK, Party, LiveSession
  <2> QED
    BY <2>1, <2>2, SessionsWritten DEF TypeOK, SessionRecords
<1>4. CASE \E S \in SUBSET Sessions, i \in People : Transfer(S, i)
  <2> PICK S \in SUBSET Sessions, i \in People : Transfer(S, i)
    BY <1>4
  <2>1. \A s \in S : [session[s] EXCEPT !.instructor = i] \in SessionRecords
    BY DEF TypeOK, SessionRecords
  <2>2. \A s \in S : {session[s].instructor, session[s].student} \subseteq People
    BY DEF TypeOK, Transfer, Party
  <2>3. session' \in [Sessions -> SessionRecords]
    BY <2>1 DEF TypeOK, Transfer
  <2>4. \A s \in Sessions : session'[s] = session[s]
              \/ {session'[s].instructor, session'[s].student} \subseteq People
    BY <2>2 DEF TypeOK, Transfer, SessionRecords
  <2> QED
    BY <2>3, <2>4, SessionsWritten DEF Transfer
<1>5. CASE \E state \in TrainingStates : SetTraining(state)
  BY <1>5, ReservationAssumption DEF TypeOK, SetTraining, Party, calendar, assets, crew
<1> QED
  BY <1>1, <1>2, <1>3, <1>4, <1>5 DEF Train

\* Assignments and workers as a step may write them: an assignment, once made, keeps its trip.
LEMMA CrewWritten ==
    ASSUME TypeOK, UNCHANGED <<tripStatus, tripAt, assets, training>>,
           allocations' \subseteq AllocationRecords,
           assignment' \in [Assignments -> AssignmentRecords],
           worker' \in [Workers -> WorkerRecords],
           \A a \in Assignments : assignment'[a] = assignment[a] \/
              /\ assignment'[a].status # "NONE"
              /\ assignment'[a].trip \in Trips /\ assignment'[a].resource \in Resources,
           \A w \in Workers : worker'[w] = worker[w] \/ worker'[w].stage = "idle" \/
              /\ worker'[w].assignment \in Assignments
              /\ assignment'[worker'[w].assignment].status # "NONE"
              /\ worker'[w].stage = "chosen" => worker'[w].replacement \in Resources
    PROVE  TypeOK'
<1>1. \A a \in Assignments : assignment[a].status # "NONE" => assignment'[a].status # "NONE"
  OBVIOUS
<1> QED
  BY <1>1 DEF TypeOK, Party, assets, training

\* What replaceAssignment() writes, whichever row is free.
LEMMA ReplacedRows ==
    ASSUME TypeOK, NEW w \in Workers, NEW n \in FreeRows, Replaced(w, n), worker[w].stage = "chosen"
    PROVE  LET c == worker[w]
               old == assignment[c.assignment] IN
           /\ c.assignment \in Assignments /\ c.replacement \in Resources
           /\ old.status # "NONE" /\ old.trip \in Trips /\ old.resource \in Resources
           /\ n \in Assignments /\ n # c.assignment
           /\ assignment' \in [Assignments -> AssignmentRecords]
           /\ assignment'[n].status = "PENDING" /\ assignment'[n].trip = old.trip
           /\ assignment'[n].resource = c.replacement /\ assignment'[n].replaces = c.assignment
           /\ ~c.escalates => assignment'[c.assignment] = old
           /\ c.escalates => assignment'[c.assignment].status = "REASSIGNED"
           /\ assignment'[c.assignment].trip = old.trip
           /\ assignment'[c.assignment].resource = old.resource
           /\ assignment'[c.assignment].replaces = old.replaces
           /\ \A a \in Assignments \ {n, c.assignment} : assignment'[a] = assignment[a]
<1> DEFINE c == worker[w]
           old == assignment[c.assignment]
           row == [status |-> "PENDING", trip |-> old.trip, resource |-> c.replacement,
                   replaces |-> c.assignment]
<1>1. /\ c.assignment \in Assignments /\ c.replacement \in Resources
      /\ old.status # "NONE" /\ old.trip \in Trips /\ old.resource \in Resources
  BY DEF TypeOK
<1>2. n \in Assignments /\ n # c.assignment
  BY <1>1 DEF FreeRows
<1>3. row \in AssignmentRecords
  BY <1>1 DEF AssignmentRecords
<1>4. old \in AssignmentRecords
  BY <1>1 DEF TypeOK
<1>5. [old EXCEPT !.status = IF c.escalates THEN "REASSIGNED" ELSE @] \in AssignmentRecords
  BY <1>4 DEF AssignmentRecords
<1>6. assignment' = [assignment EXCEPT
          ![c.assignment].status = IF c.escalates THEN "REASSIGNED" ELSE @,
          ![n] = row]
  BY DEF Replaced
<1>7. /\ assignment'[n] = row
      /\ assignment'[c.assignment] = [old EXCEPT !.status = IF c.escalates THEN "REASSIGNED" ELSE @]
      /\ \A a \in Assignments \ {n, c.assignment} : assignment'[a] = assignment[a]
  BY <1>1, <1>2, <1>6 DEF TypeOK
<1>8. assignment' \in [Assignments -> AssignmentRecords]
  BY <1>1, <1>2, <1>3, <1>5, <1>6 DEF TypeOK
<1>9. /\ ~c.escalates => assignment'[c.assignment] = old
      /\ c.escalates => assignment'[c.assignment].status = "REASSIGNED"
      /\ assignment'[c.assignment].trip = old.trip
      /\ assignment'[c.assignment].resource = old.resource
      /\ assignment'[c.assignment].replaces = old.replaces
      /\ assignment'[n].status = "PENDING" /\ assignment'[n].trip = old.trip
      /\ assignment'[n].resource = c.replacement /\ assignment'[n].replaces = c.assignment
  BY <1>4, <1>7 DEF AssignmentRecords
<1> QED
  BY <1>1, <1>2, <1>7, <1>8, <1>9

\* The reservations that moved are the trip's, of the same time.
LEMMA MovedRows ==
    ASSUME TypeOK, NEW w \in Workers, NEW n \in FreeRows, Replaced(w, n), worker[w].stage = "chosen",
           NEW x \in allocations'
    PROVE  \/ x \in allocations
           \/ /\ x \in AllocationRecords
              /\ x.event = assignment[worker[w].assignment].trip
              /\ x.resource = worker[w].replacement
              /\ \E y \in AllocationsOf(x.event) : x.at = y.at
<1> DEFINE t == assignment[worker[w].assignment].trip
           moved == {y \in AllocationsOf(t) : y.resource = assignment[worker[w].assignment].resource}
<1>1. allocations' = (allocations \ moved) \cup {[y EXCEPT !.resource = worker[w].replacement] : y \in moved}
  BY DEF Replaced
<1>2. CASE x \in allocations
  BY <1>2
<1>3. CASE x \notin allocations
  <2>1. PICK y \in moved : x = [y EXCEPT !.resource = worker[w].replacement]
    BY <1>1, <1>3
  <2>2. y \in AllocationRecords /\ y.event = t /\ y \in AllocationsOf(t)
    BY DEF AllocationsOf, TypeOK
  <2>3. worker[w].replacement \in Resources
    BY ReplacedRows
  <2>4. x \in AllocationRecords /\ x.event = t /\ x.resource = worker[w].replacement /\ x.at = y.at
    BY <2>1, <2>2, <2>3 DEF AllocationRecords
  <2> QED
    BY <2>2, <2>4
<1> QED
  BY <1>2, <1>3

LEMMA ReplaceCrewTypes == ASSUME TypeOK, ReplaceCrew PROVE TypeOK'
<1>1. CASE \E a \in Assignments : Accept(a)
  <2> PICK a \in Assignments : Accept(a)
    BY <1>1
  <2>1. [assignment[a] EXCEPT !.status = "ACCEPTED"] \in AssignmentRecords
    BY DEF TypeOK, AssignmentRecords
  <2>2. assignment[a].trip \in Trips /\ assignment[a].resource \in Resources
    BY DEF TypeOK, Accept
  <2> QED
    BY <2>1, <2>2, CrewWritten DEF TypeOK, Accept, AssignmentRecords, calendar
<1>2. CASE \E w \in Workers, a \in Assignments : Reject(w, a)
  <2> PICK w \in Workers, a \in Assignments : Reject(w, a)
    BY <1>2
  <2> DEFINE busy == [Idle EXCEPT !.stage = "searching", !.assignment = a]
  <2>1. [assignment[a] EXCEPT !.status = "REJECTED"] \in AssignmentRecords
    BY DEF TypeOK, AssignmentRecords
  <2>2. assignment[a].trip \in Trips /\ assignment[a].resource \in Resources
    BY DEF TypeOK, Reject
  <2>3. busy \in WorkerRecords /\ busy.stage = "searching" /\ busy.assignment = a
    BY DEF Idle, WorkerRecords
  <2>4. assignment' \in [Assignments -> AssignmentRecords] /\ worker' \in [Workers -> WorkerRecords]
    BY <2>1, <2>3 DEF TypeOK, Reject
  <2>5. \A b \in Assignments : assignment'[b] = assignment[b] \/
              /\ assignment'[b].status # "NONE"
              /\ assignment'[b].trip \in Trips /\ assignment'[b].resource \in Resources
    BY <2>2 DEF TypeOK, Reject, AssignmentRecords
  <2>6. assignment'[a].status # "NONE"
    BY DEF TypeOK, Reject
  <2>7. \A v \in Workers : worker'[v] = worker[v] \/ worker'[v] = busy
    BY DEF TypeOK, Reject
  <2> QED
    BY <2>3, <2>4, <2>5, <2>6, <2>7, CrewWritten DEF TypeOK, Reject, calendar
<1>3. CASE \E w \in Workers, a \in Assignments : Escalate(w, a)
  <2> PICK w \in Workers, a \in Assignments : Escalate(w, a)
    BY <1>3
  <2> DEFINE busy == [stage |-> "searching", escalates |-> TRUE, assignment |-> a, replacement |-> NONE]
  <2>1. busy \in WorkerRecords
    BY DEF WorkerRecords
  <2>2. worker' \in [Workers -> WorkerRecords]
    BY <2>1 DEF TypeOK, Escalate
  <2>3. \A v \in Workers : worker'[v] = worker[v] \/ worker'[v] = busy
    BY DEF TypeOK, Escalate
  <2> QED
    BY <2>2, <2>3, CrewWritten DEF TypeOK, Escalate, calendar
<1>4. CASE \E w \in Workers, r \in Resources : FindReplacement(w, r)
  <2> PICK w \in Workers, r \in Resources : FindReplacement(w, r)
    BY <1>4
  <2> DEFINE found == [worker[w] EXCEPT !.stage = "chosen", !.replacement = r]
  <2>1. worker[w].assignment \in Assignments /\ assignment[worker[w].assignment].status # "NONE"
    BY DEF TypeOK, FindReplacement
  <2>2. found \in WorkerRecords /\ found.assignment = worker[w].assignment /\ found.replacement = r
    BY DEF TypeOK, WorkerRecords
  <2>3. worker' = [worker EXCEPT ![w] = found]
    BY DEF TypeOK, FindReplacement
  <2>4. \A v \in Workers : worker'[v] = worker[v] \/ worker'[v] = found
    BY <2>3 DEF TypeOK
  <2>5. worker' \in [Workers -> WorkerRecords]
    BY <2>2, <2>3 DEF TypeOK
  <2> HIDE DEF found
  <2> QED
    BY <2>1, <2>2, <2>4, <2>5, CrewWritten DEF TypeOK, FindReplacement, calendar
<1>5. CASE \E w \in Workers : Replace(w)
  <2> PICK w \in Workers, n \in FreeRows : worker[w].stage = "chosen" /\ Replaced(w, n)
    BY <1>5 DEF Replace
  <2>1. allocations' \subseteq AllocationRecords
    BY MovedRows DEF TypeOK
  <2>2. worker' \in [Workers -> WorkerRecords] /\ \A v \in Workers : worker'[v] = worker[v] \/ worker'[v] = Idle
    BY DEF TypeOK, Replaced, Idle, WorkerRecords
  <2>3. \A a \in Assignments : assignment'[a] = assignment[a] \/
              /\ assignment'[a].status # "NONE"
              /\ assignment'[a].trip \in Trips /\ assignment'[a].resource \in Resources
    <3> TAKE a \in Assignments
    <3>1. CASE a = n
      BY <3>1, ReplacedRows
    <3>2. CASE a = worker[w].assignment
      BY <3>2, ReplacedRows
    <3>3. CASE a \notin {n, worker[w].assignment}
      BY <3>3, ReplacedRows
    <3> QED
      BY <3>1, <3>2, <3>3
  <2>4. assignment' \in [Assignments -> AssignmentRecords] /\ UNCHANGED <<tripStatus, tripAt, assets, training>>
    BY ReplacedRows DEF Replaced
  <2>5. Idle.stage = "idle"
    BY DEF Idle
  <2> QED
    BY <2>1, <2>2, <2>3, <2>4, <2>5, CrewWritten
<1>6. CASE \E w \in Workers : GiveUp(w)
  <2> PICK w \in Workers : GiveUp(w)
    BY <1>6
  <2>1. worker' \in [Workers -> WorkerRecords] /\ \A v \in Workers : worker'[v] = worker[v] \/ worker'[v] = Idle
    BY DEF TypeOK, GiveUp, Idle, WorkerRecords
  <2> QED
    BY <2>1, CrewWritten DEF TypeOK, GiveUp, Idle, calendar
<1> QED
  BY <1>1, <1>2, <1>3, <1>4, <1>5, <1>6 DEF ReplaceCrew

LEMMA CrewNextTypes == TypeOK /\ [Next]_vars => TypeOK'
<1> SUFFICES ASSUME TypeOK, [Next]_vars PROVE TypeOK'
  OBVIOUS
<1>1. CASE UNCHANGED vars
  BY <1>1 DEF TypeOK, Party, vars
<1> QED
  BY <1>1, MoveTripTypes, MeetTypes, KeepResourcesTypes, TrainTypes, ReplaceCrewTypes DEF Next

\* The calendar keeps its rows and the trips their dates and assignments their types.
THEOREM CrewTypes == Spec => []TypeOK
<1> QED
  BY CrewInitTypes, CrewNextTypes, PTL DEF Spec

-----------------------------------------------------------------------------
\* Reservations.  Nobody is on two trips because an allocation is for the dates of its trip,
\* and those are looked at by everyone who reserves.

EndedIsReleased == \A t \in Trips : tripStatus[t] = "ENDED" => AllocationsOf(t) = {}

Reserved == AllocationsFollowTrip /\ EndedIsReleased /\ NobodyOnTwoTrips /\ ResourceExclusive

\* Reservations that stay, of trips that keep their dates and have not ended.
LEMMA ReservedStays ==
    ASSUME Reserved, allocations' \subseteq allocations,
           \A x \in allocations' : x.event \in Trips =>
              tripAt'[x.event] = tripAt[x.event] /\ tripStatus'[x.event] # "ENDED"
    PROVE  Reserved'
<1>1. AllocationsFollowTrip'
  BY DEF Reserved, AllocationsFollowTrip
<1>2. EndedIsReleased'
  BY DEF EndedIsReleased, AllocationsOf
<1>3. NobodyOnTwoTrips'
  BY DEF Reserved, NobodyOnTwoTrips
<1>4. ResourceExclusive'
  BY DEF Reserved, ResourceExclusive
<1> QED
  BY <1>1, <1>2, <1>3, <1>4 DEF Reserved

\* New reservations of R for the event e at a time when nobody else has them.
LEMMA ReservedMore ==
    ASSUME TypeOK, Reserved, UNCHANGED <<tripStatus, tripAt>>,
           NEW e, NEW R, NEW at, ~ResourceBusy(R, at, e),
           e \in Trips => /\ at = tripAt[e] /\ tripStatus[e] # "ENDED"
                          /\ ~CalendarBusy(Humans(R), at, e),
           \A x \in allocations' : x \in allocations \/ (x.event = e /\ x.resource \in R /\ x.at = at)
    PROVE  Reserved'
<1> DEFINE New(x) == x.event = e /\ x.resource \in R /\ x.at = at
<1>1. AllocationsFollowTrip'
  BY DEF Reserved, AllocationsFollowTrip
<1>2. EndedIsReleased'
  BY DEF Reserved, EndedIsReleased, AllocationsOf
<1>3. NobodyOnTwoTrips'
  <2> SUFFICES ASSUME NEW x \in allocations', NEW y \in allocations',
                      x.event \in Trips, y.event \in Trips, x.event # y.event,
                      AccountOf[x.resource] # NONE, AccountOf[x.resource] = AccountOf[y.resource]
               PROVE  ~Overlap(tripAt[x.event], tripAt[y.event])
    BY DEF NobodyOnTwoTrips
  <2>1. ASSUME NEW new, NEW old \in allocations, New(new), new.event \in Trips, old.event \in Trips,
               new.event # old.event, AccountOf[new.resource] # NONE,
               AccountOf[new.resource] = AccountOf[old.resource]
        PROVE  ~Overlap(tripAt[old.event], tripAt[new.event])
    <3>1. AccountOf[old.resource] \in Humans(R)
      BY <2>1 DEF Humans
    <3>2. ~Overlap(old.at, at)
      BY <2>1, <3>1 DEF CalendarBusy
    <3>3. old.at = tripAt[old.event]
      BY <2>1 DEF Reserved, AllocationsFollowTrip
    <3> QED
      BY <2>1, <3>2, <3>3
  <2>2. CASE x \in allocations /\ y \in allocations
    BY <2>2 DEF Reserved, NobodyOnTwoTrips
  <2>3. CASE New(x) /\ y \in allocations
    BY <2>1, <2>3 DEF Overlap
  <2>4. CASE x \in allocations /\ New(y)
    BY <2>1, <2>4 DEF Overlap
  <2> QED
    BY <2>2, <2>3, <2>4
<1>4. ResourceExclusive'
  <2> SUFFICES ASSUME NEW x \in allocations', NEW y \in allocations',
                      x.resource = y.resource, x.event # y.event
               PROVE  ~Overlap(x.at, y.at)
    BY DEF ResourceExclusive
  <2>1. ASSUME NEW new, NEW old \in allocations, New(new),
               new.event # old.event, new.resource = old.resource
        PROVE  ~Overlap(old.at, new.at)
    BY <2>1 DEF ResourceBusy
  <2>2. CASE x \in allocations /\ y \in allocations
    BY <2>2 DEF Reserved, ResourceExclusive
  <2>3. CASE New(x) /\ y \in allocations
    BY <2>1, <2>3 DEF Overlap
  <2>4. CASE x \in allocations /\ New(y)
    BY <2>1, <2>4 DEF Overlap
  <2> QED
    BY <2>2, <2>3, <2>4
<1> QED
  BY <1>1, <1>2, <1>3, <1>4 DEF Reserved

LEMMA ReservedStep == TypeOK /\ Reserved /\ [Next]_vars => Reserved'
<1> SUFFICES ASSUME TypeOK, Reserved, [Next]_vars PROVE Reserved'
  OBVIOUS
<1>0. \A x \in allocations : x.event \in Trips => tripStatus[x.event] # "ENDED"
  BY DEF Reserved, EndedIsReleased, AllocationsOf
<1>1. CASE UNCHANGED calendar
  BY <1>0, <1>1, ReservedStays DEF calendar
<1>2. ASSUME NEW t \in Trips, NEW at \in Times, EditDraft(t, at) PROVE Reserved'
  <2>1. \A x \in allocations : x.event \in Trips => tripAt'[x.event] = tripAt[x.event]
    BY <1>2 DEF EditDraft, AllocationsOf, TypeOK
  <2> QED
    BY <1>0, <1>2, <2>1, ReservedStays DEF EditDraft
<1>3. ASSUME NEW t \in Trips, Publish(t) PROVE Reserved'
  <2>1. \A u \in Trips : tripStatus[u] # "ENDED" => tripStatus'[u] # "ENDED"
    BY <1>3 DEF Publish, TypeOK
  <2> QED
    BY <1>0, <1>3, <2>1, ReservedStays DEF Publish
<1>4. ASSUME NEW t \in Trips, EndTrip(t) PROVE Reserved'
  <2>1. \A u \in Trips : tripStatus[u] # "ENDED" /\ u # t => tripStatus'[u] # "ENDED"
    BY <1>4 DEF EndTrip, TypeOK
  <2>2. \A x \in allocations' : x \in allocations /\ x.event # t
    BY <1>4 DEF EndTrip, AllocationsOf
  <2> QED
    BY <1>0, <1>4, <2>1, <2>2, ReservedStays DEF EndTrip
<1>5. ASSUME NEW t \in Trips, NEW R \in AllocationChoices, Allocate(t, R) PROVE Reserved'
  <2>1. \A x \in allocations' : x \in allocations \/ (x.event = t /\ x.resource \in R /\ x.at = tripAt[t])
    BY <1>5 DEF Allocate
  <2> QED
    BY <1>5, <2>1, ReservedMore DEF Allocate, HumansAvailable
<1>6. CASE Meet
  <2> PICK m \in Meetings, R \in AllocationChoices, at \in Times : ScheduleMeeting(m, R, at)
    BY <1>6 DEF Meet
  <2>1. \A x \in allocations' : x \in allocations \/ (x.event = m /\ x.resource \in R /\ x.at = at)
    BY DEF ScheduleMeeting
  <2>2. \A x \in allocations : x.event # NONE
    BY PeopleAssumption DEF TypeOK, AllocationRecords
  <2>3. ~ResourceBusy(R, at, m)
    BY <2>2 DEF ScheduleMeeting, ResourceBusy
  <2>4. m \notin Trips
    BY ReservationAssumption
  <2>5. UNCHANGED <<tripStatus, tripAt>>
    BY DEF ScheduleMeeting
  <2> QED
    BY <2>1, <2>3, <2>4, <2>5, ReservedMore
<1>7. ASSUME NEW w \in Workers, Replace(w) PROVE Reserved'
  <2> DEFINE t == assignment[worker[w].assignment].trip
             r == worker[w].replacement
  <2>1. PICK n \in FreeRows : Replaced(w, n)
    BY <1>7 DEF Replace
  <2>2. worker[w].stage = "chosen" /\ tripStatus[t] # "ENDED"
        /\ ~CalendarBusy(Humans({r}), tripAt[t], t) /\ ~ResourceBusy({r}, tripAt[t], t)
    BY <1>7 DEF Replace, TripGoesOn, StillAvailable, HumansAvailable
  <2>3. t \in Trips
    BY <2>1, <2>2, ReplacedRows
  <2>4. \A x \in allocations' : x \in allocations \/ (x.event = t /\ x.resource \in {r} /\ x.at = tripAt[t])
    <3> TAKE x \in allocations'
    <3>1. \/ x \in allocations
          \/ /\ x.event = t /\ x.resource = r
             /\ \E y \in AllocationsOf(x.event) : x.at = y.at
      BY <2>1, <2>2, MovedRows
    <3>2. \A y \in AllocationsOf(t) : y.at = tripAt[t]
      BY <2>3 DEF Reserved, AllocationsFollowTrip, AllocationsOf
    <3> QED
      BY <3>1, <3>2
  <2>5. UNCHANGED <<tripStatus, tripAt>>
    BY <2>1 DEF Replaced
  <2> HIDE DEF t, r
  <2> QED
    BY <2>2, <2>3, <2>4, <2>5, ReservedMore
<1>8. ASSUME NEW t \in Trips, Dispatch(t) PROVE UNCHANGED calendar
  BY <1>8 DEF Dispatch
<1>9. CASE KeepResources
  BY <1>9, <1>1 DEF KeepResources, CheckIdle, Disable, Enable
<1>10. CASE Train
  BY <1>10, <1>1 DEF Train, CreateSession, Reschedule, StartSession, MoveSession, Transfer, SetTraining
<1>11. CASE ReplaceCrew /\ ~\E w \in Workers : Replace(w)
  BY <1>11, <1>1 DEF ReplaceCrew, Accept, Reject, Escalate, FindReplacement, GiveUp
<1>12. CASE UNCHANGED vars
  BY <1>12, <1>1 DEF vars, calendar
<1>13. CASE MoveTrip
  BY <1>13, <1>2, <1>3, <1>4, <1>5, <1>8, <1>1 DEF MoveTrip
<1> QED
  BY <1>6, <1>7, <1>9, <1>10, <1>11, <1>12, <1>13 DEF Next, ReplaceCrew

LEMMA ReservedInvariant == Spec => [](TypeOK /\ Reserved)
<1>1. Init => Reserved
  BY DEF Init, Reserved, AllocationsFollowTrip, EndedIsReleased, AllocationsOf,
         NobodyOnTwoTrips, ResourceExclusive
<1> QED
  BY <1>1, CrewInitTypes, CrewNextTypes, ReservedStep, PTL DEF Spec

\* Nobody is allocated to two overlapping trips through different roles, whether an operator
\* allocates them or a replacement found before the other trip was staffed is written late.
THEOREM PeopleOnOneTrip == Spec => []NobodyOnTwoTrips
<1> QED
  BY ReservedInvariant, PTL DEF Reserved

\* A boat, a site or a person's role is never reserved by two trips or meetings at once.
THEOREM ResourcesReservedOnce == Spec => []ResourceExclusive
<1> QED
  BY ReservedInvariant, PTL DEF Reserved

\* The dates of a staffed draft do not move away from its allocations.
THEOREM AllocationsAtTripTime == Spec => []AllocationsFollowTrip
<1> QED
  BY ReservedInvariant, PTL DEF Reserved

-----------------------------------------------------------------------------
\* Answers and replacements.  A refused assignment is being replaced by one call only, the one
\* that wrote the refusal, and an overdue one as long as nobody answered.

FreeIsBlank == \A a \in Assignments : assignment[a].status = "NONE" => assignment[a] = NoAssignment

Rejecting(w, a) == worker[w].stage # "idle" /\ ~worker[w].escalates /\ worker[w].assignment = a

OneReplacer ==
    \A a \in Assignments :
       /\ \A w \in Workers : Rejecting(w, a) => assignment[a].status = "REJECTED" /\ Successors(a) = {}
       /\ \A w, v \in Workers : Rejecting(w, a) /\ Rejecting(v, a) => w = v

Answered == FreeIsBlank /\ OneReplacer /\ ReplacedOnce

\* No successor appears, and nobody begins to replace what was refused.
LEMMA AnsweredStays ==
    ASSUME Answered,
           \A a \in Assignments :
              /\ assignment'[a].status = "NONE" => assignment'[a] = NoAssignment
              /\ assignment'[a].replaces \in Assignments => assignment'[a].replaces = assignment[a].replaces
              /\ assignment[a].status \in {"REJECTED", "REASSIGNED"} =>
                    assignment'[a].status = assignment[a].status,
           \A w \in Workers : \A a \in Assignments : Rejecting(w, a)' => Rejecting(w, a)
    PROVE  Answered'
<1>1. \A a \in Assignments : Successors(a)' \subseteq Successors(a)
  BY DEF Successors
<1>2. FreeIsBlank'
  BY DEF FreeIsBlank
<1>3. OneReplacer'
  BY <1>1 DEF Answered, OneReplacer
<1>4. ReplacedOnce'
  BY <1>1 DEF Answered, ReplacedOnce
<1> QED
  BY <1>2, <1>3, <1>4 DEF Answered

\* Any number of members are offered the trip, each on a row of its own.
LEMMA OffersAnswered ==
    ASSUME TypeOK, Answered, NEW t \in Trips, Dispatch(t)
    PROVE  /\ Answered'
           /\ \A a \in Assignments : assignment'[a] = assignment[a] \/
                 (assignment[a].status = "NONE" /\ assignment'[a].trip = t)
<1>1. PICK asked, row :
         /\ row \in [asked -> FreeRows]
         /\ assignment' = [a \in Assignments |->
                   IF \E r \in asked : row[r] = a
                   THEN [status |-> "PENDING", trip |-> t, replaces |-> NONE,
                         resource |-> CHOOSE r \in asked : row[r] = a]
                   ELSE assignment[a]]
         /\ UNCHANGED worker
  BY DEF Dispatch
<1>2. \A a \in Assignments : assignment'[a] = assignment[a] \/
         (/\ assignment[a].status = "NONE" /\ assignment'[a].status = "PENDING"
          /\ assignment'[a].trip = t /\ assignment'[a].replaces = NONE)
  BY <1>1 DEF FreeRows
<1>3. NONE \notin Assignments
  BY PeopleAssumption
<1>4. \A a \in Assignments :
         /\ assignment'[a].status = "NONE" => assignment'[a] = NoAssignment
         /\ assignment'[a].replaces \in Assignments => assignment'[a].replaces = assignment[a].replaces
         /\ assignment[a].status \in {"REJECTED", "REASSIGNED"} => assignment'[a].status = assignment[a].status
  BY <1>2, <1>3 DEF Answered, FreeIsBlank
<1>5. \A w \in Workers : \A a \in Assignments : Rejecting(w, a)' => Rejecting(w, a)
  BY <1>1 DEF Rejecting
<1> QED
  BY <1>2, <1>4, <1>5, AnsweredStays

\* One assignment is answered, by its member or by the escalation's absence.
LEMMA OneAnswered ==
    ASSUME TypeOK, NEW a \in Assignments, NEW status \in {"ACCEPTED", "REJECTED"},
           assignment[a].status = "PENDING", assignment' = [assignment EXCEPT ![a].status = status]
    PROVE  /\ assignment'[a].status = status /\ assignment'[a].replaces = assignment[a].replaces
           /\ \A b \in Assignments \ {a} : assignment'[b] = assignment[b]
           /\ \A b \in Assignments : assignment'[b].replaces = assignment[b].replaces
<1>1. assignment[a] \in AssignmentRecords
  BY DEF TypeOK
<1>2. assignment' = [assignment EXCEPT ![a] = [assignment[a] EXCEPT !.status = status]]
  BY DEF TypeOK
<1> QED
  BY <1>1, <1>2 DEF TypeOK, AssignmentRecords

LEMMA RejectAnswered ==
    ASSUME TypeOK, Answered, NEW w \in Workers, NEW a \in Assignments, Reject(w, a)
    PROVE  Answered'
<1> DEFINE busy == [Idle EXCEPT !.stage = "searching", !.assignment = a]
<1>1. /\ assignment'[a].status = "REJECTED"
      /\ \A b \in Assignments \ {a} : assignment'[b] = assignment[b]
      /\ \A b \in Assignments : assignment'[b].replaces = assignment[b].replaces
  BY OneAnswered DEF Reject
<1>2. \A b \in Assignments : Successors(b)' = Successors(b)
  BY <1>1 DEF Successors
<1>3. assignment[a].status = "PENDING" /\ Successors(a) = {}
  BY DEF Reject, Answered, ReplacedOnce
<1>4. \A v \in Workers : ~Rejecting(v, a)
  BY <1>3 DEF Answered, OneReplacer
<1>5. worker'[w].assignment = a /\ \A v \in Workers \ {w} : worker'[v] = worker[v]
  BY DEF Reject, TypeOK, Idle
<1>6. FreeIsBlank'
  BY <1>1 DEF Answered, FreeIsBlank
<1>7. OneReplacer'
  BY <1>1, <1>2, <1>3, <1>4, <1>5 DEF Answered, OneReplacer, Rejecting
<1>8. ReplacedOnce'
  BY <1>1, <1>2, <1>3 DEF Answered, ReplacedOnce
<1> QED
  BY <1>6, <1>7, <1>8 DEF Answered

\* The replacement is written: what it replaces was refused by this very call and has no
\* successor, or is still unanswered and has none either.
LEMMA ReplaceAnswered ==
    ASSUME TypeOK, Answered, NEW w \in Workers, Replace(w)
    PROVE  Answered'
<1>0. PICK a \in Assignments : worker[w].assignment = a
  BY DEF TypeOK, Replace
<1>1. PICK n \in FreeRows : Replaced(w, n)
  BY DEF Replace
<1>2. worker[w].stage = "chosen" /\ (worker[w].escalates => assignment[a].status = "PENDING")
  BY <1>0 DEF Replace, StillUnanswered
<1>3. /\ n \in Assignments /\ n # a
      /\ assignment'[n].status = "PENDING" /\ assignment'[n].replaces = a
      /\ assignment'[a].replaces = assignment[a].replaces
      /\ ~worker[w].escalates => assignment'[a] = assignment[a]
      /\ worker[w].escalates => assignment'[a].status = "REASSIGNED"
      /\ \A b \in Assignments \ {n, a} : assignment'[b] = assignment[b]
  BY <1>0, <1>1, <1>2, ReplacedRows
<1>4. assignment[n].status = "NONE" /\ Successors(n) = {}
  BY DEF FreeRows, Answered, ReplacedOnce
<1>5. worker'[w] = Idle /\ \A v \in Workers \ {w} : worker'[v] = worker[v]
  BY <1>1 DEF Replaced, TypeOK
<1>6. ~worker[w].escalates => Rejecting(w, a)
  BY <1>0, <1>2 DEF Rejecting
<1>7. Successors(a) = {}
  BY <1>2, <1>3, <1>6 DEF Answered, OneReplacer, ReplacedOnce
<1>8. Successors(a)' = {n} /\ \A b \in Assignments \ {a} : Successors(b)' \subseteq Successors(b)
  BY <1>3, <1>7 DEF Successors
<1>9. \A v \in Workers : ~Rejecting(v, a)'
  BY <1>2, <1>3, <1>5, <1>6 DEF Answered, OneReplacer, Rejecting, Idle
<1>10. \A v \in Workers : \A b \in Assignments : Rejecting(v, b)' => Rejecting(v, b)
  BY <1>5 DEF Rejecting, Idle
<1>11. assignment'[a].status \in {"REJECTED", "REASSIGNED"}
  BY <1>3, <1>6 DEF Answered, OneReplacer
<1>12. FreeIsBlank'
  BY <1>3, <1>11 DEF Answered, FreeIsBlank
<1>13. OneReplacer'
  <2>1. \A v \in Workers : ~Rejecting(v, n)
    BY <1>3, <1>4 DEF Answered, OneReplacer
  <2> QED
    BY <2>1, <1>3, <1>8, <1>9, <1>10 DEF Answered, OneReplacer
<1>14. ReplacedOnce'
  BY <1>3, <1>4, <1>8, <1>11 DEF Answered, ReplacedOnce
<1> QED
  BY <1>12, <1>13, <1>14 DEF Answered

LEMMA AnsweredStep == TypeOK /\ Answered /\ [Next]_vars => Answered'
<1> SUFFICES ASSUME TypeOK, Answered, [Next]_vars PROVE Answered'
  OBVIOUS
<1>0. ASSUME UNCHANGED assignment,
             \A w \in Workers : \A a \in Assignments : Rejecting(w, a)' => Rejecting(w, a)
      PROVE  Answered'
  BY <1>0, AnsweredStays DEF Answered, FreeIsBlank
<1>1. ASSUME UNCHANGED crew PROVE Answered'
  BY <1>0, <1>1 DEF crew, Rejecting
<1>2. CASE \E t \in Trips : Dispatch(t)
  BY <1>2, OffersAnswered
<1>3. CASE MoveTrip /\ ~\E t \in Trips : Dispatch(t)
  BY <1>3, <1>1 DEF MoveTrip, EditDraft, Publish, EndTrip, Allocate
<1>4. CASE Meet \/ KeepResources \/ Train
  BY <1>4, <1>1 DEF Meet, ScheduleMeeting, KeepResources, CheckIdle, Disable, Enable, Train,
                    CreateSession, Reschedule, StartSession, MoveSession, Transfer, SetTraining
<1>5. CASE \E a \in Assignments : Accept(a)
  <2> PICK a \in Assignments : Accept(a)
    BY <1>5
  <2>1. /\ assignment'[a].status = "ACCEPTED"
        /\ \A b \in Assignments \ {a} : assignment'[b] = assignment[b]
        /\ \A b \in Assignments : assignment'[b].replaces = assignment[b].replaces
    BY OneAnswered DEF Accept
  <2>2. \A b \in Assignments :
           /\ assignment'[b].status = "NONE" => assignment'[b] = NoAssignment
           /\ assignment[b].status \in {"REJECTED", "REASSIGNED"} =>
                 assignment'[b].status = assignment[b].status
    BY <2>1 DEF Accept, Answered, FreeIsBlank
  <2>3. \A w \in Workers : \A b \in Assignments : Rejecting(w, b)' => Rejecting(w, b)
    BY DEF Accept, Rejecting
  <2> QED
    BY <2>1, <2>2, <2>3, AnsweredStays
<1>6. CASE \E w \in Workers, a \in Assignments : Reject(w, a)
  BY <1>6, RejectAnswered
<1>7. CASE \E w \in Workers, a \in Assignments : Escalate(w, a)
  BY <1>7, <1>0 DEF Escalate, Rejecting, TypeOK
<1>8. CASE \E w \in Workers, r \in Resources : FindReplacement(w, r)
  <2> PICK w \in Workers, r \in Resources : FindReplacement(w, r)
    BY <1>8
  <2>1. /\ worker'[w].assignment = worker[w].assignment /\ worker'[w].escalates = worker[w].escalates
        /\ worker[w].stage = "searching"
        /\ \A v \in Workers \ {w} : worker'[v] = worker[v]
    BY DEF FindReplacement, TypeOK, WorkerRecords
  <2>2. \A v \in Workers : \A a \in Assignments : Rejecting(v, a)' => Rejecting(v, a)
    BY <2>1 DEF Rejecting
  <2> QED
    BY <2>2, <1>0 DEF FindReplacement
<1>9. CASE \E w \in Workers : Replace(w)
  BY <1>9, ReplaceAnswered
<1>10. CASE \E w \in Workers : GiveUp(w)
  BY <1>10, <1>0 DEF GiveUp, Rejecting, TypeOK, Idle
<1>11. CASE UNCHANGED vars
  BY <1>11, <1>1 DEF vars, crew
<1> QED
  BY <1>2, <1>3, <1>4, <1>5, <1>6, <1>7, <1>8, <1>9, <1>10, <1>11 DEF Next, ReplaceCrew

LEMMA AnsweredInvariant == Spec => [](TypeOK /\ Reserved /\ Answered)
<1>1. Init => Answered
  BY PeopleAssumption DEF Init, Answered, FreeIsBlank, OneReplacer, Rejecting, Idle, ReplacedOnce,
                          Successors, NoAssignment
<1> QED
  BY <1>1, AnsweredStep, CrewInitTypes, CrewNextTypes, ReservedInvariant, PTL DEF Spec

\* A refused or overdue assignment gets one successor, though its refusal and its escalation race.
THEOREM OneSuccessor == Spec => []ReplacedOnce
<1> QED
  BY AnsweredInvariant, PTL DEF Answered

\* What a step does to an assignment: it is offered, answered while it is pending, or escalated
\* while it is pending, and never of a trip that has ended.
LEMMA AssignmentSteps ==
    ASSUME TypeOK, Answered, [Next]_vars, NEW a \in Assignments, assignment'[a] # assignment[a]
    PROVE  \/ /\ assignment[a].status = "NONE"
              /\ assignment[a] = NoAssignment
              /\ assignment'[a].trip \in Trips /\ tripStatus[assignment'[a].trip] # "ENDED"
           \/ /\ assignment[a].status = "PENDING" /\ assignment'[a].trip = assignment[a].trip
              /\ tripStatus[assignment[a].trip] # "ENDED"
<1>1. CASE \E t \in Trips : Dispatch(t)
  <2> PICK t \in Trips : Dispatch(t)
    BY <1>1
  <2>1. assignment[a].status = "NONE" /\ assignment'[a].trip = t
    BY OffersAnswered
  <2>2. tripStatus[t] # "ENDED"
    BY DEF Dispatch
  <2> QED
    BY <2>1, <2>2 DEF Answered, FreeIsBlank
<1>2. CASE \E b \in Assignments : Accept(b)
  <2> PICK b \in Assignments : Accept(b)
    BY <1>2
  <2>1. a = b /\ assignment[a] \in AssignmentRecords /\ assignment'[a] = [assignment[a] EXCEPT !.status = "ACCEPTED"]
    BY DEF Accept, TypeOK
  <2> QED
    BY <2>1 DEF Accept, AssignmentRecords
<1>3. CASE \E w \in Workers, b \in Assignments : Reject(w, b)
  <2> PICK w \in Workers, b \in Assignments : Reject(w, b)
    BY <1>3
  <2>1. a = b /\ assignment[a] \in AssignmentRecords /\ assignment'[a] = [assignment[a] EXCEPT !.status = "REJECTED"]
    BY DEF Reject, TypeOK
  <2> QED
    BY <2>1 DEF Reject, AssignmentRecords
<1>4. CASE \E w \in Workers : Replace(w)
  <2> PICK w \in Workers : Replace(w)
    BY <1>4
  <2>0. PICK n \in FreeRows : Replaced(w, n)
    BY DEF Replace
  <2>1. PICK old \in Assignments : worker[w].assignment = old
    BY DEF TypeOK, Replace
  <2>2. /\ worker[w].stage = "chosen" /\ tripStatus[assignment[old].trip] # "ENDED"
        /\ worker[w].escalates => assignment[old].status = "PENDING"
    BY <2>1 DEF Replace, TripGoesOn, StillUnanswered
  <2>3. /\ assignment[old].trip \in Trips
        /\ assignment'[n].trip = assignment[old].trip
        /\ assignment'[old].trip = assignment[old].trip
        /\ ~worker[w].escalates => assignment'[old] = assignment[old]
        /\ \A b \in Assignments \ {n, old} : assignment'[b] = assignment[b]
    BY <2>0, <2>1, <2>2, ReplacedRows
  <2>4. CASE a = n
    BY <2>2, <2>3, <2>4 DEF FreeRows, Answered, FreeIsBlank
  <2>5. CASE a = old
    BY <2>2, <2>3, <2>5
  <2> QED
    BY <2>3, <2>4, <2>5
<1>5. CASE MoveTrip /\ ~\E t \in Trips : Dispatch(t)
  BY <1>5 DEF MoveTrip, EditDraft, Publish, EndTrip, Allocate, crew
<1>6. CASE Meet \/ KeepResources \/ Train
  BY <1>6 DEF Meet, ScheduleMeeting, KeepResources, CheckIdle, Disable, Enable, Train,
              CreateSession, Reschedule, StartSession, MoveSession, Transfer, SetTraining, crew
<1>7. CASE \/ \E w \in Workers, b \in Assignments : Escalate(w, b)
           \/ \E w \in Workers, r \in Resources : FindReplacement(w, r)
           \/ \E w \in Workers : GiveUp(w)
  BY <1>7 DEF Escalate, FindReplacement, GiveUp
<1>8. CASE UNCHANGED vars
  BY <1>8 DEF vars
<1> QED
  BY <1>1, <1>2, <1>3, <1>4, <1>5, <1>6, <1>7, <1>8 DEF Next, ReplaceCrew

\* An answer is final: nothing that was read before it undoes it.
THEOREM AnswersAreFinal == Spec => AnswerIsFinal
<1>1. TypeOK /\ Answered /\ [Next]_vars =>
         \A a \in Assignments : assignment[a].status \in {"ACCEPTED", "REJECTED", "REASSIGNED"} =>
            assignment'[a] = assignment[a]
  BY AssignmentSteps
<1> QED
  BY <1>1, AnsweredInvariant, PTL DEF Spec, AnswerIsFinal

\* An ended trip is neither staffed nor offered nor answered for, by nobody's late step.
THEOREM EndedTripsLeftAlone == Spec => EndedTripIsLeftAlone
<1>1. TypeOK /\ Reserved /\ Answered /\ (TypeOK /\ Reserved)' /\ [Next]_vars =>
         \A t \in Trips : tripStatus[t] = "ENDED" =>
            /\ AllocationsOf(t)' = {}
            /\ \A a \in Assignments :
                  assignment[a].trip = t \/ assignment'[a].trip = t => assignment'[a] = assignment[a]
  <2> SUFFICES ASSUME TypeOK, Reserved, Answered, Reserved', [Next]_vars,
                      NEW t \in Trips, tripStatus[t] = "ENDED"
               PROVE  /\ AllocationsOf(t)' = {}
                      /\ \A a \in Assignments :
                            assignment[a].trip = t \/ assignment'[a].trip = t =>
                               assignment'[a] = assignment[a]
    OBVIOUS
  <2>1. tripStatus'[t] = "ENDED"
    <3>1. CASE MoveTrip
      BY <3>1 DEF MoveTrip, EditDraft, Publish, EndTrip, Allocate, Dispatch, calendar, TypeOK
    <3>2. CASE Meet \/ KeepResources \/ Train
      BY <3>2 DEF Meet, ScheduleMeeting, KeepResources, CheckIdle, Disable, Enable, Train,
                  CreateSession, Reschedule, StartSession, MoveSession, Transfer, SetTraining, calendar
    <3>3. CASE ReplaceCrew
      BY <3>3 DEF ReplaceCrew, Accept, Reject, Escalate, FindReplacement, Replace, Replaced, GiveUp, calendar
    <3> QED
      BY <3>1, <3>2, <3>3 DEF Next, vars
  <2>2. AllocationsOf(t)' = {}
    BY <2>1 DEF Reserved, EndedIsReleased
  <2>3. NoAssignment.trip # t
    BY PeopleAssumption DEF NoAssignment
  <2> QED
    BY <2>2, <2>3, AssignmentSteps
<1> QED
  BY <1>1, AnsweredInvariant, PTL DEF Spec, EndedTripIsLeftAlone

-----------------------------------------------------------------------------
\* Training.

\* The two halves of a clash: the session's party sails, or trains, at the session's time.
Sails(s, t) ==
    /\ t \in Trips
    /\ \E x \in allocations :
          x.event = t /\ AccountOf[x.resource] \in Party(s) /\ Overlap(x.at, session[s].at)
Trains(s, o) ==
    /\ o \in LiveSessions \ {s}
    /\ Party(o) \cap Party(s) # {} /\ Overlap(session[o].at, session[s].at)

LEMMA ClashMeans ==
    ASSUME NEW s, NEW e
    PROVE  e \in Clashes(s) <=> Sails(s, e) \/ Trains(s, e)
  BY DEF Clashes, Sails, Trains

\* The same pair of the next state, read there.
LEMMA NewClash ==
    ASSUME NEW clash \in Clashing'
    PROVE  /\ clash[1] \in LiveSessions' /\ clash[2] \in Trips \cup Sessions
           /\ clash = <<clash[1], clash[2]>>
           /\ Sails(clash[1], clash[2])' \/ Trains(clash[1], clash[2])'
  BY DEF Clashing, Clashes, Sails, Trains

LEMMA OldClash ==
    ASSUME NEW s \in LiveSessions, NEW e \in Trips \cup Sessions, Sails(s, e) \/ Trains(s, e)
    PROVE  <<s, e>> \in Clashing
  BY ClashMeans DEF Clashing

\* A live session stays what it was and a new reservation is of nobody who then trains:
\* no clash is made.
LEMMA NoSessionMade ==
    ASSUME \A s \in Sessions : session'[s].status \in LiveSession =>
              /\ session[s].status \in LiveSession
              /\ session'[s].instructor = session[s].instructor
              /\ session'[s].student = session[s].student
              /\ session'[s].at = session[s].at,
           \A x \in allocations' : x \in allocations \/ x.event \notin Trips \/
              \A s \in LiveSessions :
                 ~(AccountOf[x.resource] \in Party(s) /\ Overlap(x.at, session[s].at))
    PROVE  Clashing' \subseteq Clashing
<1> SUFFICES ASSUME NEW clash \in Clashing' PROVE clash \in Clashing
  OBVIOUS
<1> PICK s, e : s = clash[1] /\ e = clash[2]
  OBVIOUS
<1>1. /\ s \in LiveSessions' /\ e \in Trips \cup Sessions /\ clash = <<s, e>>
      /\ Sails(s, e)' \/ Trains(s, e)'
  BY NewClash
<1>2. s \in LiveSessions /\ session'[s].at = session[s].at /\ Party(s)' = Party(s)
  BY <1>1 DEF LiveSessions, Party
<1>3. ASSUME Sails(s, e)' PROVE Sails(s, e)
  BY <1>2, <1>3 DEF Sails
<1>4. ASSUME Trains(s, e)' PROVE Trains(s, e)
  <2>1. e \in LiveSessions /\ session'[e].at = session[e].at /\ Party(e)' = Party(e)
    BY <1>4 DEF Trains, LiveSessions, Party
  <2> QED
    BY <1>2, <1>4, <2>1 DEF Trains
<1> QED
  BY <1>1, <1>2, <1>3, <1>4, OldClash

\* Sessions are written that clash with nothing: no clash is made.
LEMMA SessionsBooked ==
    ASSUME NEW S \in SUBSET Sessions,
           UNCHANGED allocations,
           \A s \in Sessions \ S : session'[s] = session[s],
           \A s \in S : ~\E e \in Trips \cup Sessions : Sails(s, e)' \/ Trains(s, e)'
    PROVE  Clashing' \subseteq Clashing
<1> SUFFICES ASSUME NEW clash \in Clashing' PROVE clash \in Clashing
  OBVIOUS
<1> PICK s, e : s = clash[1] /\ e = clash[2]
  OBVIOUS
<1>1. /\ s \in LiveSessions' /\ e \in Trips \cup Sessions /\ clash = <<s, e>>
      /\ Sails(s, e)' \/ Trains(s, e)'
  BY NewClash
<1>2. s \in Sessions \ S
  BY <1>1 DEF LiveSessions
<1>3. s \in LiveSessions /\ session'[s] = session[s] /\ Party(s)' = Party(s)
  BY <1>1, <1>2 DEF LiveSessions, Party
<1>4. ASSUME Sails(s, e)' PROVE Sails(s, e)
  BY <1>3, <1>4 DEF Sails
<1>5. ASSUME Trains(s, e)' PROVE Trains(s, e)
  <2>1. e \in Sessions /\ e # s
    BY <1>5 DEF Trains, LiveSessions
  <2>2. Trains(e, s)'
    BY <1>1, <1>5, <2>1 DEF Trains, Overlap
  <2>3. e \in Sessions \ S
    BY <1>2, <2>1, <2>2
  <2>4. e \in LiveSessions /\ session'[e] = session[e] /\ Party(e)' = Party(e)
    BY <1>5, <2>3 DEF Trains, LiveSessions, Party
  <2> QED
    BY <1>3, <1>5, <2>4 DEF Trains
<1> QED
  BY <1>1, <1>3, <1>4, <1>5, OldClash

\* An event is an identity: an allocation of any trip keeps its people busy.
LEMMA BusySailing ==
    ASSUME TypeOK, NEW who, NEW at, ~CalendarBusy(who, at, NONE)
    PROVE  \A x \in allocations : ~(AccountOf[x.resource] \in who /\ Overlap(x.at, at))
  BY PeopleAssumption DEF TypeOK, AllocationRecords, CalendarBusy

\* A free session's clashes: none.
LEMMA AvailableIsClear ==
    ASSUME TypeOK, enforced, NEW s \in Sessions, SessionAvailable(Party(s), session[s].at, s)
    PROVE  Clashes(s) = {}
<1>1. \A e : ~Sails(s, e)
  BY BusySailing DEF SessionAvailable, Sails
<1>2. \A e : ~Trains(s, e)
  BY DEF SessionAvailable, Trains, Occupies
<1> QED
  BY <1>1, <1>2, ClashMeans

\* One session is written for a party and a time that are free: neither is taken twice.
LEMMA OneBooked ==
    ASSUME TypeOK, enforced, NEW s \in Sessions, UNCHANGED allocations,
           \A o \in Sessions \ {s} : session'[o] = session[o],
           SessionAvailable({session'[s].instructor, session'[s].student}, session'[s].at, s)
    PROVE  Clashing' \subseteq Clashing
<1> PICK who, at : who = {session'[s].instructor, session'[s].student} /\ at = session'[s].at
  OBVIOUS
<1>0. Party(s)' = who
  BY DEF Party
<1>1. \A e : ~Sails(s, e)'
  BY <1>0, BusySailing DEF SessionAvailable, Sails
<1>2. \A e : ~Trains(s, e)'
  <2> SUFFICES ASSUME NEW e, Trains(s, e)' PROVE FALSE
    OBVIOUS
  <2>1. e \in Sessions \ {s}
    BY DEF Trains, LiveSessions
  <2>2. e \in LiveSessions /\ Party(e)' = Party(e) /\ session'[e].at = session[e].at
    BY <2>1 DEF Trains, LiveSessions, Party
  <2> QED
    BY <1>0, <2>1, <2>2 DEF Trains, SessionAvailable, Occupies
<1> QED
  <2>1. {s} \in SUBSET Sessions /\ \A o \in {s} : ~\E e \in Trips \cup Sessions : Sails(o, e)' \/ Trains(o, e)'
    BY <1>1, <1>2
  <2> QED
    BY <2>1, SessionsBooked

\* A transferred set: its sessions share their student, so none of them overlaps another.
LEMMA TransferClears ==
    ASSUME TypeOK, enforced, NEW S \in SUBSET Sessions, NEW i \in People, Transfer(S, i)
    PROVE  Clashing' \subseteq Clashing
<1>1. \A s \in S : /\ session'[s].instructor = i /\ session'[s].student = session[s].student
                   /\ session'[s].at = session[s].at /\ session[s].status = "SCHEDULED"
  BY DEF Transfer, TypeOK, SessionRecords
<1>2. \A s \in Sessions \ S : session'[s] = session[s]
  BY DEF Transfer
<1>3. UNCHANGED allocations
  BY DEF Transfer, calendar
<1>4. ASSUME NEW s \in S, NEW e, Sails(s, e)' PROVE FALSE
  <2>1. ~CalendarBusy({i, session[s].student}, session[s].at, NONE)
    BY DEF Transfer, SessionAvailable
  <2> QED
    BY <1>1, <1>3, <1>4, <2>1, BusySailing DEF Sails, Party
<1>5. ASSUME NEW s \in S, NEW e, Trains(s, e)' PROVE FALSE
  <2>0. ~\E o \in LiveSessions \ {s} : Party(o) \cap {i, session[s].student} # {}
                                       /\ Occupies(o, session[s].at)
    BY DEF Transfer, SessionAvailable
  <2>1. e \in Sessions \ {s} /\ Overlap(session'[e].at, session[s].at)
    BY <1>1, <1>5 DEF Trains, LiveSessions
  <2>2. CASE e \in S
    <3>1. session[e].student = session[s].student
      BY <2>2 DEF Transfer
    <3>2. e \in LiveSessions /\ session[e].student \in Party(e) /\ Occupies(e, session[s].at)
      BY <1>1, <2>1, <2>2 DEF LiveSessions, LiveSession, Party, Occupies
    <3> QED
      BY <2>0, <2>1, <3>1, <3>2
  <2>3. CASE e \notin S
    <3>1. e \in LiveSessions /\ Party(e)' = Party(e) /\ Occupies(e, session[s].at)
      BY <1>2, <1>5, <2>1, <2>3 DEF Trains, LiveSessions, Party, Occupies
    <3>2. Party(s)' = {i, session[s].student}
      BY <1>1 DEF Party
    <3> QED
      BY <1>5, <2>0, <2>1, <3>1, <3>2 DEF Trains
  <2> QED
    BY <2>2, <2>3
<1> QED
  BY <1>2, <1>3, <1>4, <1>5, SessionsBooked

\* Whoever staffs a trip under the rule asks the training calendar first.
LEMMA StaffingClears ==
    ASSUME TypeOK, enforced, NEW R \in SUBSET Resources, NEW at, ~TrainingBusy(Humans(R), at),
           UNCHANGED session,
           \A x \in allocations' : x \in allocations \/ (x.resource \in R /\ x.at = at)
    PROVE  Clashing' \subseteq Clashing
<1>1. ASSUME NEW s \in LiveSessions, NEW r \in R, AccountOf[r] \in Party(s), Overlap(at, session[s].at)
      PROVE  FALSE
  <2>1. Party(s) \subseteq People
    BY DEF TypeOK, LiveSessions, LiveSession
  <2>2. AccountOf[r] \in Humans(R)
    BY <1>1, <2>1, PeopleAssumption DEF Humans
  <2>3. Occupies(s, at)
    BY <1>1 DEF Occupies, Overlap
  <2> QED
    BY <1>1, <2>2, <2>3 DEF TrainingBusy
<1>2. \A x \in allocations' : x \in allocations \/
         \A s \in LiveSessions : ~(AccountOf[x.resource] \in Party(s) /\ Overlap(x.at, session[s].at))
  BY <1>1
<1> QED
  BY <1>2, NoSessionMade DEF LiveSessions

LEMMA NoClashMade ==
    ASSUME TypeOK, Reserved, [Next]_vars, enforced
    PROVE  Clashing' \subseteq Clashing
<1>0. ASSUME UNCHANGED session, allocations' \subseteq allocations PROVE Clashing' \subseteq Clashing
  BY <1>0, NoSessionMade
<1>1. CASE \E t \in Trips, R \in AllocationChoices : Allocate(t, R)
  <2> PICK t \in Trips, R \in AllocationChoices : Allocate(t, R)
    BY <1>1
  <2>1. R \in SUBSET Resources /\ ~TrainingBusy(Humans(R), tripAt[t]) /\ UNCHANGED session
    BY ReservationAssumption DEF Allocate, HumansAvailable, training
  <2>2. \A x \in allocations' : x \in allocations \/ (x.resource \in R /\ x.at = tripAt[t])
    BY DEF Allocate
  <2> QED
    BY <2>1, <2>2, StaffingClears
<1>2. CASE \E w \in Workers : Replace(w)
  <2> PICK w \in Workers : Replace(w)
    BY <1>2
  <2>1. PICK n \in FreeRows : Replaced(w, n)
    BY DEF Replace
  <2>2. PICK t \in Trips, r \in Resources :
           /\ worker[w].stage = "chosen" /\ worker[w].replacement = r
           /\ t = assignment[worker[w].assignment].trip
    BY DEF TypeOK, Replace
  <2>3. ~TrainingBusy(Humans({r}), tripAt[t]) /\ UNCHANGED session
    BY <2>1, <2>2 DEF Replace, StillAvailable, HumansAvailable, Replaced, training
  <2>4. \A x \in allocations' : x \in allocations \/ (x.resource \in {r} /\ x.at = tripAt[t])
    BY <2>1, <2>2, MovedRows DEF Reserved, AllocationsFollowTrip, AllocationsOf
  <2> QED
    BY <2>3, <2>4, StaffingClears
<1>3. CASE Meet
  <2> PICK m \in Meetings, R \in AllocationChoices, at \in Times : ScheduleMeeting(m, R, at)
    BY <1>3 DEF Meet
  <2>1. UNCHANGED session /\ m \notin Trips
    BY ReservationAssumption DEF ScheduleMeeting, training
  <2>2. \A x \in allocations' : x \in allocations \/ x.event \notin Trips
    BY <2>1 DEF ScheduleMeeting
  <2> QED
    BY <2>1, <2>2, NoSessionMade
<1>4. CASE \E s \in Sessions, i, p \in People, at \in Times : CreateSession(s, i, p, at)
  <2> PICK s \in Sessions, i \in People, p \in People, at \in Times : CreateSession(s, i, p, at)
    BY <1>4
  <2>1. /\ session'[s].instructor = i /\ session'[s].student = p /\ session'[s].at = at
        /\ \A o \in Sessions \ {s} : session'[o] = session[o]
        /\ UNCHANGED allocations
    BY DEF CreateSession, TypeOK, calendar
  <2> QED
    BY <2>1, OneBooked DEF CreateSession
<1>5. CASE \E s \in Sessions, at \in Times : Reschedule(s, at)
  <2> PICK s \in Sessions, at \in Times : Reschedule(s, at)
    BY <1>5
  <2>1. /\ {session'[s].instructor, session'[s].student} = Party(s) /\ session'[s].at = at
        /\ \A o \in Sessions \ {s} : session'[o] = session[o]
        /\ UNCHANGED allocations
    BY DEF Reschedule, TypeOK, SessionRecords, Party, calendar
  <2> QED
    BY <2>1, OneBooked DEF Reschedule
<1>6. CASE \E s \in Sessions : StartSession(s) \/ MoveSession(s)
  <2> PICK s \in Sessions, to \in {"CHECK_IN_OPEN", "IN_PROGRESS", "COMPLETED", "CANCELLED"} :
         /\ session[s].status \in LiveSession
         /\ session' = [session EXCEPT ![s].status = to]
         /\ UNCHANGED calendar
    BY <1>6 DEF StartSession, MoveSession, LiveSession
  <2>1. \A o \in Sessions : session'[o].status \in LiveSession =>
              /\ session[o].status \in LiveSession
              /\ session'[o].instructor = session[o].instructor
              /\ session'[o].student = session[o].student
              /\ session'[o].at = session[o].at
    BY DEF TypeOK, SessionRecords
  <2> QED
    BY <2>1, NoSessionMade DEF calendar
<1>7. CASE \E S \in SUBSET Sessions, i \in People : Transfer(S, i)
  BY <1>7, TransferClears
<1>8. CASE MoveTrip /\ ~\E t \in Trips, R \in AllocationChoices : Allocate(t, R)
  BY <1>8, <1>0 DEF MoveTrip, EditDraft, Publish, EndTrip, Dispatch, calendar, training
<1>9. CASE KeepResources \/ \E state \in TrainingStates : SetTraining(state)
  BY <1>9, <1>0 DEF KeepResources, CheckIdle, Disable, Enable, SetTraining, calendar, training
<1>10. CASE ReplaceCrew /\ ~\E w \in Workers : Replace(w)
  BY <1>10, <1>0 DEF ReplaceCrew, Accept, Reject, Escalate, FindReplacement, GiveUp, calendar, training
<1>11. CASE UNCHANGED vars
  BY <1>11, <1>0 DEF vars
<1> QED
  BY <1>1, <1>2, <1>3, <1>4, <1>5, <1>6, <1>7, <1>8, <1>9, <1>10, <1>11 DEF Next, Train

\* Under the training rule no step makes a clash, whichever side writes: who books a session,
\* moves it, transfers a course's sessions, staffs a trip or replaces its crew.
THEOREM NoClashIsMade == Spec => NoNewClash
<1> QED
  BY NoClashMade, ReservedInvariant, PTL DEF Spec, NoNewClash

\* Only act() starts a session, and under the rule it reads the calendar again first.
THEOREM SessionsStartUndisturbed == Spec => StartsUndisturbed
<1>1. ASSUME TypeOK, [Next]_vars, NEW s \in Sessions, enforced,
             session[s].status # "IN_PROGRESS", session'[s].status = "IN_PROGRESS"
      PROVE  Clashes(s) = {}
  <2>1. CASE StartSession(s)
    BY <2>1, <1>1, AvailableIsClear DEF StartSession
  <2>2. CASE UNCHANGED session
    BY <2>2, <1>1
  <2>3. CASE Train
    <3>1. CASE \E o \in Sessions, i, p \in People, at \in Times : CreateSession(o, i, p, at)
      BY <3>1, <1>1 DEF CreateSession, TypeOK
    <3>2. CASE \E o \in Sessions, at \in Times : Reschedule(o, at)
      <4> PICK o \in Sessions, at \in Times : Reschedule(o, at)
        BY <3>2
      <4>1. session'[s].status = session[s].status
        BY DEF Reschedule, TypeOK, SessionRecords
      <4> QED
        BY <4>1, <1>1
    <3>3. CASE \E o \in Sessions : StartSession(o)
      <4> PICK o \in Sessions : StartSession(o)
        BY <3>3
      <4>1. o = s
        BY <1>1 DEF StartSession, TypeOK
      <4> QED
        BY <4>1, <2>1
    <3>4. CASE \E o \in Sessions : MoveSession(o)
      <4> PICK o \in Sessions, to \in {"CHECK_IN_OPEN", "COMPLETED", "CANCELLED"} :
                 session' = [session EXCEPT ![o].status = to]
        BY <3>4 DEF MoveSession
      <4>1. session'[s].status \in {session[s].status, to}
        BY DEF TypeOK, SessionRecords
      <4> QED
        BY <4>1, <1>1
    <3>5. CASE \E S \in SUBSET Sessions, i \in People : Transfer(S, i)
      <4> PICK S \in SUBSET Sessions, i \in People : Transfer(S, i)
        BY <3>5
      <4>1. session'[s].status = session[s].status
        BY DEF Transfer, TypeOK, SessionRecords
      <4> QED
        BY <4>1, <1>1
    <3>6. CASE \E state \in TrainingStates : SetTraining(state)
      BY <3>6, <2>2 DEF SetTraining
    <3> QED
      BY <2>3, <3>1, <3>2, <3>3, <3>4, <3>5, <3>6 DEF Train
  <2>4. CASE MoveTrip \/ Meet \/ KeepResources
    BY <2>2, <2>4 DEF MoveTrip, EditDraft, Publish, EndTrip, Allocate, Dispatch, Meet, ScheduleMeeting,
                      KeepResources, CheckIdle, Disable, Enable, training
  <2>5. CASE ReplaceCrew
    BY <2>2, <2>5 DEF ReplaceCrew, Accept, Reject, Escalate, FindReplacement, Replace, Replaced, GiveUp,
                      training
  <2> QED
    BY <1>1, <2>2, <2>3, <2>4, <2>5 DEF Next, vars
<1>2. TypeOK /\ [Next]_vars =>
         \A s \in Sessions :
            /\ session[s].status # "IN_PROGRESS" /\ session'[s].status = "IN_PROGRESS"
            /\ enforced
            => Clashes(s) = {}
  BY <1>1
<1> QED
  BY <1>2, CrewTypes, PTL DEF Spec, StartsUndisturbed
=============================================================================
