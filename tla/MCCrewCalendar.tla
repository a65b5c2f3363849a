---------------------------- MODULE MCCrewCalendar ----------------------------
(* Small instances of CrewCalendar: a few people, one of them in two roles. *)
EXTENDS CrewCalendar, TLC

CONSTANTS ann, bob, ina, cra, inb, boat

\* ann is an instructor and a crew member, bob an instructor; the boat is nobody.
Who == [r \in Resources |->
           CASE r \in {ina, cra} -> ann [] r = inb -> bob [] OTHER -> NONE]
Roles == [r \in Resources |->
           CASE r \in {ina, inb} -> "INSTRUCTOR" [] r = cra -> "CREW" [] OTHER -> "BOAT"]

\* Two intervals apart from each other: what overlaps is what shares one.
DisjointTimes == {{1}, {2}}
OneTime == {{1}}

TwoRoles == {{}, {ina}, {cra}}
Instructors == {{}, {ina}, {inb}}
OneOfThree == TwoRoles \cup Instructors

\* A behaviour is about the calendar, with its meetings and training sessions, or about crews
\* offered a trip and replaced: the two concerns are checked side by side, not multiplied.
\* A meeting is met by one session; two sessions meet each other.
AllocatedIn(R) == \A x \in allocations : x.resource \in R
CalendarOnly == /\ \A a \in Assignments : assignment[a] = NoAssignment
                /\ active = Resources /\ disabling = {}
                /\ AllocatedIn({ina, cra})
                /\ \/ \A m \in Meetings : AllocationsOf(m) = {}
                   \/ \E s \in Sessions : session[s] = NoSession
CrewOnly == /\ \A s \in Sessions : session[s] = NoSession
            /\ \A x \in allocations : x.event \in Trips
            /\ \A t \in Trips : tripAt[t] = {1}
            /\ enforced
            /\ AllocatedIn({ina, inb})
OneConcern == CalendarOnly \/ CrewOnly
OneConcernNext ==
    \/ MoveTrip
    \/ CalendarOnly /\ Meet
    \/ CalendarOnly /\ Train
    \/ CrewOnly /\ KeepResources
    \/ CrewOnly /\ ReplaceCrew
SideBySide == Init /\ [][OneConcernNext]_vars

\* Sessions and Workers are the same model values, so that one permutation serves both.
Symmetric == Permutations(Trips) \cup Permutations(Sessions) \cup Permutations(Assignments)
===============================================================================
