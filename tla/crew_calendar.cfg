SPECIFICATION SideBySide
CONSTANTS
    Trips = {t1, t2}
    Meetings = {m1}
    Sessions = {x1, x2}
    ann = ann
    bob = bob
    ina = ina
    cra = cra
    inb = inb
    boat = boat
    Resources = {ina, cra, inb}
    AccountOf <- Who
    RoleOf <- Roles
    Switchable = {inb}
    People = {ann, bob}
    Times <- DisjointTimes
    AllocationChoices <- OneOfThree
    Assignments = {a1, a2, a3}
    Workers = {x1, x2}
    TrainingStates = {TRUE, FALSE}
    NONE = NONE
SYMMETRY Symmetric
CONSTRAINT OneConcern
INVARIANTS
    TypeOK
    NobodyOnTwoTrips
    ResourceExclusive
    AllocationsFollowTrip
    ReplacedOnce
PROPERTIES
    NoNewClash
    StartsUndisturbed
    AnswerIsFinal
    EndedTripIsLeftAlone
CHECK_DEADLOCK FALSE
