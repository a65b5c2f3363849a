SPECIFICATION Spec
CONSTANTS
    Trips = {t1}
    Meetings = {}
    Sessions = {}
    ann = ann
    bob = bob
    ina = ina
    cra = cra
    inb = inb
    boat = boat
    Resources = {ina, cra}
    AccountOf <- Who
    RoleOf <- Roles
    Switchable = {ina}
    People = {ann, bob}
    Times <- OneTime
    AllocationChoices <- TwoRoles
    Assignments = {}
    Workers = {}
    TrainingStates = {TRUE}
    NONE = NONE
PROPERTY DisabledIsIdle
CHECK_DEADLOCK FALSE
