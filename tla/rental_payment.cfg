SPECIFICATION ReservationSpec
CONSTANTS
    Bookings = {b1, b2}
    Accounts = {ann}
    Organizations = {club}
    BookingCommands = {q1, q2}
    TripCommands = {t1, t2}
    q1 = q1
    q2 = q2
    t1 = t1
    t2 = t2
    Requests = {r1, r2}
    Capacity = 3
    MaxSeats = 2
    Resources = {boat}
    AllocationChoices = {{boat}}
    PolicyStates <- PolicyCapacityOnly
    SafetyDecisions = {}
    WeatherStates = {FALSE}
    Prices = {0}
    NONE = NONE
    Assets = {a1, a2}
    Rentals = {b1, b2}
    Handlers = {r1, r2}
    NORENTAL = NORENTAL
SYMMETRY Interchangeable
PROPERTY PaidFromStock
CHECK_DEADLOCK FALSE
