SPECIFICATION Spec
CONSTANTS
    Bookings = {b1}
    Accounts = {ann}
    Organizations = {}
    BookingCommands = {}
    q1 = q1
    q2 = q2
    TripCommands = {}
    Requests = {}
    Capacity = 2
    MaxSeats = 2
    Resources = {}
    AllocationChoices = {}
    PolicyStates <- PolicyPayment
    SafetyDecisions = {}
    WeatherStates = {FALSE}
    Prices = {1, 2}
    NONE = NONE
PROPERTY PriceHoldsOncePaid
CHECK_DEADLOCK FALSE
