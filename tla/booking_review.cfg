SPECIFICATION Spec
CONSTANTS
    Bookings = {b1, b2}
    Accounts = {ann}
    Organizations = {club}
    BookingCommands = {q1, q2}
    q1 = q1
    q2 = q2
    TripCommands = {}
    Requests = {r1}
    Capacity = 1
    MaxSeats = 1
    Resources = {}
    AllocationChoices = {}
    PolicyStates <- PolicyReviewed
    SafetyDecisions = {"REVIEW_REQUIRED", "ALLOWED", "DEFERRED"}
    WeatherStates = {TRUE, FALSE}
    Prices = {1}
    NONE = NONE
ACTION_CONSTRAINT Reviewed
SYMMETRY Interchangeable
PROPERTY ConfirmsWhatWasShown
PROPERTY ConfirmMeetsRules
CHECK_DEADLOCK FALSE
