SPECIFICATION MoneySpec
CONSTANTS
    Keys = {k1}
    Invoices = {x1, x2}
    Events = {y1, y2}
    Calls = {c1, c2}
    NONE = NONE
    Accountants = {y1, y2}
    Reviewers = {y1, y2}
    Shifts = {s1, s2, s3}
    Handovers = {x1, x2}
    BookingPayments = {p1}
    Receivables = {r1}
    Amounts = {1}
    AmountOf <- OneEach
    Debt = 1
    MaxEntries = 1
    NOBODY = NOBODY
SYMMETRY Interchangeable
INVARIANTS
    TypeOK
    PaidIsClaimed
    CapturedWasPaid
    MoneyIsMatched
    ShiftsTypeOK
    ClosedAsReviewed
    HandedOverOnce
PROPERTIES
    ClaimIsFinal
    ImplementsCustody
CHECK_DEADLOCK FALSE
