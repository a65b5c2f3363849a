SPECIFICATION PeriodSpec
CONSTANTS
    Accountants = {ann, bob}
    Reviewers = {bob, cas, dan}
    Shifts = {s1, s2}
    Handovers = {h1}
    BookingPayments = {}
    Receivables = {}
    Amounts = {1}
    AmountOf <- OneEach
    Debt = 1
    MaxEntries = 1
    NOBODY = NOBODY
    Center = Center
    Organization = Organization
INVARIANT ClosedPeriodIsSettled
CHECK_DEADLOCK FALSE
