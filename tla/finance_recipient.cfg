SPECIFICATION MoneySpec
CONSTANTS
    Keys = {}
    Invoices = {}
    Events = {}
    Calls = {}
    NONE = NONE
    Accountants = {ann, bob}
    Reviewers = {ann, bob}
    Shifts = {s1, s2}
    Handovers = {h1}
    BookingPayments = {p1}
    Receivables = {r1}
    Amounts = {1}
    AmountOf <- OneEach
    Debt = 1
    MaxEntries = 1
    NOBODY = NOBODY
INVARIANT FrozenRecipient
CHECK_DEADLOCK FALSE
