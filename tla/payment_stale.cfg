SPECIFICATION Spec
CONSTANTS
    Keys = {k1}
    Invoices = {i1, i2}
    Events = {e1, e2}
    Calls = {c1, c2}
    NONE = NONE
SYMMETRY Interchangeable
PROPERTY CapturedIsKept
CHECK_DEADLOCK FALSE
