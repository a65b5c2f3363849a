SPECIFICATION ApartSpec
CONSTANTS
    Agents = {a1}
    t1 = t1
    c1 = c1
    Tasks = {t1, t2, t3}
    AgentOf <- Same
    MaxAttempts = 2
    Runners = {r1, r2}
    NOTASK = NOTASK
    Cycles = {c1}
    TaskOf <- First
    MaxSends = 2
    Mailers = {m1, m2}
INVARIANTS
    AgentTypeOK
    UnknownIsNotRepeated
    ReceiptsAgree
    ReportTypeOK
    OneSender
PROPERTIES
    GivenUpIsNotAsked
    RunningEnds
    ReportEnds
CHECK_DEADLOCK FALSE
