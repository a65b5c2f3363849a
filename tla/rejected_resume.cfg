SPECIFICATION ApartSpec
CONSTANTS
    Agents = {a1}
    t1 = t1
    c1 = c1
    Tasks = {t1}
    AgentOf <- Same
    MaxAttempts = 2
    Runners = {r1}
    NOTASK = NOTASK
    Cycles = {c1}
    TaskOf <- First
    MaxSends = 1
    Mailers = {m1}
INVARIANT NeverReplayed
CHECK_DEADLOCK FALSE
