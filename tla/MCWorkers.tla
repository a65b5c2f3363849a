------------------------------ MODULE MCWorkers ------------------------------
EXTENDS ReportCycles, TLC
CONSTANTS t1, c1
Same == [t \in Tasks |-> CHOOSE a \in Agents : TRUE]
First == [c \in Cycles |-> t1]

\* A report cycle and the tasks nobody reports on only share the runtime: an instance has either
\* a cycle with its task or tasks that compete with each other.
Others == Tasks \ {t1}
Apart == ~(cycle'[c1].state # "NONE" /\ \E t \in Others : task'[t].state # "NONE")

ApartSpec == ReportInit /\ [][ReportNext /\ Apart]_reportVars /\ ReportFairness
===============================================================================
