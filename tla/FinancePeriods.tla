---------------------------- MODULE FinancePeriods ----------------------------
(***************************************************************************)
(* The close of one finance period of a center over its accountant shifts  *)
(* (finance-period-close.service): an accountant submits a period that has *)
(* ended and has no blockers, and two other accounts approve it.           *)
(*                                                                         *)
(* Of the blockers only the open shifts can occur here: the receivables    *)
(* are older than the period and no refund is asked for.                   *)
(***************************************************************************)
EXTENDS FinanceShifts

CONSTANTS Center, Organization  \* the ids of the center's OrgUnit and of its organization: they differ

VARIABLES
    ended,      \* whether the period is over
    inPeriod,   \* the shifts opened before its end
    period      \* its latest FinancePeriodCloseSubmission

periodVars == <<shiftVars, ended, inPeriod, period>>

\* openShift() stores the organization in the column "centerOrgUnitId" of a shift.
CenterOrgUnitId(s) == Organization

\* snapshot() counts the active shifts of the period with the center in that column.
OpenShifts == {s \in inPeriod : CenterOrgUnitId(s) = Center /\ Active(s)}

PeriodInit ==
    /\ ShiftInit
    /\ ended = FALSE
    /\ inPeriod = {}
    /\ period = [status |-> "ABSENT", by |-> NOBODY, approvals |-> {}]

\* submit(): a period that has ended, with nothing open in it, not submitted or closed yet.
SubmitPeriod(a) ==
    /\ ended
    /\ OpenShifts = {}
    /\ period.status \in {"ABSENT", "REJECTED"}
    /\ period' = [status |-> "SUBMITTED", by |-> a, approvals |-> {}]
    /\ UNCHANGED <<shiftVars, ended, inPeriod>>

\* decide(): the second approval by another account closes the period.
DecidePeriod(v, decision) ==
    LET approved == period.approvals \cup {v} IN
    /\ period.status = "SUBMITTED"
    /\ v # period.by /\ v \notin period.approvals
    /\ period' = CASE decision = "REJECTED" -> [period EXCEPT !.status = "REJECTED"]
                   [] Cardinality(approved) < 2 -> [period EXCEPT !.approvals = approved]
                   [] OTHER -> [period EXCEPT !.approvals = approved, !.status = "CLOSED"]
    /\ UNCHANGED <<shiftVars, ended, inPeriod>>

\* The shifts go on; those opened before the end belong to the period.
ShiftStep ==
    /\ ShiftNext
    /\ inPeriod' = IF ended THEN inPeriod
                   ELSE inPeriod \cup {s \in Shifts : shift'[s].status # "ABSENT"}
    /\ UNCHANGED <<ended, period>>

PeriodEnds ==
    /\ ~ended
    /\ ended' = TRUE
    /\ UNCHANGED <<shiftVars, inPeriod, period>>

PeriodNext ==
    \/ ShiftStep \/ PeriodEnds
    \/ \E a \in Accountants : SubmitPeriod(a)
    \/ \E v \in Reviewers, d \in Decisions : DecidePeriod(v, d)

PeriodSpec == PeriodInit /\ [][PeriodNext]_periodVars

\* The blocker OPEN_SHIFTS, "shifts not closed or a handover pending": a period is not closed
\* while a shift that was opened in it is still open or waits for its handover.
ClosedPeriodIsSettled == period.status = "CLOSED" => \A s \in inPeriod : ~Active(s)

===============================================================================
