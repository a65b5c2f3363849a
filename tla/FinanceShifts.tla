---------------------------- MODULE FinanceShifts ----------------------------
(***************************************************************************)
(* Accountant shifts of one center: the cash entries of a shift, collected *)
(* receivables, the handover of its cash to another accountant's shift and *)
(* the close that somebody else reviews (finance-shifts.service,           *)
(* finance-receivables.service, finance-shift-close.service).              *)
(*                                                                         *)
(* Every method is one serializable transaction, so one action.  A shift   *)
(* keeps the sum of its entries and their number instead of their rows;    *)
(* receivables have no installments; who works where does not change, and  *)
(* every amount is in the center's only currency.                          *)
(***************************************************************************)
EXTENDS Integers, FiniteSets

CONSTANTS
    Accountants,    \* active accountants of the center
    Reviewers,      \* accounts that may review its closes
    Shifts,         \* identities of shift rows
    Handovers,      \* identities of handover rows
    BookingPayments,    \* payments of the center's bookings
    Receivables,    \* open receivables of the center
    Amounts,        \* the amounts of one entry, a payment or a count
    Debt,           \* what is outstanding on each receivable at first
    MaxEntries,     \* bound: entries of one shift
    NOBODY

ASSUME AmountAssumption == Amounts \subseteq Nat /\ Debt \in Nat
ASSUME BoundAssumption == MaxEntries \in Nat
ASSUME NobodyAssumption == NOBODY \notin Accountants \cup Reviewers \cup Shifts \cup BookingPayments

VARIABLES
    shift,      \* the FinanceAccountantShift rows, each with its entries summed
    handover,   \* the FinanceShiftHandover rows
    close,      \* the latest FinanceShiftCloseSubmission of each shift
    ledgered,   \* the entry that names each payment: its shift, and whether it is revenue
    captured,   \* the payments whose status is CAPTURED
    owed        \* what is outstanding on each receivable

shiftVars == <<shift, handover, close, ledgered, captured, owed>>

ShiftStatus == {"ABSENT", "OPEN", "HANDOVER_PENDING", "HANDED_OVER", "CLOSED"}
EntryTypes == {"REVENUE", "EXPENSE", "REFUND", "ADJUSTMENT"}
Decisions == {"APPROVED", "REJECTED"}

ShiftRecords == [status : ShiftStatus, owner : Accountants \cup {NOBODY}, opening : Nat,
                 net : Int, entries : Nat]
HandoverRecords == [status : {"ABSENT", "PENDING", "ACCEPTED"}, from : Shifts \cup {NOBODY},
                    to : Shifts \cup {NOBODY}, expected : Nat, actual : Nat]
CloseRecords == [status : {"ABSENT", "SUBMITTED"} \cup Decisions, expected : Nat]
LedgerRecords == [shift : Shifts \cup {NOBODY}, revenue : BOOLEAN]

\* The amount of a payment: all payments of an instance have one of the amounts.
CONSTANT AmountOf
ASSUME PaymentAssumption == AmountOf \in [BookingPayments -> Amounts]

-----------------------------------------------------------------------------
\* What the methods read.

\* calculateFinanceShiftTotals(): the cash a shift should hold.
ExpectedCash(s) == shift[s].opening + shift[s].net
Signed(type, amount) == IF type \in {"REVENUE", "ADJUSTMENT"} THEN amount ELSE 0 - amount

Active(s) == shift[s].status \in {"OPEN", "HANDOVER_PENDING"}
Submitted(s) == close[s].status = "SUBMITTED"
Incoming(s) == \E h \in Handovers : handover[h].status = "PENDING" /\ handover[h].to = s
Outgoing(s) == \E h \in Handovers : handover[h].status = "PENDING" /\ handover[h].from = s
Empty(s) == shift[s].opening = 0 /\ shift[s].entries = 0
Ledgered(p) == ledgered[p].shift # NOBODY

\* The entries a close has to explain: revenue whose payment is not captured any more.
Unresolved(s) ==
    {p \in BookingPayments : ledgered[p] = [shift |-> s, revenue |-> TRUE] /\ p \notin captured}

ShiftInit ==
    /\ shift = [s \in Shifts |-> [status |-> "ABSENT", owner |-> NOBODY, opening |-> 0,
                                  net |-> 0, entries |-> 0]]
    /\ handover = [h \in Handovers |-> [status |-> "ABSENT", from |-> NOBODY, to |-> NOBODY,
                                        expected |-> 0, actual |-> 0]]
    /\ close = [s \in Shifts |-> [status |-> "ABSENT", expected |-> 0]]
    /\ ledgered = [p \in BookingPayments |-> [shift |-> NOBODY, revenue |-> FALSE]]
    /\ captured = {}
    /\ owed = [r \in Receivables |-> Debt]

-----------------------------------------------------------------------------
\* Shifts and their entries.

\* openShift(): one active shift per accountant.
OpenShift(a, s, opening) ==
    /\ shift[s].status = "ABSENT"
    /\ ~\E t \in Shifts : shift[t].owner = a /\ Active(t)
    /\ shift' = [shift EXCEPT ![s] = [@ EXCEPT !.status = "OPEN", !.owner = a, !.opening = opening]]
    /\ UNCHANGED <<handover, close, ledgered, captured, owed>>

\* INSERT INTO "FinanceShiftEntry": an entry may name a payment that no other entry names.
AddEntry(s, type, amount, p) ==
    /\ shift[s].entries < MaxEntries
    /\ shift' = [shift EXCEPT ![s] = [@ EXCEPT !.net = shift[s].net + Signed(type, amount),
                                               !.entries = shift[s].entries + 1]]
    /\ IF p = NOBODY
       THEN UNCHANGED ledgered
       ELSE /\ ~Ledgered(p)
            /\ ledgered' = [ledgered EXCEPT ![p] = [shift |-> s, revenue |-> type = "REVENUE"]]

\* Mutant of RecordEntry: a shift that was submitted for close takes entries.
RecordAfterSubmission(a, s, type, amount, p) ==
    /\ shift[s].owner = a /\ shift[s].status = "OPEN"
    /\ ~Incoming(s)
    /\ type = "REVENUE" => p \in captured /\ amount = AmountOf[p]
    /\ AddEntry(s, type, amount, p)
    /\ UNCHANGED <<handover, close, captured, owed>>

\* recordEntry(): revenue needs a captured payment; another entry may name any payment.
RecordEntry(a, s, type, amount, p) ==
    /\ shift[s].owner = a /\ shift[s].status = "OPEN"
    /\ ~Submitted(s)
    /\ ~Incoming(s)
    /\ type = "REVENUE" => p \in captured /\ amount = AmountOf[p]
    /\ AddEntry(s, type, amount, p)
    /\ UNCHANGED <<handover, close, captured, owed>>

\* collect(): a captured payment pays a receivable and enters the collector's open shift.
Collect(a, s, r, p) ==
    /\ shift[s].owner = a /\ shift[s].status = "OPEN"
    /\ ~Submitted(s)
    /\ p \in captured
    /\ AmountOf[p] <= owed[r]
    /\ AddEntry(s, "REVENUE", AmountOf[p], p)
    /\ owed' = [owed EXCEPT ![r] = @ - AmountOf[p]]
    /\ UNCHANGED <<handover, close, captured>>

-----------------------------------------------------------------------------
\* Handing the cash over.

\* Mutant of RequestHandover: a drawer whose entries took out more than was in it is offered.
RequestOverdrawn(a, s, t, h, actual) ==
    /\ shift[s].owner = a /\ shift[s].status = "OPEN"
    /\ shift[t].owner # a /\ shift[t].status = "OPEN"
    /\ ~Incoming(s) /\ ~Incoming(t)
    /\ Empty(t)
    /\ handover[h].status = "ABSENT"
    /\ shift' = [shift EXCEPT ![s].status = "HANDOVER_PENDING"]
    /\ handover' = [handover EXCEPT ![h] = [status |-> "PENDING", from |-> s, to |-> t,
                                            expected |-> ExpectedCash(s), actual |-> actual]]
    /\ UNCHANGED <<close, ledgered, captured, owed>>

\* requestHandover(): the counted cash of an open shift is offered to the open, empty shift of
\* another accountant, which is offered nothing else; whether either shift was submitted for
\* close is not asked.
RequestHandover(a, s, t, h, actual) ==
    /\ shift[s].owner = a /\ shift[s].status = "OPEN"
    /\ shift[t].owner # a /\ shift[t].status = "OPEN"
    /\ ~Incoming(s) /\ ~Incoming(t)
    /\ Empty(t)
    /\ ExpectedCash(s) >= 0
    /\ handover[h].status = "ABSENT"
    /\ shift' = [shift EXCEPT ![s].status = "HANDOVER_PENDING"]
    /\ handover' = [handover EXCEPT ![h] = [status |-> "PENDING", from |-> s, to |-> t,
                                            expected |-> ExpectedCash(s), actual |-> actual]]
    /\ UNCHANGED <<close, ledgered, captured, owed>>

\* Mutant of AcceptHandover: what the receiver collected since the offer is overlooked.
AcceptUnchecked(a, h) ==
    LET s == handover[h].from  t == handover[h].to IN
    /\ handover[h].status = "PENDING"
    /\ shift[t].owner = a /\ shift[t].status = "OPEN"
    /\ ~Submitted(t)
    /\ shift[s].status = "HANDOVER_PENDING"
    /\ handover' = [handover EXCEPT ![h].status = "ACCEPTED"]
    /\ shift' = [shift EXCEPT ![s].status = "HANDED_OVER", ![t].opening = handover[h].actual]
    /\ UNCHANGED <<close, ledgered, captured, owed>>

\* acceptHandover(): the receiver takes the counted cash as its opening balance.
AcceptHandover(a, h) ==
    LET s == handover[h].from  t == handover[h].to IN
    /\ handover[h].status = "PENDING"
    /\ shift[t].owner = a /\ shift[t].status = "OPEN"
    /\ ~Submitted(t)
    /\ shift[s].status = "HANDOVER_PENDING"
    /\ Empty(t)
    /\ handover' = [handover EXCEPT ![h].status = "ACCEPTED"]
    /\ shift' = [shift EXCEPT ![s].status = "HANDED_OVER", ![t].opening = handover[h].actual]
    /\ UNCHANGED <<close, ledgered, captured, owed>>

-----------------------------------------------------------------------------
\* Closing a shift.

\* submit(): an open shift, with all that is in it explained; the counted cash and the reason
\* for a variance are kept for the reviewer.
SubmitClose(a, s) ==
    /\ shift[s].owner = a /\ shift[s].status = "OPEN"
    /\ ~Incoming(s) /\ ~Outgoing(s)
    /\ ExpectedCash(s) >= 0
    /\ Unresolved(s) = {}
    /\ ~Submitted(s)
    /\ close' = [close EXCEPT ![s] = [status |-> "SUBMITTED", expected |-> ExpectedCash(s)]]
    /\ UNCHANGED <<shift, handover, ledgered, captured, owed>>

\* Mutant of ReviewClose: the shift is closed whatever became of it.
ReviewAnyShift(v, s, decision) ==
    /\ Submitted(s)
    /\ v # shift[s].owner
    /\ close' = [close EXCEPT ![s].status = decision]
    /\ shift' = IF decision = "APPROVED" THEN [shift EXCEPT ![s].status = "CLOSED"] ELSE shift
    /\ UNCHANGED <<handover, ledgered, captured, owed>>

\* review(): another account decides; only an open shift can be closed.
ReviewClose(v, s, decision) ==
    /\ Submitted(s)
    /\ v # shift[s].owner
    /\ decision = "APPROVED" => shift[s].status = "OPEN"
    /\ close' = [close EXCEPT ![s].status = decision]
    /\ shift' = IF decision = "APPROVED" THEN [shift EXCEPT ![s].status = "CLOSED"] ELSE shift
    /\ UNCHANGED <<handover, ledgered, captured, owed>>

\* Payments are captured, and may be refunded later, whatever the shifts do.
PaymentChanges(p) ==
    /\ captured' = IF p \in captured THEN captured \ {p} ELSE captured \cup {p}
    /\ UNCHANGED <<shift, handover, close, ledgered, owed>>

ShiftNext ==
    \/ \E a \in Accountants, s \in Shifts :
          \/ \E c \in Amounts \cup {0} : OpenShift(a, s, c)
          \/ SubmitClose(a, s)
          \/ \E y \in EntryTypes, c \in Amounts \ {0}, p \in BookingPayments \cup {NOBODY} :
                RecordEntry(a, s, y, c, p)
          \/ \E r \in Receivables, p \in BookingPayments : Collect(a, s, r, p)
          \/ \E t \in Shifts, h \in Handovers, c \in Amounts \cup {0} :
                RequestHandover(a, s, t, h, c)
    \/ \E a \in Accountants, h \in Handovers : AcceptHandover(a, h)
    \/ \E v \in Reviewers, s \in Shifts, d \in Decisions : ReviewClose(v, s, d)
    \/ \E p \in BookingPayments : PaymentChanges(p)

ShiftSpec == ShiftInit /\ [][ShiftNext]_shiftVars

-----------------------------------------------------------------------------
\* What shifts promise.

\* Every row keeps its type.
ShiftsTypeOK ==
    /\ shift \in [Shifts -> ShiftRecords]
    /\ handover \in [Handovers -> HandoverRecords]
    /\ close \in [Shifts -> CloseRecords]
    /\ ledgered \in [BookingPayments -> LedgerRecords]
    /\ captured \subseteq BookingPayments
    /\ owed \in [Receivables -> Nat]

\* A closed shift holds what its keeper submitted and somebody else approved: nothing entered
\* it, and nothing was handed to it or from it, since the submission.
ClosedAsReviewed ==
    \A s \in Shifts : shift[s].status = "CLOSED" =>
       /\ close[s].status = "APPROVED"
       /\ close[s].expected = ExpectedCash(s)

\* Cash that was handed over is in one drawer: an accepted handover emptied a shift that holds
\* what was expected of it then, into a shift that opened with what was counted, if anything
\* was, and no other handover emptied the same shift.
HandedOverOnce ==
    \A h \in Handovers : handover[h].status = "ACCEPTED" =>
       /\ shift[handover[h].from].status = "HANDED_OVER"
       /\ ExpectedCash(handover[h].from) = handover[h].expected
       /\ handover[h].actual > 0 => shift[handover[h].to].opening = handover[h].actual
       /\ \A g \in Handovers \ {h} : handover[g].status = "ACCEPTED" =>
             handover[g].from # handover[h].from

\* "Freeze incoming recipients against entries/outgoing handovers until acceptance": the shift
\* a pending handover is addressed to stays as empty as it was when it was chosen.
FrozenRecipient == \A s \in Shifts : Incoming(s) => Empty(s)

=============================================================================
