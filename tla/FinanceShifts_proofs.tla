------------------------ MODULE FinanceShifts_proofs ------------------------
(***************************************************************************)
(* Proofs about the accountant shifts of a center: their types, what a     *)
(* close and a handover promise, that they are cash drawers, and what the  *)
(* close of a period may rely on while they go on.                         *)
(***************************************************************************)
EXTENDS FinanceCustody, FinancePeriods, FiniteSetTheorems, TLAPS

-----------------------------------------------------------------------------
\* The inductive invariant.

\* Cash is counted once the close is submitted: the count waits for the review with the drawer
\* as it was.
SubmittedStands == \A s \in Shifts : Submitted(s) => close[s].expected = ExpectedCash(s)

\* Nothing is submitted for a shift that was never opened or entered into it, and without entries
\* its balance is what it opened with.
ClosesOfShifts ==
    \A s \in Shifts :
       /\ shift[s].status = "ABSENT" => ~Submitted(s) /\ shift[s].entries = 0
       /\ shift[s].entries = 0 => shift[s].net = 0

\* A handover on its way: both shifts were opened, and the drawer that is left waits as counted.
Addressed ==
    \A h \in Handovers : handover[h].status # "ABSENT" =>
       /\ handover[h].from \in Shifts /\ handover[h].to \in Shifts
       /\ shift[handover[h].to].status # "ABSENT"
       /\ handover[h].status = "PENDING" =>
             /\ shift[handover[h].from].status = "HANDOVER_PENDING"
             /\ handover[h].expected = ExpectedCash(handover[h].from)

\* A drawer is offered once at a time.
OfferedOnce ==
    \A g, h \in Handovers :
       handover[g].status = "PENDING" /\ handover[h].status # "ABSENT"
       /\ handover[g].from = handover[h].from => g = h

ShiftIInv ==
    /\ ShiftsTypeOK
    /\ ClosedAsReviewed
    /\ HandedOverOnce
    /\ SubmittedStands
    /\ ClosesOfShifts
    /\ Addressed
    /\ OfferedOnce

-----------------------------------------------------------------------------
LEMMA ShiftInitInv == ShiftInit => ShiftIInv
BY AmountAssumption, NobodyAssumption
   DEF ShiftInit, ShiftIInv, ShiftsTypeOK, ClosedAsReviewed, HandedOverOnce, SubmittedStands,
       ClosesOfShifts, Addressed, OfferedOnce, ShiftRecords, HandoverRecords, CloseRecords,
       LedgerRecords, ShiftStatus, Decisions, Submitted

-----------------------------------------------------------------------------
\* Every step preserves it.

\* An entry goes into an open shift that was not submitted.
LEMMA EntryInv ==
    ASSUME ShiftIInv, NEW s \in Shifts, NEW type \in EntryTypes, NEW amount \in Nat,
           NEW p \in BookingPayments \cup {NOBODY},
           shift[s].status = "OPEN", ~Submitted(s), AddEntry(s, type, amount, p),
           UNCHANGED <<handover, close, captured>>, owed' \in [Receivables -> Nat]
    PROVE  ShiftIInv'
<1> DEFINE after == [shift[s] EXCEPT !.net = shift[s].net + Signed(type, amount),
                                     !.entries = shift[s].entries + 1]
<1>1. shift[s] \in ShiftRecords /\ Signed(type, amount) \in Int
  BY DEF ShiftIInv, ShiftsTypeOK, Signed
<1>2. after \in ShiftRecords /\ shift' = [shift EXCEPT ![s] = after]
  <2>1. PICK r \in ShiftRecords : r = shift[s]
    BY <1>1
  <2>2. r.net + Signed(type, amount) \in Int /\ r.entries + 1 \in Nat
    BY <1>1 DEF ShiftRecords
  <2>3. [r EXCEPT !.net = r.net + Signed(type, amount), !.entries = r.entries + 1] \in ShiftRecords
    BY <2>2 DEF ShiftRecords
  <2> QED
    BY <2>1, <2>3 DEF AddEntry
<1>3. after.status = "OPEN" /\ after.owner = shift[s].owner /\ after.entries # 0
  BY <1>1 DEF ShiftRecords
<1>4. /\ shift' \in [Shifts -> ShiftRecords] /\ shift'[s] = after
      /\ \A u \in Shifts \ {s} : shift'[u] = shift[u]
  BY <1>2 DEF ShiftIInv, ShiftsTypeOK
<1>5. ledgered' \in [BookingPayments -> LedgerRecords]
  <2> DEFINE entry == [shift |-> s, revenue |-> type = "REVENUE"]
  <2>1. entry \in LedgerRecords
    <3>1. (type = "REVENUE") \in BOOLEAN
      OBVIOUS
    <3> QED
      BY <3>1, Zenon DEF LedgerRecords
  <2>2. UNCHANGED ledgered \/ (p \in BookingPayments /\ ledgered' = [ledgered EXCEPT ![p] = entry])
    BY DEF AddEntry
  <2> HIDE DEF entry
  <2> QED
    BY <2>1, <2>2 DEF ShiftIInv, ShiftsTypeOK
<1>6. ShiftsTypeOK'
  BY <1>4, <1>5 DEF ShiftIInv, ShiftsTypeOK
<1> HIDE DEF after
<1>7. ClosedAsReviewed'
  BY <1>3, <1>4 DEF ShiftIInv, ClosedAsReviewed, ExpectedCash
<1>8. HandedOverOnce'
  <2>1. ASSUME NEW h \in Handovers, handover[h].status = "ACCEPTED"
        PROVE  /\ handover[h].from \in Shifts \ {s} /\ handover[h].to \in Shifts
               /\ shift'[handover[h].to].opening = shift[handover[h].to].opening
    <3>1. handover[h].from \in Shifts \ {s} /\ handover[h].to \in Shifts
      BY <2>1 DEF ShiftIInv, HandedOverOnce, Addressed
    <3>2. shift'[s].opening = shift[s].opening
      BY <1>1, <1>2 DEF ShiftIInv, ShiftsTypeOK, ShiftRecords, after
    <3> QED
      BY <1>4, <3>1, <3>2
  <2> QED
    BY <1>4, <2>1 DEF ShiftIInv, HandedOverOnce, ExpectedCash
<1>9. SubmittedStands'
  BY <1>4 DEF ShiftIInv, SubmittedStands, Submitted, ExpectedCash
<1>10. ClosesOfShifts'
  BY <1>3, <1>4 DEF ShiftIInv, ClosesOfShifts, Submitted
<1>11. Addressed' /\ OfferedOnce'
  BY <1>3, <1>4 DEF ShiftIInv, Addressed, OfferedOnce, ExpectedCash
<1> QED
  BY <1>6, <1>7, <1>8, <1>9, <1>10, <1>11 DEF ShiftIInv

\* A shift is opened.
LEMMA OpenInv ==
    ASSUME ShiftIInv, NEW a \in Accountants, NEW s \in Shifts, NEW opening \in Nat,
           OpenShift(a, s, opening)
    PROVE  ShiftIInv'
<1> DEFINE after == [shift[s] EXCEPT !.status = "OPEN", !.owner = a, !.opening = opening]
<1>1. shift[s] \in ShiftRecords
  BY DEF ShiftIInv, ShiftsTypeOK
<1>2. after \in ShiftRecords /\ shift' = [shift EXCEPT ![s] = after]
  BY <1>1 DEF OpenShift, ShiftRecords, ShiftStatus
<1>3. after.status = "OPEN" /\ after.owner = a /\ after.entries = shift[s].entries /\ after.net = shift[s].net
  BY <1>1 DEF ShiftRecords
<1>4. /\ shift' \in [Shifts -> ShiftRecords] /\ shift'[s] = after
      /\ \A u \in Shifts \ {s} : shift'[u] = shift[u]
  BY <1>2 DEF ShiftIInv, ShiftsTypeOK
<1>5. shift[s].status = "ABSENT" /\ ~Submitted(s)
  BY DEF OpenShift, ShiftIInv, ClosesOfShifts
<1> HIDE DEF after
<1>6. ShiftsTypeOK'
  BY <1>4 DEF OpenShift, ShiftIInv, ShiftsTypeOK
<1>7. ClosedAsReviewed'
  BY <1>3, <1>4 DEF OpenShift, ShiftIInv, ClosedAsReviewed, ExpectedCash
<1>8. HandedOverOnce' /\ Addressed' /\ OfferedOnce'
  <2>1. ASSUME NEW h \in Handovers, handover[h].status # "ABSENT"
        PROVE  handover[h].from \in Shifts \ {s} /\ handover[h].to \in Shifts \ {s}
    BY <1>5, <2>1 DEF ShiftIInv, HandedOverOnce, Addressed, ShiftsTypeOK, HandoverRecords
  <2> QED
    BY <1>4, <2>1 DEF OpenShift, ShiftIInv, HandedOverOnce, Addressed, OfferedOnce, ExpectedCash
<1>9. SubmittedStands' /\ ClosesOfShifts'
  BY <1>3, <1>4, <1>5 DEF OpenShift, ShiftIInv, SubmittedStands, ClosesOfShifts, Submitted, ExpectedCash
<1> QED
  BY <1>6, <1>7, <1>8, <1>9 DEF ShiftIInv

\* The cash of a shift is offered.
LEMMA RequestInv ==
    ASSUME ShiftIInv, NEW a \in Accountants, NEW s \in Shifts, NEW t \in Shifts,
           NEW h \in Handovers, NEW actual \in Nat, RequestHandover(a, s, t, h, actual)
    PROVE  ShiftIInv'
<1> DEFINE after == [shift[s] EXCEPT !.status = "HANDOVER_PENDING"]
           offer == [status |-> "PENDING", from |-> s, to |-> t, expected |-> ExpectedCash(s),
                     actual |-> actual]
<1>1. shift[s] \in ShiftRecords /\ shift[s].status = "OPEN" /\ ExpectedCash(s) \in Nat
  BY DEF RequestHandover, ShiftIInv, ShiftsTypeOK, ShiftRecords, ExpectedCash
<1>2. after \in ShiftRecords /\ shift' = [shift EXCEPT ![s] = after]
  BY <1>1 DEF RequestHandover, ShiftRecords, ShiftStatus
<1>3. /\ after.status = "HANDOVER_PENDING" /\ after.owner = shift[s].owner
      /\ after.entries = shift[s].entries /\ after.net = shift[s].net /\ after.opening = shift[s].opening
  BY <1>1 DEF ShiftRecords
<1>4. /\ shift' \in [Shifts -> ShiftRecords] /\ shift'[s] = after
      /\ \A u \in Shifts \ {s} : shift'[u] = shift[u]
  BY <1>2 DEF ShiftIInv, ShiftsTypeOK
<1>5. offer \in HandoverRecords
  BY <1>1 DEF HandoverRecords
<1>6. /\ handover' \in [Handovers -> HandoverRecords] /\ handover'[h] = offer
      /\ \A g \in Handovers \ {h} : handover'[g] = handover[g]
  BY <1>5 DEF RequestHandover, ShiftIInv, ShiftsTypeOK
<1>7. s # t /\ shift[t].status = "OPEN" /\ handover[h].status = "ABSENT"
  BY DEF RequestHandover
<1>8. /\ offer.status = "PENDING" /\ offer.from = s /\ offer.to = t
      /\ offer.expected = ExpectedCash(s) /\ offer.actual = actual
  OBVIOUS
<1>9. \A u \in Shifts : ExpectedCash(u)' = ExpectedCash(u)
  BY <1>3, <1>4 DEF ExpectedCash
<1>10. \A u \in Shifts : shift'[u].opening = shift[u].opening
  BY <1>3, <1>4
<1> HIDE DEF after, offer
<1>11. ShiftsTypeOK'
  BY <1>4, <1>6 DEF RequestHandover, ShiftIInv, ShiftsTypeOK
<1>12. ClosedAsReviewed' /\ SubmittedStands' /\ ClosesOfShifts'
  BY <1>1, <1>3, <1>4, <1>9
     DEF RequestHandover, ShiftIInv, ClosedAsReviewed, SubmittedStands, ClosesOfShifts, Submitted
<1>13. \A g \in Handovers \ {h} : handover[g].status # "ABSENT" =>
          handover[g].from \in Shifts \ {s} /\ handover[g].to \in Shifts
  BY <1>1 DEF ShiftIInv, HandedOverOnce, Addressed, ShiftsTypeOK, HandoverRecords
<1>14. HandedOverOnce'
  BY <1>4, <1>6, <1>8, <1>9, <1>10, <1>13 DEF ShiftIInv, HandedOverOnce
<1>15. Addressed'
  BY <1>3, <1>4, <1>6, <1>7, <1>8, <1>9, <1>13 DEF ShiftIInv, Addressed
<1>16. OfferedOnce'
  BY <1>6, <1>8, <1>13 DEF ShiftIInv, OfferedOnce
<1> QED
  BY <1>11, <1>12, <1>14, <1>15, <1>16 DEF ShiftIInv

\* The cash of a shift is taken over.
LEMMA AcceptInv ==
    ASSUME ShiftIInv, NEW a \in Accountants, NEW h \in Handovers, AcceptHandover(a, h)
    PROVE  ShiftIInv'
<1> DEFINE s == handover[h].from
           t == handover[h].to
           left == [shift[s] EXCEPT !.status = "HANDED_OVER"]
           taken == [shift[t] EXCEPT !.opening = handover[h].actual]
           accepted == [handover[h] EXCEPT !.status = "ACCEPTED"]
<1>1. /\ s \in Shifts /\ t \in Shifts /\ s # t
      /\ shift[s] \in ShiftRecords /\ shift[t] \in ShiftRecords /\ handover[h] \in HandoverRecords
      /\ shift[s].status = "HANDOVER_PENDING" /\ shift[t].status = "OPEN" /\ ~Submitted(t)
      /\ handover[h].status = "PENDING" /\ handover[h].expected = ExpectedCash(s)
  BY DEF AcceptHandover, ShiftIInv, ShiftsTypeOK, Addressed
<1>2. handover[h].actual \in Nat /\ shift[t].opening = 0
  BY <1>1 DEF AcceptHandover, HandoverRecords, Empty
<1>3. /\ left \in ShiftRecords /\ left.status = "HANDED_OVER" /\ left.owner = shift[s].owner
      /\ left.opening = shift[s].opening /\ left.net = shift[s].net /\ left.entries = shift[s].entries
  BY <1>1 DEF ShiftRecords, ShiftStatus
<1>4. /\ taken \in ShiftRecords /\ taken.status = "OPEN" /\ taken.owner = shift[t].owner
      /\ taken.opening = handover[h].actual /\ taken.net = shift[t].net /\ taken.entries = shift[t].entries
  BY <1>1, <1>2 DEF ShiftRecords
<1>5. /\ accepted \in HandoverRecords /\ accepted.status = "ACCEPTED"
      /\ accepted.from = s /\ accepted.to = t
      /\ accepted.expected = handover[h].expected /\ accepted.actual = handover[h].actual
  BY <1>1 DEF HandoverRecords
<1>6. /\ shift' = [shift EXCEPT ![s].status = "HANDED_OVER", ![t].opening = handover[h].actual]
      /\ handover' = [handover EXCEPT ![h].status = "ACCEPTED"]
      /\ shift \in [Shifts -> ShiftRecords] /\ handover \in [Handovers -> HandoverRecords]
  BY DEF AcceptHandover, ShiftIInv, ShiftsTypeOK
<1>7. /\ shift' \in [Shifts -> ShiftRecords] /\ shift'[s] = left /\ shift'[t] = taken
      /\ \A u \in Shifts \ {s, t} : shift'[u] = shift[u]
  BY <1>1, <1>3, <1>4, <1>6
<1>8. /\ handover' \in [Handovers -> HandoverRecords] /\ handover'[h] = accepted
      /\ \A g \in Handovers \ {h} : handover'[g] = handover[g]
  BY <1>5, <1>6
<1>9. UNCHANGED <<close, ledgered, captured, owed>>
  BY DEF AcceptHandover
<1> HIDE DEF s, t, left, taken, accepted
<1>10. \A u \in Shifts \ {t} : ExpectedCash(u)' = ExpectedCash(u) /\ shift'[u].opening = shift[u].opening
  BY <1>3, <1>7 DEF ExpectedCash
<1>11. ShiftsTypeOK'
  BY <1>7, <1>8, <1>9 DEF ShiftIInv, ShiftsTypeOK
<1>12. ClosedAsReviewed' /\ SubmittedStands' /\ ClosesOfShifts'
  BY <1>1, <1>3, <1>4, <1>7, <1>9, <1>10
     DEF ShiftIInv, ClosedAsReviewed, SubmittedStands, ClosesOfShifts, Submitted
<1>13. \A g \in Handovers : handover[g].status = "ACCEPTED" =>
          /\ handover[g].from \in Shifts \ {s, t} /\ handover[g].to \in Shifts
          /\ handover[g].to = t => handover[g].actual = 0
  BY <1>1, <1>2 DEF ShiftIInv, HandedOverOnce, Addressed, ShiftsTypeOK, HandoverRecords
<1>14. HandedOverOnce'
  <2>1. ASSUME NEW g \in Handovers, handover'[g].status = "ACCEPTED"
        PROVE  /\ shift'[handover'[g].from].status = "HANDED_OVER"
               /\ (ExpectedCash(handover[g].from) = handover[g].expected)'
               /\ handover'[g].actual > 0 => shift'[handover'[g].to].opening = handover'[g].actual
    <3>1. CASE g = h
      BY <1>1, <1>3, <1>4, <1>5, <1>7, <1>8, <1>10, <3>1
    <3>2. CASE g # h
      BY <1>1, <1>7, <1>8, <1>10, <1>13, <2>1, <3>2 DEF ShiftIInv, HandedOverOnce
    <3> QED
      BY <3>1, <3>2
  <2>2. ASSUME NEW g \in Handovers, NEW f \in Handovers \ {g},
               handover'[g].status = "ACCEPTED", handover'[f].status = "ACCEPTED"
        PROVE  handover'[f].from # handover'[g].from
    BY <1>5, <1>8, <1>13, <2>2 DEF ShiftIInv, HandedOverOnce
  <2> QED
    BY <2>1, <2>2 DEF HandedOverOnce, ExpectedCash
<1>15. Addressed'
  <2>1. \A g \in Handovers \ {h} : handover[g].status = "PENDING" => handover[g].from # s
    BY <1>1 DEF ShiftIInv, OfferedOnce, s
  <2> QED
    BY <1>1, <1>3, <1>4, <1>5, <1>7, <1>8, <1>10, <2>1 DEF ShiftIInv, Addressed
<1>16. OfferedOnce'
  BY <1>1, <1>5, <1>8 DEF ShiftIInv, OfferedOnce, s
<1> QED
  BY <1>11, <1>12, <1>14, <1>15, <1>16 DEF ShiftIInv

\* A close is submitted, or decided.
LEMMA CloseInv ==
    ASSUME ShiftIInv, NEW s \in Shifts, NEW record \in CloseRecords,
           close' = [close EXCEPT ![s] = record],
           UNCHANGED <<handover, ledgered, captured, owed>>,
           record.expected = ExpectedCash(s), record.status # "ABSENT",
           \/ shift' = shift /\ shift[s].status \notin {"ABSENT", "CLOSED"}
           \/ /\ shift[s].status = "OPEN" /\ record.status = "APPROVED"
              /\ shift' = [shift EXCEPT ![s].status = "CLOSED"]
    PROVE  ShiftIInv'
<1>1. /\ close' \in [Shifts -> CloseRecords] /\ close'[s] = record
      /\ \A u \in Shifts \ {s} : close'[u] = close[u]
  BY DEF ShiftIInv, ShiftsTypeOK
<1>2. CASE shift' = shift
  <2>1. shift[s].status \notin {"ABSENT", "CLOSED"}
    BY <1>2 DEF ShiftIInv, ShiftsTypeOK, ShiftRecords
  <2> QED
    BY <1>1, <1>2, <2>1 DEF ShiftIInv, ShiftsTypeOK, ClosedAsReviewed, HandedOverOnce, SubmittedStands,
       ClosesOfShifts, Addressed, OfferedOnce, Submitted, ExpectedCash
<1>3. CASE /\ shift[s].status = "OPEN" /\ record.status = "APPROVED"
           /\ shift' = [shift EXCEPT ![s].status = "CLOSED"]
  <2> DEFINE after == [shift[s] EXCEPT !.status = "CLOSED"]
  <2>1. shift[s] \in ShiftRecords
    BY DEF ShiftIInv, ShiftsTypeOK
  <2>2. /\ after \in ShiftRecords /\ after.status = "CLOSED" /\ after.owner = shift[s].owner
        /\ after.opening = shift[s].opening /\ after.net = shift[s].net /\ after.entries = shift[s].entries
    BY <2>1 DEF ShiftRecords, ShiftStatus
  <2>3. /\ shift' \in [Shifts -> ShiftRecords] /\ shift'[s] = after
        /\ \A u \in Shifts \ {s} : shift'[u] = shift[u]
    BY <1>3, <2>2 DEF ShiftIInv, ShiftsTypeOK
  <2> HIDE DEF after
  <2>4. \A u \in Shifts : ExpectedCash(u)' = ExpectedCash(u) /\ shift'[u].opening = shift[u].opening
    BY <2>2, <2>3 DEF ExpectedCash
  <2>5. ShiftsTypeOK'
    BY <1>1, <2>3 DEF ShiftIInv, ShiftsTypeOK
  <2>6. ClosedAsReviewed' /\ SubmittedStands' /\ ClosesOfShifts'
    BY <1>1, <1>3, <2>2, <2>3, <2>4
       DEF ShiftIInv, ClosedAsReviewed, SubmittedStands, ClosesOfShifts, Submitted
  <2>7. \A g \in Handovers : handover[g].status # "ABSENT" =>
          handover[g].from \in Shifts \ {s} /\ handover[g].to \in Shifts
    BY <1>3 DEF ShiftIInv, HandedOverOnce, Addressed, ShiftsTypeOK, HandoverRecords
  <2>8. HandedOverOnce' /\ Addressed' /\ OfferedOnce'
    <3>1. HandedOverOnce'
      BY <2>3, <2>4, <2>7 DEF ShiftIInv, HandedOverOnce
    <3>2. Addressed' /\ OfferedOnce'
      BY <2>2, <2>3, <2>4, <2>7 DEF ShiftIInv, Addressed, OfferedOnce
    <3> QED
      BY <3>1, <3>2
  <2> QED
    BY <2>5, <2>6, <2>8 DEF ShiftIInv
<1> QED
  BY <1>2, <1>3

\* An accountant submits a close.
LEMMA SubmitInv ==
    ASSUME ShiftIInv, NEW a \in Accountants, NEW s \in Shifts, SubmitClose(a, s)
    PROVE  ShiftIInv'
<1>1. [status |-> "SUBMITTED", expected |-> ExpectedCash(s)] \in CloseRecords
  BY DEF SubmitClose, CloseRecords, ShiftIInv, ShiftsTypeOK, ShiftRecords, ExpectedCash
<1> QED
  BY <1>1, CloseInv DEF SubmitClose

\* A reviewer decides: what is decided is not approved unless the shift is still open.
LEMMA ReviewInv ==
    ASSUME ShiftIInv, NEW v \in Reviewers, NEW s \in Shifts, NEW d \in Decisions, ReviewClose(v, s, d)
    PROVE  ShiftIInv'
<1> DEFINE record == [close[s] EXCEPT !.status = d]
<1>1. close[s] \in CloseRecords /\ close[s].expected = ExpectedCash(s)
  BY DEF ReviewClose, ShiftIInv, ShiftsTypeOK, SubmittedStands
<1>2. record \in CloseRecords /\ record.status = d /\ record.expected = ExpectedCash(s)
  BY <1>1 DEF CloseRecords
<1>3. close' = [close EXCEPT ![s] = record]
  BY DEF ReviewClose
<1>4. shift[s].status # "ABSENT" /\ shift[s].status # "CLOSED"
  BY DEF ReviewClose, ShiftIInv, ClosesOfShifts, ClosedAsReviewed, Submitted
<1> HIDE DEF record
<1>5. \/ shift' = shift
      \/ /\ shift[s].status = "OPEN" /\ record.status = "APPROVED"
         /\ shift' = [shift EXCEPT ![s].status = "CLOSED"]
  BY <1>2 DEF ReviewClose
<1>6. record.status # "ABSENT"
  BY <1>2 DEF Decisions
<1>7. UNCHANGED <<handover, ledgered, captured, owed>>
  BY DEF ReviewClose
<1>8. CASE shift' = shift
  BY <1>2, <1>3, <1>4, <1>6, <1>7, <1>8, CloseInv
<1>9. CASE shift' # shift
  BY <1>2, <1>3, <1>5, <1>6, <1>7, <1>9, CloseInv
<1> QED
  BY <1>8, <1>9

\* Every step of the shifts.
LEMMA ShiftStepInv == ShiftIInv /\ [ShiftNext]_shiftVars => ShiftIInv'
<1> SUFFICES ASSUME ShiftIInv, [ShiftNext]_shiftVars PROVE ShiftIInv'
  OBVIOUS
<1>1. ASSUME NEW a \in Accountants, NEW s \in Shifts, NEW c \in Amounts \cup {0}, OpenShift(a, s, c)
      PROVE  ShiftIInv'
  BY <1>1, OpenInv, AmountAssumption
<1>2. ASSUME NEW a \in Accountants, NEW s \in Shifts, SubmitClose(a, s) PROVE ShiftIInv'
  BY <1>2, SubmitInv
<1>3. ASSUME NEW a \in Accountants, NEW s \in Shifts, NEW y \in EntryTypes, NEW c \in Amounts \ {0},
             NEW p \in BookingPayments \cup {NOBODY}, RecordEntry(a, s, y, c, p)
      PROVE  ShiftIInv'
  <2>1. c \in Nat /\ owed' \in [Receivables -> Nat]
    BY <1>3, AmountAssumption DEF RecordEntry, ShiftIInv, ShiftsTypeOK
  <2> QED
    BY <1>3, <2>1, EntryInv DEF RecordEntry
<1>4. ASSUME NEW a \in Accountants, NEW s \in Shifts, NEW r \in Receivables, NEW p \in BookingPayments,
             Collect(a, s, r, p)
      PROVE  ShiftIInv'
  <2>1. AmountOf[p] \in Nat /\ "REVENUE" \in EntryTypes /\ p \in BookingPayments \cup {NOBODY}
    BY AmountAssumption, PaymentAssumption DEF EntryTypes
  <2>2. owed[r] \in Nat /\ owed[r] - AmountOf[p] \in Nat
    BY <1>4, <2>1 DEF Collect, ShiftIInv, ShiftsTypeOK
  <2>3. owed' \in [Receivables -> Nat]
    BY <1>4, <2>2 DEF Collect, ShiftIInv, ShiftsTypeOK
  <2> QED
    BY <1>4, <2>1, <2>3, EntryInv DEF Collect
<1>5. ASSUME NEW a \in Accountants, NEW s \in Shifts, NEW t \in Shifts, NEW h \in Handovers,
             NEW c \in Amounts \cup {0}, RequestHandover(a, s, t, h, c)
      PROVE  ShiftIInv'
  BY <1>5, RequestInv, AmountAssumption
<1>6. ASSUME NEW a \in Accountants, NEW h \in Handovers, AcceptHandover(a, h) PROVE ShiftIInv'
  BY <1>6, AcceptInv
<1>7. ASSUME NEW v \in Reviewers, NEW s \in Shifts, NEW d \in Decisions, ReviewClose(v, s, d)
      PROVE  ShiftIInv'
  BY <1>7, ReviewInv
<1>8. ASSUME UNCHANGED <<shift, handover, close, ledgered, owed>>, captured' \subseteq BookingPayments
      PROVE  ShiftIInv'
  BY <1>8 DEF ShiftIInv, ShiftsTypeOK, ClosedAsReviewed, HandedOverOnce, SubmittedStands,
     ClosesOfShifts, Addressed, OfferedOnce, Submitted, ExpectedCash
<1>9. ASSUME NEW p \in BookingPayments, PaymentChanges(p) PROVE ShiftIInv'
  BY <1>8, <1>9 DEF PaymentChanges, ShiftIInv, ShiftsTypeOK
<1>10. CASE UNCHANGED shiftVars
  BY <1>8, <1>10 DEF shiftVars, ShiftIInv, ShiftsTypeOK
<1>11. CASE ShiftNext
  BY <1>1, <1>2, <1>3, <1>4, <1>5, <1>6, <1>7, <1>9, <1>11 DEF ShiftNext
<1> QED
  BY <1>10, <1>11

\* The invariant holds in every reachable state.
LEMMA ShiftInvariance == ShiftSpec => []ShiftIInv
BY ShiftInitInv, ShiftStepInv, PTL DEF ShiftSpec

-----------------------------------------------------------------------------
\* What the shifts promise, for any number of accountants, shifts, handovers and payments.

\* Every row keeps its type: no drawer that was counted, offered or submitted is overdrawn, and
\* no receivable is collected beyond what is owed.
THEOREM ShiftTypes == ShiftSpec => []ShiftsTypeOK
<1>1. ShiftIInv => ShiftsTypeOK
  BY DEF ShiftIInv
<1> QED
  BY <1>1, ShiftInvariance, PTL

\* A closed shift holds what its keeper submitted and somebody else approved.
THEOREM ClosedShifts == ShiftSpec => []ClosedAsReviewed
<1>1. ShiftIInv => ClosedAsReviewed
  BY DEF ShiftIInv
<1> QED
  BY <1>1, ShiftInvariance, PTL

\* Cash that was handed over is in one drawer.
THEOREM HandedOverCash == ShiftSpec => []HandedOverOnce
<1>1. ShiftIInv => HandedOverOnce
  BY DEF ShiftIInv
<1> QED
  BY <1>1, ShiftInvariance, PTL

-----------------------------------------------------------------------------
\* The shifts are cash drawers.

\* A step that leaves every other shift's status and close alone moves one drawer's phase only.
LEMMA OnePhase ==
    ASSUME NEW s \in Shifts,
           \A u \in Shifts \ {s} : shift'[u].status = shift[u].status /\ close'[u].status = close[u].status
    PROVE  Phase' = [Phase EXCEPT ![s] = Phase'[s]]
BY DEF Phase, Submitted

\* A step that leaves every other shift's balance alone moves one drawer's cash only.
LEMMA OneCash ==
    ASSUME NEW s \in Shifts,
           \A u \in Shifts \ {s} : /\ shift'[u].opening = shift[u].opening
                                   /\ shift'[u].net = shift[u].net
    PROVE  Cash' = [Cash EXCEPT ![s] = Cash'[s]]
BY DEF Cash, ExpectedCash

\* What the phase of a shift tells.
LEMMA PhaseOf ==
    ASSUME NEW s \in Shifts
    PROVE  /\ shift[s].status = "ABSENT" => Phase[s] = "unused"
           /\ shift[s].status = "HANDED_OVER" => Phase[s] = "passed"
           /\ shift[s].status = "CLOSED" => Phase[s] = "sealed"
           /\ shift[s].status = "HANDOVER_PENDING" => Phase[s] = "counting"
           /\ shift[s].status = "OPEN" => Phase[s] = IF Submitted(s) THEN "counting" ELSE "live"
BY DEF Phase

\* The same of the next state.
LEMMA PhaseOfNext ==
    ASSUME NEW s \in Shifts
    PROVE  /\ shift'[s].status = "ABSENT" => Phase'[s] = "unused"
           /\ shift'[s].status = "HANDED_OVER" => Phase'[s] = "passed"
           /\ shift'[s].status = "CLOSED" => Phase'[s] = "sealed"
           /\ shift'[s].status = "HANDOVER_PENDING" => Phase'[s] = "counting"
           /\ shift'[s].status = "OPEN" => Phase'[s] = IF Submitted(s)' THEN "counting" ELSE "live"
BY DEF Phase

\* Shifts start as unused, empty drawers.
LEMMA CustodyInit == ShiftInit => Custody!Init
<1> SUFFICES ASSUME ShiftInit PROVE Custody!Init
  OBVIOUS
<1>1. Phase = [s \in Shifts |-> "unused"]
  BY DEF ShiftInit, Phase
<1>2. Cash = [s \in Shifts |-> 0]
  BY DEF ShiftInit, Cash, ExpectedCash
<1> QED
  BY <1>1, <1>2 DEF Custody!Init

CustodyStep == [Custody!Next]_<<Phase, Cash>>

\* A shift is opened: a drawer is put to use.
LEMMA OpenIsOpen ==
    ASSUME ShiftIInv, NEW a \in Accountants, NEW s \in Shifts, NEW c \in Nat, OpenShift(a, s, c)
    PROVE  CustodyStep
<1>1. shift \in [Shifts -> ShiftRecords] /\ close' = close
  BY DEF OpenShift, ShiftIInv, ShiftsTypeOK
<1>2. /\ shift'[s].status = "OPEN" /\ shift'[s].opening = c /\ shift'[s].net = shift[s].net
      /\ \A u \in Shifts \ {s} : shift'[u] = shift[u]
  BY <1>1 DEF OpenShift, ShiftRecords
<1>3. shift[s].status = "ABSENT" /\ ~Submitted(s) /\ ~Submitted(s)' /\ shift'[s].net \in Int
  BY <1>1, <1>2 DEF OpenShift, ShiftIInv, ClosesOfShifts, Submitted, ShiftRecords
<1>4. Phase[s] = "unused" /\ Phase'[s] = "live"
  BY <1>2, <1>3, PhaseOf, PhaseOfNext
<1>5. Cash'[s] \in Nat
  <2>1. shift[s].net = 0 /\ shift'[s].net = 0
    BY <1>2, <1>3 DEF ShiftIInv, ClosesOfShifts
  <2> QED
    BY <1>2, <2>1 DEF Cash, ExpectedCash
<1>6. Phase' = [Phase EXCEPT ![s] = "live"] /\ Cash' = [Cash EXCEPT ![s] = Cash'[s]]
  BY <1>1, <1>2, <1>4, OnePhase, OneCash
<1> QED
  BY <1>4, <1>5, <1>6
     DEF CustodyStep, Custody!Next, Custody!Open, Custody!Goes, Custody!OnlyCashOf

\* An entry moves the cash of a live drawer.
LEMMA EntryIsMove ==
    ASSUME ShiftIInv, NEW s \in Shifts, NEW type \in EntryTypes, NEW amount \in Nat,
           NEW p, shift[s].status = "OPEN", ~Submitted(s), AddEntry(s, type, amount, p), close' = close
    PROVE  CustodyStep
<1>1. shift \in [Shifts -> ShiftRecords] /\ Signed(type, amount) \in Int
  BY DEF ShiftIInv, ShiftsTypeOK, Signed
<1>2. /\ shift'[s].status = "OPEN" /\ shift'[s].opening = shift[s].opening
      /\ shift'[s].net = shift[s].net + Signed(type, amount)
      /\ \A u \in Shifts \ {s} : shift'[u] = shift[u]
  BY <1>1 DEF AddEntry, ShiftRecords
<1>3. Phase[s] = "live" /\ Phase'[s] = "live"
  BY <1>2, PhaseOf, PhaseOfNext DEF Submitted
<1>4. Cash'[s] \in Int
  <2>1. shift[s].net \in Int /\ shift[s].opening \in Nat
    BY <1>1 DEF ShiftRecords
  <2> QED
    BY <1>1, <1>2, <2>1 DEF Cash, ExpectedCash
<1>5. Phase' = Phase /\ Cash' = [Cash EXCEPT ![s] = Cash'[s]]
  <2>1. Phase' = [Phase EXCEPT ![s] = "live"] /\ Cash' = [Cash EXCEPT ![s] = Cash'[s]]
    BY <1>2, <1>3, OnePhase, OneCash
  <2> QED
    BY <1>3, <2>1 DEF Phase
<1> QED
  BY <1>3, <1>4, <1>5 DEF CustodyStep, Custody!Next, Custody!Move, Custody!OnlyCashOf

\* The cash of a shift is offered: its keeper counts it, unless it was counted for a close.
LEMMA RequestIsCount ==
    ASSUME ShiftIInv, NEW a \in Accountants, NEW s \in Shifts, NEW t \in Shifts,
           NEW h \in Handovers, NEW c \in Nat, RequestHandover(a, s, t, h, c)
    PROVE  CustodyStep
<1>1. shift \in [Shifts -> ShiftRecords] /\ close' = close /\ shift[s].status = "OPEN"
  BY DEF RequestHandover, ShiftIInv, ShiftsTypeOK
<1>2. /\ shift'[s].status = "HANDOVER_PENDING"
      /\ \A u \in Shifts \ {s} : shift'[u] = shift[u]
      /\ \A u \in Shifts : shift'[u].opening = shift[u].opening /\ shift'[u].net = shift[u].net
  BY <1>1 DEF RequestHandover, ShiftRecords
<1>3. Phase[s] \in {"live", "counting"} /\ Phase'[s] = "counting"
  BY <1>1, <1>2, PhaseOf, PhaseOfNext
<1>4. Phase' = [Phase EXCEPT ![s] = "counting"] /\ Cash' = Cash
  BY <1>1, <1>2, <1>3, OnePhase DEF Cash, ExpectedCash
<1>5. CASE Phase[s] = "live"
  BY <1>4, <1>5 DEF CustodyStep, Custody!Next, Custody!Count, Custody!Goes
<1>6. CASE Phase[s] = "counting"
  BY <1>4, <1>6 DEF CustodyStep, Phase
<1> QED
  BY <1>3, <1>5, <1>6

\* A handover is accepted: the cash passes into an empty live drawer.
LEMMA AcceptIsPass ==
    ASSUME ShiftIInv, NEW a \in Accountants, NEW h \in Handovers, AcceptHandover(a, h)
    PROVE  CustodyStep
<1> DEFINE s == handover[h].from
           t == handover[h].to
<1>1. /\ s \in Shifts /\ t \in Shifts /\ s # t /\ handover[h].actual \in Nat
      /\ shift \in [Shifts -> ShiftRecords] /\ close' = close
      /\ shift[s].status = "HANDOVER_PENDING" /\ shift[t].status = "OPEN" /\ ~Submitted(t)
  BY DEF AcceptHandover, ShiftIInv, ShiftsTypeOK, Addressed, HandoverRecords
<1>2. shift[t].opening = 0 /\ shift[t].net = 0
  BY <1>1 DEF AcceptHandover, Empty, ShiftIInv, ClosesOfShifts
<1>3. shift' = [shift EXCEPT ![s].status = "HANDED_OVER", ![t].opening = handover[h].actual]
  BY DEF AcceptHandover
<1> HIDE DEF s, t
<1>4. /\ shift'[s].status = "HANDED_OVER" /\ shift'[s].opening = shift[s].opening /\ shift'[s].net = shift[s].net
      /\ shift'[t].status = "OPEN" /\ shift'[t].opening = handover[h].actual /\ shift'[t].net = shift[t].net
      /\ \A u \in Shifts \ {s, t} : shift'[u] = shift[u]
  BY <1>1, <1>3 DEF ShiftRecords
<1>5. /\ Phase[s] = "counting" /\ Phase'[s] = "passed"
      /\ Phase[t] = "live" /\ Cash[t] = 0 /\ Cash'[t] \in Nat
  BY <1>1, <1>2, <1>4, PhaseOf, PhaseOfNext DEF Submitted, Cash, ExpectedCash
<1>6. Phase' = [Phase EXCEPT ![s] = "passed"] /\ Cash' = [Cash EXCEPT ![t] = Cash'[t]]
  <2>1. \A u \in Shifts \ {s} : shift'[u].status = shift[u].status /\ close'[u].status = close[u].status
    BY <1>1, <1>4
  <2>2. \A u \in Shifts \ {t} : shift'[u].opening = shift[u].opening /\ shift'[u].net = shift[u].net
    BY <1>1, <1>4
  <2>3. Phase' = [Phase EXCEPT ![s] = Phase'[s]]
    BY <1>1, <2>1, OnePhase
  <2>4. Cash' = [Cash EXCEPT ![t] = Cash'[t]]
    BY <1>1, <2>2, OneCash
  <2> QED
    BY <1>5, <2>3, <2>4
<1> QED
  BY <1>1, <1>5, <1>6 DEF CustodyStep, Custody!Next, Custody!Pass, Custody!Goes, Custody!OnlyCashOf

\* A close is submitted: the keeper counts.
LEMMA SubmitIsCount ==
    ASSUME ShiftIInv, NEW a \in Accountants, NEW s \in Shifts, SubmitClose(a, s)
    PROVE  CustodyStep
<1>1. /\ shift' = shift /\ shift[s].status = "OPEN" /\ ~Submitted(s) /\ Submitted(s)'
      /\ \A u \in Shifts \ {s} : close'[u] = close[u]
  BY DEF SubmitClose, Submitted, ShiftIInv, ShiftsTypeOK
<1>2. Phase[s] = "live" /\ Phase'[s] = "counting"
  BY <1>1, PhaseOf, PhaseOfNext
<1>3. Phase' = [Phase EXCEPT ![s] = "counting"] /\ Cash' = Cash
  BY <1>1, <1>2, OnePhase DEF Cash, ExpectedCash
<1> QED
  BY <1>2, <1>3 DEF CustodyStep, Custody!Next, Custody!Count, Custody!Goes

\* A close is decided: the drawer is sealed, or its keeper counts again, unless the drawer was
\* offered or left meanwhile.
LEMMA ReviewIsSealOrRecount ==
    ASSUME ShiftIInv, NEW v \in Reviewers, NEW s \in Shifts, NEW d \in Decisions, ReviewClose(v, s, d)
    PROVE  CustodyStep
<1>1. /\ shift \in [Shifts -> ShiftRecords] /\ Submitted(s) /\ ~Submitted(s)'
      /\ \A u \in Shifts \ {s} : close'[u] = close[u]
  BY DEF ReviewClose, Submitted, Decisions, ShiftIInv, ShiftsTypeOK, CloseRecords
<1>2. shift[s].status # "ABSENT"
  BY <1>1 DEF ShiftIInv, ClosesOfShifts
<1>3. CASE d = "APPROVED"
  <2>1. /\ shift[s].status = "OPEN" /\ shift'[s].status = "CLOSED"
        /\ \A u \in Shifts \ {s} : shift'[u] = shift[u]
        /\ \A u \in Shifts : shift'[u].opening = shift[u].opening /\ shift'[u].net = shift[u].net
    BY <1>1, <1>3 DEF ReviewClose, ShiftRecords
  <2>2. Phase[s] = "counting" /\ Phase'[s] = "sealed"
    BY <1>1, <2>1, PhaseOf, PhaseOfNext
  <2>3. Phase' = [Phase EXCEPT ![s] = "sealed"] /\ Cash' = Cash
    BY <1>1, <2>1, <2>2, OnePhase DEF Cash, ExpectedCash
  <2> QED
    BY <2>2, <2>3 DEF CustodyStep, Custody!Next, Custody!Seal, Custody!Goes
<1>4. CASE d # "APPROVED"
  <2>1. shift' = shift /\ Cash' = Cash
    BY <1>4 DEF ReviewClose, Cash, ExpectedCash
  <2>2. CASE shift[s].status = "OPEN"
    <3>1. Phase[s] = "counting" /\ Phase'[s] = "live"
      BY <1>1, <2>1, <2>2, PhaseOf, PhaseOfNext
    <3>2. Phase' = [Phase EXCEPT ![s] = "live"]
      BY <1>1, <2>1, <3>1, OnePhase
    <3> QED
      BY <2>1, <3>1, <3>2 DEF CustodyStep, Custody!Next, Custody!Recount, Custody!Goes
  <2>3. CASE shift[s].status # "OPEN"
    <3>1. Phase'[s] = Phase[s]
      BY <1>1, <2>1, <2>3, PhaseOf, PhaseOfNext DEF ShiftRecords, ShiftStatus
    <3>2. Phase' = Phase
      BY <1>1, <2>1, <3>1, OnePhase DEF Phase
    <3> QED
      BY <2>1, <3>2 DEF CustodyStep
  <2> QED
    BY <2>2, <2>3
<1> QED
  BY <1>3, <1>4

\* Every step of the shifts is one of the drawers, or none.
LEMMA CustodyNext == ShiftIInv /\ [ShiftNext]_shiftVars => CustodyStep
<1> SUFFICES ASSUME ShiftIInv, [ShiftNext]_shiftVars PROVE CustodyStep
  OBVIOUS
<1>1. ASSUME NEW a \in Accountants, NEW s \in Shifts, NEW c \in Amounts \cup {0}, OpenShift(a, s, c)
      PROVE  CustodyStep
  BY <1>1, OpenIsOpen, AmountAssumption
<1>2. ASSUME NEW a \in Accountants, NEW s \in Shifts, SubmitClose(a, s) PROVE CustodyStep
  BY <1>2, SubmitIsCount
<1>3. ASSUME NEW a \in Accountants, NEW s \in Shifts, NEW y \in EntryTypes, NEW c \in Amounts \ {0},
             NEW p \in BookingPayments \cup {NOBODY}, RecordEntry(a, s, y, c, p)
      PROVE  CustodyStep
  BY <1>3, EntryIsMove, AmountAssumption DEF RecordEntry
<1>4. ASSUME NEW a \in Accountants, NEW s \in Shifts, NEW r \in Receivables, NEW p \in BookingPayments,
             Collect(a, s, r, p)
      PROVE  CustodyStep
  <2>1. AmountOf[p] \in Nat /\ "REVENUE" \in EntryTypes
    BY AmountAssumption, PaymentAssumption DEF EntryTypes
  <2> QED
    BY <1>4, <2>1, EntryIsMove DEF Collect
<1>5. ASSUME NEW a \in Accountants, NEW s \in Shifts, NEW t \in Shifts, NEW h \in Handovers,
             NEW c \in Amounts \cup {0}, RequestHandover(a, s, t, h, c)
      PROVE  CustodyStep
  BY <1>5, RequestIsCount, AmountAssumption
<1>6. ASSUME NEW a \in Accountants, NEW h \in Handovers, AcceptHandover(a, h) PROVE CustodyStep
  BY <1>6, AcceptIsPass
<1>7. ASSUME NEW v \in Reviewers, NEW s \in Shifts, NEW d \in Decisions, ReviewClose(v, s, d)
      PROVE  CustodyStep
  BY <1>7, ReviewIsSealOrRecount
<1>8. ASSUME UNCHANGED <<shift, close>> PROVE CustodyStep
  BY <1>8 DEF CustodyStep, Phase, Cash, Submitted, ExpectedCash
<1>9. ASSUME NEW p \in BookingPayments, PaymentChanges(p) PROVE CustodyStep
  BY <1>8, <1>9 DEF PaymentChanges
<1>10. CASE UNCHANGED shiftVars
  BY <1>8, <1>10 DEF shiftVars
<1>11. CASE ShiftNext
  BY <1>1, <1>2, <1>3, <1>4, <1>5, <1>6, <1>7, <1>9, <1>11 DEF ShiftNext
<1> QED
  BY <1>10, <1>11

\* The shifts of a center implement its cash drawers.
THEOREM CustodyRefined == ShiftSpec => ImplementsCustody
BY CustodyInit, CustodyNext, ShiftInvariance, PTL
   DEF ShiftSpec, ImplementsCustody, Custody!Spec, CustodyStep

-----------------------------------------------------------------------------
\* The end of a shift.

Final(s) == shift[s].status \in {"HANDED_OVER", "CLOSED"}

\* A shift that was handed over or closed is never written again: no entry, late acceptance,
\* second handover or second review reaches it.
EndedShiftStays == [][\A s \in Shifts : Final(s) => shift'[s] = shift[s]]_shiftVars

\* What one step does to the row of a shift that has ended or was never opened.
LEMMA ShiftRowSteps ==
    ASSUME ShiftIInv, [ShiftNext]_shiftVars, NEW s \in Shifts
    PROVE  /\ Final(s) => shift'[s] = shift[s]
           /\ shift[s].status # "ABSENT" => shift'[s].status # "ABSENT"
           /\ shift'[s].status \in {"OPEN", "HANDOVER_PENDING"} /\ shift[s].status # "ABSENT" =>
                 Active(s) /\ shift'[s].owner = shift[s].owner
           /\ shift[s].status = "ABSENT" => shift'[s] = shift[s] \/
                 \E a \in Accountants :
                    /\ shift'[s].owner = a
                    /\ ~\E t \in Shifts : shift[t].owner = a /\ Active(t)
                    /\ \A t \in Shifts \ {s} : shift'[t] = shift[t]
<1>0. shift \in [Shifts -> ShiftRecords]
  BY DEF ShiftIInv, ShiftsTypeOK
<1>1. ASSUME NEW a \in Accountants, NEW u \in Shifts, NEW c \in Amounts \cup {0}, OpenShift(a, u, c)
      PROVE  /\ shift[u].status = "ABSENT" /\ shift'[u].owner = a /\ shift'[u].status = "OPEN"
             /\ ~\E t \in Shifts : shift[t].owner = a /\ Active(t)
             /\ \A t \in Shifts \ {u} : shift'[t] = shift[t]
  <2>1. PICK row \in ShiftRecords : row = shift[u]
    BY <1>0
  <2>2. /\ shift'[u] = [row EXCEPT !.status = "OPEN", !.owner = a, !.opening = c]
        /\ \A t \in Shifts \ {u} : shift'[t] = shift[t]
    BY <1>0, <1>1, <2>1 DEF OpenShift
  <2> QED
    BY <1>1, <2>1, <2>2 DEF OpenShift, ShiftRecords
<1>2. ASSUME NEW u \in Shifts, shift[u].status = "OPEN",
             \E y \in EntryTypes, c \in Amounts, p \in BookingPayments \cup {NOBODY} : AddEntry(u, y, c, p)
      PROVE  /\ shift'[u].status = "OPEN" /\ shift'[u].owner = shift[u].owner
             /\ \A t \in Shifts \ {u} : shift'[t] = shift[t]
  <2>1. PICK row \in ShiftRecords : row = shift[u]
    BY <1>0
  <2>2. PICK net, entries : shift' = [shift EXCEPT ![u] = [shift[u] EXCEPT !.net = net, !.entries = entries]]
    BY <1>2 DEF AddEntry
  <2>3. /\ shift'[u] = [row EXCEPT !.net = net, !.entries = entries]
        /\ \A t \in Shifts \ {u} : shift'[t] = shift[t]
    BY <1>0, <2>1, <2>2
  <2> QED
    BY <1>2, <2>1, <2>3 DEF ShiftRecords
<1>3. ASSUME NEW u \in Shifts, NEW status \in {"HANDOVER_PENDING", "CLOSED"}, shift[u].status = "OPEN",
             shift' = [shift EXCEPT ![u].status = status]
      PROVE  /\ shift'[u].status = status /\ shift'[u].owner = shift[u].owner
             /\ \A t \in Shifts \ {u} : shift'[t] = shift[t]
  <2>1. PICK row \in ShiftRecords : row = shift[u]
    BY <1>0
  <2>2. /\ shift'[u] = [row EXCEPT !.status = status]
        /\ \A t \in Shifts \ {u} : shift'[t] = shift[t]
    BY <1>0, <1>3, <2>1
  <2> QED
    BY <2>1, <2>2 DEF ShiftRecords
<1>4. ASSUME NEW a \in Accountants, NEW h \in Handovers, AcceptHandover(a, h)
      PROVE  \E u, t \in Shifts :
                /\ shift[u].status = "HANDOVER_PENDING" /\ shift'[u].status = "HANDED_OVER"
                /\ shift[t].status = "OPEN" /\ shift'[t].status = "OPEN"
                /\ shift'[t].owner = shift[t].owner
                /\ \A v \in Shifts \ {u, t} : shift'[v] = shift[v]
  <2>1. PICK u \in Shifts, t \in Shifts :
           /\ u = handover[h].from /\ t = handover[h].to
           /\ shift[u].status = "HANDOVER_PENDING" /\ shift[t].status = "OPEN"
    BY <1>4 DEF AcceptHandover, ShiftIInv, Addressed
  <2>2. PICK row \in ShiftRecords, other \in ShiftRecords : row = shift[u] /\ other = shift[t]
    BY <1>0
  <2>3. shift' = [shift EXCEPT ![u].status = "HANDED_OVER", ![t].opening = handover[h].actual]
    BY <1>4, <2>1 DEF AcceptHandover
  <2>4. /\ shift'[u] = [row EXCEPT !.status = "HANDED_OVER"]
        /\ shift'[t] = [other EXCEPT !.opening = handover[h].actual]
        /\ \A v \in Shifts \ {u, t} : shift'[v] = shift[v]
    BY <1>0, <2>1, <2>2, <2>3
  <2> QED
    BY <2>1, <2>2, <2>4 DEF ShiftRecords
<1>5. CASE \E a \in Accountants, u \in Shifts, c \in Amounts \cup {0} : OpenShift(a, u, c)
  BY <1>1, <1>5 DEF Final, Active
<1>6. CASE \E a \in Accountants, u \in Shifts :
              \/ \E y \in EntryTypes, c \in Amounts \ {0}, p \in BookingPayments \cup {NOBODY} :
                    RecordEntry(a, u, y, c, p)
              \/ \E r \in Receivables, p \in BookingPayments : Collect(a, u, r, p)
  <2>1. PICK u \in Shifts :
           /\ shift[u].status = "OPEN"
           /\ \E y \in EntryTypes, c \in Amounts, p \in BookingPayments \cup {NOBODY} : AddEntry(u, y, c, p)
    BY <1>6, PaymentAssumption DEF RecordEntry, Collect, EntryTypes
  <2> QED
    BY <1>2, <2>1 DEF Final, Active
<1>7. CASE \E a \in Accountants, u \in Shifts, t \in Shifts, h \in Handovers, c \in Amounts \cup {0} :
              RequestHandover(a, u, t, h, c)
  <2>1. PICK u \in Shifts : shift[u].status = "OPEN" /\ shift' = [shift EXCEPT ![u].status = "HANDOVER_PENDING"]
    BY <1>7 DEF RequestHandover
  <2> QED
    BY <1>3, <2>1 DEF Final, Active
<1>8. CASE \E a \in Accountants, h \in Handovers : AcceptHandover(a, h)
  BY <1>4, <1>8 DEF Final, Active
<1>9. CASE \E v \in Reviewers, u \in Shifts, d \in Decisions : ReviewClose(v, u, d)
  <2>1. PICK u \in Shifts :
           \/ UNCHANGED shift
           \/ shift[u].status = "OPEN" /\ shift' = [shift EXCEPT ![u].status = "CLOSED"]
    BY <1>9 DEF ReviewClose
  <2> QED
    BY <1>3, <2>1 DEF Final, Active
<1>10. CASE UNCHANGED shift
  BY <1>10 DEF Final, Active
<1> QED
  BY <1>5, <1>6, <1>7, <1>8, <1>9, <1>10 DEF ShiftNext, SubmitClose, PaymentChanges, shiftVars

\* What has ended stays as it was reviewed or counted.
THEOREM EndedShifts == ShiftSpec => EndedShiftStays
<1>1. ShiftIInv /\ [ShiftNext]_shiftVars => \A s \in Shifts : Final(s) => shift'[s] = shift[s]
  BY ShiftRowSteps
<1> QED
  BY <1>1, ShiftInvariance, PTL DEF ShiftSpec, EndedShiftStays

\* An accountant has one drawer at most that is open or waits for its handover.
OneActiveShift ==
    \A s, t \in Shifts : Active(s) /\ Active(t) /\ shift[s].owner = shift[t].owner => s = t

LEMMA OneActiveStep == ASSUME ShiftIInv, OneActiveShift, [ShiftNext]_shiftVars PROVE OneActiveShift'
<1> SUFFICES ASSUME NEW s \in Shifts, NEW t \in Shifts, Active(s)', Active(t)',
                    shift'[s].owner = shift'[t].owner, s # t
             PROVE  FALSE
  BY DEF OneActiveShift
<1>1. ASSUME NEW u \in Shifts, Active(u)'
      PROVE  \/ Active(u) /\ shift'[u].owner = shift[u].owner
             \/ /\ ~\E v \in Shifts : shift[v].owner = shift'[u].owner /\ Active(v)
                /\ \A v \in Shifts \ {u} : shift'[v] = shift[v]
  BY <1>1, ShiftRowSteps DEF Active
<1>2. CASE Active(s) /\ shift'[s].owner = shift[s].owner
  BY <1>1, <1>2 DEF OneActiveShift, Active
<1>3. CASE Active(t) /\ shift'[t].owner = shift[t].owner
  BY <1>1, <1>3 DEF OneActiveShift, Active
<1>4. CASE /\ ~\E v \in Shifts : shift[v].owner = shift'[s].owner /\ Active(v)
           /\ \A v \in Shifts \ {s} : shift'[v] = shift[v]
  BY <1>4 DEF Active
<1> QED
  BY <1>1, <1>2, <1>3, <1>4

\* Nobody keeps two drawers, though shifts are opened, offered, taken over and rejected in any
\* order: only openShift() makes one active, and it looks for another first.
THEOREM OneDrawerEach == ShiftSpec => []OneActiveShift
<1>1. ShiftInit => OneActiveShift
  BY DEF ShiftInit, OneActiveShift, Active
<1> QED
  BY <1>1, OneActiveStep, ShiftInvariance, PTL DEF ShiftSpec

-----------------------------------------------------------------------------
\* The close of a period, while the shifts go on.

PeriodRecords ==
    [status : {"ABSENT", "SUBMITTED", "REJECTED", "CLOSED"}, by : Accountants \cup {NOBODY},
     approvals : SUBSET Reviewers]

PeriodIInv ==
    /\ period \in PeriodRecords /\ ended \in BOOLEAN
    /\ inPeriod \subseteq Shifts /\ \A s \in inPeriod : shift[s].status # "ABSENT"
    /\ period.by \notin period.approvals /\ IsFiniteSet(period.approvals)
    /\ period.status # "ABSENT" => ended
    /\ period.status = "SUBMITTED" => Cardinality(period.approvals) < 2
    /\ period.status = "CLOSED" => Cardinality(period.approvals) = 2
    /\ period.status \in {"SUBMITTED", "CLOSED"} => OpenShifts = {}

\* Every step of the shifts is their own: the period only reads them.
LEMMA PeriodsUseShifts == [PeriodNext]_periodVars => [ShiftNext]_shiftVars
BY DEF PeriodNext, periodVars, ShiftStep, PeriodEnds, SubmitPeriod, DecidePeriod

LEMMA ShiftsUnderPeriods == PeriodSpec => ShiftSpec
<1>1. PeriodInit => ShiftInit
  BY DEF PeriodInit
<1> QED
  BY <1>1, PeriodsUseShifts, PTL DEF PeriodSpec, ShiftSpec

LEMMA PeriodInitInv == PeriodInit => PeriodIInv
<1> SUFFICES ASSUME PeriodInit PROVE PeriodIInv
  OBVIOUS
<1>1. period \in PeriodRecords
  BY DEF PeriodInit, PeriodRecords
<1> QED
  BY <1>1, FS_EmptySet DEF PeriodInit, PeriodIInv

\* The shifts go on: none that had ended becomes active again, and none joins a period that is over.
LEMMA PeriodShiftInv == ASSUME ShiftIInv, PeriodIInv, ShiftStep PROVE PeriodIInv'
<1>1. ASSUME NEW s \in Shifts
      PROVE  /\ shift[s].status # "ABSENT" => shift'[s].status # "ABSENT"
             /\ Active(s)' /\ shift[s].status # "ABSENT" => Active(s)
  BY ShiftRowSteps DEF ShiftStep, Active
<1>2. inPeriod' \subseteq Shifts /\ \A s \in inPeriod' : shift'[s].status # "ABSENT"
  BY <1>1 DEF ShiftStep, PeriodIInv
<1>3. period.status \in {"SUBMITTED", "CLOSED"} => OpenShifts' = {}
  <2> SUFFICES ASSUME period.status \in {"SUBMITTED", "CLOSED"}, NEW s \in OpenShifts' PROVE FALSE
    OBVIOUS
  <2>1. inPeriod' = inPeriod /\ OpenShifts = {}
    BY DEF ShiftStep, PeriodIInv
  <2>2. s \in inPeriod /\ CenterOrgUnitId(s) = Center /\ Active(s)'
    BY <2>1 DEF OpenShifts, CenterOrgUnitId
  <2>3. Active(s)
    BY <1>1, <2>2 DEF PeriodIInv
  <2> QED
    BY <2>1, <2>2, <2>3 DEF OpenShifts
<1> QED
  BY <1>2, <1>3 DEF ShiftStep, PeriodIInv

\* A decision adds an approval of another account, or ends the submission.
LEMMA DecideInv ==
    ASSUME PeriodIInv, NEW v \in Reviewers, NEW d \in Decisions, DecidePeriod(v, d)
    PROVE  PeriodIInv'
<1> DEFINE approved == period.approvals \cup {v}
<1>1. PICK by, approvals : period = [status |-> "SUBMITTED", by |-> by, approvals |-> approvals]
  BY DEF DecidePeriod, PeriodIInv, PeriodRecords
<1>2. /\ by \in Accountants \cup {NOBODY} /\ approvals \in SUBSET Reviewers /\ by \notin approvals
      /\ IsFiniteSet(approvals) /\ Cardinality(approvals) < 2 /\ Cardinality(approvals) \in Nat
      /\ v # by /\ v \notin approvals /\ ended
  BY <1>1, FS_CardinalityType DEF DecidePeriod, PeriodIInv, PeriodRecords
<1>3. IsFiniteSet(approved) /\ Cardinality(approved) = Cardinality(approvals) + 1
  BY <1>1, <1>2, FS_AddElement
<1>4. UNCHANGED <<shift, ended, inPeriod>> /\ OpenShifts' = OpenShifts /\ OpenShifts = {}
  BY <1>1 DEF DecidePeriod, PeriodIInv, OpenShifts, CenterOrgUnitId, Active, shiftVars
<1>5. \/ period' = [status |-> "REJECTED", by |-> by, approvals |-> approvals]
      \/ /\ period' = [status |-> "SUBMITTED", by |-> by, approvals |-> approved]
         /\ Cardinality(approved) < 2
      \/ /\ period' = [status |-> "CLOSED", by |-> by, approvals |-> approved]
         /\ ~(Cardinality(approved) < 2)
  <2>1. CASE d = "REJECTED"
    BY <1>1, <2>1 DEF DecidePeriod
  <2>2. CASE d # "REJECTED" /\ Cardinality(approved) < 2
    BY <1>1, <2>2 DEF DecidePeriod
  <2>3. CASE d # "REJECTED" /\ ~(Cardinality(approved) < 2)
    BY <1>1, <2>3 DEF DecidePeriod
  <2> QED
    BY <2>1, <2>2, <2>3
<1>6. approved = approvals \cup {v} /\ approved \in SUBSET Reviewers /\ by \notin approved
  BY <1>1, <1>2
<1> HIDE DEF approved
<1>7. period' \in PeriodRecords
  BY <1>2, <1>5, <1>6 DEF PeriodRecords
<1>8. period'.by \notin period'.approvals /\ IsFiniteSet(period'.approvals)
  BY <1>2, <1>3, <1>5, <1>6
<1>9. /\ period'.status = "SUBMITTED" => Cardinality(period'.approvals) < 2
      /\ period'.status = "CLOSED" => Cardinality(period'.approvals) = 2
  BY <1>2, <1>3, <1>5
<1> QED
  BY <1>2, <1>4, <1>7, <1>8, <1>9 DEF PeriodIInv

LEMMA PeriodStepInv == ASSUME ShiftIInv, PeriodIInv, [PeriodNext]_periodVars PROVE PeriodIInv'
<1>1. CASE PeriodEnds
  <2>1. OpenShifts' = OpenShifts
    BY <1>1 DEF PeriodEnds, OpenShifts, CenterOrgUnitId, Active, shiftVars
  <2> QED
    BY <1>1, <2>1 DEF PeriodEnds, PeriodIInv, shiftVars
<1>2. ASSUME NEW a \in Accountants, SubmitPeriod(a) PROVE PeriodIInv'
  <2>1. OpenShifts' = OpenShifts
    BY <1>2 DEF SubmitPeriod, OpenShifts, CenterOrgUnitId, Active, shiftVars
  <2>2. period' = [status |-> "SUBMITTED", by |-> a, approvals |-> {}] /\ period' \in PeriodRecords
    BY <1>2 DEF SubmitPeriod, PeriodRecords
  <2> QED
    BY <1>2, <2>1, <2>2, FS_EmptySet DEF SubmitPeriod, PeriodIInv, shiftVars
<1>3. CASE UNCHANGED periodVars
  <2>1. OpenShifts' = OpenShifts
    BY <1>3 DEF periodVars, OpenShifts, CenterOrgUnitId, Active, shiftVars
  <2> QED
    BY <1>3, <2>1 DEF periodVars, PeriodIInv, shiftVars
<1> QED
  BY <1>1, <1>2, <1>3, PeriodShiftInv, DecideInv DEF PeriodNext

LEMMA PeriodInvariance == PeriodSpec => []PeriodIInv
<1>1. PeriodSpec => []ShiftIInv
  BY ShiftsUnderPeriods, ShiftInvariance, PTL
<1> QED
  BY <1>1, PeriodInitInv, PeriodStepInv, PTL DEF PeriodSpec

\* What the shifts promise they promise while periods are closed over them.
THEOREM PeriodsKeepShifts == PeriodSpec => [](ClosedAsReviewed /\ HandedOverOnce /\ OneActiveShift)
<1>1. ShiftIInv => ClosedAsReviewed /\ HandedOverOnce
  BY DEF ShiftIInv
<1> QED
  BY <1>1, ShiftsUnderPeriods, ShiftInvariance, OneDrawerEach, PTL

\* A closed period was submitted by one account and approved by two others.
ClosedByThree ==
    period.status = "CLOSED" => Cardinality(period.approvals) = 2 /\ period.by \notin period.approvals

\* However often a period was rejected and submitted again, and by whomever, it is closed by two
\* approvals of the last submission only, none of them its own submitter's.
THEOREM PeriodsClosedByThree == PeriodSpec => []ClosedByThree
<1>1. PeriodIInv => ClosedByThree
  BY DEF PeriodIInv, ClosedByThree
<1> QED
  BY <1>1, PeriodInvariance, PTL

\* A period that is submitted or closed holds no active shift of those it counts.
CountStands == period.status \in {"SUBMITTED", "CLOSED"} => OpenShifts = {}

\* decide() does not count the open shifts again, and need not: what submit() found closed stays
\* closed.  The shifts that the count misses are another matter, of the id they are stored with.
THEOREM CountedStaysClosed == PeriodSpec => []CountStands
<1>1. PeriodIInv => CountStands
  BY DEF PeriodIInv, CountStands
<1> QED
  BY <1>1, PeriodInvariance, PTL

=============================================================================
