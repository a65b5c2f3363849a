-------------------------- MODULE Payments_proofs --------------------------
(***************************************************************************)
(* Proofs about payments: whoever pays pays the claimed invoice, what      *)
(* counts as captured was paid, and no event that reports money is filed   *)
(* as unmatched.                                                           *)
(***************************************************************************)
EXTENDS Payments, TLAPS

-----------------------------------------------------------------------------
\* Types.

\* The part of TypeOK that is inductive by itself.
RowsTypeOK ==
    /\ payment \in [Keys -> PaymentRecords]
    /\ invoice \in [Invoices -> InvoiceRecords]
    /\ shown \subseteq Invoices
    /\ event \in [Events -> EventRecords]
    /\ audited \in [Events -> [processed : Nat, unmatched : Nat]]
    /\ call \in [Calls -> CallRecords]
    /\ \A c \in Calls : call[c].op = "webhook" => call[c].event \in Events

\* A state without payments, invoices and calls has its types.
LEMMA InitTypes == Init => RowsTypeOK
BY NoneAssumption
   DEF Init, RowsTypeOK, Absent, Idle, PaymentRecords, InvoiceRecords, EventRecords, CallRecords,
       Operations

\* The status a fetched invoice stands for is a status of a payment.
LEMMA StatusType == \A s : StatusFromInvoice(s) \in PaymentStatus
BY DEF StatusFromInvoice, PaymentStatus

\* A finished call leaves nothing behind.
LEMMA DoneTypes ==
    ASSUME RowsTypeOK, NEW c \in Calls, Done(c)
    PROVE  /\ call' \in [Calls -> CallRecords]
           /\ \A d \in Calls : call'[d].op = "webhook" => call'[d].event \in Events
BY NoneAssumption DEF RowsTypeOK, Done, Idle, CallRecords, Operations

\* A call goes on to the next stage with what it holds.
LEMMA GoesTypes ==
    ASSUME RowsTypeOK, NEW c \in Calls, NEW stage \in Stages, GoesTo(c, stage)
    PROVE  /\ call' \in [Calls -> CallRecords]
           /\ \A d \in Calls : call'[d].op = "webhook" => call'[d].event \in Events
BY DEF RowsTypeOK, GoesTo, CallRecords

\* A call takes another record.
LEMMA MovesTypes ==
    ASSUME RowsTypeOK, NEW c \in Calls, NEW r \in CallRecords, call' = [call EXCEPT ![c] = r],
           r.op = "webhook" => r.event \in Events
    PROVE  /\ call' \in [Calls -> CallRecords]
           /\ \A d \in Calls : call'[d].op = "webhook" => call'[d].event \in Events
BY DEF RowsTypeOK

\* The row of a create() is inserted or found, and its call is a call.
LEMMA CreateTypes ==
    ASSUME RowsTypeOK, NEW c \in Calls, NEW k \in Keys, Create(c, k)
    PROVE  RowsTypeOK'
<1> DEFINE stage == IF payment[k].reference = NONE THEN "asked" ELSE "known"
           status == IF payment[k].status = NONE THEN "CREATED" ELSE payment[k].status
<1>1. /\ payment[k].reference \in Invoices \cup {NONE}
      /\ status \in PaymentStatus
      /\ stage \in Stages
  BY DEF RowsTypeOK, PaymentRecords, PaymentStatus, Stages
<1>2. payment' = [payment EXCEPT ![k].status = status]
  BY DEF Create
<1>3. payment' \in [Keys -> PaymentRecords] /\ payment'[k].status = status
  BY <1>1, <1>2 DEF RowsTypeOK, PaymentRecords
<1> DEFINE r == [Idle EXCEPT !.op = "create", !.key = k, !.seen = status, !.stage = stage,
                            !.invoice = payment[k].reference]
<1>4. call' = [call EXCEPT ![c] = r]
  BY <1>3 DEF Create
<1> HIDE DEF stage, status
<1>5. r \in CallRecords /\ r.op = "create"
  BY <1>1 DEF Idle, CallRecords, Operations
<1> HIDE DEF r
<1> QED
  BY <1>1, <1>3, <1>4, <1>5 DEF Create, RowsTypeOK, provider

-----------------------------------------------------------------------------
\* What is never taken back.

\* A claim, an invoice and its key, money paid or refunded, and an event stay what they are.
Grows ==
    /\ \A k \in Keys : payment[k].reference # NONE => payment'[k].reference = payment[k].reference
    /\ \A i \in Invoices :
          /\ invoice[i].status # NONE => invoice'[i].status # NONE /\ invoice'[i].key = invoice[i].key
          /\ Paid(i) => invoice'[i].status \in {"paid", "refunded"}
          /\ invoice[i].status = "refunded" => invoice'[i].status = "refunded"
    /\ \A e \in Events : event[e].invoice # NONE => event'[e] = event[e]

\* The steps that write no payment, invoice or event.
QuietStep(c) ==
    \/ \E k \in Keys : Refresh(c, k)
    \/ FetchWinner(c) \/ (\E e \in Events : Receive(c, e)) \/ RecordUnmatched(c)
    \/ Fetch(c) \/ CheckRepeated(c) \/ Drop(c)

\* Such steps leave the rows and the provider as they are.
LEMMA QuietUnchanged ==
    ASSUME NEW c \in Calls, QuietStep(c)
    PROVE  UNCHANGED <<payment, invoice, shown, event>>
BY DEF QuietStep, Refresh, FetchWinner, Receive, RecordUnmatched, Fetch, CheckRepeated, Drop,
       provider, records

\* Link, Settle and SettleEvent write no reference.
LEMMA SettlingGrows ==
    ASSUME RowsTypeOK, NEW c \in Calls, Link(c) \/ Settle(c) \/ SettleEvent(c)
    PROVE  Grows
BY DEF Link, Settle, SettleEvent, Settled, Grows, RowsTypeOK, PaymentRecords, Paid, provider

\* No step takes back a claim, an invoice, money or an event.
LEMMA StepGrows ==
    ASSUME RowsTypeOK, [Next]_vars
    PROVE  Grows
<1>1. CASE UNCHANGED <<payment, invoice, event>>
  BY <1>1 DEF Grows, Paid
<1>2. ASSUME NEW c \in Calls, QuietStep(c)
      PROVE  Grows
  BY <1>1, <1>2, QuietUnchanged
<1>3. ASSUME NEW c \in Calls, NEW k \in Keys, Create(c, k)
      PROVE  Grows
  <2>1. UNCHANGED <<invoice, event>> /\ \A j \in Keys : payment'[j].reference = payment[j].reference
    BY <1>3 DEF Create, RowsTypeOK, PaymentRecords, provider
  <2> QED
    BY <2>1 DEF Grows, Paid
<1>4. ASSUME NEW c \in Calls, NEW i \in Invoices, CreateInvoice(c, i)
      PROVE  Grows
  BY <1>4, NoneAssumption DEF CreateInvoice, Grows, RowsTypeOK, InvoiceRecords, InvoiceStatus, Paid
<1>5. ASSUME NEW c \in Calls, Claim(c)
      PROVE  Grows
  BY <1>5 DEF Claim, Grows, RowsTypeOK, PaymentRecords, Paid, provider
<1>6. ASSUME NEW c \in Calls, LoseClaim(c)
      PROVE  Grows
  BY <1>6, NoneAssumption DEF LoseClaim, Grows, RowsTypeOK, InvoiceRecords, InvoiceStatus, Paid
<1>7. ASSUME NEW i \in Invoices, MoveInvoice(i)
      PROVE  Grows
  BY <1>7, NoneAssumption DEF MoveInvoice, Grows, RowsTypeOK, InvoiceRecords, InvoiceStatus, Paid,
                              records
<1>8. ASSUME NEW e \in Events, NEW i \in Invoices, Report(e, i)
      PROVE  Grows
  BY <1>8 DEF Report, Grows, RowsTypeOK, EventRecords, Paid, records
<1> QED
  BY <1>1, <1>2, <1>3, <1>4, <1>5, <1>6, <1>7, <1>8, SettlingGrows DEF Next, QuietStep, vars

-----------------------------------------------------------------------------
\* What a call in flight may rely on, and what the rows tell of each other.

\* The stages in which a call works for a payment with the invoice that payment follows, and
\* those in which it has fetched it.
Late == {"known", "fetched", "settling", "closing"}
Informed == Late \ {"known"}

\* The call r has a payment; the invoice it holds is its own until claimed, and the payment's
\* from then on; money it fetched was really paid; an event it found no payment for reported none.
Knows(r) ==
    /\ r.stage \in Stages \ {"stray"} => r.key \in Keys
    /\ r.stage \in {"billed", "lost"} =>
          r.invoice \in Invoices /\ invoice[r.invoice].status # NONE /\ invoice[r.invoice].key = r.key
    /\ r.stage = "lost" => payment[r.key].reference # NONE
    /\ r.stage \in Late => r.invoice \in Invoices /\ payment[r.key].reference = r.invoice
    /\ r.stage \in Informed =>
          /\ r.fetched \in {"paid", "refunded"} => Paid(r.invoice)
          /\ r.fetched = "refunded" => invoice[r.invoice].status = "refunded"
    /\ r.stage = "stray" =>
          r.event \in Events /\ event[r.event].invoice # NONE /\ ~event[r.event].paid

CallsKnow == \A c \in Calls : Knows(call[c])

\* A claimed invoice is one of that payment's, a checkout is shown of a claimed invoice only,
\* paid is only what was shown, and an event reports money only if there is some.
InvoicesKnown ==
    /\ \A k \in Keys : payment[k].reference # NONE =>
          invoice[payment[k].reference].status # NONE /\ invoice[payment[k].reference].key = k
    /\ \A i \in shown : invoice[i].key \in Keys /\ payment[invoice[i].key].reference = i
    /\ \A i \in Invoices : Paid(i) => i \in shown
    /\ \A e \in Events : event[e].paid => event[e].invoice \in Invoices /\ Paid(event[e].invoice)

\* Only a payment with an invoice is captured, refunded or linked; an audited event is one of
\* the provider's.
SettledKnown ==
    /\ \A k \in Keys :
          payment[k].status \in {"CAPTURED", "REFUNDED"} \/ payment[k].linked => payment[k].reference # NONE
    /\ CapturedWasPaid
    /\ \A e \in Events : audited[e].unmatched > 0 => event[e].invoice # NONE /\ ~event[e].paid

IInv == RowsTypeOK /\ CallsKnow /\ InvoicesKnown /\ SettledKnown

\* What a call knows stays true whatever the others do.
LEMMA KnowsStays ==
    ASSUME RowsTypeOK, Grows
    PROVE  \A r \in CallRecords : Knows(r) => Knows(r)'
<1> SUFFICES ASSUME NEW r \in CallRecords, Knows(r) PROVE Knows(r)'
  OBVIOUS
<1>1. r.stage \in {"billed", "lost"} =>
         invoice'[r.invoice].status # NONE /\ invoice'[r.invoice].key = r.key
  BY DEF Knows, Grows
<1>2. r.stage \in Late \cup {"lost"} => payment'[r.key].reference = payment[r.key].reference
  BY NoneAssumption DEF Knows, Grows, Late, Stages
<1>3. r.stage \in Informed => r.invoice \in Invoices
  BY DEF Knows, Informed, Late
<1>4. r.stage = "stray" => event'[r.event] = event[r.event]
  BY DEF Knows, Grows
<1> QED
  BY <1>1, <1>2, <1>3, <1>4 DEF Knows, Grows, Paid

\* A call that ended, and a call none has started, knows nothing.
LEMMA IdleKnows == Knows(Idle) /\ Knows(Idle)'
BY NoneAssumption DEF Knows, Idle, Late, Informed, Stages

\* It is enough to look at the call that makes the step.
LEMMA OneCallMoves ==
    ASSUME RowsTypeOK, CallsKnow, [Next]_vars,
           NEW c \in Calls, NEW r, call' = [call EXCEPT ![c] = r], Knows(r)'
    PROVE  CallsKnow'
<1>1. \A d \in Calls \ {c} : call'[d] = call[d] /\ call[d] \in CallRecords
  BY DEF RowsTypeOK
<1>2. call'[c] = r
  BY DEF RowsTypeOK
<1> QED
  BY <1>1, <1>2, StepGrows, KnowsStays DEF CallsKnow

\* Steps of the provider and the payer leave every call what it knows.
LEMMA CallStays ==
    ASSUME RowsTypeOK, CallsKnow, [Next]_vars, UNCHANGED call
    PROVE  CallsKnow'
<1>1. \A d \in Calls : call'[d] = call[d] /\ call[d] \in CallRecords
  BY DEF RowsTypeOK
<1> QED
  BY <1>1, StepGrows, KnowsStays DEF CallsKnow

-----------------------------------------------------------------------------
\* Every step keeps the types.

\* A call that ends.
LEMMA DoneKeeps ==
    ASSUME RowsTypeOK, CallsKnow, [Next]_vars, NEW c \in Calls, Done(c)
    PROVE  CallsKnow'
BY OneCallMoves, IdleKnows DEF Done

\* The steps of create() between its row and its answer.
LEMMA ClaimingTypes ==
    ASSUME RowsTypeOK, CallsKnow, NEW c \in Calls,
           Claim(c) \/ LoseClaim(c) \/ FetchWinner(c) \/ \E i \in Invoices : CreateInvoice(c, i)
    PROVE  RowsTypeOK'
<1>0. /\ "closing" \in Stages /\ "billed" \in Stages /\ "initiated" \in InvoiceStatus
      /\ call[c] \in CallRecords
      /\ call[c].op = "webhook" => call[c].event \in Events
  BY DEF Stages, InvoiceStatus, RowsTypeOK
<1>1. CASE Claim(c)
  <2>1. call[c].invoice \in Invoices /\ call[c].key \in Keys
    BY <1>1 DEF Claim, CallsKnow, Knows, Stages
  <2> DEFINE p == [payment[call[c].key] EXCEPT !.reference = call[c].invoice, !.status = "PENDING"]
  <2>2. p \in PaymentRecords
    BY <2>1 DEF RowsTypeOK, PaymentRecords, PaymentStatus
  <2>3. payment' = [payment EXCEPT ![call[c].key] = p]
    BY <1>1 DEF Claim
  <2> DEFINE r == [call[c] EXCEPT !.stage = "closing", !.fetched = "initiated"]
  <2>4. r \in CallRecords /\ r.op = call[c].op /\ r.event = call[c].event
    BY <1>0, <2>1 DEF CallRecords
  <2>5. call' = [call EXCEPT ![c] = r]
    BY <1>1 DEF Claim
  <2> HIDE DEF p, r
  <2>6. payment' \in [Keys -> PaymentRecords]
    BY <2>2, <2>3 DEF RowsTypeOK
  <2> QED
    BY <1>0, <1>1, <2>4, <2>5, <2>6, MovesTypes DEF Claim, RowsTypeOK, provider
<1>2. CASE LoseClaim(c)
  <2>1. invoice' \in [Invoices -> InvoiceRecords]
    BY <1>2 DEF LoseClaim, RowsTypeOK, InvoiceRecords, InvoiceStatus
  <2>2. "lost" \in Stages
    BY DEF Stages
  <2> QED
    BY <1>2, <2>1, <2>2, GoesTypes DEF LoseClaim, RowsTypeOK
<1>3. CASE FetchWinner(c)
  <2> DEFINE i == payment[call[c].key].reference
  <2>1. i \in Invoices
    BY <1>3 DEF FetchWinner, CallsKnow, Knows, Stages, RowsTypeOK, PaymentRecords
  <2>2. invoice[i].status \in InvoiceStatus \cup {NONE}
    BY <2>1 DEF RowsTypeOK, InvoiceRecords
  <2> DEFINE r == [call[c] EXCEPT !.stage = "closing", !.invoice = i, !.fetched = invoice[i].status]
  <2>3. r \in CallRecords /\ r.op = call[c].op /\ r.event = call[c].event
    BY <1>0, <2>1, <2>2 DEF CallRecords
  <2>4. call' = [call EXCEPT ![c] = r]
    BY <1>3 DEF FetchWinner
  <2> HIDE DEF r
  <2> QED
    BY <1>0, <1>3, <2>3, <2>4, MovesTypes DEF FetchWinner, RowsTypeOK, provider, records
<1>4. ASSUME NEW i \in Invoices, CreateInvoice(c, i)
      PROVE  RowsTypeOK'
  <2>1. call[c].key \in Keys
    BY <1>4 DEF CreateInvoice, CallsKnow, Knows, Stages
  <2>2. invoice' \in [Invoices -> InvoiceRecords]
    BY <1>4, <2>1 DEF CreateInvoice, RowsTypeOK, InvoiceRecords, InvoiceStatus
  <2> DEFINE r == [call[c] EXCEPT !.stage = "billed", !.invoice = i]
  <2>3. r \in CallRecords /\ r.op = call[c].op /\ r.event = call[c].event
    BY <1>0 DEF CallRecords
  <2>4. call' = [call EXCEPT ![c] = r]
    BY <1>4 DEF CreateInvoice
  <2> HIDE DEF r
  <2> QED
    BY <1>0, <1>4, <2>2, <2>3, <2>4, MovesTypes DEF CreateInvoice, RowsTypeOK
<1> QED
  BY <1>1, <1>2, <1>3, <1>4

\* What a settled payment looks like.
LEMMA SettledTypes ==
    ASSUME RowsTypeOK, NEW c \in Calls
    PROVE  Settled(c) \in [Keys -> PaymentRecords]
BY StatusType DEF Settled, RowsTypeOK, PaymentRecords

\* Fetching, linking and writing a status.
LEMMA SettlingTypes ==
    ASSUME RowsTypeOK, CallsKnow, NEW c \in Calls,
           Fetch(c) \/ Link(c) \/ Settle(c) \/ SettleEvent(c) \/ CheckRepeated(c) \/ Drop(c)
    PROVE  RowsTypeOK'
<1>0. "settling" \in Stages /\ "closing" \in Stages
  BY DEF Stages
<1>1. CASE Fetch(c)
  <2>1. call[c].invoice \in Invoices
    BY <1>1 DEF Fetch, CallsKnow, Knows, Late
  <2>2. invoice[call[c].invoice].status \in InvoiceStatus \cup {NONE}
    BY <2>1 DEF RowsTypeOK, InvoiceRecords
  <2> QED
    BY <1>1, <2>2 DEF Fetch, RowsTypeOK, CallRecords, Stages, provider, records
<1>2. CASE Link(c)
  <2>1. payment' \in [Keys -> PaymentRecords]
    BY <1>2 DEF Link, RowsTypeOK, PaymentRecords
  <2>2. shown' \subseteq Invoices
    BY <1>2 DEF Link, CallsKnow, Knows, Late, RowsTypeOK
  <2> QED
    BY <1>0, <1>2, <2>1, <2>2, GoesTypes, DoneTypes DEF Link, RowsTypeOK, provider
<1>3. CASE Settle(c)
  <2>1. payment' \in [Keys -> PaymentRecords]
    BY <1>3, SettledTypes DEF Settle, RowsTypeOK
  <2>2. shown' \subseteq Invoices
    BY <1>3 DEF Settle, CallsKnow, Knows, Late, RowsTypeOK
  <2> QED
    BY <1>0, <1>3, <2>1, <2>2, GoesTypes, DoneTypes DEF Settle, RowsTypeOK, provider
<1>4. CASE SettleEvent(c)
  <2>1. audited' \in [Events -> [processed : Nat, unmatched : Nat]]
    BY <1>4 DEF SettleEvent, RowsTypeOK
  <2> QED
    BY <1>4, <2>1, DoneTypes, SettledTypes DEF SettleEvent, RowsTypeOK, provider
<1>5. CASE CheckRepeated(c)
  BY <1>0, <1>5, GoesTypes, DoneTypes DEF CheckRepeated, RowsTypeOK, provider, records
<1>6. CASE Drop(c)
  BY <1>6, DoneTypes DEF Drop, RowsTypeOK, provider, records
<1> QED
  BY <1>1, <1>2, <1>3, <1>4, <1>5, <1>6

\* Refreshing, and looking for the payment of an event.
LEMMA ReadingTypes ==
    ASSUME RowsTypeOK, CallsKnow, NEW c \in Calls,
           \/ \E k \in Keys : Refresh(c, k)
           \/ \E e \in Events : Receive(c, e)
           \/ RecordUnmatched(c)
    PROVE  RowsTypeOK'
<1>1. ASSUME NEW k \in Keys, Refresh(c, k)
      PROVE  RowsTypeOK'
  <2> DEFINE r == [Idle EXCEPT !.op = "refresh", !.key = k, !.stage = "known",
                               !.seen = payment[k].status, !.invoice = payment[k].reference]
  <2>1. r \in CallRecords /\ r.op = "refresh"
    BY DEF Idle, CallRecords, Operations, Stages, RowsTypeOK, PaymentRecords
  <2>2. call' = [call EXCEPT ![c] = r]
    BY <1>1 DEF Refresh
  <2> HIDE DEF r
  <2> QED
    BY <1>1, <2>1, <2>2 DEF Refresh, RowsTypeOK, provider, records
<1>2. ASSUME NEW e \in Events, Receive(c, e)
      PROVE  RowsTypeOK'
  <2>1. event[e].invoice \in Invoices
    BY <1>2 DEF Receive, RowsTypeOK, EventRecords
  <2>2. ASSUME NEW k \in Keys,
               call' = [call EXCEPT ![c] = [Idle EXCEPT !.op = "webhook", !.stage = "known",
                                                        !.key = k, !.event = e,
                                                        !.invoice = event[e].invoice]]
        PROVE  RowsTypeOK'
    <3> DEFINE r == [Idle EXCEPT !.op = "webhook", !.stage = "known", !.key = k, !.event = e,
                                 !.invoice = event[e].invoice]
    <3>1. r \in CallRecords /\ r.event = e
      BY <2>1 DEF Idle, CallRecords, Operations, Stages
    <3>2. call' = [call EXCEPT ![c] = r]
      BY <2>2
    <3> HIDE DEF r
    <3> QED
      BY <1>2, <3>1, <3>2, MovesTypes DEF Receive, RowsTypeOK, provider, records
  <2>3. ASSUME call' = [call EXCEPT ![c] = [Idle EXCEPT !.op = "webhook", !.stage = "stray",
                                                        !.event = e, !.invoice = event[e].invoice]]
        PROVE  RowsTypeOK'
    <3> DEFINE r == [Idle EXCEPT !.op = "webhook", !.stage = "stray", !.event = e,
                                 !.invoice = event[e].invoice]
    <3>1. r \in CallRecords /\ r.event = e
      BY <2>1 DEF Idle, CallRecords, Operations, Stages
    <3>2. call' = [call EXCEPT ![c] = r]
      BY <2>3
    <3> HIDE DEF r
    <3> QED
      BY <1>2, <3>1, <3>2, MovesTypes DEF Receive, RowsTypeOK, provider, records
  <2> QED
    BY <1>2, <2>2, <2>3 DEF Receive
<1>3. CASE RecordUnmatched(c)
  <2>1. call[c].event \in Events
    BY <1>3 DEF RecordUnmatched, CallsKnow, Knows
  <2>2. audited[call[c].event] \in [processed : Nat, unmatched : Nat]
    BY <2>1 DEF RowsTypeOK
  <2>3. [audited[call[c].event] EXCEPT !.unmatched = @ + 1] \in [processed : Nat, unmatched : Nat]
    BY <2>2
  <2>4. audited' \in [Events -> [processed : Nat, unmatched : Nat]]
    BY <1>3, <2>3 DEF RecordUnmatched, RowsTypeOK
  <2> QED
    BY <1>3, <2>4, DoneTypes DEF RecordUnmatched, RowsTypeOK, provider
<1> QED
  BY <1>1, <1>2, <1>3

\* Every step of the specification keeps the types.
LEMMA StepTypes ==
    ASSUME RowsTypeOK, CallsKnow, [Next]_vars
    PROVE  RowsTypeOK'
<1>1. CASE UNCHANGED vars
  BY <1>1 DEF vars, RowsTypeOK
<1>2. ASSUME NEW i \in Invoices, MoveInvoice(i)
      PROVE  RowsTypeOK'
  BY <1>2 DEF MoveInvoice, RowsTypeOK, InvoiceRecords, InvoiceStatus, records
<1>3. ASSUME NEW i \in Invoices, NEW e \in Events, Report(e, i)
      PROVE  RowsTypeOK'
  BY <1>3 DEF Report, RowsTypeOK, EventRecords, Paid, records
<1> QED
  BY <1>1, <1>2, <1>3, CreateTypes, ClaimingTypes, SettlingTypes, ReadingTypes DEF Next

-----------------------------------------------------------------------------
\* Every step keeps what the calls know.

\* A call that has fetched its invoice goes on with it.
LEMMA InformedGoes ==
    ASSUME RowsTypeOK, CallsKnow, [Next]_vars, NEW c \in Calls, NEW stage \in Informed,
           call[c].stage \in Informed, GoesTo(c, stage)
    PROVE  CallsKnow'
<1> PICK r : r = [call[c] EXCEPT !.stage = stage]
  OBVIOUS
<1>1. call[c] \in CallRecords /\ Knows(call[c])
  BY DEF RowsTypeOK, CallsKnow
<1>2. \E q \in CallRecords : q = call[c] /\ Knows(q)'
  BY <1>1, StepGrows, KnowsStays
<1>3. /\ r.stage = stage /\ r.key = call[c].key /\ r.invoice = call[c].invoice
      /\ r.fetched = call[c].fetched
  BY <1>1 DEF CallRecords
<1>4. call' = [call EXCEPT ![c] = r]
  BY DEF GoesTo
<1>5. Knows(r)'
  BY <1>2, <1>3 DEF Knows, Informed, Late, Stages
<1> QED
  BY <1>4, <1>5, OneCallMoves

\* A call that starts to work for payment k, with the invoice that payment follows if any.
LEMMA StartedKnows ==
    ASSUME RowsTypeOK, CallsKnow, [Next]_vars, NEW c \in Calls, NEW k \in Keys, NEW r,
           call' = [call EXCEPT ![c] = r], r.stage \in {"asked", "known"}, r.key = k,
           r.stage = "known" => payment[k].reference # NONE /\ r.invoice = payment[k].reference
    PROVE  CallsKnow'
<1>1. r.stage = "known" =>
         payment[k].reference \in Invoices /\ payment'[k].reference = payment[k].reference
  BY StepGrows DEF RowsTypeOK, PaymentRecords, Grows
<1>2. Knows(r)'
  BY <1>1 DEF Knows, Informed, Late, Stages
<1> QED
  BY <1>2, OneCallMoves

\* create() starts without an invoice, or with the one its payment follows; refresh() with one.
LEMMA CreatingKnows ==
    ASSUME RowsTypeOK, CallsKnow, [Next]_vars, NEW c \in Calls, NEW k \in Keys,
           Create(c, k) \/ Refresh(c, k)
    PROVE  CallsKnow'
<1>1. CASE Create(c, k)
  <2> PICK stage : stage = IF payment[k].reference = NONE THEN "asked" ELSE "known"
    OBVIOUS
  <2> PICK seen : seen = payment'[k].status
    OBVIOUS
  <2> PICK r : r = [Idle EXCEPT !.op = "create", !.key = k, !.seen = seen, !.stage = stage,
                               !.invoice = payment[k].reference]
    OBVIOUS
  <2>1. call' = [call EXCEPT ![c] = r]
    BY <1>1 DEF Create
  <2>2. r.stage = stage /\ r.key = k /\ r.invoice = payment[k].reference
    BY DEF Idle
  <2>3. stage \in {"asked", "known"} /\ (stage = "known" => payment[k].reference # NONE)
    OBVIOUS
  <2> QED
    BY <2>1, <2>2, <2>3, StartedKnows
<1>2. CASE Refresh(c, k)
  <2> PICK r : r = [Idle EXCEPT !.op = "refresh", !.key = k, !.stage = "known",
                               !.seen = payment[k].status, !.invoice = payment[k].reference]
    OBVIOUS
  <2>1. call' = [call EXCEPT ![c] = r] /\ payment[k].reference # NONE
    BY <1>2 DEF Refresh
  <2>2. r.stage = "known" /\ r.key = k /\ r.invoice = payment[k].reference
    BY DEF Idle
  <2> QED
    BY <2>1, <2>2, StartedKnows
<1> QED
  BY <1>1, <1>2

\* A created invoice is the call's own; claimed, lost, or replaced by the winner, it is
\* the payment's.
LEMMA ClaimingKnows ==
    ASSUME RowsTypeOK, CallsKnow, [Next]_vars, NEW c \in Calls,
           Claim(c) \/ LoseClaim(c) \/ FetchWinner(c) \/ \E i \in Invoices : CreateInvoice(c, i)
    PROVE  CallsKnow'
<1>0. call[c] \in CallRecords /\ Knows(call[c])
  BY DEF RowsTypeOK, CallsKnow
<1>1. CASE Claim(c)
  <2> PICK r : r = [call[c] EXCEPT !.stage = "closing", !.fetched = "initiated"]
    OBVIOUS
  <2>1. /\ r.stage = "closing" /\ r.fetched = "initiated"
        /\ r.key = call[c].key /\ r.invoice = call[c].invoice
    BY <1>0 DEF CallRecords
  <2>2. call[c].key \in Keys /\ call[c].invoice \in Invoices
    BY <1>0, <1>1 DEF Claim, Knows, Stages
  <2>3. payment'[call[c].key].reference = call[c].invoice
    BY <1>1, <2>2 DEF Claim, RowsTypeOK, PaymentRecords
  <2>4. Knows(r)'
    BY <2>1, <2>2, <2>3 DEF Knows, Informed, Late, Stages
  <2> QED
    BY <1>1, <2>4, OneCallMoves DEF Claim
<1>2. CASE LoseClaim(c)
  <2> PICK r : r = [call[c] EXCEPT !.stage = "lost"]
    OBVIOUS
  <2>1. r.stage = "lost" /\ r.key = call[c].key /\ r.invoice = call[c].invoice
    BY <1>0 DEF CallRecords
  <2>2. /\ call[c].key \in Keys /\ call[c].invoice \in Invoices
        /\ invoice[call[c].invoice].status # NONE /\ invoice[call[c].invoice].key = call[c].key
        /\ payment'[call[c].key].reference # NONE
    BY <1>0, <1>2 DEF LoseClaim, Knows, Stages
  <2>3. /\ invoice'[call[c].invoice].status # NONE
        /\ invoice'[call[c].invoice].key = call[c].key
    BY <2>2, StepGrows DEF Grows
  <2>4. Knows(r)'
    BY <2>1, <2>2, <2>3 DEF Knows, Informed, Late, Stages
  <2> QED
    BY <1>2, <2>4, OneCallMoves DEF LoseClaim, GoesTo
<1>3. CASE FetchWinner(c)
  <2> PICK i : i = payment[call[c].key].reference
    OBVIOUS
  <2> PICK r : r = [call[c] EXCEPT !.stage = "closing", !.invoice = i, !.fetched = invoice[i].status]
    OBVIOUS
  <2>1. /\ r.stage = "closing" /\ r.fetched = invoice[i].status
        /\ r.key = call[c].key /\ r.invoice = i
    BY <1>0 DEF CallRecords
  <2>2. call[c].key \in Keys /\ i \in Invoices
    BY <1>0, <1>3 DEF FetchWinner, Knows, Stages, RowsTypeOK, PaymentRecords
  <2>3. UNCHANGED <<payment, invoice>>
    BY <1>3 DEF FetchWinner, provider, records
  <2>4. Knows(r)'
    BY <2>1, <2>2, <2>3 DEF Knows, Informed, Late, Stages, Paid
  <2> QED
    BY <1>3, <2>4, OneCallMoves DEF FetchWinner
<1>4. ASSUME NEW i \in Invoices, CreateInvoice(c, i)
      PROVE  CallsKnow'
  <2> PICK r : r = [call[c] EXCEPT !.stage = "billed", !.invoice = i]
    OBVIOUS
  <2>1. r.stage = "billed" /\ r.key = call[c].key /\ r.invoice = i
    BY <1>0 DEF CallRecords
  <2>2. call[c].key \in Keys
    BY <1>0, <1>4 DEF CreateInvoice, Knows, Stages
  <2>3. invoice'[i].status # NONE /\ invoice'[i].key = call[c].key
    BY <1>4, NoneAssumption DEF CreateInvoice, RowsTypeOK, InvoiceStatus
  <2>4. Knows(r)'
    BY <2>1, <2>2, <2>3 DEF Knows, Informed, Late, Stages
  <2> QED
    BY <1>4, <2>4, OneCallMoves DEF CreateInvoice
<1> QED
  BY <1>1, <1>2, <1>3, <1>4

\* A webhook finds the payment of its invoice, or none, and then no money is reported.
LEMMA ReadingKnows ==
    ASSUME RowsTypeOK, CallsKnow, InvoicesKnown, [Next]_vars, NEW c \in Calls, NEW e \in Events,
           Receive(c, e)
    PROVE  CallsKnow'
<1>1. event[e].invoice \in Invoices
  BY DEF Receive, RowsTypeOK, EventRecords
<1>2. ASSUME NEW k \in Keys, payment[k].reference = event[e].invoice,
             call' = [call EXCEPT ![c] = [Idle EXCEPT !.op = "webhook", !.stage = "known",
                                                      !.key = k, !.event = e,
                                                      !.invoice = event[e].invoice]]
      PROVE  CallsKnow'
  <2> PICK r : r = [Idle EXCEPT !.op = "webhook", !.stage = "known", !.key = k, !.event = e,
                               !.invoice = event[e].invoice]
    OBVIOUS
  <2>1. r.stage = "known" /\ r.key = k /\ r.invoice = payment[k].reference
    BY <1>2 DEF Idle
  <2> QED
    BY <1>1, <1>2, <2>1, StartedKnows, NoneAssumption
<1>3. ASSUME ~Claimed(event[e].invoice),
             call' = [call EXCEPT ![c] = [Idle EXCEPT !.op = "webhook", !.stage = "stray",
                                                      !.event = e, !.invoice = event[e].invoice]]
      PROVE  CallsKnow'
  <2>1. ~event[e].paid
    BY <1>3 DEF InvoicesKnown, Claimed
  <2> PICK r : r = [Idle EXCEPT !.op = "webhook", !.stage = "stray", !.event = e,
                               !.invoice = event[e].invoice]
    OBVIOUS
  <2>2. r.stage = "stray" /\ r.event = e
    BY DEF Idle
  <2>3. event'[e] = event[e] /\ event[e].invoice # NONE
    BY <1>1, StepGrows, NoneAssumption DEF Grows
  <2>4. Knows(r)'
    BY <2>1, <2>2, <2>3 DEF Knows, Informed, Late, Stages
  <2> QED
    BY <1>3, <2>4, OneCallMoves
<1> QED
  BY <1>2, <1>3 DEF Receive

\* What was fetched of the payment's invoice stays known until it is written.
LEMMA SettlingKnows ==
    ASSUME RowsTypeOK, CallsKnow, [Next]_vars, NEW c \in Calls,
           Fetch(c) \/ Link(c) \/ Settle(c) \/ SettleEvent(c) \/ CheckRepeated(c)
    PROVE  CallsKnow'
<1>0. {"fetched", "settling", "closing"} \subseteq Informed
  BY DEF Informed, Late
<1>1. CASE Fetch(c)
  <2> PICK r : r = [call[c] EXCEPT !.stage = "fetched", !.fetched = invoice[call[c].invoice].status]
    OBVIOUS
  <2>1. call[c] \in CallRecords /\ Knows(call[c])
    BY DEF RowsTypeOK, CallsKnow
  <2>2. /\ r.stage = "fetched" /\ r.fetched = invoice[call[c].invoice].status
        /\ r.key = call[c].key /\ r.invoice = call[c].invoice
    BY <2>1 DEF CallRecords
  <2>3. /\ call[c].key \in Keys /\ call[c].invoice \in Invoices
        /\ payment[call[c].key].reference = call[c].invoice
    BY <1>1, <2>1 DEF Fetch, Knows, Late, Stages
  <2>4. UNCHANGED <<payment, invoice>>
    BY <1>1 DEF Fetch, provider, records
  <2>5. Knows(r)'
    BY <2>2, <2>3, <2>4 DEF Knows, Informed, Late, Stages, Paid
  <2> QED
    BY <1>1, <2>5, OneCallMoves DEF Fetch
<1>2. CASE Link(c)
  BY <1>0, <1>2, InformedGoes, DoneKeeps DEF Link
<1>3. CASE Settle(c)
  BY <1>0, <1>3, InformedGoes, DoneKeeps DEF Settle
<1>4. CASE SettleEvent(c)
  BY <1>4, DoneKeeps DEF SettleEvent
<1>5. CASE CheckRepeated(c)
  BY <1>0, <1>5, InformedGoes, DoneKeeps DEF CheckRepeated
<1> QED
  BY <1>1, <1>2, <1>3, <1>4, <1>5

\* Every step of the specification keeps what the calls know.
LEMMA StepCalls ==
    ASSUME IInv, [Next]_vars
    PROVE  CallsKnow'
<1> USE DEF IInv
<1>1. CASE UNCHANGED call
  BY <1>1, CallStays
<1>2. ASSUME NEW c \in Calls, RecordUnmatched(c) \/ Drop(c)
      PROVE  CallsKnow'
  BY <1>2, DoneKeeps DEF RecordUnmatched, Drop
<1>3. ASSUME NEW i \in Invoices, MoveInvoice(i) \/ \E e \in Events : Report(e, i)
      PROVE  CallsKnow'
  BY <1>1, <1>3 DEF MoveInvoice, Report
<1> QED
  BY <1>1, <1>2, <1>3, CreatingKnows, ClaimingKnows, ReadingKnows, SettlingKnows DEF Next, vars

-----------------------------------------------------------------------------
\* Every step keeps what the rows tell of each other.

\* The steps that claim, create, show, pay and report nothing.
LEMMA QuietShowsNothing ==
    ASSUME RowsTypeOK, NEW c \in Calls,
           QuietStep(c) \/ SettleEvent(c) \/ \E k \in Keys : Create(c, k)
    PROVE  /\ UNCHANGED <<invoice, shown, event>>
           /\ \A k \in Keys : payment'[k].reference = payment[k].reference
<1>1. CASE QuietStep(c)
  BY <1>1, QuietUnchanged
<1>2. CASE SettleEvent(c)
  BY <1>2 DEF SettleEvent, Settled, RowsTypeOK, PaymentRecords, provider
<1>3. ASSUME NEW k \in Keys, Create(c, k)
      PROVE  /\ UNCHANGED <<invoice, shown, event>>
             /\ \A j \in Keys : payment'[j].reference = payment[j].reference
  <2> PICK status : payment' = [payment EXCEPT ![k].status = status]
    BY <1>3 DEF Create
  <2>1. \A j \in Keys : payment'[j].reference = payment[j].reference
    BY DEF RowsTypeOK, PaymentRecords
  <2> QED
    BY <1>3, <2>1 DEF Create, provider
<1> QED
  BY <1>1, <1>2, <1>3

\* The provider moves an invoice that exists, and pays none that was not shown.
LEMMA ProviderMoves ==
    ASSUME IInv, [Next]_vars, UNCHANGED <<payment, shown, event>>,
           \A i \in Invoices : invoice'[i].status \in {"paid", "refunded"} => i \in shown
    PROVE  InvoicesKnown'
<1>1. Grows /\ InvoicesKnown /\ RowsTypeOK
  BY StepGrows DEF IInv
<1>2. \A k \in Keys : payment[k].reference # NONE =>
         /\ payment[k].reference \in Invoices
         /\ invoice'[payment[k].reference].status # NONE
         /\ invoice'[payment[k].reference].key = k
  BY <1>1 DEF InvoicesKnown, Grows, RowsTypeOK, PaymentRecords
<1>3. \A i \in shown : invoice'[i].key \in Keys /\ payment[invoice'[i].key].reference = i
  <2> SUFFICES ASSUME NEW i \in shown
               PROVE  invoice'[i].key \in Keys /\ payment[invoice'[i].key].reference = i
    OBVIOUS
  <2>1. i \in Invoices /\ invoice[i].key \in Keys /\ payment[invoice[i].key].reference = i
    BY <1>1 DEF InvoicesKnown, RowsTypeOK
  <2> QED
    BY <1>2, <2>1, NoneAssumption
<1>4. \A e \in Events : event[e].paid =>
         event[e].invoice \in Invoices /\ invoice'[event[e].invoice].status \in {"paid", "refunded"}
  BY <1>1 DEF InvoicesKnown, Grows
<1> QED
  BY <1>2, <1>3, <1>4 DEF InvoicesKnown, Paid

\* Claiming, showing, creating and paying, each with what it relies on.
LEMMA StepInvoices ==
    ASSUME IInv, [Next]_vars
    PROVE  InvoicesKnown'
<1> USE DEF IInv
<1>1. ASSUME UNCHANGED <<invoice, shown, event>>,
             \A k \in Keys : payment'[k].reference = payment[k].reference
      PROVE  InvoicesKnown'
  BY <1>1 DEF InvoicesKnown, Paid
<1>2. ASSUME NEW c \in Calls, Claim(c)
      PROVE  InvoicesKnown'
  <2>1. /\ call[c].key \in Keys /\ call[c].invoice \in Invoices
        /\ invoice[call[c].invoice].status # NONE /\ invoice[call[c].invoice].key = call[c].key
    BY <1>2 DEF Claim, CallsKnow, Knows, Stages
  <2>2. /\ payment'[call[c].key].reference = call[c].invoice
        /\ \A k \in Keys \ {call[c].key} : payment'[k] = payment[k]
        /\ UNCHANGED <<invoice, shown, event>>
    BY <1>2, <2>1 DEF Claim, RowsTypeOK, PaymentRecords, provider
  <2>3. \A k \in Keys : payment'[k].reference # NONE =>
           invoice'[payment'[k].reference].status # NONE /\ invoice'[payment'[k].reference].key = k
    BY <2>1, <2>2 DEF InvoicesKnown
  <2>4. payment[call[c].key].reference \notin shown
    BY <1>2, NoneAssumption DEF Claim, RowsTypeOK
  <2>5. \A i \in shown : invoice[i].key \in Keys /\ payment'[invoice[i].key].reference = i
    BY <2>2, <2>4 DEF InvoicesKnown
  <2> QED
    BY <2>2, <2>3, <2>5 DEF InvoicesKnown, Paid
<1>3. ASSUME NEW c \in Calls, NEW i \in Invoices, CreateInvoice(c, i)
      PROVE  InvoicesKnown'
  <2>1. /\ UNCHANGED <<payment, shown, event>>
        /\ invoice[i].status = NONE
        /\ invoice'[i].status = "initiated"
        /\ \A j \in Invoices \ {i} : invoice'[j] = invoice[j]
    BY <1>3 DEF CreateInvoice, RowsTypeOK
  <2>2. /\ i \notin shown
        /\ \A k \in Keys : payment[k].reference # i
        /\ \A e \in Events : event[e].paid => event[e].invoice # i
    <3>1. i \notin shown
      BY <2>1, NoneAssumption DEF InvoicesKnown
    <3>2. ~Paid(i)
      BY <2>1, NoneAssumption DEF Paid, InvoiceStatus
    <3> QED
      BY <2>1, <3>1, <3>2, NoneAssumption DEF InvoicesKnown
  <2> QED
    BY <2>1, <2>2 DEF InvoicesKnown, Paid, RowsTypeOK, PaymentRecords
<1>4. ASSUME NEW c \in Calls, LoseClaim(c)
      PROVE  InvoicesKnown'
  <2>1. /\ UNCHANGED <<payment, shown, event>>
        /\ \A i \in Invoices : invoice'[i].status \in {"paid", "refunded"} => i \in shown
    BY <1>4 DEF LoseClaim, RowsTypeOK, InvoiceRecords, InvoicesKnown, Paid
  <2> QED
    BY <2>1, ProviderMoves
<1>5. ASSUME NEW c \in Calls, Link(c) \/ Settle(c)
      PROVE  InvoicesKnown'
  <2>1. /\ UNCHANGED <<invoice, event>>
        /\ \A k \in Keys : payment'[k].reference = payment[k].reference
        /\ shown' \subseteq shown \cup {call[c].invoice} /\ shown \subseteq shown'
    BY <1>5 DEF Link, Settle, Settled, RowsTypeOK, PaymentRecords, provider
  <2>2. /\ call[c].key \in Keys /\ call[c].invoice \in Invoices
        /\ payment[call[c].key].reference = call[c].invoice
    BY <1>5 DEF Link, Settle, CallsKnow, Knows, Late, Stages
  <2>3. invoice[call[c].invoice].key = call[c].key
    BY <2>2, NoneAssumption DEF InvoicesKnown
  <2>4. \A i \in shown' : invoice'[i].key \in Keys /\ payment'[invoice'[i].key].reference = i
    BY <2>1, <2>2, <2>3 DEF InvoicesKnown
  <2> QED
    BY <2>1, <2>4 DEF InvoicesKnown, Paid
<1>6. ASSUME NEW i \in Invoices, MoveInvoice(i)
      PROVE  InvoicesKnown'
  <2>1. /\ UNCHANGED <<payment, shown, event>>
        /\ \A j \in Invoices : invoice'[j].status \in {"paid", "refunded"} => j \in shown
    BY <1>6 DEF MoveInvoice, RowsTypeOK, InvoiceRecords, InvoicesKnown, Paid, records
  <2> QED
    BY <2>1, ProviderMoves
<1>7. ASSUME NEW i \in Invoices, NEW e \in Events, Report(e, i)
      PROVE  InvoicesKnown'
  <2>1. /\ UNCHANGED <<payment, invoice, shown>>
        /\ event'[e].invoice = i /\ (event'[e].paid => Paid(i))
        /\ \A f \in Events \ {e} : event'[f] = event[f]
    BY <1>7 DEF Report, RowsTypeOK, records
  <2>2. ASSUME NEW f \in Events, event'[f].paid
        PROVE  event'[f].invoice \in Invoices /\ invoice[event'[f].invoice].status \in {"paid", "refunded"}
    <3>1. CASE f = e
      BY <2>1, <2>2, <3>1 DEF Paid
    <3>2. CASE f # e
      BY <2>1, <2>2, <3>2 DEF InvoicesKnown, Paid
    <3> QED
      BY <3>1, <3>2
  <2> QED
    BY <2>1, <2>2 DEF InvoicesKnown, Paid
<1> QED
  BY <1>1, <1>2, <1>3, <1>4, <1>5, <1>6, <1>7, QuietShowsNothing DEF Next, QuietStep, vars

\* A payment whose row changed its status or link was told so by its own invoice.
LEMMA StepSettled ==
    ASSUME IInv, [Next]_vars
    PROVE  SettledKnown'
<1> USE DEF IInv
<1> DEFINE Backed(k) ==
      /\ payment'[k].status \in {"CAPTURED", "REFUNDED"} \/ payment'[k].linked =>
            /\ payment[k].reference # NONE
            /\ Paid(payment[k].reference)
      /\ payment'[k].status = "REFUNDED" => invoice[payment[k].reference].status = "refunded"
<1>1. ASSUME NEW k \in Keys, payment'[k].status = payment[k].status, payment'[k].linked = payment[k].linked
      PROVE  Backed(k)
  BY <1>1 DEF SettledKnown, CapturedWasPaid
<1>2. ASSUME NEW k \in Keys
      PROVE  Backed(k)
  <2>1. CASE UNCHANGED payment
    BY <1>1, <2>1
  <2>2. ASSUME NEW c \in Calls, NEW j \in Keys, Create(c, j)
        PROVE  Backed(k)
    <3>1. CASE payment[j].status # NONE \/ k # j
      BY <1>1, <2>2, <3>1 DEF Create, RowsTypeOK, PaymentRecords
    <3>2. CASE payment[j].status = NONE /\ k = j
      BY <2>2, <3>2, NoneAssumption
         DEF Create, RowsTypeOK, PaymentRecords, SettledKnown, CapturedWasPaid
    <3> QED
      BY <3>1, <3>2
  <2>3. ASSUME NEW c \in Calls, Claim(c)
        PROVE  Backed(k)
    <3>1. CASE k # call[c].key
      BY <1>1, <2>3, <3>1 DEF Claim, RowsTypeOK, PaymentRecords
    <3>2. CASE k = call[c].key
      <4>1. payment[k].reference = NONE /\ ~payment[k].linked
        BY <2>3, <3>2 DEF Claim, SettledKnown, RowsTypeOK, PaymentRecords
      <4>2. payment'[k].status = "PENDING" /\ payment'[k].linked = payment[k].linked
        BY <2>3, <3>2 DEF Claim, RowsTypeOK, PaymentRecords
      <4> QED
        BY <4>1, <4>2
    <3> QED
      BY <3>1, <3>2
  <2>4. ASSUME NEW c \in Calls, Link(c)
        PROVE  Backed(k)
    <3>1. /\ payment'[k].status = payment[k].status
          /\ payment'[k].linked # payment[k].linked => k = call[c].key /\ call[c].fetched = "paid"
      BY <2>4 DEF Link, RowsTypeOK, PaymentRecords
    <3>2. call[c].fetched = "paid" /\ k = call[c].key =>
             payment[k].reference \in Invoices /\ Paid(payment[k].reference)
      BY <2>4 DEF Link, CallsKnow, Knows, Late, Informed
    <3> QED
      BY <1>1, <3>1, <3>2, NoneAssumption DEF SettledKnown, CapturedWasPaid
  <2>5. ASSUME NEW c \in Calls, Settle(c) \/ SettleEvent(c)
        PROVE  Backed(k)
    <3>1. \/ payment'[k].status = payment[k].status
          \/ k = call[c].key /\ payment'[k].status = StatusFromInvoice(call[c].fetched)
      BY <2>5 DEF Settle, SettleEvent, Settled, RowsTypeOK, PaymentRecords
    <3>2. payment'[k].linked = payment[k].linked
      <4>1. payment' = payment \/ payment' = Settled(c)
        BY <2>5 DEF Settle, SettleEvent
      <4> QED
        BY <4>1 DEF Settled, RowsTypeOK, PaymentRecords
    <3>3. ASSUME k = call[c].key, payment'[k].status = StatusFromInvoice(call[c].fetched)
          PROVE  Backed(k)
      <4>1. /\ payment'[k].status = "CAPTURED" => call[c].fetched = "paid"
            /\ payment'[k].status = "REFUNDED" => call[c].fetched = "refunded"
        BY <3>3 DEF StatusFromInvoice
      <4>2. /\ payment[k].reference = call[c].invoice /\ call[c].invoice \in Invoices
            /\ call[c].fetched \in {"paid", "refunded"} => Paid(call[c].invoice)
            /\ call[c].fetched = "refunded" => invoice[call[c].invoice].status = "refunded"
        BY <2>5, <3>3 DEF Settle, SettleEvent, CallsKnow, Knows, Late, Informed
      <4> QED
        BY <3>2, <4>1, <4>2, NoneAssumption DEF SettledKnown, CapturedWasPaid
    <3> QED
      BY <1>1, <3>1, <3>2, <3>3
  <2> QED
    BY <2>1, <2>2, <2>3, <2>4, <2>5, QuietUnchanged
       DEF Next, QuietStep, vars, CreateInvoice, LoseClaim, MoveInvoice, Report, records
<1>3. \A k \in Keys : payment[k].reference # NONE =>
         /\ payment'[k].reference = payment[k].reference
         /\ Paid(payment[k].reference) => Paid(payment[k].reference)'
         /\ invoice[payment[k].reference].status = "refunded" =>
               invoice'[payment[k].reference].status = "refunded"
  BY StepGrows DEF Grows, Paid, RowsTypeOK, PaymentRecords
<1>4. ASSUME NEW e \in Events, audited'[e].unmatched > 0
      PROVE  event'[e].invoice # NONE /\ ~event'[e].paid
  <2>1. ASSUME audited'[e].unmatched = audited[e].unmatched
        PROVE  event'[e].invoice # NONE /\ ~event'[e].paid
    BY <1>4, <2>1, StepGrows DEF SettledKnown, Grows
  <2>2. ASSUME NEW c \in Calls, RecordUnmatched(c)
        PROVE  event'[e].invoice # NONE /\ ~event'[e].paid
    <3>1. CASE e # call[c].event
      BY <2>1, <2>2, <3>1 DEF RecordUnmatched, RowsTypeOK
    <3>2. CASE e = call[c].event
      BY <2>2, <3>2 DEF RecordUnmatched, CallsKnow, Knows, provider
    <3> QED
      BY <3>1, <3>2
  <2>3. ASSUME NEW c \in Calls, SettleEvent(c)
        PROVE  audited'[e].unmatched = audited[e].unmatched
    BY <2>3 DEF SettleEvent, RowsTypeOK
  <2>4. UNCHANGED audited => audited'[e].unmatched = audited[e].unmatched
    OBVIOUS
  <2> QED
    BY <2>1, <2>2, <2>3, <2>4
       DEF Next, vars, records, Create, Refresh, CreateInvoice, Claim, LoseClaim, FetchWinner,
           Receive, Fetch, Link, Settle, CheckRepeated, Drop, MoveInvoice, Report
<1> QED
  <2>1. \A k \in Keys : payment'[k].status \in {"CAPTURED", "REFUNDED"} \/ payment'[k].linked =>
           /\ payment'[k].reference # NONE
           /\ invoice'[payment'[k].reference].status \in {"paid", "refunded"}
    BY <1>2, <1>3 DEF Paid
  <2>2. \A k \in Keys : payment'[k].status = "REFUNDED" =>
           invoice'[payment'[k].reference].status = "refunded"
    BY <1>2, <1>3
  <2> QED
    BY <1>4, <2>1, <2>2 DEF SettledKnown, CapturedWasPaid, Paid

-----------------------------------------------------------------------------
\* What payments promise.

\* The inductive invariant: types, what calls rely on, what rows tell of each other.
THEOREM Invariant == Spec => []IInv
<1>1. Init => IInv
  <2>1. Init => CallsKnow
    BY IdleKnows DEF Init, CallsKnow
  <2>2. Init => InvoicesKnown
    BY NoneAssumption DEF Init, InvoicesKnown, Absent, Paid, InvoiceStatus
  <2>3. Init => SettledKnown
    BY NoneAssumption DEF Init, SettledKnown, CapturedWasPaid, Absent, PaymentStatus
  <2> QED
    BY <2>1, <2>2, <2>3, InitTypes DEF IInv
<1>2. IInv /\ [Next]_vars => IInv'
  BY StepTypes, StepCalls, StepInvoices, StepSettled DEF IInv
<1> QED
  BY <1>1, <1>2, PTL DEF Spec

\* Every row keeps its type, and a call past its lookup has a payment and an invoice.
THEOREM TypeInvariant == Spec => []TypeOK
<1>1. IInv => TypeOK
  BY DEF IInv, TypeOK, RowsTypeOK, CallsKnow, Knows, Late, Stages
<1> QED
  BY <1>1, Invariant, PTL

\* Of the invoices that concurrent or repeated create() calls made for one payment, a payer
\* can only ever pay the one the payment follows.
THEOREM PayersPayTheClaim == Spec => []PaidIsClaimed
<1>1. IInv => PaidIsClaimed
  BY DEF IInv, InvoicesKnown, PaidIsClaimed
<1> QED
  BY <1>1, Invariant, PTL

\* The claimed invoice of a payment never changes: a later create() adopts it.
THEOREM ClaimsAreFinal == Spec => ClaimIsFinal
<1>1. IInv /\ [Next]_vars =>
         [\A k \in Keys : payment[k].reference # NONE => payment'[k].reference = payment[k].reference]_vars
  BY StepGrows DEF IInv, Grows
<1> QED
  BY <1>1, Invariant, PTL DEF Spec, ClaimIsFinal

\* A payment counts as captured, refunded or linked only if its own invoice was paid or
\* refunded, in whatever order creates, refreshes and webhooks fetched and wrote.
THEOREM CapturedMeansPaid == Spec => []CapturedWasPaid
<1>1. IInv => CapturedWasPaid
  BY DEF IInv, SettledKnown
<1> QED
  BY <1>1, Invariant, PTL

\* No event that reports money is filed as unmatched, however late the claim.
THEOREM MoneyMatched == Spec => []MoneyIsMatched
<1>1. IInv => MoneyIsMatched
  BY DEF IInv, SettledKnown, MoneyIsMatched
<1> QED
  BY <1>1, Invariant, PTL

=============================================================================
