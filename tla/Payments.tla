------------------------------- MODULE Payments -------------------------------
(***************************************************************************)
(* Payments of trip bookings at the invoice provider (payments.service):   *)
(* a payment is created under an idempotency key, one provider invoice is  *)
(* claimed for it, and its status follows that invoice by webhooks and by  *)
(* refreshes.                                                              *)
(*                                                                         *)
(* No call holds a transaction while it talks to the provider: each read,  *)
(* write and provider request of a call is a step of its own, and a call   *)
(* may die after any of them.  Amounts, bookings and who may ask are data: *)
(* a call they refuse does nothing.                                        *)
(***************************************************************************)
EXTENDS Naturals, FiniteSets

CONSTANTS
    Keys,       \* the idempotency keys, each names one Payment row
    Invoices,   \* identities of the provider's invoices
    Events,     \* ids of the provider's webhook events
    Calls,      \* create(), refresh() and handleMoyasarWebhook() calls in flight
    NONE        \* no key, no invoice, no event

VARIABLES
    payment,    \* the Payment rows
    invoice,    \* the provider's invoices
    shown,      \* the invoices whose checkoutUrl a payer was given
    event,      \* the provider's events: the invoice, and whether it was paid by then
    audited,    \* the audit rows of each event, by how many were processed and unmatched
    call        \* the calls in flight

provider == <<invoice, event>>
records == <<payment, audited>>
vars == <<payment, invoice, shown, event, audited, call>>

-----------------------------------------------------------------------------
\* The domains.

PaymentStatus == {"CREATED", "PENDING", "CAPTURED", "FAILED", "CANCELLED", "REFUNDED"}
\* A voided or expired invoice counts as canceled, one on hold as initiated.
InvoiceStatus == {"initiated", "paid", "refunded", "failed", "canceled"}
Operations == {"create", "refresh", "webhook"}
Stages == {"asked", "billed", "lost", "known", "fetched", "settling", "closing", "stray"}

ASSUME NoneAssumption ==
    /\ NONE \notin Keys \cup Invoices \cup Events
    /\ NONE \notin PaymentStatus \cup InvoiceStatus \cup Operations \cup Stages

PaymentRecords == [status : PaymentStatus \cup {NONE}, reference : Invoices \cup {NONE},
                   linked : BOOLEAN]
InvoiceRecords == [status : InvoiceStatus \cup {NONE}, key : Keys \cup {NONE}]
EventRecords == [invoice : Invoices \cup {NONE}, paid : BOOLEAN]
CallRecords == [op : Operations \cup {NONE}, stage : Stages \cup {NONE}, key : Keys \cup {NONE},
                event : Events \cup {NONE}, invoice : Invoices \cup {NONE},
                seen : PaymentStatus \cup {NONE}, fetched : InvoiceStatus \cup {NONE}]

Absent == [status |-> NONE, reference |-> NONE, linked |-> FALSE]
Idle == [op |-> NONE, stage |-> NONE, key |-> NONE, event |-> NONE, invoice |-> NONE,
         seen |-> NONE, fetched |-> NONE]

Paid(i) == invoice[i].status \in {"paid", "refunded"}
Claimed(i) == \E k \in Keys : payment[k].reference = i

\* statusFromInvoice().
StatusFromInvoice(s) ==
    CASE s = "paid" -> "CAPTURED"
      [] s = "refunded" -> "REFUNDED"
      [] s = "failed" -> "FAILED"
      [] s = "canceled" -> "CANCELLED"
      [] OTHER -> "PENDING"

Init ==
    /\ payment = [k \in Keys |-> Absent]
    /\ invoice = [i \in Invoices |-> [status |-> NONE, key |-> NONE]]
    /\ shown = {}
    /\ event = [e \in Events |-> [invoice |-> NONE, paid |-> FALSE]]
    /\ audited = [e \in Events |-> [processed |-> 0, unmatched |-> 0]]
    /\ call = [c \in Calls |-> Idle]

Done(c) == call' = [call EXCEPT ![c] = Idle]
GoesTo(c, stage) == call' = [call EXCEPT ![c].stage = stage]

-----------------------------------------------------------------------------
\* create().

\* The row of the key is inserted, or found as another call left it.
Create(c, k) ==
    /\ call[c] = Idle
    /\ payment' = [payment EXCEPT ![k].status = IF @ = NONE THEN "CREATED" ELSE @]
    /\ call' = [call EXCEPT ![c] = [Idle EXCEPT !.op = "create", !.key = k,
                                                !.seen = payment'[k].status,
                                                !.stage = IF payment[k].reference = NONE
                                                          THEN "asked" ELSE "known",
                                                !.invoice = payment[k].reference]]
    /\ UNCHANGED <<provider, shown, audited>>

\* The provider creates an invoice for the payment; nobody has seen its checkout yet.
CreateInvoice(c, i) ==
    /\ call[c].stage = "asked"
    /\ invoice[i].status = NONE
    /\ invoice' = [invoice EXCEPT ![i] = [status |-> "initiated", key |-> call[c].key]]
    /\ call' = [call EXCEPT ![c] = [@ EXCEPT !.stage = "billed", !.invoice = i]]
    /\ UNCHANGED <<payment, shown, event, audited>>

\* Mutant of Claim: the update does not ask for a row without a reference.
ClaimAnyway(c) ==
    /\ call[c].stage = "billed"
    /\ payment' = [payment EXCEPT ![call[c].key] = [@ EXCEPT !.reference = call[c].invoice,
                                                            !.status = "PENDING"]]
    /\ call' = [call EXCEPT ![c] = [@ EXCEPT !.stage = "closing", !.fetched = "initiated"]]
    /\ UNCHANGED <<provider, shown, audited>>

\* The invoice, as it was created, is claimed for a payment without one ...
Claim(c) ==
    /\ call[c].stage = "billed"
    /\ payment[call[c].key].reference = NONE
    /\ payment' = [payment EXCEPT ![call[c].key] = [@ EXCEPT !.reference = call[c].invoice,
                                                            !.status = "PENDING"]]
    /\ call' = [call EXCEPT ![c] = [@ EXCEPT !.stage = "closing", !.fetched = "initiated"]]
    /\ UNCHANGED <<provider, shown, audited>>

\* ... or it lost, and the provider is asked to cancel it, which may fail.
LoseClaim(c) ==
    /\ call[c].stage = "billed"
    /\ payment[call[c].key].reference # NONE
    /\ \/ /\ invoice[call[c].invoice].status = "initiated"
          /\ invoice' = [invoice EXCEPT ![call[c].invoice].status = "canceled"]
       \/ UNCHANGED invoice
    /\ GoesTo(c, "lost")
    /\ UNCHANGED <<payment, shown, event, audited>>

\* Mutant of FetchWinner: the loser goes on with its own invoice.
FetchOwn(c) ==
    /\ call[c].stage = "lost"
    /\ call' = [call EXCEPT ![c] = [@ EXCEPT !.stage = "closing",
                                             !.fetched = invoice[call[c].invoice].status]]
    /\ UNCHANGED <<provider, records, shown>>

\* The loser reads which invoice won, and fetches that.
FetchWinner(c) ==
    LET i == payment[call[c].key].reference IN
    /\ call[c].stage = "lost"
    /\ call' = [call EXCEPT ![c] = [@ EXCEPT !.stage = "closing", !.invoice = i,
                                             !.fetched = invoice[i].status]]
    /\ UNCHANGED <<provider, records, shown>>

\* refresh() of a payment that has an invoice.
Refresh(c, k) ==
    /\ call[c] = Idle
    /\ payment[k].reference # NONE
    /\ call' = [call EXCEPT ![c] = [Idle EXCEPT !.op = "refresh", !.key = k, !.stage = "known",
                                                !.seen = payment[k].status,
                                                !.invoice = payment[k].reference]]
    /\ UNCHANGED <<provider, records, shown>>

-----------------------------------------------------------------------------
\* handleMoyasarWebhook().

\* Mutant of Receive: the event goes on though no payment has its invoice.
ReceiveUnmatched(c, e) ==
    LET i == event[e].invoice IN
    /\ call[c] = Idle
    /\ i # NONE
    /\ audited[e].processed + audited[e].unmatched = 0
    /\ \E k \in {j \in Keys : payment[j].reference = i} \cup (IF Claimed(i) THEN {} ELSE {NONE}) :
          call' = [call EXCEPT ![c] = [Idle EXCEPT !.op = "webhook", !.stage = "known",
                                                   !.key = k, !.event = e, !.invoice = i]]
    /\ UNCHANGED <<provider, records, shown>>

\* The event was not audited before, and its invoice is looked up.
Receive(c, e) ==
    LET i == event[e].invoice IN
    /\ call[c] = Idle
    /\ i # NONE
    /\ audited[e].processed + audited[e].unmatched = 0
    /\ \/ \E k \in Keys :
             /\ payment[k].reference = i
             /\ call' = [call EXCEPT ![c] = [Idle EXCEPT !.op = "webhook", !.stage = "known",
                                                         !.key = k, !.event = e, !.invoice = i]]
       \/ /\ ~Claimed(i)
          /\ call' = [call EXCEPT ![c] = [Idle EXCEPT !.op = "webhook", !.stage = "stray",
                                                      !.event = e, !.invoice = i]]
    /\ UNCHANGED <<provider, records, shown>>

\* No payment has the invoice: the event is recorded and will not be looked at again.
RecordUnmatched(c) ==
    /\ call[c].stage = "stray"
    /\ audited' = [audited EXCEPT ![call[c].event].unmatched = @ + 1]
    /\ Done(c)
    /\ UNCHANGED <<payment, provider, shown>>

\* fetchInvoice(): the provider's word, whatever the event said.
Fetch(c) ==
    /\ call[c].stage = "known"
    /\ call' = [call EXCEPT ![c] = [@ EXCEPT !.stage = "fetched",
                                             !.fetched = invoice[call[c].invoice].status]]
    /\ UNCHANGED <<provider, records, shown>>

\* syncMoyasarPaymentId(): the row learns the id of the provider's payment; create() does it
\* last and answers with the checkout, the others do it before they settle.
Link(c) ==
    LET k == call[c].key IN
    /\ \/ call[c].op # "create" /\ call[c].stage = "fetched" /\ GoesTo(c, "settling")
       \/ call[c].op = "create" /\ call[c].stage = "closing" /\ Done(c)
    /\ payment' = [payment EXCEPT ![k].linked = @ \/ call[c].fetched = "paid"]
    /\ shown' = IF call[c].op = "create" THEN shown \cup {call[c].invoice} ELSE shown
    /\ UNCHANGED <<provider, audited>>

Settled(c) == [payment EXCEPT ![call[c].key].status = StatusFromInvoice(call[c].fetched)]

\* create() and refresh() write the status they fetched unless it is the one they read
\* before they fetched; refresh() ends here and answers with the checkout.
Settle(c) ==
    /\ \/ call[c].op = "create" /\ call[c].stage = "fetched" /\ GoesTo(c, "closing")
       \/ call[c].op = "refresh" /\ call[c].stage = "settling" /\ Done(c)
    /\ payment' = IF StatusFromInvoice(call[c].fetched) = call[c].seen THEN payment ELSE Settled(c)
    /\ shown' = IF call[c].op = "refresh" THEN shown \cup {call[c].invoice} ELSE shown
    /\ UNCHANGED <<provider, audited>>

\* The webhook's transaction, read committed: first the event is looked up again ...
CheckRepeated(c) ==
    /\ call[c].op = "webhook" /\ call[c].stage = "settling"
    /\ IF audited[call[c].event].processed + audited[call[c].event].unmatched = 0
       THEN GoesTo(c, "closing")
       ELSE Done(c)
    /\ UNCHANGED <<provider, records, shown>>

\* Mutant of SettleEvent: the event is believed to say that its invoice was paid.
SettleEventAsReported(c) ==
    /\ call[c].op = "webhook" /\ call[c].stage = "closing"
    /\ payment' = [payment EXCEPT ![call[c].key].status = "CAPTURED"]
    /\ audited' = [audited EXCEPT ![call[c].event].processed = @ + 1]
    /\ Done(c)
    /\ UNCHANGED <<provider, shown>>

\* ... then the status and the audit row are written.
SettleEvent(c) ==
    /\ call[c].op = "webhook" /\ call[c].stage = "closing"
    /\ payment[call[c].key].reference = call[c].invoice
    /\ payment' = Settled(c)
    /\ audited' = [audited EXCEPT ![call[c].event].processed = @ + 1]
    /\ Done(c)
    /\ UNCHANGED <<provider, shown>>

\* The process dies, a provider request fails or an assertion refuses: the call is gone.
Drop(c) ==
    /\ call[c] # Idle
    /\ Done(c)
    /\ UNCHANGED <<provider, records, shown>>

-----------------------------------------------------------------------------
\* The provider and the payer.

\* A payer pays an invoice whose checkout was shown, or fails to; it expires unpaid, or what
\* was paid is refunded.
MoveInvoice(i) ==
    /\ \/ /\ invoice[i].status = "initiated"
          /\ \E s \in {"canceled"} \cup (IF i \in shown THEN {"paid", "failed"} ELSE {}) :
                invoice' = [invoice EXCEPT ![i].status = s]
       \/ /\ invoice[i].status = "paid"
          /\ invoice' = [invoice EXCEPT ![i].status = "refunded"]
    /\ UNCHANGED <<records, shown, event, call>>

\* The provider reports an invoice; it may deliver the event late, again or never.
Report(e, i) ==
    /\ event[e].invoice = NONE
    /\ invoice[i].status # NONE
    /\ event' = [event EXCEPT ![e] = [invoice |-> i, paid |-> Paid(i)]]
    /\ UNCHANGED <<records, shown, invoice, call>>

Next ==
    \/ \E c \in Calls :
          \/ \E k \in Keys : Create(c, k) \/ Refresh(c, k)
          \/ \E i \in Invoices : CreateInvoice(c, i)
          \/ Claim(c) \/ LoseClaim(c) \/ FetchWinner(c)
          \/ \E e \in Events : Receive(c, e)
          \/ RecordUnmatched(c) \/ Fetch(c) \/ Link(c) \/ Settle(c)
          \/ CheckRepeated(c) \/ SettleEvent(c)
          \/ Drop(c)
    \/ \E i \in Invoices : MoveInvoice(i) \/ \E e \in Events : Report(e, i)

Spec == Init /\ [][Next]_vars

-----------------------------------------------------------------------------
\* What payments promise.

\* Every row keeps its type, and a call past its lookup has a payment and an invoice.
TypeOK ==
    /\ payment \in [Keys -> PaymentRecords]
    /\ invoice \in [Invoices -> InvoiceRecords]
    /\ shown \subseteq Invoices
    /\ event \in [Events -> EventRecords]
    /\ audited \in [Events -> [processed : Nat, unmatched : Nat]]
    /\ call \in [Calls -> CallRecords]
    /\ \A c \in Calls : call[c].stage \in {"known", "fetched", "settling", "closing"} =>
          call[c].key \in Keys /\ call[c].invoice \in Invoices

\* Whoever pays pays the invoice the payment follows: of the invoices concurrent or repeated
\* create() calls made for one payment, only the claimed one can ever be paid.
PaidIsClaimed ==
    \A i \in Invoices : Paid(i) => payment[invoice[i].key].reference = i

\* The claimed invoice of a payment never changes: a later call adopts it.
ClaimIsFinal ==
    [][\A k \in Keys : payment[k].reference # NONE => payment'[k].reference = payment[k].reference]_vars

\* "Webhook event type overrode provider invoice state": a payment counts as captured,
\* refunded or linked only if its own invoice was paid or refunded.
CapturedWasPaid ==
    \A k \in Keys :
       /\ payment[k].status \in {"CAPTURED", "REFUNDED"} \/ payment[k].linked => Paid(payment[k].reference)
       /\ payment[k].status = "REFUNDED" => invoice[payment[k].reference].status = "refunded"

\* An event that reports money is never filed as unmatched, after which its repetitions
\* would count as duplicates: the checkout is shown after the invoice is claimed.
MoneyIsMatched ==
    \A e \in Events : audited[e].unmatched > 0 => ~event[e].paid

\* "Verified provider paid state was not persisted": once captured, a payment stays so
\* until it is refunded.
CapturedIsKept ==
    [][\A k \in Keys : payment[k].status = "CAPTURED" =>
          payment'[k].status \in {"CAPTURED", "REFUNDED"}]_vars

=============================================================================
