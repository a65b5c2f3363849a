# HYDROLAND verification project

HYDROLAND (`apps/api`, a NestJS service over PostgreSQL through Prisma, with a web
and a mobile client) runs diving trips: customers and clubs book seats, operators
staff trips with boats, instructors and crew, safety and weather staff clear them,
payers pay at an external invoice provider, and a trip ends cancelled or completed
with dive logs. This directory models the parts of the API in which several actors
write the same rows, checks them with TLC on small instances, and proves the core of
it with TLAPS for every instance. Five parts are modelled: the bookings of a trip and its
end, the calendar and the crew, payments and the cash of accountant shifts, rented
equipment, and the workers that run agent tasks and mail reports.

Paths below are relative to the repository; `api/` stands for `apps/api/src/`.

## 1. Inventory

How the API computes matters for every part. `DatabaseService.serializable`
(`api/database/database.service.ts`) runs a callback as one SERIALIZABLE transaction,
retried on conflicts: **one atomic step** of a model. A statement outside it commits
by itself: **a step of its own**, and whatever it decided may be stale at the next
one. The payment webhook uses a plain transaction (read committed), so its reads and
its writes are two steps. Several instances of the API may run; nothing is shared but
the database. Requests are re-sent by clients, sweeps run from timers.

| Component | State | Operations | Hard behaviour | What makes it correct | Model |
|---|---|---|---|---|---|
| bookings (`api/trips/trips`, `booking-management`, `booking-participant`) | Booking, BookingParticipant, the audit row of each request id | book, book for an organization, edit participants, eligibility, state, apply CONFIRM/CANCEL | apply() is two transactions with outside work between; retries; re-use of a cancelled row | no overbooking, one live booking per booker, a confirmation acts on what was shown and obeys the rules | TripBooking |
| trip lifecycle (`trip-lifecycle`, `trip-admin`, `trip-completion`, center and marine trip management) | Trip, OperationalCalendarEvent, DiveLog, price setting | publish, reopen, close, cancel, complete, set price, complete with attendance | the end of a trip races bookings, confirmations, allocations | an ended trip holds nothing and never changes; dive logs only for confirmed participants | TripBooking |
| safety, weather, policies (`api/safety`, `weather-gate`, `trip-weather-review`, `policy-control`) | SafetyAssessment, checklist, weather review, OperationalSetting | assess, decide, review, set a rule | facts change between page and command | no confirmation against an enforced rule or a deferral | TripBooking |
| crew and calendar (`calendar-*`, `crew-assignment`, its scheduler) | CalendarResource, CalendarAllocation, CrewAssignment | allocate, enable or disable, dispatch, respond, escalate, replace | a replacement is searched between two transactions; scheduler races answers | nobody in two places, answers final, replaced once | CrewCalendar |
| training sessions (`api/governance/training-session`) | TrainingSession | create, reschedule, transfer, start, check in, complete, cancel | two services reserve the same person from different tables | no new clash under the rule | CrewCalendar |
| meetings (`api/administrative-affairs`) | OperationalCalendarEvent, CalendarAllocation | schedule a meeting | third writer of the calendar | a resource is exclusive | CrewCalendar |
| payments (`api/payments`) | Payment, AuditEvent per webhook event | create, refresh, webhook, request refund | no transaction spans a provider request; events late, repeated, out of order; calls die | who pays, pays what the payment follows; captured means paid | Payments |
| equipment and rentals (`api/trips/equipment-*`, center movements and inspections in `api/organizations`) | EquipmentBarcode with its stock status, EquipmentInspection, EquipmentRental and its items | create, confirm the payment, hand over, take back, move, inspect | every request reads in plain statements and writes in a transaction that looks again at some of it | what was withdrawn is not handed out; a rental's status follows from its pieces | EquipmentRentals |
| finance (`api/finance`) | FinanceAccountantShift, entries, handovers, close submissions, receivables, period submissions | open, record, collect, hand over, accept, submit, review; submit and approve a period | a submitted shift may still be handed over; a collection enters a shift that expects a handover | what was reviewed is what was closed; cash is in one drawer | FinanceShifts, FinancePeriods |
| agent runtime (`api/agents/agent-runtime`, its provider policy) | AiAgentTask, AiAgentTaskAttempt, AiAgentRuntime, the provider gate | enqueue, control, decide, retry, recover; claim, dispatch, finish, heartbeat | a worker dies or stalls around a call that costs money; answers come after the lease | an attempt of unknown outcome is not repeated; receipts agree with tasks; no task runs for ever | AgentRuntime |
| department reports (`api/agents/department-reporting`) | report cycle, Notification with its delivery payload | start, advance, deliver | the mailer dies between asking and recording; several poll | one sender at a time, delivered or handed to its owner's attention | ReportCycles |
| operational clearance (`operational-clearance`, scheduler; boat and trip compliance) | audit events, TripCompliance, boat documents | issue, review, override, revoke, revoke if stale | automatic revocation races a new clearance | a revoked or outdated clearance lets nothing start | not modelled: an input of TripBooking |
| store, inventory, wallet and rewards | stock, orders, balances | order, pay, ship, cancel; move; apply a mutation | repeated orders | stock and balances are conserved | not modelled |
| auth outbox (`api/auth`) | challenge rows | send, mark | sent before it is marked | at least once | not modelled |
| HR, governance, legal, document forms, research market, offices | one status per record | request, review, approve | separation of duties | no step is skipped | not modelled |
| clients, translation, themes, profiles, packages, scripts | - | - | none | - | not modelled |

**How they interact.** Bookings read the price, the captured payments, the safety
decision, the weather verdict and the policy rules; payments read the booking and the
price; ending a trip writes bookings, allocations, calendar events and dive logs;
crew replacement reads training sessions and the calendar and writes allocations;
training reads the calendar; meetings write it. A captured payment may enter one
accountant shift, or pay a receivable into it; a period close counts the shifts. A report
cycle queues a task of the runtime and waits for its state; its mail is a notification row
that other workers poll. Two things tie a page to a command: a
*state token*, a hash over the rows the page showed, and the *updatedAt* of one row.

**Hazards.** The list, each at its line with the properties that would catch it, is
`hazards` in PROJECT.json. The ones without a property say why.

## 2. Modules

| Module | What it is |
|---|---|
| `TripBooking` | one trip and all that is booked on it: the core |
| `SeatLedger` | the abstract specification of its seats: take, confirm, give back, close |
| `TripLedger` | the refinement mapping from TripBooking to SeatLedger |
| `CrewCalendar` | resources, people, meetings, training sessions, crew assignments |
| `Payments` | payment rows, provider invoices, webhook events, calls in flight |
| `FinanceShifts` | accountant shifts: entries, collections, handovers, reviewed closes |
| `CashCustody` | the abstract specification of cash drawers: open, move, count, pass, seal |
| `FinanceCustody` | the refinement mapping from FinanceShifts to CashCustody |
| `FinancePeriods` | the close of a period, composed with the shifts it counts |
| `EquipmentRentals` | stock status of assets, rentals, and the requests that read before they write |
| `AgentRuntime` | tasks, attempts, leases, the provider gate, calls in flight |
| `ReportCycles` | report cycles and the delivery of their mail, composed with the runtime |
| `MCTripBooking`, `MCReservations`, `MCCrewCalendar`, `MCPayments`, `MCMoney`, `MCFinancePeriods`, `MCWorkers` | small instances for TLC: who is who, what is interchangeable, which parts move side by side |
| `TripBooking_proofs` | types, overbooking, one booking per booker, the rules of a confirmation, TripBooking implements SeatLedger |
| `TripCommands_proofs` | the end of a trip, dive logs, commands act on what was shown |
| `CrewCalendar_proofs` | nobody and nothing in two places, answers and replacements, no clash is made |
| `Payments_proofs` | payers pay the claimed invoice, captured means paid, no money is unmatched |
| `FinanceShifts_proofs` | closes and handovers, FinanceShifts implements CashCustody, what the close of a period relies on |
| `EquipmentRentals_proofs` | rentals agree with their pieces, what was withdrawn stays |
| `AgentRuntime_proofs` | no attempt of unknown outcome is repeated, receipts agree, what was given up is not asked |
| `ReportCycles_proofs` | one sender, what has ended stays, the runtime's promises hold under the reports |

### TripBooking

*State.* The Trip row (`tripStatus`, its clock), the Booking rows (`bookingStatus`,
`booker`, `seats`), the rosters (`eligible`: which seats have an ELIGIBLE participant),
the price and the payments (`quoted`, `billed`, `paid`), safety, weather, policy
rules, the calendar (`event`, `allocated`, `offered`), `diveLogs`, the audited request
ids, and the commands in flight.

*Actions.* One per operation. apply() of a booking is a protocol: `ShowBooking` (the
page is read, with its token), `AdmitBookingCmd`, `ReplayBookingCmd` or
`RefuseBookingCmd` (the first transaction), `CommitBookingCmd` or a refusal (the
second), with anything in between; `ResendBookingCmd` is a client that repeats its
request id, `DropBookingCmd` a call that dies. apply() of a trip is the same shape. A
token is a hash, modelled by what it detects: which rows it covers (`BookingToken`,
`TripToken`) and whether one of them was written since (`Wrote`). The ghost field
`seen` of a command keeps the facts the page showed, for the properties only.

*What is abstracted.* Who may ask, and a request id re-used with other data, refuse
without writing. A weather check is its verdict. The configuration of the weather gate
is covered by a new verdict and by the policy actions. The operational clearance, asked
for between the two transactions of a CLOSE or COMPLETE, may refuse any such command,
a copy of a committed one included (`RefuseClearance`); the revocation of a stale
clearance it records is read by nothing else here. A forecast that could not be refreshed
may refuse a confirmation in its second transaction. updateForOwner() reads the booking
and writes the participant in two statements; `UpdateForOwner` is the write, and asks
only for what cannot have changed since. Drafts are created and edited before anybody books: initial states.

### CrewCalendar

*State.* Trips with their times, active allocations, active resources, training
sessions, crew assignments, and the workers looking for a replacement. A reservation's
half-open interval is the set of instants it contains, so the code's
`start < other end and end > other start` is a non-empty intersection.

*Actions.* Draft edits, publishing and ending a trip, `Allocate`, `ScheduleMeeting`,
`CheckIdle` and `Disable` (the two statements of setActive), the training actions,
`Dispatch`, `Accept`; rejection and escalation are `Reject` or `Escalate`,
`FindReplacement` (outside any transaction), and `Replace`, which re-reads what the
code re-reads. `GiveUp` is nobody found, a refused replacement, or a crash.

### Payments

*State.* Payment rows (status, the claimed invoice, whether the provider's payment id
is linked), the provider's invoices and events, the checkouts a payer was shown, the
audit rows per event, the calls in flight with what they read.

*Actions.* create(): `Create`, then either `CreateInvoice` and `Claim` or `LoseClaim`
and `FetchWinner`, or `Fetch` and `Settle`, and always `Link`, which shows the
checkout. refresh(): `Refresh`, `Fetch`, `Link` and `Settle`, which shows it again. The webhook: `Receive`,
then `RecordUnmatched`, or `Fetch`, `Link`, `CheckRepeated`, `SettleEvent`. `Drop` ends
any call anywhere: a crash, a failed provider request, a failed assertion.
The provider is external: `MoveInvoice` lets a payer pay only an invoice whose checkout
was shown and lets an unpaid one expire any time; `Report` makes an event of an
invoice as it is then, delivered by `Receive` any time later, repeatedly or never.

### FinanceShifts, CashCustody, FinancePeriods

*State.* The shift rows, each with the sum and the number of its entries; the handovers;
the latest close submission of each shift; which payment is named by which entry; which
payments are captured; what is outstanding on each receivable. A submission does not
change the status of its shift, which is what makes the order of calls matter.

*Actions.* One per method, each a serializable transaction: `OpenShift`, `RecordEntry`,
`Collect` (the part of collect() that enters the shift and lowers the debt),
`RequestHandover`, `AcceptHandover`, `SubmitClose`, `ReviewClose`; `PaymentChanges` is the
status of a payment moving outside. A reviewer may be an accountant, but never the shift's
own.

*Abstract.* `CashCustody` knows drawers only: live, counting, passed or sealed. Cash moves
while a drawer is live, and leaves it once, as counted, for an empty live one. An open
shift that was submitted is a drawer being counted, and so is one whose handover is pending.

`FinancePeriods` adds one period: its end, the shifts opened before it, its submission and
the two approvals. The column the count compares is an operator of its own
(`CenterOrgUnitId`), since it holds the organization's id (finding 5).

### EquipmentRentals

*State.* The stock status of each asset, the assets whose latest inspection blocks them,
the rentals with the pieces handed over and returned, and each request in flight with what
it has read.

*Actions.* A request begins with its reads (`BeginCreate`, `BeginPay`, `BeginScan`,
`BeginReturn`, `BeginMove`), may look at stock piece by piece (`FindAvailable`) and at the
inspections (`FindFit`), each a statement of its own, and ends with its write (`Create`,
`Pay`, `Scan`, `Return`, `Move`), which re-reads only what the code re-reads: a scan and a
return the asset under a row lock, a movement that its status is the one read before, a
creation and a payment nothing. `GiveUp` is a refusal or a crash. A center's movement and
inspection are one transaction each.

*Abstracted.* Prices, due dates, extension and overdue notices, locations and TRANSFER.

### AgentRuntime and ReportCycles

*State.* The task rows (state, attempts, whether there is a result, attempts of unknown
cost), an attempt row per claim with whether it was dispatched, the agents that are
enabled, the provider gate, the clocks as sets (`lapsed` leases, `overdue` recovery
windows), and the calls in flight. The claim id is the number of the attempt.

*Actions.* Every method is one transaction under an advisory lock. `Claim`, `Dispatch`,
`Answer` (the call to the provider, outside of any transaction) and the four ways of
finish() are separate steps of a worker that may `Crash` between any two; finish() is
retried after an ambiguous commit (`Persisted`: the call may stay where it was). `Heartbeat`
ends a task whose lease expired. The gate closes for a while or until an administrator
looks; `DenyTask` and `GiveUpRecovery` are what a claim does when it may not go on.

A cycle queues its task, waits for it, and ends or writes a notification. Delivery is
`FindDue` (a read without a lock), a claim that sends, stops or leaves, `Send`, and
`RecordMail`, which counts only if the attempt is still its own. `StopDelivery` is shared by
a claim that finds an earlier one unrecorded and by a denial. The mail provider keeps one
mail per notification and may have accepted one that it reports as failed.

*Abstracted.* The order and the length of the queue, the daily budget and pacing only delay
or refuse. What a governance review is asked, attempts older than the attempt table, and
texts are data.

## 3. Runs

| Run | Instance | Shows |
|---|---|---|
| `reservations` | three instances side by side: 2 booking rows of up to 2 seats, capacity 3, an account and an organization, one command at a time; 2 bookings of a seat, a boat, two commands of each kind that may share a request id; 2 assets, 2 rentals, 2 requests | never overbooked, one live booking per booker, every step is a step of the ledger; ended trips hold nothing, are final, log only confirmed participants, end with what was shown; what was withdrawn stays, a rental's status follows from its pieces |
| `booking_review` | 2 rows of one seat for one place, one command and its copy; safety, weather, payment, eligibility and the capacity rule move | a confirmation acts on what was shown and meets every enforced rule |
| `crew_calendar` | 2 trips, a meeting, 2 sessions, 2 people of whom one has two roles, 3 assignments, 2 workers, the rule on and off | nobody on two trips, resources exclusive, no new clash; stale replacements change nothing they may not |
| `money_custody` | 1 key, 2 invoices, 2 events, 2 calls; beside it 2 accountants who review each other, 3 shifts of one entry, 2 handovers, 1 payment, 1 receivable | a payer pays the claimed invoice, captured was paid, money is matched; closes as reviewed, cash in one drawer, every step is a step of CashCustody |
| `workers` | 1 agent, 3 tasks of 2 attempts, 2 workers; a cycle with 2 attempts of its mail, 2 mailers | no attempt of unknown outcome is repeated, receipts agree, one sender; tasks and reports end |
| `price_change` | 1 booking, 2 prices | **violation**: the price changes after a payment exists |
| `resource_disable` | 1 trip, 2 resources | **violation**: a resource with an allocation is disabled |
| `payment_stale` | 1 key, 2 invoices, 2 events, 2 calls | **violation**: a captured payment goes back to PENDING |
| `finance_recipient` | the shifts of `money_custody` | **violation**: a collection enters a shift that is offered a handover |
| `finance_period` | shifts and one period | **violation**: a period is closed over an open shift |
| `rental_payment` | the equipment of `reservations` | **violation**: a payment is confirmed for an asset that is out |
| `rejected_resume` | a cycle with its task of 2 attempts, 1 worker | **violation**: a completed call is made again |

**Parts side by side.** Some runs hold two parts that share no state: then a behaviour
moves one and the other rests (`moves` in `MCReservations` and `MCMoney`; payments and
shifts meet only in "captured", which `PaymentChanges` moves freely). Multiplying them
would square the number of states and show nothing more. Some share model values (a row of
the one and of the other, a request id and a request), so that one permutation is a symmetry
of both. Other runs cut one part into concerns that would be too large together, and check
each: the trip of `reservations` moves either the seats, with one command in flight and nothing
on the calendar (`SeatsStep`), or the lifecycle (`LifecycleStep`): bookings of one seat, of which
there is either one personal booking without allocations and a copy of a command in flight, with
no command of the other kind, or two, or one, personal or of an organization, with allocations.
In both the price stays free and a refusal reaches its client before the next step; in the
lifecycle no crew is offered the trip, which nothing here reads. `booking_review` has the same
cut of refusals (`Reviewed`), sets a price only around one booking and creates one payment at a
time; a copy races its command over one personal booking whose payments are settled, with the
price and the capacity rule at rest, while safety, weather and the roster move. `crew_calendar` either the calendar with two
sessions, or with one and a meeting, or crews offered a trip and replaced; `workers` either a cycle with its task,
or tasks that compete; the equipment of `reservations` either one asset that rentals and the
warehouse compete for, or one rental with all its pieces. The theorems of section 4 hold
without these cuts, and cover every invariant and every action property of these runs; across a
cut only `RunningEnds` and `ReportEnds` are neither checked nor proved.

**Why the bounds are enough.** Every hazard listed needs two actors on one row: two
rows that compete for seats, or two commands, workers or calls of which one is stale.
Capacity 3 with two rows of up to two seats is the least with a row that fits, a pair
that fits and a pair that does not. One person with two roles, two trips and two
sessions is the least in which a person is reserved through two tables and two
resources. Three assignments let a replacement be replaced. One payment key is enough
since rows never share an invoice; two invoices and two calls are a lost claim; two
events an early and a late one. Three shifts and two handovers are a drawer passed on
twice, or offered to two; one entry makes a shift not empty and its balance negative. Two
assets are a rental handed over in part. Two attempts are a retry that is the last one; two
workers, one whose lease was given up and one that goes on; the third task lets one run,
one wait and one be decided. Counters are capped by the constants `MaxEntries`,
`MaxAttempts` and `MaxSends` (the last two are limits of the code, 4 and 5; entries have none
there). `billed` and `paid` are sets of amounts in `Prices`. What a run fixes (for
instance safety in `reservations`) another one varies. Symmetry is used over identities the
specification never compares otherwise, and not in `workers`, which checks liveness.
CHECK_DEADLOCK is FALSE because a trip that ended, an event list or shifts that are used
up, or tasks that are all over really are the end.

**Fairness.** Stated in `AgentFairness` and `ReportFairness`, for the run `workers` only:
time passes (`LeaseExpires`: a lease of 90 s; `BecomesDue`: 120 s after a claim), and the
workers poll for ever (`Heartbeat` every 5 s, and `FinishReport` and the steps of a delivery
every 15 s, by every instance of the API, from timers started when the module starts and
with their errors caught). It is weak fairness of the poll, not of one worker: each may
die, and none is promised to claim a task, to get an answer, to finish, or to record a mail.
So `RunningEnds` rests on the lease alone, and `ReportEnds` on a later poll that finds an
unrecorded attempt. That a queued task is ever claimed is not claimed by the code: its
agent may be paused, the gate closed, the budget spent. Every other property is a safety
or an action property and assumes no fairness.

## 4. Proofs

Every invariant and every action property a passing run checks is a theorem, and so are the
two refinements; only the liveness properties are left to TLC.

In `TripBooking_proofs` and `TripCommands_proofs`, for any sets of bookings, accounts,
organizations, commands and requests, any capacity and any policy instance that meet
the ASSUMEs (the sets of bookings are finite; accounts and organizations are disjoint;
the rest says what type a constant has). The argument, in order:

1. `TypeOK` is inductive; the lemmas about one command in flight are reused by all.
2. *Seats.* Overbooking alone is inductive with `CapacityGoverned` since booking checks
   the seats of all live rows. One live booking per booker is not: a row may be
   re-used. `OneEach` adds that an account has a single row (`OneRowPerAccount`), so
   re-booking cannot meet another row of the same account.
3. *End.* Finality needs that only the trip's own commands leave an open status, and
   `OnlyCompletionAttends` (a command carries an attendance only if it completes), so
   that a dive log is written only by a completion and only for rows confirmed then.
4. *Tokens.* What a command acts on is what was shown because `FreshIsCurrent`: while no
   row its token covers was written since, the facts it saw are the current ones. The
   invariant must hold of every command in flight, shown, sent or checked, and each
   action either leaves those facts alone or ages the command.
5. *Refinement.* Needs `LiveSeated` (a live booking holds at least one seat, so
   `Confirm` and `GiveBack` are enabled) and the seat invariants. It assumes the
   capacity rule is always enforced: relaxed, the ledger's bound is not promised.

In `CrewCalendar_proofs`, for any people, roles, meetings, sessions, assignments, workers and
times (assuming only that NONE is none of the identities it stands beside, and that trips are
not meetings):

6. *Reservations.* `Reserved` is inductive: nobody on two trips, no resource twice, allocations
   at the time of their trip, and an ended trip holds nothing (`EndedIsReleased`, which no run
   checks). `ReservedMore` is the one lemma for all three writers, allocation, meeting and
   replacement: more is reserved only where `ResourceBusy` and, for a trip, `CalendarBusy` found
   nothing in that same transaction, so it does not matter how old a worker's choice is.
7. *Answers.* `ReplacedOnce` is not inductive: two workers could look for one refusal.
   `Answered` adds that only the call that wrote a refusal looks for its successor, and none
   is there while it looks (`OneReplacer`), and that a free row is blank. An escalation needs
   no such clause, since its transaction asks again for a pending assignment. The finality of
   answers and of ended trips then follows from what one step does to one assignment
   (`AssignmentSteps`).
8. *Clashes.* `NoNewClash` is about two states: either no session becomes live or moves and the
   new reservations are of nobody who trains then (`NoSessionMade`), or sessions are written
   that clash with nothing (`SessionsBooked`). A transfer writes several sessions at once and
   must not make two of them clash with each other.

In `Payments_proofs`, likewise for any keys, invoices, events and calls (assuming only
that NONE is none of them):

9. `Grows`: no step takes back a claim, the key of an invoice, money paid or refunded,
   or what an event said. `ClaimIsFinal` is part of it.
10. The inductive invariant `IInv` has four parts. `CallsKnow` says what a call may rely
   on at each stage after the rows it read have moved on: an unclaimed invoice is its
   own, a claimed one is its payment's, a fetched "paid" was paid, an event without a
   payment reported no money. Each clause is kept by `Grows` (`KnowsStays`), so only the
   call that moves needs a look. `InvoicesKnown` says that a checkout is shown of a
   claimed invoice only and that only a shown one is paid; `SettledKnown` that what a
   row or an audit row says is backed by the provider. None of the three is inductive
   without the others: a status is written from what a call fetched, a call is stray
   because the invoice was not claimed, so not shown, so not paid.
11. `CapturedIsKept` is not proved since it does not hold (finding 3).

In `FinanceShifts_proofs`, for any accountants, shifts, payments and amounts:

12. *Shifts.* `ClosedAsReviewed` needs `SubmittedStands` (the cash of a submitted shift is
   what was submitted, whatever else is called), which holds because entries, collections and
   the receipt of a handover all ask for a submission, and the handover of a submitted shift
   does not change its own cash. `HandedOverOnce` needs `Addressed` and `OfferedOnce`: a drawer
   with a pending handover waits as counted and is offered once at a time.
13. *Refinement.* With the same invariant every action is a step of `CashCustody` or a
   stutter; the reviewed close of a shift handed over meanwhile is a stutter, since only an
   open shift can be approved.
14. *Ends and periods.* `ShiftRowSteps` says what one step does to one row. From it, a shift that
   ended is not written again (`EndedShifts`), an accountant has one active drawer
   (`OneDrawerEach`), and, since every step of `PeriodSpec` leaves the shifts alone or is theirs,
   what submit() of a period counted as closed stays closed until the last approval, which does
   not count again (`CountedStaysClosed`). Which shifts are counted is finding 5, and
   `ClosedPeriodIsSettled` is not proved since it does not hold.

In `EquipmentRentals_proofs`, for any assets, rentals and requests in flight:

15. The invariant `EquipmentIInv` says of each rental that its status fits its pieces
   (`RowFits`), and of each request what it has read that still holds however late it writes
   (`Recalls`): a paid rental stays paid and an active one becomes only returned, so a stale
   scan or return still meets a row it fits. `WithdrawnStays` then follows from the status a
   transaction reads again.

In `AgentRuntime_proofs`, for any agents, tasks, workers and limit of attempts:

16. `AgentIInv` relates each task's row to all of its attempts (`RowOK`): none beyond the
   last, the earlier ones refused or failed, the last as the row says, and the unknown costs
   the number of dispatched attempts without a result. `HolderOK` and `Alone` say that a call in
   flight holds an attempt of its own, dispatched or not as its stage says: a late result finds
   its attempt, and the attempt whose cost it settles was counted. The counting uses the
   library's facts on cardinality.

In `ReportCycles_proofs`, for any cycles, mailers and limit of sends, beside any tasks:

17. *Delivery.* `OneSender` needs `ReportIInv`: a notification and its cycle move together
   (`DeliveryOK`), and a mailer that holds an attempt holds the last one, which is still under
   way or was given up for good (`MailerOK`, `HoldsAlone`). So a record that comes late finds
   its own attempt or nothing to write, and a report counts as sent only if the provider has
   it. `EndedReportsStay` is the consequence: what its owner was told is not taken back.
18. *Composition.* Every step of the reports is a step of the runtime or leaves it alone
   (`ReportsUseRuntime`), so `AgentIInv` and what follows from it hold of `ReportSpec`, the
   specification the run `workers` checks, and not of the runtime alone.

**Only model-checked:** the liveness properties `RunningEnds` and `ReportEnds`: they rest on
weak fairness, whose ENABLED the prover cannot take apart.
Out of the prover's reach, and not used as theorems anywhere: liveness, ENABLED, and
induction over data. No module declares a RECURSIVE operator; sums of seats are
cardinalities of sets of places, and a shift keeps the sum of its entries.

## 5. Findings

1. `price_change`: setPrice() counts payments and writes in two statements.
2. `resource_disable`: setActive() looks for allocations and writes in two statements.
3. `payment_stale`: the webhook writes a status it fetched before its transaction over
   a newer one.
4. `finance_recipient`: collect() does not ask for a pending handover to the shift it
   enters, which the handover then never survives.
5. `finance_period`: open shifts are counted by an id their column does not hold.
6. `rental_payment`: a rental's payment is confirmed on a stock status read before.
7. `rejected_resume`: a rejected second pass is resumed as a rejected task, and the completed
   first call is made again.

The first three and the sixth are interleavings of two requests, the others sequences of
legal calls; PROJECT.json quotes what the code, the docs or the tests say. Their effects:
the first blocks a confirmation until the amounts agree, the second leaves a person busy but
not offered, the third lasts until the next refresh, the fourth leaves a shift in
HANDOVER_PENDING for good, the fifth lets a period close early, the sixth promises a renter
equipment that is gone (the handover scan then refuses), the seventh pays for one draft twice.
The passing run `workers` therefore claims less, `UnknownIsNotRepeated`: an attempt that was
interrupted or has its answer is not followed by another, a failed one may be.

Noted while modelling, without a run, since no line of the code or docs speaks of it or the
model does not reach it:

- A copy of CLOSE or COMPLETE that passed its first check before the other copy committed may
  be refused though its request took effect: the clearance is asked for before the second check
  looks for the audit row (`api/trips/trip-lifecycle.service.ts:119-127`; `RefuseClearance`). The
  tests (`apps/api/scripts/center-trip-lifecycle-http-checks.mjs`) repeat a request only after it
  was answered.
- A second scan of one piece, evaluated before the first committed, writes after it: a
  handover scan may set a RETURNED rental back to ACTIVE if the asset came back in between,
  and a return scan may free an asset that is out with the next renter.
- Two rentals that name one asset can both be paid for; only one can be handed over. No code
  cancels a rental.
- A handover to a shift that is then submitted and approved for close can never be accepted;
  its source stays in HANDOVER_PENDING.
- RELEASE of an asset asks for no inspection; a platform inspection that fails does not
  quarantine the asset, as a center's does (the handover still evaluates it).
- The guard of claim() against too many attempts is never needed: a queued task has attempts
  left (`ReceiptsAgree`).

## 6. What could come next

1. `OperationalClearance`, in place of the input TripBooking takes now.
2. `TripPayments`: TripBooking's payment actions replaced by Payments, with amounts, to show
   that what a confirmation counts as captured was paid for that booking.
3. The auth outbox and the leases of the schedulers, next to ReportCycles; the store's stock;
   the ledger of wallet and rewards.
4. Abstract specifications of the calendar (who is reserved when) and of the delivery of a report
   (asked, delivered, given up) with their refinements.

## 7. Not modelled, and why

Everything marked `not_modelled` in PROJECT.json, with its reason there: most of the source
is catalogues of forms, clients, listings, vendored packages, and office workflows of one
record whose every step is a guarded update in one transaction, of which a model would only
repeat the guards. Of the modelled parts:

- authority and scope checks (they refuse before they read what matters here), listings,
  wording, notifications (written and never read back by a protocol, but for the report's),
  the thresholds of the weather gate;
- amounts of single payments in Payments;
- in finance, installments of a receivable, several currencies, changes of who works where,
  and of the blockers of a period all but the open shifts;
- in rentals, prices, due dates and their extension, locations, registration and the
  stocktake;
- in the runtime, the order and limit of the queue, the budget, the chain of governance
  reviews, attempts from before the attempt table; the idempotency of the mail provider is
  assumed as the code uses it.

## Running

    tlc -config reservations.cfg MCReservations
    tlc -config workers.cfg MCWorkers
    tlapm TripBooking_proofs.tla
    tlapm CrewCalendar_proofs.tla
    tlapm ReportCycles_proofs.tla
