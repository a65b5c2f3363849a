---------------------------- MODULE ReportCycles ----------------------------
(***************************************************************************)
(* Department reports on top of the agent runtime: a cycle waits for the   *)
(* reviews of its departments, has one task of the runtime written into a  *)
(* report (department-reporting.service), and mails it to its owner        *)
(* (department-reporting.worker).                                          *)
(*                                                                         *)
(* Each transaction is one action; a delivery is found, claimed, sent and  *)
(* recorded in four steps, by workers that may die once they claimed it.   *)
(* The reviews, the owner's authority and the text are data that may stop  *)
(* a cycle at any time.  The mail provider keeps one mail per notification *)
(* (its idempotency key), and may accept one that it reports as failed.    *)
(***************************************************************************)
EXTENDS AgentRuntime

CONSTANTS
    Cycles,         \* the report cycles
    TaskOf,         \* the executive task of a cycle: its request key is derived from the cycle
    MaxSends,       \* attempts of one delivery, 5
    Mailers         \* deliverNext() calls in flight

ASSUME CycleAssumption == /\ TaskOf \in [Cycles -> Tasks] /\ NOTASK \notin Cycles
                          /\ \A c, d \in Cycles : TaskOf[c] = TaskOf[d] => c = d
ASSUME SendAssumption == MaxSends \in Nat \ {0}

VARIABLES
    cycle,      \* the ReportCycle documents: their state, and whether they are mailed
    note,       \* the notification of each cycle, with its delivery payload
    mailer,     \* the deliveries in flight
    mailed      \* the cycles whose mail the provider accepted

reports == <<cycle, note, mailer, mailed>>
reportVars == <<agentVars, reports>>

Ended == {"COMPLETE", "ATTENTION_REQUIRED"}
Dispositions == {"ACCEPTED", "RETRYABLE", "PERMANENT", "UNCERTAIN"}
CycleRecords == [state : {"NONE", "REVIEWING", "FORMATTING", "EMAIL_PENDING"} \cup Ended,
                 sendEmail : BOOLEAN]
NoteRecords == [status : {"NONE", "PENDING", "SENT", "FAILED"},
                delivery : {"PENDING", "ATTEMPTING", "DEFERRED", "ENDED"},
                attempts : 0..MaxSends, due : BOOLEAN]
MailerRecords == [stage : {"idle", "found", "denied", "claimed", "sent"},
                  cycle : Cycles \cup {NOTASK}, attempt : 0..MaxSends,
                  outcome : Dispositions \cup {"NONE"}]

NoMail == [stage |-> "idle", cycle |-> NOTASK, attempt |-> 0, outcome |-> "NONE"]
Leaves(m) == mailer' = [mailer EXCEPT ![m] = NoMail]

ReportInit ==
    /\ AgentInit
    /\ cycle = [c \in Cycles |-> [state |-> "NONE", sendEmail |-> FALSE]]
    /\ note = [c \in Cycles |-> [status |-> "NONE", delivery |-> "PENDING", attempts |-> 0, due |-> FALSE]]
    /\ mailer = [m \in Mailers |-> NoMail]
    /\ mailed = {}

-----------------------------------------------------------------------------
\* The cycle.

\* start(): the departments' directors and the governance office get to work.
StartCycle(c, sendEmail) ==
    /\ cycle[c].state = "NONE"
    /\ cycle' = [cycle EXCEPT ![c] = [state |-> "REVIEWING", sendEmail |-> sendEmail]]
    /\ UNCHANGED <<agentVars, note, mailer, mailed>>

\* advance(), when every review is there: the executive agent gets its task.
QueueReport(c) ==
    /\ cycle[c].state = "REVIEWING"
    /\ Enqueue(TaskOf[c])
    /\ cycle' = [cycle EXCEPT ![c].state = "FORMATTING"]
    /\ UNCHANGED <<note, mailer, mailed>>

\* Mutant of FinishReport: a task that was acknowledged or cancelled is waited for.
FinishReportOfWorker(c) ==
    LET state == task[TaskOf[c]].state IN
    /\ cycle[c].state = "FORMATTING"
    /\ state \in {"COMPLETED", "FAILED", "INTERRUPTED"}
    /\ cycle' = [cycle EXCEPT ![c].state = CASE state # "COMPLETED" -> "ATTENTION_REQUIRED"
                                             [] cycle[c].sendEmail -> "EMAIL_PENDING"
                                             [] OTHER -> "COMPLETE"]
    /\ note' = IF cycle'[c].state # "EMAIL_PENDING" THEN note
               ELSE [note EXCEPT ![c] = [@ EXCEPT !.status = "PENDING", !.due = TRUE]]
    /\ UNCHANGED <<agentVars, mailer, mailed>>

\* advance(), when its task has ended: the report is ready to be mailed, or needs attention.
FinishReport(c) ==
    LET state == task[TaskOf[c]].state IN
    /\ cycle[c].state = "FORMATTING"
    /\ state \in {"COMPLETED", "FAILED", "INTERRUPTED", "CANCELLED", "REVIEWED"}
    /\ cycle' = [cycle EXCEPT ![c].state = CASE state # "COMPLETED" -> "ATTENTION_REQUIRED"
                                             [] cycle[c].sendEmail -> "EMAIL_PENDING"
                                             [] OTHER -> "COMPLETE"]
    /\ note' = IF cycle'[c].state # "EMAIL_PENDING" THEN note
               ELSE [note EXCEPT ![c] = [@ EXCEPT !.status = "PENDING", !.due = TRUE]]
    /\ UNCHANGED <<agentVars, mailer, mailed>>

\* advance(), when the owner's authority or the evidence has changed.
StopCycle(c) ==
    /\ cycle[c].state \in {"REVIEWING", "FORMATTING"}
    /\ cycle' = [cycle EXCEPT ![c].state = "ATTENTION_REQUIRED"]
    /\ UNCHANGED <<agentVars, note, mailer, mailed>>

-----------------------------------------------------------------------------
\* The delivery.

\* deliverNext() reads what is due, before it takes any lock.
FindDue(m, c) ==
    /\ mailer[m].stage = "idle"
    /\ note[c].status = "PENDING" /\ note[c].due
    /\ mailer' = [mailer EXCEPT ![m] = [NoMail EXCEPT !.stage = "found", !.cycle = c]]
    /\ UNCHANGED <<agentVars, cycle, note, mailed>>

\* stopDelivery(): nobody tries again, and the cycle asks for attention.
StopDelivery(c) ==
    /\ note' = [note EXCEPT ![c] = [@ EXCEPT !.status = "FAILED", !.delivery = "ENDED"]]
    /\ cycle' = [cycle EXCEPT ![c].state = IF @ = "EMAIL_PENDING" THEN "ATTENTION_REQUIRED" ELSE @]

StillDue(c) == note[c].status = "PENDING" /\ note[c].due

\* The claim, under the lock of the notification: what is not due any more is left alone,
ClaimNothing(m) ==
    /\ mailer[m].stage = "found"
    /\ ~StillDue(mailer[m].cycle)
    /\ Leaves(m)
    /\ UNCHANGED <<agentVars, cycle, note, mailed>>

\* ... an attempt that somebody left unfinished is not tried again, nor one of many, or too old,
ClaimStops(m) ==
    /\ mailer[m].stage = "found"
    /\ StillDue(mailer[m].cycle)
    /\ StopDelivery(mailer[m].cycle)
    /\ Leaves(m)
    /\ UNCHANGED <<agentVars, mailed>>

\* ... the owner or the report may have changed, which rolls the claim back,
ClaimDenied(m) ==
    /\ mailer[m].stage = "found"
    /\ StillDue(mailer[m].cycle) /\ note[mailer[m].cycle].delivery # "ATTEMPTING"
    /\ mailer' = [mailer EXCEPT ![m].stage = "denied"]
    /\ UNCHANGED <<agentVars, cycle, note, mailed>>

\* Mutant of ClaimMail: an attempt that was left unfinished is tried again.
ClaimMailAgain(m) ==
    LET c == mailer[m].cycle  n == note[c].attempts + 1 IN
    /\ mailer[m].stage = "found"
    /\ StillDue(c)
    /\ n <= MaxSends
    /\ note' = [note EXCEPT ![c] = [@ EXCEPT !.delivery = "ATTEMPTING", !.attempts = n, !.due = FALSE]]
    /\ mailer' = [mailer EXCEPT ![m] = [@ EXCEPT !.stage = "claimed", !.attempt = n]]
    /\ UNCHANGED <<agentVars, cycle, mailed>>

\* ... and otherwise the attempt begins.
ClaimMail(m) ==
    LET c == mailer[m].cycle  n == note[c].attempts + 1 IN
    /\ mailer[m].stage = "found"
    /\ StillDue(c) /\ note[c].delivery # "ATTEMPTING"
    /\ n <= MaxSends
    /\ note' = [note EXCEPT ![c] = [@ EXCEPT !.delivery = "ATTEMPTING", !.attempts = n, !.due = FALSE]]
    /\ mailer' = [mailer EXCEPT ![m] = [@ EXCEPT !.stage = "claimed", !.attempt = n]]
    /\ UNCHANGED <<agentVars, cycle, mailed>>

\* The transaction after a denied claim never interferes with an attempt that began meanwhile.
StopDenied(m) ==
    LET c == mailer[m].cycle IN
    /\ mailer[m].stage = "denied"
    /\ IF note[c].status = "PENDING" /\ note[c].delivery # "ATTEMPTING"
       THEN StopDelivery(c)
       ELSE UNCHANGED <<cycle, note>>
    /\ Leaves(m)
    /\ UNCHANGED <<agentVars, mailed>>

\* The request to the mail provider.
Send(m, outcome) ==
    /\ mailer[m].stage = "claimed"
    /\ mailer' = [mailer EXCEPT ![m] = [@ EXCEPT !.stage = "sent", !.outcome = outcome]]
    /\ \/ outcome = "ACCEPTED" /\ mailed' = mailed \cup {mailer[m].cycle}
       \/ outcome = "PERMANENT" /\ UNCHANGED mailed
       \/ outcome \in {"RETRYABLE", "UNCERTAIN"} /\ mailed' \in {mailed, mailed \cup {mailer[m].cycle}}
    /\ UNCHANGED <<agentVars, cycle, note>>

\* What became of the attempt is recorded, unless somebody gave it up meanwhile.
OwnAttempt(m) ==
    LET n == note[mailer[m].cycle] IN
    n.status = "PENDING" /\ n.delivery = "ATTEMPTING" /\ n.attempts = mailer[m].attempt

\* Mutant of Retries: one attempt too many is deferred.
RetriesOnceMore(m) == mailer[m].outcome = "RETRYABLE" /\ mailer[m].attempt <= MaxSends

\* A refusal that may pass is tried again later, unless it was the last attempt.
Retries(m) == mailer[m].outcome = "RETRYABLE" /\ mailer[m].attempt < MaxSends

\* The claiming transaction's counterpart: the notification and its cycle, together.
RecordMail(m) ==
    LET c == mailer[m].cycle  o == mailer[m].outcome  retry == Retries(m) IN
    /\ mailer[m].stage = "sent"
    /\ IF OwnAttempt(m)
       THEN /\ note' = [note EXCEPT ![c] = [@ EXCEPT
                 !.status = IF o = "ACCEPTED" THEN "SENT" ELSE IF retry THEN "PENDING" ELSE "FAILED",
                 !.delivery = IF retry THEN "DEFERRED" ELSE "ENDED", !.due = FALSE]]
            /\ cycle' = [cycle EXCEPT ![c].state =
                 IF o = "ACCEPTED" THEN "COMPLETE" ELSE IF retry THEN @ ELSE "ATTENTION_REQUIRED"]
       ELSE UNCHANGED <<note, cycle>>
    /\ Leaves(m)
    /\ UNCHANGED <<agentVars, mailed>>

\* The process dies with a claim in its hands.
MailerDies(m) ==
    /\ mailer[m].stage \in {"claimed", "sent"}
    /\ Leaves(m)
    /\ UNCHANGED <<agentVars, cycle, note, mailed>>

\* nextAttemptAt passes: 120 s after a claim, longer after a refusal.
BecomesDue(c) ==
    /\ note[c].status = "PENDING" /\ ~note[c].due
    /\ note' = [note EXCEPT ![c].due = TRUE]
    /\ UNCHANGED <<agentVars, cycle, mailer, mailed>>

Deliver(m) ==
    \/ \E c \in Cycles : FindDue(m, c)
    \/ ClaimNothing(m) \/ ClaimStops(m) \/ ClaimDenied(m) \/ ClaimMail(m) \/ StopDenied(m)
    \/ \E o \in Dispositions : Send(m, o)
    \/ RecordMail(m)

ReportStep ==
    \/ \E c \in Cycles :
          \/ \E mail \in BOOLEAN : StartCycle(c, mail)
          \/ QueueReport(c) \/ FinishReport(c) \/ StopCycle(c) \/ BecomesDue(c)
    \/ \E m \in Mailers : Deliver(m) \/ MailerDies(m)

\* The runtime's own steps: the task of a cycle is queued by the cycle only.
RuntimeStep ==
    /\ AgentNext
    /\ \A c \in Cycles : task[TaskOf[c]].state = "NONE" => task'[TaskOf[c]].state = "NONE"
    /\ UNCHANGED reports

ReportNext == ReportStep \/ RuntimeStep

\* Time passes, and the workers of some instance poll every 15 s.
ReportFairness ==
    /\ WF_reportVars(\E t \in Tasks : LeaseExpires(t) /\ UNCHANGED reports)
    /\ WF_reportVars(\E t \in Tasks : Heartbeat(t) /\ UNCHANGED reports)
    /\ \A c \in Cycles : WF_reportVars(FinishReport(c)) /\ WF_reportVars(BecomesDue(c))
    /\ WF_reportVars(\E m \in Mailers : Deliver(m))

ReportSpec == ReportInit /\ [][ReportNext]_reportVars /\ ReportFairness

-----------------------------------------------------------------------------
\* What the reports promise.

\* Every row keeps its type, and a delivery is deferred only with attempts left.
ReportTypeOK ==
    /\ cycle \in [Cycles -> CycleRecords]
    /\ note \in [Cycles -> NoteRecords]
    /\ \A c \in Cycles : note[c].delivery = "DEFERRED" => note[c].attempts < MaxSends
    /\ mailer \in [Mailers -> MailerRecords]
    /\ mailed \subseteq Cycles

\* Nobody asks for a mail that somebody else may be asking for, and a report counts as delivered
\* only when the provider has it; one that was stopped stays so, whatever is recorded later.
OneSender ==
    /\ \A c \in Cycles : Cardinality({m \in Mailers : /\ mailer[m].stage \in {"claimed", "sent"}
                                                      /\ mailer[m].cycle = c}) <= 1
    /\ \A c \in Cycles :
          /\ note[c].status = "SENT" => cycle[c].state = "COMPLETE" /\ c \in mailed
          /\ note[c].status = "FAILED" => cycle[c].state = "ATTENTION_REQUIRED"
          /\ note[c].status = "PENDING" => cycle[c].state = "EMAIL_PENDING"

\* A report whose text was written, or never will be, is delivered or handed to its owner's
\* attention, whatever happens to the workers that mail it.  A task that failed is not over: an
\* administrator may retry or acknowledge it.
ReportEnds ==
    \A c \in Cycles :
       cycle[c].state = "FORMATTING" /\ task[TaskOf[c]].state \in {"COMPLETED", "CANCELLED", "REVIEWED"}
          ~> cycle[c].state \in Ended

=============================================================================
