---------------------------- MODULE AgentRuntime ----------------------------
(***************************************************************************)
(* The runtime that executes the tasks of AI agents one at a time          *)
(* (agent-runtime.service, agent-runtime.worker): a worker claims a queued *)
(* task, records that it is about to ask the provider, asks, and records   *)
(* the answer.                                                             *)
(*                                                                         *)
(* Every method is one transaction under one advisory lock, so one action. *)
(* The call to the provider is outside of them: a worker may die around    *)
(* it, and may answer after its lease was given up.  The claim id of an    *)
(* attempt is its number.  The daily budget, the order of the queue and    *)
(* how full it is only refuse or delay a claim, which a step may always    *)
(* do; what the next step of a governance review is given is data.         *)
(***************************************************************************)
EXTENDS Naturals, FiniteSets

CONSTANTS
    Agents,         \* the AiAgentRuntime rows
    Tasks,          \* identities of the AiAgentTask rows
    AgentOf,        \* the agent of each task
    MaxAttempts,    \* MAX_PROVIDER_ATTEMPTS
    Runners,        \* runClaim() calls in flight
    NOTASK

ASSUME AgentAssumption == AgentOf \in [Tasks -> Agents] /\ NOTASK \notin Tasks
ASSUME AttemptAssumption == MaxAttempts \in Nat \ {0}

VARIABLES
    task,       \* the AiAgentTask rows
    attempt,    \* the AiAgentTaskAttempt rows, by task and number
    lapsed,     \* the running tasks whose leaseExpiresAt has passed
    overdue,    \* the queued tasks tried first longer than the recovery window ago
    enabled,    \* the agents that are ENABLED, not PAUSED
    gate,       \* the provider gate
    runner      \* the calls in flight

clocks == <<lapsed, overdue>>
agentVars == <<task, attempt, lapsed, overdue, enabled, gate, runner>>

Outcomes == {"RESULT", "REJECTED", "LIMITED", "UNCERTAIN", "FAILED"}
TaskRecords ==
    [state : {"NONE", "QUEUED", "RUNNING", "COMPLETED", "FAILED", "INTERRUPTED", "CANCELLED", "REVIEWED"},
     limited : BOOLEAN, attempts : 0..MaxAttempts, result : BOOLEAN, unknown : 0..MaxAttempts]
AttemptRecords ==
    [state : {"NONE", "RUNNING", "INTERRUPTED", "COMPLETED", "LATE_RESULT", "REJECTED", "FAILED"},
     dispatched : BOOLEAN]
GateRecords == [status : {"CLEAR", "WAITING", "ACTION_REQUIRED"}, task : Tasks \cup {NOTASK}]
RunnerRecords == [stage : {"idle", "claimed", "asked", "answered"}, task : Tasks \cup {NOTASK},
                  number : 0..MaxAttempts, outcome : Outcomes \cup {"NONE"}]

NoCall == [stage |-> "idle", task |-> NOTASK, number |-> 0, outcome |-> "NONE"]
Waiting == [status |-> "WAITING", task |-> NOTASK]
ActionRequired(t) == [status |-> "ACTION_REQUIRED", task |-> t]

Running(t) == task[t].state = "RUNNING"
Returns(r) == runner' = [runner EXCEPT ![r] = NoCall]
Pauses(t) == enabled' = enabled \ {AgentOf[t]}

AgentInit ==
    /\ task = [t \in Tasks |-> [state |-> "NONE", limited |-> FALSE, attempts |-> 0,
                                result |-> FALSE, unknown |-> 0]]
    /\ attempt = [t \in Tasks |-> [n \in 1..MaxAttempts |-> [state |-> "NONE", dispatched |-> FALSE]]]
    /\ lapsed = {} /\ overdue = {}
    /\ enabled = {}
    /\ gate = [status |-> "CLEAR", task |-> NOTASK]
    /\ runner = [r \in Runners |-> NoCall]

-----------------------------------------------------------------------------
\* What administrators do.

\* enqueue(): a request key that was used before returns its task.
Enqueue(t) ==
    /\ task[t].state = "NONE"
    /\ task' = [task EXCEPT ![t].state = "QUEUED"]
    /\ UNCHANGED <<attempt, clocks, enabled, gate, runner>>

\* control(): an agent is enabled or paused; what runs goes on.
Control(a) ==
    /\ enabled' = IF a \in enabled THEN enabled \ {a} ELSE enabled \cup {a}
    /\ UNCHANGED <<task, attempt, clocks, gate, runner>>

\* decideTask(): a queued task is cancelled, a failed or interrupted one acknowledged.
DecideTask(t) ==
    /\ task[t].state \in {"QUEUED", "FAILED", "INTERRUPTED"}
    /\ task' = [task EXCEPT ![t].state = IF @ = "QUEUED" THEN "CANCELLED" ELSE "REVIEWED"]
    /\ UNCHANGED <<attempt, clocks, enabled, gate, runner>>

\* Mutant of RetryRejectedTask: an interrupted task, whose outcome nobody knows, may be retried.
RetryStoppedTask(t) ==
    /\ task[t].state \in {"FAILED", "INTERRUPTED"} /\ ~task[t].result
    /\ task[t].attempts < MaxAttempts
    /\ task' = [task EXCEPT ![t] = [@ EXCEPT !.state = "QUEUED", !.limited = FALSE]]
    /\ UNCHANGED <<attempt, clocks, enabled, gate, runner>>

\* retryRejectedTask(): a task that failed with a rate limit or an overload is queued again.
RetryRejectedTask(t) ==
    /\ task[t].state = "FAILED" /\ ~task[t].result
    /\ task[t].limited
    /\ task[t].attempts < MaxAttempts
    /\ task' = [task EXCEPT ![t] = [@ EXCEPT !.state = "QUEUED", !.limited = FALSE]]
    /\ UNCHANGED <<attempt, clocks, enabled, gate, runner>>

\* recoverProvider(): the gate is lifted, and the task that closed it gets a new window of time.
RecoverProvider ==
    /\ gate.status = "ACTION_REQUIRED"
    /\ gate' = [status |-> "CLEAR", task |-> NOTASK]
    /\ overdue' = {t \in overdue : t = gate.task => task[t].state # "QUEUED"}
    /\ UNCHANGED <<task, attempt, lapsed, enabled, runner>>

-----------------------------------------------------------------------------
\* What a worker does.

\* claim(): one task at a time, of an enabled agent, while the gate is clear.
Claimable(t) ==
    /\ \A u \in Tasks : ~Running(u)
    /\ gate.status = "CLEAR"
    /\ task[t].state = "QUEUED" /\ ~task[t].result
    /\ AgentOf[t] \in enabled

\* ... refused when the requester is no administrator any more, or no attempt is left,
DenyTask(t) ==
    /\ Claimable(t)
    /\ task' = [task EXCEPT ![t].state = "FAILED"]
    /\ UNCHANGED <<attempt, clocks, enabled, gate, runner>>

\* ... or when its attempts took too long,
GiveUpRecovery(t) ==
    /\ Claimable(t)
    /\ t \in overdue
    /\ gate' = ActionRequired(t)
    /\ UNCHANGED <<task, attempt, clocks, enabled, runner>>

\* ... and otherwise started.
Claim(r, t) ==
    LET n == task[t].attempts + 1 IN
    /\ runner[r].stage = "idle"
    /\ Claimable(t)
    /\ t \notin overdue
    /\ task[t].attempts < MaxAttempts
    /\ attempt' = [attempt EXCEPT ![t][n].state = "RUNNING"]
    /\ task' = [task EXCEPT ![t] = [@ EXCEPT !.state = "RUNNING", !.attempts = n, !.limited = FALSE]]
    /\ gate' = Waiting
    /\ runner' = [runner EXCEPT ![r] = [NoCall EXCEPT !.stage = "claimed", !.task = t, !.number = n]]
    /\ UNCHANGED <<clocks, enabled>>

\* Mutant of Dispatch: the lease is not looked at again, nor whether the task still runs.
DispatchAnyway(r) ==
    LET t == runner[r].task  n == runner[r].number IN
    /\ runner[r].stage = "claimed"
    /\ attempt' = [attempt EXCEPT ![t][n].dispatched = TRUE]
    /\ task' = [task EXCEPT ![t].unknown = @ + 1]
    /\ runner' = [runner EXCEPT ![r].stage = "asked"]
    /\ UNCHANGED <<clocks, enabled, gate>>

\* runClaim(), before the call: the attempt is recorded as dispatched, if it still holds the task.
Dispatch(r) ==
    LET t == runner[r].task  n == runner[r].number IN
    /\ runner[r].stage = "claimed"
    /\ IF task[t].attempts = n /\ Running(t) /\ t \notin lapsed
       THEN /\ attempt' = [attempt EXCEPT ![t][n].dispatched = TRUE]
            /\ task' = [task EXCEPT ![t].unknown = @ + 1]
            /\ runner' = [runner EXCEPT ![r].stage = "asked"]
       ELSE Returns(r) /\ UNCHANGED <<attempt, task>>
    /\ UNCHANGED <<clocks, enabled, gate>>

\* The provider answers, refuses for certain (REJECTED), refuses the second pass over a draft it
\* had completed (LIMITED), fails, or nobody can tell whether it did the work.
Answer(r, outcome) ==
    /\ runner[r].stage = "asked"
    /\ runner' = [runner EXCEPT ![r] = [@ EXCEPT !.stage = "answered", !.outcome = outcome]]
    /\ UNCHANGED <<task, attempt, clocks, enabled, gate>>

\* Mutant of Finishable: what is persisted again is counted again.
FinishableAgain(r) ==
    LET t == runner[r].task IN
    /\ runner[r].stage = "answered"
    /\ task[t].attempts = runner[r].number
    /\ Running(t) \/ runner[r].outcome = "RESULT"

\* finish() writes nothing for another claim, a task that has its result, or a late failure.
Finishable(r) ==
    LET t == runner[r].task IN
    /\ runner[r].stage = "answered"
    /\ task[t].attempts = runner[r].number /\ ~task[t].result
    /\ Running(t) \/ runner[r].outcome = "RESULT"

\* A call whose commit was not acknowledged calls finish() again with what it was told.
Persisted(r) == Returns(r) \/ UNCHANGED runner

FinishNothing(r) ==
    /\ runner[r].stage = "answered"
    /\ ~Finishable(r)
    /\ Returns(r)
    /\ UNCHANGED <<task, attempt, clocks, enabled, gate>>

\* The rate limits that come with a result may close the gate for a while, or until an
\* administrator looks, unless one has to already.  No task is named then.
GateAfterResult ==
    {gate} \cup (IF gate.status = "ACTION_REQUIRED" THEN {} ELSE {Waiting, ActionRequired(NOTASK)})

\* finish(): the result arrives, in time or after the task was interrupted.  The code takes
\* Math.max(0, unknown - 1): ReceiptsAgree shows that it is never below 1 here.
FinishResult(r) ==
    LET t == runner[r].task  n == runner[r].number  late == ~Running(t) IN
    /\ Finishable(r) /\ runner[r].outcome = "RESULT"
    /\ attempt' = [attempt EXCEPT ![t][n].state = IF late THEN "LATE_RESULT" ELSE "COMPLETED"]
    /\ task' = [task EXCEPT ![t] = [@ EXCEPT !.state = IF late THEN task[t].state ELSE "COMPLETED",
                                             !.result = TRUE, !.unknown = task[t].unknown - 1]]
    /\ lapsed' = lapsed \ {t}
    /\ Persisted(r)
    /\ gate' \in GateAfterResult
    /\ UNCHANGED <<overdue, enabled>>

\* finish(): a definite rejection waits for the provider or for an administrator, and the task
\* is queued again unless its attempts are exhausted.
FinishRejected(r, automatic) ==
    LET t == runner[r].task  n == runner[r].number  exhausted == task[t].attempts >= MaxAttempts IN
    /\ Finishable(r) /\ runner[r].outcome = "REJECTED"
    /\ automatic => ~exhausted
    /\ attempt' = [attempt EXCEPT ![t][n].state = "REJECTED"]
    /\ task' = [task EXCEPT ![t].state = IF exhausted THEN "FAILED" ELSE "QUEUED"]
    /\ gate' = IF automatic THEN Waiting ELSE ActionRequired(t)
    /\ IF exhausted THEN Pauses(t) ELSE UNCHANGED enabled
    /\ lapsed' = lapsed \ {t}
    /\ Persisted(r)
    /\ UNCHANGED overdue

\* finish(): any other failure pauses the agent; nothing is retried unless somebody asks for it.
FinishFailed(r) ==
    LET t == runner[r].task  n == runner[r].number  o == runner[r].outcome
        state == IF o = "UNCERTAIN" THEN "INTERRUPTED" ELSE "FAILED" IN
    /\ Finishable(r) /\ o \in {"LIMITED", "UNCERTAIN", "FAILED"}
    /\ attempt' = [attempt EXCEPT ![t][n].state = state]
    /\ task' = [task EXCEPT ![t] = [@ EXCEPT !.state = state, !.limited = o = "LIMITED"]]
    /\ Pauses(t)
    /\ lapsed' = lapsed \ {t}
    /\ Persisted(r)
    /\ UNCHANGED <<overdue, gate>>

\* The process dies, or gives up after it could not persist what it was told.
Crash(r) ==
    /\ runner[r].stage # "idle"
    /\ Returns(r)
    /\ UNCHANGED <<task, attempt, clocks, enabled, gate>>

\* Mutants of Heartbeat: only what was dispatched is given up; the receipt is not written.
HeartbeatOfDispatched(t) ==
    /\ Running(t) /\ t \in lapsed
    /\ attempt[t][task[t].attempts].dispatched
    /\ task' = [task EXCEPT ![t].state = "INTERRUPTED"]
    /\ attempt' = [attempt EXCEPT ![t][task[t].attempts].state = "INTERRUPTED"]
    /\ Pauses(t)
    /\ lapsed' = lapsed \ {t}
    /\ UNCHANGED <<overdue, gate, runner>>

HeartbeatWithoutReceipt(t) ==
    /\ Running(t) /\ t \in lapsed
    /\ task' = [task EXCEPT ![t].state = "INTERRUPTED"]
    /\ Pauses(t)
    /\ lapsed' = lapsed \ {t}
    /\ UNCHANGED <<attempt, overdue, gate, runner>>

\* heartbeat(): a running task whose lease has expired is interrupted and its agent paused.
Heartbeat(t) ==
    /\ Running(t) /\ t \in lapsed
    /\ task' = [task EXCEPT ![t].state = "INTERRUPTED"]
    /\ attempt' = [attempt EXCEPT ![t][task[t].attempts].state = "INTERRUPTED"]
    /\ Pauses(t)
    /\ lapsed' = lapsed \ {t}
    /\ UNCHANGED <<overdue, gate, runner>>

-----------------------------------------------------------------------------
\* Time passes.

LeaseExpires(t) ==
    /\ Running(t) /\ t \notin lapsed
    /\ lapsed' = lapsed \cup {t}
    /\ UNCHANGED <<task, attempt, overdue, enabled, gate, runner>>

WindowEnds(t) ==
    /\ task[t].state = "QUEUED" /\ task[t].attempts > 0 /\ t \notin overdue
    /\ overdue' = overdue \cup {t}
    /\ UNCHANGED <<task, attempt, lapsed, enabled, gate, runner>>

WaitEnds ==
    /\ gate.status = "WAITING"
    /\ gate' = [status |-> "CLEAR", task |-> NOTASK]
    /\ UNCHANGED <<task, attempt, clocks, enabled, runner>>

AgentNext ==
    \/ \E t \in Tasks :
          \/ Enqueue(t) \/ DecideTask(t) \/ RetryRejectedTask(t)
          \/ DenyTask(t) \/ GiveUpRecovery(t) \/ Heartbeat(t)
          \/ LeaseExpires(t) \/ WindowEnds(t)
          \/ \E r \in Runners : Claim(r, t)
    \/ \E r \in Runners :
          \/ Dispatch(r) \/ FinishNothing(r) \/ FinishResult(r) \/ FinishFailed(r) \/ Crash(r)
          \/ \E o \in Outcomes : Answer(r, o)
          \/ \E automatic \in BOOLEAN : FinishRejected(r, automatic)
    \/ \E a \in Agents : Control(a)
    \/ RecoverProvider \/ WaitEnds

\* Time passes, and some worker polls: every instance does so every 5 s, from its start on.
AgentFairness ==
    /\ WF_agentVars(\E t \in Tasks : LeaseExpires(t))
    /\ WF_agentVars(\E t \in Tasks : Heartbeat(t))

AgentSpec == AgentInit /\ [][AgentNext]_agentVars /\ AgentFairness

-----------------------------------------------------------------------------
\* What the runtime promises.

\* Every row keeps its type.
AgentTypeOK ==
    /\ task \in [Tasks -> TaskRecords]
    /\ attempt \in [Tasks -> [1..MaxAttempts -> AttemptRecords]]
    /\ lapsed \subseteq {t \in Tasks : Running(t)} /\ overdue \subseteq Tasks
    /\ enabled \subseteq Agents
    /\ gate \in GateRecords
    /\ runner \in [Runners -> RunnerRecords]

Made(t) == 1..task[t].attempts
Settled == {"COMPLETED", "LATE_RESULT"}

\* What nobody knows the outcome of, or what brought a result, is never asked again: an attempt
\* that still runs, was interrupted or has its answer is not followed by another one, however
\* leases, late answers and retries meet.  What failed may have been asked in part.
UnknownIsNotRepeated ==
    \A t \in Tasks : \A n \in Made(t) :
       n < task[t].attempts => attempt[t][n].state \in {"REJECTED", "FAILED"}

\* "A rejected format pass must not cause the completed first call to replay": resuming a task
\* is for what the provider is known to have rejected, so only an attempt that was refused as a
\* whole is followed by another one.
NeverReplayed ==
    \A t \in Tasks : \A n \in Made(t) :
       n < task[t].attempts => attempt[t][n].state = "REJECTED"

\* The attempts of a task agree with its row, whoever wrote last: it runs with its last attempt,
\* it has a result with an attempt that brought it, it is only queued with attempts left, and
\* its cost is unknown for every dispatched attempt that brought none.
ReceiptsAgree ==
    /\ \A t \in Tasks, u \in Tasks : Running(t) /\ Running(u) => t = u
    /\ \A t \in Tasks :
          /\ Running(t) <=> \E n \in Made(t) : attempt[t][n].state = "RUNNING"
          /\ task[t].result <=> \E n \in Made(t) : attempt[t][n].state \in Settled
          /\ task[t].state = "QUEUED" => task[t].attempts < MaxAttempts
          /\ task[t].unknown =
                Cardinality({n \in Made(t) : attempt[t][n].dispatched /\ attempt[t][n].state \notin Settled})

\* An attempt that was given up before it was dispatched is not dispatched any more: its row
\* tells for good whether the provider was asked.
GivenUpIsNotAsked ==
    [][\A t \in Tasks : \A n \in Made(t) :
          attempt[t][n].state # "RUNNING" => attempt'[t][n].dispatched = attempt[t][n].dispatched]_agentVars

\* A task does not run for ever, whatever happens to the worker that claimed it.
RunningEnds == \A t \in Tasks : Running(t) ~> ~Running(t)

=============================================================================
