------------------------- MODULE AgentRuntime_proofs -------------------------
(***************************************************************************)
(* Proofs about the agent runtime: its types, that no attempt of unknown   *)
(* outcome is repeated, and that the receipts of the attempts agree with   *)
(* the tasks, for any number of tasks, attempts and calls in flight.       *)
(***************************************************************************)
EXTENDS AgentRuntime, FiniteSetTheorems, TLAPS

-----------------------------------------------------------------------------
\* The inductive invariant.

Last(t) == task[t].attempts
AttemptOf(t, n) == attempt[t][n]
Refused == {"REJECTED", "FAILED"}

\* The dispatched attempts of a task that brought no result: their cost is unknown.
Unsettled(t) ==
    {n \in 1..MaxAttempts : n <= task[t].attempts /\ attempt[t][n].dispatched /\ attempt[t][n].state \notin Settled}

\* The receipts of a task, by attempt: none beyond the last, the earlier ones refused, and the
\* last as the task's row says.
RowOK(t) ==
    /\ \A n \in 1..MaxAttempts :
          /\ n > Last(t) => attempt[t][n].state = "NONE" /\ ~attempt[t][n].dispatched
          /\ n < Last(t) => attempt[t][n].state \in Refused
          /\ n = Last(t) =>
                /\ Running(t) <=> attempt[t][n].state = "RUNNING"
                /\ task[t].result <=> attempt[t][n].state \in Settled
                /\ task[t].state \in {"QUEUED", "FAILED"} /\ ~task[t].result =>
                      attempt[t][n].state \in Refused
    /\ Last(t) = 0 => ~Running(t) /\ ~task[t].result
    /\ task[t].state = "NONE" => Last(t) = 0
    /\ task[t].state = "QUEUED" => Last(t) < MaxAttempts
    /\ task[t].unknown = Cardinality(Unsettled(t))

\* A call in flight holds an attempt of its own that was made, and asks for it once.
HolderOK(r) ==
    runner[r].stage # "idle" =>
       /\ runner[r].task \in Tasks
       /\ runner[r].number \in 1..task[runner[r].task].attempts
       /\ runner[r].stage = "claimed" <=> ~attempt[runner[r].task][runner[r].number].dispatched

Alone(r, q) ==
    runner[r].stage # "idle" /\ runner[q].stage # "idle" /\ r # q =>
       runner[r].task # runner[q].task \/ runner[r].number # runner[q].number

AgentIInv ==
    /\ AgentTypeOK
    /\ \A t \in Tasks : RowOK(t)
    /\ \A t, u \in Tasks : Running(t) /\ Running(u) => t = u
    /\ \A r \in Runners : HolderOK(r)
    /\ \A r, q \in Runners : Alone(r, q)

\* The invariant of the runs follows.
LEMMA AgentPromises == AgentIInv => UnknownIsNotRepeated /\ ReceiptsAgree
<1> SUFFICES ASSUME AgentIInv PROVE UnknownIsNotRepeated /\ ReceiptsAgree
  OBVIOUS
<1>1. ASSUME NEW t \in Tasks PROVE Last(t) \in 0..MaxAttempts /\ Made(t) \subseteq 1..MaxAttempts
  BY AttemptAssumption DEF AgentIInv, AgentTypeOK, TaskRecords, Last, Made
<1>2. UnknownIsNotRepeated
  BY <1>1, AttemptAssumption DEF UnknownIsNotRepeated, AgentIInv, RowOK, Last, Made, Refused
<1>3. ASSUME NEW t \in Tasks
      PROVE  /\ Running(t) <=> \E n \in Made(t) : attempt[t][n].state = "RUNNING"
             /\ task[t].result <=> \E n \in Made(t) : attempt[t][n].state \in Settled
             /\ task[t].state = "QUEUED" => task[t].attempts < MaxAttempts
  <2>1. RowOK(t) /\ task[t].attempts \in 0..MaxAttempts
    BY <1>1 DEF AgentIInv, Last
  <2>2. \A n \in Made(t) : n \in 1..MaxAttempts /\ (n < Last(t) \/ n = Last(t))
    BY <2>1, AttemptAssumption DEF Made, Last
  <2>3. Last(t) # 0 => Last(t) \in Made(t)
    BY <2>1, AttemptAssumption DEF Made, Last
  <2> QED
    BY <2>1, <2>2, <2>3 DEF RowOK, Refused, Settled, Last
<1>4. ASSUME NEW t \in Tasks
      PROVE  task[t].unknown =
                Cardinality({n \in Made(t) : attempt[t][n].dispatched /\ attempt[t][n].state \notin Settled})
  <2>1. {n \in Made(t) : attempt[t][n].dispatched /\ attempt[t][n].state \notin Settled} = Unsettled(t)
    BY <1>1, AttemptAssumption DEF Unsettled, Made, Last
  <2> QED
    BY <2>1 DEF AgentIInv, RowOK
<1> QED
  BY <1>2, <1>3, <1>4 DEF ReceiptsAgree, AgentIInv

\* Nothing has happened yet.
LEMMA AgentInitInv == AgentInit => AgentIInv
<1> SUFFICES ASSUME AgentInit PROVE AgentIInv
  OBVIOUS
<1>1. AgentTypeOK
  BY AttemptAssumption DEF AgentInit, AgentTypeOK, TaskRecords, AttemptRecords, GateRecords, RunnerRecords,
     NoCall
<1>2. ASSUME NEW t \in Tasks PROVE RowOK(t)
  <2>1. Unsettled(t) = {}
    BY <1>2 DEF AgentInit, Unsettled
  <2> QED
    BY <1>2, <2>1, FS_EmptySet, AttemptAssumption DEF AgentInit, RowOK, Last, Running
<1> QED
  BY <1>1, <1>2 DEF AgentInit, AgentIInv, HolderOK, Alone, NoCall, Running

-----------------------------------------------------------------------------
\* How a step changes the rows of one task.

\* The rows of the other tasks stay right.
LEMMA OneRow ==
    ASSUME AgentIInv, NEW t \in Tasks,
           task' \in [Tasks -> TaskRecords], attempt' \in [Tasks -> [1..MaxAttempts -> AttemptRecords]],
           \A u \in Tasks \ {t} : task'[u] = task[u] /\ attempt'[u] = attempt[u],
           RowOK(t)',
           task'[t].state = "RUNNING" => Running(t) \/ \A u \in Tasks : ~Running(u)
    PROVE  /\ \A u \in Tasks : RowOK(u)'
           /\ \A u, v \in Tasks : Running(u)' /\ Running(v)' => u = v
<1>1. ASSUME NEW u \in Tasks PROVE RowOK(u)'
  <2>1. CASE u = t
    BY <2>1
  <2>2. CASE u # t
    <3>1. task'[u] = task[u] /\ attempt'[u] = attempt[u]
      BY <2>2
    <3>2. Unsettled(u)' = Unsettled(u)
      BY <3>1 DEF Unsettled
    <3> QED
      BY <3>1, <3>2 DEF AgentIInv, RowOK, Last, Running
  <2> QED
    BY <2>1, <2>2
<1> QED
  BY <1>1 DEF AgentIInv, Running

\* The calls in flight keep what they hold, or let go of it.
LEMMA HoldersKept ==
    ASSUME AgentIInv,
           \A u \in Tasks : /\ task'[u].attempts \in Nat /\ task'[u].attempts >= task[u].attempts
                            /\ \A n \in 1..task[u].attempts :
                                  attempt'[u][n].dispatched <=> attempt[u][n].dispatched,
           \A q \in Runners : \/ /\ runner'[q].stage = "idle"
                              \/ /\ runner'[q].stage = "idle" <=> runner[q].stage = "idle"
                                 /\ runner'[q].stage = "claimed" <=> runner[q].stage = "claimed"
                                 /\ runner'[q].task = runner[q].task
                                 /\ runner'[q].number = runner[q].number
    PROVE  /\ \A q \in Runners : HolderOK(q)'
           /\ \A p, q \in Runners : Alone(p, q)'
<1>1. \A u \in Tasks : task[u].attempts \in Nat
  BY AttemptAssumption DEF AgentIInv, AgentTypeOK, TaskRecords
<1>2. ASSUME NEW q \in Runners PROVE HolderOK(q)'
  BY <1>1 DEF AgentIInv, HolderOK
<1>3. ASSUME NEW p \in Runners, NEW q \in Runners PROVE Alone(p, q)'
  BY DEF AgentIInv, Alone
<1> QED
  BY <1>2, <1>3

\* Only the state of one attempt was written.
Written(t, n, state) ==
    /\ attempt' \in [Tasks -> [1..MaxAttempts -> AttemptRecords]]
    /\ attempt'[t][n].state = state
    /\ attempt'[t][n].dispatched = attempt[t][n].dispatched
    /\ \A m \in (1..MaxAttempts) \ {n} : attempt'[t][m] = attempt[t][m]
    /\ \A u \in Tasks \ {t} : attempt'[u] = attempt[u]

\* What writing the state of an attempt changes.
LEMMA AttemptWritten ==
    ASSUME AgentIInv, NEW t \in Tasks, NEW n \in 1..MaxAttempts,
           NEW state \in {"RUNNING", "INTERRUPTED", "COMPLETED", "LATE_RESULT", "REJECTED", "FAILED"},
           attempt' = [attempt EXCEPT ![t][n].state = state]
    PROVE  Written(t, n, state)
<1>1. attempt \in [Tasks -> [1..MaxAttempts -> AttemptRecords]] /\ attempt[t][n] \in AttemptRecords
  BY DEF AgentIInv, AgentTypeOK
<1> DEFINE after == [attempt[t][n] EXCEPT !.state = state]
           tries == [attempt[t] EXCEPT ![n] = after]
<1>2. after \in AttemptRecords /\ after.state = state /\ after.dispatched = attempt[t][n].dispatched
  BY <1>1 DEF AttemptRecords
<1>3. attempt' = [attempt EXCEPT ![t] = tries]
  BY <1>1
<1> HIDE DEF after
<1>4. /\ tries \in [1..MaxAttempts -> AttemptRecords] /\ tries[n] = after
      /\ \A m \in (1..MaxAttempts) \ {n} : tries[m] = attempt[t][m]
  BY <1>1, <1>2
<1> HIDE DEF tries
<1> QED
  BY <1>1, <1>2, <1>3, <1>4 DEF Written

\* A step that only moves the state of a task which does not run.
LEMMA StateMoves ==
    ASSUME AgentIInv, NEW t \in Tasks, NEW row \in TaskRecords,
           task' = [task EXCEPT ![t] = row], attempt' = attempt, runner' = runner,
           row.attempts = task[t].attempts, row.result = task[t].result, row.unknown = task[t].unknown,
           row.state \notin {"NONE", "RUNNING"}, ~Running(t),
           row.state = "QUEUED" => Last(t) < MaxAttempts,
           row.state \in {"QUEUED", "FAILED"} /\ ~task[t].result =>
              task[t].state \in {"QUEUED", "FAILED"} \/ Last(t) = 0,
           lapsed' = lapsed, overdue' \subseteq Tasks, enabled' \subseteq Agents, gate' \in GateRecords
    PROVE  AgentIInv'
<1>1. /\ task' \in [Tasks -> TaskRecords] /\ task'[t] = row
      /\ \A u \in Tasks \ {t} : task'[u] = task[u] /\ attempt'[u] = attempt[u]
  BY DEF AgentIInv, AgentTypeOK
<1>2. Unsettled(t)' = Unsettled(t)
  BY <1>1 DEF Unsettled
<1>3. RowOK(t)'
  <2>1. RowOK(t) /\ Last(t)' = Last(t)
    BY <1>1 DEF AgentIInv, Last
  <2>2. \A n \in 1..MaxAttempts : n = Last(t) => attempt[t][n].state # "RUNNING"
    BY <2>1 DEF RowOK
  <2> QED
    BY <1>1, <1>2, <2>1, <2>2, AttemptAssumption DEF RowOK, Running
<1>4. AgentTypeOK'
  BY <1>1 DEF AgentIInv, AgentTypeOK, Running
<1>5. (\A u \in Tasks : RowOK(u)') /\ (\A u, v \in Tasks : Running(u)' /\ Running(v)' => u = v)
  <2>1. attempt' \in [Tasks -> [1..MaxAttempts -> AttemptRecords]]
    BY DEF AgentIInv, AgentTypeOK
  <2> QED
    BY <1>1, <1>3, <2>1, OneRow DEF Running
<1>6. (\A q \in Runners : HolderOK(q)') /\ (\A p, q \in Runners : Alone(p, q)')
  <2>1. \A u \in Tasks : task'[u].attempts = task[u].attempts /\ task[u].attempts \in Nat
    BY <1>1, AttemptAssumption DEF AgentIInv, AgentTypeOK, TaskRecords
  <2> QED
    BY <2>1, HoldersKept
<1> QED
  BY <1>4, <1>5, <1>6 DEF AgentIInv

\* What is common to the rows of a running task.
LEMMA RunningRow ==
    ASSUME AgentIInv, NEW t \in Tasks, Running(t)
    PROVE  /\ Last(t) \in 1..MaxAttempts /\ attempt[t][Last(t)].state = "RUNNING"
           /\ ~task[t].result
           /\ \A m \in 1..MaxAttempts : m < Last(t) => attempt[t][m].state \in Refused
<1>1. RowOK(t) /\ Last(t) \in 0..MaxAttempts
  BY DEF AgentIInv, AgentTypeOK, TaskRecords, Last
<1>2. Last(t) \in 1..MaxAttempts
  BY <1>1, AttemptAssumption DEF RowOK
<1> QED
  BY <1>1, <1>2 DEF RowOK, Settled

\* A step that ends the running attempt of a task without a result.
LEMMA AttemptEnds ==
    ASSUME AgentIInv, NEW t \in Tasks, Running(t), NEW row \in TaskRecords,
           NEW verdict \in {"INTERRUPTED", "REJECTED", "FAILED"},
           task' = [task EXCEPT ![t] = row],
           Written(t, task[t].attempts, verdict),
           row.attempts = task[t].attempts, row.result = task[t].result, row.unknown = task[t].unknown,
           row.state \in {"QUEUED", "FAILED", "INTERRUPTED"},
           row.state = "QUEUED" => Last(t) < MaxAttempts,
           row.state \in {"QUEUED", "FAILED"} => verdict \in Refused,
           runner' = runner \/ \E r \in Runners : Returns(r),
           lapsed' = lapsed \ {t}, overdue' \subseteq Tasks, enabled' \subseteq Agents, gate' \in GateRecords
    PROVE  AgentIInv'
<1> DEFINE n == task[t].attempts
<1>1. /\ n \in 1..MaxAttempts /\ attempt[t][n].state = "RUNNING" /\ ~task[t].result
      /\ \A m \in 1..MaxAttempts : m < n => attempt[t][m].state \in Refused
  BY RunningRow DEF Last
<1>2. /\ attempt' \in [Tasks -> [1..MaxAttempts -> AttemptRecords]]
      /\ attempt'[t][n].state = verdict
      /\ attempt'[t][n].dispatched = attempt[t][n].dispatched
      /\ \A m \in (1..MaxAttempts) \ {n} : attempt'[t][m] = attempt[t][m]
      /\ \A u \in Tasks \ {t} : attempt'[u] = attempt[u]
  BY <1>1 DEF Written
<1>3. /\ task' \in [Tasks -> TaskRecords] /\ task'[t] = row
      /\ \A u \in Tasks \ {t} : task'[u] = task[u]
  BY DEF AgentIInv, AgentTypeOK
<1>4. Unsettled(t)' = Unsettled(t)
  BY <1>1, <1>2, <1>3 DEF Unsettled, Settled
<1>5. RowOK(t)'
  <2>1. RowOK(t) /\ Last(t)' = n /\ Last(t) = n
    BY <1>3 DEF AgentIInv, Last
  <2>2. ~Running(t)' /\ ~task'[t].result /\ task'[t].state # "NONE"
    BY <1>1, <1>3 DEF Running
  <2>3. \A m \in 1..MaxAttempts :
          /\ m > n => attempt'[t][m].state = "NONE" /\ ~attempt'[t][m].dispatched
          /\ m < n => attempt'[t][m].state \in Refused
    BY <1>1, <1>2, <2>1 DEF RowOK
  <2>4. task'[t].unknown = Cardinality(Unsettled(t)')
    BY <1>3, <1>4, <2>1 DEF RowOK
  <2>5. attempt'[t][n].state \notin {"RUNNING", "COMPLETED", "LATE_RESULT"}
    BY <1>2
  <2>6. task'[t].state \in {"QUEUED", "FAILED"} => attempt'[t][n].state \in Refused
    BY <1>2, <1>3
  <2>7. task'[t].state = "QUEUED" => n < MaxAttempts
    BY <1>3 DEF Last
  <2> QED
    BY <1>1, <2>1, <2>2, <2>3, <2>4, <2>5, <2>6, <2>7 DEF RowOK, Settled
<1>6. (\A u \in Tasks : RowOK(u)') /\ (\A u, v \in Tasks : Running(u)' /\ Running(v)' => u = v)
  BY <1>2, <1>3, <1>5, OneRow DEF Running
<1>7. (\A q \in Runners : HolderOK(q)') /\ (\A p, q \in Runners : Alone(p, q)')
  <2>1. \A u \in Tasks : /\ task'[u].attempts = task[u].attempts /\ task[u].attempts \in 0..MaxAttempts
                         /\ \A m \in 1..task[u].attempts :
                               attempt'[u][m].dispatched <=> attempt[u][m].dispatched
    BY <1>2, <1>3, AttemptAssumption DEF AgentIInv, AgentTypeOK, TaskRecords
  <2>2. \A q \in Runners : runner'[q] = runner[q] \/ runner'[q].stage = "idle"
    BY DEF Returns, NoCall, AgentIInv, AgentTypeOK
  <2> QED
    BY <2>1, <2>2, HoldersKept, AttemptAssumption
<1>8. AgentTypeOK'
  <2>1. runner' \in [Runners -> RunnerRecords]
    <3>1. NoCall \in RunnerRecords /\ runner \in [Runners -> RunnerRecords]
      BY AttemptAssumption DEF NoCall, AgentIInv, AgentTypeOK, RunnerRecords
    <3> QED
      BY <3>1 DEF Returns
  <2>2. lapsed' \subseteq {u \in Tasks : Running(u)'}
    BY <1>3 DEF AgentIInv, AgentTypeOK, Running
  <2> QED
    BY <1>2, <1>3, <2>1, <2>2 DEF AgentTypeOK
<1> QED
  BY <1>6, <1>7, <1>8 DEF AgentIInv

\* A claim makes the next attempt of a queued task.
LEMMA ClaimInv ==
    ASSUME AgentIInv, NEW r \in Runners, NEW t \in Tasks, Claim(r, t)
    PROVE  AgentIInv'
<1> DEFINE n == task[t].attempts + 1
<1>1. /\ task[t].attempts \in 0..MaxAttempts /\ n \in 1..MaxAttempts /\ RowOK(t)
      /\ task[t] \in TaskRecords /\ task[t].state = "QUEUED" /\ ~task[t].result
      /\ \A u \in Tasks : ~Running(u)
  BY AttemptAssumption DEF Claim, Claimable, AgentIInv, AgentTypeOK, TaskRecords
<1>2. attempt[t][n].state = "NONE" /\ ~attempt[t][n].dispatched
  BY <1>1, AttemptAssumption DEF RowOK, Last
<1>3. /\ attempt' \in [Tasks -> [1..MaxAttempts -> AttemptRecords]]
      /\ attempt'[t][n].state = "RUNNING"
      /\ attempt'[t][n].dispatched = attempt[t][n].dispatched
      /\ \A m \in (1..MaxAttempts) \ {n} : attempt'[t][m] = attempt[t][m]
      /\ \A u \in Tasks \ {t} : attempt'[u] = attempt[u]
  <2>1. attempt' = [attempt EXCEPT ![t][n].state = "RUNNING"]
    BY DEF Claim
  <2> HIDE DEF n
  <2>2. Written(t, n, "RUNNING")
    BY <1>1, <2>1, AttemptWritten
  <2> QED
    BY <2>2 DEF Written
<1>4. /\ task' \in [Tasks -> TaskRecords]
      /\ task'[t].state = "RUNNING" /\ task'[t].attempts = n
      /\ task'[t].result = task[t].result /\ task'[t].unknown = task[t].unknown
      /\ \A u \in Tasks \ {t} : task'[u] = task[u]
  <2>1. task \in [Tasks -> TaskRecords]
    BY DEF AgentIInv, AgentTypeOK
  <2> DEFINE row == [task[t] EXCEPT !.state = "RUNNING", !.attempts = n, !.limited = FALSE]
  <2>2. /\ row \in TaskRecords /\ row.state = "RUNNING" /\ row.attempts = n
        /\ row.result = task[t].result /\ row.unknown = task[t].unknown
    <3>1. n \in 0..MaxAttempts
      BY <1>1, AttemptAssumption
    <3> HIDE DEF n
    <3> QED
      BY <1>1, <3>1 DEF TaskRecords
  <2>3. task' = [task EXCEPT ![t] = row]
    BY DEF Claim
  <2> HIDE DEF row
  <2> QED
    BY <2>1, <2>2, <2>3
<1>5. Unsettled(t)' = Unsettled(t)
  <2>1. ASSUME NEW m \in 1..MaxAttempts
        PROVE  (m <= n /\ attempt'[t][m].dispatched /\ attempt'[t][m].state \notin Settled)
               <=> (m <= task[t].attempts /\ attempt[t][m].dispatched /\ attempt[t][m].state \notin Settled)
    <3>1. CASE m = n
      BY <1>1, <1>2, <1>3, <3>1, AttemptAssumption
    <3>2. CASE m # n
      BY <1>1, <1>3, <3>2, AttemptAssumption
    <3> QED
      BY <3>1, <3>2
  <2> QED
    BY <1>4, <2>1 DEF Unsettled
<1>6. RowOK(t)'
  <2>1. Last(t) = task[t].attempts /\ Last(t)' = n /\ Running(t)' /\ ~task'[t].result
    BY <1>1, <1>4 DEF Last, Running
  <2>2. ASSUME NEW m \in 1..MaxAttempts, m < n PROVE attempt'[t][m].state \in Refused
    <3>1. attempt'[t][m] = attempt[t][m] /\ (m < Last(t) \/ m = Last(t))
      BY <1>1, <1>3, <2>1, <2>2, AttemptAssumption
    <3> HIDE DEF n
    <3> QED
      BY <1>1, <3>1 DEF RowOK
  <2>3. ASSUME NEW m \in 1..MaxAttempts, m > n
        PROVE  attempt'[t][m].state = "NONE" /\ ~attempt'[t][m].dispatched
    <3>1. attempt'[t][m] = attempt[t][m] /\ m > Last(t)
      BY <1>1, <1>3, <2>1, <2>3, AttemptAssumption
    <3> HIDE DEF n
    <3> QED
      BY <1>1, <3>1 DEF RowOK
  <2>4. task'[t].unknown = Cardinality(Unsettled(t)')
    BY <1>1, <1>4, <1>5 DEF RowOK
  <2>5. attempt'[t][n].state = "RUNNING" /\ task'[t].state = "RUNNING" /\ n # 0
    BY <1>1, <1>3, <1>4
  <2> QED
    BY <2>1, <2>2, <2>3, <2>4, <2>5 DEF RowOK, Settled
<1>7. (\A u \in Tasks : RowOK(u)') /\ (\A u, v \in Tasks : Running(u)' /\ Running(v)' => u = v)
  BY <1>1, <1>3, <1>4, <1>6, OneRow
<1>8. /\ runner' \in [Runners -> RunnerRecords] /\ runner'[r].stage = "claimed"
      /\ runner'[r].task = t /\ runner'[r].number = n /\ runner[r].stage = "idle"
      /\ \A q \in Runners \ {r} : runner'[q] = runner[q]
  <2>1. runner \in [Runners -> RunnerRecords] /\ NoCall \in RunnerRecords /\ n \in 0..MaxAttempts
    BY <1>1, AttemptAssumption DEF AgentIInv, AgentTypeOK, RunnerRecords, NoCall
  <2> DEFINE call == [NoCall EXCEPT !.stage = "claimed", !.task = t, !.number = n]
  <2>2. call \in RunnerRecords /\ call.stage = "claimed" /\ call.task = t /\ call.number = n
    BY <2>1 DEF RunnerRecords, NoCall
  <2>3. runner' = [runner EXCEPT ![r] = call] /\ runner[r].stage = "idle"
    BY DEF Claim
  <2> HIDE DEF call, n
  <2> QED
    BY <2>1, <2>2, <2>3
<1>9. ASSUME NEW q \in Runners \ {r}, runner[q].stage # "idle"
      PROVE  /\ HolderOK(q)' /\ (runner[q].task # t \/ runner[q].number # n)
  <2>1. /\ runner[q].task \in Tasks /\ runner[q].number \in 1..task[runner[q].task].attempts
        /\ runner[q].stage = "claimed" <=> ~attempt[runner[q].task][runner[q].number].dispatched
    BY <1>9 DEF AgentIInv, HolderOK
  <2>2. task[runner[q].task].attempts \in 0..MaxAttempts
    BY <2>1 DEF AgentIInv, AgentTypeOK, TaskRecords
  <2>3. runner[q].task # t \/ runner[q].number # n
    BY <1>1, <2>1, AttemptAssumption
  <2>4. /\ runner[q].number \in 1..task'[runner[q].task].attempts
        /\ attempt'[runner[q].task][runner[q].number] = attempt[runner[q].task][runner[q].number]
    BY <1>1, <1>3, <1>4, <2>1, <2>2, <2>3, AttemptAssumption
  <2> QED
    BY <1>8, <2>1, <2>3, <2>4 DEF HolderOK
<1>10. HolderOK(r)'
  BY <1>1, <1>2, <1>3, <1>4, <1>8 DEF HolderOK
<1>11. (\A q \in Runners : HolderOK(q)') /\ (\A p, q \in Runners : Alone(p, q)')
  <2>1. \A q \in Runners : HolderOK(q)'
    BY <1>8, <1>9, <1>10 DEF HolderOK
  <2>2. ASSUME NEW p \in Runners, NEW q \in Runners PROVE Alone(p, q)'
    BY <1>8, <1>9 DEF AgentIInv, Alone
  <2> QED
    BY <2>1, <2>2
<1>12. AgentTypeOK'
  <2>1. gate' \in GateRecords /\ UNCHANGED <<clocks, enabled>>
    BY DEF Claim, Waiting, GateRecords
  <2>2. lapsed' \subseteq {u \in Tasks : Running(u)'}
    BY <1>1, <2>1 DEF AgentIInv, AgentTypeOK, clocks
  <2> QED
    BY <1>3, <1>4, <1>8, <2>1, <2>2 DEF AgentTypeOK, AgentIInv, clocks
<1> QED
  BY <1>7, <1>11, <1>12 DEF AgentIInv

-----------------------------------------------------------------------------
\* The call to the provider and its answer.

\* A set of attempt numbers is finite, and no larger than there are attempts.
LEMMA CountOfAttempts ==
    ASSUME NEW S \in SUBSET (1..MaxAttempts)
    PROVE  IsFiniteSet(S) /\ Cardinality(S) \in 0..MaxAttempts
<1>1. IsFiniteSet(1..MaxAttempts) /\ Cardinality(1..MaxAttempts) = MaxAttempts
  BY FS_Interval, AttemptAssumption
<1>2. IsFiniteSet(S) /\ Cardinality(S) <= MaxAttempts
  BY <1>1, FS_Subset
<1>3. Cardinality(S) \in Nat
  BY <1>2, FS_CardinalityType
<1> QED
  BY <1>2, <1>3, AttemptAssumption

\* A call that returns holds nothing, and one that does not change holds what it did.
LEMMA CallsReturn ==
    ASSUME AgentIInv, task' = task, attempt' = attempt, UNCHANGED <<clocks, enabled, gate>>,
           NEW r \in Runners, Returns(r)
    PROVE  AgentIInv'
<1>1. NoCall \in RunnerRecords /\ runner \in [Runners -> RunnerRecords] /\ NoCall.stage = "idle"
  BY AttemptAssumption DEF NoCall, AgentIInv, AgentTypeOK, RunnerRecords
<1>2. runner' \in [Runners -> RunnerRecords]
  BY <1>1 DEF Returns
<1>3. \A q \in Runners : runner'[q] = runner[q] \/ runner'[q].stage = "idle"
  BY <1>1 DEF Returns
<1>4. \A u \in Tasks : task[u].attempts \in Nat
  BY AttemptAssumption DEF AgentIInv, AgentTypeOK, TaskRecords
<1>5. (\A q \in Runners : HolderOK(q)') /\ (\A p, q \in Runners : Alone(p, q)')
  BY <1>3, <1>4, HoldersKept
<1>6. ASSUME NEW t \in Tasks PROVE RowOK(t)'
  <2>1. Unsettled(t)' = Unsettled(t)
    BY DEF Unsettled
  <2> QED
    BY <2>1 DEF AgentIInv, RowOK, Last, Running
<1> QED
  BY <1>2, <1>5, <1>6 DEF AgentIInv, AgentTypeOK, clocks, Running

\* The attempt is recorded as dispatched.
LEMMA DispatchInv ==
    ASSUME AgentIInv, NEW r \in Runners, Dispatch(r)
    PROVE  AgentIInv'
<1>1. CASE Returns(r) /\ UNCHANGED <<attempt, task>>
  BY <1>1, CallsReturn DEF Dispatch
<1>2. PICK t, n : t = runner[r].task /\ n = runner[r].number
  OBVIOUS
<1>3. CASE /\ task[t].attempts = n /\ Running(t) /\ t \notin lapsed
           /\ attempt' = [attempt EXCEPT ![t][n].dispatched = TRUE]
           /\ task' = [task EXCEPT ![t].unknown = @ + 1]
           /\ runner' = [runner EXCEPT ![r].stage = "asked"]
  <2>1. /\ runner[r].stage = "claimed" /\ t \in Tasks /\ ~attempt[t][n].dispatched
        /\ UNCHANGED <<clocks, enabled, gate>>
        /\ task[t].attempts = n /\ Running(t)
    BY <1>2, <1>3 DEF Dispatch, AgentIInv, HolderOK
  <2>2. /\ n \in 1..MaxAttempts /\ attempt[t][n].state = "RUNNING" /\ ~task[t].result
        /\ RowOK(t) /\ task[t] \in TaskRecords /\ attempt[t][n] \in AttemptRecords
    BY <2>1, RunningRow DEF Last, AgentIInv, AgentTypeOK
  <2> DEFINE sent == [attempt[t][n] EXCEPT !.dispatched = TRUE]
             tries == [attempt[t] EXCEPT ![n] = sent]
             row == [task[t] EXCEPT !.unknown = task[t].unknown + 1]
             call == [runner[r] EXCEPT !.stage = "asked"]
  <2>3. sent \in AttemptRecords /\ sent.dispatched /\ sent.state = "RUNNING"
    BY <2>2 DEF AttemptRecords
  <2>4. /\ attempt \in [Tasks -> [1..MaxAttempts -> AttemptRecords]]
        /\ task \in [Tasks -> TaskRecords] /\ runner \in [Runners -> RunnerRecords]
    BY DEF AgentIInv, AgentTypeOK
  <2>5. attempt' = [attempt EXCEPT ![t] = tries]
    BY <1>3, <2>1, <2>2, <2>4
  <2>6. task' = [task EXCEPT ![t] = row] /\ runner' = [runner EXCEPT ![r] = call]
    BY <1>3
  <2>7. /\ call \in RunnerRecords /\ call.stage = "asked" /\ call.task = t /\ call.number = n
    <3>1. runner[r] \in RunnerRecords
      BY <2>4
    <3> QED
      BY <1>2, <3>1 DEF RunnerRecords
  <2> HIDE DEF sent, call
  <2>8. /\ tries \in [1..MaxAttempts -> AttemptRecords] /\ tries[n] = sent
        /\ \A m \in (1..MaxAttempts) \ {n} : tries[m] = attempt[t][m]
    BY <2>1, <2>2, <2>3, <2>4
  <2> HIDE DEF tries
  <2>9. /\ attempt' \in [Tasks -> [1..MaxAttempts -> AttemptRecords]]
        /\ attempt'[t][n].dispatched /\ attempt'[t][n].state = "RUNNING"
        /\ \A m \in (1..MaxAttempts) \ {n} : attempt'[t][m] = attempt[t][m]
        /\ \A u \in Tasks \ {t} : attempt'[u] = attempt[u]
    BY <2>1, <2>3, <2>4, <2>5, <2>8
  <2> DEFINE before == {m \in 1..MaxAttempts : m <= n /\ attempt[t][m].dispatched /\ attempt[t][m].state \notin Settled}
             after == {m \in 1..MaxAttempts : m <= n /\ attempt'[t][m].dispatched /\ attempt'[t][m].state \notin Settled}
  <2>10. after = before \cup {n} /\ n \notin before /\ before = Unsettled(t)
    <3>1. before = Unsettled(t) /\ n \notin before
      BY <2>1 DEF Unsettled
    <3>2. n \in after
      BY <2>2, <2>9 DEF Settled
    <3>3. \A m \in (1..MaxAttempts) \ {n} : m \in after <=> m \in before
      BY <2>9
    <3>4. after \subseteq 1..MaxAttempts /\ before \subseteq 1..MaxAttempts
      OBVIOUS
    <3> HIDE DEF after, before
    <3> QED
      BY <2>2, <3>1, <3>2, <3>3, <3>4
  <2>11. after \in SUBSET (1..MaxAttempts) /\ before \in SUBSET (1..MaxAttempts)
    OBVIOUS
  <2> HIDE DEF after, before
  <2>12. Cardinality(after) = task[t].unknown + 1 /\ Cardinality(after) \in 0..MaxAttempts
    <3>1. Cardinality(before) = task[t].unknown
      BY <2>2, <2>10 DEF RowOK
    <3>2. IsFiniteSet(before) /\ Cardinality(after) \in 0..MaxAttempts
      BY <2>11, CountOfAttempts
    <3> QED
      BY <2>10, <3>1, <3>2, FS_AddElement
  <2>13. /\ row \in TaskRecords /\ row.unknown = Cardinality(after)
         /\ row.state = task[t].state /\ row.attempts = task[t].attempts /\ row.result = task[t].result
    <3>1. task[t].unknown + 1 \in 0..MaxAttempts
      BY <2>12
    <3> QED
      BY <2>2, <2>12, <3>1 DEF TaskRecords
  <2> HIDE DEF row
  <2>14. /\ task' \in [Tasks -> TaskRecords] /\ task'[t] = row
         /\ \A u \in Tasks \ {t} : task'[u] = task[u]
    BY <2>1, <2>4, <2>6, <2>13
  <2>15. after = Unsettled(t)'
    BY <2>1, <2>13, <2>14 DEF Unsettled, after
  <2>16. RowOK(t)'
    <3>1. Last(t) = n /\ Last(t)' = n /\ Running(t)' /\ ~task'[t].result
      BY <2>1, <2>2, <2>13, <2>14 DEF Last, Running
    <3>2. \A m \in 1..MaxAttempts :
            /\ m > n => attempt'[t][m].state = "NONE" /\ ~attempt'[t][m].dispatched
            /\ m < n => attempt'[t][m].state \in Refused
      BY <2>2, <2>9, <3>1 DEF RowOK
    <3>3. attempt'[t][n].state = "RUNNING" /\ task'[t].state = "RUNNING" /\ n # 0
      BY <2>1, <2>2, <2>9, <2>13, <2>14 DEF Running
    <3>4. task'[t].unknown = Cardinality(Unsettled(t)')
      BY <2>13, <2>14, <2>15
    <3> QED
      BY <3>1, <3>2, <3>3, <3>4 DEF RowOK, Settled
  <2>17. (\A u \in Tasks : RowOK(u)') /\ (\A u, v \in Tasks : Running(u)' /\ Running(v)' => u = v)
    BY <2>1, <2>9, <2>14, <2>16, OneRow
  <2>18. /\ runner' \in [Runners -> RunnerRecords] /\ runner'[r] = call
         /\ \A q \in Runners \ {r} : runner'[q] = runner[q]
    BY <2>4, <2>6, <2>7
  <2>19. \A u \in Tasks : task'[u].attempts = task[u].attempts
    BY <2>13, <2>14
  <2>20. ASSUME NEW q \in Runners PROVE HolderOK(q)'
    <3>1. CASE q = r
      BY <2>1, <2>2, <2>7, <2>9, <2>18, <2>19, <3>1 DEF HolderOK
    <3>2. CASE q # r /\ runner[q].stage # "idle"
      <4>1. runner'[q] = runner[q] /\ HolderOK(q) /\ (runner[q].task # t \/ runner[q].number # n)
        BY <1>2, <2>1, <2>18, <3>2 DEF AgentIInv, Alone
      <4>2. runner[q].task \in Tasks /\ runner[q].number \in 1..MaxAttempts
        <5>1. runner[q].task \in Tasks /\ runner[q].number \in 1..task[runner[q].task].attempts
          BY <3>2, <4>1 DEF HolderOK
        <5>2. task[runner[q].task].attempts \in 0..MaxAttempts
          BY <2>4, <5>1 DEF TaskRecords
        <5> QED
          BY <5>1, <5>2, AttemptAssumption
      <4>3. attempt'[runner[q].task][runner[q].number] = attempt[runner[q].task][runner[q].number]
        BY <2>9, <4>1, <4>2
      <4> QED
        BY <2>19, <3>2, <4>1, <4>2, <4>3 DEF HolderOK
    <3>3. CASE q # r /\ runner[q].stage = "idle"
      BY <2>18, <3>3 DEF HolderOK
    <3> QED
      BY <3>1, <3>2, <3>3
  <2>21. ASSUME NEW p \in Runners, NEW q \in Runners PROVE Alone(p, q)'
    <3>1. \A o \in Runners : /\ runner'[o].stage = "idle" <=> runner[o].stage = "idle"
                             /\ runner'[o].task = runner[o].task /\ runner'[o].number = runner[o].number
      BY <1>2, <2>1, <2>7, <2>18
    <3> QED
      BY <3>1 DEF AgentIInv, Alone
  <2>22. AgentTypeOK'
    <3>1. \A u \in Tasks : Running(u)' <=> Running(u)
      BY <2>13, <2>14 DEF Running
    <3> QED
      BY <2>1, <2>9, <2>14, <2>18, <3>1 DEF AgentIInv, AgentTypeOK, clocks
  <2> QED
    BY <2>17, <2>20, <2>21, <2>22 DEF AgentIInv
<1> QED
  BY <1>1, <1>2, <1>3 DEF Dispatch

\* The result arrives.
LEMMA ResultInv ==
    ASSUME AgentIInv, NEW r \in Runners, FinishResult(r)
    PROVE  AgentIInv'
<1>1. PICK t, n : t = runner[r].task /\ n = runner[r].number
  OBVIOUS
<1>2. PICK verdict, state : /\ verdict = IF Running(t) THEN "COMPLETED" ELSE "LATE_RESULT"
                            /\ state = IF Running(t) THEN "COMPLETED" ELSE task[t].state
  OBVIOUS
<1>3. /\ task[t].attempts = n /\ ~task[t].result /\ (Returns(r) \/ UNCHANGED runner)
      /\ attempt' = [attempt EXCEPT ![t][n].state = verdict]
      /\ task' = [task EXCEPT ![t] = [task[t] EXCEPT !.state = state, !.result = TRUE,
                                                     !.unknown = task[t].unknown - 1]]
      /\ lapsed' = lapsed \ {t} /\ gate' \in GateAfterResult /\ UNCHANGED <<overdue, enabled>>
  BY <1>1, <1>2 DEF FinishResult, Finishable, Persisted
<1>4. /\ t \in Tasks /\ n \in 1..MaxAttempts /\ attempt[t][n].dispatched
      /\ RowOK(t) /\ Last(t) = n /\ task[t] \in TaskRecords
  <2>1. runner[r].stage = "answered"
    BY DEF FinishResult, Finishable
  <2>2. t \in Tasks /\ n \in 1..task[t].attempts /\ attempt[t][n].dispatched
    BY <1>1, <2>1 DEF AgentIInv, HolderOK
  <2>3. task[t].attempts \in 0..MaxAttempts /\ task[t] \in TaskRecords /\ RowOK(t)
    BY <2>2 DEF AgentIInv, AgentTypeOK, TaskRecords
  <2> QED
    BY <1>3, <2>2, <2>3, AttemptAssumption DEF Last
<1>5. attempt[t][n].state \notin Settled
  BY <1>3, <1>4 DEF RowOK
<1>6. Written(t, n, verdict) /\ verdict \in Settled
  <2>1. CASE verdict = "COMPLETED"
    BY <1>3, <1>4, <2>1, AttemptWritten DEF Settled
  <2>2. CASE verdict = "LATE_RESULT"
    BY <1>3, <1>4, <2>2, AttemptWritten DEF Settled
  <2> QED
    BY <1>2, <2>1, <2>2
<1> DEFINE before == {m \in 1..MaxAttempts : m <= n /\ attempt[t][m].dispatched /\ attempt[t][m].state \notin Settled}
           after == {m \in 1..MaxAttempts : m <= n /\ attempt'[t][m].dispatched /\ attempt'[t][m].state \notin Settled}
<1>7. after = before \ {n} /\ n \in before /\ before = Unsettled(t)
  <2>1. before = Unsettled(t)
    BY <1>4 DEF Unsettled, Last
  <2>2. n \in before /\ n \notin after
    BY <1>4, <1>5, <1>6 DEF Written
  <2>3. \A m \in (1..MaxAttempts) \ {n} : m \in after <=> m \in before
    BY <1>6 DEF Written
  <2>4. after \subseteq 1..MaxAttempts /\ before \subseteq 1..MaxAttempts
    OBVIOUS
  <2> HIDE DEF after, before
  <2> QED
    BY <2>1, <2>2, <2>3, <2>4
<1>8. after \in SUBSET (1..MaxAttempts) /\ before \in SUBSET (1..MaxAttempts)
  OBVIOUS
<1> HIDE DEF after, before
<1>9. Cardinality(after) = task[t].unknown - 1 /\ Cardinality(after) \in 0..MaxAttempts
  <2>1. Cardinality(before) = task[t].unknown
    BY <1>4, <1>7 DEF RowOK
  <2>2. IsFiniteSet(before) /\ Cardinality(after) \in 0..MaxAttempts
    BY <1>8, CountOfAttempts
  <2> QED
    BY <1>7, <2>1, <2>2, FS_RemoveElement
<1>10. PICK row \in TaskRecords :
          /\ task' = [task EXCEPT ![t] = row]
          /\ row.state = state /\ row.result /\ row.attempts = n /\ row.unknown = Cardinality(after)
  <2> DEFINE row == [task[t] EXCEPT !.state = state, !.result = TRUE, !.unknown = task[t].unknown - 1]
  <2>1. state \in {"NONE", "QUEUED", "RUNNING", "COMPLETED", "FAILED", "INTERRUPTED", "CANCELLED", "REVIEWED"}
    BY <1>2, <1>4 DEF TaskRecords
  <2>2. task[t].unknown - 1 \in 0..MaxAttempts
    BY <1>9
  <2>3. row \in TaskRecords /\ row.state = state /\ row.result /\ row.attempts = n /\ row.unknown = Cardinality(after)
    BY <1>3, <1>4, <1>9, <2>1, <2>2 DEF TaskRecords
  <2>4. task' = [task EXCEPT ![t] = row]
    BY <1>3
  <2> HIDE DEF row
  <2> QED
    BY <2>3, <2>4
<1>11. /\ task' \in [Tasks -> TaskRecords] /\ task'[t] = row
       /\ \A u \in Tasks \ {t} : task'[u] = task[u]
  BY <1>4, <1>10 DEF AgentIInv, AgentTypeOK
<1>12. after = Unsettled(t)'
  BY <1>10, <1>11 DEF Unsettled, after
<1>13. /\ state # "RUNNING" /\ state # "NONE"
       /\ state = "QUEUED" => n < MaxAttempts
  BY <1>2, <1>4 DEF RowOK, Running
<1>14. RowOK(t)'
  <2>1. Last(t)' = n /\ ~Running(t)' /\ task'[t].result /\ task'[t].state = state /\ n # 0
    BY <1>4, <1>10, <1>11, <1>13 DEF Last, Running
  <2>2. \A m \in 1..MaxAttempts :
          /\ m > n => attempt'[t][m].state = "NONE" /\ ~attempt'[t][m].dispatched
          /\ m < n => attempt'[t][m].state \in Refused
    BY <1>4, <1>6 DEF RowOK, Written
  <2>3. attempt'[t][n].state = verdict /\ verdict # "RUNNING"
    BY <1>6 DEF Written, Settled
  <2>4. task'[t].unknown = Cardinality(Unsettled(t)')
    BY <1>10, <1>11, <1>12
  <2> QED
    BY <1>6, <1>13, <2>1, <2>2, <2>3, <2>4 DEF RowOK
<1>15. (\A u \in Tasks : RowOK(u)') /\ (\A u, v \in Tasks : Running(u)' /\ Running(v)' => u = v)
  BY <1>4, <1>6, <1>10, <1>11, <1>13, <1>14, OneRow DEF Written
<1>16. (\A q \in Runners : HolderOK(q)') /\ (\A p, q \in Runners : Alone(p, q)')
  <2>1. \A u \in Tasks : /\ task'[u].attempts = task[u].attempts /\ task[u].attempts \in 0..MaxAttempts
                         /\ \A m \in 1..task[u].attempts :
                               attempt'[u][m].dispatched <=> attempt[u][m].dispatched
    BY <1>3, <1>4, <1>6, <1>10, <1>11, AttemptAssumption DEF AgentIInv, AgentTypeOK, TaskRecords, Written
  <2>2. \A q \in Runners : runner'[q] = runner[q] \/ runner'[q].stage = "idle"
    BY <1>3 DEF Returns, NoCall, AgentIInv, AgentTypeOK
  <2> QED
    BY <2>1, <2>2, HoldersKept, AttemptAssumption
<1>17. AgentTypeOK'
  <2>1. runner' \in [Runners -> RunnerRecords]
    <3>1. NoCall \in RunnerRecords /\ runner \in [Runners -> RunnerRecords]
      BY AttemptAssumption DEF NoCall, AgentIInv, AgentTypeOK, RunnerRecords
    <3> QED
      BY <1>3, <3>1 DEF Returns
  <2>2. lapsed' \subseteq {u \in Tasks : Running(u)'}
    BY <1>3, <1>11 DEF AgentIInv, AgentTypeOK, Running
  <2>3. gate' \in GateRecords
    BY <1>3 DEF AgentIInv, AgentTypeOK, GateAfterResult, GateRecords, Waiting, ActionRequired
  <2> QED
    BY <1>3, <1>6, <1>11, <2>1, <2>2, <2>3 DEF AgentTypeOK, AgentIInv, Written
<1> QED
  BY <1>15, <1>16, <1>17 DEF AgentIInv

\* What is common to an answer without a result that counts, and to a lease that expired.
LEMMA EndedAttempt ==
    ASSUME AgentIInv, NEW t \in Tasks, Running(t), NEW verdict \in {"INTERRUPTED", "REJECTED", "FAILED"},
           attempt' = [attempt EXCEPT ![t][task[t].attempts].state = verdict]
    PROVE  Written(t, task[t].attempts, verdict)
<1>1. PICK n \in 1..MaxAttempts : n = task[t].attempts
  BY RunningRow DEF Last
<1>2. CASE verdict = "INTERRUPTED"
  BY <1>1, <1>2, AttemptWritten
<1>3. CASE verdict = "REJECTED"
  BY <1>1, <1>3, AttemptWritten
<1>4. CASE verdict = "FAILED"
  BY <1>1, <1>4, AttemptWritten
<1> QED
  BY <1>2, <1>3, <1>4

\* A call whose answer counts holds the running attempt of its task.
LEMMA FinishableTask ==
    ASSUME AgentIInv, NEW r \in Runners, Finishable(r), runner[r].outcome # "RESULT"
    PROVE  /\ runner[r].task \in Tasks /\ Running(runner[r].task)
           /\ runner[r].number = task[runner[r].task].attempts
BY DEF Finishable, AgentIInv, HolderOK

\* Agents are only paused.
LEMMA StaysAgents == AgentIInv => \A t \in Tasks : enabled \ {AgentOf[t]} \subseteq Agents
BY DEF AgentIInv, AgentTypeOK

\* The provider refused for certain.
LEMMA RejectedInv ==
    ASSUME AgentIInv, NEW r \in Runners, NEW automatic \in BOOLEAN, FinishRejected(r, automatic)
    PROVE  AgentIInv'
<1>1. PICK t \in Tasks : t = runner[r].task /\ Running(t) /\ runner[r].number = task[t].attempts
  BY FinishableTask DEF FinishRejected
<1>2. PICK state : state = IF task[t].attempts >= MaxAttempts THEN "FAILED" ELSE "QUEUED"
  OBVIOUS
<1>3. /\ task' = [task EXCEPT ![t].state = state]
      /\ attempt' = [attempt EXCEPT ![t][task[t].attempts].state = "REJECTED"]
      /\ gate' \in {Waiting, ActionRequired(t)}
      /\ enabled' = enabled \ {AgentOf[t]} \/ enabled' = enabled
      /\ lapsed' = lapsed \ {t} /\ (Returns(r) \/ UNCHANGED runner)
      /\ overdue' = overdue
  BY <1>1, <1>2 DEF FinishRejected, Persisted, Pauses
<1>4. PICK row \in TaskRecords :
         /\ task' = [task EXCEPT ![t] = row]
         /\ row.state = state /\ row.attempts = task[t].attempts /\ row.result = task[t].result
         /\ row.unknown = task[t].unknown
  <2> DEFINE row == [task[t] EXCEPT !.state = state]
  <2>1. task[t] \in TaskRecords
    BY DEF AgentIInv, AgentTypeOK
  <2>2. /\ row \in TaskRecords /\ row.state = state /\ row.attempts = task[t].attempts
        /\ row.result = task[t].result /\ row.unknown = task[t].unknown
    BY <1>2, <2>1 DEF TaskRecords
  <2>3. task' = [task EXCEPT ![t] = row]
    BY <1>3
  <2> HIDE DEF row
  <2> QED
    BY <2>2, <2>3
<1>5. Written(t, task[t].attempts, "REJECTED")
  BY <1>1, <1>3, EndedAttempt
<1>6. /\ row.state \in {"QUEUED", "FAILED"}
      /\ row.state = "QUEUED" => Last(t) < MaxAttempts
      /\ "REJECTED" \in Refused
  <2>1. task[t].attempts \in 0..MaxAttempts
    BY DEF AgentIInv, AgentTypeOK, TaskRecords
  <2> QED
    BY <1>2, <1>4, <2>1, AttemptAssumption DEF Last, Refused
<1>7. gate' \in GateRecords /\ enabled' \subseteq Agents /\ overdue' \subseteq Tasks
  BY <1>3, StaysAgents DEF Waiting, ActionRequired, GateRecords, AgentIInv, AgentTypeOK
<1>8. runner' = runner \/ \E q \in Runners : Returns(q)
  BY <1>3
<1> QED
  BY <1>1, <1>3, <1>4, <1>5, <1>6, <1>7, <1>8, AttemptEnds

\* The provider failed, or may have done the work.
LEMMA FailedInv ==
    ASSUME AgentIInv, NEW r \in Runners, FinishFailed(r)
    PROVE  AgentIInv'
<1>1. PICK t \in Tasks : t = runner[r].task /\ Running(t) /\ runner[r].number = task[t].attempts
  BY FinishableTask DEF FinishFailed
<1>2. PICK state \in {"INTERRUPTED", "FAILED"}, limited \in BOOLEAN :
         /\ state = IF runner[r].outcome = "UNCERTAIN" THEN "INTERRUPTED" ELSE "FAILED"
         /\ limited = (runner[r].outcome = "LIMITED")
  OBVIOUS
<1>3. /\ task' = [task EXCEPT ![t] = [task[t] EXCEPT !.state = state, !.limited = limited]]
      /\ attempt' = [attempt EXCEPT ![t][task[t].attempts].state = state]
      /\ enabled' = enabled \ {AgentOf[t]}
      /\ lapsed' = lapsed \ {t} /\ (Returns(r) \/ UNCHANGED runner)
      /\ UNCHANGED <<overdue, gate>>
  BY <1>1, <1>2 DEF FinishFailed, Persisted, Pauses
<1>4. PICK row \in TaskRecords :
         /\ task' = [task EXCEPT ![t] = row]
         /\ row.state = state /\ row.attempts = task[t].attempts /\ row.result = task[t].result
         /\ row.unknown = task[t].unknown
  <2> DEFINE row == [task[t] EXCEPT !.state = state, !.limited = limited]
  <2>1. task[t] \in TaskRecords
    BY DEF AgentIInv, AgentTypeOK
  <2>2. /\ row \in TaskRecords /\ row.state = state /\ row.attempts = task[t].attempts
        /\ row.result = task[t].result /\ row.unknown = task[t].unknown
    BY <2>1 DEF TaskRecords
  <2>3. task' = [task EXCEPT ![t] = row]
    BY <1>3
  <2> HIDE DEF row
  <2> QED
    BY <2>2, <2>3
<1>5. Written(t, task[t].attempts, state)
  BY <1>1, <1>3, EndedAttempt
<1>6. enabled' \subseteq Agents /\ overdue' \subseteq Tasks /\ gate' \in GateRecords
  BY <1>3, StaysAgents DEF AgentIInv, AgentTypeOK
<1>7. runner' = runner \/ \E q \in Runners : Returns(q)
  BY <1>3
<1>8. /\ row.state \in {"QUEUED", "FAILED"} => state \in Refused
      /\ row.state \in {"QUEUED", "FAILED", "INTERRUPTED"} /\ row.state # "QUEUED"
      /\ state \in {"INTERRUPTED", "REJECTED", "FAILED"}
  BY <1>4 DEF Refused
<1>9. lapsed' = lapsed \ {t}
  BY <1>3
<1> QED
  BY <1>1, <1>4, <1>5, <1>6, <1>7, <1>8, <1>9, AttemptEnds

\* A lease that expired is given up.
LEMMA HeartbeatInv ==
    ASSUME AgentIInv, NEW t \in Tasks, Heartbeat(t)
    PROVE  AgentIInv'
<1>1. PICK row \in TaskRecords :
         /\ task' = [task EXCEPT ![t] = row]
         /\ row.state = "INTERRUPTED" /\ row.attempts = task[t].attempts /\ row.result = task[t].result
         /\ row.unknown = task[t].unknown
  <2> DEFINE row == [task[t] EXCEPT !.state = "INTERRUPTED"]
  <2>1. task[t] \in TaskRecords
    BY DEF AgentIInv, AgentTypeOK
  <2>2. /\ row \in TaskRecords /\ row.state = "INTERRUPTED" /\ row.attempts = task[t].attempts
        /\ row.result = task[t].result /\ row.unknown = task[t].unknown
    BY <2>1 DEF TaskRecords
  <2>3. task' = [task EXCEPT ![t] = row]
    BY DEF Heartbeat
  <2> HIDE DEF row
  <2> QED
    BY <2>2, <2>3
<1>2. Written(t, task[t].attempts, "INTERRUPTED") /\ Running(t)
  BY EndedAttempt DEF Heartbeat
<1>3. /\ enabled' \subseteq Agents /\ overdue' \subseteq Tasks /\ gate' \in GateRecords
      /\ lapsed' = lapsed \ {t} /\ runner' = runner
  BY StaysAgents DEF Heartbeat, Pauses, AgentIInv, AgentTypeOK
<1> QED
  BY <1>1, <1>2, <1>3, AttemptEnds

-----------------------------------------------------------------------------
\* The other steps.

\* An administrator queues, decides or retries a task, or a claim of it is denied.
LEMMA DecisionsInv ==
    ASSUME AgentIInv, NEW t \in Tasks,
           Enqueue(t) \/ DecideTask(t) \/ RetryRejectedTask(t) \/ DenyTask(t)
    PROVE  AgentIInv'
<1>1. /\ task \in [Tasks -> TaskRecords] /\ task[t] \in TaskRecords /\ RowOK(t)
      /\ UNCHANGED <<attempt, clocks, enabled, gate, runner>>
  BY DEF Enqueue, DecideTask, RetryRejectedTask, DenyTask, AgentIInv, AgentTypeOK
<1>2. PICK row \in TaskRecords :
         /\ task' = [task EXCEPT ![t] = row]
         /\ row.attempts = task[t].attempts /\ row.result = task[t].result /\ row.unknown = task[t].unknown
         /\ \/ row.state = "QUEUED" /\ task[t].state = "NONE"
            \/ row.state = "CANCELLED" /\ task[t].state = "QUEUED"
            \/ row.state = "REVIEWED" /\ task[t].state \in {"FAILED", "INTERRUPTED"}
            \/ row.state = "QUEUED" /\ task[t].state = "FAILED" /\ task[t].attempts < MaxAttempts
            \/ row.state = "FAILED" /\ task[t].state = "QUEUED"
  <2>1. PICK state \in {"QUEUED", "CANCELLED", "REVIEWED", "FAILED"}, limited \in BOOLEAN :
           /\ task' = [task EXCEPT ![t] = [task[t] EXCEPT !.state = state, !.limited = limited]]
           /\ \/ state = "QUEUED" /\ task[t].state = "NONE"
              \/ state = "CANCELLED" /\ task[t].state = "QUEUED"
              \/ state = "REVIEWED" /\ task[t].state \in {"FAILED", "INTERRUPTED"}
              \/ state = "QUEUED" /\ task[t].state = "FAILED" /\ task[t].attempts < MaxAttempts
              \/ state = "FAILED" /\ task[t].state = "QUEUED"
    <3>1. task[t].limited \in BOOLEAN /\ \A state : [task[t] EXCEPT !.state = state] = [task[t] EXCEPT !.state = state, !.limited = task[t].limited]
      BY <1>1 DEF TaskRecords
    <3>2. CASE Enqueue(t)
      <4>1. task' = [task EXCEPT ![t] = [task[t] EXCEPT !.state = "QUEUED"]] /\ task[t].state = "NONE"
        BY <3>2 DEF Enqueue
      <4> QED
        BY <3>1, <4>1
    <3>3. CASE DecideTask(t)
      <4>1. /\ task[t].state \in {"QUEUED", "FAILED", "INTERRUPTED"}
            /\ task' = [task EXCEPT ![t] = [task[t] EXCEPT !.state = IF task[t].state = "QUEUED" THEN "CANCELLED" ELSE "REVIEWED"]]
        BY <3>3 DEF DecideTask
      <4> QED
        BY <3>1, <4>1
    <3>4. CASE RetryRejectedTask(t)
      BY <3>4 DEF RetryRejectedTask
    <3>5. CASE DenyTask(t)
      <4>1. task' = [task EXCEPT ![t] = [task[t] EXCEPT !.state = "FAILED"]] /\ task[t].state = "QUEUED"
        BY <3>5 DEF DenyTask, Claimable
      <4> QED
        BY <3>1, <4>1
    <3> QED
      BY <3>2, <3>3, <3>4, <3>5
  <2> DEFINE row == [task[t] EXCEPT !.state = state, !.limited = limited]
  <2>2. /\ row \in TaskRecords /\ row.state = state /\ row.attempts = task[t].attempts
        /\ row.result = task[t].result /\ row.unknown = task[t].unknown
    BY <1>1 DEF TaskRecords
  <2>3. task' = [task EXCEPT ![t] = row]
    BY <2>1
  <2> HIDE DEF row
  <2> QED
    BY <2>1, <2>2, <2>3
<1>3. row.state \notin {"NONE", "RUNNING"} /\ ~Running(t)
  BY <1>2 DEF Running
<1>4. row.state = "QUEUED" => Last(t) < MaxAttempts
  BY <1>1, <1>2, AttemptAssumption DEF RowOK, Last
<1>5. row.state \in {"QUEUED", "FAILED"} /\ ~task[t].result =>
         task[t].state \in {"QUEUED", "FAILED"} \/ Last(t) = 0
  BY <1>1, <1>2 DEF RowOK
<1>6. attempt' = attempt /\ runner' = runner /\ lapsed' = lapsed
  BY <1>1 DEF clocks
<1>7. overdue' \subseteq Tasks /\ enabled' \subseteq Agents /\ gate' \in GateRecords
  BY <1>1 DEF clocks, AgentIInv, AgentTypeOK
<1> QED
  BY <1>2, <1>3, <1>4, <1>5, <1>6, <1>7, StateMoves

\* Time, the gate and the agents' switches are no part of the invariant but their types.
LEMMA SurroundingsInv ==
    ASSUME AgentIInv, UNCHANGED <<task, attempt, runner>>, lapsed' \subseteq {t \in Tasks : Running(t)},
           overdue' \subseteq Tasks, enabled' \subseteq Agents, gate' \in GateRecords
    PROVE  AgentIInv'
<1>1. ASSUME NEW t \in Tasks PROVE RowOK(t)'
  <2>1. Unsettled(t)' = Unsettled(t)
    BY DEF Unsettled
  <2> QED
    BY <2>1 DEF AgentIInv, RowOK, Last, Running
<1> QED
  BY <1>1 DEF AgentIInv, AgentTypeOK, Running, HolderOK, Alone

\* An answer is received.
LEMMA AnswerInv ==
    ASSUME AgentIInv, NEW r \in Runners, NEW o \in Outcomes, Answer(r, o)
    PROVE  AgentIInv'
<1>1. /\ runner \in [Runners -> RunnerRecords] /\ runner[r] \in RunnerRecords /\ runner[r].stage = "asked"
      /\ UNCHANGED <<task, attempt, clocks, enabled, gate>>
  BY DEF Answer, AgentIInv, AgentTypeOK
<1>2. PICK call \in RunnerRecords :
         /\ runner' = [runner EXCEPT ![r] = call]
         /\ call.stage = "answered" /\ call.task = runner[r].task /\ call.number = runner[r].number
  <2> DEFINE call == [runner[r] EXCEPT !.stage = "answered", !.outcome = o]
  <2>1. /\ call \in RunnerRecords /\ call.stage = "answered"
        /\ call.task = runner[r].task /\ call.number = runner[r].number
    BY <1>1 DEF RunnerRecords
  <2>2. runner' = [runner EXCEPT ![r] = call]
    BY DEF Answer
  <2> HIDE DEF call
  <2> QED
    BY <2>1, <2>2
<1>3. /\ runner' \in [Runners -> RunnerRecords] /\ runner'[r] = call
      /\ \A q \in Runners \ {r} : runner'[q] = runner[q]
  BY <1>1, <1>2
<1>4. \A q \in Runners : /\ runner'[q].stage = "idle" <=> runner[q].stage = "idle"
                         /\ runner'[q].stage = "claimed" <=> runner[q].stage = "claimed"
                         /\ runner'[q].task = runner[q].task /\ runner'[q].number = runner[q].number
  BY <1>1, <1>2, <1>3
<1>5. \A u \in Tasks : task[u].attempts \in Nat
  BY AttemptAssumption DEF AgentIInv, AgentTypeOK, TaskRecords
<1>6. (\A q \in Runners : HolderOK(q)') /\ (\A p, q \in Runners : Alone(p, q)')
  BY <1>1, <1>4, <1>5, HoldersKept
<1>7. ASSUME NEW t \in Tasks PROVE RowOK(t)'
  <2>1. Unsettled(t)' = Unsettled(t)
    BY <1>1 DEF Unsettled
  <2> QED
    BY <1>1, <2>1 DEF AgentIInv, RowOK, Last, Running
<1> QED
  BY <1>1, <1>3, <1>6, <1>7 DEF AgentIInv, AgentTypeOK, clocks, Running

\* Every step of the runtime.
LEMMA AgentStepInv == AgentIInv /\ [AgentNext]_agentVars => AgentIInv'
<1> SUFFICES ASSUME AgentIInv, [AgentNext]_agentVars PROVE AgentIInv'
  OBVIOUS
<1>1. ASSUME NEW t \in Tasks,
             Enqueue(t) \/ DecideTask(t) \/ RetryRejectedTask(t) \/ DenyTask(t)
      PROVE  AgentIInv'
  BY <1>1, DecisionsInv
<1>2. ASSUME NEW t \in Tasks, GiveUpRecovery(t) \/ LeaseExpires(t) \/ WindowEnds(t) PROVE AgentIInv'
  <2>1. /\ UNCHANGED <<task, attempt, runner>> /\ lapsed' \subseteq {u \in Tasks : Running(u)}
        /\ overdue' \subseteq Tasks /\ enabled' \subseteq Agents /\ gate' \in GateRecords
    BY <1>2 DEF GiveUpRecovery, LeaseExpires, WindowEnds, ActionRequired, GateRecords, clocks,
       AgentIInv, AgentTypeOK
  <2> QED
    BY <2>1, SurroundingsInv
<1>3. ASSUME NEW t \in Tasks, Heartbeat(t) PROVE AgentIInv'
  BY <1>3, HeartbeatInv
<1>4. ASSUME NEW r \in Runners, NEW t \in Tasks, Claim(r, t) PROVE AgentIInv'
  BY <1>4, ClaimInv
<1>5. ASSUME NEW r \in Runners, Dispatch(r) PROVE AgentIInv'
  BY <1>5, DispatchInv
<1>6. ASSUME NEW r \in Runners, FinishNothing(r) \/ Crash(r) PROVE AgentIInv'
  BY <1>6, CallsReturn DEF FinishNothing, Crash
<1>7. ASSUME NEW r \in Runners, FinishResult(r) PROVE AgentIInv'
  BY <1>7, ResultInv
<1>8. ASSUME NEW r \in Runners, FinishFailed(r) PROVE AgentIInv'
  BY <1>8, FailedInv
<1>9. ASSUME NEW r \in Runners, NEW o \in Outcomes, Answer(r, o) PROVE AgentIInv'
  BY <1>9, AnswerInv
<1>10. ASSUME NEW r \in Runners, NEW automatic \in BOOLEAN, FinishRejected(r, automatic) PROVE AgentIInv'
  BY <1>10, RejectedInv
<1>11. ASSUME NEW a \in Agents, Control(a) PROVE AgentIInv'
  <2>1. /\ UNCHANGED <<task, attempt, runner>> /\ lapsed' \subseteq {u \in Tasks : Running(u)}
        /\ overdue' \subseteq Tasks /\ enabled' \subseteq Agents /\ gate' \in GateRecords
    BY <1>11 DEF Control, clocks, AgentIInv, AgentTypeOK
  <2> QED
    BY <2>1, SurroundingsInv
<1>12. CASE RecoverProvider \/ WaitEnds
  <2>1. /\ UNCHANGED <<task, attempt, runner>> /\ lapsed' \subseteq {u \in Tasks : Running(u)}
        /\ overdue' \subseteq Tasks /\ enabled' \subseteq Agents /\ gate' \in GateRecords
    BY <1>12 DEF RecoverProvider, WaitEnds, GateRecords, clocks, AgentIInv, AgentTypeOK
  <2> QED
    BY <2>1, SurroundingsInv
<1>13. CASE UNCHANGED agentVars
  BY <1>13, SurroundingsInv DEF agentVars, clocks, AgentIInv, AgentTypeOK
<1>14. CASE AgentNext
  BY <1>1, <1>2, <1>3, <1>4, <1>5, <1>6, <1>7, <1>8, <1>9, <1>10, <1>11, <1>12, <1>14 DEF AgentNext
<1> QED
  BY <1>13, <1>14

\* The invariant holds in every reachable state, whatever else runs on top of the runtime.
LEMMA AgentInvariance == AgentInit /\ [][AgentNext]_agentVars => []AgentIInv
BY AgentInitInv, AgentStepInv, PTL

-----------------------------------------------------------------------------
\* What the runtime promises.

\* Every row keeps its type: the attempts never pass their limit, nor does the unknown cost.
THEOREM AgentTypes == AgentSpec => []AgentTypeOK
<1>1. AgentIInv => AgentTypeOK
  BY DEF AgentIInv
<1> QED
  BY <1>1, AgentInvariance, PTL DEF AgentSpec

\* agent-runtime.service claim() and retryRejectedTask(): an attempt whose outcome nobody knows,
\* or that brought a result, is not followed by another one.
THEOREM UnknownIsFinal == AgentSpec => []UnknownIsNotRepeated
BY AgentPromises, AgentInvariance, PTL DEF AgentSpec

\* The receipts of the attempts agree with the rows of their tasks.
THEOREM ReceiptsHold == AgentSpec => []ReceiptsAgree
BY AgentPromises, AgentInvariance, PTL DEF AgentSpec

\* Only the state of one attempt is written.
StateWritten(u, m, state) == attempt' = [attempt EXCEPT ![u][m].state = state]

\* Writing the state of an attempt does not tell whether it was dispatched.
LEMMA StateOnly ==
    ASSUME AgentIInv, NEW u, NEW m, NEW state, StateWritten(u, m, state),
           NEW t \in Tasks, NEW n \in 1..MaxAttempts
    PROVE  attempt'[t][n].dispatched = attempt[t][n].dispatched
<1>1. attempt \in [Tasks -> [1..MaxAttempts -> AttemptRecords]] /\ attempt[t][n] \in AttemptRecords
  BY DEF AgentIInv, AgentTypeOK
<1>2. attempt'[t][n] = attempt[t][n] \/ attempt'[t][n] = [attempt[t][n] EXCEPT !.state = state]
  BY <1>1 DEF StateWritten
<1> QED
  BY <1>1, <1>2 DEF AttemptRecords

\* Every step leaves the attempts alone, writes the state of one, or dispatches the last one.
LEMMA StepsOfAttempts ==
    ASSUME AgentNext
    PROVE  \/ attempt' = attempt
           \/ \E u, m, state : StateWritten(u, m, state)
           \/ \E r \in Runners : Dispatch(r)
<1>1. ASSUME NEW u \in Tasks,
             \/ Enqueue(u) \/ DecideTask(u) \/ RetryRejectedTask(u) \/ DenyTask(u)
             \/ GiveUpRecovery(u) \/ LeaseExpires(u) \/ WindowEnds(u)
      PROVE  attempt' = attempt
  BY <1>1 DEF Enqueue, DecideTask, RetryRejectedTask, DenyTask, GiveUpRecovery, LeaseExpires, WindowEnds
<1>2. ASSUME NEW r \in Runners, FinishNothing(r) \/ Crash(r) \/ \E o \in Outcomes : Answer(r, o)
      PROVE  attempt' = attempt
  BY <1>2 DEF FinishNothing, Crash, Answer
<1>3. ASSUME (\E a \in Agents : Control(a)) \/ RecoverProvider \/ WaitEnds
      PROVE  attempt' = attempt
  BY <1>3 DEF Control, RecoverProvider, WaitEnds
<1>4. ASSUME NEW u \in Tasks, Heartbeat(u)
      PROVE  StateWritten(u, task[u].attempts, "INTERRUPTED")
  BY <1>4 DEF Heartbeat, StateWritten
<1>5. ASSUME NEW u \in Tasks, NEW r \in Runners, Claim(r, u)
      PROVE  StateWritten(u, task[u].attempts + 1, "RUNNING")
  BY <1>5 DEF Claim, StateWritten
<1>6. ASSUME NEW r \in Runners, FinishResult(r)
      PROVE  StateWritten(runner[r].task, runner[r].number,
                          IF ~Running(runner[r].task) THEN "LATE_RESULT" ELSE "COMPLETED")
  BY <1>6 DEF FinishResult, StateWritten
<1>7. ASSUME NEW r \in Runners, FinishFailed(r)
      PROVE  StateWritten(runner[r].task, runner[r].number,
                          IF runner[r].outcome = "UNCERTAIN" THEN "INTERRUPTED" ELSE "FAILED")
  BY <1>7 DEF FinishFailed, StateWritten
<1>8. ASSUME NEW r \in Runners, NEW automatic \in BOOLEAN, FinishRejected(r, automatic)
      PROVE  StateWritten(runner[r].task, runner[r].number, "REJECTED")
  BY <1>8 DEF FinishRejected, StateWritten
<1> QED
  BY <1>1, <1>2, <1>3, <1>4, <1>5, <1>6, <1>7, <1>8, Zenon DEF AgentNext

\* What a step leaves of the attempts that were given up.
LEMMA GivenUpStep ==
    ASSUME AgentIInv, [AgentNext]_agentVars
    PROVE  [\A t \in Tasks : \A n \in Made(t) :
               attempt[t][n].state # "RUNNING" =>
                  attempt'[t][n].dispatched = attempt[t][n].dispatched]_agentVars
<1> SUFFICES ASSUME AgentNext, NEW t \in Tasks, NEW n \in Made(t), attempt[t][n].state # "RUNNING"
             PROVE  attempt'[t][n].dispatched = attempt[t][n].dispatched
  OBVIOUS
<1>1. RowOK(t) /\ n \in 1..MaxAttempts /\ task[t].attempts \in 0..MaxAttempts
  BY AttemptAssumption DEF AgentIInv, AgentTypeOK, TaskRecords, Made
<1>2. CASE attempt' = attempt
  BY <1>2
<1>3. CASE \E u, m, state : StateWritten(u, m, state)
  BY <1>1, <1>3, StateOnly
<1>4. ASSUME NEW r \in Runners, Dispatch(r)
      PROVE  attempt'[t][n].dispatched = attempt[t][n].dispatched
  <2>1. PICK u, m : u = runner[r].task /\ m = runner[r].number
    OBVIOUS
  <2>2. \/ attempt' = attempt
        \/ /\ attempt' = [attempt EXCEPT ![u][m].dispatched = TRUE]
           /\ task[u].attempts = m /\ Running(u)
    BY <1>4, <2>1 DEF Dispatch
  <2>3. CASE u = t /\ m = n
    BY <1>1, <1>2, <2>2, <2>3 DEF RowOK, Last
  <2>4. CASE ~(u = t /\ m = n)
    <3>1. attempt \in [Tasks -> [1..MaxAttempts -> AttemptRecords]]
      BY DEF AgentIInv, AgentTypeOK
    <3>2. attempt'[t][n] = attempt[t][n]
      BY <1>1, <2>2, <2>4, <3>1
    <3> QED
      BY <3>2
  <2> QED
    BY <2>3, <2>4
<1> QED
  BY <1>2, <1>3, <1>4, StepsOfAttempts

\* What was given up before it was dispatched is not dispatched any more.
THEOREM GivenUpStays == AgentSpec => GivenUpIsNotAsked
BY GivenUpStep, AgentInvariance, PTL DEF AgentSpec, GivenUpIsNotAsked

==============================================================================
