------------------------- MODULE ReportCycles_proofs -------------------------
(***************************************************************************)
(* Proofs about the reports: one attempt of a delivery is in hand at most, *)
(* a report counts as delivered only when the provider has it, what has    *)
(* ended stays so, and the reports use the runtime by its own steps, so    *)
(* that all it promises holds under them.                                  *)
(***************************************************************************)
EXTENDS ReportCycles, AgentRuntime_proofs

-----------------------------------------------------------------------------
\* The inductive invariant.

Holds(m) == mailer[m].stage \in {"claimed", "sent"}

\* A notification and its cycle move together, and only a pending one is attempted or deferred.
DeliveryOK(c) ==
    /\ cycle[c].state \in {"NONE", "REVIEWING", "FORMATTING"} => note[c].status = "NONE"
    /\ note[c].status = "PENDING" <=> cycle[c].state = "EMAIL_PENDING"
    /\ note[c].status = "SENT" => cycle[c].state = "COMPLETE" /\ c \in mailed
    /\ note[c].status = "FAILED" => cycle[c].state = "ATTENTION_REQUIRED"
    /\ note[c].delivery \in {"ATTEMPTING", "DEFERRED"} => note[c].status = "PENDING"

\* A mailer has a notification, and one that holds an attempt holds the last one, which is still
\* under way or was given up for good.
MailerOK(m) ==
    mailer[m].stage # "idle" =>
       /\ mailer[m].cycle \in Cycles /\ note[mailer[m].cycle].status # "NONE"
       /\ Holds(m) =>
             /\ note[mailer[m].cycle].attempts = mailer[m].attempt
             /\ note[mailer[m].cycle].delivery = "ATTEMPTING" \/ note[mailer[m].cycle].status = "FAILED"
       /\ mailer[m].stage = "sent" /\ mailer[m].outcome = "ACCEPTED" => mailer[m].cycle \in mailed

HoldsAlone(m, k) == Holds(m) /\ Holds(k) /\ mailer[m].cycle = mailer[k].cycle => m = k

ReportIInv ==
    /\ ReportTypeOK
    /\ \A c \in Cycles : DeliveryOK(c)
    /\ \A m \in Mailers : MailerOK(m)
    /\ \A m, k \in Mailers : HoldsAlone(m, k)

LEMMA ReportInitInv == ReportInit => ReportIInv
<1> SUFFICES ASSUME ReportInit PROVE ReportIInv
  OBVIOUS
<1>1. NoMail \in MailerRecords /\ NoMail.stage = "idle"
  BY SendAssumption DEF NoMail, MailerRecords
<1>2. ReportTypeOK
  BY <1>1, SendAssumption DEF ReportInit, ReportTypeOK, CycleRecords, NoteRecords, Ended
<1> QED
  BY <1>1, <1>2 DEF ReportInit, ReportIInv, DeliveryOK, MailerOK, HoldsAlone, Holds

LEMMA ReportIsKept == ASSUME ReportIInv, UNCHANGED reports PROVE ReportIInv'
  BY DEF reports, ReportIInv, ReportTypeOK, DeliveryOK, MailerOK, HoldsAlone, Holds

-----------------------------------------------------------------------------
\* The steps.

\* Before its report is written a cycle has no notification, so nobody mails it.
LEMMA CycleMoves ==
    ASSUME ReportIInv, NEW c \in Cycles, NEW crow \in CycleRecords, NEW nrow \in NoteRecords,
           cycle' = [cycle EXCEPT ![c] = crow], note' = [note EXCEPT ![c] = nrow],
           UNCHANGED <<mailer, mailed>>,
           cycle[c].state \in {"NONE", "REVIEWING", "FORMATTING"},
           nrow.status \in {"NONE", "PENDING"}, nrow.delivery = note[c].delivery,
           nrow.attempts = note[c].attempts,
           crow.state = "EMAIL_PENDING" <=> nrow.status = "PENDING"
    PROVE  ReportIInv'
<1>1. cycle' \in [Cycles -> CycleRecords] /\ note' \in [Cycles -> NoteRecords]
  BY DEF ReportIInv, ReportTypeOK
<1>2. /\ cycle'[c] = crow /\ note'[c] = nrow
      /\ \A d \in Cycles \ {c} : cycle'[d] = cycle[d] /\ note'[d] = note[d]
  BY DEF ReportIInv, ReportTypeOK
<1>3. note[c].status = "NONE" /\ note[c].delivery \notin {"ATTEMPTING", "DEFERRED"}
  BY DEF ReportIInv, DeliveryOK
<1>4. \A d \in Cycles : DeliveryOK(d)'
  BY <1>2, <1>3 DEF ReportIInv, DeliveryOK
<1>5. ASSUME NEW m \in Mailers PROVE MailerOK(m)'
  BY <1>2, <1>3 DEF ReportIInv, MailerOK, Holds
<1>6. \A m, k \in Mailers : HoldsAlone(m, k)'
  BY DEF ReportIInv, HoldsAlone, Holds
<1>7. ReportTypeOK'
  BY <1>1, <1>2, <1>3 DEF ReportIInv, ReportTypeOK
<1> QED
  BY <1>4, <1>5, <1>6, <1>7 DEF ReportIInv

\* A mailer's step on its notification: it may take an attempt nobody holds, and what others
\* hold stays theirs or is given up.
LEMMA DeliveryMoves ==
    ASSUME ReportIInv, NEW c \in Cycles, NEW m \in Mailers,
           NEW crow \in CycleRecords, NEW nrow \in NoteRecords, NEW mrow \in MailerRecords,
           cycle' = [cycle EXCEPT ![c] = crow], note' = [note EXCEPT ![c] = nrow],
           mailer' = [mailer EXCEPT ![m] = mrow],
           mailed \subseteq mailed', mailed' \subseteq Cycles,
           note[c].status # "NONE",
           \/ nrow.status = "PENDING" /\ crow.state = "EMAIL_PENDING"
           \/ nrow.status = "SENT" /\ crow.state = "COMPLETE" /\ c \in mailed'
           \/ nrow.status = "FAILED" /\ crow.state = "ATTENTION_REQUIRED",
           nrow.delivery \in {"ATTEMPTING", "DEFERRED"} => nrow.status = "PENDING",
           nrow.delivery = "DEFERRED" => nrow.attempts < MaxSends,
           mrow.stage # "idle" => mrow.cycle = c,
           mrow.stage \in {"claimed", "sent"} =>
              nrow.attempts = mrow.attempt /\ (nrow.delivery = "ATTEMPTING" \/ nrow.status = "FAILED"),
           mrow.stage = "sent" /\ mrow.outcome = "ACCEPTED" => c \in mailed',
           \A k \in Mailers \ {m} : Holds(k) /\ mailer[k].cycle = c =>
              /\ mrow.stage \notin {"claimed", "sent"}
              /\ nrow.attempts = note[c].attempts
              /\ nrow.delivery = "ATTEMPTING" \/ nrow.status = "FAILED"
    PROVE  ReportIInv'
<1>1. /\ cycle' \in [Cycles -> CycleRecords] /\ note' \in [Cycles -> NoteRecords]
      /\ mailer' \in [Mailers -> MailerRecords]
  BY DEF ReportIInv, ReportTypeOK
<1>2. /\ cycle'[c] = crow /\ note'[c] = nrow /\ mailer'[m] = mrow
      /\ \A d \in Cycles \ {c} : cycle'[d] = cycle[d] /\ note'[d] = note[d]
      /\ \A k \in Mailers \ {m} : mailer'[k] = mailer[k]
  BY DEF ReportIInv, ReportTypeOK
<1>3. \A d \in Cycles : DeliveryOK(d)'
  BY <1>2 DEF ReportIInv, DeliveryOK
<1>4. MailerOK(m)'
  BY <1>2 DEF MailerOK, Holds
<1>5. ASSUME NEW k \in Mailers \ {m} PROVE MailerOK(k)'
  <2>1. CASE mailer[k].cycle = c
    BY <1>2, <2>1 DEF ReportIInv, MailerOK, Holds
  <2>2. CASE mailer[k].cycle # c
    BY <1>2, <2>2 DEF ReportIInv, MailerOK, Holds
  <2> QED
    BY <2>1, <2>2
<1>6. \A k, l \in Mailers : HoldsAlone(k, l)'
  BY <1>2 DEF ReportIInv, HoldsAlone, Holds
<1>7. ReportTypeOK'
  BY <1>1, <1>2 DEF ReportIInv, ReportTypeOK
<1> QED
  BY <1>3, <1>4, <1>5, <1>6, <1>7 DEF ReportIInv

\* The mailer writes its own row only: it keeps what it holds, or lets it go.
LEMMA MailerMoves ==
    ASSUME ReportIInv, NEW m \in Mailers, NEW mrow \in MailerRecords,
           UNCHANGED <<cycle, note>>, mailer' = [mailer EXCEPT ![m] = mrow],
           mailed \subseteq mailed', mailed' \subseteq Cycles,
           mrow.stage # "idle" => mrow.cycle \in Cycles /\ note[mrow.cycle].status # "NONE",
           mrow.stage \in {"claimed", "sent"} =>
              Holds(m) /\ mrow.cycle = mailer[m].cycle /\ mrow.attempt = mailer[m].attempt,
           mrow.stage = "sent" /\ mrow.outcome = "ACCEPTED" => mrow.cycle \in mailed'
    PROVE  ReportIInv'
<1>1. mailer' \in [Mailers -> MailerRecords]
  BY DEF ReportIInv, ReportTypeOK
<1>2. mailer'[m] = mrow /\ \A k \in Mailers \ {m} : mailer'[k] = mailer[k]
  BY DEF ReportIInv, ReportTypeOK
<1>3. \A d \in Cycles : DeliveryOK(d)'
  BY DEF ReportIInv, DeliveryOK
<1>4. MailerOK(m)'
  BY <1>2 DEF ReportIInv, MailerOK, Holds
<1>5. ASSUME NEW k \in Mailers \ {m} PROVE MailerOK(k)'
  BY <1>2 DEF ReportIInv, MailerOK, Holds
<1>6. \A k, l \in Mailers : HoldsAlone(k, l)'
  BY <1>2 DEF ReportIInv, HoldsAlone, Holds
<1>7. ReportTypeOK'
  BY <1>1 DEF ReportIInv, ReportTypeOK
<1> QED
  BY <1>3, <1>4, <1>5, <1>6, <1>7 DEF ReportIInv

LEMMA CycleInv ==
    ASSUME ReportIInv, NEW c \in Cycles,
           (\E mail \in BOOLEAN : StartCycle(c, mail)) \/ QueueReport(c) \/ FinishReport(c) \/ StopCycle(c)
    PROVE  ReportIInv'
<1>1. /\ cycle \in [Cycles -> CycleRecords] /\ note \in [Cycles -> NoteRecords]
      /\ cycle[c] \in CycleRecords /\ note[c] \in NoteRecords
  BY DEF ReportIInv, ReportTypeOK
<1>2. cycle[c].state \in {"NONE", "REVIEWING", "FORMATTING"} /\ UNCHANGED <<mailer, mailed>>
  BY DEF StartCycle, QueueReport, FinishReport, StopCycle
<1>3. note[c].status = "NONE"
  BY <1>2 DEF ReportIInv, DeliveryOK
<1>4. \A state \in {"REVIEWING", "FORMATTING", "EMAIL_PENDING", "COMPLETE", "ATTENTION_REQUIRED"} :
         /\ [cycle[c] EXCEPT !.state = state] \in CycleRecords
         /\ [cycle[c] EXCEPT !.state = state].state = state
  BY <1>1 DEF CycleRecords, Ended
<1>5. PICK crow \in CycleRecords :
         /\ cycle' = [cycle EXCEPT ![c] = crow]
         /\ FinishReport(c) \/ crow.state # "EMAIL_PENDING"
  <2>1. CASE \E mail \in BOOLEAN : StartCycle(c, mail)
    <3> PICK mail \in BOOLEAN : StartCycle(c, mail)
      BY <2>1
    <3>1. [state |-> "REVIEWING", sendEmail |-> mail] \in CycleRecords
      BY DEF CycleRecords
    <3> QED
      BY <3>1 DEF StartCycle
  <2>2. CASE QueueReport(c)
    BY <1>4, <2>2 DEF QueueReport
  <2>3. CASE FinishReport(c)
    <3> DEFINE end == CASE task[TaskOf[c]].state # "COMPLETED" -> "ATTENTION_REQUIRED"
                        [] cycle[c].sendEmail -> "EMAIL_PENDING"
                        [] OTHER -> "COMPLETE"
    <3>0. cycle' = [cycle EXCEPT ![c].state = end]
      BY <2>3 DEF FinishReport
    <3>a. end \in {"EMAIL_PENDING", "COMPLETE", "ATTENTION_REQUIRED"}
      OBVIOUS
    <3> HIDE DEF end
    <3>1. PICK state \in {"EMAIL_PENDING", "COMPLETE", "ATTENTION_REQUIRED"} :
             cycle' = [cycle EXCEPT ![c].state = state]
      BY <3>0, <3>a
    <3> QED
      BY <1>4, <2>3, <3>1
  <2>4. CASE StopCycle(c)
    BY <1>4, <2>4 DEF StopCycle
  <2> QED
    BY <2>1, <2>2, <2>3, <2>4
<1>6. cycle'[c] = crow
  BY <1>1, <1>5
<1>7. CASE crow.state # "EMAIL_PENDING"
  <2>1. note' = note
    BY <1>6, <1>7 DEF StartCycle, QueueReport, FinishReport, StopCycle
  <2>2. note' = [note EXCEPT ![c] = note[c]]
    BY <1>1, <2>1
  <2> QED
    BY <1>1, <1>2, <1>3, <1>5, <1>7, <2>2, CycleMoves
<1>8. CASE crow.state = "EMAIL_PENDING"
  <2> DEFINE nrow == [note[c] EXCEPT !.status = "PENDING", !.due = TRUE]
  <2>1. /\ nrow \in NoteRecords /\ nrow.status = "PENDING" /\ nrow.delivery = note[c].delivery
        /\ nrow.attempts = note[c].attempts
    BY <1>1 DEF NoteRecords
  <2>2. note' = [note EXCEPT ![c] = nrow]
    BY <1>5, <1>6, <1>8 DEF FinishReport
  <2> HIDE DEF nrow
  <2> QED
    BY <1>2, <1>5, <1>8, <2>1, <2>2, CycleMoves
<1> QED
  BY <1>7, <1>8

LEMMA DueInv == ASSUME ReportIInv, NEW c \in Cycles, BecomesDue(c) PROVE ReportIInv'
<1>1. note \in [Cycles -> NoteRecords] /\ note[c] \in NoteRecords /\ UNCHANGED <<cycle, mailer, mailed>>
  BY DEF ReportIInv, ReportTypeOK, BecomesDue
<1>2. /\ note' \in [Cycles -> NoteRecords]
      /\ \A d \in Cycles : /\ note'[d].status = note[d].status /\ note'[d].delivery = note[d].delivery
                           /\ note'[d].attempts = note[d].attempts
  BY <1>1 DEF BecomesDue, NoteRecords
<1>3. \A d \in Cycles : DeliveryOK(d)'
  BY <1>1, <1>2 DEF ReportIInv, DeliveryOK
<1>4. \A m \in Mailers : MailerOK(m)'
  BY <1>1, <1>2 DEF ReportIInv, MailerOK, Holds
<1>5. \A m, k \in Mailers : HoldsAlone(m, k)'
  BY <1>1 DEF ReportIInv, HoldsAlone, Holds
<1>6. ReportTypeOK'
  BY <1>1, <1>2 DEF ReportIInv, ReportTypeOK
<1> QED
  BY <1>3, <1>4, <1>5, <1>6 DEF ReportIInv

\* A mailer that leaves, or looks at what is due, or is denied, disturbs nothing.
LEMMA NoMailOK == NoMail \in MailerRecords /\ NoMail.stage = "idle"
  BY SendAssumption DEF NoMail, MailerRecords

LEMMA LeavesInv ==
    ASSUME ReportIInv, NEW m \in Mailers, Leaves(m), UNCHANGED <<cycle, note, mailed>>
    PROVE  ReportIInv'
<1>1. mailed' \subseteq Cycles
  BY DEF ReportIInv, ReportTypeOK
<1> QED
  BY <1>1, NoMailOK, MailerMoves DEF Leaves

LEMMA FindsInv ==
    ASSUME ReportIInv, NEW m \in Mailers, (\E c \in Cycles : FindDue(m, c)) \/ ClaimDenied(m)
    PROVE  ReportIInv'
<1>1. /\ mailer \in [Mailers -> MailerRecords] /\ mailer[m] \in MailerRecords
      /\ UNCHANGED <<cycle, note, mailed>> /\ mailed' \subseteq Cycles
  BY DEF ReportIInv, ReportTypeOK, FindDue, ClaimDenied
<1>2. CASE \E c \in Cycles : FindDue(m, c)
  <2> PICK c \in Cycles : FindDue(m, c)
    BY <1>2
  <2> DEFINE mrow == [NoMail EXCEPT !.stage = "found", !.cycle = c]
  <2>1. mrow \in MailerRecords /\ mrow.stage = "found" /\ mrow.cycle = c
    BY NoMailOK DEF MailerRecords
  <2>2. mailer' = [mailer EXCEPT ![m] = mrow] /\ note[c].status = "PENDING"
    BY DEF FindDue
  <2> HIDE DEF mrow
  <2> QED
    BY <1>1, <2>1, <2>2, MailerMoves
<1>3. CASE ClaimDenied(m)
  <2> DEFINE mrow == [mailer[m] EXCEPT !.stage = "denied"]
  <2>1. mrow \in MailerRecords /\ mrow.stage = "denied" /\ mrow.cycle = mailer[m].cycle
    BY <1>1 DEF MailerRecords
  <2>2. mailer' = [mailer EXCEPT ![m] = mrow]
    BY <1>1, <1>3 DEF ClaimDenied
  <2>3. mailer[m].cycle \in Cycles /\ note[mailer[m].cycle].status # "NONE"
    BY <1>3 DEF ClaimDenied, ReportIInv, MailerOK
  <2> HIDE DEF mrow
  <2> QED
    BY <1>1, <2>1, <2>2, <2>3, MailerMoves
<1> QED
  BY <1>2, <1>3

\* The provider is asked: only an accepted mail needs to be one.
LEMMA SendInv ==
    ASSUME ReportIInv, NEW m \in Mailers, NEW o \in Dispositions, Send(m, o)
    PROVE  ReportIInv'
<1> DEFINE mrow == [mailer[m] EXCEPT !.stage = "sent", !.outcome = o]
<1>1. /\ mailer[m] \in MailerRecords /\ Holds(m) /\ UNCHANGED <<cycle, note>>
      /\ mailer' = [mailer EXCEPT ![m] = mrow]
  BY DEF ReportIInv, ReportTypeOK, Send, Holds
<1>2. mailer[m].cycle \in Cycles /\ note[mailer[m].cycle].status # "NONE"
  BY DEF Send, ReportIInv, MailerOK
<1>3. /\ mrow \in MailerRecords /\ mrow.stage = "sent" /\ mrow.outcome = o
      /\ mrow.cycle = mailer[m].cycle /\ mrow.attempt = mailer[m].attempt
  BY <1>1 DEF MailerRecords
<1>4. /\ mailed \subseteq mailed' /\ mailed' \subseteq Cycles
      /\ o = "ACCEPTED" => mailer[m].cycle \in mailed'
  BY <1>2 DEF Send, ReportIInv, ReportTypeOK
<1> HIDE DEF mrow
<1> QED
  BY <1>1, <1>2, <1>3, <1>4, MailerMoves

\* A mailer settles its notification and leaves: it is the only holder of an attempt, or whoever
\* holds one finds that it failed.
LEMMA SettlesInv ==
    ASSUME ReportIInv, NEW c \in Cycles, NEW m \in Mailers,
           NEW crow \in CycleRecords, NEW nrow \in NoteRecords,
           cycle' = [cycle EXCEPT ![c] = crow], note' = [note EXCEPT ![c] = nrow],
           Leaves(m), UNCHANGED mailed,
           note[c].status = "PENDING",
           \/ nrow.status = "PENDING" /\ crow.state = "EMAIL_PENDING"
           \/ nrow.status = "SENT" /\ crow.state = "COMPLETE" /\ c \in mailed
           \/ nrow.status = "FAILED" /\ crow.state = "ATTENTION_REQUIRED",
           nrow.delivery \in {"DEFERRED", "ENDED"},
           nrow.delivery = "DEFERRED" => nrow.status = "PENDING" /\ nrow.attempts < MaxSends,
           nrow.attempts = note[c].attempts,
           nrow.status = "FAILED" \/ (Holds(m) /\ mailer[m].cycle = c)
    PROVE  ReportIInv'
<1>1. mailed' = mailed /\ mailed' \subseteq Cycles /\ note[c].status # "NONE"
  BY DEF ReportIInv, ReportTypeOK
<1>2. \A k \in Mailers \ {m} : Holds(k) /\ mailer[k].cycle = c => nrow.status = "FAILED"
  BY DEF ReportIInv, HoldsAlone
<1>3. NoMail \in MailerRecords /\ NoMail.stage = "idle" /\ mailer' = [mailer EXCEPT ![m] = NoMail]
  BY NoMailOK DEF Leaves
<1> QED
  BY <1>1, <1>2, <1>3, DeliveryMoves

\* A delivery is given up: whoever holds its last attempt finds it failed.
LEMMA StopInv ==
    ASSUME ReportIInv, NEW m \in Mailers, NEW c \in Cycles, note[c].status = "PENDING",
           StopDelivery(c), Leaves(m), UNCHANGED mailed
    PROVE  ReportIInv'
<1> DEFINE nrow == [note[c] EXCEPT !.status = "FAILED", !.delivery = "ENDED"]
           crow == [cycle[c] EXCEPT !.state = "ATTENTION_REQUIRED"]
<1>1. note[c] \in NoteRecords /\ cycle[c] \in CycleRecords /\ mailed' \subseteq Cycles
  BY DEF ReportIInv, ReportTypeOK
<1>2. cycle[c].state = "EMAIL_PENDING"
  BY DEF ReportIInv, DeliveryOK
<1>3. note' = [note EXCEPT ![c] = nrow] /\ cycle' = [cycle EXCEPT ![c] = crow]
  BY <1>2 DEF StopDelivery
<1>4. /\ nrow \in NoteRecords /\ nrow.status = "FAILED" /\ nrow.delivery = "ENDED"
      /\ nrow.attempts = note[c].attempts
      /\ crow \in CycleRecords /\ crow.state = "ATTENTION_REQUIRED"
  BY <1>1 DEF NoteRecords, CycleRecords, Ended
<1> HIDE DEF nrow, crow
<1> QED
  BY <1>1, <1>3, <1>4, NoMailOK, DeliveryMoves DEF Leaves

\* The claim: a notification that is due and not attempted has no holder.
LEMMA ClaimMailInv ==
    ASSUME ReportIInv, NEW m \in Mailers, ClaimMail(m)
    PROVE  ReportIInv'
<1>1. PICK c, n : c = mailer[m].cycle /\ n = note[c].attempts + 1
  OBVIOUS
<1>2. /\ c \in Cycles /\ mailer[m].stage = "found"
      /\ note[c].status = "PENDING" /\ note[c].delivery # "ATTEMPTING" /\ n <= MaxSends
  BY <1>1 DEF ClaimMail, StillDue, ReportIInv, MailerOK
<1> DEFINE nrow == [note[c] EXCEPT !.delivery = "ATTEMPTING", !.attempts = n, !.due = FALSE]
           mrow == [mailer[m] EXCEPT !.stage = "claimed", !.attempt = n]
<1>3. /\ note[c] \in NoteRecords /\ cycle[c] \in CycleRecords /\ mailer[m] \in MailerRecords
      /\ mailed' \subseteq Cycles /\ cycle \in [Cycles -> CycleRecords]
  BY <1>2 DEF ReportIInv, ReportTypeOK, ClaimMail
<1>4. n \in 0..MaxSends
  BY <1>1, <1>2, <1>3, SendAssumption DEF NoteRecords
<1>5. /\ note' = [note EXCEPT ![c] = nrow] /\ mailer' = [mailer EXCEPT ![m] = mrow]
      /\ cycle' = [cycle EXCEPT ![c] = cycle[c]] /\ mailed' = mailed
  BY <1>1, <1>3 DEF ClaimMail
<1>6. /\ nrow \in NoteRecords /\ nrow.status = "PENDING" /\ nrow.delivery = "ATTEMPTING" /\ nrow.attempts = n
      /\ mrow \in MailerRecords /\ mrow.stage = "claimed" /\ mrow.cycle = c /\ mrow.attempt = n
  BY <1>1, <1>2, <1>3, <1>4 DEF NoteRecords, MailerRecords
<1>7. cycle[c].state = "EMAIL_PENDING"
  BY <1>2 DEF ReportIInv, DeliveryOK
<1>8. \A k \in Mailers : ~(Holds(k) /\ mailer[k].cycle = c)
  BY <1>2 DEF ReportIInv, MailerOK, Holds
<1> HIDE DEF nrow, mrow
<1> QED
  BY <1>2, <1>3, <1>5, <1>6, <1>7, <1>8, DeliveryMoves

\* What became of an attempt is recorded by its only holder, while it is still under way.
LEMMA RecordInv ==
    ASSUME ReportIInv, NEW m \in Mailers, RecordMail(m)
    PROVE  ReportIInv'
<1>1. CASE ~OwnAttempt(m)
  BY <1>1, LeavesInv DEF RecordMail
<1>2. CASE OwnAttempt(m)
  <2>1. PICK c, o : c = mailer[m].cycle /\ o = mailer[m].outcome
    OBVIOUS
  <2>2. /\ c \in Cycles /\ Holds(m) /\ note[c].status = "PENDING"
        /\ o = "ACCEPTED" => c \in mailed
    BY <1>2, <2>1 DEF RecordMail, OwnAttempt, ReportIInv, MailerOK, Holds
  <2>3. /\ note[c] \in NoteRecords /\ cycle[c] \in CycleRecords /\ mailer[m] \in MailerRecords
        /\ mailed' = mailed /\ mailed \subseteq Cycles
    BY <2>2 DEF ReportIInv, ReportTypeOK, RecordMail
  <2>4. cycle[c].state = "EMAIL_PENDING" /\ note[c].attempts = mailer[m].attempt
    BY <1>2, <2>1, <2>2 DEF ReportIInv, DeliveryOK, OwnAttempt
  <2>5. PICK retry \in BOOLEAN : retry = Retries(m)
    BY DEF Retries
  <2>6. retry => o = "RETRYABLE" /\ note[c].attempts < MaxSends
    BY <2>1, <2>4, <2>5 DEF Retries
  <2> DEFINE status == IF o = "ACCEPTED" THEN "SENT" ELSE IF retry THEN "PENDING" ELSE "FAILED"
             delivery == IF retry THEN "DEFERRED" ELSE "ENDED"
             state == IF o = "ACCEPTED" THEN "COMPLETE" ELSE IF retry THEN cycle[c].state ELSE "ATTENTION_REQUIRED"
             nrow == [note[c] EXCEPT !.status = status, !.delivery = delivery, !.due = FALSE]
             crow == [cycle[c] EXCEPT !.state = state]
  <2>7. note' = [note EXCEPT ![c] = nrow] /\ cycle' = [cycle EXCEPT ![c] = crow] /\ Leaves(m)
    BY <1>2, <2>1, <2>5 DEF RecordMail
  <2>8. /\ nrow \in NoteRecords /\ nrow.status = status /\ nrow.delivery = delivery
        /\ nrow.attempts = note[c].attempts
        /\ crow \in CycleRecords /\ crow.state = state
    BY <2>3, <2>4 DEF NoteRecords, CycleRecords, Ended
  <2>9. /\ \/ status = "PENDING" /\ state = "EMAIL_PENDING"
           \/ status = "SENT" /\ state = "COMPLETE" /\ c \in mailed
           \/ status = "FAILED" /\ state = "ATTENTION_REQUIRED"
        /\ delivery \in {"DEFERRED", "ENDED"}
        /\ delivery = "DEFERRED" => status = "PENDING" /\ note[c].attempts < MaxSends
    BY <2>2, <2>4, <2>6
  <2> HIDE DEF status, delivery, state, nrow, crow
  <2> QED
    BY <2>1, <2>2, <2>3, <2>7, <2>8, <2>9, SettlesInv
<1> QED
  BY <1>1, <1>2

LEMMA ReportStepInv == ReportIInv /\ [ReportNext]_reportVars => ReportIInv'
<1> SUFFICES ASSUME ReportIInv, [ReportNext]_reportVars PROVE ReportIInv'
  OBVIOUS
<1>1. ASSUME NEW m \in Mailers, ClaimStops(m) PROVE ReportIInv'
  <2>1. mailer[m].cycle \in Cycles /\ note[mailer[m].cycle].status = "PENDING"
    BY <1>1 DEF ClaimStops, StillDue, ReportIInv, MailerOK
  <2> QED
    BY <1>1, <2>1, StopInv DEF ClaimStops
<1>2. ASSUME NEW m \in Mailers, StopDenied(m) PROVE ReportIInv'
  <2>1. mailer[m].cycle \in Cycles
    BY <1>2 DEF StopDenied, ReportIInv, MailerOK
  <2> QED
    BY <1>2, <2>1, StopInv, LeavesInv DEF StopDenied
<1>3. ASSUME NEW m \in Mailers, ClaimNothing(m) \/ MailerDies(m) PROVE ReportIInv'
  BY <1>3, LeavesInv DEF ClaimNothing, MailerDies
<1>4. CASE RuntimeStep \/ UNCHANGED reportVars
  BY <1>4, ReportIsKept DEF RuntimeStep, reportVars
<1>5. CASE ReportStep
  BY <1>1, <1>2, <1>3, <1>5, CycleInv, DueInv, FindsInv, ClaimMailInv, SendInv, RecordInv
     DEF ReportStep, Deliver
<1> QED
  BY <1>4, <1>5 DEF ReportNext

LEMMA ReportInvariance == ReportSpec => []ReportIInv
BY ReportInitInv, ReportStepInv, PTL DEF ReportSpec

-----------------------------------------------------------------------------
\* What the reports promise.

\* Every row keeps its type, and a delivery is deferred only with attempts left.
THEOREM ReportTypes == ReportSpec => []ReportTypeOK
<1> QED
  BY ReportInvariance, PTL DEF ReportIInv

\* One mailer at most asks for a report's mail, and a notification and its cycle tell the same of it.
THEOREM OneSenderEach == ReportSpec => []OneSender
<1>1. ReportIInv => OneSender
  <2> SUFFICES ASSUME ReportIInv PROVE OneSender
    OBVIOUS
  <2>1. ASSUME NEW c \in Cycles
        PROVE  Cardinality({m \in Mailers : /\ mailer[m].stage \in {"claimed", "sent"}
                                            /\ mailer[m].cycle = c}) <= 1
    <3> DEFINE H == {m \in Mailers : mailer[m].stage \in {"claimed", "sent"} /\ mailer[m].cycle = c}
    <3>1. \A m, k \in H : m = k
      BY DEF ReportIInv, HoldsAlone, Holds
    <3>2. CASE H = {}
      BY <3>2, FS_EmptySet
    <3>3. CASE H # {}
      <4>1. PICK m : H = {m}
        BY <3>1, <3>3
      <4>2. Cardinality(H) = 1
        BY <4>1, FS_Singleton
      <4> QED
        BY <4>2
    <3> QED
      BY <3>2, <3>3
  <2> QED
    BY <2>1 DEF OneSender, ReportIInv, DeliveryOK
<1> QED
  BY <1>1, ReportInvariance, PTL

-----------------------------------------------------------------------------
\* The runtime under the reports.

\* Every step of the reports is a step of the runtime or leaves it alone: a cycle queues its task
\* by the runtime's own operation and never writes a task that is under way.
LEMMA ReportsUseRuntime == [ReportNext]_reportVars => [AgentNext]_agentVars
<1> SUFFICES ASSUME [ReportNext]_reportVars PROVE [AgentNext]_agentVars
  OBVIOUS
<1>1. ASSUME NEW c \in Cycles, QueueReport(c) PROVE AgentNext
  <2>1. TaskOf[c] \in Tasks /\ Enqueue(TaskOf[c])
    BY <1>1, CycleAssumption DEF QueueReport
  <2> QED
    BY <2>1 DEF AgentNext
<1>2. ASSUME NEW c \in Cycles,
             (\E mail \in BOOLEAN : StartCycle(c, mail)) \/ FinishReport(c) \/ StopCycle(c) \/ BecomesDue(c)
      PROVE  UNCHANGED agentVars
  BY <1>2 DEF StartCycle, FinishReport, StopCycle, BecomesDue
<1>3. ASSUME NEW m \in Mailers, Deliver(m) \/ MailerDies(m) PROVE UNCHANGED agentVars
  BY <1>3 DEF Deliver, FindDue, ClaimNothing, ClaimStops, ClaimDenied, ClaimMail, StopDenied, Send,
              RecordMail, MailerDies
<1>4. CASE ReportStep
  BY <1>1, <1>2, <1>3, <1>4 DEF ReportStep
<1>5. CASE RuntimeStep \/ UNCHANGED reportVars
  BY <1>5 DEF RuntimeStep, reportVars
<1> QED
  BY <1>4, <1>5 DEF ReportNext

LEMMA RuntimeUnderReports == ReportSpec => AgentInit /\ [][AgentNext]_agentVars
<1>1. ReportInit => AgentInit
  BY DEF ReportInit
<1> QED
  BY <1>1, ReportsUseRuntime, PTL DEF ReportSpec

\* With the reports on top of the runtime no attempt of unknown outcome is repeated either.
THEOREM ReportsRepeatNoUnknown == ReportSpec => []UnknownIsNotRepeated
<1> QED
  BY RuntimeUnderReports, AgentInvariance, AgentPromises, PTL

\* With the reports on top of it the receipts agree with the tasks.
THEOREM ReportsKeepReceipts == ReportSpec => []ReceiptsAgree
<1> QED
  BY RuntimeUnderReports, AgentInvariance, AgentPromises, PTL

\* With the reports on top of it every row of the runtime keeps its type.
THEOREM ReportsKeepTypes == ReportSpec => []AgentTypeOK
<1>1. AgentIInv => AgentTypeOK
  BY DEF AgentIInv
<1> QED
  BY <1>1, RuntimeUnderReports, AgentInvariance, PTL

\* With the reports on top of it what was given up before it was dispatched stays so.
THEOREM ReportsAskNothingGivenUp == ReportSpec => GivenUpIsNotAsked
<1> QED
  BY RuntimeUnderReports, AgentInvariance, GivenUpStep, PTL DEF GivenUpIsNotAsked

-----------------------------------------------------------------------------
\* The end of a report.

\* A cycle that has ended and its notification are not written any more, by nobody's late record.
EndedReportStays ==
    [][\A c \in Cycles : cycle[c].state \in Ended =>
          cycle'[c] = cycle[c] /\ note'[c] = note[c]]_reportVars

LEMMA EndedReportStep ==
    ASSUME ReportIInv, [ReportNext]_reportVars, NEW c \in Cycles, cycle[c].state \in Ended
    PROVE  cycle'[c] = cycle[c] /\ note'[c] = note[c]
<1>0. /\ cycle \in [Cycles -> CycleRecords] /\ note \in [Cycles -> NoteRecords]
      /\ note[c].status # "PENDING"
  BY DEF ReportIInv, ReportTypeOK, DeliveryOK, Ended
<1>2. ASSUME NEW d \in Cycles,
             (\E mail \in BOOLEAN : StartCycle(d, mail)) \/ QueueReport(d) \/ FinishReport(d) \/ StopCycle(d)
      PROVE  cycle'[c] = cycle[c] /\ note'[c] = note[c]
  <2>1. d # c
    BY <1>2 DEF StartCycle, QueueReport, FinishReport, StopCycle, Ended
  <2>2. \A e \in Cycles \ {d} : cycle'[e] = cycle[e] /\ note'[e] = note[e]
    BY <1>0, <1>2 DEF StartCycle, QueueReport, FinishReport, StopCycle
  <2> QED
    BY <2>1, <2>2
<1>3. ASSUME NEW d \in Cycles, BecomesDue(d)
      PROVE  cycle'[c] = cycle[c] /\ note'[c] = note[c]
  BY <1>0, <1>3 DEF BecomesDue
<1>4. ASSUME NEW d, note[d].status = "PENDING", StopDelivery(d)
      PROVE  cycle'[c] = cycle[c] /\ note'[c] = note[c]
  BY <1>0, <1>4 DEF StopDelivery
<1>5. ASSUME NEW m \in Mailers, ClaimStops(m) \/ StopDenied(m)
      PROVE  cycle'[c] = cycle[c] /\ note'[c] = note[c]
  BY <1>4, <1>5 DEF ClaimStops, StopDenied, StillDue
<1>6. ASSUME NEW m \in Mailers, ClaimMail(m)
      PROVE  cycle'[c] = cycle[c] /\ note'[c] = note[c]
  BY <1>0, <1>6 DEF ClaimMail, StillDue
<1>7. ASSUME NEW m \in Mailers, RecordMail(m)
      PROVE  cycle'[c] = cycle[c] /\ note'[c] = note[c]
  BY <1>0, <1>7 DEF RecordMail, OwnAttempt
<1>8. ASSUME NEW m \in Mailers,
             \/ \E d \in Cycles : FindDue(m, d)
             \/ ClaimNothing(m) \/ ClaimDenied(m) \/ MailerDies(m) \/ \E o \in Dispositions : Send(m, o)
      PROVE  cycle'[c] = cycle[c] /\ note'[c] = note[c]
  BY <1>8 DEF FindDue, ClaimNothing, ClaimDenied, MailerDies, Send
<1>9. CASE RuntimeStep \/ UNCHANGED reportVars
  BY <1>9 DEF RuntimeStep, reportVars, reports
<1> QED
  BY <1>2, <1>3, <1>5, <1>6, <1>7, <1>8, <1>9 DEF ReportNext, ReportStep, Deliver

\* What has ended stays so: neither a refused mail that is accepted later nor a mailer that comes
\* back changes what its owner was told.
THEOREM EndedReportsStay == ReportSpec => EndedReportStays
<1>1. ReportIInv /\ [ReportNext]_reportVars =>
         \A c \in Cycles : cycle[c].state \in Ended => cycle'[c] = cycle[c] /\ note'[c] = note[c]
  BY EndedReportStep
<1> QED
  BY <1>1, ReportInvariance, PTL DEF ReportSpec, EndedReportStays
==============================================================================
