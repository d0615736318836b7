------------------------ MODULE PaymentOutboxProofs ------------------------
(***************************************************************************)
(* What holds of the payment outbox for every number of events, replicas,  *)
(* operators, keys, attempt limits and faults.                             *)
(***************************************************************************)
EXTENDS PaymentOutbox, TLAPS

(***************************************************************************)
(* The operators on rows.                                                  *)
(***************************************************************************)

\* A row stays a row when one column gets a value of its type.
LEMMA RowUpdateType ==
    ASSUME NEW row \in OutboxRow
    PROVE  /\ \A x \in OutboxStatus : [row EXCEPT !.status = x] \in OutboxRow
           /\ \A x \in Nat : [row EXCEPT !.attempts = x] \in OutboxRow
           /\ \A x \in Nat : [row EXCEPT !.sequence = x] \in OutboxRow
           /\ \A x \in BOOLEAN : [row EXCEPT !.exhausted = x] \in OutboxRow
           /\ \A x \in BOOLEAN : [row EXCEPT !.due = x] \in OutboxRow
           /\ \A x \in BOOLEAN : [row EXCEPT !.error = x] \in OutboxRow
           /\ \A x \in BOOLEAN : [row EXCEPT !.aged = x] \in OutboxRow
  BY DEF OutboxRow

\* The entity methods map rows to rows.
LEMMA RowOperationsType ==
    /\ NoRow \in OutboxRow
    /\ NewRow \in OutboxRow
    /\ \A row \in OutboxRow :
        /\ MarkPublished(row) \in OutboxRow
        /\ ScheduleRetry(row) \in OutboxRow
        /\ MarkExhausted(row) \in OutboxRow
        /\ MarkExhaustedWithoutAttempt(row) \in OutboxRow
        /\ Requeue(row) \in OutboxRow
        /\ HandoffOf(row) \in HandoffRow
<1>1. NoRow \in OutboxRow
  BY DEF NoRow, OutboxRow, OutboxStatus
<1>2. "PENDING" \in OutboxStatus /\ "PUBLISHED" \in OutboxStatus
  BY DEF OutboxStatus
<1>3. NewRow \in OutboxRow
  BY <1>1, <1>2, RowUpdateType DEF NewRow
<1>4. ASSUME NEW row \in OutboxRow
      PROVE  /\ row.attempts + 1 \in Nat
             /\ row.sequence + 1 \in Nat
             /\ HandoffOf(row) \in HandoffRow
  BY DEF OutboxRow, HandoffOf, HandoffRow
<1>5. ASSUME NEW row \in OutboxRow PROVE MarkPublished(row) \in OutboxRow
  BY <1>2, <1>4, RowUpdateType DEF MarkPublished
<1>6. ASSUME NEW row \in OutboxRow PROVE ScheduleRetry(row) \in OutboxRow
  BY <1>2, <1>4, RowUpdateType DEF ScheduleRetry
<1>7. ASSUME NEW row \in OutboxRow PROVE MarkExhausted(row) \in OutboxRow
  BY <1>2, <1>4, RowUpdateType DEF MarkExhausted
<1>8. ASSUME NEW row \in OutboxRow
      PROVE  MarkExhaustedWithoutAttempt(row) \in OutboxRow
  BY <1>2, <1>4, RowUpdateType DEF MarkExhaustedWithoutAttempt
<1>9. ASSUME NEW row \in OutboxRow PROVE Requeue(row) \in OutboxRow
  BY <1>2, <1>4, RowUpdateType DEF Requeue
<1> QED BY <1>1, <1>3, <1>4, <1>5, <1>6, <1>7, <1>8, <1>9

\* Each outcome of a call to publishNext leads to a row and a status.
LEMMA OutcomeType ==
    ASSUME NEW row \in OutboxRow, NEW outcome \in Outcome
    PROVE  /\ RowAfter(row, outcome) \in OutboxRow
           /\ PaymentAfter(outcome) \in PaymentStatus
  BY RowOperationsType
     DEF Outcome, RowAfter, PaymentAfter, PaymentStatus

(***************************************************************************)
(* Types.                                                                  *)
(***************************************************************************)

\* The states the publisher thread moves to, and what they tell.
LEMMA RelayStateType ==
    /\ Idle \in RelayState
    /\ \A e \in Event : /\ Sending(e) \in RelayState
                        /\ Appended(e) \in RelayState
    /\ \A e \in Event, outcome \in Outcome : Writing(e, outcome) \in RelayState
    /\ \A s \in RelayState :
        /\ s.stage = "idle" => s = Idle
        /\ s.stage # "idle" => s.event \in Event
        /\ s.stage = "writing" => s.outcome \in Outcome
<1> USE DEF RelayState, Idle
<1>1. Idle \in RelayState
  OBVIOUS
<1>2. \A e \in Event : /\ Sending(e) \in RelayState
                      /\ Appended(e) \in RelayState
  BY DEF Sending, Appended
<1>3. \A e \in Event, outcome \in Outcome : Writing(e, outcome) \in RelayState
  BY DEF Writing
<1>4. ASSUME NEW s \in RelayState
      PROVE  /\ s.stage = "idle" => s = Idle
             /\ s.stage # "idle" => s.event \in Event
             /\ s.stage = "writing" => s.outcome \in Outcome
  <2>1. CASE s = Idle
    BY <2>1
  <2>2. CASE s \in [stage: {"sending"}, event: Event, appended: BOOLEAN,
                    outcome: {"none"}]
    BY <2>2
  <2>3. CASE s \in [stage: {"writing"}, event: Event, appended: {FALSE},
                    outcome: Outcome]
    BY <2>3
  <2> QED BY <2>1, <2>2, <2>3
<1> QED BY <1>1, <1>2, <1>3, <1>4

\* The states a command moves to.
LEMMA CommandStateType ==
    ASSUME NEW s \in CommandState, s.stage # "new"
    PROVE  /\ s.event \in Event /\ s.key \in RecoveryKey /\ s.actor \in Actor
           /\ s.code \in RejectionCode \cup {"none"}
           /\ \A stage \in CommandStage \ {"new"} :
                [s EXCEPT !.stage = stage] \in CommandState
           /\ \A answer \in Answer :
                [s EXCEPT !.stage = "done", !.answer = answer] \in CommandState
           /\ \A code \in RejectionCode :
                [s EXCEPT !.stage = "reject", !.code = code] \in CommandState
<1> DEFINE Active == [stage: CommandStage \ {"new"}, event: Event, key: RecoveryKey,
                      actor: Actor, code: RejectionCode \cup {"none"}, answer: Answer]
<1>1. s \in Active
  BY DEF CommandState, NewCommand
<1>2. ASSUME NEW t \in Active
      PROVE  /\ \A x \in CommandStage \ {"new"} : [t EXCEPT !.stage = x] \in Active
             /\ \A x \in Answer : [t EXCEPT !.answer = x] \in Active
             /\ \A x \in RejectionCode : [t EXCEPT !.code = x] \in Active
  OBVIOUS
<1>3. "done" \in CommandStage \ {"new"} /\ "reject" \in CommandStage \ {"new"}
  BY DEF CommandStage
<1>4. /\ \A x \in CommandStage \ {"new"} : [s EXCEPT !.stage = x] \in Active
      /\ \A x \in Answer :
            [[s EXCEPT !.stage = "done"] EXCEPT !.answer = x] \in Active
      /\ \A x \in RejectionCode :
            [[s EXCEPT !.stage = "reject"] EXCEPT !.code = x] \in Active
  <2> HIDE DEF Active
  <2> QED BY <1>1, <1>2, <1>3
<1>5. Active \subseteq CommandState
  BY DEF CommandState
<1>6. /\ s.event \in Event /\ s.key \in RecoveryKey /\ s.actor \in Actor
      /\ s.code \in RejectionCode \cup {"none"}
  BY <1>1
<1> HIDE DEF Active
<1> QED BY <1>4, <1>5, <1>6

LEMMA TypeInit == Init => TypeOK
  BY RowOperationsType, RelayStateType, FaultsAssumption, LimitAssumption
     DEF Init, StoreInit, RelayInit, RecoveryInit, RetentionInit, TypeOK,
         StoreTypeOK, RelayTypeOK, RecoveryTypeOK, RetentionTypeOK,
         PaymentStatus, JournalRow, NoJournal, RejectionCode, CommandState,
         Waiting, CleanerState

\* Creation and time keep the types.
LEMMA StoreTypeStep ==
    ASSUME TypeOK, StoreNext, UNCHANGED <<relayVars, recoveryVars, retentionVars>>
    PROVE  TypeOK'
<1> USE DEF TypeOK, StoreTypeOK, RelayTypeOK, RecoveryTypeOK, RetentionTypeOK,
            relayVars, recoveryVars, retentionVars
<1>1. ASSUME NEW e \in Event, CreatePayment(e) PROVE TypeOK'
  BY <1>1, RowOperationsType DEF CreatePayment, PaymentStatus
<1>2. ASSUME NEW e \in Event, DelayElapses(e) PROVE TypeOK'
  BY <1>2, RowUpdateType DEF DelayElapses
<1>3. ASSUME NEW e \in Event, EventAges(e) PROVE TypeOK'
  BY <1>3, RowUpdateType DEF EventAges
<1>4. ASSUME NEW c \in Command, JournalAges(c) PROVE TypeOK'
  BY <1>4 DEF JournalAges, JournalRow
<1> QED BY <1>1, <1>2, <1>3, <1>4 DEF StoreNext

\* So does the publisher.
LEMMA RelayTypeStep ==
    ASSUME TypeOK, RelayNext, UNCHANGED <<recoveryVars, retentionVars>>
    PROVE  TypeOK'
<1> USE DEF TypeOK, StoreTypeOK, RelayTypeOK, RecoveryTypeOK, RetentionTypeOK,
            storeVars, recoveryVars, retentionVars
<1>1. ASSUME NEW r \in Relay, ClaimAndSend(r) PROVE TypeOK'
  BY <1>1, RelayStateType DEF ClaimAndSend, Acquire, Owner
<1>2. ASSUME NEW r \in Relay, ClaimOverLimit(r) PROVE TypeOK'
  BY <1>2, RelayStateType DEF ClaimOverLimit, Acquire, Owner, Outcome
<1>3. ASSUME NEW r \in Relay, BrokerAppends(r) PROVE TypeOK'
  <2>1. relay[r].event \in Event
    BY <1>3, RelayStateType DEF BrokerAppends
  <2>2. Appended(relay[r].event) \in RelayState
    BY <2>1, RelayStateType
  <2> QED BY <1>3, <2>1, <2>2 DEF BrokerAppends
<1>4. ASSUME NEW r \in Relay, Acknowledge(r) PROVE TypeOK'
  BY <1>4, RelayStateType DEF Acknowledge, Outcome
<1>5. ASSUME NEW r \in Relay, GiveUpOnRecord(r) PROVE late' \in [Event -> Nat]
  BY <1>5, RelayStateType DEF GiveUpOnRecord
<1>6. ASSUME NEW r \in Relay, SendFails(r) PROVE TypeOK'
  <2>1. relay[r].event \in Event
    BY <1>6, RelayStateType DEF SendFails
  <2>2. relay' \in [Relay -> RelayState]
    BY <1>6, <2>1, RelayStateType DEF SendFails, Outcome
  <2>3. retries' \in [Relay -> Nat]
    BY <1>6 DEF SendFails, CountRetry
  <2> QED BY <1>5, <1>6, <2>2, <2>3 DEF SendFails
<1>7. ASSUME NEW r \in Relay, CommitOutcome(r) PROVE TypeOK'
  <2>1. relay[r].event \in Event /\ relay[r].outcome \in Outcome
    BY <1>7, RelayStateType DEF CommitOutcome
  <2>2. DEFINE row == RowAfter(outbox[relay[r].event], relay[r].outcome)
  <2>3. /\ row \in OutboxRow
        /\ PaymentAfter(relay[r].outcome) \in PaymentStatus
        /\ HandoffOf(row) \in HandoffRow
    BY <2>1, OutcomeType, RowOperationsType
  <2>4. StoreTypeOK'
    BY <1>7, <2>1, <2>3 DEF CommitOutcome, Release
  <2> QED
    BY <1>7, <2>4, RelayStateType DEF CommitOutcome
<1>8. ASSUME NEW r \in Relay, TransactionFails(r) PROVE TypeOK'
  BY <1>5, <1>8, RelayStateType, FaultsAssumption DEF TransactionFails, Fault, Release
<1>9. ASSUME NEW r \in Relay, Restart(r) PROVE TypeOK'
  <2>1. lock' \in [Event -> Owner \cup {Free}]
    BY <1>9, RelayStateType DEF Restart, Release
  <2>2. faults' \in 0..MaxFaults
    BY <1>9, FaultsAssumption DEF Restart, Fault
  <2>3. /\ relay' \in [Relay -> RelayState]
        /\ limit' \in [Relay -> Limit]
        /\ retries' \in [Relay -> Nat]
        /\ scheduled' \in [Relay -> Nat]
    BY <1>9, RelayStateType DEF Restart
  <2>4. late' \in [Event -> Nat]
    BY <1>5, <1>9 DEF Restart
  <2> QED BY <1>9, <2>1, <2>2, <2>3, <2>4 DEF Restart
<1>10. ASSUME NEW e \in Event, BrokerAppendsLate(e) PROVE TypeOK'
  BY <1>10 DEF BrokerAppendsLate
<1> QED
  BY <1>1, <1>2, <1>3, <1>4, <1>6, <1>7, <1>8, <1>9, <1>10 DEF RelayNext

\* The commands keep the types.
LEMMA RecoveryTypeStep ==
    ASSUME TypeOK, RecoveryNext, UNCHANGED <<relayVars, retentionVars>>
    PROVE  TypeOK'
<1> USE DEF TypeOK, StoreTypeOK, RelayTypeOK, RecoveryTypeOK, RetentionTypeOK,
            storeVars, relayVars, retentionVars, At
<1>1. ASSUME NEW c \in Command, command[c].stage # "new"
      PROVE  /\ command[c].event \in Event
             /\ command[c].key \in RecoveryKey
             /\ command[c].actor \in Actor
             /\ command[c].code \in RejectionCode \cup {"none"}
             /\ \A stage \in CommandStage \ {"new"} :
                    GoTo(c, stage) => RecoveryTypeOK'
             /\ \A answer \in Answer : Finish(c, answer) => RecoveryTypeOK'
             /\ \A code \in RejectionCode : Refuse(c, code) => RecoveryTypeOK'
             /\ RequireMatching(c) => RecoveryTypeOK'
  <2>1. command[c] \in CommandState
    OBVIOUS
  <2>2. ASSUME NEW stage \in CommandStage \ {"new"}, GoTo(c, stage)
        PROVE  RecoveryTypeOK'
    BY <1>1, <2>1, <2>2, CommandStateType DEF GoTo
  <2>3. ASSUME NEW answer \in Answer, Finish(c, answer) PROVE RecoveryTypeOK'
    BY <1>1, <2>1, <2>3, CommandStateType DEF Finish
  <2>4. ASSUME NEW code \in RejectionCode, Refuse(c, code) PROVE RecoveryTypeOK'
    BY <1>1, <2>1, <2>4, CommandStateType DEF Refuse
  <2>5. "recovered" \in Answer /\ "COMMAND_CONFLICT" \in RejectionCode
    BY DEF Answer, RejectionCode
  <2> HIDE DEF RecoveryTypeOK
  <2>6. RequireMatching(c) => RecoveryTypeOK'
    BY <2>3, <2>4, <2>5 DEF RequireMatching
  <2> QED BY <1>1, <2>1, <2>2, <2>3, <2>4, <2>6, CommandStateType
<1>2. /\ {"lookup", "lock", "check", "insert", "commit", "reread"}
            \subseteq CommandStage \ {"new"}
      /\ {"recovered", "unavailable", "error"} \subseteq Answer
      /\ RejectionCode \cup {"none"} \subseteq Answer
      /\ {"EVENT_NOT_FOUND", "EVENT_NOT_ELIGIBLE"} \subseteq RejectionCode
  BY DEF CommandStage, Answer, RejectionCode
<1>3. ASSUME NEW c \in Command, Submit(c) PROVE TypeOK'
  BY <1>3 DEF Submit, CommandState, CommandStage, Answer, RejectionCode
<1> HIDE DEF RecoveryTypeOK
<1>4. ASSUME NEW c \in Command, LookUpAudit(c) PROVE TypeOK'
  BY <1>1, <1>2, <1>4 DEF LookUpAudit
<1>5. ASSUME NEW c \in Command, LockEvent(c) PROVE TypeOK'
  BY <1>1, <1>2, <1>5 DEF LockEvent, Acquire, Owner
<1>6. ASSUME NEW c \in Command, CheckCommand(c) PROVE TypeOK'
  BY <1>1, <1>2, <1>6 DEF CheckCommand, Rollback, Release
<1>7. ASSUME NEW c \in Command, InsertAudit(c) PROVE TypeOK'
  BY <1>1, <1>2, <1>7 DEF InsertAudit, Rollback, Release
<1>8. ASSUME NEW c \in Command, CommitRecovery(c) PROVE TypeOK'
  <2>1. /\ command[c].event \in Event
        /\ command[c].key \in RecoveryKey
        /\ command[c].actor \in Actor
        /\ RecoveryTypeOK'
    BY <1>1, <1>2, <1>8 DEF CommitRecovery
  <2>2. AuditOf(c) \in AuditRow
    BY <2>1 DEF AuditOf, AuditRow, OutboxRow
  <2>3. Requeue(outbox[command[c].event]) \in OutboxRow
    BY <2>1, RowOperationsType
  <2> QED BY <1>8, <2>1, <2>2, <2>3 DEF CommitRecovery, Release, PaymentStatus
<1>9. ASSUME NEW c \in Command, ReadRacedAudit(c) PROVE TypeOK'
  BY <1>1, <1>2, <1>9 DEF ReadRacedAudit
<1>10. ASSUME NEW c \in Command, JournalRejection(c) PROVE TypeOK'
  BY <1>1, <1>2, <1>10 DEF JournalRejection, JournalRow
<1>11. ASSUME NEW c \in Command, JournalFails(c) PROVE TypeOK'
  BY <1>1, <1>2, <1>11, FaultsAssumption DEF JournalFails, Fault
<1>12. ASSUME NEW c \in Command, CommandFails(c) PROVE TypeOK'
  BY <1>1, <1>2, <1>12, FaultsAssumption DEF CommandFails, Fault, Rollback, Release
<1>13. ASSUME NEW c \in Command, AnswerLost(c) PROVE TypeOK'
  BY <1>1, <1>2, <1>13, FaultsAssumption DEF AnswerLost, Fault
<1> QED
  BY <1>3, <1>4, <1>5, <1>6, <1>7, <1>8, <1>9, <1>10, <1>11, <1>12, <1>13
     DEF RecoveryNext

\* So does the retention job.
LEMMA RetentionTypeStep ==
    ASSUME TypeOK, RetentionNext, UNCHANGED <<relayVars, recoveryVars>>
    PROVE  TypeOK'
<1> USE DEF TypeOK, StoreTypeOK, RelayTypeOK, RecoveryTypeOK, RetentionTypeOK,
            relayVars, recoveryVars
<1>1. ASSUME NEW w \in Cleaner, LockBatch(w) PROVE TypeOK'
  <2>1. PICK batch \in SUBSET Event :
            /\ cleaner' = [cleaner EXCEPT ![w] = [open |-> TRUE, batch |-> batch]]
            /\ lock' = [e \in Event |-> IF e \in batch THEN w ELSE lock[e]]
    BY <1>1 DEF LockBatch
  <2>2. cleaner' \in [Cleaner -> CleanerState]
    BY <2>1 DEF CleanerState
  <2>3. lock' \in [Event -> Owner \cup {Free}]
    BY <2>1 DEF Owner
  <2> QED BY <1>1, <2>2, <2>3 DEF LockBatch
<1>2. ASSUME NEW w \in Cleaner PROVE UnlockBatch(w) => lock' \in [Event -> Owner \cup {Free}]
  BY DEF UnlockBatch
<1>3. ASSUME NEW w \in Cleaner, CommitPurge(w) PROVE TypeOK'
  <2>1. ASSUME NEW batch
        PROVE  /\ AuditsWithout(batch) \in [RecoveryKey -> AuditRow \cup {NoAudit}]
               /\ HandoffsWithout(batch) \in [Event -> SUBSET HandoffRow]
               /\ EventsWithout(batch) \in [Event -> OutboxRow]
    BY RowOperationsType DEF AuditsWithout, HandoffsWithout, EventsWithout
  <2>2. journal' \in [Command -> JournalRow]
    <3>1. \A c \in Command : [journal[c] EXCEPT !.purged = TRUE] \in JournalRow
      BY DEF JournalRow
    <3>2. PICK old \in SUBSET Command :
              journal' = [c \in Command |->
                              IF c \in old THEN [journal[c] EXCEPT !.purged = TRUE]
                                           ELSE journal[c]]
      BY <1>3 DEF CommitPurge
    <3> QED BY <3>1, <3>2
  <2>3. cleaner' \in [Cleaner -> CleanerState]
    BY <1>3 DEF CommitPurge, Waiting, CleanerState
  <2>4. /\ audit' \in [RecoveryKey -> AuditRow \cup {NoAudit}]
        /\ handoff' \in [Event -> SUBSET HandoffRow]
        /\ outbox' \in [Event -> OutboxRow]
        /\ lock' \in [Event -> Owner \cup {Free}]
    BY <1>2, <1>3, <2>1 DEF CommitPurge
  <2> QED BY <1>3, <2>2, <2>3, <2>4 DEF CommitPurge
<1>4. ASSUME NEW w \in Cleaner, PurgeFails(w) PROVE TypeOK'
  BY <1>2, <1>4, FaultsAssumption DEF PurgeFails, Fault, Waiting, CleanerState
<1> QED BY <1>1, <1>3, <1>4 DEF RetentionNext

\* Every step keeps the types.
LEMMA TypeStep ==
    ASSUME TypeOK, [Next]_vars
    PROVE  TypeOK'
<1>1. CASE Next
  BY <1>1, StoreTypeStep, RelayTypeStep, RecoveryTypeStep, RetentionTypeStep
     DEF Next
<1>2. CASE UNCHANGED vars
  BY <1>2 DEF vars, storeVars, relayVars, recoveryVars, retentionVars, TypeOK,
              StoreTypeOK, RelayTypeOK, RecoveryTypeOK, RetentionTypeOK
<1> QED BY <1>1, <1>2

\* TypeOK is an invariant: no interleaving, rollback or restart brings a table,
\* a thread or a counter to a value outside its type.
THEOREM TypeCorrect == Spec => []TypeOK
  BY TypeInit, TypeStep, PTL DEF Spec

=============================================================================
