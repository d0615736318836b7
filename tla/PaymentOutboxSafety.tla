------------------------ MODULE PaymentOutboxSafety ------------------------
(***************************************************************************)
(* The inductive invariant of the payment outbox and the safety properties *)
(* that follow from it, for every value of the constants.                  *)
(*                                                                         *)
(* The argument: a transaction that has locked a row knows what it may     *)
(* rely on until it commits (RelayRelies, CommandRelies, CleanerRelies),   *)
(* because every other transaction that could change the row needs the     *)
(* same lock (LockRelies).  With that, each commit keeps the tables        *)
(* consistent with each other.                                             *)
(***************************************************************************)
EXTENDS PaymentOutboxProofs, FiniteSetTheorems

(***************************************************************************)
(* Columns.                                                                *)
(***************************************************************************)

\* The types of the columns the proofs compute with.
LEMMA RowColumns ==
    ASSUME NEW row \in OutboxRow
    PROVE  /\ row.attempts \in Nat
           /\ row.sequence \in Nat
           /\ row.exhausted \in BOOLEAN
           /\ row.status \in {"NONE", "PENDING", "PUBLISHED"}
  BY DEF OutboxRow, OutboxStatus

\* What the entity methods write, column by column.
LEMMA RowOperationColumns ==
    ASSUME NEW row \in OutboxRow
    PROVE  /\ MarkPublished(row).status = "PUBLISHED"
           /\ MarkPublished(row).sequence = row.sequence
           /\ MarkPublished(row).exhausted = FALSE
           /\ MarkPublished(row).attempts = row.attempts + 1
           /\ ScheduleRetry(row).status = "PENDING"
           /\ ScheduleRetry(row).sequence = row.sequence
           /\ ScheduleRetry(row).exhausted = FALSE
           /\ ScheduleRetry(row).attempts = row.attempts + 1
           /\ ScheduleRetry(row).error = TRUE
           /\ MarkExhausted(row).status = "PENDING"
           /\ MarkExhausted(row).sequence = row.sequence + 1
           /\ MarkExhausted(row).exhausted = TRUE
           /\ MarkExhausted(row).attempts = row.attempts + 1
           /\ MarkExhausted(row).error = TRUE
           /\ MarkExhaustedWithoutAttempt(row).status = "PENDING"
           /\ MarkExhaustedWithoutAttempt(row).sequence = row.sequence + 1
           /\ MarkExhaustedWithoutAttempt(row).exhausted = TRUE
           /\ MarkExhaustedWithoutAttempt(row).attempts = row.attempts
           /\ MarkExhaustedWithoutAttempt(row).error = row.error
           /\ Requeue(row).status = "PENDING"
           /\ Requeue(row).sequence = row.sequence
           /\ Requeue(row).exhausted = FALSE
           /\ Requeue(row).attempts = 0
<1> USE DEF OutboxRow
<1>1. /\ MarkPublished(row).status = "PUBLISHED"
      /\ MarkPublished(row).sequence = row.sequence
      /\ MarkPublished(row).exhausted = FALSE
      /\ MarkPublished(row).attempts = row.attempts + 1
  BY DEF MarkPublished
<1>2. /\ ScheduleRetry(row).status = "PENDING"
      /\ ScheduleRetry(row).sequence = row.sequence
      /\ ScheduleRetry(row).exhausted = FALSE
      /\ ScheduleRetry(row).attempts = row.attempts + 1
      /\ ScheduleRetry(row).error = TRUE
  BY DEF ScheduleRetry
<1>3. /\ MarkExhausted(row).status = "PENDING"
      /\ MarkExhausted(row).sequence = row.sequence + 1
      /\ MarkExhausted(row).exhausted = TRUE
      /\ MarkExhausted(row).attempts = row.attempts + 1
      /\ MarkExhausted(row).error = TRUE
  BY DEF MarkExhausted
<1>4. /\ MarkExhaustedWithoutAttempt(row).status = "PENDING"
      /\ MarkExhaustedWithoutAttempt(row).sequence = row.sequence + 1
      /\ MarkExhaustedWithoutAttempt(row).exhausted = TRUE
      /\ MarkExhaustedWithoutAttempt(row).attempts = row.attempts
      /\ MarkExhaustedWithoutAttempt(row).error = row.error
  BY DEF MarkExhaustedWithoutAttempt
<1>5. /\ Requeue(row).status = "PENDING"
      /\ Requeue(row).sequence = row.sequence
      /\ Requeue(row).exhausted = FALSE
      /\ Requeue(row).attempts = 0
  BY DEF Requeue
<1> QED BY <1>1, <1>2, <1>3, <1>4, <1>5

\* The threads' states, field by field.
LEMMA ThreadColumns ==
    /\ Idle.stage = "idle" /\ Idle.outcome = "none" /\ Idle.appended = FALSE
    /\ \A e \in Event :
        /\ Sending(e).stage = "sending" /\ Sending(e).event = e
        /\ Sending(e).appended = FALSE /\ Sending(e).outcome = "none"
        /\ Appended(e).stage = "sending" /\ Appended(e).event = e
        /\ Appended(e).appended = TRUE /\ Appended(e).outcome = "none"
        /\ \A o \in Outcome :
            /\ Writing(e, o).stage = "writing" /\ Writing(e, o).event = e
            /\ Writing(e, o).appended = FALSE /\ Writing(e, o).outcome = o
    /\ \A s \in RelayState :
        /\ s.stage = "idle" => s.outcome = "none" /\ s.appended = FALSE
        /\ s.stage = "sending" => s.outcome = "none"
        /\ s.stage = "writing" => s.outcome # "none" /\ s.appended = FALSE
        /\ s.stage \in {"idle", "sending", "writing"}
<1>1. Idle.stage = "idle" /\ Idle.outcome = "none" /\ Idle.appended = FALSE
  BY DEF Idle
<1>2. ASSUME NEW e \in Event
      PROVE  /\ Sending(e).stage = "sending" /\ Sending(e).event = e
             /\ Sending(e).appended = FALSE /\ Sending(e).outcome = "none"
             /\ Appended(e).stage = "sending" /\ Appended(e).event = e
             /\ Appended(e).appended = TRUE /\ Appended(e).outcome = "none"
  BY DEF Sending, Appended
<1>3. ASSUME NEW e \in Event, NEW o \in Outcome
      PROVE  /\ Writing(e, o).stage = "writing" /\ Writing(e, o).event = e
             /\ Writing(e, o).appended = FALSE /\ Writing(e, o).outcome = o
  BY DEF Writing
<1>4. ASSUME NEW s \in RelayState
      PROVE  /\ s.stage = "idle" => s.outcome = "none" /\ s.appended = FALSE
             /\ s.stage = "sending" => s.outcome = "none"
             /\ s.stage = "writing" => s.outcome # "none" /\ s.appended = FALSE
             /\ s.stage \in {"idle", "sending", "writing"}
  <2>1. CASE s = Idle
    BY <2>1, <1>1
  <2>2. CASE s \in [stage: {"sending"}, event: Event, appended: BOOLEAN,
                    outcome: {"none"}]
    BY <2>2
  <2>3. CASE s \in [stage: {"writing"}, event: Event, appended: {FALSE},
                    outcome: Outcome]
    BY <2>3 DEF Outcome
  <2> QED BY <2>1, <2>2, <2>3 DEF RelayState
<1> QED BY <1>1, <1>2, <1>3, <1>4

\* What the types say of one publisher thread.
LEMMA RelayThread ==
    ASSUME TypeOK, NEW r \in Relay
    PROVE  /\ relay[r] \in RelayState
           /\ relay[r].stage # "idle" => relay[r].event \in Event
           /\ relay[r].stage = "idle" =>
                relay[r].outcome = "none" /\ relay[r].appended = FALSE
           /\ relay[r].stage = "sending" => relay[r].outcome = "none"
           /\ relay[r].stage = "writing" =>
                /\ relay[r].outcome \in Outcome
                /\ relay[r].outcome # "none"
                /\ relay[r].appended = FALSE
           /\ relay[r].stage \in {"idle", "sending", "writing"}
<1>1. relay[r] \in RelayState
  BY DEF TypeOK, RelayTypeOK
<1> QED BY <1>1, RelayStateType, ThreadColumns

\* What the types say of one command.
LEMMA CommandThread ==
    ASSUME TypeOK, NEW c \in Command
    PROVE  /\ command[c] \in CommandState
           /\ command[c].stage # "new" =>
                /\ command[c].event \in Event
                /\ command[c].key \in RecoveryKey
                /\ command[c].actor \in Actor
<1>1. command[c] \in CommandState
  BY DEF TypeOK, RecoveryTypeOK
<1> QED BY <1>1, CommandStateType

(***************************************************************************)
(* Frames: what each part of the invariant does not depend on.             *)
(***************************************************************************)

\* No column changes but due and aged.
SameColumns ==
    \A e \in Event :
        /\ outbox'[e].status = outbox[e].status
        /\ outbox'[e].attempts = outbox[e].attempts
        /\ outbox'[e].sequence = outbox[e].sequence
        /\ outbox'[e].exhausted = outbox[e].exhausted
        /\ outbox'[e].error = outbox[e].error

LEMMA UnchangedColumns == UNCHANGED outbox => SameColumns
  BY DEF SameColumns

\* The parts about one thread's work.
LEMMA ThreadFrames ==
    ASSUME TypeOK, SameColumns, UNCHANGED lock
    PROVE  /\ RelayRelies /\ UNCHANGED <<relay, topic, limit>> => RelayRelies'
           /\ CommandRelies /\ UNCHANGED <<command, payment, audit>> => CommandRelies'
           /\ LockRelies /\ UNCHANGED <<relay, command, cleaner>> => LockRelies'
<1>1. ASSUME RelayRelies, UNCHANGED <<relay, topic, limit>> PROVE RelayRelies'
  <2>1. \A r \in Relay : relay[r].stage # "idle" => relay[r].event \in Event
    BY RelayThread
  <2>2. \A r \in Relay :
            relay[r].appended \/ relay[r].outcome # "none" => relay[r].stage # "idle"
    BY RelayThread
  <2> QED BY <1>1, <2>1, <2>2 DEF RelayRelies, SameColumns
<1>2. ASSUME CommandRelies, UNCHANGED <<command, payment, audit>>
      PROVE  CommandRelies'
  <2>1. \A c \in Command : command[c].stage # "new" => command[c].event \in Event
    BY CommandThread
  <2> QED BY <1>2, <2>1 DEF CommandRelies, InTransaction, Exists, Recoverable,
                            KeyInDoubt, At, SameColumns
<1>3. ASSUME LockRelies, UNCHANGED <<relay, command, cleaner>> PROVE LockRelies'
  BY <1>3 DEF LockRelies, InTransaction
<1> QED BY <1>1, <1>2, <1>3

\* The parts about the tables.
LEMMA TableFrames ==
    ASSUME TypeOK, SameColumns, UNCHANGED payment
    PROVE  /\ RowsAreConsistent => RowsAreConsistent'
           /\ StatusAgrees => StatusAgrees'
           /\ PublishedIsInTopic /\ UNCHANGED topic => PublishedIsInTopic'
           /\ EachExhaustionIsHandedOff /\ UNCHANGED handoff
                => EachExhaustionIsHandedOff'
           /\ EachRecoveryIsAudited /\ UNCHANGED audit => EachRecoveryIsAudited'
           /\ SendsAreAccounted /\ UNCHANGED <<sends, faults, lock, relay>>
                => SendsAreAccounted'
<1> USE DEF TypeOK, StoreTypeOK, SameColumns
<1>1. RowsAreConsistent => RowsAreConsistent'
  BY DEF RowsAreConsistent, Exists
<1>2. StatusAgrees => StatusAgrees'
  BY DEF StatusAgrees, StatusOf, Exists
<1>3. PublishedIsInTopic /\ UNCHANGED topic => PublishedIsInTopic'
  BY DEF PublishedIsInTopic
<1>4. ASSUME EachExhaustionIsHandedOff, UNCHANGED handoff
      PROVE  EachExhaustionIsHandedOff'
  BY <1>4 DEF EachExhaustionIsHandedOff
<1>5. ASSUME EachRecoveryIsAudited, UNCHANGED audit PROVE EachRecoveryIsAudited'
  BY <1>5 DEF EachRecoveryIsAudited, RecoveredCycles
<1>6. ASSUME SendsAreAccounted, UNCHANGED <<sends, faults, lock, relay>>
      PROVE  SendsAreAccounted'
  BY <1>6 DEF SendsAreAccounted, Exists, InProgress, Greatest
<1> QED BY <1>1, <1>2, <1>3, <1>4, <1>5, <1>6

(***************************************************************************)
(* Creation and time.                                                      *)
(***************************************************************************)

\* A new payment and its event: no transaction works on the row yet.
LEMMA CreatePaymentStep ==
    ASSUME IInv, TypeOK', NEW e \in Event, CreatePayment(e),
           UNCHANGED <<relayVars, recoveryVars, retentionVars>>
    PROVE  IInv'
<1> USE DEF IInv
<1>1. /\ payment[e] = "NONE" /\ ~Exists(e)
      /\ outbox[e].sequence = 0 /\ ~outbox[e].exhausted
      /\ sends[e] = 0
  BY DEF CreatePayment, RowsAreConsistent, SendsAreAccounted
<1>2. /\ outbox' = [outbox EXCEPT ![e] = NewRow]
      /\ payment' = [payment EXCEPT ![e] = "CREATED"]
      /\ UNCHANGED <<handoff, audit, lock, sends, faults, relay, limit, topic,
                     command, cleaner>>
  BY DEF CreatePayment, relayVars, recoveryVars, retentionVars
<1>3. /\ NewRow.status = "PENDING" /\ NewRow.attempts = 0 /\ NewRow.sequence = 0
      /\ NewRow.exhausted = FALSE
  BY DEF NewRow, NoRow
<1>4. /\ outbox'[e] = NewRow /\ payment'[e] = "CREATED"
      /\ \A d \in Event \ {e} : outbox'[d] = outbox[d] /\ payment'[d] = payment[d]
  BY <1>2 DEF TypeOK, StoreTypeOK
<1>5. RelayRelies'
  <2>1. \A r \in Relay : relay[r].stage # "idle" =>
                            relay[r].event \in Event \ {e}
    BY <1>1, RelayThread DEF RelayRelies, Exists
  <2>2. \A r \in Relay :
            relay[r].appended \/ relay[r].outcome # "none" => relay[r].stage # "idle"
    BY RelayThread
  <2> QED BY <1>2, <1>4, <2>1, <2>2 DEF RelayRelies
<1>6. CommandRelies'
  <2>1. \A c \in Command : InTransaction(c) => command[c].event \in Event \ {e}
    BY <1>1, CommandThread DEF CommandRelies, InTransaction
  <2> QED BY <1>2, <1>4, <2>1
          DEF CommandRelies, InTransaction, Exists, Recoverable, KeyInDoubt, At
<1>7. CleanerRelies'
  BY <1>1, <1>2, <1>4
     DEF CleanerRelies, Expired, Exists, TypeOK, RetentionTypeOK, CleanerState
<1>8. LockRelies'
  BY <1>2 DEF LockRelies, InTransaction
<1>9. RowsAreConsistent'
  BY <1>3, <1>4 DEF RowsAreConsistent, Exists
<1>10. StatusAgrees'
  <2> SUFFICES ASSUME NEW d \in Event
               PROVE  IF Exists(d)' THEN payment'[d] = StatusOf(outbox'[d])
                                    ELSE payment'[d] \in {"NONE", "PUBLISHED"}
    BY DEF StatusAgrees
  <2>1. CASE d = e
    <3>1. StatusOf(NewRow) = "CREATED"
      BY <1>3 DEF StatusOf
    <3> QED BY <1>3, <1>4, <2>1, <3>1 DEF Exists
  <2>2. CASE d # e
    BY <1>4, <2>2 DEF StatusAgrees, Exists
  <2> QED BY <2>1, <2>2
<1>11. PublishedIsInTopic'
  BY <1>2, <1>4 DEF PublishedIsInTopic
<1>12. EachExhaustionIsHandedOff'
  BY <1>1, <1>2, <1>3, <1>4 DEF EachExhaustionIsHandedOff
<1>13. EachRecoveryIsAudited'
  BY <1>1, <1>2, <1>3, <1>4 DEF EachRecoveryIsAudited, RecoveredCycles
<1>14. SendsAreAccounted'
  BY <1>1, <1>2, <1>3, <1>4, FaultsAssumption, LimitAssumption
     DEF SendsAreAccounted, Exists, InProgress, Greatest, TypeOK, StoreTypeOK
<1> QED BY <1>5, <1>6, <1>7, <1>8, <1>9, <1>10, <1>11, <1>12, <1>13, <1>14

\* Time: a row becomes due or old, and nothing else about it changes.
LEMMA TimeStep ==
    ASSUME IInv, TypeOK', UNCHANGED <<relayVars, recoveryVars, retentionVars>>,
           \/ \E e \in Event : DelayElapses(e) \/ EventAges(e)
           \/ \E c \in Command : JournalAges(c)
    PROVE  IInv'
<1> USE DEF IInv
<1>1. UNCHANGED <<payment, handoff, audit, lock, sends, faults, relay, limit,
                  topic, command, cleaner>>
  BY DEF DelayElapses, EventAges, JournalAges, relayVars, recoveryVars,
         retentionVars
<1>2. SameColumns /\ (\A e \in Event : outbox[e].aged => outbox'[e].aged)
  <2>1. ASSUME NEW row \in OutboxRow
        PROVE  /\ [row EXCEPT !.due = TRUE].status = row.status
               /\ [row EXCEPT !.due = TRUE].attempts = row.attempts
               /\ [row EXCEPT !.due = TRUE].sequence = row.sequence
               /\ [row EXCEPT !.due = TRUE].exhausted = row.exhausted
               /\ [row EXCEPT !.due = TRUE].error = row.error
               /\ [row EXCEPT !.due = TRUE].aged = row.aged
    BY DEF OutboxRow
  <2>2. ASSUME NEW row \in OutboxRow
        PROVE  /\ [row EXCEPT !.aged = TRUE].status = row.status
               /\ [row EXCEPT !.aged = TRUE].attempts = row.attempts
               /\ [row EXCEPT !.aged = TRUE].sequence = row.sequence
               /\ [row EXCEPT !.aged = TRUE].exhausted = row.exhausted
               /\ [row EXCEPT !.aged = TRUE].error = row.error
               /\ [row EXCEPT !.aged = TRUE].aged = TRUE
    BY DEF OutboxRow
  <2>3. ASSUME NEW e \in Event, DelayElapses(e)
        PROVE  SameColumns /\ (\A d \in Event : outbox[d].aged => outbox'[d].aged)
    BY <2>1, <2>3 DEF DelayElapses, SameColumns, TypeOK, StoreTypeOK
  <2>4. ASSUME NEW e \in Event, EventAges(e)
        PROVE  SameColumns /\ (\A d \in Event : outbox[d].aged => outbox'[d].aged)
    BY <2>2, <2>4 DEF EventAges, SameColumns, TypeOK, StoreTypeOK
  <2>5. ASSUME NEW c \in Command, JournalAges(c) PROVE UNCHANGED outbox
    BY <2>5 DEF JournalAges
  <2> QED BY <2>3, <2>4, <2>5 DEF SameColumns
<1>3. CleanerRelies'
  BY <1>1, <1>2 DEF CleanerRelies, Expired, SameColumns, TypeOK,
                    RetentionTypeOK, CleanerState
<1> QED BY <1>1, <1>2, <1>3, ThreadFrames, TableFrames

(***************************************************************************)
(* The publisher.                                                          *)
(***************************************************************************)

\* A publisher takes the lock of a free row: no other transaction works on it.
LEMMA ClaimStep ==
    ASSUME IInv, TypeOK', NEW r \in Relay, ClaimAndSend(r) \/ ClaimOverLimit(r),
           UNCHANGED <<recoveryVars, retentionVars>>
    PROVE  IInv'
<1> USE DEF IInv
<1>1. PICK e \in Event :
        /\ Claimable(e) /\ lock[e] = Free
        /\ lock' = [lock EXCEPT ![e] = r]
        /\ \/ /\ outbox[e].attempts < limit[r]
              /\ relay' = [relay EXCEPT ![r] = Sending(e)]
              /\ sends' = [sends EXCEPT ![e] = @ + 1]
           \/ /\ outbox[e].attempts >= limit[r]
              /\ relay' = [relay EXCEPT ![r] = Writing(e, "over_limit")]
              /\ UNCHANGED sends
  BY DEF ClaimAndSend, ClaimOverLimit, FirstClaimable, Unlocked, Acquire
<1>2. UNCHANGED <<outbox, payment, handoff, audit, faults, limit, topic, command,
                  cleaner>>
  BY DEF ClaimAndSend, ClaimOverLimit, recoveryVars, retentionVars
<1>3. /\ lock'[e] = r /\ r # Free /\ r \notin Command /\ r \notin Cleaner
      /\ \A d \in Event \ {e} : lock'[d] = lock[d]
  BY <1>1, OwnerAssumption DEF TypeOK, StoreTypeOK
<1>4. /\ \/ /\ relay'[r] = Sending(e)
            /\ outbox[e].attempts < limit[r]
         \/ /\ relay'[r] = Writing(e, "over_limit")
            /\ outbox[e].attempts >= limit[r]
      /\ \A q \in Relay \ {r} : relay'[q] = relay[q]
  BY <1>1 DEF TypeOK, RelayTypeOK
<1>5. "over_limit" \in Outcome
  BY DEF Outcome
<1>6. /\ relay'[r].stage # "idle" /\ relay'[r].event = e
      /\ relay'[r].appended = FALSE
      /\ relay'[r].outcome \in {"none", "over_limit"}
      /\ relay'[r].outcome # "over_limit" => outbox[e].attempts < limit[r]
      /\ relay'[r].outcome = "over_limit" => outbox[e].attempts >= limit[r]
  BY <1>4, <1>5, ThreadColumns
<1>7. RelayRelies'
  <2>1. \A q \in Relay : relay[q].stage # "idle" => relay[q].event \in Event \ {e}
    BY <1>1, RelayThread, OwnerAssumption DEF RelayRelies
  <2>2. \A q \in Relay :
            relay[q].appended \/ relay[q].outcome # "none" => relay[q].stage # "idle"
    BY RelayThread
  <2>3. outbox[e].status = "PENDING" /\ ~outbox[e].exhausted
    BY <1>1 DEF Claimable
  <2> QED BY <1>2, <1>3, <1>4, <1>6, <2>1, <2>2, <2>3 DEF RelayRelies
<1>8. CommandRelies'
  <2>1. \A c \in Command : InTransaction(c) => command[c].event \in Event \ {e}
    BY <1>1, CommandThread, OwnerAssumption DEF CommandRelies, InTransaction
  <2> QED BY <1>2, <1>3, <2>1
          DEF CommandRelies, InTransaction, Exists, Recoverable, KeyInDoubt, At
<1>9. CleanerRelies'
  <2>1. \A w \in Cleaner : cleaner[w].batch \subseteq Event \ {e}
    BY <1>1, OwnerAssumption
       DEF CleanerRelies, TypeOK, RetentionTypeOK, CleanerState
  <2> QED BY <1>2, <1>3, <2>1 DEF CleanerRelies, Expired
<1>10. LockRelies'
  <2> SUFFICES ASSUME NEW d \in Event
               PROVE  /\ lock'[d] \in Relay =>
                            relay'[lock'[d]].stage # "idle" /\ relay'[lock'[d]].event = d
                      /\ lock'[d] \in Command =>
                            InTransaction(lock[d]) /\ command[lock[d]].event = d
                      /\ lock'[d] \in Cleaner => d \in cleaner[lock[d]].batch
    BY <1>2, <1>3 DEF LockRelies, InTransaction
  <2>1. CASE d = e
    BY <1>3, <1>6, <2>1
  <2>2. CASE d # e
    <3>1. relay[r].stage = "idle"
      BY DEF ClaimAndSend, ClaimOverLimit
    <3> QED BY <1>3, <1>4, <2>2, <3>1 DEF LockRelies
  <2> QED BY <2>1, <2>2
<1>11. SendsAreAccounted'
  <2> SUFFICES ASSUME NEW d \in Event
               PROVE  /\ payment[d] = "NONE" => sends'[d] = 0
                      /\ Exists(d) => sends'[d] <= outbox[d].attempts + faults
                                        + (IF InProgress(d)' THEN 1 ELSE 0)
                      /\ \A n \in Limit : Greatest(n) =>
                            outbox[d].attempts <= n /\ sends'[d] <= n + faults
    BY <1>2 DEF SendsAreAccounted, Exists, Greatest
  <2>1. CASE d # e
    <3>1. sends'[d] = sends[d]
      BY <1>1, <2>1 DEF TypeOK, StoreTypeOK
    <3>2. InProgress(d)' = InProgress(d)
      <4>1. lock[d] # r
        BY <2>1 DEF LockRelies, ClaimAndSend, ClaimOverLimit
      <4> QED BY <1>3, <1>4, <2>1, <4>1 DEF InProgress
    <3> QED BY <3>1, <3>2 DEF SendsAreAccounted
  <2>2. CASE d = e
    <3>1. /\ sends[e] \in Nat /\ outbox[e].attempts \in Nat /\ faults \in Nat
          /\ limit[r] \in Limit /\ \A n \in Limit : n \in Nat
      BY RowColumns, FaultsAssumption, LimitAssumption
         DEF TypeOK, StoreTypeOK, RelayTypeOK
    <3>2. /\ Exists(e) /\ payment[e] # "NONE"
          /\ ~InProgress(e) /\ sends[e] <= outbox[e].attempts + faults
      <4>1. Exists(e) /\ payment[e] # "NONE"
        BY <1>1 DEF Claimable, Exists, RowsAreConsistent
      <4>2. ~InProgress(e)
        BY <1>1, OwnerAssumption DEF InProgress
      <4> QED BY <3>1, <4>1, <4>2 DEF SendsAreAccounted
    <3>3. CASE outbox[e].attempts < limit[r] /\ relay' = [relay EXCEPT ![r] = Sending(e)]
               /\ sends' = [sends EXCEPT ![e] = @ + 1]
      <4>1. sends'[e] = sends[e] + 1
        BY <3>3 DEF TypeOK, StoreTypeOK
      <4>2. relay'[r].outcome = "none"
        BY <3>3, ThreadColumns DEF TypeOK, RelayTypeOK
      <4>3. InProgress(e)'
        BY <1>3, <4>2 DEF InProgress
      <4>4. \A n \in Limit : Greatest(n) => outbox[e].attempts + 1 <= n
        BY <3>1, <3>3 DEF Greatest
      <4> QED BY <2>2, <3>1, <3>2, <4>1, <4>3, <4>4
    <3>4. CASE UNCHANGED sends
      BY <2>2, <3>1, <3>2, <3>4 DEF SendsAreAccounted
    <3> QED BY <1>1, <3>3, <3>4
  <2> QED BY <2>1, <2>2
<1> QED
  BY <1>2, <1>7, <1>8, <1>9, <1>10, <1>11, UnchangedColumns, TableFrames

\* A transaction that has locked a row is alone with it.
LEMMA LockExcludes ==
    ASSUME IInv, NEW e \in Event
    PROVE  /\ \A r \in Relay : relay[r].stage # "idle" /\ lock[e] # r =>
                relay[r].event \in Event \ {e}
           /\ \A c \in Command : InTransaction(c) /\ lock[e] # c =>
                command[c].event \in Event \ {e}
           /\ \A w \in Cleaner : lock[e] # w => cleaner[w].batch \subseteq Event \ {e}
<1> USE DEF IInv
<1>1. ASSUME NEW r \in Relay, relay[r].stage # "idle", lock[e] # r
      PROVE  relay[r].event \in Event \ {e}
  BY <1>1, RelayThread DEF RelayRelies
<1>2. ASSUME NEW c \in Command, InTransaction(c), lock[e] # c
      PROVE  command[c].event \in Event \ {e}
  BY <1>2, CommandThread DEF CommandRelies, InTransaction
<1>3. ASSUME NEW w \in Cleaner, lock[e] # w
      PROVE  cleaner[w].batch \subseteq Event \ {e}
  BY <1>3 DEF CleanerRelies, TypeOK, RetentionTypeOK, CleanerState
<1> QED BY <1>1, <1>2, <1>3

\* The publisher waits: no table changes, and the topic only grows.
LEMMA WaitStep ==
    ASSUME IInv, TypeOK', NEW r \in Relay,
           BrokerAppends(r) \/ Acknowledge(r) \/ SendFails(r),
           UNCHANGED <<recoveryVars, retentionVars>>
    PROVE  IInv'
<1> DEFINE e == relay[r].event
<1> USE DEF IInv
<1>1. /\ relay[r].stage = "sending" /\ relay[r].outcome = "none"
      /\ e \in Event /\ lock[e] = r
      /\ outbox[e].status = "PENDING" /\ ~outbox[e].exhausted
      /\ outbox[e].attempts < limit[r]
  BY RelayThread DEF BrokerAppends, Acknowledge, SendFails, RelayRelies
<1>2. UNCHANGED <<outbox, payment, handoff, audit, lock, sends, faults, limit,
                  command, cleaner>>
  BY DEF BrokerAppends, Acknowledge, SendFails, storeVars, recoveryVars,
         retentionVars
<1>3. /\ relay'[r].stage # "idle" /\ relay'[r].event = e
      /\ relay'[r].outcome # "over_limit"
      /\ relay'[r].outcome = "retry" => outbox[e].attempts + 1 < limit[r]
      /\ relay'[r].appended \/ relay'[r].outcome = "published" => topic'[e] > 0
      /\ \A d \in Event : topic[d] > 0 => topic'[d] > 0
      /\ \A q \in Relay \ {r} : relay'[q] = relay[q]
  <2>1. CASE BrokerAppends(r)
    <3>1. topic' = [topic EXCEPT ![e] = @ + 1] /\ topic \in [Event -> Nat]
      BY <2>1 DEF BrokerAppends, TypeOK, RelayTypeOK
    <3>2. topic'[e] > 0 /\ (\A d \in Event : topic[d] > 0 => topic'[d] > 0)
      BY <1>1, <3>1
    <3>3. relay'[r] = Appended(e) /\ \A q \in Relay \ {r} : relay'[q] = relay[q]
      BY <2>1 DEF BrokerAppends, TypeOK, RelayTypeOK
    <3> QED BY <1>1, <3>2, <3>3, ThreadColumns
  <2>2. CASE Acknowledge(r)
    <3>1. "published" \in Outcome
      BY DEF Outcome
    <3>2. /\ relay'[r] = Writing(e, "published")
          /\ \A q \in Relay \ {r} : relay'[q] = relay[q]
          /\ UNCHANGED topic
      BY <2>2 DEF Acknowledge, TypeOK, RelayTypeOK
    <3>3. topic[e] > 0
      BY <2>2 DEF Acknowledge, RelayRelies
    <3> QED BY <1>1, <3>1, <3>2, <3>3, ThreadColumns
  <2>3. CASE SendFails(r)
    <3>1. PICK o \in {"exhausted", "retry"} :
            /\ relay'[r] = Writing(e, o)
            /\ o = "retry" => ~IsFinalAttempt(r)
      BY <2>3 DEF SendFails, TypeOK, RelayTypeOK
    <3>2. /\ \A q \in Relay \ {r} : relay'[q] = relay[q]
          /\ UNCHANGED topic
      BY <2>3 DEF SendFails, TypeOK, RelayTypeOK
    <3>3. ~IsFinalAttempt(r) => outbox[e].attempts + 1 < limit[r]
      <4>1. outbox[e].attempts \in Nat /\ limit[r] \in Nat
        BY <1>1, RowColumns, LimitAssumption DEF TypeOK, StoreTypeOK, RelayTypeOK
      <4> QED BY <4>1 DEF IsFinalAttempt
    <3>4. o \in Outcome
      BY DEF Outcome
    <3>5. /\ relay'[r].stage = "writing" /\ relay'[r].event = e
          /\ relay'[r].appended = FALSE /\ relay'[r].outcome = o
      BY <1>1, <3>1, <3>4, ThreadColumns
    <3> QED BY <3>1, <3>2, <3>3, <3>5
  <2> QED BY <2>1, <2>2, <2>3
<1>4. RelayRelies'
  <2>1. \A q \in Relay : relay[q].stage # "idle" => relay[q].event \in Event
    BY RelayThread
  <2>2. \A q \in Relay :
            relay[q].appended \/ relay[q].outcome # "none" => relay[q].stage # "idle"
    BY RelayThread
  <2> QED BY <1>1, <1>2, <1>3, <2>1, <2>2 DEF RelayRelies
<1>5. LockRelies'
  BY <1>1, <1>2, <1>3 DEF LockRelies, InTransaction
<1>6. CleanerRelies'
  BY <1>2 DEF CleanerRelies, Expired
<1>7. PublishedIsInTopic'
  BY <1>2, <1>3 DEF PublishedIsInTopic
<1>8. SendsAreAccounted'
  <2>1. \A d \in Event : InProgress(d)' = InProgress(d)
    BY <1>1, <1>2, <1>3 DEF InProgress
  <2> QED BY <1>2, <2>1 DEF SendsAreAccounted, Exists, Greatest
<1> QED
  BY <1>2, <1>4, <1>5, <1>6, <1>7, <1>8, UnchangedColumns, TableFrames, ThreadFrames

\* A record arrives in the topic after its publisher has given up on it.
LEMMA LateStep ==
    ASSUME IInv, TypeOK', NEW e \in Event, BrokerAppendsLate(e),
           UNCHANGED <<recoveryVars, retentionVars>>
    PROVE  IInv'
<1> USE DEF IInv
<1>1. UNCHANGED <<outbox, payment, handoff, audit, lock, sends, faults, relay,
                  limit, command, cleaner>>
  BY DEF BrokerAppendsLate, storeVars, recoveryVars, retentionVars
<1>2. \A d \in Event : topic[d] > 0 => topic'[d] > 0
  BY DEF BrokerAppendsLate, TypeOK, RelayTypeOK
<1>3. RelayRelies'
  <2>1. \A q \in Relay : relay[q].stage # "idle" => relay[q].event \in Event
    BY RelayThread
  <2>2. \A q \in Relay :
            relay[q].appended \/ relay[q].outcome # "none" => relay[q].stage # "idle"
    BY RelayThread
  <2> QED BY <1>1, <1>2, <2>1, <2>2 DEF RelayRelies
<1>4. PublishedIsInTopic'
  BY <1>1, <1>2 DEF PublishedIsInTopic
<1>5. CleanerRelies'
  BY <1>1 DEF CleanerRelies, Expired
<1> QED BY <1>1, <1>3, <1>4, <1>5, UnchangedColumns, TableFrames, ThreadFrames

\* The row the publisher writes, for each outcome: what the tables rely on.
LEMMA RowWritten ==
    ASSUME IInv, NEW r \in Relay, relay[r].stage = "writing",
           NEW row, row = RowAfter(outbox[relay[r].event], relay[r].outcome)
    PROVE  LET old == outbox[relay[r].event]
               o == relay[r].outcome
           IN  /\ row \in OutboxRow
               /\ row.status \in {"PENDING", "PUBLISHED"}
               /\ row.status = "PUBLISHED" <=> o = "published"
               /\ row.exhausted => row.status = "PENDING"
               /\ row.exhausted <=> o \in {"exhausted", "over_limit"}
               /\ row.exhausted => row.sequence = old.sequence + 1
               /\ ~row.exhausted => row.sequence = old.sequence
               /\ o = "over_limit" => row.attempts = old.attempts
               /\ o # "over_limit" => row.attempts = old.attempts + 1
               /\ row.attempts > 0
               /\ row.status = "PENDING" => row.error
               /\ \A n \in Limit : Greatest(n) /\ old.attempts <= n => row.attempts <= n
<1> DEFINE old == outbox[relay[r].event]
           o == relay[r].outcome
<1> USE DEF IInv
<1>1. /\ o \in Outcome /\ old \in OutboxRow
      /\ old.status = "PENDING" /\ ~old.exhausted
      /\ o # "over_limit" => old.attempts < limit[r]
      /\ o = "over_limit" => old.attempts >= limit[r]
  BY RelayThread DEF RelayRelies, TypeOK, StoreTypeOK
<1>2. /\ old.attempts \in Nat /\ old.sequence \in Nat
      /\ limit[r] \in Limit /\ \A n \in Limit : n \in Nat /\ n > 0
  BY <1>1, RowColumns, LimitAssumption DEF TypeOK, RelayTypeOK
<1>3. old.attempts > 0 => old.error
  BY <1>1, RelayThread DEF RowsAreConsistent
<1>4. \A n \in Limit : Greatest(n) => limit[r] <= n
  BY <1>2 DEF Greatest
<1>5. /\ MarkPublished(old) \in OutboxRow /\ ScheduleRetry(old) \in OutboxRow
      /\ MarkExhausted(old) \in OutboxRow
      /\ MarkExhaustedWithoutAttempt(old) \in OutboxRow
  BY <1>1, RowOperationsType
<1>6. CASE o = "published"
  <2>1. row = MarkPublished(old)
    BY <1>6 DEF RowAfter
  <2>2. /\ MarkPublished(old).status = "PUBLISHED" /\ MarkPublished(old).sequence = old.sequence
        /\ MarkPublished(old).exhausted = FALSE /\ MarkPublished(old).attempts = old.attempts + 1
    BY <1>1, RowOperationColumns
  <2> QED BY <1>1, <1>2, <1>4, <1>5, <1>6, <2>1, <2>2
<1>7. CASE o = "retry"
  <2>1. row = ScheduleRetry(old)
    BY <1>7 DEF RowAfter
  <2>2. /\ ScheduleRetry(old).status = "PENDING" /\ ScheduleRetry(old).sequence = old.sequence
        /\ ScheduleRetry(old).exhausted = FALSE /\ ScheduleRetry(old).attempts = old.attempts + 1
        /\ ScheduleRetry(old).error = TRUE
    BY <1>1, RowOperationColumns
  <2> QED BY <1>1, <1>2, <1>4, <1>5, <1>7, <2>1, <2>2
<1>8. CASE o = "exhausted"
  <2>1. row = MarkExhausted(old)
    BY <1>8 DEF RowAfter
  <2>2. /\ MarkExhausted(old).status = "PENDING" /\ MarkExhausted(old).sequence = old.sequence + 1
        /\ MarkExhausted(old).exhausted = TRUE /\ MarkExhausted(old).attempts = old.attempts + 1
        /\ MarkExhausted(old).error = TRUE
    BY <1>1, RowOperationColumns
  <2> QED BY <1>1, <1>2, <1>4, <1>5, <1>8, <2>1, <2>2
<1>9. CASE o = "over_limit"
  <2>1. row = MarkExhaustedWithoutAttempt(old)
    BY <1>9 DEF RowAfter
  <2>2. /\ MarkExhaustedWithoutAttempt(old).status = "PENDING" /\ MarkExhaustedWithoutAttempt(old).sequence = old.sequence + 1
        /\ MarkExhaustedWithoutAttempt(old).exhausted = TRUE /\ MarkExhaustedWithoutAttempt(old).attempts = old.attempts
        /\ MarkExhaustedWithoutAttempt(old).error = old.error
    BY <1>1, RowOperationColumns
  <2>3. old.attempts > 0
    BY <1>1, <1>2, <1>9
  <2> QED BY <1>1, <1>2, <1>3, <1>5, <1>9, <2>1, <2>2, <2>3
<1> QED BY <1>1, <1>6, <1>7, <1>8, <1>9 DEF Outcome

\* The publisher commits its outcome: row, payment status and handoff change
\* together, and the lock goes.
LEMMA CommitOutcomeStep ==
    ASSUME IInv, TypeOK', NEW r \in Relay, CommitOutcome(r),
           UNCHANGED <<recoveryVars, retentionVars>>
    PROVE  IInv'
<1> USE DEF IInv
<1>0. PICK e \in Event, o \in Outcome :
        relay[r].stage = "writing" /\ e = relay[r].event /\ o = relay[r].outcome
  BY RelayThread DEF CommitOutcome
<1> DEFINE row == RowAfter(outbox[e], o)
<1>1. /\ relay[r].stage = "writing" /\ relay[r].event = e /\ relay[r].outcome = o
      /\ lock[e] = r /\ r # Free /\ r \notin Command /\ r \notin Cleaner
      /\ outbox[e].status = "PENDING" /\ ~outbox[e].exhausted
      /\ Exists(e)
      /\ o = "published" => topic[e] > 0
  BY <1>0, OwnerAssumption DEF RelayRelies, Exists
<1>2. /\ row.status \in {"PENDING", "PUBLISHED"}
      /\ row.status = "PUBLISHED" <=> o = "published"
      /\ row.exhausted => row.status = "PENDING"
      /\ row.exhausted <=> o \in {"exhausted", "over_limit"}
      /\ row.exhausted => row.sequence = outbox[e].sequence + 1
      /\ ~row.exhausted => row.sequence = outbox[e].sequence
      /\ o = "over_limit" => row.attempts = outbox[e].attempts
      /\ o # "over_limit" => row.attempts = outbox[e].attempts + 1
      /\ row.attempts > 0
      /\ row.status = "PENDING" => row.error
      /\ \A n \in Limit : Greatest(n) /\ outbox[e].attempts <= n => row.attempts <= n
      /\ row.attempts \in Nat /\ row.sequence \in Nat
  BY <1>1, RowWritten, RowColumns
<1>3. /\ outbox'[e] = row
      /\ payment'[e] = PaymentAfter(o)
      /\ lock'[e] = Free
      /\ relay'[r] = Idle
      /\ \A d \in Event \ {e} :
            outbox'[d] = outbox[d] /\ payment'[d] = payment[d] /\ lock'[d] = lock[d]
      /\ \A q \in Relay \ {r} : relay'[q] = relay[q]
  BY <1>1 DEF CommitOutcome, Release, TypeOK, StoreTypeOK, RelayTypeOK
<1>4. UNCHANGED <<audit, sends, faults, limit, topic, command, cleaner>>
  BY DEF CommitOutcome, recoveryVars, retentionVars
<1>5. /\ \A d \in Event \ {e} : handoff'[d] = handoff[d]
      /\ row.exhausted => handoff'[e] = handoff[e] \cup {HandoffOf(row)}
      /\ ~row.exhausted => handoff'[e] = handoff[e]
  BY <1>1 DEF CommitOutcome, TypeOK, StoreTypeOK
<1>6. outbox[e].attempts \in Nat /\ outbox[e].sequence \in Nat
      /\ sends[e] \in Nat /\ faults \in Nat
  BY <1>1, RowColumns, FaultsAssumption DEF TypeOK, StoreTypeOK
<1>7. /\ \A q \in Relay \ {r} : relay[q].stage # "idle" =>
                relay[q].event \in Event \ {e}
      /\ \A c \in Command : InTransaction(c) => command[c].event \in Event \ {e}
      /\ \A w \in Cleaner : cleaner[w].batch \subseteq Event \ {e}
  BY <1>1, LockExcludes
<1>8. RelayRelies'
  <2>1. \A q \in Relay :
            relay[q].appended \/ relay[q].outcome # "none" => relay[q].stage # "idle"
    BY RelayThread
  <2> QED BY <1>3, <1>4, <1>7, <2>1, ThreadColumns DEF RelayRelies
<1>9. CommandRelies'
  BY <1>3, <1>4, <1>7
     DEF CommandRelies, InTransaction, Exists, Recoverable, KeyInDoubt, At
<1>10. CleanerRelies'
  BY <1>3, <1>4, <1>7 DEF CleanerRelies, Expired
<1>11. LockRelies'
  <2>1. \A d \in Event \ {e} : lock[d] # r
    BY <1>1 DEF LockRelies
  <2> QED BY <1>3, <1>4, <2>1, OwnerAssumption DEF LockRelies, InTransaction
<1>12. RowsAreConsistent'
  <2>1. PaymentAfter(o) # "NONE"
    BY <1>1 DEF PaymentAfter, Outcome
  <2>2. row.exhausted => row.sequence > 0
    BY <1>2, <1>6
  <2> QED BY <1>2, <1>3, <2>1, <2>2 DEF RowsAreConsistent, Exists
<1>13. StatusAgrees'
  <2>1. StatusOf(row) = PaymentAfter(o)
    <3>1. CASE o = "published"
      BY <1>2, <3>1 DEF StatusOf, PaymentAfter
    <3>2. CASE o = "retry"
      <4>1. row.attempts + row.sequence > 0
        BY <1>2
      <4> QED BY <1>2, <3>2, <4>1 DEF StatusOf, PaymentAfter
    <3>3. CASE o \in {"exhausted", "over_limit"}
      BY <1>2, <3>3 DEF StatusOf, PaymentAfter
    <3> QED BY <1>1, <3>1, <3>2, <3>3 DEF Outcome
  <2> QED BY <1>2, <1>3, <2>1 DEF StatusAgrees, Exists
<1>14. PublishedIsInTopic'
  BY <1>1, <1>3, <1>4 DEF PublishedIsInTopic, PaymentAfter, Outcome
<1>15. EachExhaustionIsHandedOff'
  <2> SUFFICES ASSUME NEW d \in Event
               PROVE  /\ {h.sequence : h \in handoff'[d]} = 1..outbox'[d].sequence
                      /\ \A h, i \in handoff'[d] : h.sequence = i.sequence => h = i
                      /\ \A h \in handoff'[d] : h.error /\ h.attempts > 0
    BY DEF EachExhaustionIsHandedOff
  <2>1. CASE d # e \/ ~row.exhausted
    BY <1>2, <1>3, <1>5, <2>1 DEF EachExhaustionIsHandedOff
  <2>2. CASE d = e /\ row.exhausted
    <3>1. /\ HandoffOf(row).sequence = outbox[e].sequence + 1
          /\ HandoffOf(row).error /\ HandoffOf(row).attempts > 0
      BY <1>2, <2>2 DEF HandoffOf
    <3>2. /\ {h.sequence : h \in handoff[e]} = 1..outbox[e].sequence
          /\ \A h, i \in handoff[e] : h.sequence = i.sequence => h = i
          /\ \A h \in handoff[e] : h.error /\ h.attempts > 0
      BY <1>1 DEF EachExhaustionIsHandedOff
    <3>3. \A h \in handoff[e] : h.sequence # outbox[e].sequence + 1
      <4>1. \A h \in handoff[e] : h.sequence \in 1..outbox[e].sequence
        BY <3>2
      <4> QED BY <1>6, <4>1
    <3>4. 1..(outbox[e].sequence + 1)
            = 1..outbox[e].sequence \cup {outbox[e].sequence + 1}
      BY <1>6
    <3>5. handoff'[d] = handoff[e] \cup {HandoffOf(row)}
          /\ outbox'[d].sequence = outbox[e].sequence + 1
      BY <1>2, <1>3, <1>5, <2>2
    <3>6. {h.sequence : h \in handoff'[d]}
            = {h.sequence : h \in handoff[e]} \cup {HandoffOf(row).sequence}
      BY <3>5
    <3>7. {h.sequence : h \in handoff'[d]} = 1..outbox'[d].sequence
      BY <3>1, <3>2, <3>4, <3>5, <3>6
    <3> QED BY <3>1, <3>2, <3>3, <3>5, <3>7
  <2> QED BY <2>1, <2>2
<1>16. EachRecoveryIsAudited'
  <2>1. \A d \in Event : RecoveredCycles(d)' = RecoveredCycles(d)
    BY <1>4 DEF RecoveredCycles
  <2>2. outbox'[e].exhausted => outbox'[e].sequence - 1 = outbox[e].sequence
    BY <1>2, <1>3, <1>6
  <2>3. ~outbox'[e].exhausted => outbox'[e].sequence = outbox[e].sequence
    BY <1>2, <1>3
  <2>4. RecoveredCycles(e) = 1..outbox[e].sequence
    BY <1>1 DEF EachRecoveryIsAudited
  <2>5. RecoveredCycles(e)' =
            1..(IF outbox'[e].exhausted THEN outbox'[e].sequence - 1
                                        ELSE outbox'[e].sequence)
    <3>1. CASE outbox'[e].exhausted
      BY <2>1, <2>2, <2>4, <3>1
    <3>2. CASE ~outbox'[e].exhausted
      BY <2>1, <2>3, <2>4, <3>2
    <3> QED BY <3>1, <3>2
  <2>6. ASSUME NEW d \in Event \ {e}
        PROVE  RecoveredCycles(d)' =
            1..(IF outbox'[d].exhausted THEN outbox'[d].sequence - 1
                                        ELSE outbox'[d].sequence)
    BY <1>3, <2>1 DEF EachRecoveryIsAudited
  <2>7. \A d \in Event : RecoveredCycles(d)' =
            1..(IF outbox'[d].exhausted THEN outbox'[d].sequence - 1
                                        ELSE outbox'[d].sequence)
    BY <2>5, <2>6
  <2> QED BY <1>4, <2>7 DEF EachRecoveryIsAudited
<1>17. SendsAreAccounted'
  <2>1. payment'[e] # "NONE"
    BY <1>1, <1>3 DEF PaymentAfter, Outcome
  <2>2. \A d \in Event \ {e} : InProgress(d)' = InProgress(d)
    <3>1. \A d \in Event \ {e} : lock[d] # r
      BY <1>1 DEF LockRelies
    <3> QED BY <1>3, <3>1 DEF InProgress
  <2>3. sends[e] <= row.attempts + faults
    <3>1. sends[e] <= outbox[e].attempts + faults + (IF InProgress(e) THEN 1 ELSE 0)
      BY <1>1 DEF SendsAreAccounted
    <3>2. InProgress(e) <=> o # "over_limit"
      BY <1>1 DEF InProgress
    <3> QED BY <1>2, <1>6, <3>1, <3>2
  <2>4. ~InProgress(e)'
    BY <1>3, OwnerAssumption DEF InProgress
  <2>5. \A n \in Limit : Greatest(n) => row.attempts <= n /\ sends[e] <= n + faults
    BY <1>1, <1>2 DEF SendsAreAccounted
  <2> QED BY <1>1, <1>2, <1>3, <1>4, <1>6, <2>1, <2>2, <2>3, <2>4, <2>5
          DEF SendsAreAccounted, Exists, Greatest
<1> QED BY <1>8, <1>9, <1>10, <1>11, <1>12, <1>13, <1>14, <1>15, <1>16, <1>17

\* The publisher's transaction is rolled back: the row is as before, the lock
\* goes, and a send that is no longer counted on the row is paid for by the
\* fault.
LEMMA RollbackStep ==
    ASSUME IInv, TypeOK', NEW r \in Relay, relay[r].stage # "idle",
           Fault, Release(relay[r].event), relay' = [relay EXCEPT ![r] = Idle],
           \A q \in Relay \ {r} : limit'[q] = limit[q],
           UNCHANGED <<outbox, payment, handoff, audit, sends, topic>>,
           UNCHANGED <<recoveryVars, retentionVars>>
    PROVE  IInv'
<1> USE DEF IInv
<1>1. PICK e \in Event :
        /\ relay[r].stage # "idle" /\ relay[r].event = e
        /\ lock[e] = r /\ r # Free /\ r \notin Command /\ r \notin Cleaner
  BY RelayThread, OwnerAssumption DEF RelayRelies
<1>2. /\ lock'[e] = Free
      /\ relay'[r] = Idle
      /\ \A d \in Event \ {e} : lock'[d] = lock[d]
      /\ \A q \in Relay \ {r} : relay'[q] = relay[q] /\ limit'[q] = limit[q]
      /\ faults' = faults + 1
  BY <1>1 DEF Release, Fault, TypeOK, StoreTypeOK, RelayTypeOK
<1>3. UNCHANGED <<outbox, payment, handoff, audit, sends, topic, command, cleaner>>
  BY DEF recoveryVars, retentionVars
<1>4. /\ \A q \in Relay \ {r} : relay[q].stage # "idle" =>
                relay[q].event \in Event \ {e}
      /\ \A c \in Command : InTransaction(c) => command[c].event \in Event \ {e}
      /\ \A w \in Cleaner : cleaner[w].batch \subseteq Event \ {e}
  BY <1>1, LockExcludes
<1>5. RelayRelies'
  <2>1. \A q \in Relay :
            relay[q].appended \/ relay[q].outcome # "none" => relay[q].stage # "idle"
    BY RelayThread
  <2> QED BY <1>2, <1>3, <1>4, <2>1, ThreadColumns DEF RelayRelies
<1>6. CommandRelies'
  BY <1>2, <1>3, <1>4
     DEF CommandRelies, InTransaction, Exists, Recoverable, KeyInDoubt, At
<1>7. CleanerRelies'
  BY <1>2, <1>3, <1>4 DEF CleanerRelies, Expired
<1>8. LockRelies'
  <2>1. \A d \in Event \ {e} : lock[d] # r
    BY <1>1 DEF LockRelies
  <2> QED BY <1>2, <1>3, <2>1, OwnerAssumption DEF LockRelies, InTransaction
<1>9. SendsAreAccounted'
  <2> SUFFICES ASSUME NEW d \in Event
               PROVE  /\ payment[d] = "NONE" => sends[d] = 0
                      /\ Exists(d) => sends[d] <= outbox[d].attempts + faults'
                                        + (IF InProgress(d)' THEN 1 ELSE 0)
                      /\ \A n \in Limit : Greatest(n) =>
                            outbox[d].attempts <= n /\ sends[d] <= n + faults'
    BY <1>3 DEF SendsAreAccounted, Exists, Greatest
  <2>1. /\ outbox[d].attempts \in Nat /\ sends[d] \in Nat /\ faults \in Nat
        /\ \A n \in Limit : n \in Nat
    BY RowColumns, FaultsAssumption, LimitAssumption DEF TypeOK, StoreTypeOK
  <2>2. Exists(d) => sends[d] <= outbox[d].attempts + faults + 1
    BY <2>1 DEF SendsAreAccounted
  <2>3. \A n \in Limit : Greatest(n) =>
            outbox[d].attempts <= n /\ sends[d] <= n + faults + 1
    BY <2>1 DEF SendsAreAccounted
  <2>4. payment[d] = "NONE" => sends[d] = 0
    BY DEF SendsAreAccounted
  <2> QED BY <1>2, <2>1, <2>2, <2>3, <2>4
<1> QED
  BY <1>3, <1>5, <1>6, <1>7, <1>8, <1>9, UnchangedColumns, TableFrames

\* A replica restarts between two calls.
LEMMA RestartBetweenCalls ==
    ASSUME IInv, TypeOK', NEW r \in Relay, Restart(r), relay[r].stage = "idle",
           UNCHANGED <<recoveryVars, retentionVars>>
    PROVE  IInv'
<1> USE DEF IInv
<1>1. /\ relay[r].stage = "idle"
      /\ \A q \in Relay \ {r} : limit'[q] = limit[q]
      /\ faults' = faults + 1
  BY DEF Restart, Fault, TypeOK, RelayTypeOK
<1>2. UNCHANGED <<outbox, payment, handoff, audit, lock, sends, topic, relay,
                  command, cleaner>>
  <2>1. relay[r] = Idle
    BY RelayThread, RelayStateType
  <2>2. relay' = relay
    BY <2>1 DEF Restart, TypeOK, RelayTypeOK
  <2> QED BY <2>2 DEF Restart, recoveryVars, retentionVars
<1>3. RelayRelies'
  <2>1. \A q \in Relay : q = r => relay[q].outcome = "none" /\ ~relay[q].appended
    BY <1>1, RelayThread
  <2>2. \A q \in Relay : q = r => relay[q].stage = "idle"
    BY <1>1
  <2> QED BY <1>1, <1>2, <2>1, <2>2 DEF RelayRelies
<1>4. CleanerRelies'
  BY <1>2 DEF CleanerRelies, Expired
<1>5. SendsAreAccounted'
  <2> SUFFICES ASSUME NEW d \in Event
               PROVE  /\ payment[d] = "NONE" => sends[d] = 0
                      /\ Exists(d) => sends[d] <= outbox[d].attempts + faults'
                                        + (IF InProgress(d) THEN 1 ELSE 0)
                      /\ \A n \in Limit : Greatest(n) =>
                            outbox[d].attempts <= n /\ sends[d] <= n + faults'
    BY <1>2 DEF SendsAreAccounted, Exists, Greatest, InProgress
  <2>1. /\ outbox[d].attempts \in Nat /\ sends[d] \in Nat /\ faults \in Nat
        /\ \A n \in Limit : n \in Nat
    BY RowColumns, FaultsAssumption, LimitAssumption DEF TypeOK, StoreTypeOK
  <2> QED BY <1>1, <2>1 DEF SendsAreAccounted
<1> QED BY <1>2, <1>3, <1>4, <1>5, UnchangedColumns, TableFrames, ThreadFrames

\* The publisher's transaction fails, or the replica restarts.
LEMMA TransactionFailsStep ==
    ASSUME IInv, TypeOK', NEW r \in Relay, TransactionFails(r) \/ Restart(r),
           UNCHANGED <<recoveryVars, retentionVars>>
    PROVE  IInv'
<1>1. CASE TransactionFails(r)
  BY <1>1, RollbackStep DEF TransactionFails
<1>2. CASE Restart(r) /\ relay[r].stage = "idle"
  BY <1>2, RestartBetweenCalls
<1>3. CASE Restart(r) /\ relay[r].stage # "idle"
  <2>1. \A q \in Relay \ {r} : limit'[q] = limit[q]
    BY <1>3 DEF Restart, IInv, TypeOK, RelayTypeOK
  <2> QED BY <1>3, <2>1, RollbackStep DEF Restart
<1> QED BY <1>1, <1>2, <1>3

(***************************************************************************)
(* The recovery command.                                                   *)
(***************************************************************************)

\* The command goes on to a stage; who it is for stays.
Moves(c, stage) ==
    /\ command'[c].stage = stage
    /\ command'[c].event = command[c].event
    /\ command'[c].key = command[c].key
    /\ \A d \in Command \ {c} : command'[d] = command[d]

LEMMA CommandMoves ==
    ASSUME TypeOK, NEW c \in Command, command[c].stage # "new"
    PROVE  /\ \A stage \in CommandStage : GoTo(c, stage) => Moves(c, stage)
           /\ \A answer \in Answer : Finish(c, answer) => Moves(c, "done")
           /\ \A code \in RejectionCode : Refuse(c, code) => Moves(c, "reject")
           /\ RequireMatching(c) => Moves(c, "done") \/ Moves(c, "reject")
<1>1. command \in [Command -> CommandState]
  BY DEF TypeOK, RecoveryTypeOK
<1>2. command[c] \in [stage: CommandStage \ {"new"}, event: Event, key: RecoveryKey,
                      actor: Actor, code: RejectionCode \cup {"none"}, answer: Answer]
  BY <1>1 DEF CommandState, NewCommand
<1>3. ASSUME NEW stage \in CommandStage, GoTo(c, stage) PROVE Moves(c, stage)
  <2>1. command'[c] = [command[c] EXCEPT !.stage = stage]
    BY <1>1, <1>3 DEF GoTo
  <2> QED BY <1>1, <1>2, <1>3, <2>1 DEF GoTo, Moves
<1>4. ASSUME NEW answer \in Answer, Finish(c, answer) PROVE Moves(c, "done")
  <2>1. command'[c] = [command[c] EXCEPT !.stage = "done", !.answer = answer]
    BY <1>1, <1>4 DEF Finish
  <2> QED BY <1>1, <1>2, <1>4, <2>1 DEF Finish, Moves
<1>5. ASSUME NEW code \in RejectionCode, Refuse(c, code) PROVE Moves(c, "reject")
  <2>1. command'[c] = [command[c] EXCEPT !.stage = "reject", !.code = code]
    BY <1>1, <1>5 DEF Refuse
  <2> QED BY <1>1, <1>2, <1>5, <2>1 DEF Refuse, Moves
<1>6. "recovered" \in Answer /\ "COMMAND_CONFLICT" \in RejectionCode
  BY DEF Answer, RejectionCode
<1> QED BY <1>3, <1>4, <1>5, <1>6 DEF RequireMatching

\* A step that changes no table, and no lock of a publisher.
LEMMA OtherLocksFrame ==
    ASSUME IInv, TypeOK',
           UNCHANGED <<outbox, payment, handoff, audit, sends, relay, limit, topic>>,
           faults' \in {faults, faults + 1},
           \A e \in Event, r \in Relay : lock'[e] = r <=> lock[e] = r
    PROVE  /\ RelayRelies'
           /\ RowsAreConsistent'
           /\ StatusAgrees'
           /\ PublishedIsInTopic'
           /\ EachExhaustionIsHandedOff'
           /\ EachRecoveryIsAudited'
           /\ SendsAreAccounted'
<1> USE DEF IInv
<1>1. RelayRelies'
  <2>1. \A r \in Relay : relay[r].stage # "idle" => relay[r].event \in Event
    BY RelayThread
  <2> QED BY <2>1 DEF RelayRelies
<1>2. SendsAreAccounted'
  <2>1. ASSUME NEW e \in Event PROVE InProgress(e)' = InProgress(e)
    BY DEF InProgress
  <2> SUFFICES ASSUME NEW d \in Event
               PROVE  /\ payment[d] = "NONE" => sends[d] = 0
                      /\ Exists(d) => sends[d] <= outbox[d].attempts + faults'
                                        + (IF InProgress(d) THEN 1 ELSE 0)
                      /\ \A n \in Limit : Greatest(n) =>
                            outbox[d].attempts <= n /\ sends[d] <= n + faults'
    BY <2>1 DEF SendsAreAccounted, Exists, Greatest
  <2>2. /\ outbox[d].attempts \in Nat /\ sends[d] \in Nat /\ faults \in Nat
        /\ \A n \in Limit : n \in Nat
    BY RowColumns, FaultsAssumption, LimitAssumption DEF TypeOK, StoreTypeOK
  <2> QED BY <2>2 DEF SendsAreAccounted
<1> QED BY <1>1, <1>2, UnchangedColumns, TableFrames

\* A command that leaves its transaction, or is outside one, and changes no
\* table: the lock goes with the transaction.
LEMMA OutsideTransactionStep ==
    ASSUME IInv, TypeOK', NEW c \in Command,
           Rollback(c), ~InTransaction(c)',
           \A d \in Command \ {c} : command'[d] = command[d],
           UNCHANGED <<outbox, payment, handoff, audit, sends, relayVars,
                       retentionVars>>,
           faults' \in {faults, faults + 1}
    PROVE  IInv'
<1> USE DEF IInv
<1>1. UNCHANGED <<relay, limit, topic, cleaner>>
  BY DEF relayVars, retentionVars
<1>2. CASE InTransaction(c)
  <2>1. PICK e \in Event :
          /\ command[c].event = e /\ lock[e] = c
          /\ c # Free /\ c \notin Relay /\ c \notin Cleaner
    BY <1>2, CommandThread, OwnerAssumption DEF CommandRelies, InTransaction
  <2>2. /\ lock'[e] = Free
        /\ \A d \in Event \ {e} : lock'[d] = lock[d]
    BY <1>2, <2>1 DEF Rollback, Release, TypeOK, StoreTypeOK
  <2>3. /\ \A d \in Command \ {c} : InTransaction(d) => command[d].event \in Event \ {e}
        /\ \A w \in Cleaner : cleaner[w].batch \subseteq Event \ {e}
    BY <2>1, LockExcludes
  <2>4. CommandRelies'
    BY <2>2, <2>3
       DEF CommandRelies, InTransaction, Exists, Recoverable, KeyInDoubt, At
  <2>5. CleanerRelies'
    BY <1>1, <2>2, <2>3 DEF CleanerRelies, Expired
  <2>6. LockRelies'
    <3>1. \A d \in Event \ {e} : lock[d] # c
      BY <2>1 DEF LockRelies
    <3> QED BY <1>1, <2>2, <3>1, OwnerAssumption DEF LockRelies, InTransaction
  <2>7. \A d \in Event, r \in Relay : lock'[d] = r <=> lock[d] = r
    BY <2>1, <2>2, OwnerAssumption
  <2> QED BY <1>1, <2>4, <2>5, <2>6, <2>7, OtherLocksFrame
<1>3. CASE ~InTransaction(c)
  <2>1. UNCHANGED lock
    BY <1>3 DEF Rollback
  <2>2. CommandRelies'
    BY <1>3, <2>1
       DEF CommandRelies, InTransaction, Exists, Recoverable, KeyInDoubt, At
  <2>3. CleanerRelies'
    BY <1>1, <2>1 DEF CleanerRelies, Expired
  <2>4. LockRelies'
    BY <1>1, <1>3, <2>1 DEF LockRelies, InTransaction
  <2> QED BY <1>1, <2>1, <2>2, <2>3, <2>4, OtherLocksFrame
<1> QED BY <1>2, <1>3

\* A command takes the lock of its event.
LEMMA LockEventStep ==
    ASSUME IInv, TypeOK', NEW c \in Command, LockEvent(c), Exists(command[c].event),
           UNCHANGED <<relayVars, retentionVars>>
    PROVE  IInv'
<1> USE DEF IInv
<1>1. PICK e \in Event :
        /\ command[c].event = e /\ command[c].stage = "lock"
        /\ lock[e] = Free /\ Exists(e)
        /\ c # Free /\ c \notin Relay /\ c \notin Cleaner
  BY CommandThread, OwnerAssumption DEF LockEvent, Unlocked, At
<1>2. /\ Moves(c, "check")
      /\ lock'[e] = c
      /\ \A d \in Event \ {e} : lock'[d] = lock[d]
  <2>1. "check" \in CommandStage
    BY DEF CommandStage
  <2> QED BY <1>1, <2>1, CommandMoves DEF LockEvent, Acquire, TypeOK, StoreTypeOK
<1>3. UNCHANGED <<outbox, payment, handoff, audit, sends, faults, relay, limit,
                  topic, cleaner>>
  BY DEF LockEvent, relayVars, retentionVars
<1>4. /\ \A d \in Command : InTransaction(d) => command[d].event \in Event \ {e}
      /\ \A w \in Cleaner : cleaner[w].batch \subseteq Event \ {e}
  BY <1>1, OwnerAssumption, LockExcludes
<1>5. CommandRelies'
  BY <1>1, <1>2, <1>3, <1>4
     DEF CommandRelies, InTransaction, Exists, Recoverable, KeyInDoubt, At, Moves
<1>6. CleanerRelies'
  BY <1>2, <1>3, <1>4 DEF CleanerRelies, Expired
<1>7. LockRelies'
  <2>1. \A d \in Event : lock[d] # c
    BY <1>1 DEF LockRelies, InTransaction
  <2> QED BY <1>1, <1>2, <1>3, <2>1 DEF LockRelies, InTransaction, Moves
<1>8. \A d \in Event, r \in Relay : lock'[d] = r <=> lock[d] = r
  BY <1>1, <1>2, OwnerAssumption
<1> QED BY <1>3, <1>5, <1>6, <1>7, <1>8, OtherLocksFrame

\* A command goes on in its transaction, knowing what the next stage relies on.
LEMMA InTransactionStep ==
    ASSUME IInv, TypeOK', NEW c \in Command, InTransaction(c),
           NEW stage \in {"insert", "commit"}, Moves(c, stage),
           Recoverable(command[c].event),
           stage = "commit" => audit[command[c].key] = NoAudit /\ ~KeyInDoubt(c),
           UNCHANGED <<outbox, payment, handoff, audit, lock, sends, faults,
                       relayVars, retentionVars>>
    PROVE  IInv'
<1> USE DEF IInv
<1>1. UNCHANGED <<relay, limit, topic, cleaner>>
  BY DEF relayVars, retentionVars
<1>2. CommandRelies'
  BY DEF CommandRelies, InTransaction, Exists, Recoverable, KeyInDoubt, At, Moves
<1>3. CleanerRelies'
  BY <1>1 DEF CleanerRelies, Expired
<1>4. LockRelies'
  BY <1>1 DEF LockRelies, InTransaction, Moves
<1> QED BY <1>1, <1>2, <1>3, <1>4, OtherLocksFrame

\* The command commits: the event is re-armed, and its cycle gets its audit.
LEMMA CommitRecoveryStep ==
    ASSUME IInv, TypeOK', NEW c \in Command, CommitRecovery(c),
           UNCHANGED <<relayVars, retentionVars>>
    PROVE  IInv'
<1> USE DEF IInv
<1>1. PICK e \in Event, key \in RecoveryKey :
        /\ command[c].event = e /\ command[c].key = key
        /\ command[c].stage = "commit" /\ InTransaction(c)
        /\ lock[e] = c /\ c # Free /\ c \notin Relay /\ c \notin Cleaner
        /\ Exists(e) /\ Recoverable(e)
        /\ audit[key] = NoAudit /\ ~KeyInDoubt(c)
  BY CommandThread, OwnerAssumption
     DEF CommitRecovery, At, CommandRelies, InTransaction
<1>2. /\ outbox'[e] = Requeue(outbox[e])
      /\ payment'[e] = "PENDING_RETRY"
      /\ sends'[e] = 0
      /\ lock'[e] = Free
      /\ \A d \in Event \ {e} :
            /\ outbox'[d] = outbox[d] /\ payment'[d] = payment[d]
            /\ sends'[d] = sends[d] /\ lock'[d] = lock[d]
  BY <1>1 DEF CommitRecovery, Release, TypeOK, StoreTypeOK
<1>3. /\ audit'[key] = AuditOf(c)
      /\ \A k \in RecoveryKey \ {key} : audit'[k] = audit[k]
  BY <1>1 DEF CommitRecovery, TypeOK, StoreTypeOK
<1>4. Moves(c, "done")
  <2>1. "recovered" \in Answer
    BY DEF Answer
  <2> QED BY <1>1, <2>1, CommandMoves DEF CommitRecovery
<1>5. UNCHANGED <<handoff, faults, relay, limit, topic, cleaner>>
  BY DEF CommitRecovery, relayVars, retentionVars
<1>6. /\ outbox[e] \in OutboxRow /\ outbox[e].sequence \in Nat
      /\ outbox[e].sequence > 0 /\ outbox[e].exhausted /\ outbox[e].exhausted = TRUE
      /\ payment[e] = "PUBLISH_EXHAUSTED"
  BY <1>1, RowColumns DEF Recoverable, RowsAreConsistent, TypeOK, StoreTypeOK
<1>7. /\ outbox'[e].status = "PENDING" /\ outbox'[e].sequence = outbox[e].sequence
      /\ outbox'[e].exhausted = FALSE /\ outbox'[e].attempts = 0
  BY <1>2, <1>6, RowOperationColumns
<1>8. /\ \A r \in Relay : relay[r].stage # "idle" => relay[r].event \in Event \ {e}
      /\ \A d \in Command \ {c} : InTransaction(d) => command[d].event \in Event \ {e}
      /\ \A w \in Cleaner : cleaner[w].batch \subseteq Event \ {e}
  BY <1>1, LockExcludes
<1>9. RelayRelies'
  <2>1. \A q \in Relay :
            relay[q].appended \/ relay[q].outcome # "none" => relay[q].stage # "idle"
    BY RelayThread
  <2> QED BY <1>2, <1>5, <1>8, <2>1 DEF RelayRelies
<1>10. CommandRelies'
  <2>1. ASSUME NEW d \in Command \ {c}, command[d].stage = "commit"
        PROVE  audit'[command[d].key] = NoAudit /\ ~KeyInDoubt(d)'
    <3>1. command[d].key \in RecoveryKey /\ command[d].key # key
      BY <1>1, <2>1, CommandThread DEF KeyInDoubt, At
    <3>2. audit[command[d].key] = NoAudit /\ ~KeyInDoubt(d)
      BY <2>1 DEF CommandRelies
    <3> QED BY <1>3, <1>4, <3>1, <3>2 DEF KeyInDoubt, At, Moves
  <2> QED BY <1>2, <1>4, <1>8, <2>1
          DEF CommandRelies, InTransaction, Exists, Recoverable, Moves
<1>11. CleanerRelies'
  BY <1>2, <1>5, <1>8 DEF CleanerRelies, Expired
<1>12. LockRelies'
  <2>1. \A d \in Event \ {e} : lock[d] # c
    BY <1>1 DEF LockRelies
  <2> QED BY <1>2, <1>4, <1>5, <2>1, OwnerAssumption
          DEF LockRelies, InTransaction, Moves
<1>13. RowsAreConsistent'
  BY <1>2, <1>6, <1>7 DEF RowsAreConsistent, Exists
<1>14. StatusAgrees'
  <2>1. StatusOf(outbox'[e]) = "PENDING_RETRY"
    BY <1>6, <1>7 DEF StatusOf
  <2> QED BY <1>2, <1>7, <2>1 DEF StatusAgrees, Exists
<1>15. PublishedIsInTopic'
  BY <1>2, <1>5 DEF PublishedIsInTopic
<1>16. EachExhaustionIsHandedOff'
  BY <1>2, <1>5, <1>7 DEF EachExhaustionIsHandedOff
<1>17. EachRecoveryIsAudited'
  <2>1. /\ AuditOf(c).event = e /\ AuditOf(c).cycle = outbox[e].sequence
        /\ AuditOf(c) # NoAudit
    <3>1. AuditOf(c) \in [event: Event, actor: Actor, cycle: Nat, attempts: Nat,
                          command: Command]
      BY <1>1, <1>6, RowColumns, CommandThread DEF AuditOf
    <3> QED BY <1>1, <3>1, NoneAssumption DEF AuditOf
  <2>2. RecoveredCycles(e) = 1..(outbox[e].sequence - 1)
    BY <1>6 DEF EachRecoveryIsAudited
  <2>3. RecoveredCycles(e)' = RecoveredCycles(e) \cup {outbox[e].sequence}
    BY <1>1, <1>3, <2>1 DEF RecoveredCycles
  <2>4. RecoveredCycles(e)' = 1..outbox'[e].sequence
    BY <1>6, <1>7, <2>2, <2>3
  <2>5. ASSUME NEW d \in Event \ {e} PROVE RecoveredCycles(d)' = RecoveredCycles(d)
    BY <1>1, <1>3, <2>1 DEF RecoveredCycles
  <2>6. \A d \in Event : RecoveredCycles(d)' =
            1..(IF outbox'[d].exhausted THEN outbox'[d].sequence - 1
                                        ELSE outbox'[d].sequence)
    <3>1. RecoveredCycles(e)' =
            1..(IF outbox'[e].exhausted THEN outbox'[e].sequence - 1
                                        ELSE outbox'[e].sequence)
      BY <1>7, <2>4
    <3>2. ASSUME NEW d \in Event \ {e}
          PROVE  RecoveredCycles(d)' =
            1..(IF outbox'[d].exhausted THEN outbox'[d].sequence - 1
                                        ELSE outbox'[d].sequence)
      BY <1>2, <2>5 DEF EachRecoveryIsAudited
    <3> QED BY <3>1, <3>2
  <2>7. ASSUME NEW k \in RecoveryKey, audit[k] # NoAudit, audit[k].event = e
        PROVE  audit[k].cycle # outbox[e].sequence
    <3>1. audit[k].cycle \in RecoveredCycles(e)
      BY <2>7 DEF RecoveredCycles
    <3> QED BY <1>6, <2>2, <3>1
  <2>8. ASSUME NEW j \in RecoveryKey, NEW k \in RecoveryKey,
               audit'[j] # NoAudit, audit'[k] # NoAudit,
               audit'[j].event = audit'[k].event, audit'[j].cycle = audit'[k].cycle
        PROVE  j = k
    <3>1. CASE j # key /\ k # key
      BY <1>3, <2>8, <3>1 DEF EachRecoveryIsAudited
    <3>2. CASE j = key /\ k # key
      BY <1>3, <2>1, <2>7, <2>8, <3>2
    <3>3. CASE j # key /\ k = key
      BY <1>3, <2>1, <2>7, <2>8, <3>3
    <3> QED BY <3>1, <3>2, <3>3
  <2> QED BY <2>6, <2>8 DEF EachRecoveryIsAudited
<1>18. SendsAreAccounted'
  <2>1. /\ faults \in Nat /\ \A n \in Limit : n \in Nat
    BY FaultsAssumption, LimitAssumption DEF TypeOK, StoreTypeOK
  <2>2. \A d \in Event \ {e} : InProgress(d)' = InProgress(d)
    BY <1>2, <1>5 DEF InProgress
  <2> QED BY <1>2, <1>5, <1>7, <2>1, <2>2 DEF SendsAreAccounted, Exists, Greatest
<1> QED BY <1>9, <1>10, <1>11, <1>12, <1>13, <1>14, <1>15, <1>16, <1>17, <1>18

\* Every step of a recovery command keeps the invariant.
LEMMA RecoveryInvariantStep ==
    ASSUME IInv, TypeOK', NEW c \in Command, UNCHANGED <<relayVars, retentionVars>>,
           \/ Submit(c) \/ LookUpAudit(c) \/ LockEvent(c) \/ CheckCommand(c)
           \/ InsertAudit(c) \/ CommitRecovery(c) \/ ReadRacedAudit(c)
           \/ JournalRejection(c) \/ JournalFails(c) \/ CommandFails(c)
           \/ AnswerLost(c)
    PROVE  IInv'
<1>1. /\ {"lock", "check", "insert", "commit", "reread"} \subseteq CommandStage
      /\ RejectionCode \subseteq Answer
      /\ {"recovered", "unavailable", "error"} \subseteq Answer
      /\ {"EVENT_NOT_FOUND", "EVENT_NOT_ELIGIBLE"} \subseteq RejectionCode
  BY DEF CommandStage, Answer, RejectionCode
<1>2. TypeOK
  BY DEF IInv
<1>3. ASSUME NEW stage, stage \notin {"check", "insert", "commit"}, Moves(c, stage)
      PROVE  /\ ~InTransaction(c)'
             /\ \A d \in Command \ {c} : command'[d] = command[d]
  BY <1>3 DEF Moves, InTransaction
<1>4. CASE Submit(c)
  <2>1. UNCHANGED <<outbox, payment, handoff, audit, sends, lock, faults>>
    BY <1>4 DEF Submit, storeVars
  <2>2. Rollback(c)
    BY <1>4, <2>1 DEF Submit, Rollback, InTransaction, At
  <2>3. ~InTransaction(c)' /\ \A d \in Command \ {c} : command'[d] = command[d]
    BY <1>2, <1>4 DEF Submit, InTransaction, TypeOK, RecoveryTypeOK
  <2> QED BY <2>1, <2>2, <2>3, OutsideTransactionStep
<1>5. CASE LookUpAudit(c)
  <2>1. UNCHANGED <<outbox, payment, handoff, audit, sends, lock, faults>>
    BY <1>5 DEF LookUpAudit, storeVars
  <2>2. Rollback(c)
    BY <1>5, <2>1 DEF LookUpAudit, Rollback, InTransaction, At
  <2>3. Moves(c, "done") \/ Moves(c, "reject") \/ Moves(c, "lock")
    BY <1>1, <1>2, <1>5, CommandMoves DEF LookUpAudit, At
  <2> QED BY <1>3, <2>1, <2>2, <2>3, OutsideTransactionStep
<1>6. CASE LockEvent(c) /\ Exists(command[c].event)
  BY <1>6, LockEventStep
<1>7. CASE LockEvent(c) /\ ~Exists(command[c].event)
  <2>1. UNCHANGED <<outbox, payment, handoff, audit, sends, lock, faults>>
    BY <1>7 DEF LockEvent
  <2>2. Rollback(c)
    BY <1>7, <2>1 DEF LockEvent, Rollback, InTransaction, At
  <2>3. Moves(c, "reject")
    BY <1>1, <1>2, <1>7, CommandMoves DEF LockEvent, At
  <2> QED BY <1>3, <2>1, <2>2, <2>3, OutsideTransactionStep
<1>8. CASE CheckCommand(c)
  <2>1. UNCHANGED <<outbox, payment, handoff, audit, sends, faults>>
    BY <1>8 DEF CheckCommand
  <2>2. InTransaction(c) /\ command[c].stage # "new"
    BY <1>8 DEF CheckCommand, InTransaction, At
  <2>3. CASE Rollback(c) /\ (RequireMatching(c) \/ Refuse(c, "EVENT_NOT_ELIGIBLE"))
    <3>1. Moves(c, "done") \/ Moves(c, "reject")
      BY <1>1, <1>2, <2>2, <2>3, CommandMoves
    <3> QED BY <1>3, <2>1, <2>3, <3>1, OutsideTransactionStep
  <2>4. CASE Recoverable(command[c].event) /\ GoTo(c, "insert") /\ UNCHANGED lock
    <3>1. Moves(c, "insert")
      BY <1>1, <1>2, <2>2, <2>4, CommandMoves
    <3> QED BY <2>1, <2>2, <2>4, <3>1, InTransactionStep
  <2> QED BY <1>8, <2>2, <2>3, <2>4 DEF CheckCommand, Rollback
<1>9. CASE InsertAudit(c)
  <2>1. UNCHANGED <<outbox, payment, handoff, audit, sends, faults>>
    BY <1>9 DEF InsertAudit
  <2>2. InTransaction(c) /\ command[c].stage # "new"
    BY <1>9 DEF InsertAudit, InTransaction, At
  <2>3. Recoverable(command[c].event)
    BY <1>9 DEF InsertAudit, At, IInv, CommandRelies
  <2>4. CASE Recorded(c)
    <3>1. Moves(c, "reread") /\ Rollback(c)
      BY <1>1, <1>2, <1>9, <2>2, <2>4, CommandMoves DEF InsertAudit
    <3> QED BY <1>3, <2>1, <3>1, OutsideTransactionStep
  <2>5. CASE ~Recorded(c)
    <3>1. Moves(c, "commit") /\ UNCHANGED lock
      BY <1>1, <1>2, <1>9, <2>2, <2>5, CommandMoves DEF InsertAudit
    <3>2. audit[command[c].key] = NoAudit /\ ~KeyInDoubt(c)
      BY <1>9, <2>5 DEF InsertAudit, Recorded
    <3> QED BY <2>1, <2>2, <2>3, <3>1, <3>2, InTransactionStep
  <2> QED BY <2>4, <2>5
<1>10. CASE CommitRecovery(c)
  BY <1>10, CommitRecoveryStep
<1>11. CASE ReadRacedAudit(c)
  <2>1. UNCHANGED <<outbox, payment, handoff, audit, sends, lock, faults>>
    BY <1>11 DEF ReadRacedAudit, storeVars
  <2>2. Rollback(c)
    BY <1>11, <2>1 DEF ReadRacedAudit, Rollback, InTransaction, At
  <2>3. Moves(c, "done") \/ Moves(c, "reject")
    BY <1>1, <1>2, <1>11, CommandMoves DEF ReadRacedAudit, At
  <2> QED BY <1>3, <2>1, <2>2, <2>3, OutsideTransactionStep
<1>12. CASE JournalRejection(c)
  <2>1. UNCHANGED <<outbox, payment, handoff, audit, sends, lock, faults>>
    BY <1>12 DEF JournalRejection
  <2>2. Rollback(c)
    BY <1>12, <2>1 DEF JournalRejection, Rollback, InTransaction, At
  <2>3. command[c].code \in Answer
    BY <1>1, <1>2, <1>12, CommandStateType
       DEF JournalRejection, At, TypeOK, RecoveryTypeOK, Answer
  <2>4. Moves(c, "done")
    BY <1>2, <1>12, <2>3, CommandMoves DEF JournalRejection, At
  <2> QED BY <1>3, <2>1, <2>2, <2>4, OutsideTransactionStep
<1>13. CASE JournalFails(c)
  <2>1. UNCHANGED <<outbox, payment, handoff, audit, sends, lock>>
        /\ faults' = faults + 1
    BY <1>13 DEF JournalFails, Fault
  <2>2. Rollback(c)
    BY <1>13, <2>1 DEF JournalFails, Rollback, InTransaction, At
  <2>3. Moves(c, "done")
    BY <1>1, <1>2, <1>13, CommandMoves DEF JournalFails, At
  <2> QED BY <1>3, <2>1, <2>2, <2>3, OutsideTransactionStep
<1>14. CASE CommandFails(c)
  <2>1. /\ UNCHANGED <<outbox, payment, handoff, audit, sends>>
        /\ faults' = faults + 1 /\ Rollback(c)
    BY <1>14 DEF CommandFails, Fault
  <2>2. Moves(c, "done")
    BY <1>1, <1>2, <1>14, CommandMoves DEF CommandFails
  <2> QED BY <1>3, <2>1, <2>2, OutsideTransactionStep
<1>15. CASE AnswerLost(c)
  <2>1. UNCHANGED <<outbox, payment, handoff, audit, sends, lock>>
        /\ faults' = faults + 1
    BY <1>15 DEF AnswerLost, Fault
  <2>2. Rollback(c)
    BY <1>15, <2>1 DEF AnswerLost, Rollback, InTransaction, At
  <2>3. Moves(c, "done")
    BY <1>1, <1>2, <1>15, CommandMoves DEF AnswerLost, At
  <2> QED BY <1>3, <2>1, <2>2, <2>3, OutsideTransactionStep
<1> QED BY <1>4, <1>5, <1>6, <1>7, <1>8, <1>9, <1>10, <1>11, <1>12, <1>13,
           <1>14, <1>15

(***************************************************************************)
(* The retention job.                                                      *)
(***************************************************************************)

\* The locks of a batch are taken or given back.
LEMMA BatchLockStep ==
    ASSUME IInv, TypeOK', NEW w \in Cleaner, LockBatch(w) \/ PurgeFails(w),
           UNCHANGED <<relayVars, recoveryVars>>
    PROVE  IInv'
<1> USE DEF IInv
<1>1. /\ UNCHANGED <<outbox, payment, handoff, audit, sends, relay, limit, topic,
                     command>>
      /\ faults' \in {faults, faults + 1}
  BY DEF LockBatch, PurgeFails, Fault, relayVars, recoveryVars
<1>2. w # Free /\ w \notin Relay /\ w \notin Command
  BY OwnerAssumption
<1>3. \A x \in Cleaner \ {w} : cleaner'[x] = cleaner[x]
  BY DEF LockBatch, PurgeFails, TypeOK, RetentionTypeOK
<1>4. CASE LockBatch(w)
  <2>1. PICK batch \in SUBSET {e \in Event : Expired(e)} :
          /\ \A e \in batch : lock[e] = Free
          /\ cleaner'[w] = [open |-> TRUE, batch |-> batch]
          /\ lock' = [e \in Event |-> IF e \in batch THEN w ELSE lock[e]]
    BY <1>4 DEF LockBatch, Unlocked, TypeOK, RetentionTypeOK
  <2>2. /\ \A e \in Event : e \in batch => lock[e] = Free /\ lock'[e] = w
        /\ \A e \in Event : e \notin batch => lock'[e] = lock[e]
    BY <2>1
  <2>3. \A e \in Event : lock[e] # w
    <3>1. cleaner[w].batch = {}
      BY <1>4 DEF LockBatch, CleanerRelies
    <3> QED BY <3>1 DEF LockRelies
  <2>4. \A e \in Event, r \in Relay \cup Command : lock'[e] = r <=> lock[e] = r
    BY <1>2, <2>2, OwnerAssumption
  <2>5. CommandRelies'
    <3>1. \A c \in Command : InTransaction(c) => command[c].event \in Event
      BY CommandThread DEF InTransaction
    <3> QED BY <1>1, <2>4, <3>1
            DEF CommandRelies, InTransaction, Exists, Recoverable, KeyInDoubt, At
  <2>6. CleanerRelies'
    <3>1. ASSUME NEW x \in Cleaner \ {w}
          PROVE  /\ cleaner'[x].batch # {} => cleaner'[x].open
                 /\ \A e \in cleaner'[x].batch : lock'[e] = x /\ Expired(e)'
      <4>1. cleaner[x].batch \subseteq Event
        BY DEF TypeOK, RetentionTypeOK, CleanerState
      <4> QED BY <1>1, <1>3, <2>2, <4>1, OwnerAssumption DEF CleanerRelies, Expired
    <3>2. /\ cleaner'[w].batch # {} => cleaner'[w].open
          /\ \A e \in cleaner'[w].batch : lock'[e] = w /\ Expired(e)'
      BY <1>1, <2>1, <2>2 DEF Expired
    <3> QED BY <3>1, <3>2 DEF CleanerRelies
  <2>7. LockRelies'
    <3> SUFFICES ASSUME NEW e \in Event
                 PROVE  /\ lock'[e] \in Relay =>
                              relay[lock'[e]].stage # "idle" /\ relay[lock'[e]].event = e
                        /\ lock'[e] \in Command =>
                              InTransaction(lock'[e]) /\ command[lock'[e]].event = e
                        /\ lock'[e] \in Cleaner => e \in cleaner'[lock'[e]].batch
      BY <1>1 DEF LockRelies, InTransaction
    <3>1. CASE e \in batch
      BY <1>2, <2>1, <2>2, <3>1
    <3>2. CASE e \notin batch
      BY <1>3, <2>2, <2>3, <3>2 DEF LockRelies
    <3> QED BY <3>1, <3>2
  <2> QED BY <1>1, <2>4, <2>5, <2>6, <2>7, OtherLocksFrame
<1>5. CASE PurgeFails(w)
  <2>1. /\ cleaner'[w] = Waiting
        /\ lock' = [e \in Event |-> IF e \in cleaner[w].batch THEN Free ELSE lock[e]]
    BY <1>5 DEF PurgeFails, UnlockBatch, TypeOK, RetentionTypeOK
  <2>2. /\ \A e \in Event : lock[e] = w <=> e \in cleaner[w].batch
        /\ \A e \in Event : lock[e] = w => lock'[e] = Free
        /\ \A e \in Event : lock[e] # w => lock'[e] = lock[e]
    BY <2>1 DEF LockRelies, CleanerRelies
  <2>3. \A e \in Event, r \in Relay \cup Command : lock'[e] = r <=> lock[e] = r
    BY <1>2, <2>2, OwnerAssumption
  <2>4. CommandRelies'
    <3>1. \A c \in Command : InTransaction(c) => command[c].event \in Event
      BY CommandThread DEF InTransaction
    <3> QED BY <1>1, <2>3, <3>1
            DEF CommandRelies, InTransaction, Exists, Recoverable, KeyInDoubt, At
  <2>5. CleanerRelies'
    <3>1. ASSUME NEW x \in Cleaner \ {w}
          PROVE  /\ cleaner'[x].batch # {} => cleaner'[x].open
                 /\ \A e \in cleaner'[x].batch : lock'[e] = x /\ Expired(e)'
      <4>1. cleaner[x].batch \subseteq Event
        BY DEF TypeOK, RetentionTypeOK, CleanerState
      <4> QED BY <1>1, <1>3, <2>2, <4>1 DEF CleanerRelies, Expired
    <3>2. cleaner'[w].batch = {}
      BY <2>1 DEF Waiting
    <3> QED BY <3>1, <3>2 DEF CleanerRelies
  <2>6. LockRelies'
    BY <1>1, <1>3, <2>2, OwnerAssumption DEF LockRelies, InTransaction
  <2> QED BY <1>1, <2>3, <2>4, <2>5, <2>6, OtherLocksFrame
<1> QED BY <1>4, <1>5

\* The purge commits: everything about the events of the batch goes, and their
\* payments, which are published, stay.
LEMMA CommitPurgeStep ==
    ASSUME IInv, TypeOK', NEW w \in Cleaner, CommitPurge(w),
           UNCHANGED <<relayVars, recoveryVars>>
    PROVE  IInv'
<1> USE DEF IInv
<1>1. PICK batch \in SUBSET Event : batch = cleaner[w].batch
  BY DEF TypeOK, RetentionTypeOK, CleanerState
<1>2. UNCHANGED <<payment, sends, faults, relay, limit, topic, command>>
  BY DEF CommitPurge, relayVars, recoveryVars
<1>3. /\ w # Free /\ w \notin Relay /\ w \notin Command
      /\ \A e \in Event : lock[e] = w <=> e \in batch
      /\ \A e \in batch : outbox[e].status = "PUBLISHED" /\ payment[e] = "PUBLISHED"
  <2>1. \A e \in batch : lock[e] = w /\ outbox[e].status = "PUBLISHED"
    BY <1>1 DEF CleanerRelies, Expired
  <2>2. \A e \in batch : payment[e] = "PUBLISHED"
    BY <2>1 DEF StatusAgrees, StatusOf, Exists
  <2> QED BY <1>1, <2>1, <2>2, OwnerAssumption DEF LockRelies
<1>4. /\ \A e \in batch : outbox'[e] = NoRow /\ handoff'[e] = {} /\ lock'[e] = Free
      /\ \A e \in Event \ batch :
            outbox'[e] = outbox[e] /\ handoff'[e] = handoff[e] /\ lock'[e] = lock[e]
      /\ cleaner'[w] = Waiting
      /\ \A x \in Cleaner \ {w} : cleaner'[x] = cleaner[x]
  BY <1>1 DEF CommitPurge, EventsWithout, HandoffsWithout, UnlockBatch, TypeOK,
              RetentionTypeOK
<1>5. \A k \in RecoveryKey :
        /\ audit[k] # NoAudit /\ audit[k].event \in batch => audit'[k] = NoAudit
        /\ ~(audit[k] # NoAudit /\ audit[k].event \in batch) => audit'[k] = audit[k]
  BY <1>1 DEF CommitPurge, AuditsWithout
<1>6. /\ NoRow.status = "NONE" /\ NoRow.attempts = 0 /\ NoRow.sequence = 0
      /\ NoRow.exhausted = FALSE
  BY DEF NoRow
<1>7. /\ \A r \in Relay : relay[r].stage # "idle" => relay[r].event \in Event \ batch
      /\ \A c \in Command : InTransaction(c) => command[c].event \in Event \ batch
      /\ \A x \in Cleaner \ {w} : cleaner[x].batch \subseteq Event \ batch
  <2>1. \A r \in Relay : relay[r].stage # "idle" =>
            relay[r].event \in Event /\ lock[relay[r].event] = r
    BY RelayThread DEF RelayRelies
  <2>2. \A c \in Command : InTransaction(c) =>
            command[c].event \in Event /\ lock[command[c].event] = c
    BY CommandThread DEF CommandRelies, InTransaction
  <2>3. \A x \in Cleaner : cleaner[x].batch \subseteq Event
                           /\ \A e \in cleaner[x].batch : lock[e] = x
    BY DEF CleanerRelies, TypeOK, RetentionTypeOK, CleanerState
  <2> QED BY <1>3, <2>1, <2>2, <2>3
<1>8. RelayRelies'
  <2>1. \A q \in Relay :
            relay[q].appended \/ relay[q].outcome # "none" => relay[q].stage # "idle"
    BY RelayThread
  <2> QED BY <1>2, <1>4, <1>7, <2>1 DEF RelayRelies
<1>9. CommandRelies'
  <2>1. \A c \in Command : command[c].stage = "commit" =>
            command[c].key \in RecoveryKey /\ audit'[command[c].key] = NoAudit
    BY <1>5, CommandThread DEF CommandRelies
  <2> QED BY <1>2, <1>4, <1>7, <2>1
          DEF CommandRelies, InTransaction, Exists, Recoverable, KeyInDoubt, At
<1>10. CleanerRelies'
  <2>1. cleaner'[w].batch = {}
    BY <1>4 DEF Waiting
  <2> QED BY <1>4, <1>7, <2>1 DEF CleanerRelies, Expired
<1>11. LockRelies'
  BY <1>2, <1>3, <1>4, OwnerAssumption DEF LockRelies, InTransaction
<1>12. RowsAreConsistent'
  BY <1>2, <1>4, <1>6 DEF RowsAreConsistent, Exists
<1>13. StatusAgrees'
  BY <1>2, <1>3, <1>4, <1>6 DEF StatusAgrees, Exists
<1>14. PublishedIsInTopic'
  BY <1>2 DEF PublishedIsInTopic
<1>15. EachExhaustionIsHandedOff'
  <2>1. 1..0 = {}
    OBVIOUS
  <2> QED BY <1>4, <1>6, <2>1 DEF EachExhaustionIsHandedOff
<1>16. EachRecoveryIsAudited'
  <2>1. ASSUME NEW e \in batch PROVE RecoveredCycles(e)' = {}
    BY <1>5, <2>1 DEF RecoveredCycles
  <2>2. ASSUME NEW e \in Event \ batch PROVE RecoveredCycles(e)' = RecoveredCycles(e)
    BY <1>5, <2>2 DEF RecoveredCycles
  <2>3. ASSUME NEW e \in Event
        PROVE  RecoveredCycles(e)' =
            1..(IF outbox'[e].exhausted THEN outbox'[e].sequence - 1
                                        ELSE outbox'[e].sequence)
    <3>1. CASE e \in batch
      <4>1. 1..0 = {}
        OBVIOUS
      <4> QED BY <1>4, <1>6, <2>1, <3>1, <4>1
    <3>2. CASE e \notin batch
      <4>1. RecoveredCycles(e)' = RecoveredCycles(e) /\ outbox'[e] = outbox[e]
        BY <1>4, <2>2, <3>2
      <4> QED BY <4>1 DEF EachRecoveryIsAudited
    <3> QED BY <3>1, <3>2
  <2>4. ASSUME NEW j \in RecoveryKey, NEW k \in RecoveryKey,
               audit'[j] # NoAudit, audit'[k] # NoAudit,
               audit'[j].event = audit'[k].event, audit'[j].cycle = audit'[k].cycle
        PROVE  j = k
    <3>1. audit'[j] = audit[j] /\ audit'[k] = audit[k]
      BY <1>5, <2>4
    <3> QED BY <2>4, <3>1 DEF EachRecoveryIsAudited
  <2> QED BY <2>3, <2>4 DEF EachRecoveryIsAudited
<1>17. SendsAreAccounted'
  <2>1. /\ faults \in Nat /\ \A n \in Limit : n \in Nat
    BY FaultsAssumption, LimitAssumption DEF TypeOK, StoreTypeOK
  <2>2. \A d \in Event \ batch : InProgress(d)' = InProgress(d)
    BY <1>2, <1>4 DEF InProgress
  <2> QED BY <1>2, <1>3, <1>4, <1>6, <2>1, <2>2
          DEF SendsAreAccounted, Exists, Greatest
<1> QED BY <1>8, <1>9, <1>10, <1>11, <1>12, <1>13, <1>14, <1>15, <1>16, <1>17

(***************************************************************************)
(* The invariant and what follows from it.                                 *)
(***************************************************************************)

LEMMA InvariantInit == Init => IInv
<1> SUFFICES ASSUME Init PROVE IInv
  OBVIOUS
<1> USE DEF Init, StoreInit, RelayInit, RecoveryInit, RetentionInit
<1>1. TypeOK
  BY TypeInit
<1>2. /\ NoRow.status = "NONE" /\ NoRow.attempts = 0 /\ NoRow.sequence = 0
      /\ NoRow.exhausted = FALSE
      /\ NewCommand.stage = "new"
      /\ Waiting.batch = {}
  BY DEF NoRow, NewCommand, Waiting
<1>3. RelayRelies
  BY ThreadColumns DEF RelayRelies
<1>4. CommandRelies
  BY <1>2 DEF CommandRelies, InTransaction
<1>5. CleanerRelies
  BY <1>2 DEF CleanerRelies
<1>6. LockRelies
  BY OwnerAssumption DEF LockRelies
<1>7. RowsAreConsistent /\ StatusAgrees /\ PublishedIsInTopic
  BY <1>2 DEF RowsAreConsistent, StatusAgrees, PublishedIsInTopic, Exists
<1>8. EachExhaustionIsHandedOff /\ EachRecoveryIsAudited
  <2>1. 1..0 = {}
    OBVIOUS
  <2>2. EachExhaustionIsHandedOff
    BY <1>2, <2>1 DEF EachExhaustionIsHandedOff
  <2>3. EachRecoveryIsAudited
    BY <1>2, <2>1 DEF EachRecoveryIsAudited, RecoveredCycles
  <2> QED BY <2>2, <2>3
<1>9. SendsAreAccounted
  <2>1. /\ faults = 0
        /\ \A e \in Event : outbox[e].attempts = 0 /\ sends[e] = 0 /\ ~Exists(e)
    BY <1>2 DEF Exists
  <2>2. \A n \in Limit : n \in Nat
    BY LimitAssumption
  <2>3. \A e \in Event, n \in Limit : outbox[e].attempts <= n /\ sends[e] <= n + faults
    BY <2>1, <2>2
  <2> QED BY <2>1, <2>3 DEF SendsAreAccounted
<1> QED BY <1>1, <1>3, <1>4, <1>5, <1>6, <1>7, <1>8, <1>9 DEF IInv

LEMMA InvariantStep == IInv /\ [Next]_vars => IInv'
<1> SUFFICES ASSUME IInv, [Next]_vars PROVE IInv'
  OBVIOUS
<1>1. TypeOK'
  BY TypeStep DEF IInv
<1>2. CASE StoreNext /\ UNCHANGED <<relayVars, recoveryVars, retentionVars>>
  BY <1>1, <1>2, CreatePaymentStep, TimeStep DEF StoreNext
<1>3. CASE RelayNext /\ UNCHANGED <<recoveryVars, retentionVars>>
  BY <1>1, <1>3, ClaimStep, WaitStep, LateStep, CommitOutcomeStep,
     TransactionFailsStep DEF RelayNext
<1>4. CASE RecoveryNext /\ UNCHANGED <<relayVars, retentionVars>>
  BY <1>1, <1>4, RecoveryInvariantStep DEF RecoveryNext
<1>5. CASE RetentionNext /\ UNCHANGED <<relayVars, recoveryVars>>
  BY <1>1, <1>5, BatchLockStep, CommitPurgeStep DEF RetentionNext
<1>6. CASE UNCHANGED vars
  <2>1. UNCHANGED <<outbox, payment, handoff, audit, lock, sends, faults, relay,
                    limit, topic, command, cleaner>>
    BY <1>6 DEF vars, storeVars, relayVars, recoveryVars, retentionVars
  <2>2. CleanerRelies'
    BY <2>1 DEF IInv, CleanerRelies, Expired
  <2> QED BY <1>1, <2>1, <2>2, UnchangedColumns, TableFrames, ThreadFrames DEF IInv
<1> QED BY <1>2, <1>3, <1>4, <1>5, <1>6 DEF Next

\* The inductive invariant holds in every reachable state: a transaction can
\* rely on the row it has locked, and every commit leaves the tables
\* consistent with each other.
THEOREM InvariantHolds == Spec => []IInv
  BY InvariantInit, InvariantStep, PTL DEF Spec

\* The status a payment shows is the status of its outbox row, whatever the
\* publisher, operators and the retention job do at the same time.
THEOREM StatusNeverDisagrees == Spec => []StatusAgrees
<1>1. IInv => StatusAgrees
  BY DEF IInv
<1> QED BY <1>1, InvariantHolds, PTL

\* An event is marked published only if the broker has a record of it.
THEOREM NothingPublishedIsLost == Spec => []PublishedIsInTopic
<1>1. IInv => PublishedIsInTopic
  BY DEF IInv
<1> QED BY <1>1, InvariantHolds, PTL

\* Each exhaustion of an event has its one handoff row while the event exists.
THEOREM HandoffIsComplete == Spec => []EachExhaustionIsHandedOff
<1>1. IInv => EachExhaustionIsHandedOff
  BY DEF IInv
<1> QED BY <1>1, InvariantHolds, PTL

\* Each recovery of an event has its one audit row while the event exists.
THEOREM AuditIsComplete == Spec => []EachRecoveryIsAudited
<1>1. IInv => EachRecoveryIsAudited
  BY DEF IInv
<1> QED BY <1>1, InvariantHolds, PTL

\* The sends of one cycle exceed the greatest configured limit by no more than
\* the transactions that failed.
THEOREM SendsNeverExceed == Spec => []SendsAreBounded
<1>1. IInv => SendsAreBounded
  BY DEF IInv, SendsAreAccounted, SendsAreBounded
<1> QED BY <1>1, InvariantHolds, PTL

\* Locks are held by the transactions that work on the rows, and by no other.
THEOREM LocksAreNotLeaked == Spec => []LockIsHeldByItsOwner
<1>1. IInv => LockIsHeldByItsOwner
  <2> SUFFICES ASSUME IInv, NEW e \in Event, NEW p \in Owner
               PROVE  lock[e] = p <=> HoldsLock(p, e)
    BY DEF LockIsHeldByItsOwner
  <2>1. lock[e] = p => HoldsLock(p, e)
    BY DEF IInv, LockRelies, HoldsLock, Owner
  <2>2. HoldsLock(p, e) => lock[e] = p
    BY DEF IInv, RelayRelies, CommandRelies, CleanerRelies, HoldsLock
  <2> QED BY <2>1, <2>2
<1> QED BY <1>1, InvariantHolds, PTL

(***************************************************************************)
(* What a step may do to a row, a payment and an audit.                    *)
(***************************************************************************)

\* Each row is written by creation, by the publisher that has locked it, by
\* the command that has locked it or by the purge of its batch, and by no
\* other step, apart from the columns for time.
LEMMA RowsAreWrittenBy ==
    ASSUME IInv, [Next]_vars, NEW e \in Event
    PROVE  \/ UNCHANGED <<outbox[e].status, outbox[e].exhausted, payment[e]>>
           \/ payment[e] = "NONE" /\ ~Exists(e) /\ outbox'[e] = NewRow
           \/ \E r \in Relay : CommitOutcome(r) /\ relay[r].event = e
           \/ \E c \in Command : CommitRecovery(c) /\ command[c].event = e
           \/ \E w \in Cleaner : CommitPurge(w) /\ e \in cleaner[w].batch
<1> DEFINE Same == UNCHANGED <<outbox[e].status, outbox[e].exhausted, payment[e]>>
<1> USE DEF IInv
<1>1. outbox \in [Event -> OutboxRow] /\ payment \in [Event -> PaymentStatus]
  BY DEF TypeOK, StoreTypeOK
<1>2. UNCHANGED <<outbox, payment>> => Same
  OBVIOUS
<1>3. ASSUME NEW d \in Event, CreatePayment(d)
      PROVE  Same \/ (payment[e] = "NONE" /\ ~Exists(e) /\ outbox'[e] = NewRow)
  <2>1. CASE d = e
    BY <1>1, <1>3, <2>1 DEF CreatePayment, RowsAreConsistent
  <2>2. CASE d # e
    BY <1>1, <1>3, <2>2 DEF CreatePayment
  <2> QED BY <2>1, <2>2
<1>4. ASSUME NEW d \in Event, DelayElapses(d) \/ EventAges(d) PROVE Same
  <2>1. ASSUME NEW row \in OutboxRow
        PROVE  /\ [row EXCEPT !.due = TRUE].status = row.status
               /\ [row EXCEPT !.due = TRUE].exhausted = row.exhausted
               /\ [row EXCEPT !.aged = TRUE].status = row.status
               /\ [row EXCEPT !.aged = TRUE].exhausted = row.exhausted
    BY DEF OutboxRow
  <2> QED BY <1>1, <1>4, <2>1 DEF DelayElapses, EventAges
<1>5. ASSUME NEW r \in Relay, CommitOutcome(r)
      PROVE  Same \/ relay[r].event = e
  BY <1>1, <1>5 DEF CommitOutcome
<1>6. ASSUME NEW c \in Command, CommitRecovery(c)
      PROVE  Same \/ command[c].event = e
  BY <1>1, <1>6 DEF CommitRecovery
<1>7. ASSUME NEW w \in Cleaner, CommitPurge(w)
      PROVE  Same \/ e \in cleaner[w].batch
  BY <1>1, <1>7 DEF CommitPurge, EventsWithout
<1>8. CASE StoreNext
  <2>1. ASSUME NEW c \in Command, JournalAges(c) PROVE Same
    BY <2>1 DEF JournalAges
  <2> QED BY <1>8, <1>3, <1>4, <2>1 DEF StoreNext
<1>9. CASE RelayNext
  <2>1. ASSUME NEW r \in Relay,
               \/ ClaimAndSend(r) \/ ClaimOverLimit(r) \/ BrokerAppends(r)
               \/ Acknowledge(r) \/ SendFails(r) \/ TransactionFails(r)
               \/ Restart(r)
        PROVE  Same
    BY <2>1 DEF ClaimAndSend, ClaimOverLimit, BrokerAppends, Acknowledge,
                SendFails, TransactionFails, Restart, storeVars
  <2>2. ASSUME NEW d \in Event, BrokerAppendsLate(d) PROVE Same
    BY <2>2 DEF BrokerAppendsLate, storeVars
  <2> QED BY <1>9, <1>5, <2>1, <2>2 DEF RelayNext
<1>10. CASE RecoveryNext
  <2>1. ASSUME NEW c \in Command,
               \/ Submit(c) \/ LookUpAudit(c) \/ LockEvent(c) \/ CheckCommand(c)
               \/ InsertAudit(c) \/ ReadRacedAudit(c) \/ JournalRejection(c)
               \/ JournalFails(c) \/ CommandFails(c) \/ AnswerLost(c)
        PROVE  Same
    BY <2>1 DEF Submit, LookUpAudit, LockEvent, CheckCommand, InsertAudit,
                ReadRacedAudit, JournalRejection, JournalFails, CommandFails,
                AnswerLost, storeVars
  <2> QED BY <1>10, <1>6, <2>1 DEF RecoveryNext
<1>11. CASE RetentionNext
  <2>1. ASSUME NEW w \in Cleaner, LockBatch(w) \/ PurgeFails(w) PROVE Same
    BY <2>1 DEF LockBatch, PurgeFails
  <2> QED BY <1>11, <1>7, <2>1 DEF RetentionNext
<1>12. CASE UNCHANGED vars
  BY <1>12 DEF vars, storeVars
<1> QED BY <1>8, <1>9, <1>10, <1>11, <1>12 DEF Next

\* A purged event was published, and old.
LEMMA BatchIsPublished ==
    ASSUME IInv, NEW w \in Cleaner, NEW e \in Event, e \in cleaner[w].batch
    PROVE  /\ outbox[e].status = "PUBLISHED" /\ outbox[e].aged
           /\ ~outbox[e].exhausted
           /\ payment[e] = "PUBLISHED"
<1>1. Expired(e)
  BY DEF IInv, CleanerRelies
<1>2. outbox[e].status = "PUBLISHED" /\ outbox[e].aged
  BY <1>1 DEF Expired
<1> QED BY <1>2 DEF IInv, StatusAgrees, StatusOf, Exists, RowsAreConsistent

\* The published state of a payment and its row is final until the purge, and
\* only what is published and old is purged.
THEOREM PublishedNeverReturns == Spec => PublishedIsFinal
<1>1. ASSUME IInv, [Next]_vars, NEW e \in Event
      PROVE  /\ payment[e] = "PUBLISHED" => payment'[e] = "PUBLISHED"
             /\ Exists(e) /\ outbox'[e].status = "NONE" =>
                 outbox[e].status = "PUBLISHED" /\ outbox[e].aged
             /\ outbox[e].status = "PUBLISHED" => outbox'[e].status # "PENDING"
  <2> DEFINE Final ==
        /\ payment[e] = "PUBLISHED" => payment'[e] = "PUBLISHED"
        /\ Exists(e) /\ outbox'[e].status = "NONE" =>
            outbox[e].status = "PUBLISHED" /\ outbox[e].aged
        /\ outbox[e].status = "PUBLISHED" => outbox'[e].status # "PENDING"
  <2>1. outbox \in [Event -> OutboxRow] /\ payment \in [Event -> PaymentStatus]
    BY <1>1 DEF IInv, TypeOK, StoreTypeOK
  <2>2. outbox[e] \in OutboxRow
    BY <2>1
  <2>3. CASE UNCHANGED <<outbox[e].status, outbox[e].exhausted, payment[e]>>
    BY <2>3 DEF Exists
  <2>4. CASE payment[e] = "NONE" /\ ~Exists(e) /\ outbox'[e] = NewRow
    BY <2>4 DEF Exists
  <2>5. ASSUME NEW r \in Relay, CommitOutcome(r), relay[r].event = e PROVE Final
    <3>1. /\ relay[r].stage # "idle" /\ relay[r].outcome \in Outcome
      BY <1>1, <2>5, RelayThread DEF CommitOutcome, IInv
    <3>2. outbox[e].status = "PENDING" /\ ~outbox[e].exhausted
      BY <1>1, <2>5, <3>1 DEF IInv, RelayRelies
    <3>3. payment[e] # "PUBLISHED"
      <4>1. StatusOf(outbox[e]) # "PUBLISHED"
        BY <2>2, <3>2, RowColumns DEF StatusOf
      <4> QED BY <1>1, <3>2, <4>1 DEF IInv, StatusAgrees, Exists
    <3>4. outbox'[e] = RowAfter(outbox[e], relay[r].outcome)
      BY <2>1, <2>5 DEF CommitOutcome
    <3>5. outbox'[e].status \in {"PENDING", "PUBLISHED"}
      <4>1. /\ MarkPublished(outbox[e]).status = "PUBLISHED"
            /\ ScheduleRetry(outbox[e]).status = "PENDING"
            /\ MarkExhausted(outbox[e]).status = "PENDING"
            /\ MarkExhaustedWithoutAttempt(outbox[e]).status = "PENDING"
        BY <2>2, RowOperationColumns
      <4> QED BY <3>1, <3>4, <4>1 DEF RowAfter, Outcome
    <3> QED BY <3>2, <3>3, <3>5
  <2>6. ASSUME NEW c \in Command, CommitRecovery(c), command[c].event = e PROVE Final
    <3>1. Recoverable(e)
      BY <1>1, <2>6 DEF CommitRecovery, At, IInv, CommandRelies
    <3>2. outbox'[e] = Requeue(outbox[e])
      BY <2>1, <2>6 DEF CommitRecovery
    <3>3. outbox'[e].status = "PENDING"
      <4>1. Requeue(outbox[e]).status = "PENDING"
        BY <2>2, RowOperationColumns
      <4> QED BY <3>2, <4>1
    <3> QED BY <3>1, <3>3 DEF Recoverable
  <2>7. ASSUME NEW w \in Cleaner, CommitPurge(w), e \in cleaner[w].batch PROVE Final
    <3>1. outbox'[e].status = "NONE" /\ UNCHANGED payment
      BY <2>1, <2>7 DEF CommitPurge, EventsWithout, NoRow
    <3> QED BY <1>1, <2>7, <3>1, BatchIsPublished
  <2> QED BY <1>1, <2>3, <2>4, <2>5, <2>6, <2>7, RowsAreWrittenBy
<1>2. IInv /\ [Next]_vars =>
        [\A e \in Event :
            /\ payment[e] = "PUBLISHED" => payment'[e] = "PUBLISHED"
            /\ Exists(e) /\ outbox'[e].status = "NONE" =>
                outbox[e].status = "PUBLISHED" /\ outbox[e].aged
            /\ outbox[e].status = "PUBLISHED" => outbox'[e].status # "PENDING"]_vars
  BY <1>1
<1> QED BY <1>2, InvariantHolds, PTL DEF Spec, PublishedIsFinal

\* Only a committed recovery re-arms an event, with a key of its own, and its
\* audit names the cycle that it ended.
THEOREM RecoveryAloneRearms == Spec => OnlyRecoveryRearms
<1>1. ASSUME IInv, [Next]_vars, NEW e \in Event,
             outbox[e].exhausted, ~outbox'[e].exhausted
      PROVE  \E k \in RecoveryKey :
                /\ audit[k] = NoAudit /\ audit'[k] # NoAudit
                /\ audit'[k].event = e
                /\ audit'[k].cycle = outbox[e].sequence
                /\ command'[audit'[k].command].answer = "recovered"
  <2>1. Exists(e) /\ ~outbox[e].status = "PUBLISHED"
    BY <1>1 DEF IInv, RowsAreConsistent, Exists
  <2>2. ~\E r \in Relay : CommitOutcome(r) /\ relay[r].event = e
    BY <1>1 DEF CommitOutcome, IInv, RelayRelies
  <2>3. ~\E w \in Cleaner : CommitPurge(w) /\ e \in cleaner[w].batch
    BY <1>1, BatchIsPublished
  <2>4. PICK c \in Command : CommitRecovery(c) /\ command[c].event = e
    BY <1>1, <2>1, <2>2, <2>3, RowsAreWrittenBy
  <2>5. PICK k \in RecoveryKey :
          command[c].key = k /\ audit[k] = NoAudit /\ command[c].actor \in Actor
    BY <1>1, <2>4, CommandThread DEF CommitRecovery, At, IInv, CommandRelies
  <2>6. audit'[k] = AuditOf(c) /\ command'[c].answer = "recovered"
    BY <1>1, <2>4, <2>5
       DEF CommitRecovery, Finish, IInv, TypeOK, StoreTypeOK, RecoveryTypeOK,
           CommandState, NewCommand
  <2>7. /\ AuditOf(c).event = e /\ AuditOf(c).cycle = outbox[e].sequence
        /\ AuditOf(c).command = c
        /\ AuditOf(c) # NoAudit
    <3>1. outbox[e] \in OutboxRow
      BY <1>1 DEF IInv, TypeOK, StoreTypeOK
    <3>2. AuditOf(c) \in [event: Event, actor: Actor, cycle: Nat, attempts: Nat,
                          command: Command]
      BY <2>4, <2>5, <3>1, RowColumns DEF AuditOf
    <3> QED BY <2>4, <3>2, NoneAssumption DEF AuditOf
  <2> QED BY <2>5, <2>6, <2>7
<1>2. IInv /\ [Next]_vars =>
        [\A e \in Event :
            outbox[e].exhausted /\ ~outbox'[e].exhausted =>
                \E k \in RecoveryKey :
                    /\ audit[k] = NoAudit /\ audit'[k] # NoAudit
                    /\ audit'[k].event = e
                    /\ audit'[k].cycle = outbox[e].sequence
                    /\ command'[audit'[k].command].answer = "recovered"]_vars
  BY <1>1
<1> QED BY <1>2, InvariantHolds, PTL DEF Spec, OnlyRecoveryRearms

(***************************************************************************)
(* The retry counter.                                                      *)
(***************************************************************************)
\* The counter of a replica and the history of its process fit.
RetriesFit(r) ==
    /\ scheduled[r] + InDoubt(r) <= retries[r]
    /\ retries[r] <= scheduled[r] + InDoubt(r) + faults

\* They still do while the replica does nothing.
LEMMA RetriesStillFit ==
    ASSUME TypeOK, NEW q \in Relay, RetriesFit(q), relay'[q] = relay[q],
           retries'[q] = retries[q], scheduled'[q] = scheduled[q],
           faults' \in {faults, faults + 1}
    PROVE  RetriesFit(q)'
<1>1. /\ scheduled[q] \in Nat /\ retries[q] \in Nat /\ faults \in Nat
      /\ InDoubt(q) \in Nat /\ InDoubt(q)' = InDoubt(q)
  BY FaultsAssumption DEF TypeOK, RelayTypeOK, StoreTypeOK, InDoubt
<1> QED BY <1>1 DEF RetriesFit

\* And after a step of the replica itself.
LEMMA RetriesFitStep ==
    ASSUME TypeOK, NEW r \in Relay, RetriesFit(r),
           \/ ClaimAndSend(r) \/ ClaimOverLimit(r) \/ BrokerAppends(r)
           \/ Acknowledge(r) \/ SendFails(r) \/ CommitOutcome(r)
           \/ TransactionFails(r) \/ Restart(r)
    PROVE  RetriesFit(r)'
<1>1. /\ scheduled[r] \in Nat /\ retries[r] \in Nat /\ faults \in Nat
      /\ scheduled[r] + InDoubt(r) <= retries[r]
      /\ retries[r] <= scheduled[r] + InDoubt(r) + faults
  BY FaultsAssumption DEF TypeOK, RelayTypeOK, StoreTypeOK, RetriesFit
<1>2. /\ InDoubt(r) = (IF relay[r].outcome = "retry" THEN 1 ELSE 0)
      /\ InDoubt(r)' = (IF relay'[r].outcome = "retry" THEN 1 ELSE 0)
  BY DEF InDoubt
<1>3. \A s : relay' = [relay EXCEPT ![r] = s] => relay'[r] = s
  BY DEF TypeOK, RelayTypeOK
<1>4. /\ relay[r].stage # "idle" => relay[r].event \in Event
      /\ relay[r].stage # "writing" => relay[r].outcome = "none"
  BY RelayThread
<1>5. {"retry", "exhausted", "over_limit", "published"} \subseteq Outcome
  BY DEF Outcome
<1>6. CASE ClaimAndSend(r) \/ ClaimOverLimit(r) \/ BrokerAppends(r) \/ Acknowledge(r)
  <2>1. \E s : relay' = [relay EXCEPT ![r] = s] /\ s.outcome # "retry"
    <3>1. CASE ClaimAndSend(r)
      BY <3>1, ThreadColumns DEF ClaimAndSend
    <3>2. CASE ClaimOverLimit(r)
      <4>1. PICK e \in Event : relay' = [relay EXCEPT ![r] = Writing(e, "over_limit")]
        BY <3>2 DEF ClaimOverLimit
      <4>2. Writing(e, "over_limit").outcome = "over_limit"
        BY <1>5, ThreadColumns
      <4> QED BY <4>1, <4>2
    <3>3. CASE BrokerAppends(r)
      BY <1>4, <3>3, ThreadColumns DEF BrokerAppends
    <3>4. CASE Acknowledge(r)
      BY <1>4, <1>5, <3>4, ThreadColumns DEF Acknowledge
    <3> QED BY <1>6, <3>1, <3>2, <3>3, <3>4
  <2>2. relay[r].outcome # "retry"
    BY <1>4, <1>6 DEF ClaimAndSend, ClaimOverLimit, BrokerAppends, Acknowledge
  <2>3. InDoubt(r) = 0 /\ InDoubt(r)' = 0
    BY <1>2, <1>3, <2>1, <2>2
  <2>4. UNCHANGED <<retries, scheduled, faults>>
    BY <1>6 DEF ClaimAndSend, ClaimOverLimit, BrokerAppends, Acknowledge, storeVars
  <2> QED BY <1>1, <2>3, <2>4 DEF RetriesFit
<1>7. CASE SendFails(r)
  <2>1. InDoubt(r) = 0 /\ relay[r].event \in Event
    BY <1>2, <1>4, <1>7 DEF SendFails
  <2>2. UNCHANGED <<scheduled, faults>>
    BY <1>7 DEF SendFails, storeVars
  <2>3. CASE IsFinalAttempt(r)
    <3>1. /\ relay'[r] = Writing(relay[r].event, "exhausted")
          /\ retries' = retries
      BY <1>3, <1>7, <2>3 DEF SendFails, CountRetry
    <3>2. InDoubt(r)' = 0
      BY <1>2, <1>5, <2>1, <3>1, ThreadColumns
    <3> QED BY <1>1, <2>1, <2>2, <3>1, <3>2 DEF RetriesFit
  <2>4. CASE ~IsFinalAttempt(r)
    <3>1. /\ relay'[r] = Writing(relay[r].event, "retry")
          /\ retries'[r] = retries[r] + 1
      BY <1>3, <1>7, <2>4 DEF SendFails, CountRetry, TypeOK, RelayTypeOK
    <3>2. InDoubt(r)' = 1
      <4>1. Writing(relay[r].event, "retry").outcome = "retry"
        BY <1>5, <2>1, ThreadColumns
      <4> QED BY <1>2, <3>1, <4>1
    <3> QED BY <1>1, <2>1, <2>2, <3>1, <3>2 DEF RetriesFit
  <2> QED BY <2>3, <2>4
<1>8. ASSUME relay' = [relay EXCEPT ![r] = Idle] PROVE InDoubt(r)' = 0
  BY <1>2, <1>3, <1>8, ThreadColumns
<1>9. CASE CommitOutcome(r)
  <2>1. /\ InDoubt(r)' = 0 /\ UNCHANGED <<retries, faults>>
        /\ scheduled'[r] = scheduled[r] + InDoubt(r)
    BY <1>1, <1>2, <1>8, <1>9 DEF CommitOutcome, TypeOK, RelayTypeOK
  <2> QED BY <1>1, <1>2, <2>1 DEF RetriesFit
<1>10. CASE TransactionFails(r)
  <2>1. InDoubt(r)' = 0 /\ UNCHANGED <<retries, scheduled>> /\ faults' = faults + 1
    BY <1>8, <1>10 DEF TransactionFails, Fault
  <2> QED BY <1>1, <1>2, <2>1 DEF RetriesFit
<1>11. CASE Restart(r)
  <2>1. /\ InDoubt(r)' = 0 /\ faults' = faults + 1
        /\ retries'[r] = 0 /\ scheduled'[r] = 0
    BY <1>8, <1>11 DEF Restart, Fault, TypeOK, RelayTypeOK
  <2> QED BY <1>1, <2>1 DEF RetriesFit
<1> QED BY <1>6, <1>7, <1>9, <1>10, <1>11

\* A step of one replica leaves the counters of the others alone.
LEMMA OthersCountNothing ==
    ASSUME TypeOK, NEW r \in Relay, NEW q \in Relay \ {r},
           \/ ClaimAndSend(r) \/ ClaimOverLimit(r) \/ BrokerAppends(r)
           \/ Acknowledge(r) \/ SendFails(r) \/ CommitOutcome(r)
           \/ TransactionFails(r) \/ Restart(r)
    PROVE  /\ relay'[q] = relay[q]
           /\ retries'[q] = retries[q] /\ scheduled'[q] = scheduled[q]
           /\ faults' \in {faults, faults + 1}
<1>1. relay'[q] = relay[q] /\ faults' \in {faults, faults + 1}
  BY DEF ClaimAndSend, ClaimOverLimit, BrokerAppends, Acknowledge, SendFails,
         CommitOutcome, TransactionFails, Restart, Fault, storeVars, TypeOK,
         RelayTypeOK
<1>2. retries'[q] = retries[q] /\ scheduled'[q] = scheduled[q]
  BY DEF ClaimAndSend, ClaimOverLimit, BrokerAppends, Acknowledge, SendFails,
         CommitOutcome, TransactionFails, Restart, CountRetry, TypeOK,
         RelayTypeOK
<1> QED BY <1>1, <1>2

\* Over the life of each process the counter misses no retry it scheduled, and
\* is ahead by no more than the transactions that failed.
THEOREM RetriesAreCounted == Spec => []RetryCounterIsClose
<1>1. Init => RetryCounterIsClose
  <2> SUFFICES ASSUME Init, NEW r \in Relay PROVE RetriesFit(r)
    BY DEF RetryCounterIsClose, RetriesFit
  <2>1. InDoubt(r) = 0
    BY ThreadColumns DEF Init, RelayInit, InDoubt
  <2>2. retries[r] = 0 /\ scheduled[r] = 0 /\ faults = 0
    BY DEF Init, RelayInit, StoreInit
  <2> QED BY <2>1, <2>2 DEF RetriesFit
<1>2. IInv /\ RetryCounterIsClose /\ [Next]_vars => RetryCounterIsClose'
  <2> SUFFICES ASSUME IInv, RetryCounterIsClose, [Next]_vars, NEW q \in Relay
               PROVE  RetriesFit(q)'
    BY DEF RetryCounterIsClose, RetriesFit
  <2>1. TypeOK /\ RetriesFit(q)
    BY DEF IInv, RetryCounterIsClose, RetriesFit
  <2>2. ASSUME UNCHANGED <<relay, retries, scheduled>>,
               faults' \in {faults, faults + 1}
        PROVE  RetriesFit(q)'
    BY <2>1, <2>2, RetriesStillFit
  <2>3. CASE StoreNext /\ UNCHANGED <<relayVars, recoveryVars, retentionVars>>
    <3>1. UNCHANGED faults
      BY <2>3 DEF StoreNext, CreatePayment, DelayElapses, EventAges, JournalAges
    <3> QED BY <2>2, <2>3, <3>1 DEF relayVars
  <2>4. CASE RecoveryNext /\ UNCHANGED <<relayVars, retentionVars>>
    <3>1. faults' \in {faults, faults + 1}
      BY <2>4 DEF RecoveryNext, Submit, LookUpAudit, LockEvent, CheckCommand,
         InsertAudit, CommitRecovery, ReadRacedAudit, JournalRejection,
         JournalFails, CommandFails, AnswerLost, Fault, storeVars
    <3> QED BY <2>2, <2>4, <3>1 DEF relayVars
  <2>5. CASE RetentionNext /\ UNCHANGED <<relayVars, recoveryVars>>
    <3>1. faults' \in {faults, faults + 1}
      BY <2>5 DEF RetentionNext, LockBatch, CommitPurge, PurgeFails, Fault
    <3> QED BY <2>2, <2>5, <3>1 DEF relayVars
  <2>6. CASE UNCHANGED vars
    BY <2>2, <2>6 DEF vars, storeVars, relayVars
  <2>7. ASSUME NEW e \in Event, BrokerAppendsLate(e) PROVE RetriesFit(q)'
    BY <2>2, <2>7 DEF BrokerAppendsLate, storeVars
  <2>8. ASSUME NEW r \in Relay,
               \/ ClaimAndSend(r) \/ ClaimOverLimit(r) \/ BrokerAppends(r)
               \/ Acknowledge(r) \/ SendFails(r) \/ CommitOutcome(r)
               \/ TransactionFails(r) \/ Restart(r)
        PROVE  RetriesFit(q)'
    <3>1. CASE q = r
      BY <2>1, <2>8, <3>1, RetriesFitStep
    <3>2. CASE q # r
      BY <2>1, <2>8, <3>2, OthersCountNothing, RetriesStillFit
    <3> QED BY <3>1, <3>2
  <2>9. CASE RelayNext /\ UNCHANGED <<recoveryVars, retentionVars>>
    BY <2>7, <2>8, <2>9 DEF RelayNext
  <2> QED BY <2>3, <2>4, <2>5, <2>6, <2>9 DEF Next
<1> QED BY <1>1, <1>2, InvariantHolds, PTL DEF Spec

(***************************************************************************)
(* What operators were told.                                               *)
(***************************************************************************)

\* A command told a result does no more, and one that has an audit is done and
\* was not refused.
AnswersAreFinal ==
    /\ \A c \in Command :
        command[c].answer \in RejectionCode \cup {"recovered"} =>
            command[c].stage = "done"
    /\ \A k \in RecoveryKey : audit[k] # NoAudit =>
        /\ command[audit[k].command].stage = "done"
        /\ command[audit[k].command].answer \notin RejectionCode

\* The event of a command that was told "recovered" has been created.
RecoveredExists ==
    \A c \in Command :
        command[c].answer = "recovered" => payment[command[c].event] # "NONE"

AnswersInv ==
    /\ AnswersAreFinal
    /\ RecoveredExists
    /\ RecoveredMeansAudited
    /\ RefusedMeansJournalled

\* An audit is of an event that still has its row.
LEMMA AuditedExists ==
    ASSUME IInv, NEW k \in RecoveryKey, audit[k] # NoAudit
    PROVE  /\ audit[k].event \in Event /\ audit[k].command \in Command
           /\ Exists(audit[k].event)
           /\ payment[audit[k].event] # "NONE"
<1>1. audit[k].event \in Event /\ audit[k].command \in Command
  BY DEF IInv, TypeOK, StoreTypeOK, AuditRow
<1>2. audit[k].cycle \in RecoveredCycles(audit[k].event)
  BY <1>1 DEF RecoveredCycles
<1>3. ASSUME ~Exists(audit[k].event) PROVE FALSE
  <2>1. RecoveredCycles(audit[k].event) = 1..0
    BY <1>1, <1>3 DEF IInv, EachRecoveryIsAudited, RowsAreConsistent
  <2> QED BY <1>2, <2>1
<1> QED BY <1>1, <1>3 DEF IInv, RowsAreConsistent

\* The statements about commands hold on when a step leaves the commands, the
\* audits and the codes and the ages of the journal as they are.
LEMMA AnswersFrame ==
    ASSUME IInv, AnswersInv, UNCHANGED <<command, audit, journal>>,
           \A e \in Event :
                /\ payment[e] # "NONE" => payment'[e] # "NONE"
                /\ Exists(e)' => Exists(e) \/ payment[e] = "NONE"
    PROVE  AnswersInv'
<1>1. \A c \in Command : command[c].answer = "recovered" => command[c].event \in Event
  <2> SUFFICES ASSUME NEW c \in Command, command[c].answer = "recovered"
               PROVE  command[c].stage # "new"
    BY CommandThread DEF IInv
  <2> QED BY DEF AnswersInv, AnswersAreFinal
<1>2. AnswersAreFinal'
  BY DEF AnswersInv, AnswersAreFinal
<1>3. RecoveredExists'
  BY <1>1 DEF AnswersInv, RecoveredExists
<1>4. RecoveredMeansAudited'
  BY <1>1 DEF AnswersInv, RecoveredMeansAudited, RecoveredExists
<1>5. RefusedMeansJournalled'
  BY DEF AnswersInv, RefusedMeansJournalled
<1> QED BY <1>2, <1>3, <1>4, <1>5 DEF AnswersInv

\* A command goes on without an answer, or ends with one that promises nothing.
LEMMA SilentStep ==
    ASSUME IInv, AnswersInv, NEW c \in Command,
           command[c].stage # "done" \/ command'[c].stage = "done",
           command'[c].answer \notin RejectionCode \cup {"recovered"},
           \A d \in Command \ {c} : command'[d] = command[d],
           UNCHANGED <<outbox, payment, audit, journal>>
    PROVE  AnswersInv'
<1>1. AnswersAreFinal'
  <2>1. ASSUME NEW k \in RecoveryKey, audit[k] # NoAudit
        PROVE  /\ command'[audit[k].command].stage = "done"
               /\ command'[audit[k].command].answer \notin RejectionCode
    <3>1. /\ audit[k].command \in Command
          /\ command[audit[k].command].stage = "done"
          /\ command[audit[k].command].answer \notin RejectionCode
      BY <2>1, AuditedExists DEF AnswersInv, AnswersAreFinal
    <3> QED BY <3>1
  <2> QED BY <2>1 DEF AnswersInv, AnswersAreFinal
<1>2. RecoveredExists'
  BY DEF AnswersInv, RecoveredExists
<1>3. RecoveredMeansAudited'
  BY DEF AnswersInv, RecoveredMeansAudited, Exists
<1>4. RefusedMeansJournalled'
  BY DEF AnswersInv, RefusedMeansJournalled
<1> QED BY <1>1, <1>2, <1>3, <1>4 DEF AnswersInv

\* A command is told "recovered" only of an audit that matches it.
LEMMA ReplayStep ==
    ASSUME IInv, AnswersInv, NEW c \in Command,
           command[c].stage \notin {"new", "done"}, Recorded(c), Matches(c),
           command'[c].stage = "done", command'[c].answer = "recovered",
           command'[c].event = command[c].event, command'[c].key = command[c].key,
           command'[c].actor = command[c].actor,
           \A d \in Command \ {c} : command'[d] = command[d],
           UNCHANGED <<outbox, payment, audit, journal>>
    PROVE  AnswersInv'
<1>1. /\ command[c].key \in RecoveryKey
      /\ audit[command[c].key] # NoAudit
      /\ audit[command[c].key].event = command[c].event
      /\ audit[command[c].key].actor = command[c].actor
  BY CommandThread DEF Recorded, Matches, IInv
<1>2. payment[command[c].event] # "NONE"
  BY <1>1, AuditedExists
<1>3. "recovered" \notin RejectionCode
  BY DEF RejectionCode
<1>4. AnswersAreFinal'
  BY <1>3, AuditedExists DEF AnswersInv, AnswersAreFinal
<1>5. RecoveredExists'
  BY <1>2 DEF AnswersInv, RecoveredExists
<1>6. RecoveredMeansAudited'
  BY <1>1 DEF AnswersInv, RecoveredMeansAudited, Exists
<1>7. RefusedMeansJournalled'
  BY <1>3 DEF AnswersInv, RefusedMeansJournalled
<1> QED BY <1>4, <1>5, <1>6, <1>7 DEF AnswersInv

\* A refused command has its journal row, and no audit.
LEMMA JournalStep ==
    ASSUME IInv, AnswersInv, NEW c \in Command, JournalRejection(c)
    PROVE  AnswersInv'
<1>1. /\ command[c].stage = "reject"
      /\ command'[c].stage = "done" /\ command'[c].answer = command[c].code
      /\ \A d \in Command \ {c} : command'[d] = command[d]
  BY DEF JournalRejection, At, Finish, IInv, TypeOK, RecoveryTypeOK, CommandState,
         NewCommand
<1>2. /\ journal'[c] = [code |-> command[c].code, aged |-> FALSE, purged |-> FALSE]
      /\ \A d \in Command \ {c} : journal'[d] = journal[d]
  BY DEF JournalRejection, IInv, TypeOK, StoreTypeOK
<1>3. UNCHANGED <<outbox, payment, audit>>
  BY DEF JournalRejection
<1>4. command[c].code # "recovered"
  BY <1>1, CommandStateType DEF IInv, TypeOK, RecoveryTypeOK, RejectionCode
<1>5. \A k \in RecoveryKey : audit[k] # NoAudit =>
        audit[k].command # c /\ audit[k].command \in Command
  BY <1>1, AuditedExists DEF AnswersInv, AnswersAreFinal
<1>6. AnswersAreFinal'
  BY <1>1, <1>3, <1>5 DEF AnswersInv, AnswersAreFinal
<1>7. RecoveredExists'
  BY <1>1, <1>3, <1>4 DEF AnswersInv, RecoveredExists
<1>8. RecoveredMeansAudited'
  BY <1>1, <1>3, <1>4 DEF AnswersInv, RecoveredMeansAudited, Exists
<1>9. RefusedMeansJournalled'
  BY <1>1, <1>2, <1>3, <1>5 DEF AnswersInv, RefusedMeansJournalled
<1> QED BY <1>6, <1>7, <1>8, <1>9 DEF AnswersInv

\* A command commits: its own audit is there, and no other one goes.
LEMMA CommitAnswerStep ==
    ASSUME IInv, AnswersInv, NEW c \in Command, CommitRecovery(c)
    PROVE  AnswersInv'
<1>1. PICK e \in Event, key \in RecoveryKey :
        /\ command[c].event = e /\ command[c].key = key
        /\ command[c].actor \in Actor
        /\ command[c].stage = "commit"
        /\ audit[key] = NoAudit /\ Recoverable(e)
  BY CommandThread DEF CommitRecovery, At, IInv, CommandRelies
<1>2. /\ command'[c].stage = "done" /\ command'[c].answer = "recovered"
      /\ command'[c].event = e /\ command'[c].key = key
      /\ command'[c].actor = command[c].actor
      /\ \A d \in Command \ {c} : command'[d] = command[d]
  BY <1>1 DEF CommitRecovery, Finish, IInv, TypeOK, RecoveryTypeOK, CommandState,
              NewCommand
<1>3. /\ audit'[key] = AuditOf(c)
      /\ \A k \in RecoveryKey \ {key} : audit'[k] = audit[k]
      /\ UNCHANGED journal
  BY <1>1 DEF CommitRecovery, IInv, TypeOK, StoreTypeOK
<1>4. /\ payment'[e] = "PENDING_RETRY"
      /\ \A d \in Event \ {e} : payment'[d] = payment[d] /\ outbox'[d] = outbox[d]
  BY <1>1 DEF CommitRecovery, IInv, TypeOK, StoreTypeOK
<1>5. /\ AuditOf(c).event = e /\ AuditOf(c).actor = command[c].actor
      /\ AuditOf(c).command = c /\ AuditOf(c) # NoAudit
  <2>1. outbox[e] \in OutboxRow
    BY DEF IInv, TypeOK, StoreTypeOK
  <2>2. AuditOf(c) \in [event: Event, actor: Actor, cycle: Nat, attempts: Nat,
                        command: Command]
    BY <1>1, <2>1, RowColumns DEF AuditOf
  <2> QED BY <1>1, <2>2, NoneAssumption DEF AuditOf
<1>6. "recovered" \notin RejectionCode
  BY DEF RejectionCode
<1>7. \A d \in Command \ {c} : command[d].answer = "recovered" =>
        command[d].event \in Event /\ command[d].key \in RecoveryKey
  <2> SUFFICES ASSUME NEW d \in Command, command[d].answer = "recovered"
               PROVE  command[d].stage # "new"
    BY CommandThread DEF IInv
  <2> QED BY DEF AnswersInv, AnswersAreFinal
<1>8. \A k \in RecoveryKey \ {key} : audit[k] # NoAudit =>
        audit[k].command \in Command \ {c}
  BY <1>1, AuditedExists DEF AnswersInv, AnswersAreFinal
<1>9. AnswersAreFinal'
  <2>1. \A d \in Command : command'[d].answer \in RejectionCode \cup {"recovered"} =>
            command'[d].stage = "done"
    BY <1>2 DEF AnswersInv, AnswersAreFinal
  <2>2. ASSUME NEW k \in RecoveryKey, audit'[k] # NoAudit
        PROVE  /\ command'[audit'[k].command].stage = "done"
               /\ command'[audit'[k].command].answer \notin RejectionCode
    <3>1. CASE k = key
      BY <1>2, <1>3, <1>5, <1>6, <3>1
    <3>2. CASE k # key
      BY <1>2, <1>3, <1>8, <2>2, <3>2 DEF AnswersInv, AnswersAreFinal
    <3> QED BY <3>1, <3>2
  <2> QED BY <2>1, <2>2 DEF AnswersAreFinal
<1>10. RecoveredExists'
  <2> SUFFICES ASSUME NEW d \in Command, command'[d].answer = "recovered"
               PROVE  payment'[command'[d].event] # "NONE"
    BY DEF RecoveredExists
  <2>1. CASE d = c
    BY <1>2, <1>4, <2>1
  <2>2. CASE d # c
    BY <1>2, <1>4, <1>7, <2>2 DEF AnswersInv, RecoveredExists
  <2> QED BY <2>1, <2>2
<1>11. RecoveredMeansAudited'
  <2> SUFFICES ASSUME NEW d \in Command, command'[d].answer = "recovered"
               PROVE  \/ outbox'[command'[d].event].status = "NONE"
                      \/ /\ audit'[command'[d].key] # NoAudit
                         /\ audit'[command'[d].key].event = command'[d].event
                         /\ audit'[command'[d].key].actor = command'[d].actor
    BY DEF RecoveredMeansAudited, Exists
  <2>1. CASE d = c
    BY <1>2, <1>3, <1>5, <2>1
  <2>2. CASE d # c
    <3>1. command'[d] = command[d] /\ command[d].event \in Event
          /\ command[d].key \in RecoveryKey
      BY <1>2, <1>7, <2>2
    <3>2. CASE ~Exists(command[d].event)
      <4>1. command[d].event # e
        BY <1>1, <3>2 DEF Recoverable, Exists
      <4> QED BY <1>4, <3>1, <3>2, <4>1 DEF Exists
    <3>3. CASE Exists(command[d].event)
      <4>1. /\ audit[command[d].key] # NoAudit
            /\ audit[command[d].key].event = command[d].event
            /\ audit[command[d].key].actor = command[d].actor
        BY <3>1, <3>3 DEF AnswersInv, RecoveredMeansAudited
      <4> QED BY <1>1, <1>3, <3>1, <4>1
    <3> QED BY <3>2, <3>3
  <2> QED BY <2>1, <2>2
<1>12. RefusedMeansJournalled'
  <2> SUFFICES ASSUME NEW d \in Command, command'[d].answer \in RejectionCode
               PROVE  /\ journal'[d].code = command'[d].answer
                      /\ journal'[d].purged => journal'[d].aged
                      /\ \A k \in RecoveryKey :
                            audit'[k] # NoAudit => audit'[k].command # d
    BY DEF RefusedMeansJournalled
  <2>1. d # c
    BY <1>2, <1>6
  <2>2. /\ journal[d].code = command[d].answer
        /\ journal[d].purged => journal[d].aged
        /\ \A k \in RecoveryKey : audit[k] # NoAudit => audit[k].command # d
    BY <1>2, <2>1 DEF AnswersInv, RefusedMeansJournalled
  <2> QED BY <1>2, <1>3, <1>5, <2>1, <2>2
<1> QED BY <1>9, <1>10, <1>11, <1>12 DEF AnswersInv

\* The steps of a command: most promise nothing, and the others are true.
LEMMA CommandAnswersStep ==
    ASSUME IInv, AnswersInv, NEW c \in Command,
           \/ Submit(c) \/ LookUpAudit(c) \/ LockEvent(c) \/ CheckCommand(c)
           \/ InsertAudit(c) \/ CommitRecovery(c) \/ ReadRacedAudit(c)
           \/ JournalRejection(c) \/ JournalFails(c) \/ CommandFails(c)
           \/ AnswerLost(c)
    PROVE  AnswersInv'
<1>1. /\ command \in [Command -> CommandState]
      /\ command[c].stage \notin {"done", "new"} =>
            command[c].answer \notin RejectionCode \cup {"recovered"}
  BY DEF IInv, TypeOK, RecoveryTypeOK, AnswersInv, AnswersAreFinal
<1>2. /\ {"recovered", "error", "unavailable", "none"} \cap RejectionCode = {}
      /\ "error" # "recovered" /\ "unavailable" # "recovered"
  BY DEF RejectionCode
<1>3. \A s : command' = [command EXCEPT ![c] = s] =>
        command'[c] = s /\ \A d \in Command \ {c} : command'[d] = command[d]
  BY <1>1
<1>4. ASSUME command[c].stage \notin {"new", "done"}, RequireMatching(c), Recorded(c),
             UNCHANGED <<outbox, payment, audit, journal>>
      PROVE  AnswersInv'
  <2>1. CASE Matches(c)
    <3>1. /\ command'[c].stage = "done" /\ command'[c].answer = "recovered"
          /\ command'[c].event = command[c].event /\ command'[c].key = command[c].key
          /\ command'[c].actor = command[c].actor
          /\ \A d \in Command \ {c} : command'[d] = command[d]
      BY <1>1, <1>4, <2>1 DEF RequireMatching, Finish, CommandState, NewCommand
    <3> QED BY <1>4, <2>1, <3>1, ReplayStep
  <2>2. CASE ~Matches(c)
    <3>1. /\ command'[c].answer = command[c].answer
          /\ \A d \in Command \ {c} : command'[d] = command[d]
      BY <1>1, <1>4, <2>2 DEF RequireMatching, Refuse, CommandState, NewCommand
    <3> QED BY <1>1, <1>4, <3>1, SilentStep
  <2> QED BY <2>1, <2>2
<1>5. ASSUME command[c].stage \notin {"new", "done"},
             \/ \E stage \in CommandStage : GoTo(c, stage)
             \/ \E code \in RejectionCode : Refuse(c, code),
             UNCHANGED <<outbox, payment, audit, journal>>
      PROVE  AnswersInv'
  <2>1. /\ command'[c].answer = command[c].answer
        /\ \A d \in Command \ {c} : command'[d] = command[d]
    BY <1>1, <1>5 DEF GoTo, Refuse, CommandState, NewCommand
  <2> QED BY <1>1, <1>5, <2>1, SilentStep
<1>6. ASSUME NEW answer \in {"error", "unavailable"}, Finish(c, answer),
             UNCHANGED <<outbox, payment, audit, journal>>
      PROVE  AnswersInv'
  <2>1. /\ command'[c].answer = answer /\ command'[c].stage = "done"
        /\ \A d \in Command \ {c} : command'[d] = command[d]
    BY <1>1, <1>6 DEF Finish, CommandState, NewCommand
  <2> QED BY <1>2, <1>6, <2>1, SilentStep
<1>7. /\ {"lock", "check", "insert", "commit", "reread"} \subseteq CommandStage
      /\ {"EVENT_NOT_FOUND", "EVENT_NOT_ELIGIBLE"} \subseteq RejectionCode
  BY DEF CommandStage, RejectionCode
<1>8. CASE Submit(c)
  <2>1. PICK e \in Event, k \in RecoveryKey, a \in Actor :
          command' = [command EXCEPT ![c] =
            [stage |-> "lookup", event |-> e, key |-> k, actor |-> a,
             code |-> "none", answer |-> "none"]]
    BY <1>8 DEF Submit
  <2>2. command'[c].answer = "none" /\ command[c].stage # "done"
        /\ \A d \in Command \ {c} : command'[d] = command[d]
    BY <1>1, <1>8, <2>1 DEF Submit, At
  <2> QED BY <1>2, <1>8, <2>2, SilentStep DEF Submit, storeVars
<1>9. CASE LookUpAudit(c)
  BY <1>4, <1>5, <1>7, <1>9 DEF LookUpAudit, At, storeVars
<1>10. CASE LockEvent(c)
  BY <1>5, <1>7, <1>10 DEF LockEvent, At
<1>11. CASE CheckCommand(c)
  BY <1>4, <1>5, <1>7, <1>11 DEF CheckCommand, At
<1>12. CASE InsertAudit(c)
  BY <1>5, <1>7, <1>12 DEF InsertAudit, At
<1>13. CASE ReadRacedAudit(c)
  BY <1>4, <1>6, <1>13 DEF ReadRacedAudit, At, storeVars
<1>14. CASE JournalFails(c) \/ CommandFails(c) \/ AnswerLost(c)
  BY <1>6, <1>14 DEF JournalFails, CommandFails, AnswerLost
<1> QED BY <1>8, <1>9, <1>10, <1>11, <1>12, <1>13, <1>14, CommitAnswerStep,
           JournalStep

\* A purge takes audits only together with their events, and journal rows only
\* when they are old.
LEMMA PurgeAnswersStep ==
    ASSUME IInv, AnswersInv, NEW w \in Cleaner, CommitPurge(w), UNCHANGED command
    PROVE  AnswersInv'
<1>1. UNCHANGED payment
  BY DEF CommitPurge
<1>2. /\ \A e \in Event : e \in cleaner[w].batch => outbox'[e].status = "NONE"
      /\ \A e \in Event : e \notin cleaner[w].batch => outbox'[e] = outbox[e]
      /\ \A k \in RecoveryKey : audit[k] # NoAudit /\ audit[k].event \notin cleaner[w].batch
            => audit'[k] = audit[k]
      /\ \A k \in RecoveryKey : audit'[k] # NoAudit => audit'[k] = audit[k]
  BY DEF CommitPurge, EventsWithout, AuditsWithout, NoRow
<1>3. \A c \in Command : /\ journal'[c].code = journal[c].code
                         /\ journal'[c].aged = journal[c].aged
                         /\ journal'[c].purged => journal[c].purged \/ journal[c].aged
  <2>1. PICK old \in SUBSET {c \in Command : journal[c].aged} :
          journal' = [c \in Command |->
                        IF c \in old THEN [journal[c] EXCEPT !.purged = TRUE]
                                     ELSE journal[c]]
    BY DEF CommitPurge
  <2>2. \A c \in Command : journal[c] \in JournalRow
    BY DEF IInv, TypeOK, StoreTypeOK
  <2>3. ASSUME NEW row \in JournalRow
        PROVE  /\ [row EXCEPT !.purged = TRUE].code = row.code
               /\ [row EXCEPT !.purged = TRUE].aged = row.aged
    BY DEF JournalRow
  <2> QED BY <2>1, <2>2, <2>3
<1>4. \A c \in Command : command[c].answer = "recovered" =>
        command[c].event \in Event /\ command[c].key \in RecoveryKey
  <2> SUFFICES ASSUME NEW c \in Command, command[c].answer = "recovered"
               PROVE  command[c].stage # "new"
    BY CommandThread DEF IInv
  <2> QED BY DEF AnswersInv, AnswersAreFinal
<1>5. AnswersAreFinal'
  BY <1>2 DEF AnswersInv, AnswersAreFinal
<1>6. RecoveredExists'
  BY <1>1 DEF AnswersInv, RecoveredExists
<1>7. RecoveredMeansAudited'
  <2> SUFFICES ASSUME NEW c \in Command, command[c].answer = "recovered",
                      outbox'[command[c].event].status # "NONE"
               PROVE  /\ audit'[command[c].key] # NoAudit
                      /\ audit'[command[c].key].event = command[c].event
                      /\ audit'[command[c].key].actor = command[c].actor
    BY DEF RecoveredMeansAudited, Exists
  <2>1. command[c].event \notin cleaner[w].batch /\ Exists(command[c].event)
    BY <1>2, <1>4 DEF Exists
  <2>2. /\ audit[command[c].key] # NoAudit
        /\ audit[command[c].key].event = command[c].event
        /\ audit[command[c].key].actor = command[c].actor
    BY <2>1 DEF AnswersInv, RecoveredMeansAudited
  <2> QED BY <1>2, <1>4, <2>1, <2>2
<1>8. RefusedMeansJournalled'
  BY <1>2, <1>3 DEF AnswersInv, RefusedMeansJournalled
<1> QED BY <1>5, <1>6, <1>7, <1>8 DEF AnswersInv

\* What a command was told stays true.
LEMMA AnswersStep == IInv /\ AnswersInv /\ [Next]_vars => AnswersInv'
<1> SUFFICES ASSUME IInv, AnswersInv, [Next]_vars PROVE AnswersInv'
  OBVIOUS
<1>1. /\ outbox \in [Event -> OutboxRow] /\ payment \in [Event -> PaymentStatus]
      /\ journal \in [Command -> JournalRow]
  BY DEF IInv, TypeOK, StoreTypeOK
<1>2. ASSUME UNCHANGED <<command, audit, journal>>,
             \A e \in Event :
                /\ payment[e] # "NONE" => payment'[e] # "NONE"
                /\ outbox'[e].status # "NONE" =>
                    outbox[e].status # "NONE" \/ payment[e] = "NONE"
      PROVE  AnswersInv'
  BY <1>2, AnswersFrame DEF Exists
<1>3. UNCHANGED <<outbox, payment, command, audit, journal>> => AnswersInv'
  BY <1>2
<1>4. CASE StoreNext /\ UNCHANGED recoveryVars
  <2>1. UNCHANGED command
    BY <1>4 DEF recoveryVars
  <2>2. ASSUME NEW e \in Event, CreatePayment(e) PROVE AnswersInv'
    BY <1>1, <1>2, <2>1, <2>2 DEF CreatePayment
  <2>3. ASSUME NEW e \in Event, DelayElapses(e) \/ EventAges(e) PROVE AnswersInv'
    <3>1. UNCHANGED <<payment, audit, journal>>
          /\ \A d \in Event \ {e} : outbox'[d] = outbox[d]
      BY <1>1, <2>3 DEF DelayElapses, EventAges
    <3>2. outbox[e].status # "NONE"
      BY <2>3 DEF DelayElapses, EventAges
    <3> QED BY <1>2, <2>1, <3>1, <3>2
  <2>4. ASSUME NEW c \in Command, JournalAges(c) PROVE AnswersInv'
    <3>1. UNCHANGED <<outbox, payment, audit>> /\ journal[c].code # "none"
      BY <2>4 DEF JournalAges
    <3>2. /\ journal'[c].code = journal[c].code /\ journal'[c].aged
          /\ \A d \in Command \ {c} : journal'[d] = journal[d]
      BY <1>1, <2>4 DEF JournalAges, JournalRow
    <3>3. AnswersAreFinal' /\ RecoveredExists' /\ RecoveredMeansAudited'
      BY <2>1, <3>1
         DEF AnswersInv, AnswersAreFinal, RecoveredExists, RecoveredMeansAudited, Exists
    <3>4. RefusedMeansJournalled'
      BY <2>1, <3>1, <3>2 DEF AnswersInv, RefusedMeansJournalled
    <3> QED BY <3>3, <3>4 DEF AnswersInv
  <2> QED BY <1>4, <2>2, <2>3, <2>4 DEF StoreNext
<1>5. CASE RelayNext /\ UNCHANGED recoveryVars
  <2>1. UNCHANGED command
    BY <1>5 DEF recoveryVars
  <2>2. ASSUME NEW r \in Relay, CommitOutcome(r) PROVE AnswersInv'
    <3>1. /\ relay[r].event \in Event /\ relay[r].outcome \in Outcome
          /\ outbox[relay[r].event].status # "NONE"
      BY <2>2, RelayThread DEF CommitOutcome, IInv, RelayRelies
    <3>2. /\ payment' = [payment EXCEPT ![relay[r].event] = PaymentAfter(relay[r].outcome)]
          /\ \A d \in Event \ {relay[r].event} : outbox'[d] = outbox[d]
          /\ UNCHANGED <<audit, journal>>
      BY <1>1, <2>2 DEF CommitOutcome
    <3>3. PaymentAfter(relay[r].outcome) # "NONE"
      BY <3>1 DEF PaymentAfter, Outcome
    <3> QED BY <1>1, <1>2, <2>1, <3>1, <3>2, <3>3
  <2>3. ASSUME NEW r \in Relay,
               \/ ClaimAndSend(r) \/ ClaimOverLimit(r) \/ BrokerAppends(r)
               \/ Acknowledge(r) \/ SendFails(r) \/ TransactionFails(r)
               \/ Restart(r)
        PROVE  AnswersInv'
    <3>1. UNCHANGED <<outbox, payment, audit, journal>>
      BY <2>3 DEF ClaimAndSend, ClaimOverLimit, BrokerAppends, Acknowledge,
                  SendFails, TransactionFails, Restart, storeVars
    <3> QED BY <1>3, <2>1, <3>1
  <2>4. ASSUME NEW e \in Event, BrokerAppendsLate(e) PROVE AnswersInv'
    BY <1>3, <2>1, <2>4 DEF BrokerAppendsLate, storeVars
  <2> QED BY <1>5, <2>2, <2>3, <2>4 DEF RelayNext
<1>6. CASE RecoveryNext
  BY <1>6, CommandAnswersStep DEF RecoveryNext
<1>7. CASE RetentionNext /\ UNCHANGED recoveryVars
  <2>1. UNCHANGED command
    BY <1>7 DEF recoveryVars
  <2>2. ASSUME NEW w \in Cleaner, LockBatch(w) \/ PurgeFails(w) PROVE AnswersInv'
    BY <1>3, <2>1, <2>2 DEF LockBatch, PurgeFails
  <2> QED BY <1>7, <2>1, <2>2, PurgeAnswersStep DEF RetentionNext
<1>8. CASE UNCHANGED vars
  BY <1>3, <1>8 DEF vars, storeVars, recoveryVars
<1> QED BY <1>4, <1>5, <1>6, <1>7, <1>8 DEF Next

LEMMA AnswersHold == Spec => []AnswersInv
<1>1. Init => AnswersInv
  <2> SUFFICES ASSUME Init PROVE AnswersInv
    OBVIOUS
  <2>1. \A c \in Command : command[c].answer \notin RejectionCode \cup {"recovered"}
    BY DEF Init, RecoveryInit, NewCommand, RejectionCode
  <2>2. \A k \in RecoveryKey : audit[k] = NoAudit
    BY DEF Init, StoreInit
  <2> QED BY <2>1, <2>2 DEF AnswersInv, AnswersAreFinal, RecoveredExists,
                            RecoveredMeansAudited, RefusedMeansJournalled
<1> QED BY <1>1, AnswersStep, InvariantHolds, PTL DEF Spec

\* An operator who was told "recovered" finds the audit of the command, unless
\* the event has been published and purged since.
THEOREM RecoveriesAreAudited == Spec => []RecoveredMeansAudited
<1>1. AnswersInv => RecoveredMeansAudited
  BY DEF AnswersInv
<1> QED BY <1>1, AnswersHold, PTL

\* An operator who was told of a refusal can rely on it: it is in the journal
\* until it is old, and the command has re-armed nothing.
THEOREM RefusalsAreJournalled == Spec => []RefusedMeansJournalled
<1>1. AnswersInv => RefusedMeansJournalled
  BY DEF AnswersInv
<1> QED BY <1>1, AnswersHold, PTL

(***************************************************************************)
(* The outbox implements ReliableOutbox.                                   *)
(***************************************************************************)

\* Only records of payments that were created are on their way to the topic.
SentArePayments == \A e \in Event : late[e] > 0 => payment[e] # "NONE"

\* A payment that is being sent, or has been, does not vanish.
LEMMA PaymentsStay ==
    ASSUME IInv, [Next]_vars, NEW e \in Event, payment[e] # "NONE"
    PROVE  payment'[e] # "NONE"
<1>1. payment \in [Event -> PaymentStatus]
  BY DEF IInv, TypeOK, StoreTypeOK
<1>2. ASSUME NEW r \in Relay, CommitOutcome(r), relay[r].event = e
      PROVE  payment'[e] # "NONE"
  <2>1. relay[r].outcome \in Outcome
    BY <1>2, RelayThread DEF CommitOutcome, IInv
  <2>2. payment'[e] = PaymentAfter(relay[r].outcome)
    BY <1>1, <1>2 DEF CommitOutcome
  <2> QED BY <2>1, <2>2 DEF PaymentAfter, Outcome
<1>3. ASSUME NEW c \in Command, CommitRecovery(c), command[c].event = e
      PROVE  payment'[e] # "NONE"
  BY <1>1, <1>3 DEF CommitRecovery
<1>4. ASSUME NEW w \in Cleaner, CommitPurge(w)
      PROVE  payment'[e] # "NONE"
  BY <1>4 DEF CommitPurge
<1> QED BY <1>2, <1>3, <1>4, RowsAreWrittenBy

\* The event of a publisher at work is one of a payment.
LEMMA SendingIsOfPayment ==
    ASSUME IInv, NEW r \in Relay, relay[r].stage # "idle"
    PROVE  relay[r].event \in Event /\ payment[relay[r].event] # "NONE"
<1>1. relay[r].event \in Event
  BY RelayThread DEF IInv
<1>2. Exists(relay[r].event)
  BY <1>1 DEF IInv, RelayRelies, Exists
<1> QED BY <1>1, <1>2 DEF IInv, RowsAreConsistent

LEMMA SentStep ==
    ASSUME IInv, SentArePayments, [Next]_vars
    PROVE  SentArePayments'
<1>1. late \in [Event -> Nat]
  BY DEF IInv, TypeOK, RelayTypeOK
<1>2. \A e \in Event : payment[e] # "NONE" => payment'[e] # "NONE"
  BY PaymentsStay
<1>3. ASSUME \A e \in Event : late'[e] > 0 => late[e] > 0 \/ payment[e] # "NONE"
      PROVE  SentArePayments'
  BY <1>2, <1>3 DEF SentArePayments
<1>4. CASE UNCHANGED late
  BY <1>3, <1>4
<1>5. ASSUME NEW r \in Relay, relay[r].stage # "idle", GiveUpOnRecord(r)
      PROVE  SentArePayments'
  <2>1. relay[r].event \in Event /\ payment[relay[r].event] # "NONE"
    BY <1>5, SendingIsOfPayment
  <2>2. \A e \in Event : e # relay[r].event => late'[e] = late[e]
    BY <1>1, <1>5 DEF GiveUpOnRecord
  <2> QED BY <1>3, <2>1, <2>2
<1>6. ASSUME NEW e \in Event, BrokerAppendsLate(e) PROVE SentArePayments'
  <2>1. \A d \in Event : late'[d] > 0 => late[d] > 0
    BY <1>1, <1>6 DEF BrokerAppendsLate
  <2> QED BY <1>3, <2>1
<1>7. CASE RelayNext
  <2>1. ASSUME NEW r \in Relay, SendFails(r) \/ TransactionFails(r) \/ Restart(r)
        PROVE  SentArePayments'
    <3>1. UNCHANGED payment /\ GiveUpOnRecord(r)
      BY <2>1 DEF SendFails, TransactionFails, Restart, storeVars
    <3>2. CASE relay[r].stage # "idle"
      BY <1>5, <3>1, <3>2
    <3>3. CASE relay[r].stage = "idle"
      BY <1>4, <3>1, <3>3 DEF GiveUpOnRecord
    <3> QED BY <3>2, <3>3
  <2>2. ASSUME NEW r \in Relay,
               \/ ClaimAndSend(r) \/ ClaimOverLimit(r) \/ BrokerAppends(r)
               \/ Acknowledge(r) \/ CommitOutcome(r)
        PROVE  UNCHANGED late
    BY <2>2 DEF ClaimAndSend, ClaimOverLimit, BrokerAppends, Acknowledge,
                CommitOutcome
  <2> QED BY <1>4, <1>6, <1>7, <2>1, <2>2 DEF RelayNext
<1>8. CASE UNCHANGED relayVars
  BY <1>4, <1>8 DEF relayVars
<1>9. CASE UNCHANGED vars
  BY <1>8, <1>9 DEF vars
<1> QED BY <1>7, <1>8, <1>9 DEF Next

LEMMA SentHold == Spec => []SentArePayments
<1>1. Init => SentArePayments
  BY DEF Init, RelayInit, SentArePayments
<1> QED BY <1>1, SentStep, InvariantHolds, PTL DEF Spec

\* What is not written, and not delivered, is not seen.
LEMMA PromiseFrame ==
    ASSUME UNCHANGED <<payment, handoff, audit>>, UNCHANGED Delivered
    PROVE  UNCHANGED Promised!promiseVars
<1>1. UNCHANGED Parked
  BY DEF Parked
<1>2. UNCHANGED Recoveries
  BY DEF Recoveries
<1> QED BY <1>1, <1>2 DEF Promised!promiseVars

\* A record that the broker appends is a delivery, the first time.
LEMMA AppendDelivers ==
    ASSUME IInv, NEW e \in Event, payment[e] # "NONE",
           topic' = [topic EXCEPT ![e] = @ + 1],
           UNCHANGED <<payment, handoff, audit>>
    PROVE  Promised!Deliver(e) \/ UNCHANGED Promised!promiseVars
<1>1. topic \in [Event -> Nat]
  BY DEF IInv, TypeOK, RelayTypeOK
<1>2. Delivered' = Delivered \cup {e}
  <2>1. \A d \in Event : topic'[d] > 0 <=> topic[d] > 0 \/ d = e
    BY <1>1
  <2> QED BY <2>1 DEF Delivered
<1>3. CASE e \in Delivered
  BY <1>2, <1>3, PromiseFrame
<1>4. CASE e \notin Delivered
  <2>1. UNCHANGED Parked
    BY DEF Parked
  <2>2. UNCHANGED Recoveries
    BY DEF Recoveries
  <2> QED BY <1>2, <1>4, <2>1, <2>2 DEF Promised!Deliver
<1> QED BY <1>3, <1>4

\* The publisher's row is shown as at work.
LEMMA WritingIsAtWork ==
    ASSUME IInv, NEW r \in Relay, relay[r].stage # "idle"
    PROVE  /\ relay[r].event \in Event
           /\ Promised!AtWork(relay[r].event)
<1>1. relay[r].event \in Event
  BY RelayThread DEF IInv
<1>2. /\ outbox[relay[r].event].status = "PENDING"
      /\ ~outbox[relay[r].event].exhausted
      /\ outbox[relay[r].event] \in OutboxRow
  BY <1>1 DEF IInv, RelayRelies, TypeOK, StoreTypeOK
<1>3. StatusOf(outbox[relay[r].event]) \in {"CREATED", "PENDING_RETRY"}
  <2>1. outbox[relay[r].event].attempts + outbox[relay[r].event].sequence \in Nat
    BY <1>2, RowColumns
  <2>2. \/ outbox[relay[r].event].attempts + outbox[relay[r].event].sequence > 0
        \/ outbox[relay[r].event].attempts + outbox[relay[r].event].sequence = 0
    BY <2>1
  <2> QED BY <1>2, <2>2 DEF StatusOf
<1> QED BY <1>1, <1>2, <1>3 DEF IInv, StatusAgrees, Exists, Promised!AtWork

\* The handoffs of an event are as many as its exhaustions.
LEMMA ParkedCount ==
    ASSUME IInv, NEW e \in Event
    PROVE  /\ Parked[e] = 1..outbox[e].sequence
           /\ outbox[e].sequence \in Nat
           /\ Cardinality(Parked[e]) = outbox[e].sequence
<1>1. Parked[e] = 1..outbox[e].sequence
  BY DEF IInv, EachExhaustionIsHandedOff, Parked
<1>2. outbox[e] \in OutboxRow
  BY DEF IInv, TypeOK, StoreTypeOK
<1>3. outbox[e].sequence \in Nat
  BY <1>2, RowColumns
<1>4. Cardinality(1..outbox[e].sequence) = outbox[e].sequence
  BY <1>3, FS_Interval
<1> QED BY <1>1, <1>3, <1>4

\* A commit of the publisher retries, publishes or parks its payment.
LEMMA CommitIsSeen ==
    ASSUME IInv, NEW r \in Relay, CommitOutcome(r)
    PROVE  LET e == relay[r].event
           IN  \/ Promised!Retry(e)
               \/ Promised!Publish(e)
               \/ Promised!Park(e)
<1>1. PICK e \in Event, o \in Outcome :
        /\ relay[r].stage = "writing" /\ relay[r].event = e /\ relay[r].outcome = o
  BY RelayThread DEF CommitOutcome, IInv
<1> DEFINE row == RowAfter(outbox[e], o)
<1>2. Promised!AtWork(e)
  BY <1>1, WritingIsAtWork
<1>3. /\ payment' = [payment EXCEPT ![e] = PaymentAfter(o)]
      /\ IF row.exhausted
         THEN handoff' = [handoff EXCEPT ![e] = @ \cup {HandoffOf(row)}]
         ELSE handoff' = handoff
      /\ UNCHANGED <<audit, topic>>
  BY <1>1 DEF CommitOutcome
<1>4. /\ row.exhausted <=> o \in {"exhausted", "over_limit"}
      /\ row.exhausted => row.sequence = outbox[e].sequence + 1
  BY <1>1, RowWritten
<1> HIDE DEF row
<1>5. UNCHANGED <<Delivered, Recoveries>>
  BY <1>3 DEF Delivered, Recoveries
<1>6. handoff \in [Event -> SUBSET HandoffRow]
  BY DEF IInv, TypeOK, StoreTypeOK
<1>7. CASE o = "published"
  <2>1. payment' = [payment EXCEPT ![e] = "PUBLISHED"]
    BY <1>3, <1>7 DEF PaymentAfter
  <2>2. e \in Delivered
    BY <1>1, <1>7 DEF IInv, RelayRelies, Delivered
  <2>3. UNCHANGED Parked
    BY <1>3, <1>4, <1>7 DEF Parked
  <2>4. Promised!Publish(e)
    BY <1>2, <1>5, <2>1, <2>2, <2>3 DEF Promised!Publish, Promised!Shown
  <2> QED BY <1>1, <2>4
<1>8. CASE o = "retry"
  <2>1. payment' = [payment EXCEPT ![e] = "PENDING_RETRY"]
    BY <1>3, <1>8 DEF PaymentAfter
  <2>2. UNCHANGED Parked
    BY <1>3, <1>4, <1>8 DEF Parked
  <2>3. Promised!Retry(e)
    BY <1>2, <1>5, <2>1, <2>2 DEF Promised!Retry, Promised!Shown
  <2> QED BY <1>1, <2>3
<1>9. CASE o \in {"exhausted", "over_limit"}
  <2>1. payment' = [payment EXCEPT ![e] = "PUBLISH_EXHAUSTED"]
    BY <1>3, <1>9 DEF PaymentAfter
  <2>2. /\ handoff'[e] = handoff[e] \cup {HandoffOf(row)}
        /\ \A d \in Event : d # e => handoff'[d] = handoff[d]
    BY <1>3, <1>4, <1>6, <1>9
  <2>3. HandoffOf(row).sequence = Cardinality(Parked[e]) + 1
    BY <1>4, <1>9, ParkedCount DEF HandoffOf
  <2>4. {h.sequence : h \in handoff'[e]} =
            {h.sequence : h \in handoff[e]} \cup {HandoffOf(row).sequence}
    BY <2>2
  <2>5. Parked' = [Parked EXCEPT ![e] = @ \cup {Cardinality(@) + 1}]
    BY <2>2, <2>3, <2>4 DEF Parked
  <2>6. Promised!Park(e)
    BY <1>2, <1>5, <2>1, <2>5 DEF Promised!Park, Promised!Shown, Promised!Cardinality, Cardinality
  <2> QED BY <1>1, <2>6
<1> QED BY <1>7, <1>8, <1>9 DEF Outcome

\* A commit of a command recovers its payment, under a key not on record.
LEMMA RecoveryIsSeen ==
    ASSUME IInv, NEW c \in Command, CommitRecovery(c), UNCHANGED topic
    PROVE  \E e \in Event, k \in RecoveryKey : Promised!Recover(e, k)
<1>1. PICK e \in Event, k \in RecoveryKey :
        /\ command[c].event = e /\ command[c].key = k
        /\ command[c].actor \in Actor
        /\ Recoverable(e) /\ audit[k] = NoAudit
  BY CommandThread DEF CommitRecovery, At, IInv, CommandRelies
<1>2. /\ audit \in [RecoveryKey -> AuditRow \cup {NoAudit}]
      /\ outbox[e] \in OutboxRow
  BY DEF IInv, TypeOK, StoreTypeOK
<1>3. /\ payment' = [payment EXCEPT ![e] = "PENDING_RETRY"]
      /\ audit' = [audit EXCEPT ![k] = AuditOf(c)]
      /\ UNCHANGED handoff
  BY <1>1 DEF CommitRecovery
<1>4. /\ AuditOf(c).event = e
      /\ AuditOf(c).cycle = Cardinality(Parked[e])
      /\ AuditOf(c) # NoAudit
  <2>1. AuditOf(c).event = e /\ AuditOf(c).cycle = outbox[e].sequence
    BY <1>1 DEF AuditOf
  <2>2. AuditOf(c) \in AuditRow
    BY <1>1, <1>2, RowColumns DEF AuditOf, AuditRow
  <2>3. NoAudit \notin AuditRow
    BY NoneAssumption DEF AuditRow
  <2> QED BY <2>1, <2>2, <2>3, ParkedCount
<1>5. /\ audit'[k] = AuditOf(c)
      /\ \A j \in RecoveryKey : j # k => audit'[j] = audit[j]
  BY <1>2, <1>3
<1>6. {j \in RecoveryKey : audit'[j] # NoAudit} =
        {j \in RecoveryKey : audit[j] # NoAudit} \cup {k}
  BY <1>4, <1>5
<1>7. k \notin {j \in RecoveryKey : audit[j] # NoAudit}
  BY <1>1
<1>8. Recoveries' = Recoveries \cup
        {[payment |-> e, cycle |-> Cardinality(Parked[e]), key |-> k]}
  BY <1>4, <1>5, <1>6, <1>7 DEF Recoveries
<1>9. \A v \in Recoveries : v.key # k
  BY <1>7 DEF Recoveries
<1>10. payment[e] = "PUBLISH_EXHAUSTED"
  BY <1>1 DEF Recoverable
<1>11. UNCHANGED <<Delivered, Parked>>
  BY <1>3 DEF Delivered, Parked
<1> QED BY <1>3, <1>8, <1>9, <1>10, <1>11
           DEF Promised!Recover, Promised!Shown, Promised!Cardinality, Cardinality

\* A purge forgets what is on record of its batch, and nothing else.
LEMMA PurgeIsSeen ==
    ASSUME IInv, NEW w \in Cleaner, CommitPurge(w), UNCHANGED topic
    PROVE  \E gone \in SUBSET Event : Promised!Forget(gone)
<1>1. PICK gone \in SUBSET Event : gone = cleaner[w].batch
  BY DEF IInv, TypeOK, RetentionTypeOK, CleanerState
<1>2. \A e \in gone : payment[e] = "PUBLISHED"
  BY <1>1, BatchIsPublished
<1>3. /\ audit' = AuditsWithout(gone)
      /\ handoff' = HandoffsWithout(gone)
      /\ UNCHANGED payment
  BY <1>1 DEF CommitPurge
<1>4. Parked' = [e \in Event |-> IF e \in gone THEN {} ELSE Parked[e]]
  BY <1>3 DEF Parked, HandoffsWithout
<1>5. ASSUME NEW k \in RecoveryKey
      PROVE  /\ audit'[k] # NoAudit <=> audit[k] # NoAudit /\ audit[k].event \notin gone
             /\ audit'[k] # NoAudit => audit'[k] = audit[k]
  BY <1>3 DEF AuditsWithout
<1>6. Recoveries' = {v \in Recoveries : v.payment \notin gone}
  BY <1>5 DEF Recoveries
<1>7. UNCHANGED Delivered
  BY DEF Delivered
<1> QED BY <1>2, <1>3, <1>4, <1>6, <1>7 DEF Promised!Forget

\* Creation is an Accept.
LEMMA CreationIsSeen ==
    ASSUME NEW e \in Event, CreatePayment(e), UNCHANGED topic
    PROVE  Promised!Accept(e)
  BY DEF CreatePayment, Promised!Accept, Promised!Shown, Delivered, Parked, Recoveries

\* Each step of the outbox is one of ReliableOutbox, or is not seen.
LEMMA StepIsPromised ==
    ASSUME IInv, SentArePayments, [Next]_vars
    PROVE  [Promised!PromiseNext]_(Promised!promiseVars)
<1> DEFINE Seen == [Promised!PromiseNext]_(Promised!promiseVars)
<1> SUFFICES Seen
  OBVIOUS
<1> HIDE DEF Seen
<1>1. ASSUME UNCHANGED <<payment, handoff, audit, topic>> PROVE Seen
  BY <1>1, PromiseFrame DEF Seen, Delivered
<1>2. ASSUME NEW e \in Event, payment[e] # "NONE",
             topic' = [topic EXCEPT ![e] = @ + 1],
             UNCHANGED <<payment, handoff, audit>>
      PROVE  Seen
  BY <1>2, AppendDelivers DEF Seen, Promised!PromiseNext
<1>3. CASE StoreNext /\ UNCHANGED relayVars
  <2>1. UNCHANGED topic
    BY <1>3 DEF relayVars
  <2>2. ASSUME NEW e \in Event, CreatePayment(e) PROVE Seen
    BY <2>1, <2>2, CreationIsSeen DEF Seen, Promised!PromiseNext
  <2>3. ASSUME NEW e \in Event, DelayElapses(e) \/ EventAges(e) PROVE Seen
    BY <1>1, <2>1, <2>3 DEF DelayElapses, EventAges
  <2>4. ASSUME NEW c \in Command, JournalAges(c) PROVE Seen
    BY <1>1, <2>1, <2>4 DEF JournalAges
  <2> QED BY <1>3, <2>2, <2>3, <2>4 DEF StoreNext
<1>4. CASE RelayNext
  <2>1. ASSUME NEW r \in Relay, CommitOutcome(r) PROVE Seen
    <3>1. relay[r].event \in Event
      BY <2>1, RelayThread DEF CommitOutcome, IInv
    <3> QED BY <2>1, <3>1, CommitIsSeen DEF Seen, Promised!PromiseNext
  <2>2. ASSUME NEW r \in Relay, BrokerAppends(r) PROVE Seen
    <3>1. /\ topic' = [topic EXCEPT ![relay[r].event] = @ + 1]
          /\ UNCHANGED <<payment, handoff, audit>>
          /\ relay[r].stage # "idle"
      BY <2>2 DEF BrokerAppends, storeVars
    <3> QED BY <1>2, <3>1, SendingIsOfPayment
  <2>3. ASSUME NEW e \in Event, BrokerAppendsLate(e) PROVE Seen
    <3>1. /\ topic' = [topic EXCEPT ![e] = @ + 1]
          /\ UNCHANGED <<payment, handoff, audit>>
          /\ late[e] > 0
      BY <2>3 DEF BrokerAppendsLate, storeVars
    <3> QED BY <1>2, <3>1 DEF SentArePayments
  <2>4. ASSUME NEW r \in Relay,
               \/ ClaimAndSend(r) \/ ClaimOverLimit(r) \/ Acknowledge(r)
               \/ SendFails(r) \/ TransactionFails(r) \/ Restart(r)
        PROVE  Seen
    <3>1. UNCHANGED <<payment, handoff, audit, topic>>
      BY <2>4 DEF ClaimAndSend, ClaimOverLimit, Acknowledge, SendFails,
                  TransactionFails, Restart, storeVars
    <3> QED BY <1>1, <3>1
  <2> QED BY <1>4, <2>1, <2>2, <2>3, <2>4 DEF RelayNext
<1>5. CASE RecoveryNext /\ UNCHANGED relayVars
  <2>1. UNCHANGED topic
    BY <1>5 DEF relayVars
  <2>2. ASSUME NEW c \in Command, CommitRecovery(c) PROVE Seen
    BY <2>1, <2>2, RecoveryIsSeen DEF Seen, Promised!PromiseNext
  <2>3. ASSUME NEW c \in Command,
               \/ Submit(c) \/ LookUpAudit(c) \/ LockEvent(c) \/ CheckCommand(c)
               \/ InsertAudit(c) \/ ReadRacedAudit(c) \/ JournalRejection(c)
               \/ JournalFails(c) \/ CommandFails(c) \/ AnswerLost(c)
        PROVE  Seen
    <3>1. UNCHANGED <<payment, handoff, audit>>
      BY <2>3 DEF Submit, LookUpAudit, LockEvent, CheckCommand, InsertAudit,
                  ReadRacedAudit, JournalRejection, JournalFails, CommandFails,
                  AnswerLost, storeVars
    <3> QED BY <1>1, <2>1, <3>1
  <2> QED BY <1>5, <2>2, <2>3 DEF RecoveryNext
<1>6. CASE RetentionNext /\ UNCHANGED relayVars
  <2>1. UNCHANGED topic
    BY <1>6 DEF relayVars
  <2>2. ASSUME NEW w \in Cleaner, CommitPurge(w) PROVE Seen
    BY <2>1, <2>2, PurgeIsSeen DEF Seen, Promised!PromiseNext
  <2>3. ASSUME NEW w \in Cleaner, LockBatch(w) \/ PurgeFails(w) PROVE Seen
    BY <1>1, <2>1, <2>3 DEF LockBatch, PurgeFails
  <2> QED BY <1>6, <2>2, <2>3 DEF RetentionNext
<1>7. CASE UNCHANGED vars
  BY <1>1, <1>7 DEF vars, storeVars, relayVars
<1> QED BY <1>3, <1>4, <1>5, <1>6, <1>7 DEF Next

\* Relay, recovery and retention keep the promise of the outbox, whatever their
\* transactions, threads and faults.
THEOREM OutboxIsReliable == Spec => OutboxKeepsPromise
<1>1. Init => Promised!PromiseInit
  <2>1. ASSUME Init PROVE Promised!PromiseInit
    <3>1. /\ payment = [e \in Event |-> "NONE"]
          /\ topic = [e \in Event |-> 0]
          /\ handoff = [e \in Event |-> {}]
          /\ audit = [k \in RecoveryKey |-> NoAudit]
      BY <2>1 DEF Init, StoreInit, RelayInit
    <3>2. Delivered = {} /\ Recoveries = {}
      BY <3>1 DEF Delivered, Recoveries
    <3>3. Parked = [e \in Event |-> {}]
      BY <3>1 DEF Parked
    <3> QED BY <3>1, <3>2, <3>3 DEF Promised!PromiseInit
  <2> QED BY <2>1
<1>2. IInv /\ SentArePayments /\ [Next]_vars =>
        [Promised!PromiseNext]_(Promised!promiseVars)
  BY StepIsPromised
<1> QED BY <1>1, <1>2, InvariantHolds, SentHold, PTL
           DEF Spec, OutboxKeepsPromise, Promised!Promise

=============================================================================
