---------------------------- MODULE OutboxRelay ----------------------------
(***************************************************************************)
(* The publisher: PaymentOutboxPublisher.publishNext, called over and over *)
(* by the scheduler of each replica.                                       *)
(*                                                                         *)
(* One call is one transaction.  It locks the first due row, sends the     *)
(* event to Kafka while it holds the lock, waits for the acknowledgement   *)
(* at most a timeout, and writes the outcome.  Nothing it writes is        *)
(* visible before the commit, but the send and the retry counter cannot be *)
(* rolled back; so the send, the wait and the commit are separate steps.   *)
(*                                                                         *)
(* The broker is external.  It may append the record and acknowledge it,   *)
(* append it after the publisher has stopped waiting, or never append it.  *)
(***************************************************************************)
EXTENDS OutboxStore

VARIABLES
    relay,      \* what each publisher thread is doing
    limit,      \* the attempt limit each replica was started with
    topic,      \* records of an event in the Kafka topic
    late,       \* records sent and given up on, which the broker may still append
    retries,    \* counter finbank_payment_outbox_retries_total of each replica,
                \* kept in its process and registered at 0 when it starts
    scheduled   \* history: the retries whose scheduling each running process
                \* has committed since it started

relayVars == <<relay, limit, topic, late, retries, scheduled>>

Outcome == {"published", "retry", "exhausted", "over_limit"}

\* Between two calls.
Idle ==
    [stage |-> "idle", event |-> NoEvent, appended |-> FALSE,
     outcome |-> "none"]

\* The row is locked, the record is sent, and the thread waits.
Sending(e) ==
    [stage |-> "sending", event |-> e, appended |-> FALSE, outcome |-> "none"]

\* It still waits, and the broker has the record.
Appended(e) ==
    [stage |-> "sending", event |-> e, appended |-> TRUE, outcome |-> "none"]

\* The outcome is known, written to the row in memory, and not committed.
Writing(e, outcome) ==
    [stage |-> "writing", event |-> e, appended |-> FALSE, outcome |-> outcome]

RelayState ==
    {Idle}
        \cup [stage: {"sending"}, event: Event, appended: BOOLEAN, outcome: {"none"}]
        \cup [stage: {"writing"}, event: Event, appended: {FALSE}, outcome: Outcome]

\* The row the claim query returns: the first due one.  It does not skip
\* locked rows, so while that row is locked nothing is claimed.
FirstClaimable(e) ==
    /\ Claimable(e)
    /\ \A d \in Event : Claimable(d) => e <= d

(***************************************************************************)
(* publishNext locks a row with attempts left, and calls send.             *)
(***************************************************************************)
ClaimAndSend(r) ==
    /\ relay[r].stage = "idle"
    /\ \E e \in Event :
        /\ FirstClaimable(e)
        /\ Unlocked(e)
        /\ outbox[e].attempts < limit[r]
        /\ Acquire(e, r)
        /\ relay' = [relay EXCEPT ![r] = Sending(e)]
        /\ sends' = [sends EXCEPT ![e] = @ + 1]
    /\ UNCHANGED <<outbox, payment, handoff, audit, journal, faults>>
    /\ UNCHANGED <<limit, topic, late, retries, scheduled>>

(***************************************************************************)
(* publishNext locks a row that already has as many attempts as this       *)
(* replica allows: the limit was lowered.  It is exhausted without a send. *)
(***************************************************************************)
ClaimOverLimit(r) ==
    /\ relay[r].stage = "idle"
    /\ \E e \in Event :
        /\ FirstClaimable(e)
        /\ Unlocked(e)
        /\ outbox[e].attempts >= limit[r]
        /\ Acquire(e, r)
        /\ relay' = [relay EXCEPT ![r] = Writing(e, "over_limit")]
    /\ UNCHANGED <<outbox, payment, handoff, audit, journal, sends, faults>>
    /\ UNCHANGED <<limit, topic, late, retries, scheduled>>

(***************************************************************************)
(* The broker appends the record a publisher is waiting for.               *)
(***************************************************************************)
BrokerAppends(r) ==
    /\ relay[r].stage = "sending"
    /\ ~relay[r].appended
    /\ relay' = [relay EXCEPT ![r] = Appended(relay[r].event)]
    /\ topic' = [topic EXCEPT ![relay[r].event] = @ + 1]
    /\ UNCHANGED storeVars
    /\ UNCHANGED <<limit, late, retries, scheduled>>

\* Mutant of BrokerAppendsLate: a record is taken that was never sent.
BrokerAppendsUnsent(e) ==
    /\ late' = [late EXCEPT ![e] = @ - 1]
    /\ topic' = [topic EXCEPT ![e] = @ + 1]
    /\ UNCHANGED storeVars
    /\ UNCHANGED <<relay, limit, retries, scheduled>>

(***************************************************************************)
(* The broker appends a record whose publisher no longer waits for it.     *)
(***************************************************************************)
BrokerAppendsLate(e) ==
    /\ late[e] > 0
    /\ late' = [late EXCEPT ![e] = @ - 1]
    /\ topic' = [topic EXCEPT ![e] = @ + 1]
    /\ UNCHANGED storeVars
    /\ UNCHANGED <<relay, limit, retries, scheduled>>

\* A record that is given up on before the broker has appended it is either
\* lost or still on its way.
GiveUpOnRecord(r) ==
    IF relay[r].stage = "sending" /\ ~relay[r].appended
    THEN \/ late' = late
         \/ late' = [late EXCEPT ![relay[r].event] = @ + 1]
    ELSE late' = late

\* Mutant of Acknowledge: send is called, and its future is not awaited.
AcknowledgeUnheard(r) ==
    /\ relay[r].stage = "sending"
    /\ relay' = [relay EXCEPT ![r] = Writing(relay[r].event, "published")]
    /\ UNCHANGED storeVars
    /\ UNCHANGED <<limit, topic, late, retries, scheduled>>

(***************************************************************************)
(* get returns: markPublished is the outcome.                              *)
(***************************************************************************)
Acknowledge(r) ==
    /\ relay[r].stage = "sending"
    /\ relay[r].appended
    /\ relay' = [relay EXCEPT ![r] = Writing(relay[r].event, "published")]
    /\ UNCHANGED storeVars
    /\ UNCHANGED <<limit, topic, late, retries, scheduled>>

\* The attempt in progress is the last one this replica allows.
IsFinalAttempt(r) == outbox[relay[r].event].attempts + 1 >= limit[r]

\* Mutant of CountRetry: every failure is counted.
CountFailure(r) == retries' = [retries EXCEPT ![r] = @ + 1]

\* recordAutomaticRetry: in memory, and before the transaction commits.
CountRetry(r) ==
    retries' = IF IsFinalAttempt(r) THEN retries
                                    ELSE [retries EXCEPT ![r] = @ + 1]

(***************************************************************************)
(* get throws: a broker error, a timeout or an interrupt.  The record may  *)
(* be in the topic all the same.  The attempt counts, whatever stopped it. *)
(***************************************************************************)
SendFails(r) ==
    /\ relay[r].stage = "sending"
    /\ relay' = [relay EXCEPT ![r] =
                    Writing(relay[r].event,
                            IF IsFinalAttempt(r) THEN "exhausted" ELSE "retry")]
    /\ CountRetry(r)
    /\ GiveUpOnRecord(r)
    /\ UNCHANGED storeVars
    /\ UNCHANGED <<limit, topic, scheduled>>

\* The row, the payment status and the handoff rows each outcome leads to.
RowAfter(row, outcome) ==
    CASE outcome = "published"  -> MarkPublished(row)
      [] outcome = "retry"      -> ScheduleRetry(row)
      [] outcome = "exhausted"  -> MarkExhausted(row)
      [] outcome = "over_limit" -> MarkExhaustedWithoutAttempt(row)

\* Mutant of PaymentAfter: the branch for a lowered limit forgets the payment.
PaymentAfterSend(outcome) ==
    CASE outcome = "published" -> "PUBLISHED"
      [] outcome = "exhausted" -> "PUBLISH_EXHAUSTED"
      [] outcome \in {"retry", "over_limit"} -> "PENDING_RETRY"

PaymentAfter(outcome) ==
    CASE outcome = "published" -> "PUBLISHED"
      [] outcome = "retry"     -> "PENDING_RETRY"
      [] outcome \in {"exhausted", "over_limit"} -> "PUBLISH_EXHAUSTED"

(***************************************************************************)
(* The transaction commits.  An exhaustion inserts its handoff row in the  *)
(* same transaction, under the unique index on event and sequence.         *)
(***************************************************************************)
CommitOutcome(r) ==
    /\ relay[r].stage = "writing"
    /\ LET e == relay[r].event
           row == RowAfter(outbox[e], relay[r].outcome)
       IN  /\ outbox' = [outbox EXCEPT ![e] = row]
           /\ payment' = [payment EXCEPT ![e] = PaymentAfter(relay[r].outcome)]
           /\ IF row.exhausted
              THEN /\ \A h \in handoff[e] : h.sequence # row.sequence
                   /\ handoff' = [handoff EXCEPT ![e] = @ \cup {HandoffOf(row)}]
              ELSE handoff' = handoff
           /\ Release(e)
    /\ scheduled' = IF relay[r].outcome = "retry"
                    THEN [scheduled EXCEPT ![r] = @ + 1] ELSE scheduled
    /\ relay' = [relay EXCEPT ![r] = Idle]
    /\ UNCHANGED <<audit, journal, sends, faults>>
    /\ UNCHANGED <<limit, topic, late, retries>>

(***************************************************************************)
(* The transaction fails and the process goes on: the handoff insert or    *)
(* the commit throws.  The lock goes, and what was to be written; what was *)
(* sent stays sent, and what was counted stays counted.                    *)
(***************************************************************************)
TransactionFails(r) ==
    /\ relay[r].stage # "idle"
    /\ Fault
    /\ GiveUpOnRecord(r)
    /\ Release(relay[r].event)
    /\ relay' = [relay EXCEPT ![r] = Idle]
    /\ UNCHANGED <<outbox, payment, handoff, audit, journal, sends>>
    /\ UNCHANGED <<limit, topic, retries, scheduled>>

(***************************************************************************)
(* A replica crashes or is stopped, at any point of a call or between two, *)
(* and starts again, perhaps with another attempt limit.  The database     *)
(* rolls its transaction back; its counter starts again at 0.              *)
(***************************************************************************)
Restart(r) ==
    /\ Fault
    /\ GiveUpOnRecord(r)
    /\ IF relay[r].stage = "idle" THEN lock' = lock
                                  ELSE Release(relay[r].event)
    /\ relay' = [relay EXCEPT ![r] = Idle]
    /\ \E n \in Limit : limit' = [limit EXCEPT ![r] = n]
    /\ retries' = [retries EXCEPT ![r] = 0]
    /\ scheduled' = [scheduled EXCEPT ![r] = 0]
    /\ UNCHANGED <<outbox, payment, handoff, audit, journal, sends, topic>>

RelayInit ==
    /\ relay = [r \in Relay |-> Idle]
    /\ limit \in [Relay -> Limit]
    /\ topic = [e \in Event |-> 0]
    /\ late = [e \in Event |-> 0]
    /\ retries = [r \in Relay |-> 0]
    /\ scheduled = [r \in Relay |-> 0]

RelayNext ==
    \/ \E r \in Relay :
        \/ ClaimAndSend(r)
        \/ ClaimOverLimit(r)
        \/ BrokerAppends(r)
        \/ Acknowledge(r)
        \/ SendFails(r)
        \/ CommitOutcome(r)
        \/ TransactionFails(r)
        \/ Restart(r)
    \/ \E e \in Event : BrokerAppendsLate(e)

RelayTypeOK ==
    /\ relay \in [Relay -> RelayState]
    /\ limit \in [Relay -> Limit]
    /\ topic \in [Event -> Nat]
    /\ late \in [Event -> Nat]
    /\ retries \in [Relay -> Nat]
    /\ scheduled \in [Relay -> Nat]

=============================================================================
