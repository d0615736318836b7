---------------------------- MODULE OutboxStore ----------------------------
(***************************************************************************)
(* The tables of the payment service that its background components share, *)
(* and what the entity methods do to one row.                              *)
(*                                                                         *)
(* The relay (OutboxRelay), the operator's recovery command                *)
(* (OutboxRecovery) and the retention job (OutboxRetention) run in         *)
(* separate transactions, on separate threads and in separate replicas.    *)
(* They meet only here: in the rows, and in the row locks that             *)
(* SELECT ... FOR UPDATE takes and a commit or a rollback releases.        *)
(*                                                                         *)
(* What is abstracted.  An outbox event is a number: the relay's order,    *)
(* createdAt then id.  A payment has at most one outbox event (unique      *)
(* payment_id), so the event also names its payment.  Topic, key, payload, *)
(* amounts and accounts never change after the insert and are left out.    *)
(* Clock readings are kept only as far as a query compares them: due says  *)
(* that next_attempt_at has been reached, aged that published_at is before *)
(* the retention cutoff.  last_error is kept as "set" or "null".           *)
(***************************************************************************)
EXTENDS Naturals

CONSTANTS
    Event,        \* outbox events, numbered in the order the relay takes them
    RecoveryKey,  \* recovery keys (as digests) operators send
    Actor,        \* actor-and-reason pairs operators send
    Relay,        \* threads running the publisher, one per replica
    Command,      \* recovery commands: each is one HTTP request
    Cleaner,      \* threads running the retention job, one per replica
    Limit,        \* values payment.outbox.max-attempts takes, across replicas
    MaxFaults,    \* bound: rollbacks, crashes and restarts in one behaviour
    Free, NoAudit, NoEvent, NoKey, NoActor

ASSUME EventAssumption == Event \subseteq Nat
ASSUME LimitAssumption == Limit \subseteq Nat \ {0} /\ Limit # {}
ASSUME FaultsAssumption == MaxFaults \in Nat
ASSUME OwnerAssumption ==
    /\ Free \notin Relay \cup Command \cup Cleaner
    /\ Relay \cap Command = {}
    /\ Relay \cap Cleaner = {}
    /\ Command \cap Cleaner = {}
ASSUME NoneAssumption ==
    /\ NoEvent \notin Event
    /\ NoKey \notin RecoveryKey
    /\ NoActor \notin Actor
    /\ NoAudit \notin [event: Event, actor: Actor, cycle: Nat,
                       attempts: Nat, command: Command]

VARIABLES
    outbox,   \* table payment_outbox_event
    payment,  \* column status of table payment
    handoff,  \* table payment_outbox_dead_letter_handoff, by event
    audit,    \* table payment_outbox_recovery_audit, by unique key
    journal,  \* table payment_outbox_recovery_rejection_audit, by command
    lock,     \* which open transaction holds the lock of an outbox row
    sends,    \* history: broker sends of an event since it was last armed
    faults    \* bound: faults so far

storeVars == <<outbox, payment, handoff, audit, journal, lock, sends, faults>>

Owner == Relay \cup Command \cup Cleaner

PaymentStatus ==
    {"NONE", "CREATED", "PENDING_RETRY", "PUBLISH_EXHAUSTED", "PUBLISHED"}

\* "NONE": the row is not in the table, because the payment has not been
\* created or because retention has deleted the row.
OutboxStatus == {"NONE", "PENDING", "PUBLISHED"}

RejectionCode == {"EVENT_NOT_FOUND", "EVENT_NOT_ELIGIBLE", "COMMAND_CONFLICT"}

OutboxRow ==
    [status: OutboxStatus, attempts: Nat, sequence: Nat, exhausted: BOOLEAN,
     due: BOOLEAN, error: BOOLEAN, aged: BOOLEAN]

HandoffRow == [sequence: Nat, attempts: Nat, error: BOOLEAN]

AuditRow ==
    [event: Event, actor: Actor, cycle: Nat, attempts: Nat, command: Command]

\* A journal row, by the command that was refused.  code "none": no row.
JournalRow == [code: RejectionCode \cup {"none"}, aged: BOOLEAN, purged: BOOLEAN]

(***************************************************************************)
(* The entity methods: a row before to a row after.                        *)
(***************************************************************************)
NoRow ==
    [status |-> "NONE", attempts |-> 0, sequence |-> 0, exhausted |-> FALSE,
     due |-> FALSE, error |-> FALSE, aged |-> FALSE]

NewRow == [NoRow EXCEPT !.status = "PENDING", !.due = TRUE]

MarkPublished(row) ==
    [row EXCEPT !.status = "PUBLISHED", !.attempts = row.attempts + 1,
                !.exhausted = FALSE, !.error = FALSE]

\* Mutant of ScheduleRetry: the attempt is not counted.
ScheduleRetryUncounted(row) ==
    [row EXCEPT !.status = "PENDING", !.exhausted = FALSE, !.due = FALSE,
                !.error = TRUE]

ScheduleRetry(row) ==
    [row EXCEPT !.status = "PENDING", !.attempts = row.attempts + 1,
                !.exhausted = FALSE, !.due = FALSE, !.error = TRUE]

\* Mutant of MarkExhausted: the exhaustion sequence is not counted up.
MarkExhaustedUnnumbered(row) ==
    [row EXCEPT !.status = "PENDING", !.attempts = row.attempts + 1,
                !.exhausted = TRUE, !.error = TRUE]

MarkExhausted(row) ==
    [row EXCEPT !.status = "PENDING", !.attempts = row.attempts + 1,
                !.sequence = row.sequence + 1, !.exhausted = TRUE,
                !.error = TRUE]

MarkExhaustedWithoutAttempt(row) ==
    [row EXCEPT !.status = "PENDING", !.sequence = row.sequence + 1,
                !.exhausted = TRUE]

\* Mutant of Requeue: the exhaustion mark is not cleared.
RequeueKeepsMark(row) ==
    [row EXCEPT !.status = "PENDING", !.attempts = 0, !.due = TRUE]

\* The new attempt is due at once; sequence and lastError are kept.
Requeue(row) ==
    [row EXCEPT !.status = "PENDING", !.attempts = 0, !.exhausted = FALSE,
                !.due = TRUE]

\* The constructor snapshots the row that has just been exhausted.
HandoffOf(row) ==
    [sequence |-> row.sequence, attempts |-> row.attempts, error |-> row.error]

NoJournal == [code |-> "none", aged |-> FALSE, purged |-> FALSE]

(***************************************************************************)
(* Row locks and the predicates of the locking queries.                    *)
(***************************************************************************)
Exists(e) == outbox[e].status # "NONE"

\* Mutant of Claimable: the query finds only events never tried.
ClaimableOnce(e) ==
    /\ outbox[e].status = "PENDING"
    /\ ~outbox[e].exhausted
    /\ outbox[e].due
    /\ outbox[e].attempts = 0

\* The predicate of the relay's claim query.
Claimable(e) ==
    /\ outbox[e].status = "PENDING"
    /\ ~outbox[e].exhausted
    /\ outbox[e].due

\* Mutant of Expired: the query lacks the cutoff.
ExpiredAtOnce(e) == outbox[e].status = "PUBLISHED"

\* The predicate of the retention query.
Expired(e) == outbox[e].status = "PUBLISHED" /\ outbox[e].aged

Unlocked(e) == lock[e] = Free

Acquire(e, owner) == lock' = [lock EXCEPT ![e] = owner]

Release(e) == lock' = [lock EXCEPT ![e] = Free]

\* A fault of the environment: a database error, a crash, a restart.
Fault == faults < MaxFaults /\ faults' = faults + 1

(***************************************************************************)
(* Payment creation, as the other components see it: one transaction makes *)
(* the payment and its outbox event appear together.                       *)
(***************************************************************************)
CreatePayment(e) ==
    /\ payment[e] = "NONE"
    /\ payment' = [payment EXCEPT ![e] = "CREATED"]
    /\ outbox' = [outbox EXCEPT ![e] = NewRow]
    /\ UNCHANGED <<handoff, audit, journal, lock, sends, faults>>

(***************************************************************************)
(* Time.                                                                   *)
(***************************************************************************)
\* The retry delay of a row elapses.
DelayElapses(e) ==
    /\ outbox[e].status = "PENDING"
    /\ ~outbox[e].due
    /\ outbox' = [outbox EXCEPT ![e].due = TRUE]
    /\ UNCHANGED <<payment, handoff, audit, journal, lock, sends, faults>>

\* A published row passes the retention cutoff.
EventAges(e) ==
    /\ outbox[e].status = "PUBLISHED"
    /\ ~outbox[e].aged
    /\ outbox' = [outbox EXCEPT ![e].aged = TRUE]
    /\ UNCHANGED <<payment, handoff, audit, journal, lock, sends, faults>>

\* A rejection row passes the retention cutoff.
JournalAges(c) ==
    /\ journal[c].code # "none"
    /\ ~journal[c].aged
    /\ journal' = [journal EXCEPT ![c].aged = TRUE]
    /\ UNCHANGED <<outbox, payment, handoff, audit, lock, sends, faults>>

StoreInit ==
    /\ outbox = [e \in Event |-> NoRow]
    /\ payment = [e \in Event |-> "NONE"]
    /\ handoff = [e \in Event |-> {}]
    /\ audit = [k \in RecoveryKey |-> NoAudit]
    /\ journal = [c \in Command |-> NoJournal]
    /\ lock = [e \in Event |-> Free]
    /\ sends = [e \in Event |-> 0]
    /\ faults = 0

StoreNext ==
    \/ \E e \in Event : CreatePayment(e) \/ DelayElapses(e) \/ EventAges(e)
    \/ \E c \in Command : JournalAges(c)

StoreTypeOK ==
    /\ outbox \in [Event -> OutboxRow]
    /\ payment \in [Event -> PaymentStatus]
    /\ handoff \in [Event -> SUBSET HandoffRow]
    /\ audit \in [RecoveryKey -> AuditRow \cup {NoAudit}]
    /\ journal \in [Command -> JournalRow]
    /\ lock \in [Event -> Owner \cup {Free}]
    /\ sends \in [Event -> Nat]
    /\ faults \in 0..MaxFaults

=============================================================================
