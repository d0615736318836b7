--------------------------- MODULE PaymentOutbox ---------------------------
(***************************************************************************)
(* The payment outbox: relay, recovery and retention over one store, any   *)
(* number of replicas and operators, every interleaving of their           *)
(* transactions, and faults at every point of them.                        *)
(***************************************************************************)
EXTENDS OutboxRelay, OutboxRecovery, OutboxRetention

vars == <<storeVars, relayVars, recoveryVars, retentionVars>>

Init == StoreInit /\ RelayInit /\ RecoveryInit /\ RetentionInit

Next ==
    \/ StoreNext /\ UNCHANGED <<relayVars, recoveryVars, retentionVars>>
    \/ RelayNext /\ UNCHANGED <<recoveryVars, retentionVars>>
    \/ RecoveryNext /\ UNCHANGED <<relayVars, retentionVars>>
    \/ RetentionNext /\ UNCHANGED <<relayVars, recoveryVars>>

Spec == Init /\ [][Next]_vars

(***************************************************************************)
(* Fairness.  The scheduler polls again after every call (fixedDelay), a   *)
(* call ends because every wait in it is bounded by a timeout, a request   *)
(* thread runs on, and time passes.  Nothing is assumed of the broker, of  *)
(* operators, of clients or of the retention job's schedule.               *)
(***************************************************************************)
RelayStep(A) == A /\ UNCHANGED <<recoveryVars, retentionVars>>
RecoveryStep(A) == A /\ UNCHANGED <<relayVars, retentionVars>>
RetentionStep(A) == A /\ UNCHANGED <<relayVars, recoveryVars>>
StoreStep(A) == A /\ UNCHANGED <<relayVars, recoveryVars, retentionVars>>

RelayProceeds(r) ==
    RelayStep(\/ ClaimAndSend(r) \/ ClaimOverLimit(r) \/ Acknowledge(r)
              \/ SendFails(r) \/ CommitOutcome(r))

CommandProceeds(c) ==
    RecoveryStep(\/ LookUpAudit(c) \/ LockEvent(c) \/ CheckCommand(c)
                 \/ InsertAudit(c) \/ CommitRecovery(c) \/ ReadRacedAudit(c)
                 \/ JournalRejection(c))

Fairness ==
    /\ \A r \in Relay : WF_vars(RelayProceeds(r))
    /\ \A c \in Command : WF_vars(CommandProceeds(c))
    /\ \A w \in Cleaner : WF_vars(RetentionStep(CommitPurge(w)))
    /\ \A e \in Event : WF_vars(StoreStep(DelayElapses(e)))

FairSpec == Spec /\ Fairness

(***************************************************************************)
(* Properties.                                                             *)
(***************************************************************************)

\* Every variable has the type its table, thread or counter gives it.
TypeOK == StoreTypeOK /\ RelayTypeOK /\ RecoveryTypeOK /\ RetentionTypeOK

\* The status a payment shows while its outbox row exists.
StatusOf(row) ==
    CASE row.status = "PUBLISHED" -> "PUBLISHED"
      [] row.status = "PENDING" /\ row.exhausted -> "PUBLISH_EXHAUSTED"
      [] row.status = "PENDING" /\ ~row.exhausted /\ row.attempts + row.sequence > 0
            -> "PENDING_RETRY"
      [] row.status = "PENDING" /\ ~row.exhausted /\ row.attempts + row.sequence = 0
            -> "CREATED"

\* The payment's status column and the outbox row are written by different
\* statements of three components, and are what operators and customers look
\* at: they always tell the same story.  Once the row is purged, the payment
\* is published.
StatusAgrees ==
    \A e \in Event :
        IF Exists(e) THEN payment[e] = StatusOf(outbox[e])
                     ELSE payment[e] \in {"NONE", "PUBLISHED"}

\* An event is marked published only if Kafka has it, whatever was sent,
\* timed out, rolled back or recovered before.
PublishedIsInTopic ==
    \A e \in Event : payment[e] = "PUBLISHED" => topic[e] > 0

\* While its source row exists, each exhaustion of an event is staged as a
\* handoff exactly once, numbered without gaps, and says why it failed.
EachExhaustionIsHandedOff ==
    \A e \in Event :
        /\ {h.sequence : h \in handoff[e]} = 1..outbox[e].sequence
        /\ \A h, i \in handoff[e] : h.sequence = i.sequence => h = i
        /\ \A h \in handoff[e] : h.error /\ h.attempts > 0

\* The exhaustion cycles of an event that have been recovered.
RecoveredCycles(e) ==
    {audit[k].cycle : k \in {j \in RecoveryKey :
                                audit[j] # NoAudit /\ audit[j].event = e}}

\* Every cycle but the current one was ended by one audited command: no cycle
\* is re-armed without an audit and none is audited twice, also when several
\* commands run at once, are repeated after a later exhaustion, or share a key.
EachRecoveryIsAudited ==
    /\ \A e \in Event :
        RecoveredCycles(e) =
            1..(IF outbox[e].exhausted THEN outbox[e].sequence - 1
                                       ELSE outbox[e].sequence)
    /\ \A j, k \in RecoveryKey :
        /\ audit[j] # NoAudit /\ audit[k] # NoAudit
        /\ audit[j].event = audit[k].event /\ audit[j].cycle = audit[k].cycle
        => j = k

\* An operator told "recovered" can rely on it: the audit row is there, with
\* the event, actor and reason of the command, unless the event has since
\* been published and purged.
RecoveredMeansAudited ==
    \A c \in Command :
        command[c].answer = "recovered" =>
            \/ ~Exists(command[c].event)
            \/ /\ audit[command[c].key] # NoAudit
               /\ audit[command[c].key].event = command[c].event
               /\ audit[command[c].key].actor = command[c].actor

\* An operator told that a command was refused can rely on that too: the
\* refusal is in the journal, and the command has re-armed nothing.
RefusedMeansJournalled ==
    \A c \in Command :
        command[c].answer \in RejectionCode =>
            /\ journal[c].code = command[c].answer
            /\ journal[c].purged => journal[c].aged
            /\ \A k \in RecoveryKey :
                audit[k] # NoAudit => audit[k].command # c

\* A row lock belongs to exactly the transaction that works on the row: no
\* lock is leaked by a rollback, and no transaction works without one.
HoldsLock(p, e) ==
    \/ p \in Relay /\ relay[p].stage # "idle" /\ relay[p].event = e
    \/ p \in Command /\ InTransaction(p) /\ command[p].event = e
    \/ p \in Cleaner /\ e \in cleaner[p].batch

LockIsHeldByItsOwner ==
    \A e \in Event, p \in Owner : lock[e] = p <=> HoldsLock(p, e)

\* The documented number of sends per cycle is exceeded only by sends whose
\* transaction was rolled back: those were not counted on the row.
Greatest(n) == n \in Limit /\ \A m \in Limit : m <= n

SendsAreBounded ==
    \A e \in Event, n \in Limit : Greatest(n) => sends[e] <= n + faults

\* Only a committed recovery command re-arms an exhausted event; it uses a key
\* that was never used, and it records the cycle it ends.  Whatever else
\* happens to the event, the exhaustion mark stays.
OnlyRecoveryRearms ==
    [][\A e \in Event :
        outbox[e].exhausted /\ ~outbox'[e].exhausted =>
            \E k \in RecoveryKey :
                /\ audit[k] = NoAudit /\ audit'[k] # NoAudit
                /\ audit'[k].event = e
                /\ audit'[k].cycle = outbox[e].sequence
                /\ command'[audit'[k].command].answer = "recovered"]_vars

\* A published payment stays published, and its row stays as it is until it
\* is purged; nothing is purged that is not published.
PublishedIsFinal ==
    [][\A e \in Event :
        /\ payment[e] = "PUBLISHED" => payment'[e] = "PUBLISHED"
        /\ Exists(e) /\ outbox'[e].status = "NONE" =>
            outbox[e].status = "PUBLISHED" /\ outbox[e].aged
        /\ outbox[e].status = "PUBLISHED" => outbox'[e].status # "PENDING"]_vars

\* A retry of this replica whose transaction is still open.
InDoubt(r) == IF relay[r].outcome = "retry" THEN 1 ELSE 0

\* The retry counter of a replica, which no rollback takes back and a restart
\* sets to 0: over the life of each process it misses no retry the process has
\* scheduled, and it is ahead by no more than the transactions that failed.
RetryCounterIsClose ==
    \A r \in Relay :
        /\ scheduled[r] + InDoubt(r) <= retries[r]
        /\ retries[r] <= scheduled[r] + InDoubt(r) + faults

\* docs/observability.md says the counter is the "automatic retries scheduled
\* after failed publish attempts".  Within the life of one process it also
\* counts those whose transaction rolls back: recordAutomaticRetry runs before
\* the commit.
RetryCounterIsExact ==
    \A r \in Relay : retries[r] = scheduled[r] + InDoubt(r)

\* Every payment is eventually published or, its attempts used up, exhausted.
EveryPaymentSettles ==
    \A e \in Event :
        payment[e] = "CREATED" ~> payment[e] \in {"PUBLISHED", "PUBLISH_EXHAUSTED"}

\* A re-armed payment settles again: recovery never leaves an event parked.
EveryRecoverySettles ==
    \A e \in Event :
        payment[e] = "PENDING_RETRY"
            ~> payment[e] \in {"PUBLISHED", "PUBLISH_EXHAUSTED"}

\* Every command is answered: no operator waits forever for a row lock, for
\* another's uncommitted audit row with the same key, or for the audit that
\* won the race for it, which may have been purged with its event by then.
EveryCommandIsAnswered ==
    \A c \in Command : command[c].stage = "lookup" ~> command[c].stage = "done"

(***************************************************************************)
(* The inductive invariant: what every open transaction may rely on about  *)
(* the row it has locked, from which the safety properties follow.         *)
(***************************************************************************)

\* The publisher's row is waiting and not exhausted for as long as the lock is
\* held, and its outcome fits the attempts already counted on the row.
RelayRelies ==
    \A r \in Relay :
        /\ relay[r].stage # "idle" =>
            /\ lock[relay[r].event] = r
            /\ outbox[relay[r].event].status = "PENDING"
            /\ ~outbox[relay[r].event].exhausted
        /\ relay[r].appended \/ relay[r].outcome = "published" =>
            topic[relay[r].event] > 0
        /\ relay[r].stage # "idle" /\ relay[r].outcome # "over_limit" =>
            outbox[relay[r].event].attempts < limit[r]
        /\ relay[r].outcome = "retry" =>
            outbox[relay[r].event].attempts + 1 < limit[r]
        /\ relay[r].outcome = "over_limit" =>
            outbox[relay[r].event].attempts >= limit[r]

\* A command that has passed its check works on an exhausted event, and one
\* that has inserted its audit row is the only one with that key.
CommandRelies ==
    \A c \in Command :
        /\ InTransaction(c) =>
            /\ lock[command[c].event] = c
            /\ Exists(command[c].event)
        /\ command[c].stage \in {"insert", "commit"} => Recoverable(command[c].event)
        /\ command[c].stage = "commit" =>
            /\ audit[command[c].key] = NoAudit
            /\ ~KeyInDoubt(c)

\* The events of a batch stay published and old.
CleanerRelies ==
    \A w \in Cleaner :
        /\ cleaner[w].batch # {} => cleaner[w].open
        /\ \A e \in cleaner[w].batch : lock[e] = w /\ Expired(e)

\* A lock is held only by a transaction that works on the row.
LockRelies ==
    \A e \in Event :
        /\ lock[e] \in Relay =>
            relay[lock[e]].stage # "idle" /\ relay[lock[e]].event = e
        /\ lock[e] \in Command =>
            InTransaction(lock[e]) /\ command[lock[e]].event = e
        /\ lock[e] \in Cleaner => e \in cleaner[lock[e]].batch

\* The columns of a row fit each other.
RowsAreConsistent ==
    \A e \in Event :
        /\ ~Exists(e) => outbox[e].sequence = 0 /\ ~outbox[e].exhausted
        /\ outbox[e].exhausted =>
            outbox[e].status = "PENDING" /\ outbox[e].sequence > 0
        /\ outbox[e].status = "PENDING" /\ outbox[e].attempts > 0 => outbox[e].error
        /\ outbox[e].exhausted => outbox[e].attempts > 0
        /\ Exists(e) => payment[e] # "NONE"

\* Sends are counted on the row, except those of failed transactions and the
\* one in progress.
InProgress(e) ==
    lock[e] \in Relay /\ relay[lock[e]].outcome # "over_limit"

SendsAreAccounted ==
    \A e \in Event :
        /\ payment[e] = "NONE" => sends[e] = 0
        /\ Exists(e) =>
            sends[e] <= outbox[e].attempts + faults + (IF InProgress(e) THEN 1 ELSE 0)
        /\ \A n \in Limit : Greatest(n) =>
            outbox[e].attempts <= n /\ sends[e] <= n + faults

IInv ==
    /\ TypeOK
    /\ RelayRelies
    /\ CommandRelies
    /\ CleanerRelies
    /\ LockRelies
    /\ RowsAreConsistent
    /\ StatusAgrees
    /\ PublishedIsInTopic
    /\ EachExhaustionIsHandedOff
    /\ EachRecoveryIsAudited
    /\ SendsAreAccounted

(***************************************************************************)
(* The outbox, seen from outside.                                          *)
(***************************************************************************)

Delivered == {e \in Event : topic[e] > 0}

Parked == [e \in Event |-> {h.sequence : h \in handoff[e]}]

\* A recovery on record is an audit row.
Recoveries ==
    {[payment |-> audit[k].event, cycle |-> audit[k].cycle, key |-> k] :
        k \in {j \in RecoveryKey : audit[j] # NoAudit}}

Promised == INSTANCE ReliableOutbox
                WITH Payment <- Event, Key <- RecoveryKey, status <- payment,
                     delivered <- Delivered, parked <- Parked,
                     recoveries <- Recoveries

\* Relay, recovery and retention together keep their promise: every behaviour
\* of theirs, with all its transactions, locks and faults, is one of
\* ReliableOutbox, in which a payment moves in single steps and never without
\* its delivery, its handoff or its audit.
OutboxKeepsPromise == Promised!Promise

=============================================================================
