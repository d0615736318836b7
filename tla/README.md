# FinBank payment outbox: TLA+ verification

This directory models the parts of FinBank in which things can go wrong
concurrently: the transactional outbox of the payment service with the
publisher that relays it to Kafka, the operator's recovery command and the
retention job; the idempotent creation of payments; the transaction ledger
that consumes the topic; the pipeline these three form, from a client's request
to the ledger; the pages a client reads while rows are written; the retry delay
at the width of a long; and the initializer of the API explorer page in the
browser's event loop. TLC checks the models on small instances; TLAPS proves
their inductive invariants and the main safety properties for every value of
the constants, and that payment creation, the outbox and the pipeline implement
abstract specifications.

## 1. The system

Three Spring Boot services share one MySQL server (a database each) and a Kafka
broker. Only the payment and the transaction service talk to each other, and
only through the topic `payments`.

| Component | State | Operations | Interacts with |
| --- | --- | --- | --- |
| Payment creation (`PaymentService`, `PaymentCreationTransaction`) | `payment`, `payment_outbox_event` | `create`, replay by idempotency key | inserts the outbox row the publisher finds |
| Publisher (`PaymentOutboxPublisher`, `PaymentOutboxScheduler`) | the outbox row, payment status, `..._dead_letter_handoff`; in memory a retry counter | `publishNext`, over and over | row locks; Kafka |
| Recovery command (`PaymentOutboxRecoveryService`, `...RecoveryTransaction`, `...RejectionAuditTransaction`) | the outbox row, payment status, `..._recovery_audit`, `..._recovery_rejection_audit` | `requeueExhausted` | row locks; the unique recovery key |
| Retention job (`PaymentOutboxRetentionTransaction`) | deletes from the four tables | `purgeExpired` | row locks |
| Transaction ledger (`PaymentEventListener`, `TransactionService`) | `transaction`; in memory a duplicate counter | `recordPaymentEvent`, reads | consumes the topic |
| Account service | `account` | create, read | nothing |
| Paged reads (all three services) | none | keyset pages | the tables |
| Operator access (`config/Payment*`) | none | request filters | stands before the recovery endpoint |
| Metrics | counters, a gauge | increments | publisher, ledger |
| API explorer page (`docs/javascripts/api-explorer.js`) | marks on elements, a promise, the global viewer | `renderExplorer`, `loadSwaggerUi`, its callbacks | the theme's navigation, the Swagger UI bundle |

What makes it hard:

* several replicas run the publisher and the retention job at the same time,
  and several operators send commands; they meet only in the row locks of
  `SELECT ... FOR UPDATE`, in unique indexes and in what is committed;
* the send to Kafka happens inside the database transaction and cannot be
  rolled back, nor can the retry counter, which is kept in memory and starts
  again at 0 with its process;
* a timeout of the send says nothing about the record, which may still be
  appended;
* every transaction may be rolled back or cut off by a crash at any point, and
  a restarted replica may come back with another attempt limit;
* the answer of a command may be lost, and the command repeated much later,
  when the event has been exhausted again or purged;
* ids are given out before commit, so rows appear out of the order of their ids
  to a client that reads by cursor;
* the explorer's page is replaced under the script while its bundle is loaded,
  and each of the browser's events may come before or after the others.

What makes each component correct:

* **publisher**: an event marked published is in the topic; a cycle sends no
  more often than the limit, faults aside; each exhaustion leaves one handoff
  row; payment status and outbox row agree; every payment settles;
* **recovery**: a cycle is re-armed by exactly one audited command; a replay
  re-arms nothing; what the operator is told is true; every command is answered;
* **retention**: only old published rows go, together with all that refers to
  them, and never under the hands of another transaction;
* **creation**: one payment per key, always with its event;
* **ledger**: one entry per payment, whatever is delivered twice;
* **pipeline**: what a client asks for, however often, is booked at most once,
  as it was accepted; what is published reaches the ledger;
* **paging**: a client that follows the links sees every row that was there,
  and none twice;
* **retry delay**: each wait is twice the one before, up to the bound;
* **explorer**: a visit is answered by one viewer or an error, the bundle is
  requested once, and a page left behind does not take the viewer.

The full list of hazards, each at its line and with the properties that cover
it, is in `PROJECT.json`.

## 2. Modules

| Module | Models | Extends |
| --- | --- | --- |
| `OutboxStore` | the tables, the entity methods on a row, the row locks, the predicates of the locking queries, creation, the passing of time | |
| `OutboxRelay` | `publishNext`, the broker, restarts | `OutboxStore` |
| `OutboxRecovery` | the recovery command and its journal | `OutboxStore` |
| `OutboxRetention` | `purgeExpired` | `OutboxStore` |
| `ReliableOutbox` | abstract: how a payment is delivered, published, parked, recovered and forgotten | |
| `PaymentOutbox` | the composition, fairness, all properties, the inductive invariant, the mapping to `ReliableOutbox` | the three above |
| `MCPaymentOutbox` | symmetry for TLC | `PaymentOutbox` |
| `PaymentOutboxProofs` | proof of the type invariant | `PaymentOutbox` |
| `PaymentOutboxSafety` | proof of the inductive invariant, of the safety properties and of the refinement | `PaymentOutboxProofs` |
| `IdempotentCreation` | abstract: what `POST /payments` promises to its clients | |
| `PaymentCreation` | `PaymentService.create` and its transaction, its properties, the mapping to `IdempotentCreation` | |
| `MCPaymentCreation` | symmetry for TLC | `PaymentCreation` |
| `PaymentCreationProofs` | its inductive invariant, safety properties and the refinement | `PaymentCreation` |
| `TransactionLedger` | the listener, `recordPaymentEvent`, the container and the consumer group, their properties | |
| `TransactionLedgerProofs` | its inductive invariants and safety properties | `TransactionLedger` |
| `BookedPayments` | abstract: a key is accepted once and booked at most once | |
| `PaymentPipeline` | creation, outbox and ledger together, end-to-end properties, the mapping to `BookedPayments` | instances of the three with their proofs |
| `PaymentPipelineProofs` | that the pipeline implements each part, its invariant, the refinement of `BookedPayments` | `PaymentPipeline` |
| `RetryBackoff` | `retryDelayFor` call by call, in the arithmetic of a long | |
| `MCRetryBackoff` | the powers of two for TLC | `RetryBackoff` |
| `RetryBackoffProofs` | its invariant, and that delays double | `RetryBackoff` |
| `CursorPaging` | keyset pages while rows are inserted, committed, rolled back and deleted | |
| `CursorPagingProofs` | its invariant and properties | `CursorPaging` |
| `ApiExplorer` | the explorer's initializer in the event loop | |
| `ApiExplorerProofs` | its invariant and safety properties | `ApiExplorer` |

Three models meet in two places, and `PaymentPipeline` joins them there.
`OutboxStore` takes the creation of a payment and its event as one step
(`CreatePayment`), which is what `EachPaymentHasItsEvent` shows of
`PaymentCreation`; in the pipeline that step is the commit of a request
(`CommitPayment`). The records that the relay appends, any number of times, are
among the ones `Produce` appends in `TransactionLedger`, which allows other
producers as well; in the pipeline every record is one the relay sent
(`AppendRecord`). Everything else the parts do is interleaved, and each part
counts its own failures.

### State and code

An outbox event is a number, its place in the order the claim query uses
(`createdAt`, then `id`); because `payment_id` is unique it also names its
payment. Columns that never change after the insert (topic, key, payload,
accounts, amount) are left out. Timestamps are kept as far as a query compares
them: `due` is `next_attempt_at <= now`, `aged` is `published_at < cutoff`,
`exhausted` is `exhausted_at is not null`. `lock` records which open
transaction holds the row lock of an event. Audits are kept by recovery key
(the unique index), handoffs by event, rejections by the command that was
refused.

`retries` is the retry counter of each replica. It is a Micrometer counter,
registered at 0 when the process starts (`PaymentBusinessMetrics`).
`sends` and `scheduled` are history variables: the sends of an event since it
was created or re-armed, and the retries whose scheduling was committed by each
replica since it started.

### Steps and code

A transaction becomes several steps exactly where another transaction, the
broker or a crash can get in between, and writes become visible at the commit:

* `publishNext` is `ClaimAndSend` (lock, send), the broker's `BrokerAppends`,
  then `Acknowledge` or `SendFails` (what `get` returns or throws, and what is
  written in memory), then `CommitOutcome`. A row over the limit goes through
  `ClaimOverLimit` and `CommitOutcome`. `TransactionFails` cuts any of this off
  in a process that goes on; `Restart` is a crash or a stop, at any of these
  points or between two calls, after which the replica may have another limit
  and its retry counter is 0.
  A record given up on may be appended later (`BrokerAppendsLate`) or be lost.
* `requeueExhausted` is `LookUpAudit` (outside a transaction), `LockEvent`,
  `CheckCommand` (second look, eligibility), `InsertAudit` (waits on an
  uncommitted row with the same key, fails on a committed one), and
  `CommitRecovery`; after a duplicate key `ReadRacedAudit`; after a refusal
  `JournalRejection` or `JournalFails`. `CommandFails` cuts any of this off,
  and `AnswerLost` loses a finished answer.
* `purgeExpired` is `LockBatch` and `CommitPurge`, or `PurgeFails`.

* `PaymentService.create` is `LookUp`, `InsertPayment` (waits on an uncommitted
  row with the same key, fails on a committed one), `InsertEvent`, `Commit`,
  and after a duplicate key `ReadRaced`. `Fails` cuts any of this off,
  `CommitUnheard` commits and loses the acknowledgement, `AnswerLost` loses the
  answer. A client that tries again is another request with the same key.
* `recordPaymentEvent` is `RejectMalformed` or `LookUp`, then `InsertEntry`
  (the repository's own transaction) and after a duplicate key `ReadRaced`.
  `DatabaseFails` and `InsertUnheard` make the listener throw. Around it the
  container's `Poll`, `Returns`, `Throws` and `CommitOffset`, and the group's
  `Evict`, `Crash` (which sets the duplicate counter of the replica back to 0)
  and `Assign`, follow Spring Kafka's and Kafka's defaults,
  because the service configures none of them: a batch is committed as a whole,
  a throwing record is delivered again a bounded number of times and then
  skipped, and an evicted replica finishes its batch before it notices.

* `retryDelayFor` is `RetryDelayFor`, then `Double` per turn of the loop, and
  `ReturnBound` or `ReturnDelay`. `Wrapped` is the overflow of a long. The call
  knows only the number of the attempt, so the model starts it anew each time
  and keeps what the calls of a cycle returned. The policy is fixed while a
  cycle lasts.
* A paged read is `Begin`, then `ReadPage` or `ReadNothing` per request, and
  `LookForMore` by a client that comes back with the cursor. A page is one
  query: the next rows by id, as many as fit, with one more selected to know
  whether there is a next page. Writers are `Insert` (which takes the id),
  `Commit`, `Rollback` and, for handoffs, `Delete`. Accounts, payments,
  transactions, the history of an account and the handoffs share this shape;
  `AccountService.create` is one of the writers.
* The explorer's script is `Start`, its call `RenderExplorer`, its promise
  `LoadSwaggerUi`, and its callbacks the jobs `RunThen`, `RunPass` and
  `RunCatch`, each of which runs alone. `Parsed`, `DOMContentLoaded`,
  `Navigate`, `ScriptLoads` and `ScriptFails` are the browser and the theme;
  `Intercept` is the viewer's request interceptor.

A payment id is represented by the request that inserted it, for a request
inserts at most once. Accounts and amount are one value, `Body`, compared as
`sameRequest` and `sameBusinessEvent` compare them (amounts by value, not by
scale). Ledger entries are a sequence in the order of their ids. `duplicates` is
the counter of each replica, in memory like the retry counter
(`TransactionBusinessMetrics`). `skipped` and `lost` are history variables: the
offsets the container gave up on, and what the counters held when their
replicas crashed.

The claim query does not skip locked rows (there is no `SKIP LOCKED`), so while
the first due row is locked nothing is claimed: `FirstClaimable` says so. A
locking read returns what is committed when it gets the lock, which is how
MySQL/InnoDB, the production database of the repository, reads; the claim's
decision and its lock are therefore one step.

### Bounds

In the outbox, `MaxFaults` bounds rollbacks, crashes, restarts and lost answers in one
behaviour; the events, commands and keys of a run are finite. Attempts,
exhaustion sequences, sends and topic records need no bound of their own: an
event is sent at most `Limit` times per cycle, a cycle ends by a command, and
commands are finite. In `PaymentCreation` and `TransactionLedger`, `MaxFaults`
bounds failures, evictions, crashes and lost answers, and `MaxRecords` the
records of the partition. `Attempts`, 10 by default in Spring Kafka, is 2 in
`ledger` and 1 in `pipeline`. `RetryBackoff` bounds the failed attempts of a cycle by `Attempts`;
`MaxLong` is 31 in its run, so that all policies are tried and the doublings
pass the largest long within `Cap`, as 63 of them do with a real long.
`CursorPaging` bounds the rows by `MaxId`, the explorer its pages by the
elements in `Root`. The pipeline's own bounds are those of its parts. The proofs
hold for every value of these bounds.

## 3. What is checked

| Run | Instance | States | Shows |
| --- | --- | --- | --- |
| `relay` | 2 events, 2 replicas, limits {1, 2}, 1 fault, fair | 0.2 M | `StatusAgrees`, `PublishedIsInTopic`, `EachExhaustionIsHandedOff`, `SendsAreBounded`, `RetryCounterIsClose`, `EveryPaymentSettles` |
| `recovery` | 1 event, 3 commands, 2 keys, 2 actors, 1 replica, 1 cleaner, 1 fault | 1.5 M (symmetric) | `IInv`, `RecoveredMeansAudited`, `RefusedMeansJournalled`, `LockIsHeldByItsOwner` |
| `purge` | 2 events, 2 commands, 2 keys, 1 replica, 1 cleaner, 1 fault | 2.3 M (symmetric) | `EachRecoveryIsAudited`, `PublishedIsFinal`, `OutboxKeepsPromise` |
| `settle` | 1 event, 2 commands with one key, limits {1, 2}, 1 fault, fair | 0.3 M | `EveryRecoverySettles` |
| `answer` | 2 events, 2 commands with one key, 1 replica, 1 cleaner, limit 1, no faults, fair | 0.3 M | `EveryCommandIsAnswered` |
| `retry_counter` | 1 event, limit 2, 1 fault | small | expected violation of `RetryCounterIsExact` |
| `creation` | 4 requests, 2 keys, 2 bodies, 2 faults | 17 k (symmetric) | `OnePaymentPerKey`, `EachPaymentHasItsEvent`, `AnswersAreTrue`, `ErrorsNeedFaults`, `KeepsPromise` |
| `ledger` | 1 payment, 2 bodies, 2 replicas, 3 records, 2 attempts, 3 faults, fair | 0.6 M | `OneEntryPerPayment`, `NothingIsPassedOver`, `SkippedForAReason`, `FirstRecordIsBooked`, `DuplicatesAreCounted`, `EveryRecordIsPassed` |
| `pipeline` | 2 requests with one key, 2 bodies, 1 publisher with limit 1, 1 consumer with 1 attempt, 2 records, 1 fault per part, fair | 0.2 M | `PublishedIsBooked`, `SkipsNeedFailures`, `LinkInv`, `BooksOnce`, `EveryPaymentArrives`, `EveryRequestIsAnswered` |
| `backoff` | every policy of 6-bit longs, 8 failed attempts | 11 k | `DelaysDouble` |
| `paging` | 5 rows, 1 account, pages of 1 or 2 | 4.4 M | `RepeatsNothing`, `OnlyLateRowsAreMissed`, `WalkIsComplete` |
| `explorer` | 3 explorer pages, 2 addresses, fair | 19 k | `RenderedOnce`, `BundleIsRequestedOnce`, `ViewerIsOfThePage`, `EveryVisitIsAnswered` |

Two events in `relay` let one wait behind another that is being sent or is due
again after a failure: the claim query prefers the oldest and skips no lock, and
`EveryPaymentSettles` shows that the one behind still gets its turn. Two replicas
are needed for the races of the publisher and two limits for the branch of a
lowered limit. Two commands and two events are needed for one key on two events;
a third command allows a replay after a later exhaustion. Each fault shows what
one more rollback or restart does; how they add up is left to the theorems, in
which `MaxFaults` is any number.

`relay` has no commands, so its exhaustions are the first of their events;
`EachExhaustionIsHandedOff` is a conjunct of `IInv`, which `recovery` checks
where events are exhausted again. `answer` has two events because two commands
on one event wait for its row lock and never for each other's key: with two,
one waits in `InsertAudit` until the other's key is committed, hits the
duplicate key, and reads an audit that the cleaner may have purged. It has no
faults: that each failed transaction frees its lock is `LockIsHeldByItsOwner`.

Four requests let a third one wait for a key while two race for it and one
fails. Three faults let a replica be evicted and the other one use up the
attempts on the same record; three records let an exact replay follow a
conflict. One payment is enough there, since entries of different payments
never meet; the theorems hold for any number. In `pipeline` two requests with
one key may race or replay, one fault makes the relay send a second record, and
another one makes the group handle a record twice or give up on it. With one
attempt and the limit 1 it reaches skips and exhaustions, but no scheduled
retry and no redelivery after a throw: `relay` and `ledger` have those part by
part, and `NoSkipWithoutFailures` states for every number of attempts that a
skip took as many failures. Five rows let one be late, one deleted and one
rolled back around pages of two. Three pages let a visitor leave two elements
behind while the bundle is loaded.

`CHECK_DEADLOCK FALSE` is set where payments, commands, requests, records, pages
or attempts are finite in number, so that a run of the model ends; in `paging`
the client may always look again, and deadlock is checked.

Symmetry is used for replicas, commands, cleaners, keys and actors, which are
only compared, and for the values of creation; not for events, which
are ordered, and never where liveness is checked.

**Fairness.** `FairSpec` assumes that the scheduler of each replica goes on
(`fixedDelay` calls `publishNext` again after each call, and the wait in it is
bounded by the send timeout), that a request thread goes on, that a started
purge ends and that retry delays elapse. It assumes nothing of the broker,
which may never take a record, nor of operators, clients and the start of a
purge. Weak fairness is enough: locks are freed by fair steps. The fairness of
`PaymentCreation` is that of its request threads; the fairness of
`TransactionLedger` says that container threads go on and that the group gives
a partition without owner to a replica that polls. The pipeline has the fairness
of its parts. The explorer's says that the event loop goes on, that parsing ends
and that the browser ends each load with one of its two events; visitors need
not navigate.

**Finding.** `docs/observability.md:74` defines the retry counter as the
retries that were scheduled. The code counts inside the transaction, before the
commit (`PaymentOutboxPublisher.java:152`), so a rolled-back transaction leaves
a counted retry that was never scheduled. `RetryCounterIsClose` says what does
hold within the life of a process: its counter misses nothing and is ahead by at
most the faults. Over a restart nothing is claimed, for the counter is then 0.

## 4. What is proved

From the assumptions on the constants stated in `OutboxStore` (events are
numbers, limits are positive, the processes are distinct, the null values are
not values), for every value of them:

* `TypeCorrect`: `Spec => []TypeOK`.
* `InvariantHolds`: `Spec => []IInv`, and from it `StatusNeverDisagrees`,
  `NothingPublishedIsLost`, `HandoffIsComplete`, `AuditIsComplete`,
  `SendsNeverExceed` and `LocksAreNotLeaked`.
* The action properties `PublishedNeverReturns` and `RecoveryAloneRearms`, from
  `IInv` and a lemma on who writes a row (`RowsAreWrittenBy`).
* `RetriesAreCounted`, for each replica since it started: its counter is what it
  has scheduled, one more if a retry is counted and not committed (`InDoubt`), and
  one more per failed transaction. `OthersCountNothing` is the frame: a step of one
  replica leaves the counters of the others.
* `RecoveriesAreAudited` and `RefusalsAreJournalled`, what operators were told.
  Their strengthening, `AnswersInv`, says that a command that was told a result
  does no more, that one with an audit was not refused, and that the event of a
  recovered one exists or existed, so that a purged row is not mistaken for one
  that is yet to come.
* `OutboxIsReliable`, the refinement: the statuses of payments, the payments with
  a record in the topic, the numbers of the handoffs and the audits, seen
  together, behave as `ReliableOutbox` says, which has no threads, locks,
  transactions or faults. Each commit is one of its steps, each first append of a
  record is another, and everything else a stutter. Besides `IInv` it needs
  `SentArePayments`, that a record still on its way is one of a payment.

The argument. None of the properties is inductive alone: that a commit keeps
payment and row in agreement depends on the row being as the transaction saw it
when it took the lock. So the invariant says what each open transaction may
rely on (`RelayRelies`: its row is pending, not exhausted, and its count of
attempts fits the outcome; `CommandRelies`: its event is still recoverable and
its key unused; `CleanerRelies`: its batch is still published and old), and
that a lock has exactly one owner that works on the row (`LockRelies`). A step
of one transaction cannot disturb what another relies on, because the row it
changes is locked by itself (`LockExcludes`). `RowsAreConsistent` ties the
columns of a row to each other, and `SendsAreAccounted` counts the sends on the
row, apart from one in progress and those of failed transactions.

The proof has one lemma per action or per group of like actions, each proving
the parts of the invariant the action can disturb; frame lemmas carry the rest
(`ThreadFrames`, `TableFrames`, `OtherLocksFrame`).

For `PaymentCreation`: `CreationInvariant` (`Spec => []IInv`), and from it
`KeysAreUnique`, `PairsAreWhole`, `ClientsAreToldTheTruth` and
`RacesAreNoErrors`. The strengthening is `KeysInDoubtAreFree`: a key inserted by
an open transaction is in no other open one and in no committed payment, which
is what the wait in `InsertPayment` achieves and a commit relies on; and
`RacedKeysAreTaken`, which rules out the branch of `createAtomically` that
throws the violation again. `PromiseIsKept` is the refinement: the owner of a
key is the committed payment readers find, and each step maps to one of
`IdempotentCreation` or to a stutter. Finiteness of `Request` is assumed, for
the count in `ErrorsNeedFaults`.

For `TransactionLedger`: `LedgerInvariant`, and from it `EntriesAreUnique`,
`NoRecordIsLost` and `FirstRecordWins`. The strengthening is `HandledIsBooked`:
every offset a replica has been through, evicted or not, is booked or given up
on. It is what allows the offset commit, and also why a replica that inserts the
first entry of a payment has no earlier contradicting record to fear. The
lemmas separate what one replica relies on (`Sound`) from the tables, so that a
step is proved for the replica that takes it and framed for the others.

What is counted there needs an invariant of its own, `CountInv`, proved in
`CountsHold` on top of `IInv`; `SkipsHaveReasons` and `DuplicatesAddUp` follow.
Failures belong to no record, so it says which ones are used up and for what:

* `TriesAreFailures`. A failed try is a pair of a replica and a number up to its
  `tries`; only those at a record that is neither malformed nor conflicting count
  (`FailedTries`). Each of them is a failure, and a skipped record without blame
  stands for `Attempts` more. A record that is to blame stays so, because entries
  never change.
* `PassedIsCounted`. Each record that any replica has passed with success has
  made an entry or was counted by the replica that accepted it as a duplicate.
  What is counted (`CountedEver`) is what the counters show and what crashes have
  set back to 0 (`lost`). It gives the lower bound of `DuplicatesAreCounted`: the
  counters themselves fall short by what was lost, and by nothing else.
* `CountersAreFinite`. The counters of all replicas can be added up, because only
  finitely many have accepted a replay; `CountersGrow` and `CountersLost` say what
  a replay and a crash do to the sum.
* `CountedIsPassed`. Each entry or duplicate is paid for: by a step of the owner
  of the partition, by the batch that a replica had left when it was evicted
  (`Leftover`), or by a failure, which is worth the length of the topic. It gives
  the upper bound, which is why that has a factor and not a summand.

That the sets counted are finite is part of the invariant and not assumed of the
constants: each step adds finitely many pairs, those of one batch.

For `PaymentPipeline`, which takes its parts with their proofs: `CreationRuns`,
`OutboxRuns` and `LedgerRuns` show that every behaviour of the pipeline is one of
each part, so that all that is proved of the parts holds in it. `LinksHold` is
the invariant on top: only payments that were committed are sent, every record
on the partition is one of a payment and says what the payment says, and so does
every entry. From it follow `PublishedGetsBooked`; `NoSkipWithoutFailures`, because a
record of the relay is neither malformed nor conflicting, which turns
`SkippedForAReason` into `SkipsNeedFailures`; and `PipelineBooksOnce`, the
refinement of `BookedPayments`: the accepted pairs of key and body are the
committed payments, the books the ledger's entries.

For `RetryBackoff`: `BackoffInvariant` and `DelaysAlwaysDouble`, for every width
of a long, every policy that `validatePolicy` accepts and every number of
attempts. The invariant says that the loop goes through the delays that earlier
calls returned, and that delays are at least powers of two until they reach the
bound. `CapAssumption` is the arithmetic fact it needs: as many doublings as one
call may do take 1 past the largest long, as 63 do with 64 bits.

For `CursorPaging`: `PagingInvariant`, `PagesNeverRepeat`, `OnlyLateRows` and
`WalksAreComplete`. For `ApiExplorer`: `ExplorerInvariant`, `NoSecondViewer`,
`NoSecondRequest` and `ViewerIsNeverStale`; each element has at most one chain of
callbacks, and one that is marked and on the page is rendered or has its chain.

Only model-checked are the seven liveness properties, `EveryPaymentSettles`,
`EveryRecoverySettles`, `EveryCommandIsAnswered`, `EveryRecordIsPassed`,
`EveryPaymentArrives`, `EveryRequestIsAnswered` and `EveryVisitIsAnswered`, which
are out of the prover's reach. Every invariant, action property and refinement
that a passing run checks is stated by a theorem. Proved and in no run are the
invariants `IInv` of `PaymentCreation`, `TransactionLedger`, `RetryBackoff`,
`CursorPaging` and `ApiExplorer`, `CountInv` of the ledger, and
`OnlyRecoveryRearms`, of which `OutboxKeepsPromise` says most.

## 5. Not modelled

* Operator access, the authentication and transport filters of the operator
  endpoints: each compares values of one request with the configuration, keeps
  no state and meets no other component.
* Rendering of answers and errors (`Ledger and account HTTP errors`), validation
  of headers and arguments, logging, and the stuck-event gauge, a query without
  effect.
* The batch size of the publisher scheduler and its look at the interrupt flag,
  which only delay a call of `publishNext`; the batch sizes of the retention job.
* More than one partition: the records of one payment have one key and so one
  partition, and what the ledger does about one payment depends on no other.
* In the pipeline, other producers, which `TransactionLedger` has; recovery and
  retention are in its specification and its proofs, but not in its run, which
  would be too large.
* A change of the retry policy between two attempts of one cycle.
* The stylesheets and texts of the explorer page, the vendored Swagger UI
  bundle, which is an external actor, the documentation site, dashboards,
  Kubernetes and Compose manifests.
* MySQL deadlock detection and lock-wait timeouts appear only as failures of a
  transaction (`CommandFails`, `TransactionFails`, `PurgeFails`).

## 6. Order of work

1 `OutboxStore`, 2 `OutboxRelay`, 3 `OutboxRecovery`, 4 `OutboxRetention`,
5 `PaymentOutbox` with its runs, 6 its proofs, 7 `PaymentCreation` with the
abstract `IdempotentCreation`, 8 `TransactionLedger`, 9 `PaymentPipeline` with
the abstract `BookedPayments`, 10 `RetryBackoff`, 11 `CursorPaging`,
12 `ApiExplorer`, 13 the theorems on what operators are told, on the retry
counter and on single steps of the outbox, 14 the counts of ledger and pipeline,
15 the refinement of `ReliableOutbox`. All of it is done.
