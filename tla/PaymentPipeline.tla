--------------------------- MODULE PaymentPipeline ---------------------------
(***************************************************************************)
(* A payment from the client's request to the ledger: payment creation,    *)
(* the outbox with its relay, recovery and retention, and the transaction  *)
(* service, over the database of the payment service and one partition of  *)
(* the topic.                                                              *)
(*                                                                         *)
(* The parts meet in two places.  The transaction that creates a payment   *)
(* inserts its outbox row, so its commit is a step of creation and of the  *)
(* outbox.  The record that the broker appends for a publisher is the one  *)
(* the consumer group is given, so that is a step of the outbox and of the *)
(* ledger.  All else is interleaved.                                       *)
(*                                                                         *)
(* The request that inserts a payment stands for the payment's id and for  *)
(* its outbox event.  Other producers are left to TransactionLedger.  Each *)
(* part counts its own failures.  The parts are taken with their proofs.   *)
(***************************************************************************)
EXTENDS Integers, Sequences, FiniteSets

CONSTANTS
    Request, Key, Body,                                  \* payment creation
    RecoveryKey, Actor, Relay, Command, Cleaner, Limit,  \* outbox
    Consumer, Attempts, MaxRecords,                      \* ledger
    MaxFaults, Nobody, Free, NoAudit, NoEvent, NoKey, NoActor

\* What the parts assume of the constants.
ASSUME CreationAssumption ==
    /\ Nobody \notin Request
    /\ IsFiniteSet(Request)
    /\ MaxFaults \in Nat

ASSUME OutboxAssumption ==
    /\ Request \subseteq Nat
    /\ Limit \subseteq Nat \ {0} /\ Limit # {}
    /\ Free \notin Relay \cup Command \cup Cleaner
    /\ Relay \cap Command = {}
    /\ Relay \cap Cleaner = {}
    /\ Command \cap Cleaner = {}
    /\ NoEvent \notin Request
    /\ NoKey \notin RecoveryKey
    /\ NoActor \notin Actor
    /\ NoAudit \notin [event: Request, actor: Actor, cycle: Nat, attempts: Nat,
                        command: Command]

ASSUME LedgerAssumption ==
    /\ Nobody \notin Consumer
    /\ Attempts \in Nat \ {0}
    /\ MaxRecords \in Nat

VARIABLES
    payment, request, creationFaults,
    outbox, status, handoff, audit, journal, lock, sends, relay, limit, appended,
    late, retries, scheduled, command, cleaner, outboxFaults,
    partition, ledger, duplicates, lost, committed, owner, consumer, skipped,
    groupFaults

\* The payments whose outbox event was committed: they have a status.
Created == {p \in Request : status[p] # "NONE"}

Creation == INSTANCE PaymentCreationProofs
    WITH event <- Created, faults <- creationFaults

Outbox == INSTANCE PaymentOutboxSafety
    WITH Event <- Request, payment <- status, topic <- appended, faults <- outboxFaults

Ledger == INSTANCE TransactionLedgerProofs
    WITH Payment <- Request, topic <- partition, faults <- groupFaults

creationVars == <<payment, Created, request, creationFaults>>

outboxVars ==
    <<outbox, status, handoff, audit, journal, lock, sends, relay, limit, appended,
      late, retries, scheduled, command, cleaner, outboxFaults>>

ledgerVars ==
    <<partition, ledger, duplicates, lost, committed, owner, consumer, skipped,
      groupFaults>>

vars == <<creationVars, outboxVars, ledgerVars>>

\* The record of a payment: its payload is written once, with the payment.
RecordOf(p) ==
    [valid |-> TRUE, event |-> [payment |-> p, body |-> payment[p].body]]

(***************************************************************************)
(* A request does anything but commit.                                     *)
(***************************************************************************)
ServeRequest ==
    /\ UNCHANGED <<outboxVars, ledgerVars>>
    /\ Creation!Next

(***************************************************************************)
(* The transaction of a request commits: payment and outbox row appear.    *)
(***************************************************************************)
CommitPayment(p) ==
    /\ UNCHANGED ledgerVars
    /\ Outbox!StoreStep(Outbox!CreatePayment(p))
    /\ Creation!Commit(p) \/ Creation!CommitUnheard(p)

(***************************************************************************)
(* Relay, recovery or retention do anything on their own.                  *)
(***************************************************************************)
RunOutbox ==
    /\ UNCHANGED <<ledgerVars, appended>>
    /\ Outbox!Next
    /\ UNCHANGED creationVars

(***************************************************************************)
(* The broker appends a record of payment p: one that a publisher waits    *)
(* for, or one that a publisher has given up on.                           *)
(***************************************************************************)
AppendRecord(p) ==
    /\ \/ \E r \in Relay :
            relay[r].event = p /\ Outbox!RelayStep(Outbox!BrokerAppends(r))
       \/ Outbox!RelayStep(Outbox!BrokerAppendsLate(p))
    /\ Ledger!Produce
    /\ partition' = Append(partition, RecordOf(p))
    /\ UNCHANGED creationVars

(***************************************************************************)
(* The transaction service does anything.                                  *)
(***************************************************************************)
RunLedger ==
    /\ UNCHANGED partition
    /\ Ledger!Next
    /\ UNCHANGED <<outboxVars, creationVars>>

Init == Outbox!Init /\ Creation!Init /\ Ledger!Init

Next ==
    \/ ServeRequest
    \/ RunOutbox
    \/ RunLedger
    \/ \E p \in Request : CommitPayment(p) \/ AppendRecord(p)

Spec == Init /\ [][Next]_vars

(***************************************************************************)
(* Fairness: that of the parts.  Nothing is assumed of the broker.         *)
(***************************************************************************)
RequestProceeds(r) ==
    \/ UNCHANGED <<outboxVars, ledgerVars>> /\ Creation!Proceeds(r)
    \/ CommitPayment(r)

OutboxStep(A) == UNCHANGED ledgerVars /\ A /\ UNCHANGED creationVars
LedgerStep(A) == A /\ UNCHANGED <<outboxVars, creationVars>>

Fairness ==
    /\ \A r \in Request : WF_vars(RequestProceeds(r))
    /\ \A r \in Relay : WF_vars(OutboxStep(Outbox!RelayProceeds(r)))
    /\ \A p \in Request :
        WF_vars(OutboxStep(Outbox!StoreStep(Outbox!DelayElapses(p))))
    /\ \A c \in Consumer : WF_vars(LedgerStep(Ledger!Proceeds(c)))
    /\ WF_vars(LedgerStep(\E c \in Consumer : Ledger!Assign(c)))

FairSpec == Spec /\ Fairness

(***************************************************************************)
(* Properties.                                                             *)
(***************************************************************************)

Accepted ==
    {[key |-> payment[p].key, body |-> payment[p].body] :
        p \in {q \in Request : payment[q].exists}}

BooksByKey ==
    [i \in DOMAIN ledger |->
        [key |-> payment[ledger[i].payment].key, body |-> ledger[i].body]]

Books == INSTANCE BookedPayments WITH accepted <- Accepted, books <- BooksByKey

\* From end to end: whatever is asked twice, raced, retried, sent again or
\* handled by two replicas, a key is booked at most once, as it was accepted.
BooksOnce == Books!BookOnce

RecordsOf(p) ==
    {o \in DOMAIN partition :
        partition[o].valid /\ partition[o].event.payment = p}

\* A published payment has records on the partition, and when the group is
\* past one that it did not give up on, the payment is in the ledger.
PublishedIsBooked ==
    \A p \in Request :
        status[p] = "PUBLISHED" =>
            /\ RecordsOf(p) # {}
            /\ \A o \in RecordsOf(p) :
                o <= committed /\ o \notin skipped => Ledger!Entries(p) # {}

\* What the relay produces never contradicts itself, however often it sends a
\* payment: a record is given up on only after as many failures as attempts.
SkipsNeedFailures == Attempts * Cardinality(skipped) <= groupFaults

\* An accepted payment reaches the ledger, unless its event is exhausted or
\* the group gives up on a record of it.
EveryPaymentArrives ==
    \A p \in Request :
        payment[p].exists ~>
            \/ Ledger!Entries(p) # {}
            \/ status[p] = "PUBLISH_EXHAUSTED"
            \/ RecordsOf(p) \cap skipped # {}

\* Every request that is received is answered.
EveryRequestIsAnswered == Creation!EveryRequestIsAnswered

(***************************************************************************)
(* The inductive invariant, on top of those of the parts.                  *)
(***************************************************************************)

\* Creation and outbox agree on which payments there are, and only those are
\* sent or still on their way to the broker.
OnlyPaymentsAreSent ==
    /\ \A r \in Relay :
        relay[r].stage # "idle" => relay[r].event \in Created
    /\ \A p \in Request : late[p] > 0 => p \in Created

\* What is on the partition is what was accepted.
RecordsAreOfPayments ==
    \A o \in DOMAIN partition :
        \E p \in Created : partition[o] = RecordOf(p)

\* What the relay believes to be in the topic is on the partition.
AppendedIsOnPartition ==
    \A p \in Request : appended[p] > 0 => RecordsOf(p) # {}

\* An entry is one of a payment, and says what the payment says.
EntriesAreOfPayments ==
    \A i \in DOMAIN ledger :
        /\ ledger[i].payment \in Created
        /\ ledger[i].body = payment[ledger[i].payment].body

LinkInv ==
    /\ OnlyPaymentsAreSent
    /\ RecordsAreOfPayments
    /\ AppendedIsOnPartition
    /\ EntriesAreOfPayments

=============================================================================
