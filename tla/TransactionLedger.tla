------------------------- MODULE TransactionLedger -------------------------
(***************************************************************************)
(* The transaction service: PaymentEventListener and                       *)
(* TransactionService.recordPaymentEvent, on one partition of the topic.   *)
(*                                                                         *)
(* Replicas form a consumer group.  The container of the owner polls a     *)
(* batch, hands its records to the listener one by one and commits the     *)
(* offset.  A replica that was too slow loses the partition but finishes   *)
(* its batch, so two replicas can work on the same record.  The listener   *)
(* looks for a ledger entry of the payment, inserts one if there is none,  *)
(* and looks again if the unique index refuses it.  The repository's       *)
(* saveAndFlush is a transaction of its own.                               *)
(*                                                                         *)
(* The container and the group are Spring's and Kafka's, with their        *)
(* defaults: a record whose listener throws is delivered again, Attempts   *)
(* times in all, and is then skipped.                                      *)
(***************************************************************************)
EXTENDS Integers, Sequences, FiniteSets

CONSTANTS Payment,     \* payment ids
          Body,        \* accounts and amount, as sameBusinessEvent compares them
          Consumer,    \* replicas of the transaction service
          Nobody,      \* no replica
          Attempts,    \* deliveries of a record before it is skipped
          MaxRecords,  \* bound on the records of the partition
          MaxFaults    \* bound on failures of one behaviour

ASSUME NobodyAssumption == Nobody \notin Consumer

ASSUME BoundsAssumption ==
    /\ Attempts \in Nat \ {0}
    /\ MaxRecords \in Nat
    /\ MaxFaults \in Nat

VARIABLES topic,       \* records of the partition, first one at offset 1
          ledger,      \* entries in the order of their ids
          duplicates,  \* the duplicate counter of each replica, kept in its
                       \* process and registered at 0 when it starts
          lost,        \* history: what the counters held at the crashes of
                       \* their replicas
          committed,   \* offset up to which the group has committed
          owner,       \* replica the partition is assigned to
          consumer,    \* what each replica is doing
          skipped,     \* history: offsets the container gave up on
          faults       \* failures so far

vars ==
    <<topic, ledger, duplicates, lost, committed, owner, consumer, skipped, faults>>

Event == [payment: Payment, body: Body]

\* A payload that parse refuses, and one that it turns into an event.
Malformed == [valid |-> FALSE]

Payload == {Malformed} \cup [valid: {TRUE}, event: Event]

\* A replica has handled the records up to position, of a batch that ends at
\* upto, and the record after position has failed tries times.  Its stage:
\*   "idle"    between records       "insert"  no entry found
\*   "reread"  the insert hit a duplicate key and was rolled back
ConsumerState == [stage: {"idle", "insert", "reread"}, position: Nat,
                  upto: Nat, tries: Nat]

Started == [stage |-> "idle", position |-> 0, upto |-> 0, tries |-> 0]

At(c, stage) == consumer[c].stage = stage

AtRest(c) == At(c, "idle") /\ consumer[c].position = consumer[c].upto

\* A record has been polled that the listener has not been called with.
HasNext(c) == At(c, "idle") /\ consumer[c].position < consumer[c].upto

Offset(c) == consumer[c].position + 1

Current(c) == topic[Offset(c)].event

\* The entries of a payment.
Entries(p) == {i \in DOMAIN ledger : ledger[i].payment = p}

GoTo(c, stage) == consumer' = [consumer EXCEPT ![c].stage = stage]

Fault ==
    /\ faults < MaxFaults
    /\ faults' = faults + 1

\* The listener returns: on to the next record of the batch.
Returns(c) ==
    /\ consumer' = [consumer EXCEPT ![c].stage = "idle", ![c].tries = 0,
                                    ![c].position = @ + 1]
    /\ UNCHANGED skipped

(***************************************************************************)
(* The listener throws: the container ends the batch and polls the record  *)
(* again, or skips it after the last attempt.                              *)
(***************************************************************************)
Throws(c) ==
    IF consumer[c].tries + 1 < Attempts
    THEN /\ consumer' = [consumer EXCEPT ![c].stage = "idle",
                                         ![c].tries = @ + 1,
                                         ![c].upto = consumer[c].position]
         /\ UNCHANGED skipped
    ELSE /\ consumer' = [consumer EXCEPT ![c].stage = "idle",
                                         ![c].tries = 0,
                                         ![c].position = Offset(c),
                                         ![c].upto = Offset(c)]
         /\ skipped' = skipped \cup {Offset(c)}

\* Mutants of SameBusinessEvent: the data is not compared; equal amounts of
\* another scale are told apart.
SameBusinessEventAnyway(c, i) == TRUE
SameBusinessEventNever(c, i) == FALSE

SameBusinessEvent(c, i) == ledger[i].body = Current(c).body

\* Mutant of AcceptReplay: the replay is not counted.
AcceptReplayUncounted(c, i) ==
    /\ IF SameBusinessEvent(c, i) THEN Returns(c) ELSE Throws(c)
    /\ UNCHANGED duplicates

\* An exact replay is counted and accepted, anything else is a conflict.
AcceptReplay(c, i) ==
    IF SameBusinessEvent(c, i)
    THEN Returns(c) /\ duplicates' = [duplicates EXCEPT ![c] = @ + 1]
    ELSE Throws(c) /\ UNCHANGED duplicates

(***************************************************************************)
(* The relay, or any other producer, appends a record.                     *)
(***************************************************************************)
Produce ==
    /\ Len(topic) < MaxRecords
    /\ \E payload \in Payload : topic' = Append(topic, payload)
    /\ UNCHANGED <<ledger, duplicates, lost, committed, owner, consumer, skipped, faults>>

(***************************************************************************)
(* The container polls once the last batch is committed.                   *)
(***************************************************************************)
Poll(c) ==
    /\ owner = c
    /\ AtRest(c)
    /\ consumer[c].position = committed
    /\ committed < Len(topic)
    /\ consumer' = [consumer EXCEPT ![c].upto = Len(topic)]
    /\ UNCHANGED <<topic, ledger, duplicates, lost, committed, owner, skipped, faults>>

(***************************************************************************)
(* recordPaymentEvent: parse the payload.                                  *)
(***************************************************************************)
RejectMalformed(c) ==
    /\ HasNext(c)
    /\ ~topic[Offset(c)].valid
    /\ Throws(c)
    /\ UNCHANGED <<topic, ledger, duplicates, lost, committed, owner, faults>>

(***************************************************************************)
(* recordPaymentEvent: look for the payment's entry.                       *)
(***************************************************************************)
LookUp(c) ==
    /\ HasNext(c)
    /\ topic[Offset(c)].valid
    /\ \/ /\ Entries(Current(c).payment) = {}
          /\ GoTo(c, "insert")
          /\ UNCHANGED <<duplicates, skipped>>
       \/ \E i \in Entries(Current(c).payment) : AcceptReplay(c, i)
    /\ UNCHANGED <<topic, ledger, lost, committed, owner, faults>>

\* Mutant of InsertEntry: there is no unique index on the payment.
InsertEntryUnchecked(c) ==
    /\ At(c, "insert")
    /\ ledger' = Append(ledger, Current(c))
    /\ Returns(c)
    /\ UNCHANGED <<topic, duplicates, lost, committed, owner, faults>>

(***************************************************************************)
(* persist: insert the entry; the unique index refuses a second one.       *)
(***************************************************************************)
InsertEntry(c) ==
    /\ At(c, "insert")
    /\ IF Entries(Current(c).payment) = {}
       THEN Returns(c) /\ ledger' = Append(ledger, Current(c))
       ELSE GoTo(c, "reread") /\ UNCHANGED <<ledger, skipped>>
    /\ UNCHANGED <<topic, duplicates, lost, committed, owner, faults>>

\* The insert is committed, but its acknowledgement does not arrive.
InsertUnheard(c) ==
    /\ At(c, "insert")
    /\ Entries(Current(c).payment) = {}
    /\ Fault
    /\ ledger' = Append(ledger, Current(c))
    /\ Throws(c)
    /\ UNCHANGED <<topic, duplicates, lost, committed, owner>>

\* Mutant of ReadRaced: the insert is tried again instead of the look.
ReadRacedRetries(c) ==
    /\ At(c, "reread")
    /\ GoTo(c, "insert")
    /\ UNCHANGED <<topic, ledger, duplicates, lost, committed, owner, skipped, faults>>

(***************************************************************************)
(* persist, after the duplicate key: accept the entry of the winner.  An   *)
(* entry is never deleted, so it is found.                                 *)
(***************************************************************************)
ReadRaced(c) ==
    /\ At(c, "reread")
    /\ \E i \in Entries(Current(c).payment) : AcceptReplay(c, i)
    /\ UNCHANGED <<topic, ledger, lost, committed, owner, faults>>

\* Mutant of DatabaseFails: the listener catches what its statements throw.
DatabaseFailsUnnoticed(c) ==
    /\ \/ HasNext(c) /\ topic[Offset(c)].valid
       \/ At(c, "insert")
       \/ At(c, "reread")
    /\ Fault
    /\ Returns(c)
    /\ UNCHANGED <<topic, ledger, duplicates, lost, committed, owner>>

\* A statement of the listener fails, and nothing of it is committed.
DatabaseFails(c) ==
    /\ \/ HasNext(c) /\ topic[Offset(c)].valid
       \/ At(c, "insert")
       \/ At(c, "reread")
    /\ Fault
    /\ Throws(c)
    /\ UNCHANGED <<topic, ledger, duplicates, lost, committed, owner>>

(***************************************************************************)
(* The container commits the offset at the end of a batch.                 *)
(***************************************************************************)
CommitOffset(c) ==
    /\ owner = c
    /\ AtRest(c)
    /\ committed < consumer[c].position
    /\ committed' = consumer[c].position
    /\ UNCHANGED <<topic, ledger, duplicates, lost, owner, consumer, skipped, faults>>

(***************************************************************************)
(* The group takes the partition from its owner, who was too slow to poll  *)
(* and will only notice at the next poll.                                  *)
(***************************************************************************)
Evict ==
    /\ owner # Nobody
    /\ Fault
    /\ owner' = Nobody
    /\ UNCHANGED <<topic, ledger, duplicates, lost, committed, consumer, skipped>>

\* A replica crashes and restarts: what it had open is rolled back, and its
\* counter starts again at 0.
Crash(c) ==
    /\ Fault
    /\ consumer' = [consumer EXCEPT ![c] = Started]
    /\ owner' = IF owner = c THEN Nobody ELSE owner
    /\ duplicates' = [duplicates EXCEPT ![c] = 0]
    /\ lost' = lost + duplicates[c]
    /\ UNCHANGED <<topic, ledger, committed, skipped>>

(***************************************************************************)
(* The group gives the partition to a replica that polls.  It starts at    *)
(* the committed offset.  The container may remember how often the record  *)
(* there has failed.                                                       *)
(***************************************************************************)
Assign(c) ==
    /\ owner = Nobody
    /\ AtRest(c)
    /\ \E tries \in {0, consumer[c].tries} :
        /\ consumer[c].position # committed => tries = 0
        /\ consumer' = [consumer EXCEPT ![c] = [stage    |-> "idle",
                                                position |-> committed,
                                                upto     |-> committed,
                                                tries    |-> tries]]
    /\ owner' = c
    /\ UNCHANGED <<topic, ledger, duplicates, lost, committed, skipped, faults>>

\* auto-offset-reset is earliest: the group starts at the first record.
Init ==
    /\ topic = <<>>
    /\ ledger = <<>>
    /\ duplicates = [c \in Consumer |-> 0]
    /\ lost = 0
    /\ committed = 0
    /\ owner = Nobody
    /\ consumer = [c \in Consumer |-> Started]
    /\ skipped = {}
    /\ faults = 0

\* What a container thread does by itself.
Proceeds(c) ==
    \/ Poll(c)
    \/ RejectMalformed(c)
    \/ LookUp(c)
    \/ InsertEntry(c)
    \/ ReadRaced(c)
    \/ CommitOffset(c)

Next ==
    \/ Produce
    \/ Evict
    \/ \E c \in Consumer :
        \/ Proceeds(c)
        \/ InsertUnheard(c)
        \/ DatabaseFails(c)
        \/ Crash(c)
        \/ Assign(c)

Spec == Init /\ [][Next]_vars

\* Container threads go on, and the group finds an owner among the replicas.
Fairness ==
    /\ \A c \in Consumer : WF_vars(Proceeds(c))
    /\ WF_vars(\E c \in Consumer : Assign(c))

FairSpec == Spec /\ Fairness

(***************************************************************************)
(* Properties.                                                             *)
(***************************************************************************)

\* Every variable has its type.
TypeOK ==
    /\ topic \in Seq(Payload)
    /\ ledger \in Seq(Event)
    /\ duplicates \in [Consumer -> Nat]
    /\ lost \in Nat
    /\ committed \in Nat
    /\ owner \in Consumer \cup {Nobody}
    /\ consumer \in [Consumer -> ConsumerState]
    /\ skipped \subseteq Nat
    /\ faults \in 0..MaxFaults

\* TransactionService.persist: a payment has one ledger entry, whatever is
\* delivered twice and to whichever replicas.
OneEntryPerPayment ==
    \A i, j \in DOMAIN ledger : ledger[i].payment = ledger[j].payment => i = j

\* The ledger has exactly the event of the record at offset o.
Booked(o) ==
    /\ topic[o].valid
    /\ \E i \in DOMAIN ledger : ledger[i] = topic[o].event

\* PaymentEventListener.consume: a record the group has moved past is in the
\* ledger, as it stands, unless the container has given up on it.
NothingIsPassedOver == \A o \in 1..committed : o \in skipped \/ Booked(o)

\* The record at offset o contradicts the entry of its payment.
Conflicting(o) ==
    /\ topic[o].valid
    /\ \E i \in DOMAIN ledger :
        /\ ledger[i].payment = topic[o].event.payment
        /\ ledger[i] # topic[o].event

\* The listener has no reason of its own to refuse the record at offset o.
Blameless(o) == topic[o].valid /\ ~Conflicting(o)

BlamelessSkips == {o \in skipped : Blameless(o)}

\* TransactionService.acceptReplay: a record is given up on because it is
\* malformed, because it conflicts, or because of a failure on every attempt;
\* a replay or a lost race is not enough.
SkippedForAReason == Attempts * Cardinality(BlamelessSkips) <= faults

\* recordPaymentEvent: of contradicting records the first one is booked, if
\* the container has not given up on it.
FirstRecordIsBooked ==
    \A i \in DOMAIN ledger : \E o \in DOMAIN topic :
        /\ topic[o].valid
        /\ topic[o].event = ledger[i]
        /\ \A before \in 1..(o - 1) :
            /\ topic[before].valid
            /\ topic[before].event.payment = ledger[i].payment
            /\ topic[before].event # ledger[i]
            => before \in skipped

\* How far the owner of the partition is, or where the next one will start.
Position == IF owner = Nobody THEN committed ELSE consumer[owner].position

\* The records that the owner of the partition has been through.
Handled == (1..Position) \ skipped

\* What the counters of the running replicas show.
Counted == UNION {{c} \X (1..duplicates[c]) : c \in Consumer}

\* What they would show had no replica crashed.
CountedEver == Cardinality(Counted) + lost

\* The duplicate counters have every accepted record that made no entry, but
\* for what a crash has set to 0.  They have more only as far as a failure had
\* records delivered again.
DuplicatesAreCounted ==
    LET unbooked == Cardinality(Handled) - Len(ledger)
    IN  /\ unbooked <= CountedEver
        /\ CountedEver <= unbooked + faults * Len(topic)

\* No record, however malformed or conflicting, holds up the partition.
EveryRecordIsPassed ==
    \A o \in 1..MaxRecords : Len(topic) >= o ~> committed >= o

(***************************************************************************)
(* The inductive invariant.                                                *)
(***************************************************************************)

\* A batch lies in the topic, and the listener has been called with a record
\* of it that could be parsed.
BatchesAreInTopic ==
    \A c \in Consumer :
        /\ consumer[c].position <= consumer[c].upto
        /\ consumer[c].upto <= Len(topic)
        /\ ~At(c, "idle") =>
            /\ consumer[c].position < consumer[c].upto
            /\ topic[Offset(c)].valid

OffsetsAreInTopic ==
    /\ committed <= Len(topic)
    /\ skipped \subseteq DOMAIN topic

\* What the group may rely on when a replica commits its position.
HandledIsBooked ==
    \A c \in Consumer :
        \A o \in 1..consumer[c].position : o \in skipped \/ Booked(o)

\* The entry that won the race is there when it is read.
RacedEntriesAreThere ==
    \A c \in Consumer : At(c, "reread") => Entries(Current(c).payment) # {}

IInv ==
    /\ TypeOK
    /\ OneEntryPerPayment
    /\ NothingIsPassedOver
    /\ FirstRecordIsBooked
    /\ BatchesAreInTopic
    /\ OffsetsAreInTopic
    /\ HandledIsBooked
    /\ RacedEntriesAreThere

(***************************************************************************)
(* What is counted, on top of that.                                        *)
(***************************************************************************)

\* The failed tries of the replicas at records that are not to blame.
FailedTries ==
    {x \in Consumer \X (1..Attempts) :
        x[2] <= consumer[x[1]].tries /\ Blameless(Offset(x[1]))}

\* Each of them is a failure, and so are all the tries of a skipped record.
TriesAreFailures ==
    /\ \A c \in Consumer :
        /\ consumer[c].tries < Attempts
        /\ consumer[c].tries > 0 => Offset(c) \in DOMAIN topic
    /\ IsFiniteSet(FailedTries)
    /\ Attempts * Cardinality(BlamelessSkips) + Cardinality(FailedTries) <= faults

\* Only replicas that have accepted a replay show any.
CountersAreFinite == IsFiniteSet(Counted)

\* The records that the group or any replica has gone past with success.
Passed ==
    {o \in DOMAIN topic :
        /\ o \notin skipped
        /\ o <= committed \/ \E c \in Consumer : o <= consumer[c].position}

\* Each of them has made an entry, or counted as a duplicate.
PassedIsCounted == Cardinality(Passed) <= Len(ledger) + CountedEver

\* What the replicas that lost the partition have left of their batches.
Leftover ==
    {x \in Consumer \X DOMAIN topic :
        /\ x[1] # owner
        /\ consumer[x[1]].position < x[2]
        /\ x[2] <= consumer[x[1]].upto}

\* An entry or a duplicate stands for a record that was passed, or for one of
\* a batch that a failure had handled again.
CountedIsPassed ==
    /\ committed <= Position
    /\ IsFiniteSet(Leftover)
    /\ Len(ledger) + CountedEver + Cardinality(skipped) + Cardinality(Leftover)
            <= Position + faults * Len(topic)

\* recordPaymentEvent, under a container that delivers again: every failure,
\* entry and duplicate belongs to a record and to the replica that handled it.
CountInv ==
    /\ TriesAreFailures
    /\ CountersAreFinite
    /\ PassedIsCounted
    /\ CountedIsPassed

=============================================================================
