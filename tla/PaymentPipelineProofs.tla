------------------------ MODULE PaymentPipelineProofs ------------------------
(***************************************************************************)
(* The pipeline, for every value of the constants.  Each part of it runs   *)
(* as its own module says, so that what is proved of the parts holds in    *)
(* the pipeline; with that, a few facts about how the parts are linked are *)
(* inductive, and the pipeline implements BookedPayments.                  *)
(***************************************************************************)
EXTENDS PaymentPipeline, TLAPS

(***************************************************************************)
(* The parts.                                                              *)
(***************************************************************************)

\* Payment creation does in the pipeline what it does on its own.
THEOREM CreationRuns == Spec => Creation!Spec
<1>1. Init => Creation!Init
  BY DEF Init
<1>2. [Next]_vars => [Creation!Next]_(Creation!vars)
  <2>1. ASSUME [Next]_vars PROVE Creation!Next \/ UNCHANGED creationVars
    <3>1. CASE ServeRequest \/ RunOutbox \/ RunLedger
      BY <3>1 DEF ServeRequest, RunOutbox, RunLedger
    <3>2. ASSUME NEW p \in Request, CommitPayment(p) PROVE Creation!Next
      BY <3>2 DEF CommitPayment, Creation!Next, Creation!Proceeds
    <3>3. ASSUME NEW p \in Request, AppendRecord(p) PROVE UNCHANGED creationVars
      BY <3>3 DEF AppendRecord
    <3> QED BY <2>1, <3>1, <3>2, <3>3 DEF Next, vars
  <2> QED BY <2>1 DEF creationVars, Creation!vars
<1> QED BY <1>1, <1>2, PTL DEF Spec, Creation!Spec

THEOREM CreationHolds == Spec => []Creation!IInv
<1>1. Creation!Spec => []Creation!IInv
  <2>1. Creation!IsFiniteSet(Request)
    BY CreationAssumption DEF IsFiniteSet, Creation!IsFiniteSet
  <2> QED BY <2>1, Creation!CreationInvariant, CreationAssumption
<1> QED BY <1>1, CreationRuns, PTL

(***************************************************************************)
(* The outbox, likewise.                                                   *)
(***************************************************************************)
THEOREM OutboxRuns == Spec => Outbox!Spec
<1>1. Init => Outbox!Init
  BY DEF Init
<1>2. [Next]_vars => [Outbox!Next]_(Outbox!vars)
  <2>1. ASSUME [Next]_vars PROVE Outbox!Next \/ UNCHANGED outboxVars
    <3>1. CASE ServeRequest \/ RunOutbox \/ RunLedger
      BY <3>1 DEF ServeRequest, RunOutbox, RunLedger
    <3>2. ASSUME NEW p \in Request, CommitPayment(p) PROVE Outbox!Next
      BY <3>2 DEF CommitPayment, Outbox!Next, Outbox!StoreStep, Outbox!StoreNext
    <3>3. ASSUME NEW p \in Request, AppendRecord(p) PROVE Outbox!Next
      BY <3>3 DEF AppendRecord, Outbox!Next, Outbox!RelayStep, Outbox!RelayNext
    <3> QED BY <2>1, <3>1, <3>2, <3>3 DEF Next, vars
  <2> QED
    BY <2>1 DEF outboxVars, Outbox!vars, Outbox!storeVars, Outbox!relayVars,
                Outbox!recoveryVars, Outbox!retentionVars
<1> QED BY <1>1, <1>2, PTL DEF Spec, Outbox!Spec

THEOREM OutboxHolds == Spec => []Outbox!IInv
<1>1. Outbox!Spec => []Outbox!IInv
  BY Outbox!InvariantHolds, OutboxAssumption, CreationAssumption
<1> QED BY <1>1, OutboxRuns, PTL

\* And the transaction service.
THEOREM LedgerRuns == Spec => Ledger!Spec
<1>1. Init => Ledger!Init
  BY DEF Init
<1>2. [Next]_vars => [Ledger!Next]_(Ledger!vars)
  <2>1. ASSUME [Next]_vars PROVE Ledger!Next \/ UNCHANGED ledgerVars
    <3>1. CASE ServeRequest \/ RunOutbox \/ RunLedger
      BY <3>1 DEF ServeRequest, RunOutbox, RunLedger
    <3>2. ASSUME NEW p \in Request, CommitPayment(p) PROVE UNCHANGED ledgerVars
      BY <3>2 DEF CommitPayment
    <3>3. ASSUME NEW p \in Request, AppendRecord(p) PROVE Ledger!Next
      BY <3>3 DEF AppendRecord, Ledger!Next
    <3> QED BY <2>1, <3>1, <3>2, <3>3 DEF Next, vars
  <2> QED BY <2>1 DEF ledgerVars, Ledger!vars
<1> QED BY <1>1, <1>2, PTL DEF Spec, Ledger!Spec

THEOREM LedgerHolds == Spec => []Ledger!IInv
<1>1. Ledger!Spec => []Ledger!IInv
  BY Ledger!LedgerInvariant, LedgerAssumption, CreationAssumption
<1> QED BY <1>1, LedgerRuns, PTL

(***************************************************************************)
(* What a step of a part does to the facts that the other parts rely on.   *)
(***************************************************************************)

\* A payment has a status from its commit on.
LEMMA CreatedExist ==
    ASSUME Creation!IInv
    PROVE  \A p \in Request : p \in Created <=> payment[p].exists
BY DEF Creation!IInv, Creation!EachPaymentHasItsEvent

\* A commit is by a request that had no payment and whose key was free.
LEMMA CommitIsFirst ==
    ASSUME Creation!IInv, NEW r \in Request,
           Creation!Commit(r) \/ Creation!CommitUnheard(r)
    PROVE  /\ r \notin Created
           /\ Created' = Created \cup {r}
           /\ payment' = [payment EXCEPT ![r] = [exists |-> TRUE,
                                                 key    |-> request[r].key,
                                                 body   |-> request[r].body]]
           /\ payment \in [Request -> Creation!PaymentRow]
           /\ request[r].key \in Key /\ request[r].body \in Body
           /\ \A q \in Created : payment[q].key # request[r].key
<1>1. Creation!At(r, "commit") /\ Creation!BothCommitted(r)
  BY DEF Creation!Commit, Creation!CommitUnheard
<1>2. r \notin Created
  BY <1>1, CreatedExist DEF Creation!IInv, Creation!PaymentsAreAsAsked, Creation!At
<1>3. /\ payment \in [Request -> Creation!PaymentRow]
      /\ request[r].key \in Key /\ request[r].body \in Body
  BY DEF Creation!IInv, Creation!TypeOK, Creation!RequestState
<1>4. Creation!Found(request[r].key) = {}
  BY <1>1 DEF Creation!IInv, Creation!KeysInDoubtAreFree, Creation!Inserting, Creation!At
<1>5. \A q \in Created : payment[q].key # request[r].key
  BY <1>4, CreatedExist DEF Creation!Found, Created
<1> QED BY <1>1, <1>2, <1>3, <1>5 DEF Creation!BothCommitted

\* No other step of a request makes a payment.
LEMMA ServingMakesNoPayment ==
    ASSUME Creation!IInv, ServeRequest
    PROVE  payment' = payment
<1>1. Created' = Created
  BY DEF ServeRequest, outboxVars, Created
<1>2. PICK r \in Request : \/ Creation!Submit(r) \/ Creation!Proceeds(r)
                           \/ Creation!CommitUnheard(r) \/ Creation!Fails(r)
                           \/ Creation!AnswerLost(r)
  BY DEF ServeRequest, Creation!Next
<1>3. ~(Creation!Commit(r) \/ Creation!CommitUnheard(r))
  <2>1. SUFFICES ASSUME Creation!Commit(r) \/ Creation!CommitUnheard(r)
                 PROVE  FALSE
    OBVIOUS
  <2>2. r \notin Created /\ Created' = Created \cup {r}
    BY <2>1, CommitIsFirst
  <2> QED BY <1>1, <2>2
<1> QED BY <1>2, <1>3 DEF Creation!Submit, Creation!Proceeds, Creation!LookUp,
            Creation!InsertPayment, Creation!InsertEvent, Creation!ReadRaced,
            Creation!Fails, Creation!AnswerLost

\* The ledger grows by the event of a record, of a payment it does not have.
LEMMA LedgerGrowth ==
    ASSUME Ledger!IInv, Ledger!Next
    PROVE  \/ UNCHANGED ledger
           \/ \E o \in DOMAIN partition :
                /\ partition[o].valid
                /\ Ledger!Entries(partition[o].event.payment) = {}
                /\ ledger' = Append(ledger, partition[o].event)
<1>1. ASSUME NEW c \in Consumer, Ledger!At(c, "insert")
      PROVE  Ledger!Offset(c) \in DOMAIN partition /\ partition[Ledger!Offset(c)].valid
  <2>1. /\ partition \in Seq(Ledger!Payload)
        /\ consumer[c].position \in Nat /\ consumer[c].upto \in Nat
    BY DEF Ledger!IInv, Ledger!TypeOK, Ledger!ConsumerState
  <2>2. /\ consumer[c].position < consumer[c].upto
        /\ consumer[c].upto <= Len(partition)
        /\ partition[Ledger!Offset(c)].valid
    BY <1>1 DEF Ledger!IInv, Ledger!BatchesAreInTopic, Ledger!At
  <2> QED BY <2>1, <2>2 DEF Ledger!Offset
<1>2. ASSUME NEW c \in Consumer, Ledger!InsertEntry(c) \/ Ledger!InsertUnheard(c)
      PROVE  \/ UNCHANGED ledger
             \/ \E o \in DOMAIN partition :
                  /\ partition[o].valid
                  /\ Ledger!Entries(partition[o].event.payment) = {}
                  /\ ledger' = Append(ledger, partition[o].event)
  <2>1. Ledger!At(c, "insert")
    BY <1>2 DEF Ledger!InsertEntry, Ledger!InsertUnheard
  <2>2. \/ UNCHANGED ledger
        \/ /\ Ledger!Entries(Ledger!Current(c).payment) = {}
           /\ ledger' = Append(ledger, Ledger!Current(c))
    BY <1>2 DEF Ledger!InsertEntry, Ledger!InsertUnheard
  <2> QED BY <1>1, <2>1, <2>2 DEF Ledger!Current
<1>3. CASE Ledger!Produce \/ Ledger!Evict
  BY <1>3 DEF Ledger!Produce, Ledger!Evict
<1>4. ASSUME NEW c \in Consumer,
             \/ Ledger!Poll(c) \/ Ledger!RejectMalformed(c) \/ Ledger!LookUp(c)
             \/ Ledger!ReadRaced(c) \/ Ledger!CommitOffset(c)
             \/ Ledger!DatabaseFails(c) \/ Ledger!Crash(c) \/ Ledger!Assign(c)
      PROVE  UNCHANGED ledger
  BY <1>4 DEF Ledger!Poll, Ledger!RejectMalformed, Ledger!LookUp, Ledger!ReadRaced,
              Ledger!CommitOffset, Ledger!DatabaseFails, Ledger!Crash, Ledger!Assign
<1> QED BY <1>2, <1>3, <1>4 DEF Ledger!Next, Ledger!Proceeds

(***************************************************************************)
(* The link invariant.                                                     *)
(***************************************************************************)

\* A publisher that works on a row works on one of a payment.
LEMMA ClaimedIsCreated ==
    ASSUME Outbox!IInv, NEW e \in Request, Outbox!FirstClaimable(e)
    PROVE  e \in Created
BY DEF Outbox!IInv, Outbox!RowsAreConsistent, Outbox!FirstClaimable, Outbox!Claimable,
       Outbox!Exists, Created

\* The relay sends nothing but payments.
LEMMA RelayKeepsToPayments ==
    ASSUME Outbox!IInv, OnlyPaymentsAreSent, Outbox!RelayNext, Created' = Created
    PROVE  OnlyPaymentsAreSent'
<1>1. /\ relay \in [Relay -> Outbox!RelayState]
      /\ late \in [Request -> Nat]
  BY DEF Outbox!IInv, Outbox!TypeOK, Outbox!RelayTypeOK
<1>2. ASSUME NEW r \in Relay, Outbox!ClaimAndSend(r) \/ Outbox!ClaimOverLimit(r)
      PROVE  OnlyPaymentsAreSent'
  <2>1. PICK e \in Request :
            /\ Outbox!FirstClaimable(e)
            /\ \/ relay' = [relay EXCEPT ![r] = Outbox!Sending(e)]
               \/ relay' = [relay EXCEPT ![r] = Outbox!Writing(e, "over_limit")]
            /\ late' = late
    BY <1>2 DEF Outbox!ClaimAndSend, Outbox!ClaimOverLimit
  <2>2. e \in Created
    BY <2>1, ClaimedIsCreated
  <2>3. /\ Outbox!Sending(e).event = e
        /\ Outbox!Writing(e, "over_limit").event = e
    BY DEF Outbox!Sending, Outbox!Writing
  <2> QED BY <1>1, <2>1, <2>2, <2>3 DEF OnlyPaymentsAreSent
<1>3. ASSUME NEW r \in Relay,
             \/ Outbox!BrokerAppends(r) \/ Outbox!Acknowledge(r) \/ Outbox!SendFails(r)
             \/ Outbox!CommitOutcome(r) \/ Outbox!TransactionFails(r)
      PROVE  OnlyPaymentsAreSent'
  <2>1. relay[r].stage # "idle"
    BY <1>3 DEF Outbox!BrokerAppends, Outbox!Acknowledge, Outbox!SendFails,
                Outbox!CommitOutcome, Outbox!TransactionFails
  <2>2. relay[r].event \in Created
    BY <2>1 DEF OnlyPaymentsAreSent
  <2>3. late' = late \/ late' = [late EXCEPT ![relay[r].event] = @ + 1]
    BY <1>3 DEF Outbox!BrokerAppends, Outbox!Acknowledge, Outbox!SendFails,
                Outbox!CommitOutcome, Outbox!TransactionFails, Outbox!GiveUpOnRecord
  <2>4. \E s : relay' = [relay EXCEPT ![r] = s] /\ (s.stage = "idle" \/ s.event = relay[r].event)
    <3>1. /\ Outbox!Idle.stage = "idle"
          /\ Outbox!Appended(relay[r].event).event = relay[r].event
          /\ \A o : Outbox!Writing(relay[r].event, o).event = relay[r].event
      BY DEF Outbox!Idle, Outbox!Appended, Outbox!Writing
    <3> QED BY <1>3, <3>1 DEF Outbox!BrokerAppends, Outbox!Acknowledge, Outbox!SendFails,
                Outbox!CommitOutcome, Outbox!TransactionFails
  <2>5. \A p \in Request : late'[p] > 0 => late[p] > 0 \/ p = relay[r].event
    BY <1>1, <2>3
  <2> QED BY <1>1, <2>2, <2>4, <2>5 DEF OnlyPaymentsAreSent
<1>4. ASSUME NEW r \in Relay, Outbox!Restart(r)
      PROVE  OnlyPaymentsAreSent'
  <2>1. relay' = [relay EXCEPT ![r] = Outbox!Idle] /\ Outbox!Idle.stage = "idle"
    BY <1>4 DEF Outbox!Restart, Outbox!Idle
  <2>2. \A q \in Relay : relay'[q].stage # "idle" => relay'[q] = relay[q]
    BY <1>1, <2>1
  <2>3. \A p \in Request :
            late'[p] > 0 => late[p] > 0 \/ (relay[r].stage # "idle" /\ p = relay[r].event)
    BY <1>1, <1>4 DEF Outbox!Restart, Outbox!GiveUpOnRecord
  <2> QED BY <2>2, <2>3 DEF OnlyPaymentsAreSent
<1>5. ASSUME NEW e \in Request, Outbox!BrokerAppendsLate(e)
      PROVE  OnlyPaymentsAreSent'
  <2>1. relay' = relay /\ late' = [late EXCEPT ![e] = @ - 1] /\ late[e] > 0
    BY <1>5 DEF Outbox!BrokerAppendsLate
  <2>2. \A p \in Request : late'[p] > 0 => late[p] > 0
    BY <1>1, <2>1
  <2> QED BY <2>1, <2>2 DEF OnlyPaymentsAreSent
<1> QED BY <1>2, <1>3, <1>4, <1>5 DEF Outbox!RelayNext

\* So does the outbox as a whole.
LEMMA OutboxKeepsToPayments ==
    ASSUME Outbox!IInv, OnlyPaymentsAreSent, Outbox!Next, Created' = Created
    PROVE  OnlyPaymentsAreSent'
<1>1. CASE Outbox!RelayNext
  BY <1>1, RelayKeepsToPayments
<1>2. CASE UNCHANGED Outbox!relayVars
  BY <1>2 DEF OnlyPaymentsAreSent, Outbox!relayVars
<1> QED BY <1>1, <1>2 DEF Outbox!Next

\* A step that keeps the payments that are there keeps records and entries
\* true.
LEMMA StillOfPayments ==
    ASSUME RecordsAreOfPayments, EntriesAreOfPayments, Created \subseteq Created',
           \A p \in Created : payment'[p] = payment[p],
           UNCHANGED <<partition, ledger>>
    PROVE  RecordsAreOfPayments' /\ EntriesAreOfPayments'
<1>1. \A p \in Created : RecordOf(p)' = RecordOf(p)
  BY DEF RecordOf
<1> QED BY <1>1 DEF RecordsAreOfPayments, EntriesAreOfPayments

\* The record that the broker appends is one of a payment that was sent.
LEMMA AppendKeepsLinks ==
    ASSUME Outbox!IInv, Ledger!IInv, LinkInv, NEW p \in Request, AppendRecord(p)
    PROVE  LinkInv'
<1>1. /\ UNCHANGED <<payment, ledger>>
      /\ Created' = Created
      /\ partition' = Append(partition, RecordOf(p))
      /\ partition \in Seq(Ledger!Payload)
  BY DEF AppendRecord, creationVars, Ledger!Produce, Ledger!IInv, Ledger!TypeOK
<1>2. p \in Created
  BY DEF AppendRecord, LinkInv, OnlyPaymentsAreSent, Outbox!RelayStep,
         Outbox!BrokerAppends, Outbox!BrokerAppendsLate
<1>3. OnlyPaymentsAreSent'
  BY <1>1, RelayKeepsToPayments
     DEF LinkInv, AppendRecord, Outbox!RelayStep, Outbox!RelayNext
<1>4. /\ DOMAIN partition' = DOMAIN partition \cup {Len(partition) + 1}
      /\ \A o \in DOMAIN partition : partition'[o] = partition[o]
      /\ partition'[Len(partition) + 1] = RecordOf(p)
  BY <1>1
<1>5. \A q \in Request : RecordOf(q)' = RecordOf(q)
  BY <1>1 DEF RecordOf
<1>6. RecordsAreOfPayments'
  BY <1>1, <1>2, <1>4, <1>5 DEF LinkInv, RecordsAreOfPayments, Created
<1>7. EntriesAreOfPayments'
  BY <1>1 DEF LinkInv, EntriesAreOfPayments
<1>8. AppendedIsOnPartition'
  <2>1. /\ appended \in [Request -> Nat]
        /\ appended' = [appended EXCEPT ![p] = @ + 1]
    BY DEF Outbox!IInv, Outbox!TypeOK, Outbox!RelayTypeOK, AppendRecord,
           Outbox!RelayStep, Outbox!BrokerAppends, Outbox!BrokerAppendsLate
  <2>2. \A q \in Request : q = p \/ appended'[q] = appended[q]
    BY <2>1
  <2>3. \A q \in Request : RecordsOf(q) \subseteq RecordsOf(q)'
    BY <1>4 DEF RecordsOf
  <2>4. Len(partition) + 1 \in RecordsOf(p)'
    BY <1>4 DEF RecordsOf, RecordOf
  <2> QED BY <2>2, <2>3, <2>4 DEF LinkInv, AppendedIsOnPartition
<1> QED BY <1>3, <1>6, <1>7, <1>8 DEF LinkInv

\* The ledger gets entries of payments only.
LEMMA LedgerKeepsLinks ==
    ASSUME Ledger!IInv, LinkInv, RunLedger
    PROVE  LinkInv'
<1>1. /\ UNCHANGED <<payment, partition, relay, late, appended, status>>
      /\ Created' = Created
  BY DEF RunLedger, outboxVars, creationVars
<1>2. OnlyPaymentsAreSent' /\ AppendedIsOnPartition'
  BY <1>1 DEF LinkInv, OnlyPaymentsAreSent, AppendedIsOnPartition, RecordsOf
<1>3. RecordsAreOfPayments'
  BY <1>1 DEF LinkInv, RecordsAreOfPayments, RecordOf
<1>4. EntriesAreOfPayments'
  <2>1. CASE UNCHANGED ledger
    BY <1>1, <2>1 DEF LinkInv, EntriesAreOfPayments
  <2>2. ASSUME NEW o \in DOMAIN partition, ledger' = Append(ledger, partition[o].event)
        PROVE  EntriesAreOfPayments'
    <3>1. PICK p \in Created : partition[o] = RecordOf(p)
      BY DEF LinkInv, RecordsAreOfPayments
    <3>2. partition[o].event.payment = p /\ partition[o].event.body = payment[p].body
      BY <3>1 DEF RecordOf
    <3>3. ledger \in Seq(Ledger!Event)
      BY DEF Ledger!IInv, Ledger!TypeOK
    <3>4. /\ DOMAIN ledger' = DOMAIN ledger \cup {Len(ledger) + 1}
          /\ \A i \in DOMAIN ledger : ledger'[i] = ledger[i]
          /\ ledger'[Len(ledger) + 1] = partition[o].event
      BY <2>2, <3>3
    <3> QED BY <1>1, <3>1, <3>2, <3>4 DEF LinkInv, EntriesAreOfPayments
  <2> QED BY <2>1, <2>2, LedgerGrowth DEF RunLedger
<1> QED BY <1>2, <1>3, <1>4 DEF LinkInv

\* Every step keeps the links.
LEMMA StepKeepsLinks ==
    ASSUME Creation!IInv, Outbox!IInv, Ledger!IInv, LinkInv, [Next]_vars
    PROVE  LinkInv'
<1>1. CASE ServeRequest
  <2>1. /\ UNCHANGED <<payment, relay, late, appended, status, partition, ledger>>
        /\ Created' = Created
    BY <1>1, ServingMakesNoPayment DEF ServeRequest, outboxVars, ledgerVars, Created
  <2>2. OnlyPaymentsAreSent' /\ AppendedIsOnPartition'
    BY <2>1 DEF LinkInv, OnlyPaymentsAreSent, AppendedIsOnPartition, RecordsOf
  <2> QED BY <2>1, <2>2, StillOfPayments DEF LinkInv
<1>2. CASE RunOutbox
  <2>1. /\ UNCHANGED <<payment, appended, partition, ledger>>
        /\ Created' = Created
    BY <1>2 DEF RunOutbox, creationVars, ledgerVars
  <2>2. OnlyPaymentsAreSent' /\ AppendedIsOnPartition'
    BY <1>2, <2>1, OutboxKeepsToPayments
       DEF RunOutbox, LinkInv, AppendedIsOnPartition, RecordsOf
  <2> QED BY <2>1, <2>2, StillOfPayments DEF LinkInv
<1>3. CASE RunLedger
  BY <1>3, LedgerKeepsLinks
<1>4. ASSUME NEW p \in Request, CommitPayment(p) PROVE LinkInv'
  <2>1. /\ UNCHANGED <<relay, late, appended, partition, ledger>>
        /\ p \notin Created
        /\ Created' = Created \cup {p}
        /\ \A q \in Created : payment'[q] = payment[q]
    BY <1>4, CommitIsFirst
       DEF CommitPayment, ledgerVars, Outbox!StoreStep, Outbox!relayVars, Created
  <2>2. OnlyPaymentsAreSent' /\ AppendedIsOnPartition'
    BY <2>1 DEF LinkInv, OnlyPaymentsAreSent, AppendedIsOnPartition, RecordsOf
  <2> QED BY <2>1, <2>2, StillOfPayments DEF LinkInv
<1>5. ASSUME NEW p \in Request, AppendRecord(p) PROVE LinkInv'
  BY <1>5, AppendKeepsLinks
<1>6. CASE UNCHANGED vars
  <2>1. /\ UNCHANGED <<payment, relay, late, appended, status, partition, ledger>>
        /\ Created' = Created
    BY <1>6 DEF vars, creationVars, outboxVars, ledgerVars
  <2>2. OnlyPaymentsAreSent' /\ AppendedIsOnPartition'
    BY <2>1 DEF LinkInv, OnlyPaymentsAreSent, AppendedIsOnPartition, RecordsOf
  <2> QED BY <2>1, <2>2, StillOfPayments DEF LinkInv
<1> QED BY <1>1, <1>2, <1>3, <1>4, <1>5, <1>6 DEF Next

\* The links between the parts hold throughout.
THEOREM LinksHold == Spec => []LinkInv
<1>1. Init => LinkInv
  <2>1. ASSUME Init PROVE LinkInv
    <3>1. /\ relay = [r \in Relay |-> Outbox!Idle]
          /\ late = [p \in Request |-> 0]
          /\ appended = [p \in Request |-> 0]
          /\ partition = <<>> /\ ledger = <<>>
      BY <2>1 DEF Init, Outbox!Init, Outbox!RelayInit, Ledger!Init
    <3>2. OnlyPaymentsAreSent
      BY <3>1 DEF OnlyPaymentsAreSent, Outbox!Idle
    <3>3. RecordsAreOfPayments /\ AppendedIsOnPartition /\ EntriesAreOfPayments
      BY <3>1 DEF RecordsAreOfPayments, AppendedIsOnPartition, EntriesAreOfPayments
    <3> QED BY <3>2, <3>3 DEF LinkInv
  <2> QED BY <2>1
<1>2. Creation!IInv /\ Outbox!IInv /\ Ledger!IInv /\ LinkInv /\ [Next]_vars => LinkInv'
  BY StepKeepsLinks
<1> QED BY <1>1, <1>2, CreationHolds, OutboxHolds, LedgerHolds, PTL DEF Spec

(***************************************************************************)
(* The pipeline implements BookedPayments.                                 *)
(***************************************************************************)

\* The body and key of what is on the books never change.
LEMMA BooksFrame ==
    ASSUME Creation!IInv, LinkInv, \A p \in Created : payment'[p] = payment[p],
           UNCHANGED ledger
    PROVE  BooksByKey' = BooksByKey
<1>1. \A i \in DOMAIN ledger :
        payment'[ledger[i].payment].key = payment[ledger[i].payment].key
  BY DEF LinkInv, EntriesAreOfPayments
<1> QED BY <1>1 DEF BooksByKey

\* A commit is an Accept.
LEMMA CommitIsAccept ==
    ASSUME Creation!IInv, LinkInv, NEW p \in Request, CommitPayment(p)
    PROVE  \E k \in Key, b \in Body : Books!Accept(k, b)
<1>1. /\ p \notin Created
      /\ Created' = Created \cup {p}
      /\ payment' = [payment EXCEPT ![p] = [exists |-> TRUE,
                                            key    |-> request[p].key,
                                            body   |-> request[p].body]]
      /\ payment \in [Request -> Creation!PaymentRow]
      /\ request[p].key \in Key /\ request[p].body \in Body
      /\ \A q \in Created : payment[q].key # request[p].key
      /\ UNCHANGED ledger
  BY CommitIsFirst DEF CommitPayment, ledgerVars
<1>2. /\ \A q \in Request : q # p => payment'[q] = payment[q]
      /\ payment'[p] = [exists |-> TRUE, key |-> request[p].key, body |-> request[p].body]
  BY <1>1
<1>3. BooksByKey' = BooksByKey
  BY <1>1, <1>2, BooksFrame DEF Created
<1>4. {q \in Request : payment'[q].exists} = {q \in Request : payment[q].exists} \cup {p}
  BY <1>2
<1>5. p \notin {q \in Request : payment[q].exists}
  BY <1>1, CreatedExist
<1>6. Accepted' = Accepted \cup {[key |-> request[p].key, body |-> request[p].body]}
  BY <1>2, <1>4, <1>5 DEF Accepted
<1>7. \A a \in Accepted : a.key # request[p].key
  BY <1>1, CreatedExist DEF Accepted
<1> QED BY <1>1, <1>3, <1>6, <1>7 DEF Books!Accept

\* A new entry is a Book, of a key that is not on the books.
LEMMA EntryIsBook ==
    ASSUME Creation!IInv, Ledger!IInv, LinkInv, RunLedger
    PROVE  \/ UNCHANGED <<Accepted, BooksByKey>>
           \/ \E a \in Accepted : Books!Book(a)
<1>1. payment' = payment
  BY DEF RunLedger, creationVars
<1>2. UNCHANGED Accepted
  BY <1>1 DEF Accepted
<1>3. CASE UNCHANGED ledger
  BY <1>1, <1>2, <1>3 DEF BooksByKey
<1>4. ASSUME NEW o \in DOMAIN partition,
             Ledger!Entries(partition[o].event.payment) = {},
             ledger' = Append(ledger, partition[o].event)
      PROVE  \E a \in Accepted : Books!Book(a)
  <2>1. PICK p \in Created : partition[o] = RecordOf(p)
    BY DEF LinkInv, RecordsAreOfPayments
  <2>2. partition[o].event.payment = p /\ partition[o].event.body = payment[p].body
    BY <2>1 DEF RecordOf
  <2>3. ledger \in Seq(Ledger!Event)
    BY DEF Ledger!IInv, Ledger!TypeOK
  <2>4. /\ DOMAIN ledger' = DOMAIN ledger \cup {Len(ledger) + 1}
        /\ \A i \in DOMAIN ledger : ledger'[i] = ledger[i]
        /\ ledger'[Len(ledger) + 1] = partition[o].event
        /\ DOMAIN ledger = 1..Len(ledger) /\ DOMAIN ledger' = 1..(Len(ledger) + 1)
        /\ Len(ledger) \in Nat
    BY <1>4, <2>3
  <2> DEFINE a == [key |-> payment[p].key, body |-> payment[p].body]
  <2>5. a \in Accepted
    BY <2>1, CreatedExist DEF Accepted, Created
  <2>6. \A i \in DOMAIN BooksByKey : BooksByKey[i].key # a.key
    <3>1. SUFFICES ASSUME NEW i \in DOMAIN ledger,
                          payment[ledger[i].payment].key = payment[p].key
                   PROVE  FALSE
      BY DEF BooksByKey
    <3>2. ledger[i].payment \in Created
      BY DEF LinkInv, EntriesAreOfPayments
    <3>3. ledger[i].payment = p
      BY <2>1, <3>1, <3>2, CreatedExist
         DEF Creation!IInv, Creation!OnePaymentPerKey, Created
    <3> QED BY <1>4, <2>2, <3>3 DEF Ledger!Entries
  <2>7. BooksByKey' = Append(BooksByKey, a)
    <3>1. BooksByKey' = [i \in 1..(Len(ledger) + 1) |->
                            [key  |-> payment[ledger'[i].payment].key,
                             body |-> ledger'[i].body]]
      BY <1>1, <2>4 DEF BooksByKey
    <3>2. Len(BooksByKey) = Len(ledger) /\ DOMAIN BooksByKey = 1..Len(ledger)
      BY <2>4 DEF BooksByKey
    <3>3. \A i \in 1..Len(ledger) :
            BooksByKey[i] = [key  |-> payment[ledger'[i].payment].key,
                             body |-> ledger'[i].body]
      BY <2>4 DEF BooksByKey
    <3>4. a = [key  |-> payment[ledger'[Len(ledger) + 1].payment].key,
               body |-> ledger'[Len(ledger) + 1].body]
      BY <2>2, <2>4
    <3> QED BY <2>4, <3>1, <3>2, <3>3, <3>4
  <2> HIDE DEF a
  <2> QED BY <1>2, <2>5, <2>6, <2>7 DEF Books!Book
<1> QED BY <1>2, <1>3, <1>4, LedgerGrowth DEF RunLedger

\* Each step of the pipeline is a step of BookedPayments, or none.
LEMMA StepIsBooked ==
    ASSUME Creation!IInv, Outbox!IInv, Ledger!IInv, LinkInv, [Next]_vars
    PROVE  [Books!BookNext]_(Books!bookVars)
<1>1. CASE ServeRequest \/ RunOutbox
  <2>1. UNCHANGED <<payment, ledger>>
    BY <1>1, ServingMakesNoPayment DEF ServeRequest, RunOutbox, creationVars, ledgerVars
  <2> QED BY <2>1 DEF Accepted, BooksByKey, Books!bookVars
<1>2. CASE RunLedger
  BY <1>2, EntryIsBook DEF Books!BookNext, Books!bookVars
<1>3. ASSUME NEW p \in Request, CommitPayment(p) PROVE Books!BookNext
  BY <1>3, CommitIsAccept DEF Books!BookNext
<1>4. ASSUME NEW p \in Request, AppendRecord(p)
      PROVE  UNCHANGED Books!bookVars
  <2>1. UNCHANGED <<payment, ledger>>
    BY <1>4 DEF AppendRecord, creationVars, Ledger!Produce
  <2> QED BY <2>1 DEF Accepted, BooksByKey, Books!bookVars
<1>5. CASE UNCHANGED vars
  <2>1. UNCHANGED <<payment, ledger>>
    BY <1>5 DEF vars, creationVars, ledgerVars
  <2> QED BY <2>1 DEF Accepted, BooksByKey, Books!bookVars
<1> QED BY <1>1, <1>2, <1>3, <1>4, <1>5 DEF Next

\* From end to end, a key is booked at most once, as it was accepted.
THEOREM PipelineBooksOnce == Spec => BooksOnce
<1>1. Init => Books!BookInit
  <2>1. ASSUME Init PROVE Books!BookInit
    <3>1. /\ payment = [r \in Request |-> Creation!NoPayment]
          /\ ledger = <<>>
      BY <2>1 DEF Init, Creation!Init, Ledger!Init
    <3>2. Accepted = {} /\ BooksByKey = <<>>
      BY <3>1 DEF Accepted, BooksByKey, Creation!NoPayment
    <3> QED BY <3>2 DEF Books!BookInit
  <2> QED BY <2>1
<1>2. Creation!IInv /\ Outbox!IInv /\ Ledger!IInv /\ LinkInv /\ [Next]_vars
        => [Books!BookNext]_(Books!bookVars)
  BY StepIsBooked
<1> QED BY <1>1, <1>2, CreationHolds, OutboxHolds, LedgerHolds, LinksHold, PTL
        DEF Spec, BooksOnce, Books!BookOnce

\* A payment shown as published is on the partition, and in the ledger when
\* the group is past a record of it that it did not give up on.
THEOREM PublishedGetsBooked == Spec => []PublishedIsBooked
<1>1. Outbox!IInv /\ Ledger!IInv /\ LinkInv => PublishedIsBooked
  <2>1. SUFFICES ASSUME Outbox!IInv, Ledger!IInv, LinkInv,
                        NEW p \in Request, status[p] = "PUBLISHED"
                 PROVE  /\ RecordsOf(p) # {}
                        /\ \A o \in RecordsOf(p) :
                            o <= committed /\ o \notin skipped =>
                                Ledger!Entries(p) # {}
    BY DEF PublishedIsBooked
  <2>2. RecordsOf(p) # {}
    BY <2>1 DEF Outbox!IInv, Outbox!PublishedIsInTopic, LinkInv, AppendedIsOnPartition
  <2>3. ASSUME NEW o \in RecordsOf(p), o <= committed, o \notin skipped
        PROVE  Ledger!Entries(p) # {}
    <3>1. /\ o \in 1..committed
          /\ partition[o].event.payment = p
      BY <2>1, <2>3 DEF RecordsOf, Ledger!IInv, Ledger!TypeOK
    <3>2. Ledger!Booked(o)
      BY <2>1, <2>3, <3>1 DEF Ledger!IInv, Ledger!NothingIsPassedOver
    <3> QED BY <3>1, <3>2 DEF Ledger!Booked, Ledger!Entries
  <2> QED BY <2>2, <2>3
<1> QED BY <1>1, OutboxHolds, LedgerHolds, LinksHold, PTL

\* What the relay puts on the partition contradicts neither itself nor the
\* ledger, so that the group gives up on none of it without failures.
THEOREM NoSkipWithoutFailures == Spec => []SkipsNeedFailures
<1>1. Ledger!Spec => []Ledger!SkippedForAReason
  BY Ledger!SkipsHaveReasons, LedgerAssumption, CreationAssumption
<1>2. Ledger!IInv /\ LinkInv /\ Ledger!SkippedForAReason => SkipsNeedFailures
  <2> SUFFICES ASSUME Ledger!IInv, LinkInv, Ledger!SkippedForAReason
               PROVE  SkipsNeedFailures
    OBVIOUS
  <2>1. ASSUME NEW o \in skipped PROVE Ledger!Blameless(o)
    <3>1. o \in DOMAIN partition
      BY DEF Ledger!IInv, Ledger!OffsetsAreInTopic
    <3>2. PICK p \in Created : partition[o] = RecordOf(p)
      BY <3>1 DEF LinkInv, RecordsAreOfPayments
    <3>3. partition[o].valid /\ partition[o].event = [payment |-> p, body |-> payment[p].body]
      BY <3>2 DEF RecordOf
    <3>4. ASSUME NEW i \in DOMAIN ledger, ledger[i].payment = p
          PROVE  ledger[i] = partition[o].event
      <4>1. ledger[i] \in [payment: Request, body: Body]
        <5>1. ledger \in Seq(Ledger!Event)
          BY DEF Ledger!IInv, Ledger!TypeOK
        <5>2. ledger[i] \in Ledger!Event
          BY <5>1
        <5> QED BY <5>2 DEF Ledger!Event
      <4>2. ledger[i].body = payment[p].body
        BY <3>4 DEF LinkInv, EntriesAreOfPayments
      <4> QED BY <3>3, <3>4, <4>1, <4>2
    <3> QED BY <3>3, <3>4 DEF Ledger!Blameless, Ledger!Conflicting
  <2>2. Ledger!BlamelessSkips = skipped
    BY <2>1 DEF Ledger!BlamelessSkips
  <2>3. Ledger!Cardinality(skipped) = Cardinality(skipped)
    BY DEF Cardinality, Ledger!Cardinality
  <2> QED BY <2>2, <2>3 DEF Ledger!SkippedForAReason, SkipsNeedFailures
<1> QED BY <1>1, <1>2, LedgerRuns, LedgerHolds, LinksHold, PTL

=============================================================================
