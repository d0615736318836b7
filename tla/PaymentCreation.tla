-------------------------- MODULE PaymentCreation --------------------------
(***************************************************************************)
(* POST /payments: PaymentService.create and PaymentCreationTransaction.   *)
(*                                                                         *)
(* The service looks for a payment with the request's key outside any      *)
(* transaction.  If there is none, a transaction inserts the payment and   *)
(* its outbox event.  The unique index on the key decides between requests *)
(* that looked at the same time; the loser looks again.                    *)
(*                                                                         *)
(* A request is one HTTP request that passed validation; a client that     *)
(* tries again sends another one with the same key.  Ids are given out by  *)
(* the database; a request inserts at most once, so the request that       *)
(* inserted a payment stands for its id.  Payments are never deleted.      *)
(***************************************************************************)
EXTENDS Integers, FiniteSets

CONSTANTS Request,     \* HTTP requests
          Key,         \* hashes of idempotency keys
          Body,        \* accounts and amount, as sameRequest compares them
          Nobody,      \* no payment id
          MaxFaults    \* bound on failures of one behaviour

ASSUME NobodyAssumption == Nobody \notin Request

ASSUME RequestsAssumption == IsFiniteSet(Request)

ASSUME FaultsAssumption == MaxFaults \in Nat

VARIABLES payment,     \* committed payment rows, by id
          event,       \* payments that have a committed outbox event
          request,     \* what each request is doing
          faults       \* failures so far

vars == <<payment, event, request, faults>>

\* Stage of a request: before which statement it stands.
\*   "new"    not received           "lookup"  findByIdempotencyKeyHash
\*   "insert" saveAndFlush(payment)  "event"   saveAndFlush(outboxEvent)
\*   "commit" both inserted, not committed
\*   "reread" the insert hit a duplicate key and was rolled back
\*   "done"   answered
Stage == {"new", "lookup", "insert", "event", "commit", "reread", "done"}

\* The answer: 200 with a payment, 409, or anything that leaves the client in
\* doubt: a 500, or no answer at all.
Answer == {"none", "payment", "conflict", "error", "lost"}

NoPayment == [exists |-> FALSE]

PaymentRow == {NoPayment} \cup [exists: {TRUE}, key: Key, body: Body]

RequestState == [stage: Stage, key: Key, body: Body, answer: Answer,
                 paid: Request \cup {Nobody}]

At(r, stage) == request[r].stage = stage

GoTo(r, stage) == request' = [request EXCEPT ![r].stage = stage]

Finish(r, answer, paid) ==
    request' = [request EXCEPT ![r].stage = "done", ![r].answer = answer,
                               ![r].paid = paid]

Fault ==
    /\ faults < MaxFaults
    /\ faults' = faults + 1

\* The payments with a key that a reader outside the transaction sees.
Found(k) == {p \in Request : payment[p].exists /\ payment[p].key = k}

\* The request has inserted a payment in an open transaction.
Inserting(r) == request[r].stage \in {"event", "commit"}

\* Mutant of SameRequest: the body is not compared.
SameRequestAnyway(r, p) == TRUE

SameRequest(r, p) == payment[p].body = request[r].body

\* Get the payment that exists, or a conflict if it is for something else.
AcceptReplay(r, p) ==
    IF SameRequest(r, p) THEN Finish(r, "payment", p)
                         ELSE Finish(r, "conflict", Nobody)

(***************************************************************************)
(* A validated request arrives.                                            *)
(***************************************************************************)
Submit(r) ==
    /\ At(r, "new")
    /\ \E k \in Key, b \in Body :
        request' = [request EXCEPT ![r].stage = "lookup", ![r].key = k,
                                   ![r].body = b]
    /\ UNCHANGED <<payment, event, faults>>

\* Mutant of LookUp: the look sees what is not committed.
LookUpDirty(r) ==
    /\ At(r, "lookup")
    /\ LET seen == Found(request[r].key)
                     \cup {p \in Request : /\ Inserting(p)
                                           /\ request[p].key = request[r].key}
       IN \/ seen = {} /\ GoTo(r, "insert")
          \/ \E p \in seen : Finish(r, "payment", p)
    /\ UNCHANGED <<payment, event, faults>>

(***************************************************************************)
(* create: look for the key, and go into the transaction if it is free.    *)
(***************************************************************************)
LookUp(r) ==
    /\ At(r, "lookup")
    /\ \/ Found(request[r].key) = {} /\ GoTo(r, "insert")
       \/ \E p \in Found(request[r].key) : AcceptReplay(r, p)
    /\ UNCHANGED <<payment, event, faults>>

\* Mutant of InsertPayment: there is no unique index on the key.
InsertPaymentUnchecked(r) ==
    /\ At(r, "insert")
    /\ GoTo(r, "event")
    /\ UNCHANGED <<payment, event, faults>>

\* Mutant of InsertPayment: no transaction encloses the two inserts.
InsertPaymentAtOnce(r) ==
    /\ At(r, "insert")
    /\ Found(request[r].key) = {}
    /\ payment' = [payment EXCEPT ![r] = [exists |-> TRUE,
                                          key    |-> request[r].key,
                                          body   |-> request[r].body]]
    /\ GoTo(r, "event")
    /\ UNCHANGED <<event, faults>>

\* Mutant of InsertPayment: a duplicate key updates the row.
InsertPaymentOverwrites(r) ==
    /\ At(r, "insert")
    /\ \A q \in Request : Inserting(q) => request[q].key # request[r].key
    /\ GoTo(r, IF Found(request[r].key) = {} THEN "event" ELSE "reread")
    /\ payment' = [p \in Request |->
                     IF p \in Found(request[r].key)
                     THEN [payment[p] EXCEPT !.body = request[r].body]
                     ELSE payment[p]]
    /\ UNCHANGED <<event, faults>>

(***************************************************************************)
(* The insert of the payment.  It waits while another transaction has      *)
(* inserted the key, and fails when the key is committed.                  *)
(***************************************************************************)
InsertPayment(r) ==
    /\ At(r, "insert")
    /\ \A q \in Request : Inserting(q) => request[q].key # request[r].key
    /\ IF Found(request[r].key) = {} THEN GoTo(r, "event")
                                     ELSE GoTo(r, "reread")
    /\ UNCHANGED <<payment, event, faults>>

\* The insert of the outbox event, whose payment no other event can have.
InsertEvent(r) ==
    /\ At(r, "event")
    /\ GoTo(r, "commit")
    /\ UNCHANGED <<payment, event, faults>>

\* The transaction of the request makes both of its rows visible.
BothCommitted(r) ==
    /\ payment' = [payment EXCEPT ![r] = [exists |-> TRUE,
                                          key    |-> request[r].key,
                                          body   |-> request[r].body]]
    /\ event' = event \cup {r}

Commit(r) ==
    /\ At(r, "commit")
    /\ BothCommitted(r)
    /\ Finish(r, "payment", r)
    /\ UNCHANGED faults

\* The commit is done, but its acknowledgement does not arrive.
CommitUnheard(r) ==
    /\ At(r, "commit")
    /\ Fault
    /\ BothCommitted(r)
    /\ Finish(r, "error", Nobody)

\* Mutant of ReadRaced: the violation is thrown on without another look.
ReadRacedNot(r) ==
    /\ At(r, "reread")
    /\ Finish(r, "error", Nobody)
    /\ UNCHANGED <<payment, event, faults>>

\* Mutant of ReadRaced: the insert is tried again instead of the look.
ReadRacedRetries(r) ==
    /\ At(r, "reread")
    /\ GoTo(r, "insert")
    /\ UNCHANGED <<payment, event, faults>>

(***************************************************************************)
(* createAtomically, after the duplicate key: the payment of the winner,   *)
(* or the violation again if it cannot be found.                           *)
(***************************************************************************)
ReadRaced(r) ==
    /\ At(r, "reread")
    /\ IF Found(request[r].key) = {}
       THEN Finish(r, "error", Nobody)
       ELSE \E p \in Found(request[r].key) : AcceptReplay(r, p)
    /\ UNCHANGED <<payment, event, faults>>

(***************************************************************************)
(* A statement fails, a lock wait times out, a deadlock victim is chosen,  *)
(* or the process crashes: an open transaction is rolled back.             *)
(***************************************************************************)
Fails(r) ==
    /\ ~At(r, "new")
    /\ ~At(r, "done")
    /\ Fault
    /\ Finish(r, "error", Nobody)
    /\ UNCHANGED <<payment, event>>

\* The answer does not reach the client.
AnswerLost(r) ==
    /\ At(r, "done")
    /\ request[r].answer # "lost"
    /\ Fault
    /\ Finish(r, "lost", Nobody)
    /\ UNCHANGED <<payment, event>>

\* The key and body of a request that was not received say nothing.
Init ==
    /\ payment = [r \in Request |-> NoPayment]
    /\ event = {}
    /\ \E k \in Key, b \in Body :
        request = [r \in Request |-> [stage |-> "new", key |-> k, body |-> b,
                                      answer |-> "none", paid |-> Nobody]]
    /\ faults = 0

\* What a request thread does by itself.
Proceeds(r) ==
    \/ LookUp(r)
    \/ InsertPayment(r)
    \/ InsertEvent(r)
    \/ Commit(r)
    \/ ReadRaced(r)

Next ==
    \E r \in Request :
        \/ Submit(r)
        \/ Proceeds(r)
        \/ CommitUnheard(r)
        \/ Fails(r)
        \/ AnswerLost(r)

Spec == Init /\ [][Next]_vars

\* A thread of the server goes on; clients may never send another request.
Fairness == \A r \in Request : WF_vars(Proceeds(r))

FairSpec == Spec /\ Fairness

(***************************************************************************)
(* Properties.                                                             *)
(***************************************************************************)

\* Every variable has its type.
TypeOK ==
    /\ payment \in [Request -> PaymentRow]
    /\ event \subseteq Request
    /\ request \in [Request -> RequestState]
    /\ faults \in 0..MaxFaults

\* PaymentService.createAtomically: requests that found the key free at the
\* same time do not all create a payment.
OnePaymentPerKey ==
    \A p, q \in Request :
        payment[p].exists /\ payment[q].exists /\ payment[p].key = payment[q].key
            => p = q

\* PaymentCreationTransaction.create: a payment is never there without its
\* outbox event, nor the event without its payment, whatever fails between.
EachPaymentHasItsEvent == event = {r \in Request : payment[r].exists}

\* PaymentService.acceptReplay: a payment that a client is told is committed,
\* under the client's key and for what it asked, and a conflict means that
\* the key belongs to something else.
AnswersAreTrue ==
    \A r \in Request :
        /\ request[r].answer = "payment"
            => /\ request[r].paid \in Found(request[r].key)
               /\ SameRequest(r, request[r].paid)
        /\ request[r].answer = "conflict"
            => \E p \in Found(request[r].key) : ~SameRequest(r, p)

\* A race alone is no reason to answer with an error: the request that loses
\* it finds the payment of the winner.
ErrorsNeedFaults ==
    Cardinality({r \in Request : request[r].answer \in {"error", "lost"}})
        <= faults

\* Every request that is received is answered: waiting for another
\* transaction's key ends.
EveryRequestIsAnswered ==
    \A r \in Request : At(r, "lookup") ~> At(r, "done")

(***************************************************************************)
(* The inductive invariant.                                                *)
(***************************************************************************)

\* A key that an open transaction has inserted is in no other open one and in
\* no committed payment: this is what the wait in InsertPayment achieves.
KeysInDoubtAreFree ==
    \A r \in Request : Inserting(r) =>
        /\ Found(request[r].key) = {}
        /\ \A q \in Request :
            Inserting(q) /\ request[q].key = request[r].key => q = r

\* A payment is what its request asked for, and its request is over.
PaymentsAreAsAsked ==
    \A r \in Request : payment[r].exists =>
        /\ At(r, "done")
        /\ payment[r].key = request[r].key
        /\ payment[r].body = request[r].body

\* The payment that won the race is still there when it is read.
RacedKeysAreTaken ==
    \A r \in Request : At(r, "reread") => Found(request[r].key) # {}

\* There is no answer before the end.
AnswersComeLast ==
    \A r \in Request :
        At(r, "done") <=> request[r].answer # "none"

IInv ==
    /\ TypeOK
    /\ OnePaymentPerKey
    /\ EachPaymentHasItsEvent
    /\ AnswersAreTrue
    /\ ErrorsNeedFaults
    /\ KeysInDoubtAreFree
    /\ PaymentsAreAsAsked
    /\ RacedKeysAreTaken
    /\ AnswersComeLast

(***************************************************************************)
(* The requests of several clients, seen from outside.                     *)
(***************************************************************************)

\* The payment of each key.
Owner ==
    [k \in Key |-> IF Found(k) = {} THEN Nobody ELSE CHOOSE p \in Found(k) : TRUE]

\* A request between its arrival and its answer is one that has asked.
AskedStage(stage) == IF stage \in {"new", "done"} THEN stage ELSE "asked"

CallOf(r) == [request[r] EXCEPT !.stage = AskedStage(request[r].stage)]

Call == [r \in Request |-> CallOf(r)]

Promised == INSTANCE IdempotentCreation WITH owner <- Owner, call <- Call

\* POST /payments keeps its promise: every behaviour of the service is one of
\* IdempotentCreation, in which looking, creating and answering are one step.
KeepsPromise == Promised!Promise

=============================================================================
