----------------------- MODULE PaymentCreationProofs -----------------------
(***************************************************************************)
(* What holds of payment creation for every number of requests, keys,      *)
(* bodies and failures, and that it keeps its promise.                     *)
(***************************************************************************)
EXTENDS PaymentCreation, FiniteSetTheorems, TLAPS

(***************************************************************************)
(* What a step leaves alone.                                               *)
(***************************************************************************)

\* Finish changes the stage, the answer and the payment of one request.
LEMMA FinishEffect ==
    ASSUME TypeOK, NEW r \in Request, NEW answer \in Answer,
           NEW paid \in Request \cup {Nobody}, Finish(r, answer, paid)
    PROVE  /\ request' \in [Request -> RequestState]
           /\ \A q \in Request : q # r => request'[q] = request[q]
           /\ \A q \in Request : /\ request'[q].key = request[q].key
                                 /\ request'[q].body = request[q].body
           /\ request'[r].stage = "done"
           /\ request'[r].answer = answer
           /\ request'[r].paid = paid
  BY DEF TypeOK, Finish, RequestState, Stage

\* GoTo changes the stage of one request.
LEMMA GoToEffect ==
    ASSUME TypeOK, NEW r \in Request, NEW stage \in Stage, GoTo(r, stage)
    PROVE  /\ request' \in [Request -> RequestState]
           /\ \A q \in Request : q # r => request'[q] = request[q]
           /\ \A q \in Request : /\ request'[q].key = request[q].key
                                 /\ request'[q].body = request[q].body
                                 /\ request'[q].answer = request[q].answer
                                 /\ request'[q].paid = request[q].paid
           /\ request'[r].stage = stage
  BY DEF TypeOK, GoTo, RequestState

\* Readers find the same as long as no payment is committed.
LEMMA FoundFrame ==
    ASSUME UNCHANGED payment
    PROVE  \A k : Found(k)' = Found(k)
  BY DEF Found

\* A request that moves on without an answer leaves the answers as they are.
LEMMA AnswersFrame ==
    ASSUME UNCHANGED <<payment, event, faults>>,
           EachPaymentHasItsEvent, OnePaymentPerKey, AnswersAreTrue,
           ErrorsNeedFaults,
           \A q \in Request : /\ request'[q].key = request[q].key
                              /\ request'[q].body = request[q].body
                              /\ request'[q].answer = request[q].answer
                              /\ request'[q].paid = request[q].paid
    PROVE  /\ EachPaymentHasItsEvent'
           /\ OnePaymentPerKey'
           /\ AnswersAreTrue'
           /\ ErrorsNeedFaults'
<1>1. EachPaymentHasItsEvent' /\ OnePaymentPerKey'
  BY DEF EachPaymentHasItsEvent, OnePaymentPerKey
<1>2. AnswersAreTrue'
  BY FoundFrame DEF AnswersAreTrue, SameRequest
<1>3. {q \in Request : request'[q].answer \in {"error", "lost"}}
        = {q \in Request : request[q].answer \in {"error", "lost"}}
  OBVIOUS
<1>4. ErrorsNeedFaults'
  BY <1>3 DEF ErrorsNeedFaults
<1> QED BY <1>1, <1>2, <1>4

(***************************************************************************)
(* Steps of a request before its answer.                                   *)
(***************************************************************************)

\* GoTo keeps the invariant if the stage it leads to may be entered.
LEMMA GoToKeeps ==
    ASSUME IInv, NEW r \in Request, NEW stage \in Stage \ {"new", "done"},
           GoTo(r, stage), ~At(r, "done"), UNCHANGED <<payment, event, faults>>,
           stage \in {"event", "commit"} =>
               /\ Found(request[r].key) = {}
               /\ \A q \in Request :
                   Inserting(q) /\ request[q].key = request[r].key => q = r,
           stage = "reread" => Found(request[r].key) # {}
    PROVE  IInv'
<1>1. /\ request' \in [Request -> RequestState]
      /\ \A q \in Request : q # r => request'[q] = request[q]
      /\ \A q \in Request : /\ request'[q].key = request[q].key
                            /\ request'[q].body = request[q].body
                            /\ request'[q].answer = request[q].answer
                            /\ request'[q].paid = request[q].paid
      /\ request'[r].stage = stage
  BY GoToEffect DEF IInv
<1>2. TypeOK'
  BY <1>1 DEF IInv, TypeOK
<1>3. /\ EachPaymentHasItsEvent'
      /\ OnePaymentPerKey'
      /\ AnswersAreTrue'
      /\ ErrorsNeedFaults'
  BY <1>1, AnswersFrame DEF IInv
<1>4. KeysInDoubtAreFree'
  BY <1>1, FoundFrame DEF IInv, KeysInDoubtAreFree, Inserting
<1>5. PaymentsAreAsAsked'
  BY <1>1 DEF IInv, PaymentsAreAsAsked, At
<1>6. RacedKeysAreTaken'
  BY <1>1, FoundFrame DEF IInv, RacedKeysAreTaken, At
<1>7. AnswersComeLast'
  BY <1>1 DEF IInv, AnswersComeLast, At
<1> QED BY <1>2, <1>3, <1>4, <1>5, <1>6, <1>7 DEF IInv

\* The arrival of a request keeps the invariant.
LEMMA SubmitKeeps ==
    ASSUME IInv, NEW r \in Request, Submit(r)
    PROVE  IInv'
<1>1. PICK k \in Key, b \in Body :
        request' = [request EXCEPT ![r].stage = "lookup", ![r].key = k,
                                   ![r].body = b]
  BY DEF Submit
<1>2. /\ request' \in [Request -> RequestState]
      /\ \A q \in Request : q # r => request'[q] = request[q]
      /\ request'[r].stage = "lookup"
      /\ request'[r].answer = request[r].answer
  BY <1>1 DEF IInv, TypeOK, RequestState, Stage
<1>3. /\ ~At(r, "done")
      /\ request[r].answer = "none"
      /\ ~payment[r].exists
      /\ UNCHANGED <<payment, event, faults>>
  BY DEF IInv, AnswersComeLast, PaymentsAreAsAsked, Submit, At
<1>4. TypeOK'
  BY <1>2, <1>3 DEF IInv, TypeOK
<1>5. EachPaymentHasItsEvent' /\ OnePaymentPerKey'
  BY <1>3 DEF IInv, EachPaymentHasItsEvent, OnePaymentPerKey
<1>6. AnswersAreTrue'
  BY <1>2, <1>3, FoundFrame DEF IInv, AnswersAreTrue, SameRequest
<1>7. {q \in Request : request'[q].answer \in {"error", "lost"}}
        = {q \in Request : request[q].answer \in {"error", "lost"}}
  BY <1>2
<1>8. ErrorsNeedFaults'
  BY <1>3, <1>7 DEF IInv, ErrorsNeedFaults
<1>9. KeysInDoubtAreFree'
  BY <1>2, <1>3, FoundFrame DEF IInv, KeysInDoubtAreFree, Inserting
<1>10. PaymentsAreAsAsked'
  BY <1>2, <1>3 DEF IInv, PaymentsAreAsAsked, At
<1>11. RacedKeysAreTaken'
  BY <1>2, <1>3, FoundFrame DEF IInv, RacedKeysAreTaken, At
<1>12. AnswersComeLast'
  BY <1>2, <1>3 DEF IInv, AnswersComeLast, At
<1> QED BY <1>4, <1>5, <1>6, <1>8, <1>9, <1>10, <1>11, <1>12 DEF IInv

(***************************************************************************)
(* The steps that answer.                                                  *)
(***************************************************************************)

\* One more request without a good answer is paid for by one more failure.
LEMMA ErrorsGrowByOne ==
    ASSUME TypeOK, ErrorsNeedFaults, NEW r \in Request,
           \A q \in Request : q # r => request'[q] = request[q],
           \/ faults' = faults + 1
           \/ faults' = faults /\ request'[r].answer \notin {"error", "lost"}
    PROVE  ErrorsNeedFaults'
<1> DEFINE Errors == {q \in Request : request[q].answer \in {"error", "lost"}}
<1> DEFINE ErrorsNext ==
        {q \in Request : request'[q].answer \in {"error", "lost"}}
<1>1. IsFiniteSet(Errors) /\ Cardinality(Errors) \in Nat
  BY RequestsAssumption, FS_Subset, FS_CardinalityType
<1>2. Cardinality(Errors) <= faults /\ faults \in Nat
  BY FaultsAssumption DEF ErrorsNeedFaults, TypeOK
<1>3. CASE faults' = faults + 1
  <2>1. /\ IsFiniteSet(Errors \cup {r})
        /\ Cardinality(Errors \cup {r}) <= Cardinality(Errors) + 1
        /\ Cardinality(Errors \cup {r}) \in Nat
    <3>1. /\ IsFiniteSet(Errors \cup {r})
          /\ \/ Cardinality(Errors \cup {r}) = Cardinality(Errors)
             \/ Cardinality(Errors \cup {r}) = Cardinality(Errors) + 1
      BY <1>1, FS_AddElement
    <3> QED BY <1>1, <3>1
  <2>2. ErrorsNext \subseteq Errors \cup {r}
    OBVIOUS
  <2>3. /\ Cardinality(ErrorsNext) \in Nat
        /\ Cardinality(ErrorsNext) <= Cardinality(Errors \cup {r})
    BY <2>1, <2>2, FS_Subset, FS_CardinalityType
  <2>4. Cardinality(ErrorsNext) <= faults'
    BY <1>1, <1>2, <1>3, <2>1, <2>3
  <2> QED BY <2>4 DEF ErrorsNeedFaults
<1>4. CASE faults' = faults /\ request'[r].answer \notin {"error", "lost"}
  <2>1. ErrorsNext \subseteq Errors
    BY <1>4
  <2>2. /\ Cardinality(ErrorsNext) \in Nat
        /\ Cardinality(ErrorsNext) <= Cardinality(Errors)
    BY <1>1, <2>1, FS_Subset, FS_CardinalityType
  <2>3. Cardinality(ErrorsNext) <= faults'
    BY <1>1, <1>2, <1>4, <2>2
  <2> QED BY <2>3 DEF ErrorsNeedFaults
<1> QED BY <1>3, <1>4

\* An answer without a commit keeps the invariant if it is true.
LEMMA FinishKeeps ==
    ASSUME IInv, NEW r \in Request, NEW answer \in Answer \ {"none"},
           NEW paid \in Request \cup {Nobody}, Finish(r, answer, paid),
           UNCHANGED <<payment, event>>,
           faults' \in 0..MaxFaults,
           \/ faults' = faults + 1
           \/ faults' = faults /\ answer \notin {"error", "lost"},
           answer = "payment" =>
               paid \in Found(request[r].key) /\ SameRequest(r, paid),
           answer = "conflict" =>
               \E p \in Found(request[r].key) : ~SameRequest(r, p)
    PROVE  IInv'
<1>1. /\ request' \in [Request -> RequestState]
      /\ \A q \in Request : q # r => request'[q] = request[q]
      /\ \A q \in Request : /\ request'[q].key = request[q].key
                            /\ request'[q].body = request[q].body
      /\ request'[r].stage = "done"
      /\ request'[r].answer = answer
      /\ request'[r].paid = paid
  BY FinishEffect DEF IInv
<1>2. TypeOK'
  BY <1>1 DEF IInv, TypeOK
<1>3. EachPaymentHasItsEvent' /\ OnePaymentPerKey'
  BY DEF IInv, EachPaymentHasItsEvent, OnePaymentPerKey
<1>4. AnswersAreTrue'
  BY <1>1, FoundFrame DEF IInv, AnswersAreTrue, SameRequest
<1>5. ErrorsNeedFaults'
  BY <1>1, ErrorsGrowByOne DEF IInv
<1>6. KeysInDoubtAreFree'
  BY <1>1, FoundFrame DEF IInv, KeysInDoubtAreFree, Inserting
<1>7. PaymentsAreAsAsked'
  BY <1>1 DEF IInv, PaymentsAreAsAsked, At
<1>8. RacedKeysAreTaken'
  BY <1>1, FoundFrame DEF IInv, RacedKeysAreTaken, At
<1>9. AnswersComeLast'
  BY <1>1 DEF IInv, AnswersComeLast, At
<1> QED BY <1>2, <1>3, <1>4, <1>5, <1>6, <1>7, <1>8, <1>9 DEF IInv

\* Answering with the payment of the key, or with a conflict, is such a step.
LEMMA AcceptReplayKeeps ==
    ASSUME IInv, NEW r \in Request, NEW p \in Found(request[r].key),
           AcceptReplay(r, p), UNCHANGED <<payment, event, faults>>
    PROVE  IInv'
<1>1. p \in Request /\ faults' \in 0..MaxFaults
  BY DEF Found, IInv, TypeOK
<1>2. CASE SameRequest(r, p)
  BY <1>1, <1>2, FinishKeeps DEF AcceptReplay, Answer
<1>3. CASE ~SameRequest(r, p)
  BY <1>1, <1>3, FinishKeeps DEF AcceptReplay, Answer
<1> QED BY <1>2, <1>3

\* What a reader finds after the commit of a payment.
LEMMA CommitEffect ==
    ASSUME TypeOK, NEW r \in Request, BothCommitted(r)
    PROVE  /\ payment' \in [Request -> PaymentRow]
           /\ event' = event \cup {r}
           /\ \A q \in Request : q # r => payment'[q] = payment[q]
           /\ payment'[r].exists
           /\ payment'[r].key = request[r].key
           /\ payment'[r].body = request[r].body
  BY DEF TypeOK, BothCommitted, PaymentRow, RequestState

\* The commit of a payment keeps the invariant, whether or not it is heard.
LEMMA CommitKeeps ==
    ASSUME IInv, NEW r \in Request, At(r, "commit"), BothCommitted(r),
           faults' \in 0..MaxFaults,
           \/ Finish(r, "payment", r) /\ faults' = faults
           \/ Finish(r, "error", Nobody) /\ faults' = faults + 1
    PROVE  IInv'
<1>1. /\ request' \in [Request -> RequestState]
      /\ \A q \in Request : q # r => request'[q] = request[q]
      /\ \A q \in Request : /\ request'[q].key = request[q].key
                            /\ request'[q].body = request[q].body
      /\ request'[r].stage = "done"
      /\ \/ request'[r].answer = "payment" /\ request'[r].paid = r
         \/ request'[r].answer = "error"
  BY FinishEffect DEF IInv, Answer
<1>2. /\ payment' \in [Request -> PaymentRow]
      /\ event' = event \cup {r}
      /\ \A q \in Request : q # r => payment'[q] = payment[q]
      /\ payment'[r].exists
      /\ payment'[r].key = request[r].key
      /\ payment'[r].body = request[r].body
  BY CommitEffect DEF IInv
<1>3. /\ Inserting(r)
      /\ Found(request[r].key) = {}
      /\ \A q \in Request :
          Inserting(q) /\ request[q].key = request[r].key => q = r
  BY DEF IInv, KeysInDoubtAreFree, Inserting, At
<1>4. /\ ~payment[r].exists
      /\ \A k : k # request[r].key => Found(k)' = Found(k)
      /\ Found(request[r].key)' = {r}
  <2>1. ~payment[r].exists
    BY DEF IInv, PaymentsAreAsAsked, At
  <2>2. ASSUME NEW k, k # request[r].key PROVE Found(k)' = Found(k)
    BY <1>2, <2>1, <2>2 DEF Found
  <2>3. Found(request[r].key)' = {p \in Request : payment'[p].exists
                                          /\ payment'[p].key = request'[r].key}
    BY DEF Found
  <2>4. request'[r].key = request[r].key
    BY <1>1
  <2>5. \A p \in Request :
          payment'[p].exists /\ payment'[p].key = request[r].key <=> p = r
    BY <1>2, <1>3 DEF Found
  <2>6. Found(request[r].key)' = {r}
    BY <2>3, <2>4, <2>5
  <2> QED BY <2>1, <2>2, <2>6
<1>5. TypeOK'
  BY <1>1, <1>2 DEF IInv, TypeOK
<1>6. OnePaymentPerKey'
  BY <1>2, <1>3 DEF IInv, OnePaymentPerKey, Found
<1>7. EachPaymentHasItsEvent'
  BY <1>2 DEF IInv, EachPaymentHasItsEvent
<1>8. AnswersAreTrue'
  <2> SUFFICES ASSUME NEW q \in Request
               PROVE  /\ request'[q].answer = "payment" =>
                          /\ request'[q].paid \in Found(request[q].key)'
                          /\ payment'[request'[q].paid].body = request'[q].body
                      /\ request'[q].answer = "conflict" =>
                          \E p \in Found(request[q].key)' :
                              payment'[p].body # request'[q].body
    BY DEF AnswersAreTrue, SameRequest
  <2>1. CASE q = r
    BY <1>1, <1>2, <1>4, <2>1
  <2>2. CASE q # r
    <3>1. request'[q] = request[q]
      BY <1>1, <2>2
    <3>2. \A p \in Found(request[q].key) :
            p \in Found(request[q].key)' /\ payment'[p] = payment[p]
      BY <1>2, <1>4, <3>1 DEF Found
    <3> QED BY <3>1, <3>2 DEF IInv, AnswersAreTrue, SameRequest
  <2> QED BY <2>1, <2>2
<1>9. ErrorsNeedFaults'
  BY <1>1, ErrorsGrowByOne, FinishEffect DEF IInv, Answer
<1>10. KeysInDoubtAreFree'
  BY <1>1, <1>3, <1>4 DEF IInv, KeysInDoubtAreFree, Inserting
<1>11. PaymentsAreAsAsked'
  BY <1>1, <1>2 DEF IInv, PaymentsAreAsAsked, At
<1>12. RacedKeysAreTaken'
  BY <1>1, <1>4 DEF IInv, RacedKeysAreTaken, At
<1>13. AnswersComeLast'
  BY <1>1 DEF IInv, AnswersComeLast, At
<1> QED BY <1>5, <1>6, <1>7, <1>8, <1>9, <1>10, <1>11, <1>12, <1>13 DEF IInv

(***************************************************************************)
(* The invariant.                                                          *)
(***************************************************************************)

LEMMA CreationInit ==
    ASSUME Init
    PROVE  IInv
<1>1. TypeOK
  BY FaultsAssumption
  DEF Init, TypeOK, PaymentRow, NoPayment, RequestState, Stage, Answer
<1>2. /\ \A r \in Request : ~payment[r].exists
      /\ \A r \in Request : request[r].stage = "new"
      /\ \A r \in Request : request[r].answer = "none"
      /\ event = {}
      /\ faults = 0
  BY DEF Init, NoPayment
<1>3. OnePaymentPerKey /\ EachPaymentHasItsEvent /\ AnswersAreTrue
  BY <1>2 DEF OnePaymentPerKey, EachPaymentHasItsEvent, AnswersAreTrue
<1>4. ErrorsNeedFaults
  <2>1. {r \in Request : request[r].answer \in {"error", "lost"}} = {}
    BY <1>2
  <2> QED BY <1>2, <2>1, FS_EmptySet DEF ErrorsNeedFaults
<1>5. KeysInDoubtAreFree /\ PaymentsAreAsAsked
  BY <1>2 DEF KeysInDoubtAreFree, PaymentsAreAsAsked, Inserting
<1>6. RacedKeysAreTaken /\ AnswersComeLast
  BY <1>2 DEF RacedKeysAreTaken, AnswersComeLast, At
<1> QED BY <1>1, <1>3, <1>4, <1>5, <1>6 DEF IInv

\* A failure is counted within its bound.
LEMMA FaultEffect ==
    ASSUME TypeOK, Fault
    PROVE  faults' = faults + 1 /\ faults' \in 0..MaxFaults
  BY FaultsAssumption DEF TypeOK, Fault

\* Every step of one request keeps the invariant.
LEMMA RequestKeeps ==
    ASSUME IInv, NEW r \in Request,
           \/ Submit(r)
           \/ Proceeds(r)
           \/ CommitUnheard(r)
           \/ Fails(r)
           \/ AnswerLost(r)
    PROVE  IInv'
<1> USE DEF Stage, Answer
<1>1. faults \in 0..MaxFaults
  BY DEF IInv, TypeOK
<1>2. CASE Submit(r)
  BY <1>2, SubmitKeeps
<1>3. CASE LookUp(r)
  <2>1. CASE Found(request[r].key) = {} /\ GoTo(r, "insert")
    BY <1>3, <2>1, GoToKeeps DEF LookUp, At
  <2>2. CASE \E p \in Found(request[r].key) : AcceptReplay(r, p)
    BY <1>3, <2>2, AcceptReplayKeeps DEF LookUp
  <2> QED BY <1>3, <2>1, <2>2 DEF LookUp
<1>4. CASE InsertPayment(r)
  <2>1. ~At(r, "done") /\ UNCHANGED <<payment, event, faults>>
    BY <1>4 DEF InsertPayment, At
  <2>2. \A q \in Request :
          Inserting(q) /\ request[q].key = request[r].key => q = r
    BY <1>4 DEF InsertPayment
  <2>3. CASE Found(request[r].key) = {}
    BY <1>4, <2>1, <2>2, <2>3, GoToKeeps DEF InsertPayment
  <2>4. CASE Found(request[r].key) # {}
    BY <1>4, <2>1, <2>4, GoToKeeps DEF InsertPayment
  <2> QED BY <2>3, <2>4
<1>5. CASE InsertEvent(r)
  <2>1. /\ ~At(r, "done")
        /\ GoTo(r, "commit")
        /\ UNCHANGED <<payment, event, faults>>
    BY <1>5 DEF InsertEvent, At
  <2>2. /\ Found(request[r].key) = {}
        /\ \A q \in Request :
            Inserting(q) /\ request[q].key = request[r].key => q = r
    BY <1>5 DEF IInv, KeysInDoubtAreFree, InsertEvent, Inserting, At
  <2> QED BY <2>1, <2>2, GoToKeeps
<1>6. CASE Commit(r)
  BY <1>1, <1>6, CommitKeeps DEF Commit
<1>7. CASE CommitUnheard(r)
  BY <1>7, FaultEffect, CommitKeeps DEF CommitUnheard, IInv
<1>8. CASE ReadRaced(r)
  <2>1. Found(request[r].key) # {}
    BY <1>8 DEF IInv, RacedKeysAreTaken, ReadRaced
  <2> QED BY <1>8, <2>1, AcceptReplayKeeps DEF ReadRaced
<1>9. CASE Fails(r)
  <2>1. /\ Finish(r, "error", Nobody)
        /\ UNCHANGED <<payment, event>>
        /\ faults' = faults + 1
        /\ faults' \in 0..MaxFaults
    BY <1>9, FaultEffect DEF Fails, IInv
  <2> QED BY <2>1, FinishKeeps
<1>10. CASE AnswerLost(r)
  <2>1. /\ Finish(r, "lost", Nobody)
        /\ UNCHANGED <<payment, event>>
        /\ faults' = faults + 1
        /\ faults' \in 0..MaxFaults
    BY <1>10, FaultEffect DEF AnswerLost, IInv
  <2> QED BY <2>1, FinishKeeps
<1> QED BY <1>2, <1>3, <1>4, <1>5, <1>6, <1>7, <1>8, <1>9, <1>10 DEF Proceeds

\* A step that changes nothing keeps the invariant.
LEMMA CreationStutter ==
    ASSUME IInv, UNCHANGED vars
    PROVE  IInv'
<1>1. TypeOK'
  BY DEF IInv, TypeOK, vars
<1>2. /\ EachPaymentHasItsEvent'
      /\ OnePaymentPerKey'
      /\ AnswersAreTrue'
      /\ ErrorsNeedFaults'
  BY AnswersFrame DEF IInv, vars
<1>3. KeysInDoubtAreFree' /\ RacedKeysAreTaken'
  BY FoundFrame
  DEF IInv, vars, KeysInDoubtAreFree, RacedKeysAreTaken, Inserting, At
<1>4. PaymentsAreAsAsked' /\ AnswersComeLast'
  BY DEF IInv, vars, PaymentsAreAsAsked, AnswersComeLast, At
<1> QED BY <1>1, <1>2, <1>3, <1>4 DEF IInv

\* The inductive invariant of payment creation: the keys that open
\* transactions have inserted stay free until they commit.
THEOREM CreationInvariant == Spec => []IInv
<1>1. Init => IInv
  BY CreationInit
<1>2. IInv /\ [Next]_vars => IInv'
  BY RequestKeeps, CreationStutter DEF Next
<1> QED BY <1>1, <1>2, PTL DEF Spec

\* PaymentService.createAtomically: however requests with one key interleave,
\* the key never has two payments.
THEOREM KeysAreUnique == Spec => []OnePaymentPerKey
<1>1. IInv => OnePaymentPerKey
  BY DEF IInv
<1> QED BY <1>1, CreationInvariant, PTL

\* PaymentCreationTransaction.create: whatever fails, payments and outbox
\* events are there in pairs.
THEOREM PairsAreWhole == Spec => []EachPaymentHasItsEvent
<1>1. IInv => EachPaymentHasItsEvent
  BY DEF IInv
<1> QED BY <1>1, CreationInvariant, PTL

\* PaymentService.acceptReplay: no client is told of a payment that is not
\* there or not its own, nor of a conflict where there is none.
THEOREM ClientsAreToldTheTruth == Spec => []AnswersAreTrue
<1>1. IInv => AnswersAreTrue
  BY DEF IInv
<1> QED BY <1>1, CreationInvariant, PTL

\* PaymentService.createAtomically: losing a race is no error; the requests
\* without a good answer are at most as many as the failures.
THEOREM RacesAreNoErrors == Spec => []ErrorsNeedFaults
<1>1. IInv => ErrorsNeedFaults
  BY DEF IInv
<1> QED BY <1>1, CreationInvariant, PTL

(***************************************************************************)
(* The promise.                                                            *)
(***************************************************************************)

\* The owner of a key is the payment that readers find under it.
LEMMA OwnerIsFound ==
    ASSUME IInv, NEW k \in Key
    PROVE  /\ Found(k) = {} => Owner[k] = Nobody
           /\ \A p \in Found(k) : Owner[k] = p
<1>1. \A p, q \in Found(k) : p = q
  BY DEF IInv, OnePaymentPerKey, Found
<1> QED BY <1>1 DEF Owner

\* A call has what its request has, apart from the stage.
LEMMA CallShows ==
    ASSUME TypeOK, NEW r \in Request
    PROVE  /\ Call[r].key = request[r].key
           /\ Call[r].body = request[r].body
           /\ Call[r].stage = AskedStage(request[r].stage)
           /\ Call[r].answer = request[r].answer
           /\ Call[r].paid = request[r].paid
  BY DEF TypeOK, RequestState, Call, CallOf

\* A request that moves on without an answer is not seen to move.
LEMMA GoToIsSilent ==
    ASSUME TypeOK, NEW r \in Request, NEW stage \in Stage \ {"new", "done"},
           GoTo(r, stage), ~At(r, "new"), ~At(r, "done")
    PROVE  Call' = Call
<1>1. \A q \in Request : CallOf(q)' = CallOf(q)
  BY DEF TypeOK, RequestState, Stage, CallOf, AskedStage, GoTo, At
<1> QED BY <1>1 DEF Call

\* An answer is seen.
LEMMA FinishIsSeen ==
    ASSUME TypeOK, NEW r \in Request, NEW answer \in Answer,
           NEW paid \in Request \cup {Nobody}, Finish(r, answer, paid)
    PROVE  Promised!Answered(r, answer, paid)
<1>1. /\ request' \in [Request -> RequestState]
      /\ \A q \in Request : q # r => request'[q] = request[q]
      /\ request'[r] = [request[r] EXCEPT !.stage = "done", !.answer = answer,
                                          !.paid = paid]
  BY DEF TypeOK, Finish, RequestState, Stage
<1>2. CallOf(r)' = [Call[r] EXCEPT !.stage = "done", !.answer = answer,
                                   !.paid = paid]
  <2>1. request[r] \in RequestState
    BY DEF TypeOK
  <2>2. CallOf(r)' = [request'[r] EXCEPT !.stage = "done"]
    BY <1>1, <2>1 DEF CallOf, AskedStage, RequestState
  <2>3. Call[r] = [request[r] EXCEPT !.stage = AskedStage(request[r].stage)]
    BY DEF Call, CallOf
  <2> QED BY <1>1, <2>1, <2>2, <2>3 DEF RequestState
<1>3. \A q \in Request : q # r => CallOf(q)' = Call[q]
  BY <1>1 DEF CallOf, Call
<1>4. Call' = [Call EXCEPT ![r].stage = "done", ![r].answer = answer,
                           ![r].paid = paid]
  BY <1>2, <1>3 DEF Call
<1> QED BY <1>4 DEF Promised!Answered

\* No commit, no owner.
LEMMA OwnerFrame ==
    ASSUME UNCHANGED payment
    PROVE  Owner' = Owner
  BY DEF Owner, Found

\* The first commit for a key makes its request the owner.
LEMMA CommitMakesOwner ==
    ASSUME IInv, NEW r \in Request, At(r, "commit"), BothCommitted(r)
    PROVE  /\ Owner[request[r].key] = Nobody
           /\ Owner' = [Owner EXCEPT ![request[r].key] = r]
<1>1. /\ request[r].key \in Key
      /\ Found(request[r].key) = {}
      /\ ~payment[r].exists
  BY DEF IInv, TypeOK, RequestState, KeysInDoubtAreFree, PaymentsAreAsAsked,
         Inserting, At
<1>2. /\ \A q \in Request : q # r => payment'[q] = payment[q]
      /\ payment'[r].exists
      /\ payment'[r].key = request[r].key
  BY CommitEffect DEF IInv
<1> DEFINE FoundNext(k) ==
        {p \in Request : payment'[p].exists /\ payment'[p].key = k}
<1>3. FoundNext(request[r].key) = {r}
  BY <1>1, <1>2 DEF Found
<1>4. ASSUME NEW k \in Key, k # request[r].key PROVE FoundNext(k) = Found(k)
  BY <1>1, <1>2, <1>4 DEF Found
<1>5. Owner' = [k \in Key |-> IF FoundNext(k) = {} THEN Nobody
                              ELSE CHOOSE p \in FoundNext(k) : TRUE]
  BY DEF Owner, Found
<1>6. Owner[request[r].key] = Nobody
  BY <1>1, OwnerIsFound
<1> HIDE DEF FoundNext
<1>7. Owner' = [Owner EXCEPT ![request[r].key] = r]
  BY <1>1, <1>3, <1>4, <1>5 DEF Owner
<1> QED BY <1>6, <1>7

\* Answering with the payment of the key is the promised replay or conflict.
LEMMA AcceptReplayIsSeen ==
    ASSUME IInv, NEW r \in Request, NEW p \in Found(request[r].key),
           AcceptReplay(r, p), ~At(r, "new"), ~At(r, "done"),
           UNCHANGED payment
    PROVE  Promised!Replay(r) \/ Promised!Conflict(r)
<1>1. /\ p \in Request
      /\ request[r].key \in Key
      /\ TypeOK
  BY DEF Found, IInv, TypeOK, RequestState
<1>2. /\ Promised!Asked(r)
      /\ Owner[Call[r].key] = p
  BY <1>1, CallShows, OwnerIsFound DEF Promised!Asked, AskedStage, At
<1>3. Call[p].body = Call[r].body <=> SameRequest(r, p)
  BY <1>1, CallShows
  DEF IInv, PaymentsAreAsAsked, Found, SameRequest
<1>4. Owner' = Owner
  BY OwnerFrame
<1>5. CASE SameRequest(r, p)
  <2>1. Promised!Answered(r, "payment", p)
    BY <1>1, <1>5, FinishIsSeen DEF AcceptReplay, Answer
  <2> QED BY <1>1, <1>2, <1>3, <1>4, <1>5, <2>1 DEF Promised!Replay
<1>6. CASE ~SameRequest(r, p)
  <2>1. Promised!Answered(r, "conflict", Nobody)
    BY <1>1, <1>6, FinishIsSeen DEF AcceptReplay, Answer
  <2> QED BY <1>1, <1>2, <1>3, <1>4, <1>6, <2>1 DEF Promised!Conflict
<1> QED BY <1>5, <1>6

\* The arrival of a request is seen.
LEMMA SubmitIsSeen ==
    ASSUME IInv, NEW r \in Request, Submit(r)
    PROVE  Promised!Ask(r)
<1>1. PICK k \in Key, b \in Body :
        request' = [request EXCEPT ![r].stage = "lookup", ![r].key = k,
                                   ![r].body = b]
  BY DEF Submit
<1>2. request \in [Request -> RequestState]
  BY DEF IInv, TypeOK
<1>3. request'[r] = [request[r] EXCEPT !.stage = "lookup", !.key = k,
                                       !.body = b]
  BY <1>1, <1>2
<1>4. CallOf(r)' = [Call[r] EXCEPT !.stage = "asked", !.key = k, !.body = b]
  BY <1>2, <1>3 DEF CallOf, Call, AskedStage, RequestState
<1>5. \A q \in Request : q # r => CallOf(q)' = Call[q]
  BY <1>1, <1>2 DEF CallOf, Call
<1>6. Call' = [Call EXCEPT ![r].stage = "asked", ![r].key = k, ![r].body = b]
  BY <1>4, <1>5 DEF Call
<1>7. Call[r].stage = "new"
  BY CallShows DEF IInv, Submit, At, AskedStage
<1>8. Owner' = Owner
  BY OwnerFrame DEF Submit
<1> QED BY <1>6, <1>7, <1>8 DEF Promised!Ask

\* Every step of a request is one that is promised, or is not seen.
LEMMA StepIsPromised ==
    ASSUME IInv, NEW r \in Request,
           \/ Submit(r)
           \/ Proceeds(r)
           \/ CommitUnheard(r)
           \/ Fails(r)
           \/ AnswerLost(r)
    PROVE  \/ Promised!Ask(r)
           \/ Promised!Create(r)
           \/ Promised!Replay(r)
           \/ Promised!Conflict(r)
           \/ Promised!Fail(r)
           \/ Promised!Lose(r)
           \/ UNCHANGED <<Owner, Call>>
<1> USE DEF Stage, Answer
<1>1. TypeOK
  BY DEF IInv
<1>2. CASE Submit(r)
  BY <1>2, SubmitIsSeen
<1>3. CASE LookUp(r)
  <2>1. /\ ~At(r, "new")
        /\ ~At(r, "done")
        /\ UNCHANGED payment
    BY <1>3 DEF LookUp, At
  <2>2. CASE GoTo(r, "insert")
    BY <1>1, <2>1, <2>2, GoToIsSilent, OwnerFrame
  <2>3. CASE \E p \in Found(request[r].key) : AcceptReplay(r, p)
    BY <2>1, <2>3, AcceptReplayIsSeen
  <2> QED BY <1>3, <2>2, <2>3 DEF LookUp
<1>4. CASE InsertPayment(r)
  <2>1. /\ ~At(r, "new")
        /\ ~At(r, "done")
        /\ UNCHANGED payment
        /\ GoTo(r, "event") \/ GoTo(r, "reread")
    BY <1>4 DEF InsertPayment, At
  <2> QED BY <1>1, <2>1, GoToIsSilent, OwnerFrame
<1>5. CASE InsertEvent(r)
  <2>1. /\ ~At(r, "new")
        /\ ~At(r, "done")
        /\ UNCHANGED payment
        /\ GoTo(r, "commit")
    BY <1>5 DEF InsertEvent, At
  <2> QED BY <1>1, <2>1, GoToIsSilent, OwnerFrame
<1>6. CASE Commit(r) \/ CommitUnheard(r)
  <2>1. /\ At(r, "commit")
        /\ BothCommitted(r)
        /\ Finish(r, "payment", r) \/ Finish(r, "error", Nobody)
    BY <1>6 DEF Commit, CommitUnheard
  <2>2. /\ Owner[Call[r].key] = Nobody
        /\ Owner' = [Owner EXCEPT ![Call[r].key] = r]
    BY <1>1, <2>1, CommitMakesOwner, CallShows
  <2>3. \/ Promised!Answered(r, "payment", r)
        \/ Promised!Answered(r, "error", Nobody)
    BY <1>1, <2>1, FinishIsSeen
  <2>4. Promised!Asked(r)
    BY <1>1, <2>1, CallShows DEF Promised!Asked, AskedStage, At
  <2> QED BY <2>2, <2>3, <2>4 DEF Promised!Create
<1>7. CASE ReadRaced(r)
  <2>1. /\ ~At(r, "new")
        /\ ~At(r, "done")
        /\ UNCHANGED payment
    BY <1>7 DEF ReadRaced, At
  <2>2. Found(request[r].key) # {}
    BY <1>7 DEF IInv, RacedKeysAreTaken, ReadRaced
  <2> QED BY <1>7, <2>1, <2>2, AcceptReplayIsSeen DEF ReadRaced
<1>8. CASE Fails(r)
  <2>1. Promised!Answered(r, "error", Nobody)
    BY <1>1, <1>8, FinishIsSeen DEF Fails
  <2>2. Promised!Asked(r)
    BY <1>1, <1>8, CallShows DEF Fails, Promised!Asked, AskedStage, At
  <2>3. Owner' = Owner
    BY <1>8, OwnerFrame DEF Fails
  <2> QED BY <2>1, <2>2, <2>3 DEF Promised!Fail
<1>9. CASE AnswerLost(r)
  <2>1. Promised!Answered(r, "lost", Nobody)
    BY <1>1, <1>9, FinishIsSeen DEF AnswerLost
  <2>2. Call[r].stage = "done"
    BY <1>1, <1>9, CallShows DEF AnswerLost, AskedStage, At
  <2>3. Owner' = Owner
    BY <1>9, OwnerFrame DEF AnswerLost
  <2> QED BY <2>1, <2>2, <2>3 DEF Promised!Lose
<1> QED BY <1>2, <1>3, <1>4, <1>5, <1>6, <1>7, <1>8, <1>9 DEF Proceeds

\* The service starts as promised.
LEMMA InitIsPromised ==
    ASSUME Init
    PROVE  Promised!PromiseInit
<1>1. \A k : Found(k) = {}
  BY DEF Init, Found, NoPayment
<1>2. Owner = [k \in Key |-> Nobody]
  BY <1>1 DEF Owner
<1>3. PICK k \in Key, b \in Body :
        request = [r \in Request |-> [stage |-> "new", key |-> k, body |-> b,
                                      answer |-> "none", paid |-> Nobody]]
  BY DEF Init
<1>4. Call = [r \in Request |-> [stage |-> "new", key |-> k, body |-> b,
                                 answer |-> "none", paid |-> Nobody]]
  BY <1>3 DEF Call, CallOf, AskedStage
<1> QED BY <1>2, <1>4 DEF Promised!PromiseInit

\* PaymentService.create implements what POST /payments promises: though it
\* looks, inserts and looks again in separate steps, each request seems to
\* create, replay or conflict at once.
THEOREM PromiseIsKept == Spec => KeepsPromise
<1>1. Init => Promised!PromiseInit
  BY InitIsPromised
<1>2. IInv /\ [Next]_vars => [Promised!PromiseNext]_<<Owner, Call>>
  <2>1. ASSUME IInv, Next PROVE [Promised!PromiseNext]_<<Owner, Call>>
    BY <2>1, StepIsPromised DEF Next, Promised!PromiseNext
  <2>2. ASSUME UNCHANGED vars PROVE UNCHANGED <<Owner, Call>>
    BY <2>2, OwnerFrame DEF vars, Call, CallOf
  <2> QED BY <2>1, <2>2
<1>3. Promised!promiseVars = <<Owner, Call>>
  BY DEF Promised!promiseVars
<1> QED
  BY <1>1, <1>2, <1>3, CreationInvariant, PTL
  DEF Spec, KeepsPromise, Promised!Promise, Promised!promiseVars

=============================================================================
