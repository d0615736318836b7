------------------------- MODULE CursorPagingProofs -------------------------
(***************************************************************************)
(* Proofs about CursorPaging, for any number of rows, accounts and page    *)
(* sizes.                                                                  *)
(***************************************************************************)
EXTENDS CursorPaging, TLAPS

(***************************************************************************)
(* Steps of the writers.                                                   *)
(***************************************************************************)
LEMMA InsertKeepsInvariant ==
    ASSUME IInv, Insert
    PROVE  IInv'
<1> DEFINE new == lastId + 1
<1>1. /\ MaxId \in Nat /\ lastId \in 0..MaxId /\ new \in Id /\ new > lastId
      /\ lastId' = new /\ lastId' \in 0..MaxId
  BY IdAssumption DEF IInv, TypeOK, Insert, Id
<1>2. PICK touched \in SUBSET Account : accounts' = [accounts EXCEPT ![new] = touched]
  BY DEF Insert
<1>3. /\ row' = [row EXCEPT ![new] = "open"]
      /\ reads' = reads /\ afterId' = afterId /\ stage' = stage
      /\ returned' = returned /\ promised' = promised /\ late' = late
  BY DEF Insert, clientVars
<1>4. row[new] = "none"
  BY <1>1 DEF IInv, InOrder
<1>5. TypeOK'
  BY <1>1, <1>2, <1>3 DEF IInv, TypeOK
<1>6. /\ row'[new] = "open"
      /\ \A i \in Id \ {new} : row'[i] = row[i] /\ accounts'[i] = accounts[i]
  BY <1>1, <1>2, <1>3 DEF IInv, TypeOK
<1>7. OnlyLateRowsAreMissed'
  BY <1>3, <1>6 DEF IInv, OnlyLateRowsAreMissed, Visible, Matches
<1>8. InOrder'
  <2>1. \A i \in Id : i > lastId' => row'[i] = "none"
    BY <1>1, <1>6 DEF IInv, InOrder, Id
  <2> QED BY <2>1, <1>3 DEF IInv, InOrder
<1>9. PromiseIsKept'
  <2>1. new \notin promised
    BY <1>4 DEF IInv, PromiseIsKept
  <2> QED BY <2>1, <1>3, <1>6 DEF IInv, TypeOK, PromiseIsKept, Matches
<1>10. RepeatsNothing'
  BY <1>3 DEF IInv, RepeatsNothing
<1> QED BY <1>5, <1>7, <1>8, <1>9, <1>10 DEF IInv

LEMMA CommitKeepsInvariant ==
    ASSUME IInv, NEW i \in Id, Commit(i)
    PROVE  IInv'
<1>1. /\ row[i] = "open" /\ row' = [row EXCEPT ![i] = "committed"]
      /\ late' = IF i <= afterId THEN late \cup {i} ELSE late
      /\ accounts' = accounts /\ lastId' = lastId
      /\ reads' = reads /\ afterId' = afterId /\ stage' = stage
      /\ returned' = returned /\ promised' = promised
  BY DEF Commit, clientVars
<1>2. /\ row'[i] = "committed"
      /\ \A j \in Id \ {i} : row'[j] = row[j]
      /\ late \subseteq late' /\ (i <= afterId => i \in late')
  BY <1>1 DEF IInv, TypeOK
<1>3. TypeOK'
  BY <1>1 DEF IInv, TypeOK
<1>4. OnlyLateRowsAreMissed'
  BY <1>1, <1>2 DEF IInv, OnlyLateRowsAreMissed, Visible, Matches
<1>5. InOrder' /\ RepeatsNothing'
  BY <1>1, <1>2 DEF IInv, InOrder, RepeatsNothing
<1>6. PromiseIsKept'
  <2>1. i \notin promised
    BY <1>1 DEF IInv, PromiseIsKept
  <2> QED BY <2>1, <1>1, <1>2 DEF IInv, TypeOK, PromiseIsKept, Matches
<1> QED BY <1>3, <1>4, <1>5, <1>6 DEF IInv

LEMMA GoneKeepsInvariant ==
    ASSUME IInv, NEW i \in Id, Rollback(i) \/ Delete(i)
    PROVE  IInv'
<1>1. /\ row[i] # "none" /\ row' = [row EXCEPT ![i] = "gone"]
      /\ accounts' = accounts /\ lastId' = lastId /\ late' = late
      /\ reads' = reads /\ afterId' = afterId /\ stage' = stage
      /\ returned' = returned /\ promised' = promised
  BY DEF Rollback, Delete, Visible, clientVars
<1>2. row'[i] = "gone" /\ \A j \in Id \ {i} : row'[j] = row[j]
  BY <1>1 DEF IInv, TypeOK
<1>3. TypeOK'
  BY <1>1 DEF IInv, TypeOK
<1>4. OnlyLateRowsAreMissed'
  BY <1>1, <1>2 DEF IInv, OnlyLateRowsAreMissed, Visible, Matches
<1>5. InOrder' /\ RepeatsNothing'
  BY <1>1, <1>2 DEF IInv, InOrder, RepeatsNothing
<1>6. PromiseIsKept'
  BY <1>1, <1>2 DEF IInv, TypeOK, PromiseIsKept, Matches
<1> QED BY <1>3, <1>4, <1>5, <1>6 DEF IInv

(***************************************************************************)
(* Steps of the client.                                                    *)
(***************************************************************************)
LEMMA BeginKeepsInvariant ==
    ASSUME IInv, Begin
    PROVE  IInv'
<1>1. /\ stage = "new" /\ stage' = "reading"
      /\ reads' \in {All} \cup Account
      /\ promised' = {i \in Id : Visible(i) /\ (reads' = All \/ reads' \in accounts[i])}
      /\ row' = row /\ accounts' = accounts /\ lastId' = lastId
      /\ afterId' = afterId /\ returned' = returned /\ late' = late
  BY DEF Begin, rowVars
<1>2. afterId = 0 /\ \A i \in Id : ~(i <= afterId)
  BY <1>1 DEF IInv, InOrder, Id
<1>3. TypeOK'
  BY <1>1 DEF IInv, TypeOK
<1>4. OnlyLateRowsAreMissed'
  BY <1>1, <1>2 DEF OnlyLateRowsAreMissed
<1>5. InOrder' /\ RepeatsNothing'
  BY <1>1 DEF IInv, InOrder, RepeatsNothing
<1>6. PromiseIsKept'
  BY <1>1, <1>2 DEF PromiseIsKept, Matches, Visible
<1> QED BY <1>3, <1>4, <1>5, <1>6 DEF IInv

(***************************************************************************)
(* A page holds every remaining row up to the new cursor, and only rows    *)
(* that were never returned.                                               *)
(***************************************************************************)
LEMMA ReadPageKeepsInvariant ==
    ASSUME IInv, ReadPage
    PROVE  IInv'
<1>1. PICK limit \in Limit, page \in SUBSET Remaining :
        /\ page # {}
        /\ IsPage(page, limit)
        /\ afterId' \in page /\ \A i \in page : i <= afterId'
        /\ returned' = [i \in Id |-> IF i \in page THEN returned[i] + 1
                                                   ELSE returned[i]]
        /\ stage' = IF HasNext(page) THEN "reading" ELSE "done"
  BY DEF ReadPage
<1>2. /\ row' = row /\ accounts' = accounts /\ lastId' = lastId
      /\ reads' = reads /\ promised' = promised /\ late' = late
  BY DEF ReadPage, rowVars
<1>3. /\ MaxId \in Nat /\ afterId \in Nat
      /\ afterId' \in Id /\ afterId' > afterId /\ afterId' \in Nat
      /\ page \subseteq Id /\ \A i \in page : i > afterId
  BY <1>1, IdAssumption DEF IInv, TypeOK, Remaining, Id
<1>4. /\ \A i \in Id : returned[i] \in Nat
      /\ \A i \in page : returned[i] = 0 /\ returned'[i] = 1
      /\ \A i \in Id \ page : returned'[i] = returned[i]
  <2>1. \A i \in Id : returned[i] \in Nat
    BY DEF IInv, TypeOK
  <2>2. \A i \in page : returned[i] = 0
    BY <1>3 DEF IInv, InOrder
  <2>3. \A i \in Id :
          returned'[i] = IF i \in page THEN returned[i] + 1 ELSE returned[i]
    BY <1>1
  <2> QED BY <1>3, <2>1, <2>2, <2>3
<1>5. \A i \in Id :
        Visible(i) /\ Matches(i) /\ afterId < i /\ i <= afterId' => i \in page
  <2> SUFFICES ASSUME NEW i \in Id,
                      Visible(i), Matches(i), afterId < i, i <= afterId', i \notin page
               PROVE  FALSE
    OBVIOUS
  <2>1. i \in Remaining \ page
    BY DEF Remaining
  <2>2. afterId' < i
    BY <1>1, <2>1 DEF IsPage
  <2> QED BY <1>3, <2>2 DEF Id
<1>6. TypeOK'
  <2>1. returned' \in [Id -> Nat]
    <3>1. \A i \in Id : (IF i \in page THEN returned[i] + 1 ELSE returned[i]) \in Nat
      BY <1>4
    <3> QED BY <1>1, <3>1
  <2>2. afterId' \in 0..MaxId
    BY <1>3 DEF Id
  <2> QED BY <1>1, <1>2, <2>1, <2>2 DEF IInv, TypeOK
<1>7. RepeatsNothing'
  BY <1>3, <1>4 DEF IInv, RepeatsNothing
<1>8. OnlyLateRowsAreMissed'
  <2> SUFFICES ASSUME NEW i \in Id, Visible(i), Matches(i), i <= afterId', i \notin late
               PROVE  returned'[i] > 0
    BY <1>2 DEF OnlyLateRowsAreMissed, Visible, Matches
  <2>1. CASE i \in page
    BY <2>1, <1>4
  <2>2. CASE i \notin page
    <3>1. i <= afterId
      BY <1>3, <1>5, <2>2 DEF Id
    <3>2. returned[i] > 0
      BY <3>1 DEF IInv, OnlyLateRowsAreMissed
    <3> QED BY <3>2, <2>2, <1>4
  <2> QED BY <2>1, <2>2
<1>9. InOrder'
  <2>1. \A i \in Id : i > afterId' => returned'[i] = 0
    <3> SUFFICES ASSUME NEW i \in Id, i > afterId'
                 PROVE  returned'[i] = 0
      OBVIOUS
    <3>1. i \notin page /\ i > afterId
      BY <1>1, <1>3 DEF Id
    <3> QED BY <3>1, <1>4 DEF IInv, InOrder
  <2>2. stage' # "new"
    BY <1>1
  <2> QED BY <2>1, <2>2, <1>2 DEF IInv, InOrder
<1>10. PromiseIsKept'
  <2> SUFFICES ASSUME NEW i \in promised
               PROVE  /\ row[i] \in {"committed", "gone"}
                      /\ Matches(i)
                      /\ row[i] = "committed" /\ i <= afterId' => returned'[i] > 0
                      /\ row[i] = "committed" /\ stage' = "done" => i <= afterId'
    BY <1>2 DEF PromiseIsKept, Matches
  <2>1. i \in Id /\ row[i] \in {"committed", "gone"} /\ Matches(i)
    BY DEF IInv, TypeOK, PromiseIsKept
  <2>2. ASSUME row[i] = "committed", i <= afterId'
        PROVE  returned'[i] > 0
    <3>1. CASE i \in page
      BY <3>1, <1>4
    <3>2. CASE i \notin page
      <4>1. i <= afterId
        BY <1>3, <1>5, <2>1, <2>2, <3>2 DEF Id, Visible
      <4>2. returned[i] > 0
        BY <4>1, <2>2 DEF IInv, PromiseIsKept
      <4> QED BY <2>1, <4>2, <3>2, <1>4
    <3> QED BY <3>1, <3>2
  <2>3. ASSUME row[i] = "committed", stage' = "done"
        PROVE  i <= afterId'
    <3>1. page = Remaining
      BY <1>1, <2>3 DEF HasNext
    <3>2. CASE i <= afterId
      BY <1>3, <2>1, <3>2 DEF Id
    <3>3. CASE ~(i <= afterId)
      <4>1. i \in Remaining
        BY <1>3, <2>1, <2>3, <3>3 DEF Remaining, Visible, Id
      <4> QED BY <1>1, <3>1, <4>1
    <3> QED BY <3>2, <3>3
  <2> QED BY <2>1, <2>2, <2>3
<1> QED BY <1>6, <1>7, <1>8, <1>9, <1>10 DEF IInv

LEMMA StopAndGoKeepInvariant ==
    ASSUME IInv, ReadNothing \/ LookForMore
    PROVE  IInv'
<1>1. /\ row' = row /\ accounts' = accounts /\ lastId' = lastId
      /\ reads' = reads /\ afterId' = afterId /\ returned' = returned
      /\ promised' = promised /\ late' = late
      /\ stage # "new" /\ stage' \in {"reading", "done"}
      /\ stage' = "done" => Remaining = {}
  BY DEF ReadNothing, LookForMore, rowVars
<1>2. TypeOK'
  BY <1>1 DEF IInv, TypeOK
<1>3. OnlyLateRowsAreMissed' /\ InOrder' /\ RepeatsNothing'
  BY <1>1 DEF IInv, OnlyLateRowsAreMissed, InOrder, RepeatsNothing, Visible, Matches
<1>4. PromiseIsKept'
  <2>1. \A i \in promised :
          row[i] = "committed" /\ Remaining = {} => i <= afterId
    <3> SUFFICES ASSUME NEW i \in promised, row[i] = "committed", ~(i <= afterId)
                 PROVE  Remaining # {}
      OBVIOUS
    <3>1. i \in Id /\ afterId \in 0..MaxId /\ Matches(i)
      BY DEF IInv, TypeOK, PromiseIsKept
    <3>2. i > afterId
      BY <3>1, IdAssumption DEF Id
    <3> QED BY <3>1, <3>2 DEF Remaining, Visible
  <2> QED BY <2>1, <1>1 DEF IInv, PromiseIsKept, Matches
<1> QED BY <1>2, <1>3, <1>4 DEF IInv

(***************************************************************************)
(* The inductive invariant holds.                                          *)
(***************************************************************************)
THEOREM PagingInvariant == Spec => []IInv
<1>1. Init => IInv
  <2> SUFFICES ASSUME Init
               PROVE  IInv
    OBVIOUS
  <2>1. 0 \in 0..MaxId
    BY IdAssumption
  <2>2. TypeOK
    BY <2>1 DEF Init, TypeOK
  <2>3. RepeatsNothing /\ OnlyLateRowsAreMissed /\ InOrder /\ PromiseIsKept
    BY DEF Init, RepeatsNothing, OnlyLateRowsAreMissed, InOrder, PromiseIsKept, Visible
  <2> QED BY <2>2, <2>3 DEF IInv
<1>2. IInv /\ [Next]_vars => IInv'
  <2> SUFFICES ASSUME IInv, [Next]_vars
               PROVE  IInv'
    OBVIOUS
  <2>1. CASE Insert
    BY <2>1, InsertKeepsInvariant
  <2>2. CASE \E i \in Id : Commit(i) \/ Rollback(i) \/ Delete(i)
    BY <2>2, CommitKeepsInvariant, GoneKeepsInvariant
  <2>3. CASE Begin
    BY <2>3, BeginKeepsInvariant
  <2>4. CASE ReadPage
    BY <2>4, ReadPageKeepsInvariant
  <2>5. CASE ReadNothing \/ LookForMore
    BY <2>5, StopAndGoKeepInvariant
  <2>6. CASE UNCHANGED vars
    BY <2>6 DEF IInv, vars, rowVars, clientVars, TypeOK, RepeatsNothing,
                OnlyLateRowsAreMissed, InOrder, PromiseIsKept, Visible, Matches
  <2> QED BY <2>1, <2>2, <2>3, <2>4, <2>5, <2>6 DEF Next
<1> QED BY <1>1, <1>2, PTL DEF Spec

(***************************************************************************)
(* No row is ever returned twice.                                          *)
(***************************************************************************)
THEOREM PagesNeverRepeat == Spec => []RepeatsNothing
<1>1. IInv => RepeatsNothing
  BY DEF IInv
<1> QED BY <1>1, PagingInvariant, PTL

(***************************************************************************)
(* A row is passed over only if it was committed behind the cursor.        *)
(***************************************************************************)
THEOREM OnlyLateRows == Spec => []OnlyLateRowsAreMissed
<1>1. IInv => OnlyLateRowsAreMissed
  BY DEF IInv
<1> QED BY <1>1, PagingInvariant, PTL

(***************************************************************************)
(* A walk that has come to its end has returned all that it began with.    *)
(***************************************************************************)
THEOREM WalksAreComplete == Spec => []WalkIsComplete
<1>1. IInv => WalkIsComplete
  BY DEF IInv, PromiseIsKept, WalkIsComplete
<1> QED BY <1>1, PagingInvariant, PTL

=============================================================================
