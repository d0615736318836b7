---------------------------- MODULE CursorPaging ----------------------------
(***************************************************************************)
(* A client reads a collection page by page while rows are inserted:       *)
(* accounts, payments, transactions (all of them or those of one account)  *)
(* and dead-letter handoffs.                                               *)
(*                                                                         *)
(* An id is given to a row when it is inserted, and the row is visible     *)
(* when its transaction commits: rows need not appear in the order of      *)
(* their ids.  Each page is one query, sees what is committed, and starts  *)
(* behind the last id of the page before.  Only handoffs are deleted, with *)
(* their events.  Rows are bounded by MaxId.                               *)
(***************************************************************************)
EXTENDS Naturals, FiniteSets

CONSTANTS
    MaxId,     \* ids are 1..MaxId
    Account,   \* accounts that a transaction may be from or to
    All,       \* what is read: all rows, or those of an account
    Limit      \* sizes of a page

ASSUME IdAssumption == MaxId \in Nat
ASSUME AllAssumption == All \notin Account
ASSUME LimitAssumption == Limit \subseteq Nat \ {0}

Id == 1..MaxId

VARIABLES
    row,        \* each row: not yet, in an open transaction, committed, or gone
    accounts,   \* the accounts of each row
    lastId,     \* the last id given
    reads,      \* what the client reads
    afterId,    \* where its next page starts; 0 for the first page
    stage,      \* the client: "new", "reading", or "done" for now
    returned,   \* how often each row was on a page
    promised,   \* history: rows that were there when the client began
    late        \* history: rows that were committed behind the client

rowVars == <<row, accounts, lastId>>
clientVars == <<reads, afterId, stage, returned, promised>>

vars == <<rowVars, clientVars, late>>

Visible(i) == row[i] = "committed"

Matches(i) == reads = All \/ reads \in accounts[i]

(***************************************************************************)
(* Writers.                                                                *)
(***************************************************************************)
Insert ==
    /\ lastId < MaxId
    /\ lastId' = lastId + 1
    /\ row' = [row EXCEPT ![lastId + 1] = "open"]
    /\ \E touched \in SUBSET Account :
        accounts' = [accounts EXCEPT ![lastId + 1] = touched]
    /\ UNCHANGED <<clientVars, late>>

Commit(i) ==
    /\ row[i] = "open"
    /\ row' = [row EXCEPT ![i] = "committed"]
    /\ late' = IF i <= afterId THEN late \cup {i} ELSE late
    /\ UNCHANGED <<accounts, lastId, clientVars>>

Rollback(i) ==
    /\ row[i] = "open"
    /\ row' = [row EXCEPT ![i] = "gone"]
    /\ UNCHANGED <<accounts, lastId, clientVars, late>>

Delete(i) ==
    /\ Visible(i)
    /\ row' = [row EXCEPT ![i] = "gone"]
    /\ UNCHANGED <<accounts, lastId, clientVars, late>>

(***************************************************************************)
(* The query of one page.                                                  *)
(***************************************************************************)

\* Mutant of Remaining: the cursor is not exclusive.
RemainingInclusive == {i \in Id : Visible(i) /\ Matches(i) /\ i >= afterId}

\* The rows the query selects, before they are limited.
Remaining == {i \in Id : Visible(i) /\ Matches(i) /\ i > afterId}

\* Mutant of IsPage: the query does not order its rows.
IsPageUnordered(page, limit) ==
    /\ Cardinality(page) <= limit
    /\ page = Remaining \/ Cardinality(page) = limit

\* The first rows by id, as many as fit.
IsPage(page, limit) ==
    /\ \A i \in page, j \in Remaining \ page : i < j
    /\ Cardinality(page) <= limit
    /\ page = Remaining \/ Cardinality(page) = limit

\* Mutant of HasNext: a page that is one short of all rows ends the walk.
HasNextButOne(page) == Cardinality(Remaining \ page) > 1

\* One more row was selected than the page has.
HasNext(page) == page # Remaining

(***************************************************************************)
(* The client.  It begins without a cursor, follows the link (or the       *)
(* cursor) of each page, and may look for later rows after the last one.   *)
(***************************************************************************)
Begin ==
    /\ stage = "new"
    /\ stage' = "reading"
    /\ reads' \in {All} \cup Account
    /\ promised' = {i \in Id : Visible(i) /\ (reads' = All \/ reads' \in accounts[i])}
    /\ UNCHANGED <<rowVars, afterId, returned, late>>

ReadPage ==
    /\ stage = "reading"
    /\ \E limit \in Limit, page \in SUBSET Remaining :
        /\ page # {}
        /\ IsPage(page, limit)
        /\ afterId' \in page /\ \A i \in page : i <= afterId'
        /\ returned' = [i \in Id |-> IF i \in page THEN returned[i] + 1
                                                   ELSE returned[i]]
        /\ stage' = IF HasNext(page) THEN "reading" ELSE "done"
    /\ UNCHANGED <<rowVars, reads, promised, late>>

\* An empty page has no link.
ReadNothing ==
    /\ stage = "reading"
    /\ Remaining = {}
    /\ stage' = "done"
    /\ UNCHANGED <<rowVars, reads, afterId, returned, promised, late>>

LookForMore ==
    /\ stage = "done"
    /\ stage' = "reading"
    /\ UNCHANGED <<rowVars, reads, afterId, returned, promised, late>>

Init ==
    /\ row = [i \in Id |-> "none"]
    /\ accounts = [i \in Id |-> {}]
    /\ lastId = 0
    /\ reads = All
    /\ afterId = 0
    /\ stage = "new"
    /\ returned = [i \in Id |-> 0]
    /\ promised = {}
    /\ late = {}

Next ==
    \/ Insert
    \/ \E i \in Id : Commit(i) \/ Rollback(i) \/ Delete(i)
    \/ Begin
    \/ ReadPage
    \/ ReadNothing
    \/ LookForMore

Spec == Init /\ [][Next]_vars

(***************************************************************************)
(* Properties.                                                             *)
(***************************************************************************)

\* docs/api-reference.md: a continuation never repeats a row, whatever is
\* inserted or deleted between two pages.
RepeatsNothing == \A i \in Id : returned[i] <= 1

\* A row behind the cursor has been returned, unless it was committed there
\* when the client had already passed.
OnlyLateRowsAreMissed ==
    \A i \in Id :
        Visible(i) /\ Matches(i) /\ i <= afterId => returned[i] > 0 \/ i \in late

\* A client that has come to the last page has got every row that was there
\* when it began, except those deleted since.
WalkIsComplete ==
    stage = "done" => \A i \in promised : returned[i] > 0 \/ row[i] = "gone"

\* Every variable has its type.
TypeOK ==
    /\ row \in [Id -> {"none", "open", "committed", "gone"}]
    /\ accounts \in [Id -> SUBSET Account]
    /\ lastId \in 0..MaxId
    /\ reads \in {All} \cup Account
    /\ afterId \in 0..MaxId
    /\ stage \in {"new", "reading", "done"}
    /\ returned \in [Id -> Nat]
    /\ promised \subseteq Id
    /\ late \subseteq Id

(***************************************************************************)
(* The inductive invariant.                                                *)
(***************************************************************************)

\* Ids are given in order, and nothing in front of the client was returned.
InOrder ==
    /\ \A i \in Id : i > lastId => row[i] = "none"
    /\ \A i \in Id : i > afterId => returned[i] = 0
    /\ stage = "new" => afterId = 0

\* What was promised stays what the client reads, and lies ahead of it, or
\* was returned, or is gone.
PromiseIsKept ==
    \A i \in promised :
        /\ row[i] \in {"committed", "gone"}
        /\ Matches(i)
        /\ row[i] = "committed" /\ i <= afterId => returned[i] > 0
        /\ row[i] = "committed" /\ stage = "done" => i <= afterId

IInv ==
    /\ TypeOK
    /\ RepeatsNothing
    /\ OnlyLateRowsAreMissed
    /\ InOrder
    /\ PromiseIsKept

=============================================================================
