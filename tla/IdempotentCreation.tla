------------------------ MODULE IdempotentCreation ------------------------
(***************************************************************************)
(* What POST /payments promises to its clients, however many requests run  *)
(* at the same time and however they fail: a key belongs to at most one    *)
(* payment, which the first request to get there creates; every other      *)
(* request with the key is answered with that payment if it asks for the   *)
(* same, and with a conflict if it does not.                               *)
(*                                                                         *)
(* A request may fail, and its answer may be lost.  Either says nothing of *)
(* whether the payment exists; asking again does.                          *)
(***************************************************************************)
CONSTANTS Request,     \* requests, each sent once
          Key,         \* idempotency keys
          Body,        \* what is asked for: accounts and amount
          Nobody       \* no request

VARIABLES owner,       \* the request that created the payment of a key
          call         \* what each request asked for and was answered

promiseVars == <<owner, call>>

Asked(r) == call[r].stage = "asked"

Answered(r, answer, by) ==
    call' = [call EXCEPT ![r].stage = "done", ![r].answer = answer,
                         ![r].paid = by]

Ask(r) ==
    /\ call[r].stage = "new"
    /\ \E k \in Key, b \in Body :
        call' = [call EXCEPT ![r].stage = "asked", ![r].key = k, ![r].body = b]
    /\ UNCHANGED owner

\* The payment is created; the answer may still be an error.
Create(r) ==
    /\ Asked(r)
    /\ owner[call[r].key] = Nobody
    /\ owner' = [owner EXCEPT ![call[r].key] = r]
    /\ Answered(r, "payment", r) \/ Answered(r, "error", Nobody)

Replay(r) ==
    /\ Asked(r)
    /\ \E p \in Request :
        /\ owner[call[r].key] = p
        /\ call[p].body = call[r].body
        /\ Answered(r, "payment", p)
    /\ UNCHANGED owner

Conflict(r) ==
    /\ Asked(r)
    /\ \E p \in Request :
        /\ owner[call[r].key] = p
        /\ call[p].body # call[r].body
    /\ Answered(r, "conflict", Nobody)
    /\ UNCHANGED owner

Fail(r) ==
    /\ Asked(r)
    /\ Answered(r, "error", Nobody)
    /\ UNCHANGED owner

Lose(r) ==
    /\ call[r].stage = "done"
    /\ Answered(r, "lost", Nobody)
    /\ UNCHANGED owner

PromiseInit ==
    /\ owner = [k \in Key |-> Nobody]
    /\ \E k \in Key, b \in Body :
        call = [r \in Request |-> [stage |-> "new", key |-> k, body |-> b,
                                   answer |-> "none", paid |-> Nobody]]

PromiseNext ==
    \E r \in Request :
        \/ Ask(r)
        \/ Create(r)
        \/ Replay(r)
        \/ Conflict(r)
        \/ Fail(r)
        \/ Lose(r)

Promise == PromiseInit /\ [][PromiseNext]_promiseVars

=============================================================================
