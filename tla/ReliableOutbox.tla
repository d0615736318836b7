--------------------------- MODULE ReliableOutbox ---------------------------
(***************************************************************************)
(* What the payment outbox promises to customers and operators, seen       *)
(* payment by payment and one step at a time, without threads, locks,      *)
(* transactions or faults: a payment is shown as published only when Kafka *)
(* has a record of it, and then for good; until then it is retried or      *)
(* parked, each time it is parked under the next number; only a recovery   *)
(* under a key of its own, on record with the cycle that it ends, takes a  *)
(* payment that is parked back to work; and records are forgotten only of  *)
(* published payments, all those of a payment together.                    *)
(***************************************************************************)
EXTENDS Naturals, FiniteSets

CONSTANTS Payment,     \* payments, each with one event to be published
          Key          \* keys of recoveries

VARIABLES status,      \* what customers and operators are shown of a payment
          delivered,   \* payments Kafka has a record of
          parked,      \* the numbers of the handoffs on record, by payment
          recoveries   \* the recoveries on record

promiseVars == <<status, delivered, parked, recoveries>>

Shown(p, s) == status' = [status EXCEPT ![p] = s]

Accept(p) ==
    /\ status[p] = "NONE"
    /\ Shown(p, "CREATED")
    /\ UNCHANGED <<delivered, parked, recoveries>>

\* Kafka may get a record late, when the payment is no longer at work.
Deliver(p) ==
    /\ status[p] # "NONE"
    /\ p \notin delivered
    /\ delivered' = delivered \cup {p}
    /\ UNCHANGED <<status, parked, recoveries>>

AtWork(p) == status[p] \in {"CREATED", "PENDING_RETRY"}

Retry(p) ==
    /\ AtWork(p)
    /\ Shown(p, "PENDING_RETRY")
    /\ UNCHANGED <<delivered, parked, recoveries>>

Publish(p) ==
    /\ AtWork(p)
    /\ p \in delivered
    /\ Shown(p, "PUBLISHED")
    /\ UNCHANGED <<delivered, parked, recoveries>>

Park(p) ==
    /\ AtWork(p)
    /\ Shown(p, "PUBLISH_EXHAUSTED")
    /\ parked' = [parked EXCEPT ![p] = @ \cup {Cardinality(@) + 1}]
    /\ UNCHANGED <<delivered, recoveries>>

Recover(p, k) ==
    /\ status[p] = "PUBLISH_EXHAUSTED"
    /\ \A v \in recoveries : v.key # k
    /\ Shown(p, "PENDING_RETRY")
    /\ recoveries' = recoveries \cup
            {[payment |-> p, cycle |-> Cardinality(parked[p]), key |-> k]}
    /\ UNCHANGED <<delivered, parked>>

Forget(gone) ==
    /\ \A p \in gone : status[p] = "PUBLISHED"
    /\ parked' = [p \in Payment |-> IF p \in gone THEN {} ELSE parked[p]]
    /\ recoveries' = {v \in recoveries : v.payment \notin gone}
    /\ UNCHANGED <<status, delivered>>

PromiseInit ==
    /\ status = [p \in Payment |-> "NONE"]
    /\ delivered = {}
    /\ parked = [p \in Payment |-> {}]
    /\ recoveries = {}

PromiseNext ==
    \/ \E p \in Payment :
        \/ Accept(p)
        \/ Deliver(p)
        \/ Retry(p)
        \/ Publish(p)
        \/ Park(p)
        \/ \E k \in Key : Recover(p, k)
    \/ \E gone \in SUBSET Payment : Forget(gone)

Promise == PromiseInit /\ [][PromiseNext]_promiseVars

=============================================================================
