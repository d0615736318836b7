--------------------------- MODULE BookedPayments ---------------------------
(***************************************************************************)
(* What the two services promise together, seen by idempotency key: what   *)
(* is asked for under a key is accepted once and never changes, and the    *)
(* ledger gets at most one entry for the key, of exactly what was accepted *)
(* and never before it was accepted.                                       *)
(***************************************************************************)
EXTENDS Sequences

CONSTANTS Key,       \* idempotency keys
          Body       \* what is asked for: accounts and amount

VARIABLES accepted,  \* what was accepted under which key
          books      \* the entries of the ledger, by key

bookVars == <<accepted, books>>

Accept(k, b) ==
    /\ \A a \in accepted : a.key # k
    /\ accepted' = accepted \cup {[key |-> k, body |-> b]}
    /\ UNCHANGED books

Book(a) ==
    /\ \A i \in DOMAIN books : books[i].key # a.key
    /\ books' = Append(books, a)
    /\ UNCHANGED accepted

BookInit == accepted = {} /\ books = <<>>

BookNext ==
    \/ \E k \in Key, b \in Body : Accept(k, b)
    \/ \E a \in accepted : Book(a)

BookOnce == BookInit /\ [][BookNext]_bookVars

=============================================================================
