-------------------------- MODULE MCPaymentOutbox --------------------------
(***************************************************************************)
(* PaymentOutbox for TLC: the symmetry of the processes and of the values  *)
(* that are only compared.  Events are numbers and are not symmetric.      *)
(***************************************************************************)
EXTENDS PaymentOutbox, TLC

Symmetry ==
    Permutations(Relay) \cup Permutations(Command) \cup Permutations(Cleaner)
        \cup Permutations(RecoveryKey) \cup Permutations(Actor)

=============================================================================
