------------------------- MODULE MCPaymentCreation -------------------------
(***************************************************************************)
(* Payment creation for TLC.  Requests, keys and bodies are only compared. *)
(***************************************************************************)
EXTENDS PaymentCreation, TLC

CreationSymmetry ==
    Permutations(Request) \cup Permutations(Key) \cup Permutations(Body)

=============================================================================
