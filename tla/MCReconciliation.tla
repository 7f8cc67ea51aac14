-------------------------- MODULE MCReconciliation --------------------------
(***************************************************************************)
(* Reconciliation for TLC: identities and currencies are symmetric.        *)
(***************************************************************************)
EXTENDS Reconciliation, TLC

Identities ==
    Permutations(Keys) \cup Permutations(ConfirmationIds) \cup
    Permutations(Currencies)
=============================================================================
