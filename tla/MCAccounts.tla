----------------------------- MODULE MCAccounts -----------------------------
(***************************************************************************)
(* A few accounts and workers for TLC.                                     *)
(***************************************************************************)
EXTENDS Accounts, TLC

Interchangeable ==
    Permutations(Users \ {Root}) \cup Permutations(Workers) \cup Permutations(Emails)
=============================================================================
