------------------------------ MODULE MCRights ------------------------------
(***************************************************************************)
(* A few accounts, workers and records for TLC.                            *)
(***************************************************************************)
EXTENDS Rights, TLC

Interchangeable ==
    Permutations(Users \ {Root}) \cup Permutations(Workers)
        \cup Permutations(Emails) \cup Permutations(Records)
=============================================================================
