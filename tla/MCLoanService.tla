--------------------------- MODULE MCLoanService ---------------------------
(***************************************************************************)
(* A few workers, members, titles and records for TLC.                     *)
(***************************************************************************)
EXTENDS LoanService, TLC

CONSTANTS Limit

SameLimit == [m \in Members |-> Limit]

Interchangeable ==
    Permutations(Workers) \cup Permutations(Members)
        \cup Permutations(Books) \cup Permutations(Loans)
=============================================================================
