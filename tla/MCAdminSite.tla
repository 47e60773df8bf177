---------------------------- MODULE MCAdminSite ----------------------------
(***************************************************************************)
(* One title, and members that are interchangeable.                        *)
(***************************************************************************)
EXTENDS AdminSite, TLC

CONSTANTS Limit

SameLimit == [m \in Members |-> Limit]

Interchangeable ==
    Permutations(Members) \cup Permutations(Books) \cup Permutations(Loans)
=============================================================================
