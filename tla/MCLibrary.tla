----------------------------- MODULE MCLibrary -----------------------------
(***************************************************************************)
(* A small library for TLC.  Members, titles and records are model values  *)
(* and interchangeable: every member has the same limit.                   *)
(***************************************************************************)
EXTENDS OverdueView, TLC

CONSTANTS Limit

SameLimit == [m \in Members |-> Limit]

Interchangeable ==
    Permutations(Members) \cup Permutations(Books) \cup Permutations(Loans)
=============================================================================
