----------------------------- MODULE MCSessions -----------------------------
(***************************************************************************)
(* A few workers and tokens for TLC.                                       *)
(***************************************************************************)
EXTENDS Sessions, TLC

Interchangeable == Permutations(Workers)
=============================================================================
