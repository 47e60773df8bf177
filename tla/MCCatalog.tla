----------------------------- MODULE MCCatalog -----------------------------
(***************************************************************************)
(* Three names, two of which differ by their case only; the long run takes *)
(* two of them.  An edit of a book sends its publisher or its categories.  *)
(***************************************************************************)
EXTENDS Catalog, TLC

NamesOf == {"Art", "ART", "Law"}
TwoNames == {"Art", "Law"}
FoldOf == [n \in NamesOf |-> IF n = "Law" THEN "law" ELSE "art"]
SlugFor == FoldOf
OneField == {{"publisher"}, {"categories"}}

Interchangeable == Permutations(Categories) \cup Permutations(Workers)
=============================================================================
