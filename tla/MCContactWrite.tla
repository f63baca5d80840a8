--------------------------- MODULE MCContactWrite ---------------------------
(* Model checking instance of ContactWrite. *)
EXTENDS ContactWrite, TLC

\* Calls differ only by name, and so do the resources of the book.
Symmetry == Permutations(Calls) \cup Permutations(Hrefs)
=============================================================================
