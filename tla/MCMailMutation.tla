--------------------------- MODULE MCMailMutation ---------------------------
(* Model checking instances of MailMutation. *)
EXTENDS MailMutation, TLC

CONSTANTS c1, c2, m1

\* Calls differ only by name.
Symmetry == Permutations(Calls)
=============================================================================
