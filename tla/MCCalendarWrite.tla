-------------------------- MODULE MCCalendarWrite ---------------------------
(* Model checking instances of CalendarWrite. *)
EXTENDS CalendarWrite, TLC

CONSTANTS c1, c2, u1, u2, direct, imported

\* The first path is named after u1, the second one after u2.
MCDirectPath == [u \in Targets |-> IF u = u1 THEN direct ELSE imported]

\* Calls differ only by name.
Symmetry == Permutations(Calls)
=============================================================================
