------------------------- MODULE MCIdempotencyStore -------------------------
(* Model checking instances of IdempotencyStore. *)
EXTENDS IdempotencyStore

CONSTANTS c1, c2, c3, p1, p2

=============================================================================
