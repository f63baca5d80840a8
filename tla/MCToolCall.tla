----------------------------- MODULE MCToolCall -----------------------------
(* Model checking instances of ToolCall. *)
EXTENDS ToolCall

CONSTANTS c1, c2, c3
=============================================================================
