---------------------------- MODULE MCDiscovery ----------------------------
(* Instance of Discovery for TLC. *)
EXTENDS Discovery

CONSTANTS c1, c2, c3
=============================================================================
