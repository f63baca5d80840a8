----------------------------- MODULE MCMailSend -----------------------------
(* Model checking instances of MailSend. *)
EXTENDS MailSend

CONSTANTS c1, c2, c3, r1, r2, m1, m2

=============================================================================
