------------------------- MODULE MCIdempotencyKeys -------------------------
(* Requests with one key; the bodies differ in what the client asks for. *)
EXTENDS IdempotencyKeys, TLC

CONSTANTS q1, q2, q3
=============================================================================
