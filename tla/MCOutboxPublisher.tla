-------------------------- MODULE MCOutboxPublisher --------------------------
(* TLC instances of OutboxPublisher: e3 has no handler, so that one row of   *)
(* the batch is never dispatched.                                            *)
EXTENDS OutboxPublisher

CONSTANTS e1, e2, e3
=============================================================================
