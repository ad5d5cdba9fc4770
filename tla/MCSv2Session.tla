-------------------------- MODULE MCSv2Session --------------------------
(* Instances of Sv2Session for TLC.                                        *)
EXTENDS Sv2Session

\* Once a batch has closed the connection the server drops the session.
MCAlive == ~(close_after_response /\ pc = "idle")
=============================================================================
