------------------------- MODULE WorkPublicationFeed --------------------------
(* WorkPublication seen as a WorkFeed: the published jobs, and the last job  *)
(* each SV1 session was sent.                                                *)
EXTENDS WorkPublication

Feed == INSTANCE WorkFeed WITH
    Miners <- Sv1, feed <- log, at <- [c \in Sv1 |-> work[c]]

\* The two publishing threads, the publication thread and the sessions together
\* behave, towards SV1 miners, as one feed that only grows by acceptable jobs and
\* serves each miner forward (broadcast_job and Session::send_notify).
ImplementsFeed == Feed!Spec
=============================================================================
