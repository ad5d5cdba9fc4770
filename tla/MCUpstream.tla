----------------------------- MODULE MCUpstream -----------------------------
EXTENDS Upstream

\* Two endpoints, and one endpoint beside the IPC socket.
MCSetups == {[count |-> 2, ipc |-> FALSE], [count |-> 1, ipc |-> TRUE]}
==============================================================================
