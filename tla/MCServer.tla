----------------------------- MODULE MCServer -----------------------------
\* Model checking of Server.
EXTENDS Server
==============================================================================
