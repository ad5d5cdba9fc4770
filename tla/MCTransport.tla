---------------------------- MODULE MCTransport ----------------------------
\* Model checking of Transport.
EXTENDS Transport
==============================================================================
