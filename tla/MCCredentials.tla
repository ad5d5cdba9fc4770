--------------------------- MODULE MCCredentials ---------------------------
EXTENDS Credentials, TLC

CONSTANTS p1, p2

MCProcs == {p1, p2}
MCTimes == 0..2
Symmetry == Permutations(MCProcs)
==============================================================================
