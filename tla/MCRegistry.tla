----------------------------- MODULE MCRegistry -----------------------------
EXTENDS Registry, TLC

CONSTANTS x, y, a, b

MCNames == {Bare, a, b}

\* Two addresses where one fits, or two names of one address.
MCSetups ==
  {[workers |-> {<<x, Bare>>, <<y, Bare>>}, caps |-> {0}],
   [workers |-> {<<x, a>>, <<x, b>>}, caps |-> {1, 2}]}

\* The two names are alike in every setup.
MCSymmetry == Permutations({a, b})
==============================================================================
