------------------------ MODULE MCStratumSession ------------------------
(* Instances of StratumSession for TLC.                                    *)
EXTENDS StratumSession, TLC

\* A well-formed share, and one with a field too wide.
MCSolutions == {[n |-> 1, shape |-> s] : s \in {"good", "wide"}}
MCGood == {[n |-> 1, shape |-> "good"]}

\* Version bits: left out, and outside every mask.
MCBits == {NoBits, 2}
\* Version bits: left out, none rolled, one rolled.
MCSpellings == {NoBits, 0, 1}

MCSymmetry == Permutations(Addresses)
=============================================================================
