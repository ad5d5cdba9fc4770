------------------------------ MODULE Vardiff ------------------------------
(* The difficulty arithmetic both session classes use (stratum/session.cpp). *)
(* Difficulties are positive integers; a configuration without a maximum is *)
(* one whose maximum is never reached.                                     *)
EXTENDS Integers

CONSTANTS MinimumDifficulty, MaximumDifficulty

ASSUME VardiffAssumption ==
  /\ MinimumDifficulty \in Nat \ {0} /\ MaximumDifficulty \in Nat
  /\ MinimumDifficulty <= MaximumDifficulty

Larger(a, b) == IF a > b THEN a ELSE b
Smaller(a, b) == IF a < b THEN a ELSE b

\* std::clamp, and clamp_suggested_difficulty for a value that is a number.
Clamp(d) == Smaller(Larger(d, MinimumDifficulty), MaximumDifficulty)

\* vardiff_next, where a rate is "fast" above twice the target shares per minute
\* and "slow" below half of it.
VardiffNext(current, rate) ==
  CASE rate = "fast" /\ Clamp(current) < MaximumDifficulty ->
         Smaller(MaximumDifficulty, Clamp(current) * 2)
    [] rate = "slow" -> Larger(MinimumDifficulty, Clamp(current) \div 2)
    [] OTHER -> Clamp(current)

\* What the rate since the last retarget may be: without a share it is zero.
RatesAfter(mined) == IF mined THEN {"fast", "steady", "slow"} ELSE {"slow"}
=============================================================================
