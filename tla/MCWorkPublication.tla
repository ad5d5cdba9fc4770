-------------------------- MODULE MCWorkPublication --------------------------
(* Instances of WorkPublication for TLC: one block above the first tip, and *)
(* a fork of two blocks above it with a block above the fork.               *)
EXTENDS WorkPublicationFeed, TLC

MCChain == {"g", "a"}
MCChainHeight == ("g" :> 1) @@ ("a" :> 2)
MCTree == {"g", "a", "b", "c"}
MCTreeHeight == ("g" :> 1) @@ ("a" :> 2) @@ ("b" :> 2) @@ ("c" :> 3)

\* One connection in a behaviour, of either protocol.
MCOneConnection == Cardinality(clients \cup departed) <= 1
=============================================================================
