-------------------------- MODULE MCBlockSubmission --------------------------
(* Instances of BlockSubmission for TLC.                                    *)
EXTENDS BlockSubmission

\* x is a valid block, y is one the nodes refuse.
MCFound == {"x", "y"}
MCHeight == [h \in MCFound |-> 2]

\* n2 is a block behind n1, so it lacks the parent of the block at first.
MCNodes == {"n1", "n2"}
MCLagging == [n \in MCNodes |-> IF n = "n1" THEN 1 ELSE 0]

\* The valid block is found, with one of: a lost message, a failed disk operation,
\* another find.  Or the refused block is found once, with one of the first two.
MCOneMishap ==
  /\ lost + io_failures + finds["x"] <= 2 /\ lost + io_failures <= 1
  /\ finds["y"] > 0 => finds["x"] = 0 /\ finds["y"] = 1
=============================================================================
