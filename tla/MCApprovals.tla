---------------------------- MODULE MCApprovals ----------------------------
\* Instance of Approvals: v1 asks for a decision of either plane, v2 for none.
EXTENDS Approvals, TLC

CONSTANTS v1, v2

MCGate == v1 :> "any" @@ v2 :> "open"

Symmetry == Permutations(Mint)
=============================================================================
