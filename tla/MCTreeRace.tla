----------------------------- MODULE MCTreeRace -----------------------------
(* Small instances of TreeRace for TLC. *)
EXTENDS TreeRace, TLC

CONSTANTS s1, s2, s3, s4, s5

Symmetry == Permutations(Txn)

\* A root with two children, one of which has a child of its own, and another
\* root.
MCParent == (s1 :> None) @@ (s2 :> s1) @@ (s3 :> s2) @@ (s4 :> s1) @@ (s5 :> None)
=============================================================================
