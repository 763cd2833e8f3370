----------------------------- MODULE MCReceipts -----------------------------
(* Small instances of Receipts for TLC. *)
EXTENDS Receipts, TLC

\* The documented rotation: the new key with the former one as the previous
\* key, and then alone.
MCRotation == <<<<"k1", "k1">>, <<"k2", "k1">>, <<"k2", "k2">>>>

Symmetry == Permutations(Server) \cup Permutations(Key) \cup Permutations(Body)
=============================================================================
