--------------------------- MODULE MCServiceLease ---------------------------
(* Small instances of ServiceLease for TLC. *)
EXTENDS ServiceLease, TLC

Symmetry == Permutations(Process)
=============================================================================
