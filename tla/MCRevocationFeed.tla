-------------------------- MODULE MCRevocationFeed --------------------------
(* Small instances of RevocationFeed for TLC. *)
EXTENDS RevocationFeed
=============================================================================
