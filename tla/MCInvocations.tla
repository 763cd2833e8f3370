--------------------------- MODULE MCInvocations ---------------------------
(* A small instance of Invocations for TLC. *)
EXTENDS Invocations
=============================================================================
