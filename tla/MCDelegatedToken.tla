-------------------------- MODULE MCDelegatedToken --------------------------
\* A chain of three edges between four sessions, s1 -> s2 -> s3 -> s4.
EXTENDS DelegatedToken, TLC

CONSTANTS s1, s2, s3, s4, e1, e2, e3, r

MCSource == e1 :> s1 @@ e2 :> s2 @@ e3 :> s3
MCTarget == e1 :> s2 @@ e2 :> s3 @@ e3 :> s4
MCParent == e1 :> NoParent @@ e2 :> e1 @@ e3 :> e2
MCRecord == [s \in Session |-> r]
=============================================================================
