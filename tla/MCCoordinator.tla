--------------------------- MODULE MCCoordinator ----------------------------
(* Small instances of Coordinator for TLC. *)
EXTENDS Coordinator, TLC

CONSTANTS user, derived    \* the records named below

Symmetry == Permutations(Session) \cup Permutations(Edge)

\* A user's record with a record minted from it, and an application's own.
MCRecordParent == [r \in Record |-> IF r = derived THEN user ELSE None]

\* The derived record lapses before the end of time, the others do not.
MCRecordExpires == [r \in Record |-> IF r = derived THEN 2 ELSE MaxTime + 1]

MCResourceScopes == [r \in Resource |-> Scope]

MCGrant(hops, expires) ==
    [scopes |-> Scope, resource |-> None, resources |-> {}, hops |-> hops,
     ttl |-> None, budget |-> None, expires |-> expires]

\* A grant that may be chained once and outlives the clock, and one that may
\* not be chained and runs out.
MCGrants == {MCGrant(2, MaxTime + 1), MCGrant(1, 1)}
=============================================================================
