-------------------------- MODULE MCDelegationChain -------------------------
(* Small instances of DelegationChain. *)
EXTENDS DelegationChain, TLC

CONSTANTS s1, s2, r1, r2

\* Every mix of resource_id and constraints.resources, a ttl or none.
MCGrants ==
    [scopes : SUBSET Scope, resource : Resource \cup {None},
     resources : SUBSET Resource, hops : 1..3,
     ttl : {None, 1, 2}, budget : {None}, expires : {1, 2}]

MCResourceScopes == (r1 :> {s1, s2}) @@ (r2 :> {s2})
=============================================================================
