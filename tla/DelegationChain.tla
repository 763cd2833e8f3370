-------------------------- MODULE DelegationChain ---------------------------
(***************************************************************************)
(* One chain of delegation edges linked by parent_edge_id, grown by the    *)
(* coordinator and read by the token service.                              *)
(*                                                                         *)
(* The token service bounds a mandate by the LAST edge of the chain only   *)
(* (validateSessionReferences looks at the presented edge's scopes,        *)
(* resources and ttl, and asks of its ancestors only that they are live),  *)
(* so whatever the first edge was meant to bound holds for a mandate       *)
(* exactly when no link of the chain widens anything.                      *)
(***************************************************************************)
EXTENDS Grants

CONSTANTS
    Grants,         \* the grants callers ask for
    Application,    \* applications that own sessions
    MaxLength       \* bound: edges in the modelled chain

ASSUME GrantsAssumption == Grants \subseteq Grant
ASSUME MaxLengthAssumption == MaxLength \in Nat \ {0}

VARIABLES
    root,       \* grant of the first edge (parent_edge_id IS NULL)
    last,       \* grant of the newest edge
    length,     \* edges in the chain
    issuer,     \* issuer_application_id of the first edge
    source,     \* issuer_application_id of the newest edge
    receiver    \* receiver_application_id of the newest edge

vars == <<root, last, length, issuer, source, receiver>>

Init ==
    /\ root \in {g \in Grants : RequestAccepted(g)}
    /\ last = root
    /\ length = 1
    /\ issuer \in Application
    /\ source = issuer
    /\ receiver \in Application

\* POST /delegations from the session the newest edge points at.
Delegate(g, a) ==
    /\ length < MaxLength
    /\ RequestAccepted(g)
    /\ ParentAllowsDelegation(last, g)
    /\ last' = g
    /\ length' = length + 1
    /\ source' = receiver
    /\ receiver' = a
    /\ UNCHANGED <<root, issuer>>

\* POST /agents with parent_authority = inherit: inheritParentEdge copies the
\* parent's edge onto the child session of the same application.
Inherit ==
    /\ length < MaxLength
    /\ length' = length + 1
    /\ source' = receiver
    /\ UNCHANGED <<root, last, issuer, receiver>>

Next ==
    \/ \E g \in Grants, a \in Application : Delegate(g, a)
    \/ Inherit

Spec == Init /\ [][Next]_vars

-----------------------------------------------------------------------------
(* The token service's reading of the chain, all edges and sessions live.  *)

\* Mutant: the walk is allowed one edge too many.
LineageResolvesOffByOne == length <= last.hops + 1

\* GetDelegationLineage walks parent_edge_id for at most max_hops edges, the
\* PRESENTED edge's own max_hops, and yields a path only if it gets to the
\* first edge.
LineageResolves == length <= last.hops

\* buildDelegationChain: the first hop's application must be the application
\* of the session the presented edge starts from.
ChainEndpointsMatch == issuer = source

StsAccepts == ConstraintsParse(last) /\ LineageResolves /\ ChainEndpointsMatch

-----------------------------------------------------------------------------
(* Properties *)

TypeOK ==
    /\ root \in Grant
    /\ last \in Grant
    /\ length \in 1..MaxLength
    /\ issuer \in Application
    /\ source \in Application
    /\ receiver \in Application

\* The newest edge lets its holder mint nothing the first edge did not allow:
\* scopes, resources, lifetime, hop allowance and per-mandate ttl only shrink
\* along the chain, however resource_id and constraints.resources are mixed.
ChainNarrows ==
    /\ last.scopes \subseteq root.scopes
    /\ AllowedResources(last) \subseteq AllowedResources(root)
    /\ last.expires <= root.expires
    /\ last.hops <= root.hops
    /\ root.ttl # None => last.ttl # None /\ last.ttl <= root.ttl

\* max_hops bounds how deep a chain can be and still be minted from, although
\* the coordinator itself does not count the edges inheritParentEdge copies.
MintedDepthBounded == StsAccepts => length <= root.hops
=============================================================================
