------------------------------- MODULE Grants -------------------------------
(***************************************************************************)
(* What one delegation edge conveys, and the coordinator's rule for        *)
(* letting one edge be chained from another.  These are pure operators:    *)
(* DelegationChain walks chains built with them, Coordinator stores them   *)
(* on the edges of the delegation graph.                                   *)
(*                                                                         *)
(* A grant is the part of a delegation_edges row that bounds authority:    *)
(*   scopes     the edge's scopes                                          *)
(*   resource   resource_id, or None                                       *)
(*   resources  constraints_json.resources ({} when absent)                *)
(*   hops       constraints_json.max_hops (1 when absent)                  *)
(*   ttl        constraints_json.ttl_seconds, or None                      *)
(*   budget     constraints_json.budget, or None                           *)
(*   expires    expires_at                                                 *)
(***************************************************************************)
EXTENDS Naturals, FiniteSets

CONSTANTS
    Scope,      \* scopes a resource can define
    Resource,   \* resources of the zone
    ResourceScopes, \* [Resource -> SUBSET Scope]: resources.scopes
    None,       \* SQL NULL / an absent optional field
    MAX_DEPTH   \* agents.ts MAX_DEPTH, exchange.go maxDelegationHops (both 10)

ASSUME NoneAssumption == None \notin Nat /\ None \notin Resource
ASSUME ResourceScopesAssumption == ResourceScopes \in [Resource -> SUBSET Scope]
ASSUME MaxDepthAssumption == MAX_DEPTH \in Nat \ {0}

Grant == [scopes    : SUBSET Scope,
          resource  : Resource \cup {None},
          resources : SUBSET Resource,
          hops      : 1..MAX_DEPTH,
          ttl       : Nat \cup {None},
          budget    : Nat \cup {None},
          expires   : Nat]

-----------------------------------------------------------------------------
(* The coordinator's side *)

\* The resources a request names, by row id and by identifier.
Named(g) == g.resources \cup (IF g.resource = None THEN {} ELSE {g.resource})

\* A request that names both a resource_id and identifiers must list the
\* resource_id among the identifiers (delegation_resource_scope_mismatch).
ResolveResourceAuthority(g) ==
    g.resource # None /\ g.resources # {} => g.resource \in g.resources

\* What POST /delegations asks of the requested grant, whatever the parent:
\* the named resources together must offer every scope asked for.
RequestAccepted(g) ==
    /\ ResolveResourceAuthority(g)
    /\ Named(g) # {} =>
           g.scopes \subseteq UNION {ResourceScopes[r] : r \in Named(g)}

\* Mutant: a child that names no resource at all passes as narrow.
ResourcesNarrowVacuously(parent, child) ==
    IF parent.resource # None
    THEN \A r \in Named(child) : r = parent.resource
    ELSE parent.resources # {} => Named(child) \subseteq parent.resources

ResourcesNarrowParent(parent, child) ==
    IF parent.resource # None
    THEN \/ child.resource = parent.resource
         \/ Named(child) # {} /\ \A r \in Named(child) : r = parent.resource
    ELSE parent.resources # {} =>
             Named(child) # {} /\ Named(child) \subseteq parent.resources

\* A child that states no budget is measured by its number of scopes.
BudgetOf(child) ==
    IF child.budget = None THEN Cardinality(child.scopes) ELSE child.budget

ParentAllowsDelegation(parent, child) ==
    /\ child.scopes \subseteq parent.scopes
    /\ child.expires <= parent.expires
    /\ ResourcesNarrowParent(parent, child)
    /\ parent.hops > 1
    /\ child.hops <= parent.hops - 1
    /\ parent.ttl # None => child.ttl # None /\ child.ttl <= parent.ttl
    /\ parent.budget # None => BudgetOf(child) <= parent.budget

-----------------------------------------------------------------------------
(* The token service's side: what an edge lets its holder mint. *)

\* delegationAllowsResource: both bounds apply when both are present.
DelegationAllowsResource(g, r) ==
    /\ g.resource # None => r = g.resource
    /\ g.resources # {} => r \in g.resources

AllowedResources(g) == {r \in Resource : DelegationAllowsResource(g, r)}

\* parseDelegationConstraints decodes with DisallowUnknownFields into a struct
\* that has no budget field.
ConstraintsParse(g) == g.budget = None
=============================================================================
