---------------------------- MODULE Coordinator -----------------------------
(***************************************************************************)
(* The coordinator's authority state for one zone: the tree of governed    *)
(* sessions, the delegation graph between them, the authority records      *)
(* sessions are anchored to, and the revocation feed that carries session  *)
(* endings to the token service.                                           *)
(*                                                                         *)
(* Every action is one committed transaction of one handler or job; a      *)
(* handler that rolls back changes nothing and is not an action.  What     *)
(* overlapping transactions can do to each other is module TreeRace.       *)
(* The clock is Postgres now(), which every handler and job reads.         *)
(***************************************************************************)
EXTENDS Grants

CONSTANTS
    Session,              \* session ids
    Edge,                 \* delegation edge ids
    Record,               \* authority record ids
    UserRecord,           \* those with session_type = 'user'
    RecordParent,         \* [Record -> Record \cup {None}]: parent_id
    RecordExpires,        \* [Record -> Nat]: expires_at
    Application,          \* application ids
    Dcr,                  \* those with registration_method = 'dcr'
    Grants,               \* grants callers ask for
    Lifecycles,           \* lifecycles callers ask for
    TTLs,                 \* ttl_seconds callers ask for
    Lease,                \* cfg.serviceSessionLeaseSeconds
    MAX_CHILDREN,         \* agents.ts MAX_CHILDREN
    MaxSessionsPerZone,   \* cfg.maxSessionsPerZone
    MaxSessionsPerApp,    \* cfg.maxSessionsPerApp
    SessionRetention,     \* cfg.sessionRetentionDays
    DelegationRetention,  \* cfg.delegationRetentionDays
    SweepBatch,           \* cfg.sweeperBatchSize
    MaxTime               \* bound: last instant of the clock

ASSUME IdAssumption ==
    None \notin Session \cup Edge \cup Record \cup Application
ASSUME RecordAssumption ==
    /\ UserRecord \subseteq Record
    /\ RecordParent \in [Record -> Record \cup {None}]
    /\ RecordExpires \in [Record -> Nat]
ASSUME ConfigAssumption ==
    /\ Dcr \subseteq Application
    /\ Grants \subseteq Grant
    /\ Lifecycles \subseteq {"task", "service"}
    /\ TTLs \subseteq Nat
    /\ {Lease, MAX_CHILDREN, MaxSessionsPerZone, MaxSessionsPerApp,
        SessionRetention, DelegationRetention, SweepBatch, MaxTime} \subseteq Nat
ASSUME FiniteAssumption == IsFiniteSet(Session)

VARIABLES
    now,      \* the database clock
    session,  \* the sessions table
    edge,     \* the delegation_edges table
    record,   \* authority_records.status
    epoch,    \* delegation_graph_epochs.epoch
    feed      \* records named by a caracal.sessions.revoke outbox row

vars == <<now, session, edge, record, epoch, feed>>

\* A session row.  deadline is started_at + ttl_seconds for a task and
\* heartbeat_deadline_at for a service; lease_generation, which fences the
\* processes that hold a service session, is in module ServiceLease.
SessionRow ==
    [status     : {"absent", "active", "suspended", "terminated", "expired", "deleted"},
     parent     : Session \cup {None},
     app        : Application \cup {None},
     subject    : Record \cup {None},
     lifecycle  : {"task", "service"},
     depth      : 0..MAX_DEPTH,
     children   : Nat,
     deadline   : Nat,
     ended      : Nat]

NoSession(st) ==
    [status |-> st, parent |-> None, app |-> None, subject |-> None,
     lifecycle |-> "task", depth |-> 0, children |-> 0, deadline |-> 0,
     ended |-> 0]

\* An edge row; parent is parent_edge_id, revoked is revoked_at.
EdgeRow ==
    [status  : {"absent", "active", "revoked", "expired", "deleted"},
     source  : Session \cup {None},
     target  : Session \cup {None},
     parent  : Edge \cup {None},
     grant   : Grant,
     revoked : Nat]

NoGrant == [scopes |-> {}, resource |-> None, resources |-> {}, hops |-> 1,
            ttl |-> None, budget |-> None, expires |-> 0]

NoEdge(st) ==
    [status |-> st, source |-> None, target |-> None, parent |-> None,
     grant |-> NoGrant, revoked |-> 0]

Init ==
    /\ now = 0
    /\ session = [s \in Session |-> NoSession("absent")]
    /\ edge = [e \in Edge |-> NoEdge("absent")]
    /\ record = [r \in Record |-> "active"]
    /\ epoch = 0
    /\ feed = {}

-----------------------------------------------------------------------------
(* Predicates of the queries *)

With(st) == {s \in Session : session[s].status \in st}
Active == With({"active"})
Live == With({"active", "suspended"})
Ended == With({"terminated", "expired"})
Stored == With({"active", "suspended", "terminated", "expired"})

\* authority_records: status = 'active' AND expires_at > now().
RecordActive(r) == record[r] = "active" /\ RecordExpires[r] > now

\* subject_anchor_active in the lease and heartbeat queries.
AnchorActive(s) ==
    session[s].subject \in UserRecord => RecordActive(session[s].subject)

\* The sessions the capacity query counts.
HoldsSlot(s) ==
    /\ s \in Live
    /\ \/ session[s].lifecycle = "service" /\ session[s].status = "suspended"
       \/ session[s].deadline > now

\* Edges as every reader of the graph takes them.
ActiveEdges == {e \in Edge : edge[e].status = "active"}
LiveEdges == {e \in ActiveEdges : edge[e].grant.expires > now}
StoredEdges == {e \in Edge : edge[e].status \in {"active", "revoked", "expired"}}

\* The recursive CTEs over sessions: the roots that satisfy the status filter
\* and every session reached from them by parent links that satisfy it.
Subtree(roots, within) ==
    {s \in within :
        \A T \in SUBSET Session :
            roots \cap within \subseteq T
              /\ (\A c \in within : session[c].parent \in T => c \in T)
            => s \in T}

\* Paths of n edges of among, each leading on from its predecessor's target.
Paths(n, among) ==
    {p \in [1..n -> among] :
        \A i \in 1..(n - 1) : edge[p[i + 1]].source = edge[p[i]].target}

\* The recursive CTEs over edges: what is reached from the edges of first by
\* paths of at most MAX_DEPTH edges of among (cardinality(visited) < MAX_DEPTH).
Downstream(first, among) ==
    {e \in among : \E n \in 1..MAX_DEPTH : \E p \in Paths(n, among) :
                       p[1] \in first /\ p[n] = e}

\* Mutant: the walk stops an edge early.
WouldCreateCycleShort(src, tgt) ==
    \E n \in 1..(MAX_DEPTH - 1) : \E p \in Paths(n, LiveEdges) :
        edge[p[1]].source = tgt /\ edge[p[n]].target = src

WouldCreateCycle(src, tgt) ==
    \E e \in Downstream({f \in LiveEdges : edge[f].source = tgt}, LiveEdges) :
        edge[e].target = src

Subjects(sessions) == {r \in Record : \E s \in sessions : session[s].subject = r}

\* Mutant: the sessions being ended count as live referents of their records.
ExemptForgetsBatch(affected) == (Record \ UserRecord) \cup Subjects(Live)

\* Mutant: application records are spared, shared user records are not.
ExemptApplications(affected) == Record \ UserRecord

\* revocationExemptSessions: records other live sessions still refer to, and
\* application records.
Exempt(affected) == (Record \ UserRecord) \cup Subjects(Live \ affected)

RevokedSubjects(affected) == Subjects(affected) \ Exempt(affected)

-----------------------------------------------------------------------------
(* Statements shared by several handlers *)

\* suspendSubtree(rootIds).
SuspendSubtree(roots) ==
    LET hit == Subtree(roots, Active) IN
    /\ session' = [s \in Session |->
           IF s \in hit
           THEN [session[s] EXCEPT !.status = "suspended"]
           ELSE session[s]]
    /\ feed' = feed \cup RevokedSubjects(hit)
    /\ UNCHANGED <<now, edge, record, epoch>>

\* Mutant: the parents that stay behind keep counting the ended children.
SessionsTerminatedNoDecrement(gone, roots, rootStatus) ==
    [s \in Session |->
        IF s \in gone
        THEN [session[s] EXCEPT
                 !.status = IF s \in roots THEN rootStatus ELSE "terminated",
                 !.ended = now]
        ELSE session[s]]

\* Mutant: children that had ended before are subtracted again.
SessionsTerminatedRecount(gone, roots, rootStatus) ==
    [s \in Session |->
        IF s \in gone
        THEN [session[s] EXCEPT
                 !.status = IF s \in roots THEN rootStatus ELSE "terminated",
                 !.ended = now]
        ELSE LET dec == Cardinality({c \in gone \cup Ended : session[c].parent = s})
             IN  [session[s] EXCEPT !.children = @ - dec]]

\* The sessions UPDATE of terminateSubtree, with the decrement of the
\* child_count of parents that stay behind.
SessionsTerminated(gone, roots, rootStatus) ==
    [s \in Session |->
        IF s \in gone
        THEN [session[s] EXCEPT
                 !.status = IF s \in roots THEN rootStatus ELSE "terminated",
                 !.ended = now]
        ELSE LET dec == Cardinality({c \in gone : session[c].parent = s})
             IN  [session[s] EXCEPT !.children = IF @ > dec THEN @ - dec ELSE 0]]

\* Mutant: only the edges an ended session issued are cut.
EdgesAtSource(gone) == {e \in ActiveEdges : edge[e].source \in gone}

\* The delegation_edges UPDATE of terminateSubtree.
EdgesAt(gone) ==
    {e \in ActiveEdges : edge[e].source \in gone \/ edge[e].target \in gone}

EdgesRevoked(cut) ==
    [e \in Edge |->
        IF e \in cut
        THEN [edge[e] EXCEPT !.status = "revoked", !.revoked = now]
        ELSE edge[e]]

\* Mutant: the cascade stops at suspended sessions.
TerminateSubtreeOfActive(roots, rootStatus) ==
    LET gone == (roots \cap Live) \cup Subtree(roots, Active)
        cut  == EdgesAt(gone)
    IN
    /\ session' = SessionsTerminated(gone, roots, rootStatus)
    /\ edge' = EdgesRevoked(cut)
    /\ epoch' = IF cut = {} THEN epoch ELSE epoch + 1
    /\ feed' = feed \cup RevokedSubjects(gone)
    /\ UNCHANGED <<now, record>>

\* Mutant: the edges are cut and the graph epoch stays as it was.
TerminateSubtreeSameEpoch(roots, rootStatus) ==
    LET gone == Subtree(roots, Live) IN
    /\ session' = SessionsTerminated(gone, roots, rootStatus)
    /\ edge' = EdgesRevoked(EdgesAt(gone))
    /\ feed' = feed \cup RevokedSubjects(gone)
    /\ UNCHANGED <<now, record, epoch>>

\* terminateSubtree(rootIds, rootStatus).
TerminateSubtree(roots, rootStatus) ==
    LET gone == Subtree(roots, Live)
        cut  == EdgesAt(gone)
    IN
    /\ session' = SessionsTerminated(gone, roots, rootStatus)
    /\ edge' = EdgesRevoked(cut)
    /\ epoch' = IF cut = {} THEN epoch ELSE epoch + 1
    /\ feed' = feed \cup RevokedSubjects(gone)
    /\ UNCHANGED <<now, record>>

-----------------------------------------------------------------------------
(* Session routes *)

\* The checks of POST /agents, in the order of their early returns.
StartAllowed(p, a, r, l) ==
    /\ a \in Dcr => l = "task" /\ p = None
    /\ RecordActive(r)
    /\ Cardinality({s \in Session : HoldsSlot(s)}) < MaxSessionsPerZone
    /\ LET mine == {s \in Session : HoldsSlot(s) /\ session[s].app = a} IN
       /\ a \in Dcr => mine = {}
       /\ Cardinality(mine) < MaxSessionsPerApp
    /\ p # None =>
       /\ p \in Active
       /\ session[p].app \notin Dcr
       /\ session[p].lifecycle = "task" => l = "task"
       /\ session[p].children < MAX_CHILDREN
       /\ session[p].depth + 1 <= MAX_DEPTH

SessionsStarted(s, p, a, r, l, ttl) ==
    [t \in Session |->
        IF t = s
        THEN [status |-> "active", parent |-> p, app |-> a, subject |-> r,
              lifecycle |-> l,
              depth |-> IF p = None THEN 0 ELSE session[p].depth + 1,
              children |-> 0,
              deadline |-> now + (IF l = "service" THEN Lease ELSE ttl),
              ended |-> 0]
        ELSE IF t = p
        THEN [session[p] EXCEPT !.children = @ + 1]
        ELSE session[t]]

\* The rows inheritParentEdge selects: the parent's inbound edges held by the
\* child's own application, narrowed to the explicit one when it is named.
InheritRows(p, a, how) ==
    {e \in StoredEdges : /\ edge[e].target = p
                         /\ session[p].app = a
                         /\ how \in Edge => e = how}

\* A start that records no edge: a root, parent_authority 'none', or a parent
\* that never held an edge.
Start(s, p, a, r, l, ttl, how) ==
    /\ session[s].status = "absent"
    /\ StartAllowed(p, a, r, l)
    /\ \/ p = None
       \/ how = "none"
       \/ how = "inherit" /\ InheritRows(p, a, how) = {}
    /\ session' = SessionsStarted(s, p, a, r, l, ttl)
    /\ UNCHANGED <<now, edge, record, epoch, feed>>

\* A start that mirrors the parent's one live edge onto the child.
StartInheriting(s, p, a, r, l, ttl, how, e) ==
    /\ session[s].status = "absent"
    /\ edge[e].status = "absent"
    /\ StartAllowed(p, a, r, l)
    /\ p # None
    /\ how # "none"
    /\ \E f \in LiveEdges :
       /\ InheritRows(p, a, how) \cap LiveEdges = {f}
       /\ edge' = [edge EXCEPT ![e] =
              [status |-> "active", source |-> p, target |-> s, parent |-> f,
               grant |-> edge[f].grant, revoked |-> 0]]
    /\ session' = SessionsStarted(s, p, a, r, l, ttl)
    /\ epoch' = epoch + 1
    /\ UNCHANGED <<now, record, feed>>

\* PATCH /agents/:id/suspend.
Suspend(s) ==
    /\ s \in Active
    /\ SuspendSubtree({s})

\* Mutant: the recursive query takes every session that is not active.
ResumeNotActive(s) ==
    /\ s \in Stored \ Active
    /\ LET hit == Subtree({s}, Stored \ Active) IN
       session' = [t \in Session |->
           IF t \in hit THEN [session[t] EXCEPT !.status = "active"]
           ELSE session[t]]
    /\ UNCHANGED <<now, edge, record, epoch, feed>>

\* PATCH /agents/:id/resume.
Resume(s) ==
    /\ s \in With({"suspended"})
    /\ LET hit == Subtree({s}, With({"suspended"})) IN
       session' = [t \in Session |->
           IF t \in hit
           THEN [session[t] EXCEPT
                    !.status = "active",
                    !.deadline = IF session[t].lifecycle = "service"
                                 THEN now + Lease ELSE @]
           ELSE session[t]]
    /\ UNCHANGED <<now, edge, record, epoch, feed>>

\* DELETE /agents/:id, by an administrator or by the holder of the current
\* lease generation: one or the other may call at any time.
Terminate(s) ==
    /\ s \in Live
    /\ TerminateSubtree({s}, "terminated")

RenewLease(s) ==
    /\ session' = [session EXCEPT ![s].deadline = now + Lease]
    /\ UNCHANGED <<now, edge, record, epoch, feed>>

\* POST /agents/:id/lease: a process takes the service session over.
AttachLease(s) ==
    /\ s \in Active
    /\ session[s].lifecycle = "service"
    /\ \/ /\ ~AnchorActive(s)
          /\ TerminateSubtree({s}, "terminated")
       \/ /\ AnchorActive(s)
          /\ session[s].deadline <= now
          /\ SuspendSubtree({s})
       \/ /\ AnchorActive(s)
          /\ session[s].deadline > now
          /\ RenewLease(s)

\* POST /agents/:id/heartbeat by the current holder.  A suspended session's
\* deadline is renewed too.
Heartbeat(s) ==
    /\ s \in Live
    /\ session[s].lifecycle = "service"
    /\ \/ /\ ~AnchorActive(s)
          /\ TerminateSubtree({s}, "terminated")
       \/ /\ AnchorActive(s)
          /\ session[s].status = "active" /\ session[s].deadline <= now
          /\ SuspendSubtree({s})
       \/ /\ AnchorActive(s)
          /\ session[s].status = "suspended" \/ session[s].deadline > now
          /\ RenewLease(s)

-----------------------------------------------------------------------------
(* Delegation routes *)

\* POST /delegations.  A source that holds live inbound edges must chain from
\* one of them; a source that holds none delegates as a root.
CreateDelegation(e, src, tgt, p, g) ==
    /\ edge[e].status = "absent"
    /\ src # tgt
    /\ {src, tgt} \subseteq Active
    /\ session[src].deadline > now /\ session[tgt].deadline > now
    /\ RequestAccepted(g)
    /\ LET parents == {f \in LiveEdges : edge[f].target = src} IN
       IF parents = {} THEN p = None
       ELSE p \in parents /\ ParentAllowsDelegation(edge[p].grant, g)
    /\ ~WouldCreateCycle(src, tgt)
    /\ g.expires > now
    /\ edge' = [edge EXCEPT ![e] =
           [status |-> "active", source |-> src, target |-> tgt, parent |-> p,
            grant |-> g, revoked |-> 0]]
    /\ epoch' = epoch + 1
    /\ UNCHANGED <<now, session, record, feed>>

\* PATCH /delegations/:id/revoke: the edge, what is downstream of it, the live
\* sessions those edges point at with everything below them, and the records
\* of those target sessions, exempt or not.
RevokeDelegation(e) ==
    /\ e \in ActiveEdges
    /\ LET affected == Downstream({e}, ActiveEdges)
           targets  == {edge[f].target : f \in affected} \cap Live
           gone     == Subtree(targets, Live)
           severed  == EdgesAt(gone) \ affected
       IN
       /\ session' = SessionsTerminated(gone, targets, "terminated")
       /\ edge' = EdgesRevoked(affected \cup severed)
       /\ epoch' = IF severed = {} THEN epoch + 1 ELSE epoch + 2
       /\ feed' = feed \cup RevokedSubjects(gone)
                       \cup Subjects(targets)
    /\ UNCHANGED <<now, record>>

-----------------------------------------------------------------------------
(* Background jobs *)

\* LIMIT cfg.sweeperBatchSize over the rows a sweeper selects.  Ids carry the
\* clocks of several coordinators, so any of the rows may come first.
Batches(due) ==
    {b \in SUBSET due : Cardinality(b) = (IF Cardinality(due) < SweepBatch
                                         THEN Cardinality(due) ELSE SweepBatch)}

Due(sessions, l) ==
    {s \in sessions : session[s].lifecycle = l /\ session[s].deadline < now}

\* Mutant: suspended tasks are left out, as suspended services are.
TTLSweepOfActive ==
    \E batch \in Batches(Due(Active, "task")) :
        batch # {} /\ TerminateSubtree(batch, "expired")

\* runTTLSweep: a batch of tasks past their ttl.
TTLSweep ==
    \E batch \in Batches(Due(Live, "task")) :
        batch # {} /\ TerminateSubtree(batch, "expired")

\* Mutant: only root sessions are swept.
ServiceLeaseSweepOfRoots ==
    \E batch \in Batches({s \in Due(Active, "service") : session[s].parent = None}) :
        batch # {} /\ SuspendSubtree(batch)

\* runServiceLeaseSweep: a batch of services past their lease.
ServiceLeaseSweep ==
    \E batch \in Batches(Due(Active, "service")) :
        batch # {} /\ SuspendSubtree(batch)

\* Mutant: an old edge goes even when a live edge is chained from it.
PrunableEdgeWithChildren(e, expiring) ==
    \/ edge[e].status = "revoked" /\ edge[e].revoked + DelegationRetention < now
    \/ /\ edge[e].status = "expired" \/ e \in expiring
       /\ edge[e].grant.expires + DelegationRetention < now

\* An old revoked or expired edge nothing live still chains from.
PrunableEdge(e, expiring) ==
    /\ \/ edge[e].status = "revoked" /\ edge[e].revoked + DelegationRetention < now
       \/ /\ edge[e].status = "expired" \/ e \in expiring
          /\ edge[e].grant.expires + DelegationRetention < now
    /\ ~\E c \in LiveEdges : edge[c].parent = e

\* An old ended session no stored session has as its parent.
PrunableSession(s) ==
    /\ s \in Ended
    /\ session[s].ended + SessionRetention < now
    /\ ~\E c \in Stored : session[c].parent = s

\* runRetentionCleanup: expire edges, prune edges, prune sessions.  Deleting a
\* session deletes its edges (ON DELETE CASCADE) and deleting an edge clears
\* the parent_edge_id of its children (ON DELETE SET NULL).
RetentionCleanup(expiring, oldEdges, oldSessions) ==
    LET dropped == oldEdges \cup {e \in StoredEdges :
                       edge[e].source \in oldSessions \/ edge[e].target \in oldSessions}
    IN
    /\ expiring \cup oldEdges \cup oldSessions # {}
    /\ edge' = [e \in Edge |->
           IF e \in dropped THEN NoEdge("deleted")
           ELSE [edge[e] EXCEPT
                    !.status = IF e \in expiring THEN "expired" ELSE @,
                    !.parent = IF @ \in dropped THEN None ELSE @]]
    /\ session' = [s \in Session |->
           IF s \in oldSessions THEN NoSession("deleted") ELSE session[s]]
    /\ epoch' = IF expiring = {} THEN epoch ELSE epoch + 1
    /\ UNCHANGED <<now, record, feed>>

CleanRetention ==
    \E expiring \in SUBSET (ActiveEdges \ {e \in Edge : edge[e].grant.expires >= now}) :
    \E oldEdges \in SUBSET {e \in Edge : PrunableEdge(e, expiring)} :
    \E oldSessions \in SUBSET {s \in Session : PrunableSession(s)} :
        RetentionCleanup(expiring, oldEdges, oldSessions)

-----------------------------------------------------------------------------
(* The token service's consumer of caracal.sessions.revoke *)

\* RevokeAuthorityRecord: the record and every record derived from it.
RevokedTree(r) ==
    {q \in Record :
        \A T \in SUBSET Record :
            r \in T /\ (\A c \in Record : RecordParent[c] \in T => c \in T)
            => q \in T}

HandleRevocation(r) ==
    /\ r \in feed
    /\ \E q \in RevokedTree(r) : record[q] = "active"
    /\ record' = [q \in Record |-> IF q \in RevokedTree(r) THEN "revoked" ELSE record[q]]
    /\ UNCHANGED <<now, session, edge, epoch, feed>>

Tick ==
    /\ now < MaxTime
    /\ now' = now + 1
    /\ UNCHANGED <<session, edge, record, epoch, feed>>

StartSome ==
    \E s \in Session, p \in Session \cup {None}, a \in Application, r \in Record,
       l \in Lifecycles, ttl \in TTLs, how \in {"none", "inherit"} \cup Edge :
        \/ Start(s, p, a, r, l, ttl, how)
        \/ \E e \in Edge : StartInheriting(s, p, a, r, l, ttl, how, e)

Next ==
    \/ StartSome
    \/ \E s \in Session : \/ Suspend(s) \/ Resume(s) \/ Terminate(s)
                          \/ AttachLease(s) \/ Heartbeat(s)
    \/ \E e \in Edge : RevokeDelegation(e)
    \/ \E e \in Edge, src, tgt \in Session, p \in Edge \cup {None}, g \in Grants :
           CreateDelegation(e, src, tgt, p, g)
    \/ TTLSweep
    \/ ServiceLeaseSweep
    \/ CleanRetention
    \/ \E r \in Record : HandleRevocation(r)
    \/ Tick

Spec == Init /\ [][Next]_vars

\* Time passes and the interval jobs run again and again (makeIntervalJob).
Fairness ==
    /\ WF_vars(Tick)
    /\ WF_vars(TTLSweep)
    /\ WF_vars(ServiceLeaseSweep)

FairSpec == Spec /\ Fairness

-----------------------------------------------------------------------------
(* Properties *)

\* Every row has its columns' types; the depth column stays within MAX_DEPTH.
TypeOK ==
    /\ now \in 0..MaxTime
    /\ session \in [Session -> SessionRow]
    /\ edge \in [Edge -> EdgeRow]
    /\ record \in [Record -> {"active", "revoked"}]
    /\ epoch \in Nat
    /\ feed \subseteq Record

\* A live session's parent is live: whichever sessions a termination or a
\* sweep batch starts from, whatever mixture of active and suspended sessions
\* lies below them, terminateSubtree leaves no live session behind, and
\* retention never deletes a session something live hangs from.
NoLiveOrphan ==
    \A s \in Live : session[s].parent # None => session[s].parent \in Live

\* child_count of a live session is the number of its live children, so that
\* MAX_CHILDREN limits live children and an ended child frees its place.
ChildCountExact ==
    \A s \in Live :
        session[s].children = Cardinality({c \in Live : session[c].parent = s})

\* An active edge runs between live sessions: "a terminated session must not
\* remain a live delegation endpoint" (terminateSubtree).
EdgeEndpointsLive ==
    \A e \in ActiveEdges : edge[e].source \in Live /\ edge[e].target \in Live

\* A user's authority record whose sessions have all ended, one of them still
\* on record, has been sent to the token service for revocation: the
\* exemption for shared records never lets the last referent go unnoticed.
LastReferentRevokes ==
    \A r \in UserRecord :
        r \in Subjects(Ended) /\ r \notin Subjects(Live) => r \in feed

\* No live path of at most MAX_DEPTH + 1 edges leads back to where it began:
\* the walk of wouldCreateCycle, cut at MAX_DEPTH edges, is long enough for
\* the edge that would close such a cycle, and inherited edges close none.
\* Longer cycles are accepted, since the walk does not reach round them.
NoShortCycle ==
    \A n \in 1..(MAX_DEPTH + 1) : \A p \in Paths(n, LiveEdges) :
        edge[p[n]].target # edge[p[1]].source

\* A revocation sent to the token service spares every other active session:
\* it names user records only, and none that an active session is anchored to
\* (the comment on revocationExemptSessions).  The one exception is the end of
\* a delegation, which takes its target's record along.
NoCollateralRevocation ==
    [][\A r \in feed' \ feed :
          \/ r \in UserRecord /\ \A s \in Active' : session'[s].subject # r
          \/ \E e \in ActiveEdges \ ActiveEdges' :
                session[edge[e].target].subject = r]_vars

\* An ended session stays ended, and so does its place in the tree: no resume,
\* heartbeat, lease or sweep brings it back.
EndedStaysEnded ==
    [][\A s \in Ended : s \notin Live']_vars

\* The edge and those it is chained from, as GetDelegationLineage walks them.
Lineage(e) ==
    {f \in Edge :
        \A T \in SUBSET Edge :
            e \in T /\ (\A c \in T : edge[c].parent \in T \cup {None}) => f \in T}

LineageLive(e) == Lineage(e) \subseteq LiveEdges

\* The step prunes an ended session at an end of an edge that a live edge is
\* chained from (retention-cleaner.ts): that edge goes with its session, and
\* the live one becomes a root of its own.
PrunesChain ==
    \E c \in LiveEdges :
        /\ edge[c].parent # None
        /\ LET p == edge[edge[c].parent]
           IN  ~({p.source, p.target} \cap Ended \subseteq Ended')

\* A chain that lost an edge does not become whole again: an edge whose own
\* status is still active but whose ancestor was revoked or expired is not
\* turned back into usable authority by a later delegation, inherited copy,
\* resume, sweep or pruning of old edges.  Only the pruning of a session the
\* chain passes through does that.
BrokenLineageStaysBroken ==
    [][\A e \in Edge : edge[e].status # "absent" /\ ~LineageLive(e) /\ ~PrunesChain
                         => ~LineageLive(e)']_vars

\* The graph a mandate's epoch stands for: the edges that can be minted from,
\* what they grant and what they are chained from.
LiveGraph == {<<e, edge[e]>> : e \in LiveEdges}

\* A step that changes the live graph raises its epoch, so that verifiers
\* refuse what was minted from the graph before the change.  Two changes do
\* not: the clock's (a mandate does not outlive its edge) and the pruning of a
\* session a live chain passes through.
EpochTracksGraph ==
    [][LiveGraph' # LiveGraph /\ now' = now /\ ~PrunesChain => epoch' > epoch]_vars

\* A task past its ttl is ended, suspended or not, however many are waiting
\* for the sweeper's batches.
ExpiredTaskEnds ==
    \A s \in Session :
        (s \in Due(Live, "task")) ~> (s \notin Live)

\* A service session whose lease ran out does not stay active on it.
LapsedLeaseParks ==
    \A s \in Session :
        (s \in Due(Active, "service")) ~> (s \notin Due(Active, "service"))
=============================================================================
