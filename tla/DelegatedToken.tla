-------------------------- MODULE DelegatedToken --------------------------
(***************************************************************************)
(* A token minted on a delegation edge, from the token service's reads to  *)
(* the resource servers that verify it.  The token service reads edges,    *)
(* sessions, lineage and graph epoch one query at a time and outside any   *)
(* transaction, while the coordinator revokes edges and ends sessions; the *)
(* resource servers share a revocation store that two stream consumers     *)
(* fill.  Messages arrive late, out of order and more than once            *)
(* (RevocationFeed models how they travel).                                *)
(*                                                                         *)
(* The graph's shape is fixed and its edges start out active: creating an  *)
(* edge bumps the epoch and is the action OtherChange.  Sessions here have *)
(* no children (Coordinator has the tree) and neither expire nor suspend.  *)
(***************************************************************************)
EXTENDS Naturals, FiniteSets

CONSTANTS
    Session, Edge, NoParent,
    Source, Target,   \* the sessions an edge joins
    Parent,           \* parent_edge_id
    Record,           \* each session's authority record
    Exempt,           \* sessions whose record revocationExemptSessions spares
    Mint,             \* handlers of the token service
    WalkDepth,        \* agents.ts MAX_DEPTH: edges a revocation follows
    MaxEpoch,         \* bound: graph epoch
    MaxTokens         \* bound: tokens issued

ASSUME TokenAssumption ==
    /\ NoParent \notin Edge
    /\ {Source, Target} \subseteq [Edge -> Session]
    /\ Parent \in [Edge -> Edge \cup {NoParent}]
    /\ Exempt \subseteq Session
    /\ {WalkDepth, MaxEpoch, MaxTokens} \subseteq Nat
    /\ WalkDepth > 0

VARIABLES
    active,   \* edges with status 'active'
    live,     \* active sessions
    epoch,    \* delegation_graph_epochs
    sent,     \* messages on the two streams: [epochs, anchors]
    seen,     \* those the consumers have processed at least once
    store,    \* the verifiers' store: the epoch and the revoked anchors
    mint,     \* the handlers
    tokens    \* issued tokens

graph == <<active, live, epoch, sent>>
tokenVars == <<active, live, epoch, sent, seen, store, mint, tokens>>

Messages == [epochs : SUBSET (0..MaxEpoch), anchors : SUBSET SUBSET (Edge \cup Session)]

Token == [leaf : Edge, path : SUBSET Edge, epoch : 0..MaxEpoch, late : BOOLEAN]

Handler == [at    : {"idle", "source", "target", "lineage", "epoch", "chain"},
            leaf  : Edge,
            path  : SUBSET Edge,
            left  : SUBSET Edge,
            epoch : 0..MaxEpoch,
            late  : BOOLEAN]

TokenTypeOK ==
    /\ active \subseteq Edge
    /\ live \subseteq Session
    /\ epoch \in 0..MaxEpoch
    /\ {sent, seen} \subseteq Messages
    /\ store \in [epoch : 0..MaxEpoch, marks : SUBSET (Edge \cup Session)]
    /\ mint \in [Mint -> Handler]
    /\ tokens \subseteq Token

NoMessages == [epochs |-> {}, anchors |-> {}]

Idle == [at |-> "idle", leaf |-> CHOOSE e \in Edge : TRUE, path |-> {},
         left |-> {}, epoch |-> 0, late |-> FALSE]

TokenInit ==
    /\ active = Edge
    /\ live = Session
    /\ epoch = 0
    /\ sent = NoMessages
    /\ seen = NoMessages
    /\ store = [epoch |-> 0, marks |-> {}]
    /\ mint = [m \in Mint |-> Idle]
    /\ tokens = {}

----------------------------------------------------------------------------
(* The coordinator.                                                        *)

\* The active edges that a path of at most WalkDepth of them leads to from e,
\* each starting where the one before it ends.
Downstream(e) ==
    {f \in active :
        \E n \in 1..WalkDepth : \E p \in [1..n -> active] :
            /\ p[1] = e /\ p[n] = f
            /\ \A i \in 1..(n - 1) : Source[p[i + 1]] = Target[p[i]]}

EdgesAt(S) == {f \in active : Source[f] \in S \/ Target[f] \in S}

Send(epochs, anchors) ==
    sent' = [epochs  |-> sent.epochs \cup epochs,
             anchors |-> sent.anchors \cup anchors]

\* One session of S for each authority record that S refers to.
OnePerRecord(S, R) ==
    /\ R \subseteq S
    /\ \A s \in S : \E r \in R : Record[r] = Record[s]
    /\ \A r, s \in R : Record[r] = Record[s] => r = s

\* terminateSubtree for a session: its edges go with it, the epoch moves if
\* there were any, and its anchor is sent unless the record is exempt.
Terminate(s) ==
    /\ s \in live
    /\ live' = live \ {s}
    /\ active' = active \ EdgesAt({s})
    /\ epoch + 1 <= MaxEpoch
    /\ epoch' = IF EdgesAt({s}) = {} THEN epoch ELSE epoch + 1
    /\ Send(IF EdgesAt({s}) = {} THEN {} ELSE {epoch + 1},
            IF s \in Exempt THEN {} ELSE {{s}})
    /\ UNCHANGED <<seen, store, mint, tokens>>

\* PATCH /delegations/:id/revoke: the edges downstream, the sessions they lead
\* to, and one message with the named edge for each record among those.
\* terminateSubtree bumps the epoch too when it finds more edges to cut.
Revoke(e, R) ==
    LET D == Downstream(e)
        S == {Target[f] : f \in D} \cap live
        more == EdgesAt(S) \ D # {}
    IN  /\ e \in active
        /\ OnePerRecord(S, R)
        /\ live' = live \ S
        /\ active' = active \ (D \cup EdgesAt(S))
        /\ epoch + 2 <= MaxEpoch
        /\ epoch' = IF more THEN epoch + 2 ELSE epoch + 1
        /\ Send({epoch', epoch + 1},
                {{s} : s \in S \ Exempt} \cup {{s, e} : s \in R})
        /\ UNCHANGED <<seen, store, mint, tokens>>

\* The retention job marks expired edges, a batch with one epoch.
ExpireEdges(B) ==
    /\ B # {} /\ B \subseteq active
    /\ epoch < MaxEpoch
    /\ active' = active \ B
    /\ epoch' = epoch + 1
    /\ Send({epoch + 1}, {})
    /\ UNCHANGED <<live, seen, store, mint, tokens>>

\* Another edge of the zone is created.
OtherChange ==
    /\ epoch < MaxEpoch
    /\ epoch' = epoch + 1
    /\ Send({epoch + 1}, {})
    /\ UNCHANGED <<active, live, seen, store, mint, tokens>>

----------------------------------------------------------------------------
(* The token service: validateSessionReferences and the issue.             *)

\* GetDelegationEdge
ReadEdge(m, e) ==
    /\ mint[m].at = "idle"
    /\ Cardinality(tokens) < MaxTokens
    /\ e \in active
    /\ mint' = [mint EXCEPT ![m] = [Idle EXCEPT !.at = "source", !.leaf = e]]
    /\ UNCHANGED <<graph, seen, store, tokens>>

\* GetSession for the source, then for the target.
ReadSource(m) ==
    /\ mint[m].at = "source"
    /\ Source[mint[m].leaf] \in live
    /\ mint' = [mint EXCEPT ![m].at = "target"]
    /\ UNCHANGED <<graph, seen, store, tokens>>

ReadTarget(m) ==
    /\ mint[m].at = "target"
    /\ Target[mint[m].leaf] \in live
    /\ mint' = [mint EXCEPT ![m].at = "lineage"]
    /\ UNCHANGED <<graph, seen, store, tokens>>

\* The edge and those it is chained from.
Lineage(e) ==
    {f \in Edge :
        \A T \in SUBSET Edge :
            e \in T /\ (\A g \in T : Parent[g] \in T \cup {NoParent}) => f \in T}

\* GetDelegationLineage: a path only when every edge of it is active.
ReadLineage(m) ==
    LET e == mint[m].leaf
    IN  /\ mint[m].at = "lineage"
        /\ Lineage(e) \subseteq active
        /\ mint' = [mint EXCEPT ![m].at = "epoch",
                                ![m].path = Lineage(e),
                                ![m].left = Lineage(e) \ {e}]
        /\ UNCHANGED <<graph, seen, store, tokens>>

\* GetDelegationGraphEpoch; late notes that the leaf is gone by now.
ReadEpoch(m) ==
    /\ mint[m].at = "epoch"
    /\ mint' = [mint EXCEPT ![m].at = "chain", ![m].epoch = epoch,
                            ![m].late = mint[m].leaf \notin active]
    /\ UNCHANGED <<graph, seen, store, tokens>>

\* Mutant: the ancestors are taken from the lineage query.
ReadAncestorUnchecked(m, f) ==
    /\ mint[m].at = "chain"
    /\ f \in mint[m].left /\ Parent[f] \notin mint[m].left
    /\ mint' = [mint EXCEPT ![m].left = @ \ {f}]
    /\ UNCHANGED <<graph, seen, store, tokens>>

\* buildDelegationChain fetches the ancestors again, the first edge first.
\* The leaf is the row read at the beginning.
ReadAncestor(m, f) ==
    /\ mint[m].at = "chain"
    /\ f \in mint[m].left /\ Parent[f] \notin mint[m].left
    /\ f \in active
    /\ mint' = [mint EXCEPT ![m].left = @ \ {f}]
    /\ UNCHANGED <<graph, seen, store, tokens>>

\* InsertAuthorityRecord and issueToken: nothing is read again.
Issue(m) ==
    /\ mint[m].at = "chain" /\ mint[m].left = {}
    /\ tokens' = tokens \cup {[leaf |-> mint[m].leaf, path |-> mint[m].path,
                               epoch |-> mint[m].epoch, late |-> mint[m].late]}
    /\ mint' = [mint EXCEPT ![m] = Idle]
    /\ UNCHANGED <<graph, seen, store>>

\* A read finds less than it needs, or the handler fails.
Deny(m) ==
    /\ mint[m].at # "idle"
    /\ mint' = [mint EXCEPT ![m] = Idle]
    /\ UNCHANGED <<graph, seen, store, tokens>>

----------------------------------------------------------------------------
(* The resource servers.                                                   *)

\* Mutant: SET without comparing.
ApplyEpochLast(n) ==
    /\ n \in sent.epochs
    /\ store' = [store EXCEPT !.epoch = n]
    /\ seen' = [seen EXCEPT !.epochs = @ \cup {n}]
    /\ UNCHANGED <<graph, mint, tokens>>

\* RedisDelegationInvalidationConsumer: MAX_EPOCH_SCRIPT.
ApplyEpoch(n) ==
    /\ n \in sent.epochs
    /\ store' = [store EXCEPT !.epoch = IF n > @ THEN n ELSE @]
    /\ seen' = [seen EXCEPT !.epochs = @ \cup {n}]
    /\ UNCHANGED <<graph, mint, tokens>>

\* RedisRevocationConsumer marks every anchor of a message.
ApplyAnchors(A) ==
    /\ A \in sent.anchors
    /\ store' = [store EXCEPT !.marks = @ \cup A]
    /\ seen' = [seen EXCEPT !.anchors = @ \cup {A}]
    /\ UNCHANGED <<graph, mint, tokens>>

\* checkActiveAuthority, for a token whose records nobody revoked.
Accepts(t) ==
    /\ {t.leaf, Target[t.leaf]} \cap store.marks = {}
    /\ ~(store.epoch > t.epoch)

----------------------------------------------------------------------------
TokenNext ==
    \/ \E s \in Session : Terminate(s)
    \/ \E e \in Edge :
          \/ \E R \in SUBSET Session : Revoke(e, R)
          \/ \E m \in Mint : ReadEdge(m, e) \/ ReadAncestor(m, e)
    \/ \E B \in SUBSET Edge : ExpireEdges(B)
    \/ OtherChange
    \/ \E m \in Mint :
          \/ ReadSource(m) \/ ReadTarget(m) \/ ReadLineage(m) \/ ReadEpoch(m)
          \/ Issue(m) \/ Deny(m)
    \/ \E n \in sent.epochs : ApplyEpoch(n)
    \/ \E A \in sent.anchors : ApplyAnchors(A)

TokenSpec == TokenInit /\ [][TokenNext]_tokenVars

----------------------------------------------------------------------------
\* The verifiers' consumers have processed everything that was sent.
CaughtUp == seen = sent

\* A verifier that has caught up refuses a token as soon as an edge of its
\* chain is gone.  The one exception is the leaf edge, which the token
\* service does not read again: gone before the epoch was read, it leaves a
\* token the epoch check lets pass.
CutOnceTold ==
    CaughtUp => \A t \in tokens : Accepts(t) =>
        \A f \in t.path : f \in active \/ (f = t.leaf /\ t.late)

\* Late and repeated messages never bring a refused token back.
RefusalsLast ==
    [][\A t \in tokens : ~Accepts(t) => ~Accepts(t)']_tokenVars
=============================================================================
