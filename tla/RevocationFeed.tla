--------------------------- MODULE RevocationFeed ---------------------------
(***************************************************************************)
(* A revocation on its way from the transaction that commits it to the     *)
(* token service and to a gateway: outbox, publisher, Redis stream, the    *)
(* consumer groups, and the gateway's cache with its database snapshots.   *)
(*                                                                         *)
(* An item is the anchor a revocation names.  The transaction that         *)
(* announces it has itself ended the anchor's row if it is Owned (governed *)
(* sessions and delegation edges); an authority record is revoked only     *)
(* when the token service handles the message.                             *)
(***************************************************************************)
EXTENDS Naturals, FiniteSets, Sequences

CONSTANTS
    Anchor,       \* what can be revoked
    Owned,        \* the anchors whose rows the announcing transaction ends
    Session,      \* of these, the governed sessions
    Reloader,     \* what reloads a gateway's cache from the database
    Poller,       \* its ticker; the others are reloads on request
    Publisher,    \* coordinators that run the outbox publisher
    MaxAttempts,  \* cfg.outboxMaxAttempts
    MaxFailures,  \* consumer.go: maxFailures
    MaxStream,    \* bound: entries of the stream
    MaxFaults,    \* bound: crashes, lost acknowledgements and failed calls
    None

ASSUME FeedAssumption ==
    /\ Owned \subseteq Anchor /\ Session \subseteq Owned /\ Poller \in Reloader
    /\ {MaxStream, MaxFaults} \subseteq Nat
    /\ {MaxAttempts, MaxFailures} \subseteq Nat \ {0}
    /\ None \notin Anchor

VARIABLES
    outbox,   \* caracal_outbox, a row for each anchor
    expired,  \* sessions that ended with status 'expired', not 'terminated'
    pub,      \* each publisher's transaction
    stream,   \* caracal.sessions.revoke
    revoked,  \* authority records the token service revoked
    sts,      \* the group sts-revocation and its consumer
    gw,       \* the gateway, and its own group
    faults

vars == <<outbox, expired, pub, stream, revoked, sts, gw, faults>>

Entry == 1..MaxStream

Row == [status   : {"none", "pending", "published", "dead"},
        attempts : 0..MaxAttempts]

\* The rows a publisher locked, and those its XADD succeeded and failed for.
PubTx == [claimed : SUBSET Anchor, sent : SUBSET Anchor, failed : SUBSET Anchor]

\* read is the group's last delivered entry, pel its pending entries, batch
\* what the running process has read and not yet handled, failures the counter
\* keyed by entry, and dead the entries copied to the dead-letter stream.
StsGroup == [read : 0..MaxStream, pel : SUBSET Entry, batch : SUBSET Entry,
             failures : [Entry -> 0..MaxFailures], dead : SUBSET Entry]

\* marks is the cache.  A reload under way has read its rows or not yet;
\* current says that the stream's generation is still the one it began with,
\* and overtaken (for the properties only) that another reload was applied
\* since it read its rows.
Gateway == [up : BOOLEAN, read : (0..MaxStream) \cup {None},
            pel : SUBSET Entry, batch : SUBSET Entry, marks : SUBSET Anchor,
            reload : [Reloader -> {None} \cup
                        [current : BOOLEAN, overtaken : BOOLEAN,
                         rows : {None} \cup SUBSET Anchor]]]

TypeOK ==
    /\ outbox \in [Anchor -> Row]
    /\ expired \subseteq Session
    /\ pub \in [Publisher -> PubTx \cup {None}]
    /\ stream \in Seq(Anchor) /\ Len(stream) <= MaxStream
    /\ revoked \subseteq Anchor \ Owned
    /\ sts \in StsGroup
    /\ gw \in Gateway
    /\ faults \in 0..MaxFaults

BeginReload == [current |-> TRUE, overtaken |-> FALSE, rows |-> None]

\* New() reloads before the process serves or reads the stream.
Boot == [up |-> FALSE, read |-> None, pel |-> {}, batch |-> {}, marks |-> {},
         reload |-> [o \in Reloader |-> IF o = Poller THEN BeginReload ELSE None]]

Init ==
    /\ outbox = [a \in Anchor |-> [status |-> "none", attempts |-> 0]]
    /\ expired = {}
    /\ pub = [p \in Publisher |-> None]
    /\ stream = <<>>
    /\ revoked = {}
    /\ sts = [read |-> 0, pel |-> {}, batch |-> {},
              failures |-> [n \in Entry |-> 0], dead |-> {}]
    /\ gw = Boot
    /\ faults = 0

Committed == {a \in Anchor : outbox[a].status # "none"}

\* What the snapshot's SELECTs return: records 'revoked', sessions 'terminated'
\* and edges 'revoked'; an 'expired' session is in none of them.
Durable == ((Owned \ expired) \cap Committed) \cup revoked

Fault == faults < MaxFaults /\ faults' = faults + 1

LeastOf(S) == CHOOSE n \in S : \A m \in S : n <= m

----------------------------------------------------------------------------
\* The outbox and its publisher.

\* enqueueLifecycle and the like, in the transaction that ends the anchor.
Announce(a) ==
    /\ outbox[a].status = "none"
    /\ outbox' = [outbox EXCEPT ![a].status = "pending"]
    /\ UNCHANGED <<pub, stream, revoked, sts, gw, faults>>

\* A transaction terminates or revokes a and enqueues the message.
Commit(a) == Announce(a) /\ UNCHANGED expired

\* The TTL sweeper ends a session: terminateSubtree with status 'expired'.
Expire(a) == a \in Session /\ Announce(a) /\ expired' = expired \cup {a}

Locked == UNION {pub[p].claimed : p \in {q \in Publisher : pub[q] # None}}

\* FOR UPDATE SKIP LOCKED over the pending rows whose backoff has passed.
Claim(p, B) ==
    /\ pub[p] = None
    /\ B # {} /\ \A a \in B : outbox[a].status = "pending" /\ a \notin Locked
    /\ pub' = [pub EXCEPT ![p] = [claimed |-> B, sent |-> {}, failed |-> {}]]
    /\ UNCHANGED <<outbox, expired, stream, revoked, sts, gw, faults>>

\* XADD answered in time.
Xadd(p, a) ==
    /\ pub[p] # None
    /\ a \in pub[p].claimed \ (pub[p].sent \cup pub[p].failed)
    /\ Len(stream) < MaxStream
    /\ stream' = Append(stream, a)
    /\ pub' = [pub EXCEPT ![p].sent = @ \cup {a}]
    /\ UNCHANGED <<outbox, expired, revoked, sts, gw, faults>>

\* XADD failed or timed out; after a timeout the entry may have been added.
XaddFails(p, a) ==
    /\ Fault
    /\ pub[p] # None
    /\ a \in pub[p].claimed \ (pub[p].sent \cup pub[p].failed)
    /\ \/ UNCHANGED stream
       \/ Len(stream) < MaxStream /\ stream' = Append(stream, a)
    /\ pub' = [pub EXCEPT ![p].failed = @ \cup {a}]
    /\ UNCHANGED <<outbox, expired, revoked, sts, gw>>

\* The row as the publisher's UPDATEs leave it.
PublishedRow(p, a) ==
    [status   |-> IF a \in pub[p].sent THEN "published"
                  ELSE IF outbox[a].attempts + 1 >= MaxAttempts THEN "dead"
                  ELSE "pending",
     attempts |-> outbox[a].attempts + 1]

PublishCommit(p) ==
    /\ pub[p] # None
    /\ pub[p].claimed = pub[p].sent \cup pub[p].failed
    /\ outbox' = [a \in Anchor |->
                    IF a \in pub[p].claimed THEN PublishedRow(p, a)
                    ELSE outbox[a]]
    /\ pub' = [pub EXCEPT ![p] = None]
    /\ UNCHANGED <<expired, stream, revoked, sts, gw, faults>>

\* The publisher dies, or its transaction fails: what it added stays added.
PublishRollback(p) ==
    /\ Fault
    /\ pub[p] # None
    /\ pub' = [pub EXCEPT ![p] = None]
    /\ UNCHANGED <<outbox, expired, stream, revoked, sts, gw>>

\* POST /outbox/:id/requeue
Requeue(a) ==
    /\ outbox[a].status = "dead"
    /\ outbox' = [outbox EXCEPT ![a] = [status |-> "pending", attempts |-> 0]]
    /\ UNCHANGED <<expired, pub, stream, revoked, sts, gw, faults>>

----------------------------------------------------------------------------
\* The token service's consumer.

StsRead ==
    /\ sts.batch = {} /\ sts.read < Len(stream)
    /\ LET new == (sts.read + 1)..Len(stream)
       IN  sts' = [sts EXCEPT !.read = Len(stream), !.pel = @ \cup new,
                              !.batch = new]
    /\ UNCHANGED <<outbox, expired, pub, stream, revoked, gw, faults>>

\* Mutant: the message is acknowledged before it is handled.
StsHandledLater == UNCHANGED revoked

\* handleRevocation commits RevokeAuthorityRecord; a message about an owned
\* anchor carries no record and succeeds at once.
StsHandled == revoked' = revoked \cup ({stream[LeastOf(sts.batch)]} \ Owned)

\* processMessage: handled, then acknowledged.
StsProcess ==
    /\ sts.batch # {}
    /\ StsHandled
    /\ sts' = [sts EXCEPT !.batch = @ \ {LeastOf(sts.batch)},
                          !.pel = @ \ {LeastOf(sts.batch)}]
    /\ UNCHANGED <<outbox, expired, pub, stream, gw, faults>>

\* Handled, and XACK failed.
StsAckFails ==
    /\ Fault
    /\ sts.batch # {}
    /\ StsHandled
    /\ sts' = [sts EXCEPT !.batch = @ \ {LeastOf(sts.batch)}]
    /\ UNCHANGED <<outbox, expired, pub, stream, gw>>

\* The handler failed: trackFailure counts, and parks the message in the end,
\* unless Redis fails too.
StsHandlerFails ==
    /\ Fault
    /\ sts.batch # {}
    /\ LET n == LeastOf(sts.batch)
           count == sts.failures[n] + 1
       IN  \/ /\ count < MaxFailures
              /\ sts' = [sts EXCEPT !.batch = @ \ {n}, !.failures[n] = count]
           \/ /\ count >= MaxFailures
              /\ sts' \in {[sts EXCEPT !.batch = @ \ {n}, !.failures[n] = 0,
                                       !.pel = @ \ {n}, !.dead = @ \cup {n}],
                           [sts EXCEPT !.batch = @ \ {n}, !.dead = @ \cup {n}]}
           \/ sts' = [sts EXCEPT !.batch = @ \ {n}]
    /\ UNCHANGED <<outbox, expired, pub, stream, revoked, gw>>

\* The process is replaced; only a starting consumer claims what is pending,
\* and of that only what has been idle long enough.
StsRestart ==
    /\ Fault
    /\ \E idle \in SUBSET sts.pel : sts' = [sts EXCEPT !.batch = idle]
    /\ UNCHANGED <<outbox, expired, pub, stream, revoked, gw>>

----------------------------------------------------------------------------
\* The gateway.  Its group is named after its host.

\* reloadRevocationSnapshot begins, by the poller or on request: it remembers
\* the stream generation first.
GwReload(o) ==
    /\ gw.up /\ gw.reload[o] = None
    /\ gw' = [gw EXCEPT !.reload[o] = BeginReload]
    /\ UNCHANGED <<outbox, expired, pub, stream, revoked, sts, faults>>

\* Mutant: the snapshot leaves out sessions and edges.
GwQueryRecords(o) ==
    /\ gw.reload[o] # None /\ gw.reload[o].rows = None
    /\ gw' = [gw EXCEPT !.reload[o].rows = Durable \ Owned]
    /\ UNCHANGED <<outbox, expired, pub, stream, revoked, sts, faults>>

\* Its SELECTs.
GwQuery(o) ==
    /\ gw.reload[o] # None /\ gw.reload[o].rows = None
    /\ gw' = [gw EXCEPT !.reload[o].rows = Durable]
    /\ UNCHANGED <<outbox, expired, pub, stream, revoked, sts, faults>>

\* A SELECT failed: a running gateway tries again later, a starting one exits
\* and is started again.
GwQueryFails(o) ==
    /\ Fault
    /\ gw.reload[o] # None /\ gw.reload[o].rows = None
    /\ gw' = [gw EXCEPT !.reload[o] = IF gw.up THEN None ELSE BeginReload]
    /\ UNCHANGED <<outbox, expired, pub, stream, revoked, sts>>

\* Mutant: the snapshot always replaces the cache.
ReplacedMarks(o) == gw.reload[o].rows

\* applyRevocationSnapshot: the snapshot replaces the cache unless the stream
\* has marked something since the reload began.
SnapshotMarks(o) ==
    gw.reload[o].rows \cup (IF gw.reload[o].current THEN {} ELSE gw.marks)

\* What becomes of the reloads under way when o's is applied.
Overtaken(o) ==
    [q \in Reloader |->
        IF q = o THEN None
        ELSE IF gw.reload[q] = None \/ gw.reload[q].rows = None THEN gw.reload[q]
        ELSE [gw.reload[q] EXCEPT !.overtaken = TRUE]]

\* While starting, EnsureGroup follows, and the consumer's first replay of what
\* is pending and idle: a new host's group begins at the end of the stream.
GwApply(o) ==
    /\ gw.reload[o] # None /\ gw.reload[o].rows # None
    /\ \E idle \in IF gw.up THEN {gw.batch} ELSE SUBSET gw.pel :
          gw' = [gw EXCEPT
                   !.marks = SnapshotMarks(o),
                   !.reload = Overtaken(o),
                   !.up = TRUE,
                   !.read = IF @ = None THEN Len(stream) ELSE @,
                   !.batch = idle]
    /\ UNCHANGED <<outbox, expired, pub, stream, revoked, sts, faults>>

GwRead ==
    /\ gw.up /\ gw.batch = {} /\ gw.read < Len(stream)
    /\ LET new == (gw.read + 1)..Len(stream)
       IN  gw' = [gw EXCEPT !.read = Len(stream), !.pel = @ \cup new,
                            !.batch = new]
    /\ UNCHANGED <<outbox, expired, pub, stream, revoked, sts, faults>>

\* A mark advances the generation that the reloads under way remember.
Marked(n) ==
    [gw EXCEPT !.marks = @ \cup {stream[n]}, !.batch = @ \ {n},
               !.reload = [o \in Reloader |->
                             IF @[o] = None THEN None
                             ELSE [@[o] EXCEPT !.current = FALSE]]]

\* processRevocationMessage
GwProcess ==
    /\ gw.up /\ gw.batch # {}
    /\ LET n == LeastOf(gw.batch)
       IN  gw' = [Marked(n) EXCEPT !.pel = @ \ {n}]
    /\ UNCHANGED <<outbox, expired, pub, stream, revoked, sts, faults>>

GwAckFails ==
    /\ Fault
    /\ gw.up /\ gw.batch # {}
    /\ gw' = Marked(LeastOf(gw.batch))
    /\ UNCHANGED <<outbox, expired, pub, stream, revoked, sts>>

\* runRevocationPendingReaper claims what has been idle long enough.
GwReap ==
    /\ gw.up
    /\ \E idle \in (SUBSET (gw.pel \ gw.batch)) \ {{}} :
          gw' = [gw EXCEPT !.batch = @ \cup idle]
    /\ UNCHANGED <<outbox, expired, pub, stream, revoked, sts, faults>>

\* The process dies and is started again on its host, or on a new one.
GwCrash ==
    /\ Fault
    /\ \/ gw' = Boot
       \/ gw' = [Boot EXCEPT !.read = gw.read, !.pel = gw.pel]
    /\ UNCHANGED <<outbox, expired, pub, stream, revoked, sts>>

Next ==
    \/ \E a \in Anchor : Commit(a) \/ Expire(a) \/ Requeue(a)
    \/ \E p \in Publisher :
          \/ \E B \in SUBSET Anchor : Claim(p, B)
          \/ \E a \in Anchor : Xadd(p, a) \/ XaddFails(p, a)
          \/ PublishCommit(p)
          \/ PublishRollback(p)
    \/ StsRead \/ StsProcess \/ StsAckFails \/ StsHandlerFails \/ StsRestart
    \/ \E o \in Reloader :
          GwReload(o) \/ GwQuery(o) \/ GwQueryFails(o) \/ GwApply(o)
    \/ GwRead \/ GwProcess \/ GwAckFails \/ GwReap \/ GwCrash

Spec == Init /\ [][Next]_vars

\* The interval job, the read loops, the gateway's poller and its reaper keep
\* running; each is sequential, so at most one of its steps is enabled.
Fairness ==
    /\ \A p \in Publisher :
          WF_vars(\/ \E B \in SUBSET Anchor : Claim(p, B)
                  \/ \E a \in Anchor : Xadd(p, a)
                  \/ PublishCommit(p))
    /\ WF_vars(StsRead \/ StsProcess)
    /\ WF_vars(GwReload(Poller) \/ GwQuery(Poller) \/ GwApply(Poller))
    /\ WF_vars(GwRead \/ GwProcess)
    /\ WF_vars(GwReap)

FairSpec == Spec /\ Fairness

----------------------------------------------------------------------------
Parked ==
    {a \in Anchor : outbox[a].status = "dead"} \cup
    {stream[n] : n \in sts.dead}

\* Somewhere between the outbox and the token service's transaction.
Owed ==
    {a \in Anchor : outbox[a].status = "pending"} \cup
    {stream[n] : n \in sts.pel \cup {m \in Entry : sts.read < m /\ m <= Len(stream)}}

D == INSTANCE Delivery WITH
        Items   <- Anchor \ Owned,
        sent    <- Committed \ Owned,
        owed    <- Owed \ Owned,
        applied <- revoked,
        parked  <- Parked \ Owned

\* Nothing is lost and nothing is made up between the transaction that
\* announces the end of a record and the token service: publishers and
\* consumers may die between any two steps, and every entry is applied or
\* parked before it is forgotten.
NoRevocationLost == D!Spec

\* The step applies a snapshot that another reload has overtaken.
AppliesOvertaken ==
    \E o \in Reloader : /\ gw.reload[o] # None /\ gw.reload[o].overtaken
                        /\ gw'.reload[o] = None

\* Forgetting nothing that is in the database: while a gateway runs, a session
\* or edge that ended as terminated or revoked and that it refuses it goes on
\* refusing, whatever snapshots were being read when the stream's message
\* arrived.  The generation check of applyRevocationSnapshot covers the stream
\* and not other reloads: only a snapshot that another one has overtaken since
\* its rows were read takes a mark back.
GatewayKeepsRefusing ==
    [][gw.up /\ gw'.up /\ ~AppliesOvertaken =>
          gw.marks \cap (Owned \ expired) \subseteq gw'.marks]_vars

\* From every state on, however often it was restarted on its host or on a new
\* one, however late the stream is and whatever reloads overtake each other, a
\* gateway comes to serve and to refuse everything its SELECTs return.
GatewayLearns == []<>(gw.up /\ Durable \subseteq gw.marks)
=============================================================================
