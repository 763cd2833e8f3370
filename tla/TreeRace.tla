------------------------------ MODULE TreeRace ------------------------------
(***************************************************************************)
(* Overlapping transactions on the session tree of one zone, statement by  *)
(* statement, under Postgres READ COMMITTED: each statement reads what was *)
(* committed when it began, an UPDATE waits for the row locks of others    *)
(* and then writes over the newest version of the row, and nothing a       *)
(* transaction wrote is seen by others before it commits.                  *)
(*                                                                         *)
(* Coordinator takes each transaction as one step.  This module asks what  *)
(* that abstraction rests on: which transactions take the zone's session   *)
(* lock (sessionLockKey), which lock only a row, and what the table's      *)
(* CHECK constraint turns away.                                            *)
(***************************************************************************)
EXTENDS Naturals, FiniteSets

CONSTANTS
    Session,      \* session ids, each with the parent it has or would have
    Parent,       \* [Session -> Session \cup {None}]: parent_id
    UserSession,  \* sessions anchored to one shared user record
    Txn,          \* transactions
    Kinds,        \* the handlers they may run
    None

ASSUME ParentAssumption ==
    /\ None \notin Session \cup Txn \cup {"session", "delegation"}
    /\ Parent \in [Session -> Session \cup {None}]
    /\ IsFiniteSet(Session)
ASSUME KindsAssumption ==
    /\ Kinds \subseteq {"start", "terminate", "revoke", "suspend", "resume"}
    /\ UserSession \subseteq Session

VARIABLES
    status,    \* committed sessions.status
    children,  \* committed sessions.child_count
    sent,      \* the shared record is on caracal.sessions.revoke
    lock,      \* holder of each of the zone's advisory locks, or None
    rowLock,   \* holder of each session's row lock, or None
    kind,      \* handler each transaction runs
    root,      \* session each transaction was called for
    pc,        \* statement each transaction is at
    tree,      \* rows its recursive query returned
    written,   \* of those, the rows its UPDATE has reached
    sends      \* its exemption query lets the shared record be revoked

vars == <<status, children, sent, lock, rowLock, kind, root, pc, tree, written,
          sends>>
txn  == <<kind, root>>
rows == <<status, children, sent>>

LiveStatus == {"active", "suspended"}
Live == {s \in Session : status[s] \in LiveStatus}

\* Any tree that starts, suspensions and resumptions can leave behind.
Init ==
    /\ status \in [Session -> LiveStatus \cup {"absent"}]
    /\ \A s \in Live : Parent[s] # None => Parent[s] \in Live
    /\ children = [s \in Session |-> Cardinality({c \in Live : Parent[c] = s})]
    /\ sent = FALSE
    /\ lock = [k \in {"session", "delegation"} |-> None]
    /\ rowLock = [s \in Session |-> None]
    /\ kind \in [Txn -> Kinds]
    /\ root \in [Txn -> Session]
    /\ \A t \in Txn : kind[t] = "start" =>
          /\ status[root[t]] = "absent" /\ Parent[root[t]] # None
          /\ \A u \in Txn : kind[u] = "start" /\ root[u] = root[t] => u = t
    /\ pc = [t \in Txn |-> "begin"]
    /\ tree = [t \in Txn |-> {}]
    /\ written = [t \in Txn |-> {}]
    /\ sends = [t \in Txn |-> FALSE]

-----------------------------------------------------------------------------

\* The statuses a handler's recursive query follows.
Follows(k) == CASE k = "suspend" -> {"active"}
                [] k = "resume" -> {"suspended"}
                [] OTHER -> LiveStatus

\* The row a transaction locks first: SELECT ... FOR UPDATE of the parent by a
\* start, of the session itself by the others; the revoke route locks none.
FirstRow(t) == IF kind[t] = "start" THEN Parent[root[t]] ELSE root[t]

\* Mutant: a start takes the zone's session lock, a termination does not.
AdvisoryLockStartOnly(t) == CASE kind[t] = "start" -> "session"
                              [] kind[t] = "revoke" -> "delegation"
                              [] OTHER -> None

\* The advisory lock a handler takes first: sessionLockKey(zoneId), or the
\* delegation routes' own.
AdvisoryLock(t) == CASE kind[t] \in {"start", "terminate"} -> "session"
                     [] kind[t] = "revoke" -> "delegation"
                     [] OTHER -> None

Begin(t) ==
    /\ pc[t] = "begin"
    /\ IF AdvisoryLock(t) = None THEN lock' = lock
       ELSE /\ lock[AdvisoryLock(t)] = None
            /\ lock' = [lock EXCEPT ![AdvisoryLock(t)] = t]
    /\ pc' = [pc EXCEPT ![t] = IF kind[t] = "revoke" THEN "query" ELSE "own"]
    /\ UNCHANGED <<rows, rowLock, txn, tree, written, sends>>

Release(t) ==
    /\ lock' = [k \in DOMAIN lock |-> IF lock[k] = t THEN None ELSE lock[k]]
    /\ rowLock' = [s \in Session |-> IF rowLock[s] = t THEN None ELSE rowLock[s]]

\* ROLLBACK: an early return, a failed constraint, a statement timeout, a
\* deadlock Postgres broke, or a lost connection.
Rollback(t) ==
    /\ Release(t)
    /\ pc' = [pc EXCEPT ![t] = "done"]
    /\ UNCHANGED <<rows, txn, tree, written, sends>>

Fail(t) ==
    /\ pc[t] \in {"own", "insert", "query", "update", "exempt", "commit"}
    /\ Rollback(t)

\* The FOR UPDATE of the first row, once its lock is free.  A start re-reads
\* the parent's status with the lock held.
LockOwn(t) ==
    /\ pc[t] = "own"
    /\ status[FirstRow(t)] \in (IF kind[t] = "start" THEN {"active"}
                                ELSE LiveStatus \cup {"terminated"})
    /\ rowLock[FirstRow(t)] = None
    /\ rowLock' = [rowLock EXCEPT ![FirstRow(t)] = t]
    /\ pc' = [pc EXCEPT ![t] = IF kind[t] = "start" THEN "insert" ELSE "query"]
    /\ UNCHANGED <<rows, lock, txn, tree, written, sends>>

\* INSERT of the child and child_count + 1 on the locked parent.
Insert(t) ==
    /\ pc[t] = "insert"
    /\ status[root[t]] = "absent"
    /\ status' = [status EXCEPT ![root[t]] = "active"]
    /\ children' = [children EXCEPT ![Parent[root[t]]] = @ + 1]
    /\ Release(t)
    /\ pc' = [pc EXCEPT ![t] = "done"]
    /\ UNCHANGED <<sent, txn, tree, written, sends>>

\* The recursive query, over what is committed now.
Query(t) ==
    LET within == {s \in Session : status[s] \in Follows(kind[t])} IN
    /\ pc[t] = "query"
    /\ root[t] \in within
    /\ tree' = [tree EXCEPT ![t] =
           {s \in within : \A T \in SUBSET Session :
               root[t] \in T /\ (\A c \in within : Parent[c] \in T => c \in T)
               => s \in T}]
    /\ pc' = [pc EXCEPT ![t] = "update"]
    /\ UNCHANGED <<rows, lock, rowLock, txn, written, sends>>

\* Mutant: the table has no sessions_terminal_fields_check.
CheckAcceptsAll(t, s) == TRUE

\* sessions_terminal_fields_check: a row that meanwhile ended has terminated_at
\* set and takes neither 'active' nor 'suspended'.
CheckAccepts(t, s) == kind[t] \in {"suspend", "resume"} => status[s] \in LiveStatus

\* The UPDATE reaches one more row of the query's result.  Its WHERE clause
\* names the row by id only.
UpdateRow(t, s) ==
    /\ pc[t] = "update"
    /\ s \in tree[t] \ written[t]
    /\ rowLock[s] \in {None, t}
    /\ CheckAccepts(t, s)
    /\ rowLock' = [rowLock EXCEPT ![s] = t]
    /\ written' = [written EXCEPT ![t] = @ \cup {s}]
    /\ UNCHANGED <<rows, lock, txn, pc, tree, sends>>

\* The parent that stays behind is locked for its decrement.
LockParent(t) ==
    /\ pc[t] = "update"
    /\ written[t] = tree[t]
    /\ LET p == Parent[root[t]] IN
       IF kind[t] \in {"terminate", "revoke"} /\ p # None
       THEN rowLock[p] \in {None, t} /\ rowLock' = [rowLock EXCEPT ![p] = t]
       ELSE rowLock' = rowLock
    /\ pc' = [pc EXCEPT ![t] = "exempt"]
    /\ UNCHANGED <<rows, lock, txn, tree, written, sends>>

NewStatus(t) == CASE kind[t] = "suspend" -> "suspended"
                  [] kind[t] = "resume" -> "active"
                  [] OTHER -> "terminated"

\* revocationExemptSessions: a live session outside the batch keeps the shared
\* record, as far as committed rows tell.
Exempted(t) == \E s \in UserSession \ tree[t] : s \in Live

\* Mutant: the parent keeps counting the child that ended.
DecrementNone(t, n) == n

\* The children that ended are subtracted; GREATEST keeps the count from zero.
Decrement(t, n) ==
    LET dec == Cardinality({s \in tree[t] : Parent[s] = Parent[root[t]]}) IN
    IF n > dec THEN n - dec ELSE 0

\* The exemption query.  The revoke route also sends the records of the
\* sessions its edges point at, exempt or not.
QueryExempt(t) ==
    /\ pc[t] = "exempt"
    /\ sends' = [sends EXCEPT ![t] =
           /\ kind[t] # "resume"
           /\ tree[t] \cap UserSession # {}
           /\ (kind[t] = "revoke" /\ root[t] \in UserSession) \/ ~Exempted(t)]
    /\ pc' = [pc EXCEPT ![t] = "commit"]
    /\ UNCHANGED <<rows, lock, rowLock, txn, tree, written>>

\* The outbox rows and COMMIT.
Commit(t) ==
    /\ pc[t] = "commit"
    /\ status' = [s \in Session |-> IF s \in tree[t] THEN NewStatus(t) ELSE status[s]]
    /\ children' =
           IF kind[t] \in {"terminate", "revoke"} /\ Parent[root[t]] # None
           THEN [children EXCEPT ![Parent[root[t]]] = Decrement(t, @)]
           ELSE children
    /\ sent' = (sent \/ sends[t])
    /\ Release(t)
    /\ pc' = [pc EXCEPT ![t] = "done"]
    /\ UNCHANGED <<txn, tree, written, sends>>

Next ==
    \E t \in Txn :
        \/ Begin(t)
        \/ LockOwn(t)
        \/ Insert(t)
        \/ Query(t)
        \/ \E s \in Session : UpdateRow(t, s)
        \/ LockParent(t)
        \/ QueryExempt(t)
        \/ Commit(t)
        \/ Fail(t)

Spec == Init /\ [][Next]_vars

-----------------------------------------------------------------------------
(* Properties, of the committed rows *)

Ended == {s \in Session : status[s] = "terminated"}

TypeOK ==
    /\ status \in [Session -> LiveStatus \cup {"absent", "terminated"}]
    /\ children \in [Session -> 0..Cardinality(Session)]
    /\ sent \in BOOLEAN
    /\ lock \in [{"session", "delegation"} -> Txn \cup {None}]
    /\ rowLock \in [Session -> Txn \cup {None}]
    /\ kind \in [Txn -> Kinds]
    /\ root \in [Txn -> Session]
    /\ pc \in [Txn -> {"begin", "own", "insert", "query", "update", "exempt", "commit",
                       "done"}]
    /\ tree \in [Txn -> SUBSET Session]
    /\ written \in [Txn -> SUBSET Session]
    /\ sends \in [Txn -> BOOLEAN]

\* "A start committing under a subtree being terminated would otherwise create
\* an orphan the terminate cascade's recursive CTE never saw": with the
\* session lock it does not, although suspensions and resumptions that take
\* no such lock overlap with both.
NoLiveOrphan == \A s \in Live : Parent[s] # None => Parent[s] \in Live

\* child_count stays the number of live children through overlapping updates.
ChildCountExact ==
    \A s \in Live : children[s] = Cardinality({c \in Live : Parent[c] = s})

\* Two terminations that overlap do not each leave the shared record to the
\* other: when its last session has ended, it has been sent.
LastReferentRevokes ==
    UserSession \cap Ended # {} /\ UserSession \cap Live = {} => sent

\* A resumption or suspension whose query ran before a termination committed
\* does not bring the terminated session back when its UPDATE gets to it.
EndedStaysEnded == [][Ended \subseteq Ended']_vars
=============================================================================
