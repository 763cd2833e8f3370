--------------------------- MODULE TreeRaceProofs ---------------------------
(***************************************************************************)
(* Proofs about TreeRace for trees of any shape and any number of          *)
(* transactions that overlap in any way.                                   *)
(*                                                                         *)
(* The row locks alone keep an ended session ended, whatever handlers run. *)
(* That the tree stays closed, the counts exact and the shared record sent *)
(* rests on the zone's session lock, and so on the hypothesis that every   *)
(* handler that adds or ends sessions takes it: Serialized.                *)
(***************************************************************************)
EXTENDS TreeRace, FiniteSetTheorems, TLAPS

\* The delegation routes, which end sessions without the session lock, are
\* left out.
Serialized == "revoke" \notin Kinds

Working == {"update", "exempt", "commit"}

Rewrites(t) == kind[t] \in {"suspend", "resume"}

Typed ==
    /\ status \in [Session -> LiveStatus \cup {"absent", "terminated"}]
    /\ children \in [Session -> Nat]
    /\ lock \in [{"session", "delegation"} -> Txn \cup {None}]
    /\ rowLock \in [Session -> Txn \cup {None}]
    /\ kind \in [Txn -> Kinds]
    /\ root \in [Txn -> Session]
    /\ pc \in [Txn -> {"begin", "own", "insert", "query", "update", "exempt", "commit",
                       "done"}]
    /\ tree \in [Txn -> SUBSET Session]
    /\ written \in [Txn -> SUBSET Session]
    /\ sends \in [Txn -> BOOLEAN]

\* An UPDATE goes over the rows of the query, and over all of them.
WrittenWithin ==
    \A t \in Txn :
        /\ written[t] \subseteq tree[t]
        /\ pc[t] \in {"begin", "own", "insert", "query"} => written[t] = {}
        /\ pc[t] \in {"exempt", "commit"} => written[t] = tree[t]

\* It holds the lock of each row that it has reached,
WrittenLocked ==
    \A t \in Txn : pc[t] \in Working => \A s \in written[t] : rowLock[s] = t

\* and a row that was live when it was reached is live until it lets go.
WrittenLive ==
    \A t \in Txn : pc[t] \in Working /\ Rewrites(t) =>
        \A s \in written[t] : status[s] \in LiveStatus

\* Only a start inserts, and it does nothing else.
StatementsFit ==
    \A t \in Txn :
        /\ pc[t] = "insert" => kind[t] = "start"
        /\ kind[t] = "start" =>
              /\ pc[t] \in {"begin", "own", "insert", "done"}
              /\ Parent[root[t]] # None

RowInv ==
    /\ Typed
    /\ WrittenWithin
    /\ WrittenLocked
    /\ WrittenLive
    /\ StatementsFit

Serial(t) == kind[t] \in {"start", "terminate"}

\* One start or termination at a time.
SessionLocked ==
    \A t \in Txn :
        Serial(t) /\ pc[t] \notin {"begin", "done"} => lock["session"] = t

\* What a start read of its parent is still so.
StartsBelowLive ==
    \A t \in Txn : pc[t] = "insert" => Parent[root[t]] \in Live

\* So is what the query of a termination returned: a whole live subtree,
TreeStands ==
    \A t \in Txn : kind[t] = "terminate" /\ pc[t] \in Working =>
        /\ root[t] \in tree[t] /\ tree[t] \subseteq Live
        /\ \A c \in Live : Parent[c] \in tree[t] => c \in tree[t]
        /\ \A c \in tree[t] : c # root[t] => Parent[c] \in tree[t]

\* and what its exemption query said.
ExemptionStands ==
    \A t \in Txn : kind[t] = "terminate" /\ pc[t] = "commit" =>
        (sends[t] <=> tree[t] \cap UserSession # {} /\ ~Exempted(t))

\* A session that has not been started has no children and counts none.
CountsKept ==
    \A s \in Session \ Ended : children[s] = Cardinality({c \in Live : Parent[c] = s})

ZoneInv ==
    /\ SessionLocked
    /\ StartsBelowLive
    /\ TreeStands
    /\ ExemptionStands
    /\ NoLiveOrphan
    /\ CountsKept
    /\ LastReferentRevokes

-----------------------------------------------------------------------------
(* The row locks *)

LEMMA Constants ==
    /\ None \notin Session /\ None \notin Txn /\ None # "session"
    /\ Parent \in [Session -> Session \cup {None}]
    /\ IsFiniteSet(Session) /\ UserSession \subseteq Session
    /\ Kinds \subseteq {"start", "terminate", "revoke", "suspend", "resume"}
BY ParentAssumption, KindsAssumption

LEMMA Counted ==
    ASSUME NEW S \in SUBSET Session
    PROVE  IsFiniteSet(S) /\ Cardinality(S) \in Nat
BY Constants, FS_Subset, FS_CardinalityType

\* The parts of RowInv that speak of one transaction.
OwnRow(t) ==
    /\ written[t] \subseteq tree[t]
    /\ pc[t] \in {"begin", "own", "insert", "query"} => written[t] = {}
    /\ pc[t] \in {"exempt", "commit"} => written[t] = tree[t]
    /\ pc[t] \in Working => \A s \in written[t] : rowLock[s] = t
    /\ pc[t] \in Working /\ Rewrites(t) => \A s \in written[t] : status[s] \in LiveStatus
    /\ pc[t] = "insert" => kind[t] = "start"
    /\ kind[t] = "start" =>
          /\ pc[t] \in {"begin", "own", "insert", "done"}
          /\ Parent[root[t]] # None

LEMMA RowByTxn == RowInv <=> Typed /\ \A t \in Txn : OwnRow(t)
BY DEF RowInv, WrittenWithin, WrittenLocked, WrittenLive, StatementsFit, OwnRow

LEMMA InitRow == Init => RowInv
<1> SUFFICES ASSUME Init PROVE RowInv
  OBVIOUS
<1>1. children \in [Session -> Nat]
  <2>1. \A s \in Session : {c \in Live : Parent[c] = s} \in SUBSET Session
    BY DEF Live
  <2> QED BY <2>1, Counted DEF Init
<1>2. Typed
  BY <1>1 DEF Init, Typed
<1>3. \A t \in Txn : OwnRow(t)
  BY DEF Init, OwnRow, Working
<1> QED BY <1>2, <1>3, RowByTxn

\* What a step of t leaves of the other transactions: it takes no row lock from
\* them and ends no row that it has not locked.
Frame(t) ==
    /\ UNCHANGED <<kind, root>>
    /\ \A u \in Txn \ {t} : /\ pc'[u] = pc[u] /\ tree'[u] = tree[u]
                            /\ written'[u] = written[u] /\ sends'[u] = sends[u]
                            /\ lock["session"] = u => lock'["session"] = u
                            /\ \A s \in Session : rowLock[s] = u => rowLock'[s] = u
    /\ \A s \in Session :
          status[s] \in LiveStatus => status'[s] \in LiveStatus \/ rowLock[s] = t

LEMMA RowStep ==
    ASSUME RowInv, NEW t \in Txn, Typed', Frame(t), OwnRow(t)'
    PROVE  RowInv'
<1>1. ASSUME NEW u \in Txn \ {t} PROVE OwnRow(u)'
  <2>1. OwnRow(u) /\ tree[u] \subseteq Session
    BY RowByTxn DEF RowInv, Typed
  <2>2. pc'[u] = pc[u] /\ tree'[u] = tree[u] /\ written'[u] = written[u]
        /\ kind' = kind /\ root' = root
    BY DEF Frame
  <2>3. pc[u] \in Working => \A s \in written[u] : rowLock[s] = u /\ rowLock'[s] = u
    BY <2>1 DEF OwnRow, Frame
  <2>4. pc[u] \in Working /\ Rewrites(u) => \A s \in written[u] : status'[s] \in LiveStatus
    BY <2>1, <2>3 DEF OwnRow, Frame
  <2> QED BY <2>1, <2>2, <2>3, <2>4 DEF OwnRow, Rewrites
<1>2. \A u \in Txn : OwnRow(u)'
  BY <1>1
<1> QED BY <1>2 DEF RowInv, WrittenWithin, WrittenLocked, WrittenLive, StatementsFit,
                    OwnRow

LEMMA ReleaseFacts ==
    ASSUME Typed, NEW t \in Txn, Release(t)
    PROVE  /\ lock' \in [{"session", "delegation"} -> Txn \cup {None}]
           /\ rowLock' \in [Session -> Txn \cup {None}]
           /\ \A u \in Txn \ {t} : /\ lock["session"] = u => lock'["session"] = u
                                   /\ \A s \in Session : rowLock[s] = u => rowLock'[s] = u
BY DEF Typed, Release

\* A row lock that is free, or t's own, is taken by t.
LEMMA TakeRow ==
    ASSUME Typed, NEW t \in Txn, NEW s \in Session, rowLock[s] \in {None, t},
           rowLock' = [rowLock EXCEPT ![s] = t]
    PROVE  /\ rowLock' \in [Session -> Txn \cup {None}] /\ rowLock'[s] = t
           /\ \A u \in Txn, r \in Session : rowLock[r] = u => rowLock'[r] = u
BY Constants DEF Typed

\* Only t's own statement changes.
LEMMA PcStep ==
    ASSUME Typed, NEW t \in Txn, NEW c, pc' = [pc EXCEPT ![t] = c]
    PROVE  pc'[t] = c /\ \A u \in Txn \ {t} : pc'[u] = pc[u]
BY DEF Typed

\* Steps at whose end t has written nothing or is done.
LEMMA OwnNothing ==
    ASSUME RowInv, NEW t \in Txn, kind' = kind, root' = root, written'[t] = written[t],
           tree'[t] = tree[t] \/ written[t] = {},
           \/ pc'[t] = "done"
           \/ /\ pc'[t] \in {"own", "query", "insert"} /\ pc[t] \in {"begin", "own"}
              /\ pc'[t] = "query" => kind[t] # "start"
              /\ pc'[t] = "insert" => kind[t] = "start"
    PROVE  OwnRow(t)'
<1>1. OwnRow(t)
  BY RowByTxn
<1> QED BY <1>1 DEF OwnRow, Working

LEMMA BeginRow == ASSUME RowInv, NEW t \in Txn, Begin(t) PROVE RowInv' /\ Frame(t)
<1>1. Typed /\ OwnRow(t)
  BY RowByTxn
<1>2. pc'[t] = (IF kind[t] = "revoke" THEN "query" ELSE "own")
      /\ \A u \in Txn \ {t} : pc'[u] = pc[u]
  BY <1>1, PcStep DEF Begin
<1>3. /\ lock' \in [{"session", "delegation"} -> Txn \cup {None}]
      /\ \A u \in Txn : lock["session"] = u => lock'["session"] = u
  BY <1>1, Constants DEF Begin, Typed, AdvisoryLock
<1>4. UNCHANGED <<status, children, sent, rowLock, kind, root, tree, written, sends>>
  BY DEF Begin, rows, txn
<1>5. Typed'
  BY <1>1, <1>3, <1>4 DEF Typed, Begin
<1>6. Frame(t)
  BY <1>2, <1>3, <1>4 DEF Frame
<1>7. OwnRow(t)'
  BY <1>2, <1>4, OwnNothing DEF Begin
<1> QED BY <1>5, <1>6, <1>7, RowStep

LEMMA FailRow == ASSUME RowInv, NEW t \in Txn, Fail(t) PROVE RowInv' /\ Frame(t)
<1>1. Typed /\ OwnRow(t)
  BY RowByTxn
<1>2. pc'[t] = "done" /\ \A u \in Txn \ {t} : pc'[u] = pc[u]
  BY <1>1, PcStep DEF Fail, Rollback
<1>3. UNCHANGED <<status, children, sent, kind, root, tree, written, sends>>
  BY DEF Fail, Rollback, rows, txn
<1>4. Release(t)
  BY DEF Fail, Rollback
<1>5. Typed'
  BY <1>1, <1>3, <1>4, ReleaseFacts DEF Typed, Fail, Rollback
<1>6. Frame(t)
  BY <1>1, <1>2, <1>3, <1>4, ReleaseFacts DEF Frame
<1>7. OwnRow(t)'
  BY <1>2, <1>3, OwnNothing
<1> QED BY <1>5, <1>6, <1>7, RowStep

LEMMA LockOwnRow == ASSUME RowInv, NEW t \in Txn, LockOwn(t) PROVE RowInv' /\ Frame(t)
<1>1. Typed /\ OwnRow(t)
  BY RowByTxn
<1>2. pc'[t] = (IF kind[t] = "start" THEN "insert" ELSE "query")
      /\ \A u \in Txn \ {t} : pc'[u] = pc[u]
  BY <1>1, PcStep DEF LockOwn
<1>3. FirstRow(t) \in Session
  BY <1>1, Constants DEF FirstRow, OwnRow, Typed
<1>4. /\ rowLock' \in [Session -> Txn \cup {None}]
      /\ \A u \in Txn, r \in Session : rowLock[r] = u => rowLock'[r] = u
  BY <1>1, <1>3, TakeRow DEF LockOwn
<1>5. UNCHANGED <<status, children, sent, lock, kind, root, tree, written, sends>>
  BY DEF LockOwn, rows, txn
<1>6. Typed'
  BY <1>1, <1>4, <1>5 DEF Typed, LockOwn
<1>7. Frame(t)
  BY <1>2, <1>4, <1>5 DEF Frame
<1>8. OwnRow(t)'
  BY <1>2, <1>5, OwnNothing DEF LockOwn
<1> QED BY <1>6, <1>7, <1>8, RowStep

LEMMA InsertRow == ASSUME RowInv, NEW t \in Txn, Insert(t) PROVE RowInv' /\ Frame(t)
<1>1. Typed /\ OwnRow(t)
  BY RowByTxn
<1>2. pc'[t] = "done" /\ \A u \in Txn \ {t} : pc'[u] = pc[u]
  BY <1>1, PcStep DEF Insert
<1>3. /\ UNCHANGED <<sent, kind, root, tree, written, sends>> /\ Release(t)
      /\ status' = [status EXCEPT ![root[t]] = "active"]
      /\ children' = [children EXCEPT ![Parent[root[t]]] = children[Parent[root[t]]] + 1]
  BY DEF Insert, txn
<1>4. root[t] \in Session /\ Parent[root[t]] \in Session
  BY <1>1, Constants DEF Typed, OwnRow, Insert
<1>5. status' \in [Session -> LiveStatus \cup {"absent", "terminated"}]
      /\ children' \in [Session -> Nat]
  BY <1>1, <1>3, <1>4 DEF Typed, LiveStatus
<1>6. Typed'
  BY <1>1, <1>3, <1>5, ReleaseFacts DEF Typed, Insert
<1>7. \A s \in Session : status[s] \in LiveStatus => status'[s] \in LiveStatus
  BY <1>1, <1>3, <1>4 DEF Typed, LiveStatus
<1>8. Frame(t)
  BY <1>1, <1>2, <1>3, <1>7, ReleaseFacts DEF Frame
<1>9. OwnRow(t)'
  BY <1>2, <1>3, OwnNothing
<1> QED BY <1>6, <1>8, <1>9, RowStep

LEMMA QueryRow == ASSUME RowInv, NEW t \in Txn, Query(t) PROVE RowInv' /\ Frame(t)
<1>1. Typed /\ OwnRow(t)
  BY RowByTxn
<1>2. pc'[t] = "update" /\ \A u \in Txn \ {t} : pc'[u] = pc[u]
  BY <1>1, PcStep DEF Query
<1>3. UNCHANGED <<status, children, sent, lock, rowLock, kind, root, written, sends>>
  BY DEF Query, rows, txn
<1>4. /\ tree' \in [Txn -> SUBSET Session]
      /\ \A u \in Txn \ {t} : tree'[u] = tree[u]
  BY <1>1 DEF Query, Typed
<1>5. Typed'
  BY <1>1, <1>3, <1>4 DEF Typed, Query
<1>6. Frame(t)
  BY <1>2, <1>3, <1>4 DEF Frame
<1>7. written[t] = {} /\ kind[t] # "start"
  BY <1>1 DEF OwnRow, Query
<1>8. OwnRow(t)'
  BY <1>2, <1>3, <1>7 DEF OwnRow
<1> QED BY <1>5, <1>6, <1>8, RowStep

LEMMA UpdateRowRow ==
    ASSUME RowInv, NEW t \in Txn, NEW s \in Session, UpdateRow(t, s)
    PROVE  RowInv' /\ Frame(t)
<1>1. Typed /\ OwnRow(t)
  BY RowByTxn
<1>2. /\ pc[t] = "update" /\ s \in tree[t] /\ rowLock[s] \in {None, t}
      /\ rowLock' = [rowLock EXCEPT ![s] = t] /\ CheckAccepts(t, s)
      /\ UNCHANGED <<status, children, sent, lock, kind, root, pc, tree, sends>>
  BY DEF UpdateRow, rows, txn
<1>3. /\ rowLock' \in [Session -> Txn \cup {None}] /\ rowLock'[s] = t
      /\ \A u \in Txn, r \in Session : rowLock[r] = u => rowLock'[r] = u
  BY <1>1, <1>2, TakeRow
<1>4. /\ written' \in [Txn -> SUBSET Session] /\ written'[t] = written[t] \cup {s}
      /\ \A u \in Txn \ {t} : written'[u] = written[u]
  BY <1>1 DEF UpdateRow, Typed
<1>5. Typed'
  BY <1>1, <1>2, <1>3, <1>4 DEF Typed
<1>6. Frame(t)
  BY <1>2, <1>3, <1>4 DEF Frame
<1>7. \A r \in written'[t] : r \in Session /\ r \in tree[t] /\ rowLock'[r] = t
  BY <1>1, <1>2, <1>3, <1>4 DEF OwnRow, Working, Typed
<1>8. Rewrites(t) => \A r \in written'[t] : status[r] \in LiveStatus
  BY <1>1, <1>2, <1>4 DEF OwnRow, Working, CheckAccepts, Rewrites
<1>9. OwnRow(t)'
  BY <1>1, <1>2, <1>4, <1>7, <1>8 DEF OwnRow, Rewrites
<1> QED BY <1>5, <1>6, <1>9, RowStep

LEMMA LockParentRow == ASSUME RowInv, NEW t \in Txn, LockParent(t) PROVE RowInv' /\ Frame(t)
<1>1. Typed /\ OwnRow(t)
  BY RowByTxn
<1>2. pc'[t] = "exempt" /\ \A u \in Txn \ {t} : pc'[u] = pc[u]
  BY <1>1, PcStep DEF LockParent
<1>3. /\ pc[t] = "update" /\ written[t] = tree[t]
      /\ UNCHANGED <<status, children, sent, lock, kind, root, tree, written, sends>>
  BY DEF LockParent, rows, txn
<1>4. Parent[root[t]] \in Session \cup {None}
  BY <1>1, Constants DEF Typed
<1>5. /\ rowLock' \in [Session -> Txn \cup {None}]
      /\ \A u \in Txn, r \in Session : rowLock[r] = u => rowLock'[r] = u
  BY <1>1, <1>4, TakeRow DEF LockParent, Typed
<1>6. Typed'
  BY <1>1, <1>3, <1>5 DEF Typed, LockParent
<1>7. Frame(t)
  BY <1>2, <1>3, <1>5 DEF Frame
<1>8. OwnRow(t)'
  BY <1>1, <1>2, <1>3, <1>5 DEF OwnRow, Working, Rewrites, Typed
<1> QED BY <1>6, <1>7, <1>8, RowStep

LEMMA QueryExemptRow ==
    ASSUME RowInv, NEW t \in Txn, QueryExempt(t) PROVE RowInv' /\ Frame(t)
<1>1. Typed /\ OwnRow(t)
  BY RowByTxn
<1>2. pc'[t] = "commit" /\ \A u \in Txn \ {t} : pc'[u] = pc[u]
  BY <1>1, PcStep DEF QueryExempt
<1>3. /\ pc[t] = "exempt"
      /\ UNCHANGED <<status, children, sent, lock, rowLock, kind, root, tree, written>>
  BY DEF QueryExempt, rows, txn
<1> DEFINE b == /\ kind[t] # "resume"
                /\ tree[t] \cap UserSession # {}
                /\ (kind[t] = "revoke" /\ root[t] \in UserSession) \/ ~Exempted(t)
<1>4. sends' = [sends EXCEPT ![t] = b] /\ b \in BOOLEAN
  BY DEF QueryExempt
<1> HIDE DEF b
<1>5. sends' \in [Txn -> BOOLEAN] /\ \A u \in Txn \ {t} : sends'[u] = sends[u]
  BY <1>1, <1>4 DEF Typed
<1>6. Typed'
  BY <1>1, <1>3, <1>5 DEF Typed, QueryExempt
<1>7. Frame(t)
  BY <1>2, <1>3, <1>5 DEF Frame
<1>8. OwnRow(t)'
  BY <1>1, <1>2, <1>3 DEF OwnRow, Working, Rewrites
<1> QED BY <1>6, <1>7, <1>8, RowStep

LEMMA CommitRow == ASSUME RowInv, NEW t \in Txn, Commit(t) PROVE RowInv' /\ Frame(t)
<1>1. Typed /\ OwnRow(t)
  BY RowByTxn
<1>2. pc'[t] = "done" /\ \A u \in Txn \ {t} : pc'[u] = pc[u]
  BY <1>1, PcStep DEF Commit
<1>3. /\ UNCHANGED <<kind, root, tree, written, sends>> /\ Release(t) /\ pc[t] = "commit"
      /\ status' = [s \in Session |-> IF s \in tree[t] THEN NewStatus(t) ELSE status[s]]
  BY DEF Commit, txn
<1>4. NewStatus(t) \in LiveStatus \cup {"terminated"}
  BY DEF NewStatus, LiveStatus
<1>5. status' \in [Session -> LiveStatus \cup {"absent", "terminated"}]
  BY <1>1, <1>3, <1>4 DEF Typed
<1>6. children' \in [Session -> Nat]
  <2>1. Cardinality({s \in tree[t] : Parent[s] = Parent[root[t]]}) \in Nat
    BY <1>1, Counted DEF Typed
  <2>2. \A n \in Nat : Decrement(t, n) \in Nat
    BY <2>1 DEF Decrement
  <2>3. Parent[root[t]] \in Session \cup {None}
    BY <1>1, Constants DEF Typed
  <2> QED BY <1>1, <2>2, <2>3 DEF Typed, Commit
<1>7. Typed'
  BY <1>1, <1>3, <1>5, <1>6, ReleaseFacts DEF Typed, Commit
<1>8. \A s \in tree[t] : rowLock[s] = t
  BY <1>1, <1>3 DEF OwnRow, Working
<1>9. Frame(t)
  BY <1>1, <1>2, <1>3, <1>8, ReleaseFacts DEF Frame
<1>10. OwnRow(t)'
  BY <1>2, <1>3, OwnNothing
<1> QED BY <1>7, <1>9, <1>10, RowStep

\* Every step is some transaction's, and touches the others only as Frame says.
LEMMA NextRow == RowInv /\ [Next]_vars => RowInv'
<1> SUFFICES ASSUME RowInv, [Next]_vars PROVE RowInv'
  OBVIOUS
<1>1. CASE UNCHANGED vars
  BY <1>1 DEF vars, RowInv, Typed, WrittenWithin, WrittenLocked, WrittenLive,
              StatementsFit, Rewrites
<1>2. CASE Next
  BY <1>2, BeginRow, LockOwnRow, InsertRow, QueryRow, UpdateRowRow, LockParentRow,
     QueryExemptRow, CommitRow, FailRow DEF Next
<1> QED BY <1>1, <1>2

LEMMA RowsAlways == Spec => []RowInv
BY InitRow, NextRow, PTL DEF Spec

\* Whatever handlers overlap, the delegation routes' included, no UPDATE of a
\* suspension or a resumption brings back a session that has ended: the row it
\* writes was live when it was locked, and is locked until the commit.
THEOREM EndedStaysEndedTheorem == Spec => EndedStaysEnded
<1>1. RowInv /\ [Next]_vars => [Ended \subseteq Ended']_vars
  <2> SUFFICES ASSUME RowInv, [Next]_vars PROVE Ended \subseteq Ended'
    OBVIOUS
  <2>0. Typed
    BY DEF RowInv
  <2>1. ASSUME NEW t \in Txn, Insert(t) PROVE Ended \subseteq Ended'
    BY <2>0, <2>1 DEF Insert, Ended, Typed
  <2>2. ASSUME NEW t \in Txn, Commit(t) PROVE Ended \subseteq Ended'
    <3>1. OwnRow(t)
      BY RowByTxn
    <3>2. \A s \in Session : status'[s] = IF s \in tree[t] THEN NewStatus(t) ELSE status[s]
      BY <2>2 DEF Commit
    <3>3. CASE Rewrites(t)
      <4>1. \A s \in tree[t] : status[s] \in LiveStatus
        BY <2>2, <3>1, <3>3 DEF Commit, OwnRow, Working
      <4> QED BY <3>2, <4>1 DEF Ended, LiveStatus
    <3>4. CASE ~Rewrites(t)
      <4>1. NewStatus(t) = "terminated"
        BY <3>4 DEF NewStatus, Rewrites
      <4> QED BY <3>2, <4>1 DEF Ended
    <3> QED BY <3>3, <3>4
  <2>3. CASE UNCHANGED status
    BY <2>3 DEF Ended
  <2> QED BY <2>1, <2>2, <2>3 DEF Next, vars, Begin, LockOwn, Query, UpdateRow, LockParent,
                                  QueryExempt, Fail, Rollback, rows
<1> QED BY <1>1, RowsAlways, PTL DEF Spec, EndedStaysEnded

-----------------------------------------------------------------------------
(* The session lock *)

\* The parts of ZoneInv that speak of one transaction.
OwnZone(t) ==
    /\ Serial(t) /\ pc[t] \notin {"begin", "done"} => lock["session"] = t
    /\ pc[t] = "insert" => Parent[root[t]] \in Live
    /\ kind[t] = "terminate" /\ pc[t] \in Working =>
          /\ root[t] \in tree[t] /\ tree[t] \subseteq Live
          /\ \A c \in Live : Parent[c] \in tree[t] => c \in tree[t]
          /\ \A c \in tree[t] : c # root[t] => Parent[c] \in tree[t]
    /\ kind[t] = "terminate" /\ pc[t] = "commit" =>
          (sends[t] <=> tree[t] \cap UserSession # {} /\ ~Exempted(t))

LEMMA ZoneByTxn ==
    ZoneInv <=> /\ \A t \in Txn : OwnZone(t)
                /\ NoLiveOrphan /\ CountsKept /\ LastReferentRevokes
BY DEF ZoneInv, SessionLocked, StartsBelowLive, TreeStands, ExemptionStands, OwnZone

LEMMA InitZone == Init => ZoneInv
<1> SUFFICES ASSUME Init PROVE ZoneInv
  OBVIOUS
<1>1. \A t \in Txn : OwnZone(t)
  BY DEF Init, OwnZone, Working
<1>2. NoLiveOrphan
  BY DEF Init, NoLiveOrphan
<1>3. CountsKept
  BY DEF Init, CountsKept
<1>4. Ended = {}
  BY DEF Init, Ended, LiveStatus
<1>5. LastReferentRevokes
  BY <1>4 DEF LastReferentRevokes
<1> QED BY <1>1, <1>2, <1>3, <1>5, ZoneByTxn

\* Steps that add and end no session.
LEMMA QuietZone ==
    ASSUME RowInv, ZoneInv, RowInv', NEW t \in Txn, Frame(t), Live' = Live, Ended' = Ended,
           UNCHANGED children, sent => sent', OwnZone(t)'
    PROVE  ZoneInv'
<1>1. ASSUME NEW u \in Txn \ {t} PROVE OwnZone(u)'
  <2>1. OwnZone(u)
    BY ZoneByTxn
  <2>2. /\ pc'[u] = pc[u] /\ tree'[u] = tree[u] /\ sends'[u] = sends[u]
        /\ kind' = kind /\ root' = root
        /\ lock["session"] = u => lock'["session"] = u
    BY DEF Frame
  <2>3. Exempted(u)' <=> Exempted(u)
    BY <2>2 DEF Exempted
  <2> QED BY <2>1, <2>2, <2>3 DEF OwnZone, Serial
<1>2. NoLiveOrphan' /\ CountsKept' /\ LastReferentRevokes'
  BY DEF ZoneInv, NoLiveOrphan, CountsKept, LastReferentRevokes
<1>3. \A u \in Txn : OwnZone(u)'
  BY <1>1
<1> QED BY <1>2, <1>3 DEF ZoneInv, SessionLocked, StartsBelowLive, TreeStands,
                          ExemptionStands, OwnZone

LEMMA SameStatus ==
    ASSUME UNCHANGED status
    PROVE  Live' = Live /\ Ended' = Ended
BY DEF Live, Ended

\* While a start or a termination is past its lock, no other is.
LEMMA Alone ==
    ASSUME ZoneInv, NEW t \in Txn, Serial(t), pc[t] \notin {"begin", "done"},
           NEW u \in Txn \ {t}
    PROVE  pc[u] \in {"begin", "done"} \/ ~Serial(u)
BY DEF ZoneInv, SessionLocked

\* A step that ends a start or a termination leaves nothing under way that
\* depends on the zone.
LEMMA OwnZoneAfter ==
    ASSUME RowInv, ZoneInv, RowInv', NEW t \in Txn, Frame(t), Serial(t),
           pc[t] \notin {"begin", "done"}, pc'[t] = "done"
    PROVE  \A u \in Txn : OwnZone(u)'
<1> SUFFICES ASSUME NEW u \in Txn PROVE OwnZone(u)'
  OBVIOUS
<1>1. pc'[u] \in {"begin", "done"} \/ ~Serial(u)'
  <2>1. CASE u = t
    BY <2>1
  <2>2. CASE u # t
    BY <2>2, Alone DEF Frame, Serial
  <2> QED BY <2>1, <2>2
<1> QED BY <1>1 DEF RowInv, StatementsFit, OwnZone, Serial, Working

LEMMA BeginZone ==
    ASSUME Serialized, RowInv, ZoneInv, NEW t \in Txn, Begin(t) PROVE ZoneInv'
<1>1. RowInv' /\ Frame(t) /\ Typed
  BY BeginRow DEF RowInv
<1>2. kind[t] # "revoke" /\ kind' = kind
  BY <1>1 DEF Serialized, Typed, Frame
<1>3. pc'[t] = "own"
  BY <1>1, <1>2, PcStep DEF Begin
<1>4. Serial(t) => lock'["session"] = t
  <2> SUFFICES ASSUME Serial(t) PROVE lock'["session"] = t
    OBVIOUS
  <2>1. AdvisoryLock(t) = "session"
    BY DEF Serial, AdvisoryLock
  <2> QED BY <1>1, <2>1, Constants DEF Begin, Typed
<1>5. OwnZone(t)'
  BY <1>2, <1>3, <1>4 DEF OwnZone, Serial, Working
<1> QED BY <1>1, <1>5, SameStatus, QuietZone DEF Begin, rows

LEMMA FailZone == ASSUME RowInv, ZoneInv, NEW t \in Txn, Fail(t) PROVE ZoneInv'
<1>1. RowInv' /\ Frame(t) /\ Typed
  BY FailRow DEF RowInv
<1>2. pc'[t] = "done"
  BY <1>1, PcStep DEF Fail, Rollback
<1>3. OwnZone(t)'
  BY <1>2 DEF OwnZone, Working
<1> QED BY <1>1, <1>3, SameStatus, QuietZone DEF Fail, Rollback, rows

LEMMA LockOwnZone == ASSUME RowInv, ZoneInv, NEW t \in Txn, LockOwn(t) PROVE ZoneInv'
<1>1. RowInv' /\ Frame(t) /\ Typed /\ OwnRow(t) /\ OwnZone(t)
  BY LockOwnRow, RowByTxn, ZoneByTxn DEF RowInv
<1>2. pc'[t] = (IF kind[t] = "start" THEN "insert" ELSE "query")
  BY <1>1, PcStep DEF LockOwn
<1>3. UNCHANGED <<status, children, sent, lock, kind, root>> /\ pc[t] = "own"
  BY DEF LockOwn, rows, txn
<1>4. kind[t] = "start" => Parent[root[t]] \in Live
  <2> SUFFICES ASSUME kind[t] = "start" PROVE Parent[root[t]] \in Live
    OBVIOUS
  <2>1. Parent[root[t]] \in Session
    BY <1>1, Constants DEF OwnRow, Typed
  <2> QED BY <2>1 DEF LockOwn, FirstRow, Live, LiveStatus
<1>5. OwnZone(t)'
  BY <1>1, <1>2, <1>3, <1>4, SameStatus DEF OwnZone, Serial, Working
<1> QED BY <1>1, <1>3, <1>5, SameStatus, QuietZone

\* The recursive query of a termination returns a whole subtree.
LEMMA QueryZone == ASSUME RowInv, ZoneInv, NEW t \in Txn, Query(t) PROVE ZoneInv'
<1>1. RowInv' /\ Frame(t) /\ Typed /\ OwnRow(t) /\ OwnZone(t)
  BY QueryRow, RowByTxn, ZoneByTxn DEF RowInv
<1>2. pc'[t] = "update" /\ pc[t] = "query"
  BY <1>1, PcStep DEF Query
<1>3. UNCHANGED <<status, children, sent, lock, kind, root>>
  BY DEF Query, rows, txn
<1>4. Live' = Live
  BY <1>3, SameStatus
<1>5. ASSUME kind[t] = "terminate"
      PROVE  /\ root[t] \in tree'[t] /\ tree'[t] \subseteq Live
             /\ \A c \in Live : Parent[c] \in tree'[t] => c \in tree'[t]
             /\ \A c \in tree'[t] : c # root[t] => Parent[c] \in tree'[t]
  <2> DEFINE Closed(T) == root[t] \in T /\ \A c \in Live : Parent[c] \in T => c \in T
             R == {s \in Live : \A T \in SUBSET Session : Closed(T) => s \in T}
  <2>1. {s \in Session : status[s] \in Follows(kind[t])} = Live
    BY <1>5 DEF Follows, Live
  <2>2. root[t] \in Live
    BY <2>1 DEF Query
  <2>3. tree'[t] = R
    BY <1>1, <2>1 DEF Query, Typed
  <2>4. R \subseteq Live /\ root[t] \in R
    BY <2>2
  <2>5. ASSUME NEW c \in Live, Parent[c] \in R PROVE c \in R
    BY <2>5
  <2>6. ASSUME NEW c \in R, c # root[t] PROVE Parent[c] \in R
    <3> SUFFICES ASSUME Parent[c] \notin R PROVE FALSE
      OBVIOUS
    <3>1. R \ {c} \in SUBSET Session
      BY DEF Live
    <3>2. Closed(R \ {c})
      BY <2>4, <2>5, <2>6
    <3> QED BY <3>1, <3>2
  <2> HIDE DEF R
  <2> QED BY <2>3, <2>4, <2>5, <2>6
<1>6. OwnZone(t)'
  BY <1>1, <1>2, <1>3, <1>4, <1>5 DEF OwnZone, Serial, Working
<1> QED BY <1>1, <1>3, <1>6, SameStatus, QuietZone

LEMMA UpdateRowZone ==
    ASSUME RowInv, ZoneInv, NEW t \in Txn, NEW s \in Session, UpdateRow(t, s) PROVE ZoneInv'
<1>1. RowInv' /\ Frame(t) /\ OwnZone(t)
  BY UpdateRowRow, ZoneByTxn
<1>2. /\ UNCHANGED <<status, children, sent, lock, kind, root, pc, tree, sends>>
      /\ pc[t] = "update"
  BY DEF UpdateRow, rows, txn
<1>3. OwnZone(t)'
  BY <1>1, <1>2, SameStatus DEF OwnZone, Serial
<1> QED BY <1>1, <1>2, <1>3, SameStatus, QuietZone

LEMMA LockParentZone == ASSUME RowInv, ZoneInv, NEW t \in Txn, LockParent(t) PROVE ZoneInv'
<1>1. RowInv' /\ Frame(t) /\ Typed /\ OwnZone(t)
  BY LockParentRow, ZoneByTxn DEF RowInv
<1>2. pc'[t] = "exempt" /\ pc[t] = "update"
  BY <1>1, PcStep DEF LockParent
<1>3. UNCHANGED <<status, children, sent, lock, kind, root, tree>>
  BY DEF LockParent, rows, txn
<1>4. OwnZone(t)'
  BY <1>1, <1>2, <1>3, SameStatus DEF OwnZone, Serial, Working
<1> QED BY <1>1, <1>3, <1>4, SameStatus, QuietZone

LEMMA QueryExemptZone ==
    ASSUME RowInv, ZoneInv, NEW t \in Txn, QueryExempt(t) PROVE ZoneInv'
<1>1. RowInv' /\ Frame(t) /\ Typed /\ OwnZone(t)
  BY QueryExemptRow, ZoneByTxn DEF RowInv
<1>2. pc'[t] = "commit" /\ pc[t] = "exempt"
  BY <1>1, PcStep DEF QueryExempt
<1>3. UNCHANGED <<status, children, sent, lock, kind, root, tree>>
  BY DEF QueryExempt, rows, txn
<1>4. sends'[t] = (/\ kind[t] # "resume"
                   /\ tree[t] \cap UserSession # {}
                   /\ (kind[t] = "revoke" /\ root[t] \in UserSession) \/ ~Exempted(t))
  BY <1>1 DEF QueryExempt, Typed
<1>5. kind[t] = "terminate" => (sends'[t] <=> tree[t] \cap UserSession # {} /\ ~Exempted(t))
  BY <1>4
<1>6. Live' = Live /\ (Exempted(t)' <=> Exempted(t))
  BY <1>3, SameStatus DEF Exempted
<1>7. OwnZone(t)'
  BY <1>1, <1>2, <1>3, <1>5, <1>6 DEF OwnZone, Serial, Working
<1> QED BY <1>1, <1>3, <1>7, SameStatus, QuietZone

LEMMA InsertZone == ASSUME RowInv, ZoneInv, NEW t \in Txn, Insert(t) PROVE ZoneInv'
<1>1. RowInv' /\ Frame(t) /\ Typed /\ OwnRow(t) /\ OwnZone(t)
  BY InsertRow, RowByTxn, ZoneByTxn DEF RowInv
<1> DEFINE r == root[t]
           p == Parent[r]
<1>2. /\ pc[t] = "insert" /\ pc'[t] = "done" /\ Serial(t)
  BY <1>1, PcStep DEF Insert, OwnRow, Serial
<1>3. r \in Session /\ p \in Live /\ p \in Session /\ status[r] = "absent" /\ p # r
  BY <1>1, <1>2 DEF OwnZone, Live, Typed, Insert, LiveStatus
<1>4. /\ status' = [status EXCEPT ![r] = "active"]
      /\ children' = [children EXCEPT ![p] = children[p] + 1] /\ UNCHANGED sent
  BY DEF Insert
<1> HIDE DEF p, r
<1>5. r \notin Live /\ Live' = Live \cup {r} /\ Ended' = Ended /\ r \notin Ended
  BY <1>1, <1>3, <1>4 DEF Live, Ended, LiveStatus, Typed
<1>6. \A u \in Txn : OwnZone(u)'
  BY <1>1, <1>2, OwnZoneAfter
<1>7. NoLiveOrphan'
  BY <1>3, <1>5 DEF ZoneInv, NoLiveOrphan, p
<1>8. CountsKept'
  <2> SUFFICES ASSUME NEW s \in Session \ Ended
               PROVE  children'[s] = Cardinality({c \in Live' : Parent[c] = s})
    BY <1>5 DEF CountsKept
  <2> DEFINE before == {c \in Live : Parent[c] = s}
             after == {c \in Live' : Parent[c] = s}
  <2>1. children[s] = Cardinality(before) /\ IsFiniteSet(before) /\ r \notin before
    BY <1>5, Counted DEF ZoneInv, CountsKept, Live
  <2>2. CASE s = p
    <3>1. after = before \cup {r}
      BY <1>5, <2>2 DEF p
    <3>2. Cardinality(before \cup {r}) = Cardinality(before) + 1
      BY <2>1, FS_AddElement
    <3>3. children'[s] = children[s] + 1
      BY <1>1, <1>3, <1>4, <2>2 DEF Typed
    <3> HIDE DEF before, after
    <3> QED BY <2>1, <3>1, <3>2, <3>3 DEF after
  <2>3. CASE s # p
    <3>1. after = before
      BY <1>5, <2>3 DEF p
    <3>2. children'[s] = children[s]
      BY <1>1, <1>3, <1>4, <2>3 DEF Typed
    <3> QED BY <2>1, <3>1, <3>2
  <2> QED BY <2>2, <2>3
<1>9. LastReferentRevokes'
  BY <1>4, <1>5 DEF ZoneInv, LastReferentRevokes
<1> QED BY <1>6, <1>7, <1>8, <1>9 DEF ZoneInv, SessionLocked, StartsBelowLive, TreeStands,
                                      ExemptionStands, OwnZone

\* A suspension or a resumption commits over rows that are live.
LEMMA RewriteZone ==
    ASSUME RowInv, ZoneInv, NEW t \in Txn, Commit(t), Rewrites(t) PROVE ZoneInv'
<1>1. RowInv' /\ Frame(t) /\ Typed /\ OwnRow(t)
  BY CommitRow, RowByTxn DEF RowInv
<1>2. pc'[t] = "done"
  BY <1>1, PcStep DEF Commit
<1>3. \A s \in tree[t] : status[s] \in LiveStatus
  BY <1>1 DEF Commit, OwnRow, Working
<1>4. NewStatus(t) \in LiveStatus
  BY DEF NewStatus, Rewrites, LiveStatus
<1>5. \A s \in Session : status'[s] = IF s \in tree[t] THEN NewStatus(t) ELSE status[s]
  BY DEF Commit
<1>6. Live' = Live /\ Ended' = Ended
  BY <1>3, <1>4, <1>5 DEF Live, Ended, LiveStatus
<1>7. children' = children /\ (sent => sent')
  BY DEF Commit, Rewrites
<1>8. OwnZone(t)'
  BY <1>2 DEF OwnZone, Working
<1> QED BY <1>1, <1>6, <1>7, <1>8, QuietZone

\* A termination ends a whole live subtree, and its parent's count says so.
LEMMA TerminateZone ==
    ASSUME RowInv, ZoneInv, NEW t \in Txn, Commit(t), kind[t] = "terminate" PROVE ZoneInv'
<1>1. RowInv' /\ Frame(t) /\ Typed /\ OwnZone(t)
  BY CommitRow, ZoneByTxn DEF RowInv
<1> DEFINE r == root[t]
           p == Parent[r]
           gone == tree[t]
<1>2. pc[t] = "commit" /\ pc'[t] = "done" /\ Serial(t)
  BY <1>1, PcStep DEF Commit, Serial
<1>3. /\ r \in gone /\ gone \subseteq Live
      /\ \A c \in Live : Parent[c] \in gone => c \in gone
      /\ \A c \in gone : c # r => Parent[c] \in gone
      /\ sends[t] <=> gone \cap UserSession # {} /\ ~Exempted(t)
  BY <1>1, <1>2 DEF OwnZone, Working
<1>4. \A s \in Session : status'[s] = IF s \in gone THEN "terminated" ELSE status[s]
  BY DEF Commit, NewStatus
<1>5. Live' = Live \ gone /\ Ended' = Ended \cup gone /\ Ended \cap Live = {}
  BY <1>3, <1>4 DEF Live, Ended, LiveStatus
<1>6. \A u \in Txn : OwnZone(u)'
  BY <1>1, <1>2, OwnZoneAfter
<1>7. NoLiveOrphan'
  BY <1>3, <1>5 DEF ZoneInv, NoLiveOrphan
<1>8. r \in Session /\ gone \in SUBSET Session /\ Live \subseteq Session
  BY <1>1 DEF Typed, Live
<1>9. children' = IF p # None THEN [children EXCEPT ![p] = Decrement(t, children[p])]
                  ELSE children
  BY DEF Commit
<1>10. CountsKept'
  <2> SUFFICES ASSUME NEW s \in Session, s \notin Ended, s \notin gone
               PROVE  children'[s] = Cardinality({c \in Live' : Parent[c] = s})
    BY <1>5 DEF CountsKept
  <2> DEFINE before == {c \in Live : Parent[c] = s}
             after == {c \in Live' : Parent[c] = s}
             ended == {c \in gone : Parent[c] = s}
  <2>1. /\ children[s] = Cardinality(before) /\ IsFiniteSet(before)
        /\ Cardinality(before) \in Nat
    BY <1>8, Counted DEF ZoneInv, CountsKept
  <2>2. CASE s # p
    <3>1. after = before
      BY <1>3, <1>5, <2>2
    <3>2. children'[s] = children[s]
      BY <1>1, <1>9, <2>2 DEF Typed
    <3> QED BY <2>1, <3>1, <3>2
  <2>3. CASE s = p
    <3>1. p # None /\ p \in Session
      BY <2>3, Constants
    <3>2. children'[s] = Decrement(t, children[s])
      BY <1>1, <1>9, <2>3, <3>1 DEF Typed
    <3>3. ended \subseteq before /\ after = before \ ended /\ before \cap ended = ended
      BY <1>3, <1>5
    <3>4. Decrement(t, children[s]) = IF children[s] > Cardinality(ended)
                                      THEN children[s] - Cardinality(ended) ELSE 0
      BY <2>3 DEF Decrement
    <3> HIDE DEF before, after, ended
    <3>5. /\ IsFiniteSet(ended) /\ Cardinality(ended) \in Nat
          /\ Cardinality(ended) <= Cardinality(before)
      BY <2>1, <3>3, FS_Subset, FS_CardinalityType
    <3>6. Cardinality(before \ ended) = Cardinality(before) - Cardinality(before \cap ended)
      BY <2>1, <3>5, FS_Difference
    <3>7. Cardinality(after) = Cardinality(before) - Cardinality(ended)
      BY <3>3, <3>6
    <3>8. children'[s] = Cardinality(after)
      BY <2>1, <3>2, <3>4, <3>5, <3>7
    <3> QED BY <3>8 DEF after
  <2> QED BY <2>2, <2>3
<1>11. LastReferentRevokes'
  <2> SUFFICES ASSUME UserSession \cap Ended' # {}, UserSession \cap Live' = {} PROVE sent'
    BY DEF LastReferentRevokes
  <2>1. sent' <=> sent \/ sends[t]
    BY DEF Commit
  <2>2. CASE gone \cap UserSession = {}
    <3>1. UserSession \cap Ended # {} /\ UserSession \cap Live = {}
      BY <1>5, <2>2
    <3> QED BY <2>1, <3>1 DEF ZoneInv, LastReferentRevokes
  <2>3. CASE gone \cap UserSession # {}
    <3>1. ~Exempted(t)
      BY <1>5 DEF Exempted
    <3> QED BY <1>3, <2>1, <2>3, <3>1
  <2> QED BY <2>2, <2>3
<1> QED BY <1>6, <1>7, <1>10, <1>11
        DEF ZoneInv, SessionLocked, StartsBelowLive, TreeStands, ExemptionStands, OwnZone

LEMMA NextZone ==
    ASSUME Serialized PROVE RowInv /\ ZoneInv /\ [Next]_vars => ZoneInv'
<1> SUFFICES ASSUME RowInv, ZoneInv, [Next]_vars PROVE ZoneInv'
  OBVIOUS
<1>1. CASE UNCHANGED vars
  <2>1. Live' = Live /\ Ended' = Ended
    BY <1>1, SameStatus DEF vars
  <2>2. \A t \in Txn : Exempted(t)' <=> Exempted(t)
    BY <1>1, <2>1 DEF vars, Exempted
  <2> QED BY <1>1, <2>1, <2>2
          DEF vars, ZoneInv, SessionLocked, StartsBelowLive, TreeStands, ExemptionStands,
              NoLiveOrphan, CountsKept, LastReferentRevokes, Serial
<1>2. ASSUME NEW t \in Txn, Commit(t) PROVE ZoneInv'
  <2>1. kind[t] = "terminate" \/ Rewrites(t)
    <3>1. Typed /\ OwnRow(t) /\ pc[t] = "commit"
      BY <1>2, RowByTxn DEF Commit
    <3>2. kind[t] \in Kinds /\ kind[t] # "start" /\ kind[t] # "revoke"
      BY <3>1 DEF Typed, OwnRow, Serialized
    <3> QED BY <3>2, Constants DEF Rewrites
  <2> QED BY <1>2, <2>1, TerminateZone, RewriteZone
<1>3. CASE Next
  BY <1>2, <1>3, BeginZone, LockOwnZone, InsertZone, QueryZone, UpdateRowZone,
     LockParentZone, QueryExemptZone, FailZone DEF Next
<1> QED BY <1>1, <1>3

LEMMA ZoneAlways == ASSUME Serialized PROVE Spec => []ZoneInv
<1>1. RowInv /\ ZoneInv /\ [Next]_vars => ZoneInv'
  BY NextZone
<1> QED BY <1>1, InitZone, RowsAlways, PTL DEF Spec

\* With every handler that adds or ends sessions under the session lock, no
\* start commits below a session that a termination ends, although suspensions
\* and resumptions without that lock overlap with both.
THEOREM NoLiveOrphanTheorem == ASSUME Serialized PROVE Spec => []NoLiveOrphan
<1>1. ZoneInv => NoLiveOrphan
  BY DEF ZoneInv
<1> QED BY <1>1, ZoneAlways, PTL

\* child_count is exact at every commit, whatever overlaps.
THEOREM ChildCountTheorem == ASSUME Serialized PROVE Spec => []ChildCountExact
<1>1. ZoneInv => ChildCountExact
  BY DEF ZoneInv, CountsKept, ChildCountExact, Live, Ended, LiveStatus
<1> QED BY <1>1, ZoneAlways, PTL

\* The exemption query of the last termination sees that it is the last.
THEOREM LastReferentTheorem == ASSUME Serialized PROVE Spec => []LastReferentRevokes
<1>1. ZoneInv => LastReferentRevokes
  BY DEF ZoneInv
<1> QED BY <1>1, ZoneAlways, PTL
=============================================================================
