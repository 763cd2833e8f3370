------------------------------ MODULE Receipts ------------------------------
(***************************************************************************)
(* Idempotency receipts of the coordinator's creating routes.              *)
(*                                                                         *)
(* A request that carries a key opens a transaction, waits for the key's   *)
(* advisory lock, looks for a receipt, and either answers from it, is      *)
(* refused, or creates its resource and the receipt together.  now() is    *)
(* the start of the transaction, however long the lock was waited for.     *)
(* Receipts are stored under an HMAC of the key; servers are rolled from   *)
(* one pair of HMAC keys to the next, one stage of Rotation at a time, and *)
(* a key is removed after a retention window (guides/idempotency.mdx).     *)
(***************************************************************************)
EXTENDS Naturals, FiniteSets, Sequences

CONSTANTS
    Server,       \* server connections, each with at most one transaction
    Key,          \* idempotency keys of one operation, zone and scope
    Body,         \* request digests
    Rotation,     \* the <<current, previous>> HMAC keys the fleet passes through
    Retention,    \* cfg.idempotencyRetentionSeconds
    MaxReceipts,  \* cfg.idempotencyMaxReceiptsPerScope
    MaxMade,      \* bound: resources created
    MaxTime,      \* bound: last instant of the clock
    None

VARIABLES
    now,       \* the database clock
    stage,     \* the stage of Rotation each server was started with
    settled,   \* when the last server reached the stage all servers are at
    tx,        \* each server's transaction
    receipts,  \* coordinator_idempotency_receipts
    made,      \* the resources created, numbered in the order of their commits
    session    \* the session the requests name is live

vars == <<now, stage, settled, tx, receipts, made, session>>

Made == 1..MaxMade

HmacKeys(n) == {Rotation[n][1], Rotation[n][2]}

ASSUME ReceiptAssumption ==
    /\ {Retention, MaxReceipts, MaxMade, MaxTime} \subseteq Nat
    /\ Retention > 0
    /\ Rotation \in Seq(Seq(STRING)) /\ Len(Rotation) > 0
    /\ IsFiniteSet(Server)

\* A new key is set with the former one as IDEMPOTENCY_HMAC_KEY_PREVIOUS.
ASSUME RotationAssumption ==
    \A n \in 1..(Len(Rotation) - 1) : Rotation[n][1] \in HmacKeys(n + 1)

Tx == [key : Key, body : Body, at : Nat, locked : BOOLEAN]

Receipt == [hmac : UNION {HmacKeys(n) : n \in 1..Len(Rotation)},
            key : Key, body : Body, id : Made, expires : Nat]

Resource == [key : Key, at : Nat, committed : Nat, stage : 1..Len(Rotation)]

TypeOK ==
    /\ now \in 0..MaxTime
    /\ stage \in [Server -> 1..Len(Rotation)]
    /\ settled \in 0..MaxTime
    /\ tx \in [Server -> Tx \cup {None}]
    /\ receipts \subseteq Receipt
    /\ made \in [Made -> Resource \cup {None}]
    /\ session \in BOOLEAN

Init ==
    /\ now = 0
    /\ stage = [s \in Server |-> 1]
    /\ settled = 0
    /\ tx = [s \in Server |-> None]
    /\ receipts = {}
    /\ made = [i \in Made |-> None]
    /\ session = TRUE

----------------------------------------------------------------------------
\* The rows of both digests of the transaction's key.
Rows(s) ==
    {r \in receipts : r.key = tx[s].key /\ r.hmac \in HmacKeys(stage[s])}

ExpiredRows(s) == {r \in Rows(s) : r.expires <= tx[s].at}
LiveRows(s) == {r \in Rows(s) : r.expires > tx[s].at}

\* Mutant: the lock is named after the stored digest.
KeyLockByDigest(s) ==
    \A o \in Server \ {s} :
        tx[o] # None => ~( /\ tx[o].locked
                           /\ tx[o].key = tx[s].key
                           /\ Rotation[stage[o]][1] = Rotation[stage[s]][1] )

\* The lock's name is the key's unkeyed digest, the same on every server.
KeyLockFree(s) ==
    \A o \in Server \ {s} :
        tx[o] # None => ~(tx[o].locked /\ tx[o].key = tx[s].key)

ScopeIsFull(s) ==
    Cardinality({r \in receipts : r.expires > tx[s].at}) >= MaxReceipts

----------------------------------------------------------------------------
\* POST /invocations up to the receipt; the sessions are locked FOR SHARE.
Begin(s, k, b) ==
    /\ tx[s] = None
    /\ session
    /\ tx' = [tx EXCEPT ![s] =
                [key |-> k, body |-> b, at |-> now, locked |-> FALSE]]
    /\ UNCHANGED <<now, stage, settled, receipts, made, session>>

Waiting(s) == tx[s] # None /\ ~tx[s].locked

\* startIdempotency: 'new'.  The lock is held until the transaction ends.
Reserve(s) ==
    /\ Waiting(s)
    /\ KeyLockFree(s)
    /\ LiveRows(s) = {}
    /\ ~ScopeIsFull(s)
    /\ tx' = [tx EXCEPT ![s].locked = TRUE]
    /\ UNCHANGED <<now, stage, settled, receipts, made, session>>

\* 'replayed': the stored answer, in a transaction that commits its DELETE.
Replay(s) ==
    /\ Waiting(s)
    /\ KeyLockFree(s)
    /\ \E r \in LiveRows(s) : r.body = tx[s].body
    /\ receipts' = receipts \ ExpiredRows(s)
    /\ tx' = [tx EXCEPT ![s] = None]
    /\ UNCHANGED <<now, stage, settled, made, session>>

\* 'conflict' and 'limit': rolled back.
Refuse(s) ==
    /\ Waiting(s)
    /\ KeyLockFree(s)
    /\ \/ \E r \in LiveRows(s) : r.body # tx[s].body
       \/ LiveRows(s) = {} /\ ScopeIsFull(s)
    /\ tx' = [tx EXCEPT ![s] = None]
    /\ UNCHANGED <<now, stage, settled, receipts, made, session>>

\* The route refuses for a reason of its own, fails, or its server dies.
Abort(s) ==
    /\ tx[s] # None
    /\ tx' = [tx EXCEPT ![s] = None]
    /\ UNCHANGED <<now, stage, settled, receipts, made, session>>

\* The resource and its receipt are committed together.
Finish(s, i) ==
    /\ tx[s] # None /\ tx[s].locked
    /\ made[i] = None /\ \A j \in Made : j < i => made[j] # None
    /\ made' = [made EXCEPT ![i] =
                  [key |-> tx[s].key, at |-> tx[s].at, committed |-> now,
                   stage |-> stage[s]]]
    /\ receipts' = (receipts \ ExpiredRows(s)) \cup
                   {[hmac |-> Rotation[stage[s]][1], key |-> tx[s].key,
                     body |-> tx[s].body, id |-> i,
                     expires |-> tx[s].at + Retention]}
    /\ tx' = [tx EXCEPT ![s] = None]
    /\ UNCHANGED <<now, stage, settled, session>>

\* The retention job deletes expired receipts, a batch at a time.
PruneReceipts ==
    /\ \E r \in receipts : r.expires <= now /\ receipts' = receipts \ {r}
    /\ UNCHANGED <<now, stage, settled, tx, made, session>>

\* A server restarts with the next pair of HMAC keys.  A stage is rolled out
\* to the end before the next one begins, and a key that the next stage no
\* longer has goes after a full retention window.
Roll(s) ==
    /\ tx[s] = None
    /\ stage[s] < Len(Rotation)
    /\ \A o \in Server : stage[o] >= stage[s]
    /\ HmacKeys(stage[s]) \subseteq HmacKeys(stage[s] + 1) \/ settled + Retention <= now
    /\ stage' = [stage EXCEPT ![s] = @ + 1]
    /\ settled' = IF \A o \in Server \ {s} : stage[o] > stage[s] THEN now ELSE settled
    /\ UNCHANGED <<now, tx, receipts, made, session>>

Tick ==
    /\ now < MaxTime
    /\ now' = now + 1
    /\ UNCHANGED <<stage, settled, tx, receipts, made, session>>

\* The session ends; its row is updated once no transaction shares it.
EndSession ==
    /\ session
    /\ \A s \in Server : tx[s] = None
    /\ session' = FALSE
    /\ UNCHANGED <<now, stage, settled, tx, receipts, made>>

Next ==
    \/ \E s \in Server :
          \/ \E k \in Key, b \in Body : Begin(s, k, b)
          \/ Reserve(s)
          \/ Replay(s)
          \/ Refuse(s)
          \/ Abort(s)
          \/ \E i \in Made : Finish(s, i)
          \/ Roll(s)
    \/ PruneReceipts
    \/ EndSession
    \/ Tick

Spec == Init /\ [][Next]_vars

----------------------------------------------------------------------------
\* The receipt of resource i is stored under a key that the server of
\* resource j, not yet rolled as far, does not have.
AheadOfTheRoll(i, j) ==
    /\ made[j].stage < made[i].stage
    /\ Rotation[made[i].stage][1] \notin HmacKeys(made[j].stage)

\* One key creates one resource for as long as its receipt is kept, whatever
\* the servers' transactions overlap, however stale their now() is, and
\* through rotations of the HMAC keys and the removal of old ones.  The one
\* exception: while a stage is rolled out that uses its key at once, a server
\* still without that key does not find the receipt of one that has it.
OneResourcePerKey ==
    \A i, j \in Made :
        i < j /\ made[j] # None /\ made[i].key = made[j].key =>
            \/ made[j].committed >= made[i].at + Retention
            \/ AheadOfTheRoll(i, j)
=============================================================================
