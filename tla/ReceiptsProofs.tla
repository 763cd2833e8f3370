--------------------------- MODULE ReceiptsProofs ---------------------------
(***************************************************************************)
(* Proofs about Receipts for any number of servers, keys, receipts and     *)
(* instants, and for rotations of the HMAC keys of any length.  The        *)
(* inductive invariant follows a resource's receipt: it is kept, under an  *)
(* HMAC key that every server rolled as far knows, until the resource is   *)
(* old enough for its idempotency key to be free again.                    *)
(***************************************************************************)
EXTENDS Receipts, TLAPS

\* A transaction reads the clock once, at its start.
BegunBefore == \A s \in Server : tx[s] # None => tx[s].at <= now

\* Resources are numbered in the order of their commits, and the fleet is never
\* more than one stage behind.
MadeInOrder ==
    \A i, j \in Made : i < j /\ made[j] # None
        => made[i] # None /\ made[i].stage <= made[j].stage + 1

\* One transaction at a time holds the lock of a key.
OneHolder ==
    \A s, o \in Server :
        /\ tx[s] # None /\ tx[o] # None
        /\ tx[s].locked /\ tx[o].locked /\ tx[s].key = tx[o].key
        => s = o

Free(i) == made[i].at + Retention <= now

\* The HMAC key a resource's receipt is stored under.
HmacOf(i) == Rotation[made[i].stage][1]

KeptFor(i) ==
    \E r \in receipts :
        /\ r.key = made[i].key /\ r.expires = made[i].at + Retention
        /\ r.hmac = HmacOf(i)

ReceiptKept == \A i \in Made : made[i] # None => Free(i) \/ KeptFor(i)

\* The fleet is spread over two adjacent stages of the rotation at most.
StagesAdjacent == \A s, o \in Server : stage[s] <= stage[o] + 1

\* No resource was created more than one stage ahead of a server.
StagesReached ==
    \A i \in Made : made[i] # None => \A s \in Server : made[i].stage <= stage[s] + 1

\* What was created at a stage that every server has left is no younger than
\* the arrival at the next one.
SettledAfter ==
    /\ settled <= now
    /\ \A i \in Made : made[i] # None => made[i].at <= now
    /\ \A i \in Made :
          made[i] # None /\ (\A s \in Server : made[i].stage < stage[s]) => made[i].at <= settled

\* Servers rolled as far as a resource's know the key of its receipt.
KnownAhead ==
    \A i \in Made, s \in Server :
        made[i] # None /\ ~Free(i) /\ made[i].stage <= stage[s]
        => HmacOf(i) \in HmacKeys(stage[s])

\* The receipt of resource i is out of server s's sight.
OutOfSight(i, s) ==
    /\ stage[s] < made[i].stage
    /\ HmacOf(i) \notin HmacKeys(stage[s])

\* Whoever holds a key's lock may create: its earlier resources are free, or
\* were created ahead of it in the rotation.
HolderMayCreate ==
    \A s \in Server, i \in Made :
        /\ tx[s] # None /\ tx[s].locked
        /\ made[i] # None /\ made[i].key = tx[s].key
        => Free(i) \/ OutOfSight(i, s)

IInv ==
    /\ TypeOK
    /\ BegunBefore
    /\ StagesAdjacent
    /\ StagesReached
    /\ SettledAfter
    /\ KnownAhead
    /\ MadeInOrder
    /\ OneHolder
    /\ ReceiptKept
    /\ HolderMayCreate
    /\ OneResourcePerKey

LEMMA Constants ==
    /\ Retention \in Nat /\ Retention > 0
    /\ MaxReceipts \in Nat /\ MaxMade \in Nat /\ MaxTime \in Nat
    /\ Len(Rotation) \in Nat /\ Len(Rotation) > 0
BY ReceiptAssumption

\* What the invariant says of the values the actions read.
LEMMA Shapes ==
    ASSUME TypeOK
    PROVE  /\ now \in Nat
           /\ settled \in Nat
           /\ \A s \in Server : stage[s] \in 1..Len(Rotation)
           /\ \A s \in Server : tx[s] # None =>
                 tx[s].key \in Key /\ tx[s].body \in Body /\ tx[s].at \in Nat
                 /\ tx[s].locked \in BOOLEAN
           /\ \A i \in Made : made[i] # None =>
                 made[i].key \in Key /\ made[i].at \in Nat
                 /\ made[i].committed \in Nat /\ made[i].stage \in 1..Len(Rotation)
           /\ \A r \in receipts : r.key \in Key /\ r.expires \in Nat
BY Constants DEF TypeOK, Tx, Resource, Receipt

LEMMA InitIInv == Init => IInv
<1> SUFFICES ASSUME Init PROVE IInv
  OBVIOUS
<1> USE Constants DEF Init
<1>1. TypeOK
  BY DEF TypeOK
<1>2. BegunBefore /\ OneHolder /\ HolderMayCreate
  BY DEF BegunBefore, OneHolder, HolderMayCreate
<1>3. StagesAdjacent /\ MadeInOrder /\ ReceiptKept /\ OneResourcePerKey
  BY DEF StagesAdjacent, MadeInOrder, ReceiptKept, OneResourcePerKey
<1>4. StagesReached /\ SettledAfter /\ KnownAhead
  BY DEF StagesReached, SettledAfter, KnownAhead
<1> QED BY <1>1, <1>2, <1>3, <1>4 DEF IInv

\* A kept receipt is among the rows a server selects, or out of its sight.
LEMMA KeptIsSeen ==
    ASSUME IInv, NEW s \in Server, NEW i \in Made,
           made[i] # None, tx[s] # None, tx[s].key = made[i].key, ~Free(i)
    PROVE  OutOfSight(i, s) \/ \E r \in Rows(s) : r.expires = made[i].at + Retention
<1>1. PICK r \in receipts :
         /\ r.key = made[i].key /\ r.expires = made[i].at + Retention
         /\ r.hmac = HmacOf(i)
  BY DEF IInv, ReceiptKept, KeptFor
<1>2. stage[s] \in Nat /\ made[i].stage \in Nat
  BY Shapes DEF IInv
<1>3. CASE HmacOf(i) \in HmacKeys(stage[s])
  BY <1>1, <1>3 DEF Rows
<1>4. CASE HmacOf(i) \notin HmacKeys(stage[s])
  <2>1. ~(made[i].stage <= stage[s])
    BY <1>4 DEF IInv, KnownAhead
  <2> QED BY <1>2, <1>4, <2>1 DEF OutOfSight
<1> QED BY <1>3, <1>4

\* What depends on resources, stages and the clock alone.
Rolled == StagesAdjacent /\ StagesReached /\ SettledAfter /\ KnownAhead
             /\ MadeInOrder /\ OneResourcePerKey

LEMMA RolledKept ==
    ASSUME IInv, UNCHANGED <<now, stage, settled, made>>
    PROVE  Rolled'
BY DEF IInv, Rolled, StagesAdjacent, StagesReached, SettledAfter, KnownAhead, HmacOf, Free,
       MadeInOrder, OneResourcePerKey, AheadOfTheRoll

-----------------------------------------------------------------------------
(* Steps that leave resources and receipts as they are *)

\* A transaction ends, or is about to create nothing: the table of
\* transactions loses an entry and receipts lose only what has expired.
LEMMA EndsKeepIInv ==
    ASSUME IInv, NEW s \in Server, tx[s] # None,
           tx' = [tx EXCEPT ![s] = None],
           receipts' \subseteq receipts,
           \A r \in receipts \ receipts' : r.expires <= now,
           UNCHANGED <<now, stage, settled, made, session>>
    PROVE  IInv'
<1>1. TypeOK'
  BY DEF IInv, TypeOK
<1>2. \A o \in Server : tx'[o] # None => o # s /\ tx'[o] = tx[o]
  BY DEF IInv, TypeOK
<1>3. BegunBefore' /\ OneHolder'
  BY <1>2 DEF IInv, BegunBefore, OneHolder
<1>4. Rolled'
  BY RolledKept
<1>5. HolderMayCreate'
  BY <1>2 DEF IInv, HolderMayCreate, Free, OutOfSight, HmacOf
<1>6. ReceiptKept'
  <2> SUFFICES ASSUME NEW i \in Made, made[i] # None, ~Free(i)
               PROVE  KeptFor(i)'
    BY DEF ReceiptKept, Free
  <2>1. PICK r \in receipts :
           /\ r.key = made[i].key /\ r.expires = made[i].at + Retention
           /\ r.hmac = HmacOf(i)
    BY DEF IInv, ReceiptKept, KeptFor
  <2>2. r \in receipts'
    BY <2>1, Shapes, Constants DEF IInv, Free
  <2> QED BY <2>1, <2>2 DEF KeptFor, HmacOf
<1> QED BY <1>1, <1>3, <1>4, <1>5, <1>6 DEF IInv, Rolled

\* A server's clock is past every row it calls expired.
LEMMA ExpiredIsPast ==
    ASSUME IInv, NEW s \in Server, tx[s] # None, NEW r \in ExpiredRows(s)
    PROVE  r \in receipts /\ r.expires <= now /\ r.key = tx[s].key
<1>1. tx[s].at <= now /\ tx[s].at \in Nat /\ now \in Nat
  BY Shapes DEF IInv, BegunBefore
<1>2. r \in receipts /\ r.expires <= tx[s].at /\ r.key = tx[s].key
  BY DEF ExpiredRows, Rows
<1>3. r.expires \in Nat
  BY <1>2, Shapes DEF IInv
<1> QED BY <1>1, <1>2, <1>3

LEMMA BeginKeepsIInv ==
    ASSUME IInv, NEW s \in Server, NEW k \in Key, NEW b \in Body, Begin(s, k, b)
    PROVE  IInv'
<1> DEFINE t == [key |-> k, body |-> b, at |-> now, locked |-> FALSE]
<1>1. TypeOK'
  BY Shapes DEF IInv, TypeOK, Begin, Tx
<1>2. /\ tx'[s] = t
      /\ \A o \in Server : o # s => tx'[o] = tx[o]
      /\ UNCHANGED <<now, stage, settled, receipts, made, session>>
  BY DEF IInv, TypeOK, Begin
<1> HIDE DEF t
<1>t. t.at = now /\ ~t.locked
  BY DEF t
<1>3. BegunBefore' /\ OneHolder' /\ HolderMayCreate'
  BY <1>2, <1>t, Shapes DEF IInv, BegunBefore, OneHolder, HolderMayCreate, Free,
                            OutOfSight, HmacOf
<1>4. Rolled' /\ ReceiptKept'
  BY <1>2, RolledKept DEF IInv, ReceiptKept, Free, KeptFor, HmacOf
<1> QED BY <1>1, <1>3, <1>4 DEF IInv, Rolled

\* A lock is given only to a transaction that found no live receipt.
LEMMA ReserveKeepsIInv ==
    ASSUME IInv, NEW s \in Server, Reserve(s)
    PROVE  IInv'
<1>1. tx[s] # None /\ tx[s] \in Tx
  BY DEF Reserve, Waiting, IInv, TypeOK
<1>2. /\ tx'[s] = [tx[s] EXCEPT !.locked = TRUE]
      /\ \A o \in Server : o # s => tx'[o] = tx[o]
      /\ UNCHANGED <<now, stage, settled, receipts, made, session>>
  BY <1>1 DEF IInv, TypeOK, Reserve
<1>3. /\ tx'[s].key = tx[s].key /\ tx'[s].at = tx[s].at
      /\ tx'[s] \in Tx
  BY <1>1, <1>2 DEF Tx
<1>4. TypeOK'
  BY <1>1, <1>2, <1>3 DEF IInv, TypeOK, Reserve
<1>5. BegunBefore'
  BY <1>1, <1>2, <1>3 DEF IInv, BegunBefore
<1>o. \A o \in Server : o # s => tx'[o] = tx[o]
  BY <1>2
<1>k. tx'[s].key = tx[s].key
  BY <1>3
<1>u. UNCHANGED <<now, made, stage>>
  BY <1>2
<1>6. OneHolder'
  <2> SUFFICES ASSUME NEW a \in Server, NEW o \in Server, a # o,
                      tx'[a] # None, tx'[o] # None, tx'[a].locked, tx'[o].locked,
                      tx'[a].key = tx'[o].key
               PROVE  FALSE
    BY Zenon DEF OneHolder
  <2>1. \A z \in Server : z # s /\ tx[z] # None => ~(tx[z].locked /\ tx[z].key = tx[s].key)
    BY DEF Reserve, KeyLockFree
  <2>2. CASE a = s
    BY <2>1, <2>2, <1>o, <1>k
  <2>3. CASE o = s
    BY <2>1, <2>3, <1>o, <1>k
  <2>4. CASE a # s /\ o # s
    BY <2>4, <1>o, Zenon DEF IInv, OneHolder
  <2> QED BY <2>2, <2>3, <2>4
<1>7. HolderMayCreate'
  <2>a. ASSUME NEW o \in Server, NEW i \in Made, o # s, tx'[o] # None, tx'[o].locked,
               made[i] # None, made[i].key = tx'[o].key
        PROVE  Free(i) \/ OutOfSight(i, o)
    BY <2>a, <1>o, Zenon DEF IInv, HolderMayCreate
  <2> SUFFICES ASSUME NEW i \in Made, made[i] # None, made[i].key = tx[s].key
               PROVE  Free(i) \/ OutOfSight(i, s)
    <3>1. ASSUME NEW o \in Server, NEW i \in Made, tx'[o] # None, tx'[o].locked,
                 made'[i] # None, made'[i].key = tx'[o].key
          PROVE  Free(i)' \/ OutOfSight(i, o)'
      <4>1. /\ made'[i] = made[i] /\ (Free(i)' <=> Free(i))
            /\ OutOfSight(i, o)' <=> OutOfSight(i, o)
        BY <1>u DEF Free, OutOfSight, HmacOf
      <4>2. CASE o = s
        BY <3>1, <4>1, <4>2, <1>k
      <4>3. CASE o # s
        BY <3>1, <4>1, <4>3, <2>a
      <4> QED BY <4>2, <4>3
    <3> QED BY <3>1, Zenon DEF HolderMayCreate
  <2>1. ASSUME NEW r \in Rows(s), r.expires = made[i].at + Retention PROVE Free(i)
    <3>2. r \notin LiveRows(s) /\ r \in receipts
      BY DEF Reserve, Rows
    <3>3. ~(r.expires > tx[s].at)
      BY <3>2 DEF LiveRows
    <3>4. r.expires <= now
      BY <3>2, <3>3, <1>1, Shapes DEF IInv, BegunBefore
    <3> QED BY <2>1, <3>4 DEF Free
  <2> QED BY <1>1, <2>1, KeptIsSeen
<1>8. Rolled' /\ ReceiptKept'
  BY <1>2, RolledKept DEF IInv, ReceiptKept, Free, KeptFor, HmacOf
<1> QED BY <1>4, <1>5, <1>6, <1>7, <1>8 DEF IInv, Rolled

-----------------------------------------------------------------------------
(* The creation of a resource *)

LEMMA FinishKeepsIInv ==
    ASSUME IInv, NEW s \in Server, NEW i \in Made, Finish(s, i)
    PROVE  IInv'
<1> DEFINE new == [key |-> tx[s].key, at |-> tx[s].at, committed |-> now,
                   stage |-> stage[s]]
           receipt == [hmac |-> Rotation[stage[s]][1], key |-> tx[s].key,
                       body |-> tx[s].body, id |-> i,
                       expires |-> tx[s].at + Retention]
<1>1. /\ tx[s] # None /\ tx[s].locked
      /\ tx[s].key \in Key /\ tx[s].body \in Body /\ tx[s].at \in Nat
      /\ now \in Nat /\ tx[s].at <= now /\ stage[s] \in 1..Len(Rotation)
      /\ made[i] = None /\ \A j \in Made : j < i => made[j] # None
  BY Shapes DEF IInv, Finish, BegunBefore
<1>2. /\ made' = [made EXCEPT ![i] = new]
      /\ receipts' = (receipts \ ExpiredRows(s)) \cup {receipt}
      /\ tx' = [tx EXCEPT ![s] = None]
      /\ UNCHANGED <<now, stage, settled, session>>
  BY DEF Finish
<1>3. new \in Resource /\ receipt \in Receipt
  BY <1>1, Constants DEF Resource, Receipt, HmacKeys
<1>4. /\ new.key = tx[s].key /\ new.at = tx[s].at /\ new.committed = now
      /\ new.stage = stage[s]
  OBVIOUS
<1>5. /\ receipt.key = tx[s].key /\ receipt.expires = tx[s].at + Retention
      /\ receipt.hmac = Rotation[stage[s]][1]
  OBVIOUS
<1> HIDE DEF new, receipt
<1>6. TypeOK'
  BY <1>2, <1>3 DEF IInv, TypeOK
<1>7. /\ made'[i] = new /\ \A j \in Made : j # i => made'[j] = made[j]
      /\ \A o \in Server : tx'[o] # None => o # s /\ tx'[o] = tx[o]
  BY <1>2 DEF IInv, TypeOK
<1>8. BegunBefore' /\ StagesAdjacent' /\ OneHolder'
  BY <1>2, <1>7 DEF IInv, BegunBefore, StagesAdjacent, OneHolder
<1>9. MadeInOrder'
  <2> SUFFICES ASSUME NEW j \in Made, NEW l \in Made, j < l, made'[l] # None
               PROVE  made'[j] # None /\ made'[j].stage <= made'[l].stage + 1
    BY DEF MadeInOrder
  <2>1. CASE l = i
    <3>1. j # i /\ made[j] # None /\ made'[j] = made[j]
      BY <2>1, <1>1, <1>7 DEF Made
    <3> QED BY <2>1, <3>1, <1>4, <1>7 DEF IInv, StagesReached
  <2>2. CASE l # i
    <3>1. made[l] # None /\ made'[l] = made[l] /\ made[j] # None
          /\ made[j].stage <= made[l].stage + 1
      BY <2>2, <1>7 DEF IInv, MadeInOrder
    <3>2. j # i
      BY <3>1, <1>1
    <3> QED BY <3>1, <3>2, <1>7
  <2> QED BY <2>1, <2>2
<1>n. \A j \in Made : made'[j] # None => j = i \/ (made'[j] = made[j] /\ made[j] # None)
  BY <1>7
<1>a. StagesReached'
  BY <1>1, <1>2, <1>4, <1>7, <1>n DEF IInv, StagesReached, StagesAdjacent
<1>b. SettledAfter'
  <2>0. \A j \in Made : made'[j] # None => made'[j].at <= now
    BY <1>1, <1>4, <1>7, <1>n DEF IInv, SettledAfter
  <2> SUFFICES ASSUME NEW j \in Made, made'[j] # None,
                      \A o \in Server : made'[j].stage < stage[o]
               PROVE  made'[j].at <= settled
    BY <1>2, <2>0 DEF IInv, SettledAfter
  <2>1. j # i
    BY <1>1, <1>4, <1>7
  <2> QED BY <1>n, <2>1 DEF IInv, SettledAfter
<1>c. KnownAhead'
  <2> SUFFICES ASSUME NEW j \in Made, NEW o \in Server, made'[j] # None,
                      ~(made'[j].at + Retention <= now), made'[j].stage <= stage[o]
               PROVE  Rotation[made'[j].stage][1] \in HmacKeys(stage[o])
    BY <1>2 DEF KnownAhead, Free, HmacOf
  <2>1. CASE j # i
    BY <1>n, <2>1 DEF IInv, KnownAhead, Free, HmacOf
  <2>2. CASE j = i
    <3>1. made'[j].stage = stage[s] /\ stage[o] \in 1..Len(Rotation)
          /\ stage[o] <= stage[s] + 1
      BY <1>1, <1>4, <1>7, <2>2, Shapes DEF IInv, StagesAdjacent
    <3>2. CASE stage[o] = stage[s]
      BY <3>1, <3>2 DEF HmacKeys
    <3>3. CASE stage[o] = stage[s] + 1
      <4>1. stage[s] \in 1..(Len(Rotation) - 1)
        BY <1>1, <3>1, <3>3, Constants
      <4> QED BY <3>1, <3>3, <4>1, RotationAssumption
    <3> QED BY <1>1, <3>1, <3>2, <3>3, Constants
  <2> QED BY <2>1, <2>2
<1>10. \A j \in Made : made[j] # None /\ made[j].key = tx[s].key => Free(j) \/ OutOfSight(j, s)
  BY <1>1 DEF IInv, HolderMayCreate
<1>11. HolderMayCreate'
  <2> SUFFICES ASSUME NEW o \in Server, NEW j \in Made, tx'[o] # None, tx'[o].locked,
                      made'[j] # None, made'[j].key = tx'[o].key
               PROVE  \/ made'[j].at + Retention <= now
                      \/ /\ stage[o] < made'[j].stage
                         /\ Rotation[made'[j].stage][1] \notin HmacKeys(stage[o])
    BY <1>2 DEF HolderMayCreate, Free, OutOfSight, HmacOf
  <2>1. o # s /\ tx'[o] = tx[o] /\ tx[o] # None /\ tx[o].key # tx[s].key
    BY <1>1, <1>7 DEF IInv, OneHolder
  <2>2. j # i
    BY <2>1, <1>7, <1>4
  <2> QED BY <2>1, <2>2, <1>7 DEF IInv, HolderMayCreate, Free, OutOfSight, HmacOf
<1>12. ReceiptKept'
  <2> SUFFICES ASSUME NEW j \in Made, made'[j] # None,
                      ~(made'[j].at + Retention <= now)
               PROVE  \E r \in receipts' :
                        /\ r.key = made'[j].key
                        /\ r.expires = made'[j].at + Retention
                        /\ r.hmac = Rotation[made'[j].stage][1]
    BY <1>2 DEF ReceiptKept, Free, KeptFor, HmacOf
  <2>1. CASE j = i
    <3>1. receipt \in receipts'
      BY <1>2
    <3> QED BY <2>1, <3>1, <1>1, <1>4, <1>5, <1>7
  <2>2. CASE j # i
    <3>1. made'[j] = made[j] /\ made[j] # None /\ ~Free(j)
      BY <2>2, <1>7 DEF Free
    <3>2. PICK r \in receipts :
             /\ r.key = made[j].key /\ r.expires = made[j].at + Retention
             /\ r.hmac = HmacOf(j)
      BY <3>1 DEF IInv, ReceiptKept, KeptFor
    <3>3. r \notin ExpiredRows(s)
      BY <3>1, <3>2, <1>1, ExpiredIsPast DEF Free
    <3> QED BY <3>1, <3>2, <3>3, <1>2 DEF HmacOf
  <2> QED BY <2>1, <2>2
<1>13. OneResourcePerKey'
  <2> SUFFICES ASSUME NEW j \in Made, NEW l \in Made, j < l, made'[l] # None,
                      made'[j].key = made'[l].key
               PROVE  \/ made'[l].committed >= made'[j].at + Retention
                      \/ /\ made'[l].stage < made'[j].stage
                         /\ Rotation[made'[j].stage][1] \notin HmacKeys(made'[l].stage)
    BY DEF OneResourcePerKey, AheadOfTheRoll
  <2>1. CASE l = i
    <3>1. j # i /\ made[j] # None /\ made'[j] = made[j] /\ made[j].key = tx[s].key
      BY <2>1, <1>1, <1>4, <1>7 DEF Made
    <3>2. made[j].at \in Nat
      BY <3>1, Shapes DEF IInv
    <3>3. CASE Free(j)
      BY <3>1, <3>2, <3>3, <2>1, <1>1, <1>4, <1>7, Constants DEF Free
    <3>4. CASE OutOfSight(j, s)
      BY <3>1, <3>4, <2>1, <1>4, <1>7 DEF OutOfSight, HmacOf
    <3> QED BY <3>1, <3>3, <3>4, <1>10
  <2>2. CASE l # i
    <3>1. made'[l] = made[l] /\ made[j] # None
      BY <2>2, <1>7 DEF IInv, MadeInOrder
    <3>2. j # i /\ made'[j] = made[j]
      BY <3>1, <1>1, <1>7
    <3> QED BY <3>1, <3>2 DEF IInv, OneResourcePerKey, AheadOfTheRoll
  <2> QED BY <2>1, <2>2
<1> QED BY <1>6, <1>8, <1>9, <1>a, <1>b, <1>c, <1>11, <1>12, <1>13 DEF IInv

-----------------------------------------------------------------------------
(* The jobs, the clock and the rotation *)

\* Only receipts change, and those that go have expired.
LEMMA PruneKeepsIInv == ASSUME IInv, PruneReceipts PROVE IInv'
<1>1. PICK p \in receipts : p.expires <= now /\ receipts' = receipts \ {p}
  BY DEF PruneReceipts
<1>2. UNCHANGED <<now, stage, settled, tx, made, session>>
  BY DEF PruneReceipts
<1>3. TypeOK'
  BY <1>1, <1>2 DEF IInv, TypeOK
<1>4. BegunBefore' /\ OneHolder' /\ Rolled'
  BY <1>2, RolledKept DEF IInv, BegunBefore, OneHolder
<1>5. HolderMayCreate'
  BY <1>2 DEF IInv, HolderMayCreate, Free, OutOfSight, HmacOf
<1>6. ReceiptKept'
  <2> SUFFICES ASSUME NEW i \in Made, made[i] # None, ~Free(i)
               PROVE  KeptFor(i)'
    BY <1>2 DEF ReceiptKept, Free
  <2>1. PICK r \in receipts :
           /\ r.key = made[i].key /\ r.expires = made[i].at + Retention
           /\ r.hmac = HmacOf(i)
    BY DEF IInv, ReceiptKept, KeptFor
  <2>2. r \in receipts'
    BY <1>1, <2>1, Shapes, Constants DEF IInv, Free
  <2> QED BY <1>2, <2>1, <2>2 DEF KeptFor, HmacOf
<1> QED BY <1>3, <1>4, <1>5, <1>6 DEF IInv, Rolled

\* A server that rolls on knows the receipts it knew: a key it gives up is
\* the current one of no stage since the fleet settled, a window ago.
LEMMA RollKeepsIInv == ASSUME IInv, NEW s \in Server, Roll(s) PROVE IInv'
<1>1. /\ stage' = [stage EXCEPT ![s] = stage[s] + 1]
      /\ stage[s] < Len(Rotation) /\ \A o \in Server : stage[o] >= stage[s]
      /\ tx[s] = None
      /\ HmacKeys(stage[s]) \subseteq HmacKeys(stage[s] + 1) \/ settled + Retention <= now
      /\ settled' = IF \A o \in Server \ {s} : stage[o] > stage[s] THEN now ELSE settled
      /\ UNCHANGED <<now, tx, receipts, made, session>>
  BY DEF Roll
<1>2. /\ \A o \in Server : stage[o] \in 1..Len(Rotation)
      /\ now \in Nat /\ settled \in Nat /\ settled <= now
      /\ \A i \in Made : made[i] # None => made[i].at \in Nat /\ made[i].stage \in Nat
  BY Shapes DEF IInv, SettledAfter
<1>3. TypeOK'
  BY <1>1, <1>2, Constants DEF IInv, TypeOK
<1>4. \A o \in Server : stage'[o] = IF o = s THEN stage[s] + 1 ELSE stage[o]
  BY <1>1 DEF IInv, TypeOK
<1>5. StagesAdjacent' /\ StagesReached'
  BY <1>1, <1>2, <1>4, Constants DEF IInv, StagesAdjacent, StagesReached
<1>6. BegunBefore' /\ MadeInOrder' /\ OneHolder' /\ OneResourcePerKey' /\ ReceiptKept'
  BY <1>1 DEF IInv, BegunBefore, MadeInOrder, OneHolder, OneResourcePerKey, AheadOfTheRoll,
              ReceiptKept, KeptFor, Free, HmacOf
<1>7. HolderMayCreate'
  <2> SUFFICES ASSUME NEW o \in Server, NEW i \in Made, tx[o] # None, tx[o].locked,
                      made[i] # None, made[i].key = tx[o].key
               PROVE  Free(i)' \/ OutOfSight(i, o)'
    BY <1>1 DEF HolderMayCreate
  <2>1. Free(i) \/ OutOfSight(i, o)
    BY DEF IInv, HolderMayCreate
  <2>2. stage'[o] = stage[o]
    BY <1>1, <1>4
  <2> QED BY <1>1, <2>1, <2>2 DEF Free, OutOfSight, HmacOf
<1>8. SettledAfter'
  <2>1. settled' <= now' /\ settled' \in Nat
    BY <1>1, <1>2
  <2> SUFFICES ASSUME NEW i \in Made, made[i] # None,
                      \A o \in Server : made[i].stage < stage'[o]
               PROVE  made[i].at <= settled'
    BY <1>1, <2>1 DEF IInv, SettledAfter
  <2>2. CASE \A o \in Server \ {s} : stage[o] > stage[s]
    BY <1>1, <2>2 DEF IInv, SettledAfter
  <2>3. CASE ~\A o \in Server \ {s} : stage[o] > stage[s]
    <3>1. PICK o \in Server \ {s} : stage[o] = stage[s]
      BY <1>1, <1>2, <2>3
    <3>2. made[i].stage < stage[s]
      BY <1>4, <3>1
    <3>3. \A z \in Server : made[i].stage < stage[z]
      BY <1>1, <1>2, <3>2
    <3> QED BY <1>1, <2>3, <3>3 DEF IInv, SettledAfter
  <2> QED BY <2>2, <2>3
<1>9. KnownAhead'
  <2> SUFFICES ASSUME NEW i \in Made, NEW o \in Server, made[i] # None, ~Free(i),
                      made[i].stage <= stage'[o]
               PROVE  HmacOf(i) \in HmacKeys(stage'[o])
    BY <1>1 DEF KnownAhead, Free, HmacOf
  <2>1. CASE o # s
    BY <1>4, <2>1 DEF IInv, KnownAhead
  <2>2. CASE o = s /\ made[i].stage = stage[s] + 1
    BY <1>4, <2>2 DEF HmacOf, HmacKeys
  <2>3. CASE o = s /\ made[i].stage = stage[s]
    <3>1. stage[s] \in 1..(Len(Rotation) - 1)
      BY <1>1, <1>2, Constants
    <3> QED BY <1>4, <2>3, <3>1, RotationAssumption DEF HmacOf
  <2>4. CASE o = s /\ made[i].stage < stage[s]
    <3>1. HmacOf(i) \in HmacKeys(stage[s])
      BY <1>2, <2>4 DEF IInv, KnownAhead
    <3>2. made[i].at <= settled
      BY <1>1, <1>2, <2>4 DEF IInv, SettledAfter
    <3>3. ~(settled + Retention <= now)
      BY <1>2, <3>2, Constants DEF Free
    <3> QED BY <1>1, <1>4, <2>4, <3>1, <3>3
  <2> QED BY <1>2, <1>4, <2>1, <2>2, <2>3, <2>4
<1> QED BY <1>3, <1>5, <1>6, <1>7, <1>8, <1>9 DEF IInv

LEMMA TickKeepsIInv == ASSUME IInv, Tick PROVE IInv'
<1>1. /\ now' = now + 1 /\ now < MaxTime
      /\ UNCHANGED <<stage, settled, tx, receipts, made, session>>
  BY DEF Tick
<1>2. now \in Nat
  BY Shapes DEF IInv
<1>3. TypeOK'
  BY <1>1, <1>2, Constants DEF IInv, TypeOK
<1>4. BegunBefore'
  BY <1>1, <1>2, Shapes DEF IInv, BegunBefore
<1>5. \A i \in Made : made[i] # None /\ Free(i) => Free(i)'
  BY <1>1, <1>2, Shapes, Constants DEF IInv, Free
<1>6. StagesAdjacent' /\ StagesReached' /\ MadeInOrder' /\ OneHolder' /\ OneResourcePerKey'
  BY <1>1 DEF IInv, StagesAdjacent, StagesReached, MadeInOrder, OneHolder, OneResourcePerKey,
              AheadOfTheRoll
<1>7. HolderMayCreate'
  BY <1>1, <1>5 DEF IInv, HolderMayCreate, OutOfSight, HmacOf
<1>8. ReceiptKept'
  BY <1>1, <1>5 DEF IInv, ReceiptKept, KeptFor, HmacOf
<1>9. SettledAfter' /\ KnownAhead'
  BY <1>1, <1>2, <1>5, Shapes DEF IInv, SettledAfter, KnownAhead, HmacOf
<1> QED BY <1>3, <1>4, <1>6, <1>7, <1>8, <1>9 DEF IInv

\* Nothing the invariant speaks of changes but the session.
LEMMA SessionKeepsIInv ==
    ASSUME IInv, session' \in BOOLEAN, UNCHANGED <<now, stage, settled, tx, receipts, made>>
    PROVE  IInv'
<1>1. Rolled'
  BY RolledKept
<1>2. TypeOK' /\ BegunBefore' /\ OneHolder'
  BY DEF IInv, TypeOK, BegunBefore, OneHolder
<1>3. ReceiptKept' /\ HolderMayCreate'
  BY DEF IInv, ReceiptKept, KeptFor, HolderMayCreate, Free, OutOfSight, HmacOf
<1> QED BY <1>1, <1>2, <1>3 DEF IInv, Rolled

LEMMA NextKeepsIInv == IInv /\ [Next]_vars => IInv'
<1> SUFFICES ASSUME IInv, [Next]_vars PROVE IInv'
  OBVIOUS
<1>1. ASSUME NEW s \in Server, NEW k \in Key, NEW b \in Body, Begin(s, k, b)
      PROVE  IInv'
  BY <1>1, BeginKeepsIInv
<1>2. ASSUME NEW s \in Server, Reserve(s) PROVE IInv'
  BY <1>2, ReserveKeepsIInv
<1>3. ASSUME NEW s \in Server, Replay(s) PROVE IInv'
  <2>1. tx[s] # None
    BY <1>3 DEF Replay, Waiting
  <2>2. \A r \in receipts \ receipts' : r.expires <= now
    BY <1>3, <2>1, ExpiredIsPast DEF Replay
  <2> QED BY <1>3, <2>1, <2>2, EndsKeepIInv DEF Replay
<1>4. ASSUME NEW s \in Server, Refuse(s) PROVE IInv'
  BY <1>4, EndsKeepIInv DEF Refuse, Waiting
<1>5. ASSUME NEW s \in Server, Abort(s) PROVE IInv'
  BY <1>5, EndsKeepIInv DEF Abort
<1>6. ASSUME NEW s \in Server, NEW i \in Made, Finish(s, i) PROVE IInv'
  BY <1>6, FinishKeepsIInv
<1>7. ASSUME NEW s \in Server, Roll(s) PROVE IInv'
  BY <1>7, RollKeepsIInv
<1>8. CASE PruneReceipts
  BY <1>8, PruneKeepsIInv
<1>9. CASE EndSession
  BY <1>9, SessionKeepsIInv DEF EndSession
<1>10. CASE Tick
  BY <1>10, TickKeepsIInv
<1>11. CASE UNCHANGED vars
  BY <1>11, SessionKeepsIInv DEF vars, IInv, TypeOK
<1> QED BY <1>1, <1>2, <1>3, <1>4, <1>5, <1>6, <1>7, <1>8, <1>9, <1>10, <1>11 DEF Next

-----------------------------------------------------------------------------
(* The theorems *)

LEMMA InvariantHolds == Spec => []IInv
<1>1. Init => IInv
  BY InitIInv
<1>2. IInv /\ [Next]_vars => IInv'
  BY NextKeepsIInv
<1> QED BY <1>1, <1>2, PTL DEF Spec

\* One idempotency key creates one resource until the receipt of the first has
\* expired, but for a server that a rotation has not reached yet: for any
\* number of overlapping transactions, with clocks as stale as they like, any
\* number of rotations and removals of old keys.
THEOREM OneResourceTheorem == Spec => []OneResourcePerKey
<1>1. IInv => OneResourcePerKey
  BY DEF IInv
<1> QED BY <1>1, InvariantHolds, PTL

\* The new key is given to every server before the first one uses it.
RotationIsStaged ==
    \A n \in 1..(Len(Rotation) - 1) : Rotation[n + 1][1] \in HmacKeys(n)

\* Under a rotation that goes that way the exception of OneResourcePerKey is
\* void: one key creates one resource in the middle of the roll too.
THEOREM StagedRotationTheorem ==
    ASSUME RotationIsStaged
    PROVE  Spec => [](\A i, j \in Made :
                         i < j /\ made[j] # None /\ made[i].key = made[j].key =>
                             made[j].committed >= made[i].at + Retention)
<1>1. IInv => \A i, j \in Made :
                  i < j /\ made[j] # None /\ made[i].key = made[j].key =>
                      made[j].committed >= made[i].at + Retention
  <2> SUFFICES ASSUME IInv, NEW i \in Made, NEW j \in Made, i < j, made[j] # None,
                      made[i].key = made[j].key, AheadOfTheRoll(i, j)
               PROVE  FALSE
    BY DEF IInv, OneResourcePerKey
  <2>1. /\ made[i] # None /\ made[i].stage <= made[j].stage + 1
        /\ made[i].stage \in 1..Len(Rotation) /\ made[j].stage \in 1..Len(Rotation)
    BY Shapes DEF IInv, MadeInOrder
  <2>2. made[i].stage = made[j].stage + 1 /\ made[j].stage \in 1..(Len(Rotation) - 1)
    BY <2>1, Constants DEF AheadOfTheRoll
  <2> QED BY <2>2 DEF AheadOfTheRoll, RotationIsStaged
<1> QED BY <1>1, InvariantHolds, PTL
=============================================================================
