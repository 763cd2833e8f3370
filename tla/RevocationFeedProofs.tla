------------------------ MODULE RevocationFeedProofs ------------------------
(***************************************************************************)
(* Proofs about RevocationFeed for any number of anchors, publishers,      *)
(* stream entries and faults: the feed implements Delivery, and a gateway  *)
(* forgets an ended session or edge to an overtaken snapshot only.         *)
(* The feed and the gateway share the stream and the database; each has an *)
(* invariant of its own, and the steps of one leave the other's alone.     *)
(***************************************************************************)
EXTENDS RevocationFeed, WellFoundedInduction, TLAPS

Position == 1..Len(stream)

FeedTyped ==
    /\ outbox \in [Anchor -> Row]
    /\ pub \in [Publisher -> PubTx \cup {None}]
    /\ stream \in Seq(Anchor) /\ Len(stream) <= MaxStream
    /\ revoked \subseteq Anchor \ Owned
    /\ sts \in StsGroup
    /\ faults \in 0..MaxFaults

\* A row that is still pending has attempts left.
PendingHasTries ==
    \A a \in Anchor :
        outbox[a].status \in {"none", "pending"} => outbox[a].attempts < MaxAttempts

\* The group knows entries of the stream only, and works on pending ones.
GroupWithinStream ==
    /\ sts.read <= Len(stream)
    /\ sts.pel \subseteq Position /\ sts.dead \subseteq Position
    /\ sts.batch \subseteq sts.pel

\* Row locks: what a publisher has claimed is pending, and claimed by it only.
ClaimedPending ==
    \A p \in Publisher : pub[p] # None =>
        \A a \in pub[p].claimed : outbox[a].status = "pending"

ClaimsApart ==
    \A p, q \in Publisher :
        p # q /\ pub[p] # None /\ pub[q] # None =>
            pub[p].claimed \cap pub[q].claimed = {}

\* An XADD that was answered has left its entry.
SentOnStream ==
    \A p \in Publisher : pub[p] # None =>
        \A a \in pub[p].sent : \E n \in Position : stream[n] = a

\* No entry is forgotten: it is still to be read, pending, parked or applied.
EntriesAccounted ==
    \A n \in Position :
        \/ n > sts.read \/ n \in sts.pel \/ n \in sts.dead
        \/ stream[n] \in Owned \cup revoked

\* Only what a transaction has announced is on the stream.
StreamCommitted == \A n \in Position : outbox[stream[n]].status # "none"

FeedInv ==
    /\ FeedTyped
    /\ PendingHasTries
    /\ GroupWithinStream
    /\ ClaimedPending
    /\ ClaimsApart
    /\ SentOnStream
    /\ EntriesAccounted
    /\ StreamCommitted

LEMMA Constants ==
    /\ Owned \subseteq Anchor /\ Poller \in Reloader
    /\ MaxStream \in Nat /\ MaxFaults \in Nat
    /\ MaxAttempts \in Nat /\ MaxAttempts > 0
    /\ MaxFailures \in Nat /\ MaxFailures > 0
    /\ None \notin Anchor
BY FeedAssumption

\* The consumer takes an entry of its batch: there is a least one.
LEMMA LeastIsMember ==
    ASSUME NEW S \in SUBSET Nat, S # {}
    PROVE  LeastOf(S) \in S
<1> DEFINE R == OpToRel(<, Nat)
<1>1. IsWellFoundedOn(R, Nat)
  BY NatLessThanWellFounded
<1>2. \A x, y \in Nat : y < x => <<y, x>> \in R
  BY DEF OpToRel
<1> HIDE DEF R
<1>3. PICK x \in S : \A y \in S : ~(<<y, x>> \in R)
  BY <1>1, WFMin
<1>4. ASSUME NEW y \in S PROVE x <= y
  <2>1. x \in Nat /\ y \in Nat
    OBVIOUS
  <2>2. ~(<<y, x>> \in R)
    BY <1>3
  <2>3. ~(y < x)
    BY <1>2, <2>1, <2>2
  <2> QED BY <2>1, <2>3
<1> QED BY <1>3, <1>4 DEF LeastOf

\* Appending leaves the entries that were there.
LEMMA AppendFacts ==
    ASSUME stream \in Seq(Anchor), NEW a \in Anchor, stream' = Append(stream, a)
    PROVE  /\ stream' \in Seq(Anchor) /\ Len(stream') = Len(stream) + 1
           /\ Len(stream) \in Nat
           /\ \A n \in Position : n \in Position' /\ stream'[n] = stream[n]
           /\ stream'[Len(stream) + 1] = a
           /\ Position' = Position \cup {Len(stream) + 1}
BY DEF Position

LEMMA StsFields ==
    ASSUME sts \in StsGroup
    PROVE  /\ sts.read \in 0..MaxStream /\ sts.pel \subseteq Entry
           /\ sts.batch \subseteq Entry /\ sts.dead \subseteq Entry
           /\ sts.failures \in [Entry -> 0..MaxFailures]
BY DEF StsGroup

LEMMA InitFeed == Init => FeedInv
<1> SUFFICES ASSUME Init PROVE FeedInv
  OBVIOUS
<1> USE Constants
<1>1. outbox \in [Anchor -> Row] /\ pub \in [Publisher -> PubTx \cup {None}]
  BY DEF Init, Row
<1>2. stream = <<>> /\ stream \in Seq(Anchor) /\ Len(stream) = 0 /\ Position = {}
  BY DEF Init, Position
<1>3. /\ sts \in StsGroup /\ sts.read = 0 /\ sts.pel = {} /\ sts.dead = {}
      /\ sts.batch = {}
  BY DEF Init, StsGroup
<1>4. FeedTyped
  BY <1>1, <1>2, <1>3 DEF Init, FeedTyped
<1>5. PendingHasTries /\ ClaimedPending /\ ClaimsApart /\ SentOnStream
  BY DEF Init, PendingHasTries, ClaimedPending, ClaimsApart, SentOnStream
<1>6. GroupWithinStream /\ EntriesAccounted /\ StreamCommitted
  BY <1>2, <1>3 DEF GroupWithinStream, EntriesAccounted, StreamCommitted
<1> QED BY <1>4, <1>5, <1>6 DEF FeedInv

-----------------------------------------------------------------------------
(* The outbox and its publishers *)


LEMMA CommitKeepsFeed == ASSUME FeedInv, NEW a \in Anchor, Announce(a) PROVE FeedInv'
<1>1. /\ outbox \in [Anchor -> Row] /\ outbox[a].status = "none"
      /\ outbox' = [outbox EXCEPT ![a] = [outbox[a] EXCEPT !.status = "pending"]]
      /\ UNCHANGED <<pub, stream, revoked, sts, faults>>
  BY DEF FeedInv, FeedTyped, Announce
<1>2. /\ outbox' \in [Anchor -> Row]
      /\ outbox'[a].status = "pending" /\ outbox'[a].attempts = outbox[a].attempts
      /\ \A b \in Anchor : b # a => outbox'[b] = outbox[b]
  BY <1>1 DEF Row
<1>3. FeedTyped'
  BY <1>1, <1>2 DEF FeedInv, FeedTyped
<1>4. PendingHasTries'
  BY <1>1, <1>2 DEF FeedInv, PendingHasTries
<1>5. Position' = Position
  BY <1>1 DEF Position
<1>6. GroupWithinStream' /\ SentOnStream' /\ EntriesAccounted' /\ ClaimsApart'
  BY <1>1, <1>5 DEF FeedInv, GroupWithinStream, SentOnStream, EntriesAccounted, ClaimsApart
<1>7. ClaimedPending'
  <2> SUFFICES ASSUME NEW p \in Publisher, pub[p] # None, NEW b \in pub[p].claimed
               PROVE  outbox'[b].status = "pending"
    BY <1>1 DEF ClaimedPending
  <2>1. outbox[b].status = "pending" /\ b \in Anchor
    BY DEF FeedInv, ClaimedPending, FeedTyped, PubTx
  <2> QED BY <1>1, <1>2, <2>1
<1>8. StreamCommitted'
  <2>1. \A n \in Position : stream[n] \in Anchor
    BY DEF FeedInv, FeedTyped, Position
  <2> QED BY <1>1, <1>2, <1>5, <2>1 DEF FeedInv, StreamCommitted
<1> QED BY <1>3, <1>4, <1>6, <1>7, <1>8 DEF FeedInv

\* Only one publisher's entry changes, to one that has no more on the stream
\* than before.
LEMMA PubStep ==
    ASSUME FeedInv, NEW p \in Publisher, NEW t \in PubTx \cup {None},
           pub' = [pub EXCEPT ![p] = t],
           t # None => \A a \in t.claimed : outbox[a].status = "pending",
           t # None => \A q \in Publisher : q # p /\ pub[q] # None =>
                          t.claimed \cap pub[q].claimed = {},
           t # None => \A a \in t.sent : \E n \in Position : stream[n] = a,
           UNCHANGED <<outbox, stream, revoked, sts>>, faults' \in 0..MaxFaults
    PROVE  FeedInv'
<1>1. \A q \in Publisher : pub'[q] = IF q = p THEN t ELSE pub[q]
  BY DEF FeedInv, FeedTyped
<1>2. FeedTyped'
  BY DEF FeedInv, FeedTyped
<1>3. Position' = Position
  BY DEF Position
<1>4. PendingHasTries' /\ GroupWithinStream' /\ EntriesAccounted' /\ StreamCommitted'
  BY <1>3 DEF FeedInv, PendingHasTries, GroupWithinStream, EntriesAccounted, StreamCommitted
<1>5. ClaimedPending'
  BY <1>1 DEF FeedInv, ClaimedPending
<1>6. ClaimsApart'
  BY <1>1 DEF FeedInv, ClaimsApart
<1>7. SentOnStream'
  BY <1>1, <1>3 DEF FeedInv, SentOnStream
<1> QED BY <1>2, <1>4, <1>5, <1>6, <1>7 DEF FeedInv

LEMMA ClaimKeepsFeed ==
    ASSUME FeedInv, NEW p \in Publisher, NEW B \in SUBSET Anchor, Claim(p, B)
    PROVE  FeedInv'
<1> DEFINE t == [claimed |-> B, sent |-> {}, failed |-> {}]
<1>1. t \in PubTx /\ t.claimed = B /\ t.sent = {}
  BY DEF PubTx
<1>2. pub' = [pub EXCEPT ![p] = t] /\ UNCHANGED <<outbox, stream, revoked, sts, faults>>
  BY DEF Claim
<1>3. \A a \in B : outbox[a].status = "pending" /\ a \notin Locked
  BY DEF Claim
<1>4. \A q \in Publisher : pub[q] # None => B \cap pub[q].claimed = {}
  BY <1>3 DEF Locked
<1>5. faults' \in 0..MaxFaults
  BY <1>2 DEF FeedInv, FeedTyped
<1> HIDE DEF t
<1> QED BY <1>1, <1>2, <1>3, <1>4, <1>5, PubStep

\* An entry may be added for a claimed row, and the publisher notes it or not.
LEMMA AddKeepsFeed ==
    ASSUME FeedInv, NEW p \in Publisher, NEW a \in Anchor, NEW t \in PubTx,
           pub[p] # None, a \in pub[p].claimed,
           pub' = [pub EXCEPT ![p] = t], t.claimed = pub[p].claimed,
           t.sent \subseteq pub[p].sent \cup {a},
           Len(stream) < MaxStream, stream' = Append(stream, a),
           UNCHANGED <<outbox, revoked, sts>>, faults' \in 0..MaxFaults
    PROVE  FeedInv'
<1>1. \A q \in Publisher : pub'[q] = IF q = p THEN t ELSE pub[q]
  BY DEF FeedInv, FeedTyped
<1>2. /\ stream' \in Seq(Anchor) /\ Len(stream') = Len(stream) + 1
      /\ Len(stream) \in Nat
      /\ \A n \in Position : n \in Position' /\ stream'[n] = stream[n]
      /\ stream'[Len(stream) + 1] = a
      /\ Position' = Position \cup {Len(stream) + 1}
  BY AppendFacts DEF FeedInv, FeedTyped
<1>3. FeedTyped'
  BY <1>2, Constants DEF FeedInv, FeedTyped
<1>4. PendingHasTries'
  BY DEF FeedInv, PendingHasTries
<1>5. sts.read \in Nat
  BY StsFields, Constants DEF FeedInv, FeedTyped
<1>6. GroupWithinStream'
  BY <1>2, <1>5 DEF FeedInv, GroupWithinStream
<1>7. ClaimedPending'
  BY <1>1 DEF FeedInv, ClaimedPending
<1>8. ClaimsApart'
  BY <1>1 DEF FeedInv, ClaimsApart
<1>9. SentOnStream'
  <2> SUFFICES ASSUME NEW q \in Publisher, pub'[q] # None, NEW b \in pub'[q].sent
               PROVE  \E n \in Position' : stream'[n] = b
    BY DEF SentOnStream
  <2>1. CASE b = a
    BY <1>2, <2>1
  <2>2. CASE b # a
    <3>1. pub[q] # None /\ b \in pub[q].sent
      BY <1>1, <2>2
    <3>2. PICK n \in Position : stream[n] = b
      BY <3>1 DEF FeedInv, SentOnStream
    <3> QED BY <1>2, <3>2
  <2> QED BY <2>1, <2>2
<1>10. EntriesAccounted'
  <2> SUFFICES ASSUME NEW n \in Position'
               PROVE  \/ n > sts.read \/ n \in sts.pel \/ n \in sts.dead
                      \/ stream'[n] \in Owned \cup revoked
    BY DEF EntriesAccounted
  <2>1. CASE n = Len(stream) + 1
    <3>1. sts.read <= Len(stream)
      BY DEF FeedInv, GroupWithinStream
    <3> QED BY <1>2, <1>5, <2>1, <3>1
  <2>2. CASE n \in Position
    BY <1>2, <2>2 DEF FeedInv, EntriesAccounted
  <2> QED BY <1>2, <2>1, <2>2
<1>11. StreamCommitted'
  <2>1. outbox[a].status = "pending"
    BY DEF FeedInv, ClaimedPending
  <2> QED BY <1>2, <2>1 DEF FeedInv, StreamCommitted
<1> QED BY <1>3, <1>4, <1>6, <1>7, <1>8, <1>9, <1>10, <1>11 DEF FeedInv

LEMMA XaddKeepsFeed ==
    ASSUME FeedInv, NEW p \in Publisher, NEW a \in Anchor, Xadd(p, a)
    PROVE  FeedInv'
<1> DEFINE t == [pub[p] EXCEPT !.sent = pub[p].sent \cup {a}]
<1>1. pub[p] \in PubTx /\ pub[p] # None /\ a \in pub[p].claimed
  BY DEF FeedInv, FeedTyped, Xadd
<1>2. t \in PubTx /\ t.claimed = pub[p].claimed /\ t.sent = pub[p].sent \cup {a}
  BY <1>1 DEF PubTx
<1>3. /\ pub' = [pub EXCEPT ![p] = t] /\ stream' = Append(stream, a)
      /\ Len(stream) < MaxStream /\ UNCHANGED <<outbox, revoked, sts, faults>>
  BY <1>1 DEF Xadd
<1>4. faults' \in 0..MaxFaults
  BY <1>3 DEF FeedInv, FeedTyped
<1> HIDE DEF t
<1> QED BY <1>1, <1>2, <1>3, <1>4, AddKeepsFeed

LEMMA FaultTyped == ASSUME FeedTyped, Fault PROVE faults' \in 0..MaxFaults
BY Constants DEF FeedTyped, Fault

LEMMA XaddFailsKeepsFeed ==
    ASSUME FeedInv, NEW p \in Publisher, NEW a \in Anchor, XaddFails(p, a)
    PROVE  FeedInv'
<1> DEFINE t == [pub[p] EXCEPT !.failed = pub[p].failed \cup {a}]
<1>1. pub[p] \in PubTx /\ pub[p] # None /\ a \in pub[p].claimed
  BY DEF FeedInv, FeedTyped, XaddFails
<1>2. t \in PubTx /\ t.claimed = pub[p].claimed /\ t.sent = pub[p].sent
  BY <1>1 DEF PubTx
<1>3. /\ pub' = [pub EXCEPT ![p] = t] /\ UNCHANGED <<outbox, revoked, sts>>
      /\ UNCHANGED stream \/ (Len(stream) < MaxStream /\ stream' = Append(stream, a))
  BY <1>1 DEF XaddFails
<1>4. faults' \in 0..MaxFaults
  BY FaultTyped DEF FeedInv, XaddFails
<1>5. /\ \A b \in t.claimed : outbox[b].status = "pending"
      /\ \A q \in Publisher : q # p /\ pub[q] # None => t.claimed \cap pub[q].claimed = {}
      /\ \A b \in t.sent : \E n \in Position : stream[n] = b
  BY <1>1, <1>2 DEF FeedInv, ClaimedPending, ClaimsApart, SentOnStream
<1> HIDE DEF t
<1>6. CASE UNCHANGED stream
  BY <1>2, <1>3, <1>4, <1>5, <1>6, PubStep
<1>7. CASE Len(stream) < MaxStream /\ stream' = Append(stream, a)
  BY <1>1, <1>2, <1>3, <1>4, <1>7, AddKeepsFeed
<1> QED BY <1>3, <1>6, <1>7

LEMMA RollbackKeepsFeed ==
    ASSUME FeedInv, NEW p \in Publisher, PublishRollback(p) PROVE FeedInv'
<1>1. faults' \in 0..MaxFaults
  BY FaultTyped DEF FeedInv, PublishRollback
<1> QED BY <1>1, PubStep DEF PublishRollback

LEMMA PublishedRowFacts ==
    ASSUME FeedInv, NEW p \in Publisher, pub[p] # None, NEW a \in pub[p].claimed
    PROVE  /\ a \in Anchor /\ PublishedRow(p, a) \in Row
           /\ PublishedRow(p, a).status # "none"
           /\ PublishedRow(p, a).status = "pending" =>
                 /\ a \notin pub[p].sent
                 /\ PublishedRow(p, a).attempts < MaxAttempts
           /\ PublishedRow(p, a).status = "dead" => a \notin pub[p].sent
           /\ PublishedRow(p, a).status = "published" => a \in pub[p].sent
<1>1. pub[p] \in PubTx /\ a \in Anchor /\ outbox[a] \in Row /\ outbox[a].status = "pending"
  BY DEF FeedInv, FeedTyped, PubTx, ClaimedPending
<1>2. outbox[a].attempts \in Nat /\ outbox[a].attempts < MaxAttempts
  BY <1>1, Constants DEF FeedInv, PendingHasTries, Row
<1> QED BY <1>1, <1>2, Constants DEF PublishedRow, Row

LEMMA PublishCommitKeepsFeed ==
    ASSUME FeedInv, NEW p \in Publisher, PublishCommit(p) PROVE FeedInv'
<1>1. /\ pub[p] # None /\ pub[p] \in PubTx /\ pub' = [pub EXCEPT ![p] = None]
      /\ UNCHANGED <<stream, revoked, sts, faults>>
      /\ outbox \in [Anchor -> Row]
  BY DEF FeedInv, FeedTyped, PublishCommit
<1>2. outbox' = [a \in Anchor |-> IF a \in pub[p].claimed THEN PublishedRow(p, a)
                                  ELSE outbox[a]]
  BY DEF PublishCommit
<1>3. \A a \in Anchor : outbox'[a] = IF a \in pub[p].claimed THEN PublishedRow(p, a)
                                     ELSE outbox[a]
  BY <1>2
<1>4. outbox' \in [Anchor -> Row]
  BY <1>1, <1>2, PublishedRowFacts
<1>5. FeedTyped'
  BY <1>1, <1>4 DEF FeedInv, FeedTyped
<1>6. \A q \in Publisher : pub'[q] # None => q # p /\ pub'[q] = pub[q]
  BY <1>1 DEF FeedInv, FeedTyped
<1>7. PendingHasTries'
  <2> SUFFICES ASSUME NEW a \in Anchor, outbox'[a].status \in {"none", "pending"}
               PROVE  outbox'[a].attempts < MaxAttempts
    BY DEF PendingHasTries
  <2>1. CASE a \in pub[p].claimed
    BY <1>1, <1>3, <2>1, PublishedRowFacts
  <2>2. CASE a \notin pub[p].claimed
    BY <1>3, <2>2 DEF FeedInv, PendingHasTries
  <2> QED BY <2>1, <2>2
<1>8. Position' = Position
  BY <1>1 DEF Position
<1>9. GroupWithinStream' /\ EntriesAccounted'
  BY <1>1, <1>8 DEF FeedInv, GroupWithinStream, EntriesAccounted
<1>10. ClaimsApart'
  BY <1>6 DEF FeedInv, ClaimsApart
<1>11. SentOnStream'
  BY <1>1, <1>6, <1>8 DEF FeedInv, SentOnStream
<1>12. ClaimedPending'
  <2> SUFFICES ASSUME NEW q \in Publisher, pub'[q] # None, NEW b \in pub'[q].claimed
               PROVE  outbox'[b].status = "pending"
    BY DEF ClaimedPending
  <2>1. q # p /\ pub[q] # None /\ b \in pub[q].claimed /\ b \in Anchor
    BY <1>6 DEF FeedInv, FeedTyped, PubTx
  <2>2. b \notin pub[p].claimed /\ outbox[b].status = "pending"
    BY <1>1, <2>1 DEF FeedInv, ClaimsApart, ClaimedPending
  <2> QED BY <1>3, <2>1, <2>2
<1>13. StreamCommitted'
  <2>1. \A n \in Position : stream[n] \in Anchor /\ outbox[stream[n]].status # "none"
    BY DEF FeedInv, FeedTyped, Position, StreamCommitted
  <2>2. \A a \in Anchor : outbox[a].status # "none" => outbox'[a].status # "none"
    BY <1>1, <1>3, PublishedRowFacts
  <2> QED BY <1>1, <1>8, <2>1, <2>2 DEF StreamCommitted
<1> QED BY <1>5, <1>7, <1>9, <1>10, <1>11, <1>12, <1>13 DEF FeedInv

LEMMA RequeueKeepsFeed == ASSUME FeedInv, NEW a \in Anchor, Requeue(a) PROVE FeedInv'
<1> DEFINE row == [status |-> "pending", attempts |-> 0]
<1>1. row \in Row /\ row.status = "pending" /\ row.attempts < MaxAttempts
  BY Constants DEF Row
<1>2. /\ outbox[a].status = "dead" /\ outbox' = [outbox EXCEPT ![a] = row]
      /\ UNCHANGED <<pub, stream, revoked, sts, faults>>
  BY DEF Requeue
<1> HIDE DEF row
<1>3. /\ outbox' \in [Anchor -> Row] /\ outbox'[a] = row
      /\ \A b \in Anchor : b # a => outbox'[b] = outbox[b]
  BY <1>1, <1>2 DEF FeedInv, FeedTyped
<1>4. FeedTyped'
  BY <1>2, <1>3 DEF FeedInv, FeedTyped
<1>5. PendingHasTries'
  BY <1>1, <1>3 DEF FeedInv, PendingHasTries
<1>6. Position' = Position
  BY <1>2 DEF Position
<1>7. GroupWithinStream' /\ SentOnStream' /\ EntriesAccounted' /\ ClaimsApart'
  BY <1>2, <1>6 DEF FeedInv, GroupWithinStream, SentOnStream, EntriesAccounted, ClaimsApart
<1>8. ClaimedPending'
  <2> SUFFICES ASSUME NEW p \in Publisher, pub[p] # None, NEW b \in pub[p].claimed
               PROVE  outbox'[b].status = "pending"
    BY <1>2 DEF ClaimedPending
  <2>1. outbox[b].status = "pending" /\ b \in Anchor
    BY DEF FeedInv, ClaimedPending, FeedTyped, PubTx
  <2> QED BY <1>2, <1>3, <2>1
<1>9. StreamCommitted'
  <2>1. \A n \in Position : stream[n] \in Anchor
    BY DEF FeedInv, FeedTyped, Position
  <2> QED BY <1>1, <1>2, <1>3, <1>6, <2>1 DEF FeedInv, StreamCommitted
<1> QED BY <1>4, <1>5, <1>7, <1>8, <1>9 DEF FeedInv

-----------------------------------------------------------------------------
(* The token service's consumer *)

\* A step of the group that forgets no entry.
LEMMA GroupStep ==
    ASSUME FeedInv, sts' \in StsGroup, sts'.read <= Len(stream),
           sts'.pel \subseteq Position, sts'.dead \subseteq Position,
           sts'.batch \subseteq sts'.pel,
           revoked \subseteq revoked', revoked' \subseteq Anchor \ Owned,
           \A n \in Position :
               n > sts.read \/ n \in sts.pel \/ n \in sts.dead =>
                   \/ n > sts'.read \/ n \in sts'.pel \/ n \in sts'.dead
                   \/ stream[n] \in Owned \cup revoked',
           UNCHANGED <<outbox, pub, stream>>, faults' \in 0..MaxFaults
    PROVE  FeedInv'
<1>1. FeedTyped'
  BY DEF FeedInv, FeedTyped
<1>2. Position' = Position
  BY DEF Position
<1>3. PendingHasTries' /\ ClaimedPending' /\ ClaimsApart' /\ SentOnStream' /\ StreamCommitted'
  BY <1>2 DEF FeedInv, PendingHasTries, ClaimedPending, ClaimsApart, SentOnStream,
              StreamCommitted
<1>4. GroupWithinStream' /\ EntriesAccounted'
  BY <1>2 DEF FeedInv, GroupWithinStream, EntriesAccounted
<1> QED BY <1>1, <1>3, <1>4 DEF FeedInv

LEMMA StsReadKeepsFeed == ASSUME FeedInv, StsRead PROVE FeedInv'
<1> DEFINE new == (sts.read + 1)..Len(stream)
<1>1. /\ sts \in StsGroup /\ Len(stream) \in Nat /\ Len(stream) <= MaxStream
      /\ sts.read \in Nat /\ sts.read <= Len(stream) /\ faults \in 0..MaxFaults
      /\ revoked \subseteq Anchor \ Owned
      /\ sts.pel \subseteq Position /\ sts.dead \subseteq Position
  BY StsFields, Constants DEF FeedInv, FeedTyped, GroupWithinStream
<1>2. /\ sts' = [sts EXCEPT !.read = Len(stream), !.pel = sts.pel \cup new, !.batch = new]
      /\ UNCHANGED <<outbox, pub, stream, revoked, gw, faults>>
  BY DEF StsRead
<1>3. new \subseteq Position /\ new \subseteq Entry /\ Len(stream) \in 0..MaxStream
      /\ Position \subseteq Entry
  BY <1>1, Constants DEF Position, Entry
<1> HIDE DEF new
<1>4. /\ sts' \in StsGroup /\ sts'.read = Len(stream) /\ sts'.pel = sts.pel \cup new
      /\ sts'.batch = new /\ sts'.dead = sts.dead
  BY <1>1, <1>2, <1>3 DEF StsGroup
<1>5. \A n \in Position : n > sts.read => n \in new
  BY <1>1 DEF new, Position
<1> QED BY <1>1, <1>2, <1>3, <1>4, <1>5, GroupStep

\* The entry in hand is pending, and an entry of the stream.
LEMMA InHand ==
    ASSUME FeedInv, sts.batch # {}
    PROVE  /\ LeastOf(sts.batch) \in sts.batch /\ LeastOf(sts.batch) \in sts.pel
           /\ LeastOf(sts.batch) \in Position /\ LeastOf(sts.batch) \in Entry
           /\ stream[LeastOf(sts.batch)] \in Anchor
<1>1. sts.batch \subseteq Entry /\ sts.batch \subseteq sts.pel /\ sts.pel \subseteq Position
  BY StsFields DEF FeedInv, FeedTyped, GroupWithinStream
<1>2. sts.batch \in SUBSET Nat
  BY <1>1, Constants DEF Entry
<1>3. LeastOf(sts.batch) \in sts.batch
  BY <1>2, LeastIsMember
<1> QED BY <1>1, <1>3 DEF FeedInv, FeedTyped, Position

LEMMA HandledFacts ==
    ASSUME FeedInv, sts.batch # {}, StsHandled
    PROVE  /\ revoked \subseteq revoked' /\ revoked' \subseteq Anchor \ Owned
           /\ stream[LeastOf(sts.batch)] \in Owned \cup revoked'
BY InHand DEF StsHandled, FeedInv, FeedTyped

LEMMA StsProcessKeepsFeed ==
    ASSUME FeedInv, sts.batch # {}, StsHandled,
           \/ sts' = [sts EXCEPT !.batch = sts.batch \ {LeastOf(sts.batch)},
                                 !.pel = sts.pel \ {LeastOf(sts.batch)}]
           \/ sts' = [sts EXCEPT !.batch = sts.batch \ {LeastOf(sts.batch)}],
           UNCHANGED <<outbox, pub, stream>>, faults' \in 0..MaxFaults
    PROVE  FeedInv'
<1> DEFINE n == LeastOf(sts.batch)
<1>1. /\ sts \in StsGroup /\ sts.read <= Len(stream) /\ sts.batch \subseteq sts.pel
      /\ sts.pel \subseteq Position /\ sts.dead \subseteq Position
  BY DEF FeedInv, FeedTyped, GroupWithinStream
<1>2. n \in Position /\ stream[n] \in Owned \cup revoked'
  BY InHand, HandledFacts
<1> HIDE DEF n
<1>3. /\ sts' \in StsGroup /\ sts'.read = sts.read /\ sts'.dead = sts.dead
      /\ sts'.batch = sts.batch \ {n} /\ sts'.pel \in {sts.pel, sts.pel \ {n}}
  BY <1>1 DEF StsGroup, n
<1>4. sts'.batch \subseteq sts'.pel
  BY <1>1, <1>3
<1> QED BY <1>1, <1>2, <1>3, <1>4, HandledFacts, GroupStep

LEMMA HandlerFailsKeepsFeed == ASSUME FeedInv, StsHandlerFails PROVE FeedInv'
<1> DEFINE n == LeastOf(sts.batch)
           count == sts.failures[n] + 1
<1>1. /\ sts \in StsGroup /\ sts.read <= Len(stream) /\ sts.batch \subseteq sts.pel
      /\ sts.pel \subseteq Position /\ sts.dead \subseteq Position
      /\ revoked \subseteq Anchor \ Owned
  BY DEF FeedInv, FeedTyped, GroupWithinStream
<1>2. sts.batch # {} /\ n \in Position /\ n \in Entry /\ n \in sts.pel
  BY InHand DEF StsHandlerFails
<1>3. faults' \in 0..MaxFaults /\ UNCHANGED <<outbox, pub, stream, revoked>>
  BY FaultTyped DEF FeedInv, StsHandlerFails
<1>4. sts.failures \in [Entry -> 0..MaxFailures] /\ sts.failures[n] \in 0..MaxFailures
  BY <1>1, <1>2, StsFields
<1>5. \/ count < MaxFailures /\
           sts' = [sts EXCEPT !.batch = sts.batch \ {n},
                              !.failures = [sts.failures EXCEPT ![n] = count]]
      \/ sts' = [sts EXCEPT !.batch = sts.batch \ {n},
                            !.failures = [sts.failures EXCEPT ![n] = 0],
                            !.pel = sts.pel \ {n}, !.dead = sts.dead \cup {n}]
      \/ sts' = [sts EXCEPT !.batch = sts.batch \ {n}, !.dead = sts.dead \cup {n}]
      \/ sts' = [sts EXCEPT !.batch = sts.batch \ {n}]
  BY <1>1 DEF StsHandlerFails, StsGroup
<1> HIDE DEF n, count
<1>a. count \in Nat /\ 0 \in 0..MaxFailures
  BY <1>4, Constants DEF count
<1>b. count < MaxFailures => count \in 0..MaxFailures
  BY <1>a, Constants
<1>6. /\ count < MaxFailures => [sts.failures EXCEPT ![n] = count] \in [Entry -> 0..MaxFailures]
      /\ [sts.failures EXCEPT ![n] = 0] \in [Entry -> 0..MaxFailures]
  BY <1>2, <1>4, <1>a, <1>b
<1>7. /\ sts' \in StsGroup /\ sts'.read = sts.read /\ sts'.batch = sts.batch \ {n}
      /\ \/ sts'.pel = sts.pel /\ sts'.dead \in {sts.dead, sts.dead \cup {n}}
         \/ sts'.pel = sts.pel \ {n} /\ sts'.dead = sts.dead \cup {n}
  BY <1>1, <1>2, <1>5, <1>6 DEF StsGroup
<1> QED BY <1>1, <1>2, <1>3, <1>7, GroupStep

LEMMA RestartKeepsFeed == ASSUME FeedInv, StsRestart PROVE FeedInv'
<1>1. /\ sts \in StsGroup /\ sts.read <= Len(stream) /\ revoked \subseteq Anchor \ Owned
      /\ sts.pel \subseteq Position /\ sts.dead \subseteq Position
  BY DEF FeedInv, FeedTyped, GroupWithinStream
<1>2. faults' \in 0..MaxFaults /\ UNCHANGED <<outbox, pub, stream, revoked>>
  BY FaultTyped DEF FeedInv, StsRestart
<1>3. PICK idle \in SUBSET sts.pel : sts' = [sts EXCEPT !.batch = idle]
  BY DEF StsRestart
<1>4. idle \subseteq Entry
  BY <1>1 DEF StsGroup
<1>5. /\ sts' \in StsGroup /\ sts'.read = sts.read /\ sts'.batch \subseteq sts.pel
      /\ sts'.pel = sts.pel /\ sts'.dead = sts.dead
  BY <1>1, <1>3, <1>4 DEF StsGroup
<1> QED BY <1>1, <1>2, <1>5, GroupStep

\* The gateway's steps, and steps that change nothing.
LEMMA OutsideKeepsFeed ==
    ASSUME FeedInv, UNCHANGED <<outbox, pub, stream, revoked, sts>>, faults' \in 0..MaxFaults
    PROVE  FeedInv'
<1>1. /\ sts \in StsGroup /\ sts.read <= Len(stream) /\ revoked \subseteq Anchor \ Owned
      /\ sts.pel \subseteq Position /\ sts.dead \subseteq Position /\ sts.batch \subseteq sts.pel
  BY DEF FeedInv, FeedTyped, GroupWithinStream
<1> QED BY <1>1, GroupStep

\* What a step of the gateway leaves of the feed.
GatewayStep ==
    \/ \E o \in Reloader : GwReload(o) \/ GwQuery(o) \/ GwQueryFails(o) \/ GwApply(o)
    \/ GwRead \/ GwProcess \/ GwAckFails \/ GwReap \/ GwCrash

LEMMA GatewayLeavesFeed ==
    ASSUME FeedTyped, GatewayStep
    PROVE  UNCHANGED <<outbox, expired, pub, stream, revoked, sts>> /\ faults' \in 0..MaxFaults
<1>1. UNCHANGED <<outbox, expired, pub, stream, revoked, sts>> /\ (UNCHANGED faults \/ Fault)
  BY DEF GatewayStep, GwReload, GwQuery, GwQueryFails, GwApply, GwRead, GwProcess,
         GwAckFails, GwReap, GwCrash
<1>2. faults' \in 0..MaxFaults
  BY <1>1, FaultTyped DEF FeedTyped
<1> QED BY <1>1, <1>2

LEMMA NextKeepsFeed == FeedInv /\ [Next]_vars => FeedInv'
<1> SUFFICES ASSUME FeedInv, [Next]_vars PROVE FeedInv'
  OBVIOUS
<1>0. faults \in 0..MaxFaults /\ FeedTyped
  BY DEF FeedInv, FeedTyped
<1>1. ASSUME NEW a \in Anchor, Commit(a) \/ Expire(a) \/ Requeue(a) PROVE FeedInv'
  BY <1>1, CommitKeepsFeed, RequeueKeepsFeed DEF Commit, Expire
<1>2. ASSUME NEW p \in Publisher, NEW B \in SUBSET Anchor, Claim(p, B) PROVE FeedInv'
  BY <1>2, ClaimKeepsFeed
<1>3. ASSUME NEW p \in Publisher, NEW a \in Anchor, Xadd(p, a) \/ XaddFails(p, a)
      PROVE  FeedInv'
  BY <1>3, XaddKeepsFeed, XaddFailsKeepsFeed
<1>4. ASSUME NEW p \in Publisher, PublishCommit(p) \/ PublishRollback(p) PROVE FeedInv'
  BY <1>4, PublishCommitKeepsFeed, RollbackKeepsFeed
<1>5. CASE StsRead
  BY <1>5, StsReadKeepsFeed
<1>6. CASE StsProcess
  BY <1>0, <1>6, StsProcessKeepsFeed DEF StsProcess
<1>7. CASE StsAckFails
  BY <1>0, <1>7, FaultTyped, StsProcessKeepsFeed DEF StsAckFails
<1>8. CASE StsHandlerFails \/ StsRestart
  BY <1>8, HandlerFailsKeepsFeed, RestartKeepsFeed
<1>9. CASE GatewayStep
  BY <1>0, <1>9, GatewayLeavesFeed, OutsideKeepsFeed
<1>10. CASE UNCHANGED vars
  BY <1>0, <1>10, OutsideKeepsFeed DEF vars
<1> QED BY <1>1, <1>2, <1>3, <1>4, <1>5, <1>6, <1>7, <1>8, <1>9, <1>10
        DEF Next, GatewayStep

LEMMA FeedInvariant == Spec => []FeedInv
<1>1. Init => FeedInv
  BY InitFeed
<1>2. FeedInv /\ [Next]_vars => FeedInv'
  BY NextKeepsFeed
<1> QED BY <1>1, <1>2, PTL DEF Spec

-----------------------------------------------------------------------------
(* The refinement of Delivery *)

\* An entry for a that the group has still to read or to acknowledge.
OnTheWay(a) ==
    \E n \in Position : (n > sts.read \/ n \in sts.pel) /\ stream[n] = a

OnDeadLetter(a) == \E n \in sts.dead : stream[n] = a

DeliveryStep(a) ==
    \/ D!Send(a) \/ D!Apply(a) \/ D!Settle(a) \/ D!Park(a) \/ D!Requeue(a)
    \/ D!Idle(a)

\* What the refinement mapping says of one record.
MappingSays ==
    /\ Committed \subseteq Anchor /\ Owed \subseteq Anchor /\ Parked \subseteq Anchor
    /\ revoked \subseteq Anchor \ Owned
    /\ \A a \in Anchor :
          /\ a \in Committed <=> outbox[a].status # "none"
          /\ a \in Owed <=> outbox[a].status = "pending" \/ OnTheWay(a)
          /\ a \in Parked <=> outbox[a].status = "dead" \/ OnDeadLetter(a)

LEMMA Mapping == FeedInv => MappingSays
<1> SUFFICES ASSUME FeedInv PROVE MappingSays
  OBVIOUS
<1>1. \A n \in Position : stream[n] \in Anchor
  BY DEF FeedInv, FeedTyped, Position
<1>2. /\ sts.pel \subseteq Position /\ sts.dead \subseteq Position /\ sts.read \in Nat
      /\ Len(stream) \in Nat /\ Len(stream) <= MaxStream
  BY StsFields, Constants DEF FeedInv, FeedTyped, GroupWithinStream
<1> DEFINE E == sts.pel \cup {m \in Entry : sts.read < m /\ m <= Len(stream)}
<1>3. \A n : n \in E <=> n \in Position /\ (n > sts.read \/ n \in sts.pel)
  BY <1>2, Constants DEF Entry, Position
<1>4. Owed = {a \in Anchor : outbox[a].status = "pending"} \cup {stream[n] : n \in E}
  BY DEF Owed
<1> HIDE DEF E
<1>5. Owed \subseteq Anchor
  BY <1>1, <1>3, <1>4
<1>6. ASSUME NEW a \in Anchor
      PROVE  a \in Owed <=> outbox[a].status = "pending" \/ OnTheWay(a)
  BY <1>3, <1>4 DEF OnTheWay
<1>7. Committed \subseteq Anchor /\ Parked \subseteq Anchor
  BY <1>1, <1>2 DEF Committed, Parked
<1>8. ASSUME NEW a \in Anchor
      PROVE  /\ a \in Committed <=> outbox[a].status # "none"
             /\ a \in Parked <=> outbox[a].status = "dead" \/ OnDeadLetter(a)
  BY DEF Committed, Parked, OnDeadLetter
<1>9. revoked \subseteq Anchor \ Owned
  BY DEF FeedInv, FeedTyped
<1> QED BY <1>5, <1>6, <1>7, <1>8, <1>9 DEF MappingSays

LEMMA MappingAfter == FeedInv' => MappingSays'
BY Mapping, PTL

LEMMA ByRecord ==
    ASSUME FeedInv, FeedInv', \A a \in Anchor \ Owned : DeliveryStep(a)
    PROVE  D!Next
BY MappingAfter DEF MappingSays, DeliveryStep, D!Next

\* A record of which the step changes nothing that Delivery sees.
LEMMA QuietRecord ==
    ASSUME FeedInv, FeedInv', NEW a \in Anchor \ Owned,
           outbox'[a].status = outbox[a].status,
           outbox[a].status = "pending" \/ (OnTheWay(a)' <=> OnTheWay(a)),
           OnDeadLetter(a)' <=> OnDeadLetter(a),
           a \in revoked' <=> a \in revoked
    PROVE  DeliveryStep(a)
BY Mapping, MappingAfter DEF MappingSays, DeliveryStep, D!Idle, D!Same

\* Steps that leave the stream and the group alone.
LEMMA SameStream ==
    ASSUME UNCHANGED <<stream, sts>>
    PROVE  \A a \in Anchor : /\ OnTheWay(a)' <=> OnTheWay(a)
                             /\ OnDeadLetter(a)' <=> OnDeadLetter(a)
BY DEF OnTheWay, OnDeadLetter, Position

LEMMA CommitDelivers ==
    ASSUME FeedInv, FeedInv', NEW a \in Anchor, Announce(a) PROVE D!Next
<1>1. /\ outbox[a].status = "none" /\ outbox'[a].status = "pending"
      /\ \A b \in Anchor : b # a => outbox'[b].status = outbox[b].status
      /\ UNCHANGED <<stream, revoked, sts>>
  BY DEF FeedInv, FeedTyped, Announce, Row
<1> SUFFICES ASSUME NEW b \in Anchor \ Owned PROVE DeliveryStep(b)
  BY ByRecord
<1>2. CASE b # a
  BY <1>1, <1>2, SameStream, QuietRecord
<1>3. CASE b = a
  BY <1>1, <1>3, SameStream, Mapping, MappingAfter DEF MappingSays, DeliveryStep, D!Send, D!Same
<1> QED BY <1>2, <1>3

LEMMA RequeueDelivers ==
    ASSUME FeedInv, FeedInv', NEW a \in Anchor, Requeue(a) PROVE D!Next
<1>1. /\ outbox[a].status = "dead" /\ outbox'[a].status = "pending"
      /\ \A b \in Anchor : b # a => outbox'[b].status = outbox[b].status
      /\ UNCHANGED <<stream, revoked, sts>>
  BY DEF FeedInv, FeedTyped, Requeue
<1> SUFFICES ASSUME NEW b \in Anchor \ Owned PROVE DeliveryStep(b)
  BY ByRecord
<1>2. CASE b # a
  BY <1>1, <1>2, SameStream, QuietRecord
<1>3. CASE b = a
  BY <1>1, <1>3, Mapping, MappingAfter DEF MappingSays, DeliveryStep, D!Requeue, D!Same
<1> QED BY <1>2, <1>3

\* An XADD is for a row that is pending, and so owed already.
LEMMA AddDelivers ==
    ASSUME FeedInv, FeedInv', NEW p \in Publisher, NEW a \in Anchor,
           pub[p] # None, a \in pub[p].claimed, stream' = Append(stream, a),
           UNCHANGED <<outbox, revoked, sts>>
    PROVE  D!Next
<1> SUFFICES ASSUME NEW b \in Anchor \ Owned PROVE DeliveryStep(b)
  BY ByRecord
<1>1. outbox[a].status = "pending"
  BY DEF FeedInv, ClaimedPending
<1>2. /\ \A n \in Position : n \in Position' /\ stream'[n] = stream[n]
      /\ Position' = Position \cup {Len(stream) + 1} /\ stream'[Len(stream) + 1] = a
  BY AppendFacts DEF FeedInv, FeedTyped
<1>3. sts.dead \subseteq Position
  BY DEF FeedInv, GroupWithinStream
<1>4. OnDeadLetter(b)' <=> OnDeadLetter(b)
  BY <1>2, <1>3 DEF OnDeadLetter
<1>5. CASE b = a
  BY <1>1, <1>4, <1>5, QuietRecord
<1>6. CASE b # a
  <2>1. OnTheWay(b)' <=> OnTheWay(b)
    BY <1>2, <1>6 DEF OnTheWay
  <2> QED BY <1>4, <2>1, QuietRecord
<1> QED BY <1>5, <1>6

\* A published row's entry is on its way, or was parked or applied.
LEMMA PublishCommitDelivers ==
    ASSUME FeedInv, FeedInv', NEW p \in Publisher, PublishCommit(p) PROVE D!Next
<1>1. /\ pub[p] # None /\ UNCHANGED <<stream, revoked, sts>>
      /\ \A b \in Anchor : outbox'[b] = IF b \in pub[p].claimed THEN PublishedRow(p, b)
                                        ELSE outbox[b]
  BY DEF PublishCommit
<1> SUFFICES ASSUME NEW b \in Anchor \ Owned PROVE DeliveryStep(b)
  BY ByRecord
<1>2. /\ OnTheWay(b)' <=> OnTheWay(b)
      /\ OnDeadLetter(b)' <=> OnDeadLetter(b)
  BY <1>1, SameStream
<1>3. CASE b \notin pub[p].claimed
  BY <1>1, <1>2, <1>3, QuietRecord
<1>4. CASE b \in pub[p].claimed
  <2>1. /\ outbox[b].status = "pending" /\ outbox'[b] = PublishedRow(p, b)
        /\ outbox'[b] \in Row
    BY <1>1, <1>4, PublishedRowFacts DEF FeedInv, ClaimedPending
  <2>2. CASE outbox'[b].status = "pending"
    BY <1>1, <1>2, <2>1, <2>2, QuietRecord
  <2>3. CASE outbox'[b].status = "dead"
    BY <1>1, <1>2, <2>1, <2>3, Mapping, MappingAfter DEF MappingSays, DeliveryStep, D!Park, D!Same
  <2>4. CASE outbox'[b].status = "published"
    <3>1. b \in pub[p].sent
      BY <1>1, <1>4, <2>1, <2>4, PublishedRowFacts
    <3>2. PICK n \in Position : stream[n] = b
      BY <1>1, <3>1 DEF FeedInv, SentOnStream
    <3>3. OnTheWay(b) \/ OnDeadLetter(b) \/ b \in revoked
      BY <3>2 DEF FeedInv, EntriesAccounted, OnTheWay, OnDeadLetter
    <3>4. CASE OnTheWay(b)
      BY <1>1, <1>2, <2>1, <2>4, <3>4, Mapping, MappingAfter
         DEF MappingSays, DeliveryStep, D!Idle, D!Same
    <3>5. CASE ~OnTheWay(b)
      BY <1>1, <1>2, <2>1, <2>4, <3>3, <3>5, Mapping, MappingAfter
         DEF MappingSays, DeliveryStep, D!Settle, D!Same
    <3> QED BY <3>4, <3>5
  <2>5. outbox'[b].status # "none"
    BY <1>1, <1>4, <2>1, PublishedRowFacts
  <2> QED BY <2>1, <2>2, <2>3, <2>4, <2>5 DEF Row
<1> QED BY <1>3, <1>4

LEMMA StsReadDelivers == ASSUME FeedInv, FeedInv', StsRead PROVE D!Next
<1> DEFINE new == (sts.read + 1)..Len(stream)
<1>1. /\ sts'.read = Len(stream) /\ sts'.pel = sts.pel \cup new /\ sts'.dead = sts.dead
      /\ UNCHANGED <<outbox, stream, revoked>>
  BY DEF StsRead, FeedInv, FeedTyped, StsGroup
<1>2. sts.read \in Nat /\ Len(stream) \in Nat /\ sts.read <= Len(stream)
  BY StsFields, Constants DEF FeedInv, FeedTyped, GroupWithinStream
<1>3. \A n \in Position : /\ n \in new <=> n > sts.read
                          /\ ~(n > Len(stream))
  BY <1>2 DEF Position
<1> HIDE DEF new
<1>4. \A a \in Anchor : /\ OnTheWay(a)' <=> OnTheWay(a)
                        /\ OnDeadLetter(a)' <=> OnDeadLetter(a)
  BY <1>1, <1>3 DEF OnTheWay, OnDeadLetter, Position
<1> QED BY <1>1, <1>4, QuietRecord, ByRecord

\* Handled, acknowledged or not.
LEMMA StsHandledDelivers ==
    ASSUME FeedInv, FeedInv', sts.batch # {}, StsHandled, sts'.read = sts.read,
           sts'.dead = sts.dead, sts'.pel \in {sts.pel, sts.pel \ {LeastOf(sts.batch)}},
           UNCHANGED <<outbox, stream>>
    PROVE  D!Next
<1> DEFINE n == LeastOf(sts.batch)
<1> SUFFICES ASSUME NEW b \in Anchor \ Owned PROVE DeliveryStep(b)
  BY ByRecord
<1>1. n \in Position /\ n \in sts.pel
  BY InHand
<1>2. revoked' = revoked \cup ({stream[n]} \ Owned)
  BY DEF StsHandled
<1> HIDE DEF n
<1>3. OnDeadLetter(b)' <=> OnDeadLetter(b)
  BY DEF OnDeadLetter
<1>4. CASE b = stream[n]
  <2>1. OnTheWay(b) /\ b \in revoked'
    BY <1>1, <1>2, <1>4 DEF OnTheWay
  <2> QED BY <1>3, <2>1, Mapping, MappingAfter DEF MappingSays, DeliveryStep, D!Apply, D!Same
<1>5. CASE b # stream[n]
  <2>1. OnTheWay(b)' <=> OnTheWay(b)
    BY <1>5 DEF OnTheWay, Position, n
  <2>2. b \in revoked' <=> b \in revoked
    BY <1>2, <1>5
  <2> QED BY <1>3, <2>1, <2>2, QuietRecord
<1> QED BY <1>4, <1>5

LEMMA HandlerFailsDelivers ==
    ASSUME FeedInv, FeedInv', StsHandlerFails PROVE D!Next
<1> DEFINE n == LeastOf(sts.batch)
<1> SUFFICES ASSUME NEW b \in Anchor \ Owned PROVE DeliveryStep(b)
  BY ByRecord
<1>1. n \in Position /\ n \in sts.pel /\ UNCHANGED <<outbox, stream, revoked>>
  BY InHand DEF StsHandlerFails
<1>2. /\ sts'.read = sts.read
      /\ \/ sts'.pel = sts.pel /\ sts'.dead = sts.dead
         \/ sts'.pel \in {sts.pel, sts.pel \ {n}} /\ sts'.dead = sts.dead \cup {n}
  BY DEF StsHandlerFails, FeedInv, FeedTyped, StsGroup
<1> HIDE DEF n
<1>3. CASE b # stream[n] \/ (sts'.pel = sts.pel /\ sts'.dead = sts.dead)
  <2>1. OnTheWay(b)' <=> OnTheWay(b)
    BY <1>1, <1>2, <1>3 DEF OnTheWay, Position
  <2>2. OnDeadLetter(b)' <=> OnDeadLetter(b)
    BY <1>1, <1>2, <1>3 DEF OnDeadLetter
  <2> QED BY <1>1, <2>1, <2>2, QuietRecord
<1>4. CASE b = stream[n] /\ sts'.dead = sts.dead \cup {n}
  <2>1. OnTheWay(b) /\ OnDeadLetter(b)'
    BY <1>1, <1>4 DEF OnTheWay, OnDeadLetter
  <2> QED BY <1>1, <2>1, Mapping, MappingAfter DEF MappingSays, DeliveryStep, D!Park, D!Same
<1> QED BY <1>2, <1>3, <1>4

LEMMA QuietStep ==
    ASSUME FeedInv, FeedInv', UNCHANGED <<outbox, stream, revoked>>,
           sts'.read = sts.read, sts'.pel = sts.pel, sts'.dead = sts.dead
    PROVE  D!Next
<1>1. \A a \in Anchor : /\ OnTheWay(a)' <=> OnTheWay(a)
                        /\ OnDeadLetter(a)' <=> OnDeadLetter(a)
  BY DEF OnTheWay, OnDeadLetter, Position
<1> QED BY <1>1, QuietRecord, ByRecord

\* Every step of the feed is a step of Delivery for each of its records.
LEMMA StepIsDelivery == FeedInv /\ [Next]_vars => [D!Next]_(D!deliveryVars)
<1> SUFFICES ASSUME FeedInv, [Next]_vars PROVE D!Next
  OBVIOUS
<1>0. FeedInv' /\ FeedTyped
  BY NextKeepsFeed DEF FeedInv
<1>1. ASSUME NEW a \in Anchor, Commit(a) \/ Expire(a) \/ Requeue(a) PROVE D!Next
  BY <1>0, <1>1, CommitDelivers, RequeueDelivers DEF Commit, Expire
<1>2. ASSUME NEW p \in Publisher, NEW B \in SUBSET Anchor, Claim(p, B) PROVE D!Next
  BY <1>0, <1>2, QuietStep DEF Claim
<1>3. ASSUME NEW p \in Publisher, NEW a \in Anchor, Xadd(p, a) PROVE D!Next
  BY <1>0, <1>3, AddDelivers DEF Xadd
<1>4. ASSUME NEW p \in Publisher, NEW a \in Anchor, XaddFails(p, a) PROVE D!Next
  BY <1>0, <1>4, AddDelivers, QuietStep DEF XaddFails
<1>5. ASSUME NEW p \in Publisher, PublishCommit(p) PROVE D!Next
  BY <1>0, <1>5, PublishCommitDelivers
<1>6. ASSUME NEW p \in Publisher, PublishRollback(p) PROVE D!Next
  BY <1>0, <1>6, QuietStep DEF PublishRollback
<1>7. CASE StsRead
  BY <1>0, <1>7, StsReadDelivers
<1>8. CASE StsProcess \/ StsAckFails
  <2>1. /\ sts.batch # {} /\ StsHandled /\ sts'.read = sts.read /\ sts'.dead = sts.dead
        /\ sts'.pel \in {sts.pel, sts.pel \ {LeastOf(sts.batch)}}
        /\ UNCHANGED <<outbox, stream>>
    BY <1>0, <1>8 DEF StsProcess, StsAckFails, FeedTyped, StsGroup
  <2> QED BY <1>0, <2>1, StsHandledDelivers
<1>9. CASE StsHandlerFails
  BY <1>0, <1>9, HandlerFailsDelivers
<1>10. CASE StsRestart
  <2>1. /\ sts'.read = sts.read /\ sts'.pel = sts.pel /\ sts'.dead = sts.dead
        /\ UNCHANGED <<outbox, stream, revoked>>
    BY <1>0, <1>10 DEF StsRestart, FeedTyped, StsGroup
  <2> QED BY <1>0, <2>1, QuietStep
<1>11. CASE GatewayStep
  BY <1>0, <1>11, GatewayLeavesFeed, QuietStep
<1>12. CASE UNCHANGED vars
  BY <1>0, <1>12, QuietStep DEF vars
<1> QED BY <1>1, <1>2, <1>3, <1>4, <1>5, <1>6, <1>7, <1>8, <1>9, <1>10, <1>11, <1>12
        DEF Next, GatewayStep

\* Outbox, publishers, stream and consumer together implement Delivery: the
\* revocation of a record is neither lost nor made up, whatever dies between
\* any two steps.
THEOREM DeliveryTheorem == Spec => NoRevocationLost
<1>1. Init => D!Init
  <2> SUFFICES ASSUME Init PROVE D!Init
    OBVIOUS
  <2>1. /\ \A a \in Anchor : outbox[a].status = "none"
        /\ revoked = {} /\ Len(stream) = 0 /\ Position = {}
        /\ sts.pel = {} /\ sts.dead = {}
    BY DEF Init, Position
  <2>2. MappingSays
    BY InitFeed, Mapping
  <2>3. Committed = {} /\ Owed = {} /\ Parked = {}
    BY <2>1, <2>2 DEF MappingSays, OnTheWay, OnDeadLetter
  <2> QED BY <2>1, <2>3 DEF D!Init
<1>2. Spec => []FeedInv
  BY FeedInvariant
<1> QED BY <1>1, <1>2, StepIsDelivery, PTL DEF Spec, NoRevocationLost, D!Spec

-----------------------------------------------------------------------------
(* The gateway *)

\* The anchors every snapshot shows once a transaction has ended them.
Shown == Owned \ expired

HasRows(o) == gw.reload[o] # None /\ gw.reload[o].rows # None

\* A gateway that serves has a place in the stream, and works on its entries.
GwWithinStream ==
    /\ gw.read \in 0..Len(stream) \/ (~gw.up /\ gw.read = None)
    /\ gw.pel \subseteq Position /\ gw.batch \subseteq Position

\* What it refuses, and what a snapshot says, a transaction has ended.
MarksCommitted == gw.marks \cap Owned \subseteq Committed

RowsCommitted ==
    \A o \in Reloader : HasRows(o) => gw.reload[o].rows \cap Owned \subseteq Committed

\* A snapshot that is to replace the cache has all that the cache has, unless
\* another one was applied since it was read.
SnapshotCovers ==
    \A o \in Reloader :
        HasRows(o) /\ gw.reload[o].current = TRUE /\ gw.reload[o].overtaken = FALSE =>
            gw.marks \cap Shown \subseteq gw.reload[o].rows

GwInv ==
    /\ gw \in Gateway
    /\ GwWithinStream
    /\ MarksCommitted
    /\ RowsCommitted
    /\ SnapshotCovers

ReloadState ==
    {None} \cup [current : BOOLEAN, overtaken : BOOLEAN, rows : {None} \cup SUBSET Anchor]

Keeps == gw.up /\ gw'.up /\ ~AppliesOvertaken => gw.marks \cap Shown \subseteq gw'.marks

LEMMA GwFields ==
    ASSUME gw \in Gateway
    PROVE  /\ gw.pel \subseteq Entry /\ gw.batch \subseteq Entry /\ gw.marks \subseteq Anchor
           /\ gw.reload \in [Reloader -> ReloadState]
           /\ gw.read \in (0..MaxStream) \cup {None}
BY DEF Gateway, ReloadState

LEMMA ReloadFields ==
    ASSUME NEW s \in ReloadState, s # None
    PROVE  /\ s.current \in BOOLEAN /\ s.overtaken \in BOOLEAN
           /\ s.rows # None => s.rows \subseteq Anchor
BY DEF ReloadState

LEMMA BootFacts ==
    /\ Boot \in Gateway /\ Boot.up = FALSE /\ Boot.marks = {} /\ Boot.pel = {}
    /\ Boot.batch = {} /\ Boot.read = None
    /\ \A o \in Reloader : Boot.reload[o] # None => Boot.reload[o].rows = None
BY DEF Boot, BeginReload, Gateway

\* Nothing on the stream or among the committed anchors goes away.
LEMMA FeedGrows ==
    ASSUME FeedInv, [Next]_vars
    PROVE  /\ Committed \subseteq Committed' /\ Position \subseteq Position'
           /\ Len(stream) \in Nat /\ Len(stream') \in Nat /\ Len(stream) <= Len(stream')
           /\ UNCHANGED gw \/ (GatewayStep /\ UNCHANGED <<outbox, expired, stream>>)
           /\ expired \subseteq expired'
<1>0. FeedInv' /\ FeedTyped
  BY NextKeepsFeed DEF FeedInv
<1>1. Committed \subseteq Committed'
  <2>1. ASSUME NEW a \in Anchor, Commit(a) \/ Expire(a) \/ Requeue(a)
        PROVE  Committed \subseteq Committed'
    BY <1>0, <2>1 DEF Commit, Expire, Announce, Requeue, Committed, FeedTyped, Row
  <2>2. ASSUME NEW p \in Publisher, PublishCommit(p) PROVE Committed \subseteq Committed'
    <3>1. pub[p] # None
      BY <2>2 DEF PublishCommit
    <3>2. \A b \in Anchor : outbox'[b] = IF b \in pub[p].claimed THEN PublishedRow(p, b)
                                         ELSE outbox[b]
      BY <2>2 DEF PublishCommit
    <3> QED BY <3>1, <3>2, PublishedRowFacts DEF Committed
  <2>3. ASSUME UNCHANGED outbox PROVE Committed \subseteq Committed'
    BY <2>3 DEF Committed
  <2> QED BY <1>0, <2>1, <2>2, <2>3, GatewayLeavesFeed
          DEF Next, GatewayStep, vars, Claim, Xadd, XaddFails, PublishRollback,
              StsRead, StsProcess, StsAckFails, StsHandlerFails, StsRestart
<1>2. UNCHANGED stream \/ \E a \in Anchor : stream' = Append(stream, a)
  BY <1>0, GatewayLeavesFeed
     DEF Next, GatewayStep, vars, Commit, Expire, Announce, Requeue, Claim, Xadd, XaddFails, PublishCommit,
         PublishRollback, StsRead, StsProcess, StsAckFails, StsHandlerFails, StsRestart
<1>3. /\ Position \subseteq Position' /\ Len(stream) \in Nat /\ Len(stream') \in Nat
      /\ Len(stream) <= Len(stream')
  BY <1>0, <1>2, AppendFacts DEF FeedTyped, Position
<1>4. /\ UNCHANGED gw \/ (GatewayStep /\ UNCHANGED <<outbox, expired, stream>>)
      /\ expired \subseteq expired'
  BY <1>0, GatewayLeavesFeed
     DEF Next, GatewayStep, vars, Commit, Expire, Announce, Requeue, Claim, Xadd, XaddFails, PublishCommit,
         PublishRollback, StsRead, StsProcess, StsAckFails, StsHandlerFails, StsRestart
<1> QED BY <1>1, <1>3, <1>4

LEMMA InitGw == Init => GwInv
BY BootFacts DEF Init, GwInv, GwWithinStream, MarksCommitted, RowsCommitted,
                 SnapshotCovers, HasRows

\* What a step of the gateway has to establish.
LEMMA GwStep ==
    ASSUME GwInv, UNCHANGED <<outbox, expired, stream>>, gw' \in Gateway,
           gw'.read \in 0..Len(stream) \/ (~gw'.up /\ gw'.read = None),
           gw'.pel \subseteq Position, gw'.batch \subseteq Position,
           gw'.marks \cap Owned \subseteq Committed,
           \A o \in Reloader : gw'.reload[o] # None /\ gw'.reload[o].rows # None =>
              /\ gw'.reload[o].rows \cap Owned \subseteq Committed
              /\ gw'.reload[o].current = TRUE /\ gw'.reload[o].overtaken = FALSE =>
                    gw'.marks \cap Shown \subseteq gw'.reload[o].rows
    PROVE  GwInv'
<1>1. Position' = Position /\ Committed' = Committed /\ Shown' = Shown
  BY DEF Position, Committed, Shown
<1>2. GwWithinStream'
  BY <1>1 DEF GwWithinStream
<1>3. MarksCommitted'
  BY <1>1 DEF MarksCommitted
<1>4. RowsCommitted'
  BY <1>1 DEF RowsCommitted, HasRows
<1>5. SnapshotCovers'
  BY <1>1 DEF SnapshotCovers, HasRows
<1> QED BY <1>2, <1>3, <1>4, <1>5 DEF GwInv

\* A reload moves on; the rest of the gateway stays.
LEMMA ReloadStep ==
    ASSUME GwInv, UNCHANGED <<outbox, expired, stream>>, NEW o \in Reloader, NEW s \in ReloadState,
           gw' = [gw EXCEPT !.reload = [gw.reload EXCEPT ![o] = s]],
           s # None /\ s.rows # None =>
              s.rows \cap Owned \subseteq Committed /\ gw.marks \cap Shown \subseteq s.rows
    PROVE  GwInv' /\ Keeps
<1>1. gw \in Gateway /\ gw.reload \in [Reloader -> ReloadState]
  BY GwFields DEF GwInv
<1> DEFINE f == [gw.reload EXCEPT ![o] = s]
<1>2. /\ f \in [Reloader -> ReloadState] /\ f[o] = s
      /\ \A r \in Reloader : r # o => f[r] = gw.reload[r]
  BY <1>1
<1>3. gw' = [gw EXCEPT !.reload = f]
  OBVIOUS
<1> HIDE DEF f
<1>4. /\ gw' \in Gateway /\ gw'.reload = f /\ gw'.up = gw.up /\ gw'.read = gw.read
      /\ gw'.pel = gw.pel /\ gw'.batch = gw.batch /\ gw'.marks = gw.marks
  BY <1>1, <1>2, <1>3 DEF Gateway, ReloadState
<1>5. Keeps
  BY <1>4 DEF Keeps
<1>6. ASSUME NEW r \in Reloader, f[r] # None, f[r].rows # None
      PROVE  /\ f[r].rows \cap Owned \subseteq Committed
             /\ f[r].current = TRUE /\ f[r].overtaken = FALSE =>
                    gw.marks \cap Shown \subseteq f[r].rows
  <2>1. CASE r = o
    BY <1>2, <1>6, <2>1
  <2>2. CASE r # o
    BY <1>2, <1>6, <2>2 DEF GwInv, RowsCommitted, SnapshotCovers, HasRows
  <2> QED BY <2>1, <2>2
<1> QED BY <1>4, <1>5, <1>6, GwStep DEF GwInv, GwWithinStream, MarksCommitted

LEMMA ReloadKeeps ==
    ASSUME FeedInv, GwInv, NEW o \in Reloader, GwReload(o) \/ GwQuery(o) \/ GwQueryFails(o)
    PROVE  GwInv' /\ Keeps
<1>1. gw \in Gateway /\ gw.reload \in [Reloader -> ReloadState]
  BY GwFields DEF GwInv
<1>2. BeginReload \in ReloadState /\ BeginReload.rows = None
  BY DEF BeginReload, ReloadState
<1>3. CASE GwReload(o)
  BY <1>1, <1>2, <1>3, ReloadStep DEF GwReload
<1>4. CASE GwQueryFails(o)
  <2> DEFINE s == IF gw.up THEN None ELSE BeginReload
  <2>1. s \in ReloadState /\ (s # None => s.rows = None)
    BY <1>2 DEF ReloadState
  <2>2. /\ gw' = [gw EXCEPT !.reload = [gw.reload EXCEPT ![o] = s]]
        /\ UNCHANGED <<outbox, expired, stream>>
    BY <1>4 DEF GwQueryFails
  <2> HIDE DEF s
  <2> QED BY <2>1, <2>2, ReloadStep
<1>5. CASE GwQuery(o)
  <2> DEFINE s == [gw.reload[o] EXCEPT !.rows = Durable]
  <2>1. gw.reload[o] \in ReloadState /\ gw.reload[o] # None
    BY <1>1, <1>5 DEF GwQuery
  <2>2. Durable \in SUBSET Anchor
    BY Constants DEF Durable, Committed, FeedInv, FeedTyped
  <2>3. s \in ReloadState /\ s.rows = Durable
    BY <2>1, <2>2 DEF ReloadState
  <2>4. Durable \cap Owned \subseteq Committed /\ Shown \cap Committed \subseteq Durable
    BY DEF Durable, Shown, FeedInv, FeedTyped
  <2>5. gw.marks \cap Shown \subseteq Durable
    BY <2>4 DEF GwInv, MarksCommitted, Shown
  <2>6. /\ gw' = [gw EXCEPT !.reload = [gw.reload EXCEPT ![o] = s]]
        /\ UNCHANGED <<outbox, expired, stream>>
    BY <1>1, <1>5 DEF GwQuery
  <2> HIDE DEF s
  <2> QED BY <2>3, <2>4, <2>5, <2>6, ReloadStep
<1> QED BY <1>3, <1>4, <1>5

\* A reload ends, and the others that have their rows are overtaken.
LEMMA OvertakenFacts ==
    ASSUME GwInv, NEW o \in Reloader
    PROVE  /\ Overtaken(o) \in [Reloader -> ReloadState] /\ Overtaken(o)[o] = None
           /\ \A q \in Reloader :
                 Overtaken(o)[q] # None /\ Overtaken(o)[q].rows # None =>
                    /\ HasRows(q) /\ Overtaken(o)[q].rows = gw.reload[q].rows
                    /\ Overtaken(o)[q].overtaken = TRUE
<1> DEFINE f == Overtaken(o)
<1>1. gw.reload \in [Reloader -> ReloadState]
  BY GwFields DEF GwInv
<1>2. f[o] = None
  BY DEF Overtaken
<1>3. ASSUME NEW q \in Reloader
      PROVE  /\ f[q] \in ReloadState
             /\ f[q] # None /\ f[q].rows # None =>
                   /\ HasRows(q) /\ f[q].rows = gw.reload[q].rows
                   /\ f[q].overtaken = TRUE
  <2>1. gw.reload[q] \in ReloadState
    BY <1>1
  <2>2. f[q] = IF q = o THEN None
               ELSE IF gw.reload[q] = None \/ gw.reload[q].rows = None THEN gw.reload[q]
               ELSE [gw.reload[q] EXCEPT !.overtaken = TRUE]
    BY DEF Overtaken
  <2> HIDE DEF f
  <2>3. CASE q = o
    BY <2>2, <2>3 DEF ReloadState
  <2>4. CASE q # o /\ (gw.reload[q] = None \/ gw.reload[q].rows = None)
    BY <2>1, <2>2, <2>4
  <2>5. CASE q # o /\ gw.reload[q] # None /\ gw.reload[q].rows # None
    <3>1. f[q] = [gw.reload[q] EXCEPT !.overtaken = TRUE]
      BY <2>2, <2>5
    <3> QED BY <2>1, <2>5, <3>1 DEF ReloadState, HasRows
  <2> QED BY <2>3, <2>4, <2>5
<1>4. f \in [Reloader -> ReloadState]
  BY <1>3 DEF Overtaken
<1> QED BY <1>2, <1>3, <1>4

\* The snapshot is applied: it replaces the cache if it is current, and then it
\* has all of it or another snapshot has overtaken it.
LEMMA ApplyKeeps ==
    ASSUME FeedInv, GwInv, NEW o \in Reloader, GwApply(o)
    PROVE  GwInv' /\ Keeps
<1> DEFINE read == IF gw.read = None THEN Len(stream) ELSE gw.read
<1>1. /\ gw \in Gateway /\ gw.reload \in [Reloader -> ReloadState]
      /\ gw.read \in (0..MaxStream) \cup {None} /\ gw.batch \subseteq Entry
      /\ gw.pel \subseteq Entry /\ gw.marks \subseteq Anchor
  BY GwFields DEF GwInv
<1>2. HasRows(o) /\ UNCHANGED <<outbox, expired, stream>>
  BY DEF GwApply, HasRows
<1>3. PICK f : f = Overtaken(o)
  OBVIOUS
<1>4. /\ f \in [Reloader -> ReloadState] /\ f[o] = None
      /\ \A q \in Reloader :
            f[q] # None /\ f[q].rows # None =>
               /\ HasRows(q) /\ f[q].rows = gw.reload[q].rows /\ f[q].overtaken = TRUE
  BY <1>3, OvertakenFacts
<1>5. /\ gw.reload[o].rows \subseteq Anchor
      /\ gw.reload[o].current \in BOOLEAN /\ gw.reload[o].overtaken \in BOOLEAN
  BY <1>1, <1>2, ReloadFields DEF HasRows
<1>6. /\ SnapshotMarks(o) \subseteq Anchor /\ SnapshotMarks(o) \cap Owned \subseteq Committed
      /\ gw.reload[o].overtaken = FALSE => gw.marks \cap Shown \subseteq SnapshotMarks(o)
  <2>1. gw.reload[o].rows \cap Owned \subseteq Committed
    BY <1>2 DEF GwInv, RowsCommitted
  <2>2. CASE gw.reload[o].current = TRUE
    <3>1. SnapshotMarks(o) = gw.reload[o].rows
      BY <2>2 DEF SnapshotMarks
    <3> QED BY <1>2, <1>5, <2>1, <2>2, <3>1 DEF GwInv, SnapshotCovers
  <2>3. CASE gw.reload[o].current = FALSE
    <3>1. SnapshotMarks(o) = gw.reload[o].rows \cup gw.marks
      BY <2>3 DEF SnapshotMarks
    <3> QED BY <1>1, <1>5, <2>1, <3>1 DEF GwInv, MarksCommitted
  <2> QED BY <1>5, <2>2, <2>3
<1>7. Len(stream) \in 0..MaxStream /\ Len(stream) \in Nat
  BY Constants DEF FeedInv, FeedTyped
<1>8. read \in 0..Len(stream) /\ read \in 0..MaxStream
  BY <1>1, <1>7 DEF GwInv, GwWithinStream
<1>9. PICK batch \in IF gw.up THEN {gw.batch} ELSE SUBSET gw.pel :
         gw' = [gw EXCEPT !.marks = SnapshotMarks(o), !.reload = f, !.up = TRUE,
                          !.read = read, !.batch = batch]
  BY <1>1, <1>3 DEF GwApply
<1>10. batch \subseteq Position /\ gw.pel \subseteq Position /\ batch \subseteq Entry
  BY <1>1 DEF GwInv, GwWithinStream
<1> HIDE DEF read
<1>11. /\ gw' \in Gateway /\ gw'.reload = f /\ gw'.read = read
       /\ gw'.pel = gw.pel /\ gw'.batch = batch /\ gw'.marks = SnapshotMarks(o)
  BY <1>1, <1>4, <1>6, <1>8, <1>9, <1>10 DEF Gateway, ReloadState
<1>12. ~AppliesOvertaken => gw.reload[o].overtaken = FALSE
  BY <1>2, <1>4, <1>5, <1>11, Zenon DEF AppliesOvertaken, HasRows
<1>13. Keeps
  BY <1>6, <1>11, <1>12 DEF Keeps
<1>14. ASSUME NEW q \in Reloader, f[q] # None, f[q].rows # None
       PROVE  /\ f[q].rows \cap Owned \subseteq Committed
              /\ f[q].current = TRUE /\ f[q].overtaken = FALSE =>
                     gw'.marks \cap Shown \subseteq f[q].rows
  BY <1>4, <1>14 DEF GwInv, RowsCommitted
<1> QED BY <1>2, <1>6, <1>7, <1>8, <1>10, <1>11, <1>13, <1>14, GwStep

LEMMA GwInHand ==
    ASSUME FeedInv, GwInv, gw.batch # {}
    PROVE  /\ LeastOf(gw.batch) \in Position /\ stream[LeastOf(gw.batch)] \in Anchor
           /\ stream[LeastOf(gw.batch)] \in Committed
<1>1. gw.batch \subseteq Entry /\ gw.batch \subseteq Position
  BY GwFields DEF GwInv, GwWithinStream
<1>2. gw.batch \in SUBSET Nat
  BY <1>1, Constants DEF Entry
<1>3. LeastOf(gw.batch) \in Position
  BY <1>1, <1>2, LeastIsMember
<1>4. stream[LeastOf(gw.batch)] \in Anchor
  BY <1>3 DEF FeedInv, FeedTyped, Position
<1> QED BY <1>3, <1>4 DEF FeedInv, StreamCommitted, Committed

\* A message of the stream: the reloads under way are no longer current.
LEMMA MarkKeeps ==
    ASSUME FeedInv, GwInv, GwProcess \/ GwAckFails
    PROVE  GwInv' /\ Keeps
<1> DEFINE n == LeastOf(gw.batch)
           marks == gw.marks \cup {stream[n]}
           f == [o \in Reloader |-> IF gw.reload[o] = None THEN None
                                    ELSE [gw.reload[o] EXCEPT !.current = FALSE]]
<1>1. /\ gw \in Gateway /\ gw.reload \in [Reloader -> ReloadState]
      /\ gw.batch \subseteq Entry /\ gw.pel \subseteq Entry /\ gw.marks \subseteq Anchor
  BY GwFields DEF GwInv
<1>2. n \in Position /\ stream[n] \in Anchor /\ stream[n] \in Committed
  BY GwInHand DEF GwProcess, GwAckFails
<1>3. UNCHANGED <<outbox, expired, stream>>
  BY DEF GwProcess, GwAckFails
<1>4. ASSUME NEW o \in Reloader
      PROVE  /\ f[o] \in ReloadState /\ (f[o] # None => gw.reload[o] # None)
             /\ f[o] # None => f[o].current = FALSE /\ f[o].rows = gw.reload[o].rows
  <2>1. gw.reload[o] \in ReloadState
    BY <1>1
  <2>2. f[o] = IF gw.reload[o] = None THEN None
               ELSE [gw.reload[o] EXCEPT !.current = FALSE]
    OBVIOUS
  <2> HIDE DEF f
  <2>3. CASE gw.reload[o] = None
    BY <2>2, <2>3 DEF ReloadState
  <2>4. CASE gw.reload[o] # None
    <3>1. f[o] = [gw.reload[o] EXCEPT !.current = FALSE]
      BY <2>2, <2>4
    <3> QED BY <2>1, <2>4, <3>1 DEF ReloadState
  <2> QED BY <2>3, <2>4
<1>5. f \in [Reloader -> ReloadState]
  BY <1>4
<1>6. marks \subseteq Anchor /\ marks \cap Owned \subseteq Committed /\ gw.marks \subseteq marks
  BY <1>1, <1>2 DEF GwInv, MarksCommitted
<1>7. Marked(n) = [gw EXCEPT !.marks = marks, !.batch = gw.batch \ {n}, !.reload = f]
  BY <1>1 DEF Marked
<1>8. \/ gw' = [gw EXCEPT !.marks = marks, !.batch = gw.batch \ {n}, !.reload = f]
      \/ gw' = [gw EXCEPT !.marks = marks, !.batch = gw.batch \ {n}, !.reload = f,
                          !.pel = gw.pel \ {n}]
  <2> HIDE DEF marks, f
  <2> QED BY <1>1, <1>7 DEF GwProcess, GwAckFails, Gateway
<1> HIDE DEF n, marks, f
<1>9. /\ gw' \in Gateway /\ gw'.reload = f /\ gw'.up = gw.up /\ gw'.read = gw.read
      /\ gw'.pel \subseteq gw.pel /\ gw'.batch = gw.batch \ {n} /\ gw'.marks = marks
  BY <1>1, <1>5, <1>6, <1>8 DEF Gateway, ReloadState
<1>10. Keeps
  BY <1>6, <1>9 DEF Keeps
<1>11. ASSUME NEW o \in Reloader, f[o] # None, f[o].rows # None
       PROVE  /\ f[o].rows \cap Owned \subseteq Committed
              /\ f[o].current = TRUE /\ f[o].overtaken = FALSE =>
                     marks \cap Shown \subseteq f[o].rows
  BY <1>4, <1>11 DEF GwInv, RowsCommitted, HasRows
<1>12. /\ gw.read \in 0..Len(stream) \/ (~gw.up /\ gw.read = None)
       /\ gw.pel \subseteq Position /\ gw.batch \subseteq Position
  BY DEF GwInv, GwWithinStream
<1> QED BY <1>3, <1>6, <1>9, <1>10, <1>11, <1>12, GwStep

\* The group's own steps leave the cache and its reloads alone.
LEMMA GwGroupKeeps ==
    ASSUME FeedInv, GwInv, GwRead \/ GwReap PROVE GwInv' /\ Keeps
<1>1. /\ gw \in Gateway /\ gw.batch \subseteq Entry /\ gw.pel \subseteq Entry
  BY GwFields DEF GwInv
<1>2. /\ gw.read \in 0..Len(stream) /\ gw.pel \subseteq Position
      /\ UNCHANGED <<outbox, expired, stream>> /\ Len(stream) \in 0..MaxStream /\ Len(stream) \in Nat
  BY Constants DEF GwInv, GwWithinStream, GwRead, GwReap, FeedInv, FeedTyped
<1> DEFINE new == (gw.read + 1)..Len(stream)
<1>3. new \subseteq Position /\ Position \subseteq Entry
  BY <1>2, Constants DEF Position, Entry
<1>4. \/ gw' = [gw EXCEPT !.read = Len(stream), !.pel = gw.pel \cup new, !.batch = new]
      \/ \E idle \in SUBSET gw.pel : gw' = [gw EXCEPT !.batch = gw.batch \cup idle]
  BY <1>1 DEF GwRead, GwReap
<1> HIDE DEF new
<1>5. /\ gw' \in Gateway /\ gw'.reload = gw.reload /\ gw'.marks = gw.marks
      /\ gw'.up = gw.up /\ gw'.read \in 0..Len(stream)
      /\ gw'.pel \subseteq Position /\ gw'.batch \subseteq Position
  <2>0. new \subseteq Entry /\ gw.pel \cup new \subseteq Position /\ gw.pel \cup new \subseteq Entry
        /\ Len(stream) \in 0..Len(stream)
    BY <1>1, <1>2, <1>3
  <2>1. CASE gw' = [gw EXCEPT !.read = Len(stream), !.pel = gw.pel \cup new, !.batch = new]
    <3>1. gw' \in Gateway
      BY <1>1, <1>2, <2>0, <2>1 DEF Gateway
    <3>2. /\ gw'.reload = gw.reload /\ gw'.marks = gw.marks /\ gw'.up = gw.up
          /\ gw'.read = Len(stream) /\ gw'.pel = gw.pel \cup new /\ gw'.batch = new
      BY <1>1, <2>1 DEF Gateway
    <3> QED BY <1>3, <2>0, <3>1, <3>2
  <2>2. CASE \E idle \in SUBSET gw.pel : gw' = [gw EXCEPT !.batch = gw.batch \cup idle]
    <3>1. PICK batch : /\ batch \subseteq Entry /\ batch \subseteq Position
                       /\ gw' = [gw EXCEPT !.batch = batch]
      BY <1>1, <1>2, <2>2 DEF GwInv, GwWithinStream
    <3> QED BY <1>1, <1>2, <3>1 DEF Gateway
  <2> QED BY <1>4, <2>1, <2>2
<1>6. Keeps
  BY <1>5 DEF Keeps
<1> QED BY <1>2, <1>5, <1>6, GwStep DEF GwInv, MarksCommitted, RowsCommitted,
                                        SnapshotCovers, HasRows

LEMMA GwCrashKeeps == ASSUME FeedInv, GwInv, GwCrash PROVE GwInv' /\ Keeps
<1>1. /\ gw \in Gateway /\ gw.pel \subseteq Entry /\ gw.read \in (0..MaxStream) \cup {None}
  BY GwFields DEF GwInv
<1>2. /\ gw.read \in 0..Len(stream) \/ gw.read = None
      /\ gw.pel \subseteq Position /\ UNCHANGED <<outbox, expired, stream>>
  BY DEF GwInv, GwWithinStream, GwCrash
<1>3. gw' = Boot \/ gw' = [Boot EXCEPT !.read = gw.read, !.pel = gw.pel]
  BY DEF GwCrash
<1>4. /\ gw' \in Gateway /\ gw'.up = FALSE /\ gw'.marks = {} /\ gw'.batch = {}
      /\ gw'.read \in {gw.read, None} /\ gw'.pel \in {gw.pel, {}}
      /\ gw'.reload = Boot.reload
  BY <1>1, <1>3, BootFacts DEF Gateway
<1>5. Keeps
  BY <1>4 DEF Keeps
<1> QED BY <1>2, <1>4, <1>5, BootFacts, GwStep

LEMMA GwElsewhere ==
    ASSUME GwInv, UNCHANGED gw, expired \subseteq expired', Committed \subseteq Committed', Position \subseteq Position',
           Len(stream) \in Nat, Len(stream') \in Nat, Len(stream) <= Len(stream')
    PROVE  GwInv' /\ Keeps
<1>1. GwWithinStream'
  BY DEF GwInv, GwWithinStream
<1>2. MarksCommitted' /\ RowsCommitted' /\ SnapshotCovers'
  BY DEF GwInv, MarksCommitted, RowsCommitted, SnapshotCovers, HasRows, Shown
<1> QED BY <1>1, <1>2 DEF GwInv, Keeps

LEMMA NextKeepsGw == FeedInv /\ GwInv /\ [Next]_vars => GwInv' /\ Keeps
<1> SUFFICES ASSUME FeedInv, GwInv, [Next]_vars PROVE GwInv' /\ Keeps
  OBVIOUS
<1>1. CASE UNCHANGED gw
  BY <1>1, FeedGrows, GwElsewhere
<1>2. CASE GatewayStep
  BY <1>2, ReloadKeeps, ApplyKeeps, MarkKeeps, GwGroupKeeps, GwCrashKeeps DEF GatewayStep
<1> QED BY <1>1, <1>2, FeedGrows

\* A running gateway that refuses a session or edge whose end its SELECTs show
\* goes on refusing it, however many reloads run at once and whatever sessions
\* the TTL sweeper ends, until it applies a snapshot that another one has
\* overtaken: a snapshot replaces the cache only if the stream has marked
\* nothing since the reload began, and if no other snapshot was applied since
\* its SELECTs, everything in the cache was in the database before them.
THEOREM KeepsRefusingTheorem == Spec => GatewayKeepsRefusing
<1>1. Init => GwInv
  BY InitGw
<1>2. FeedInv /\ GwInv /\ [Next]_vars => GwInv' /\ Keeps
  BY NextKeepsGw
<1>3. Keeps => [gw.up /\ gw'.up /\ ~AppliesOvertaken =>
                   gw.marks \cap (Owned \ expired) \subseteq gw'.marks]_vars
  BY DEF Keeps, Shown
<1> QED BY <1>1, <1>2, <1>3, FeedInvariant, PTL DEF Spec, GatewayKeepsRefusing
=============================================================================
