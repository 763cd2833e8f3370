------------------------- MODULE CoordinatorProofs --------------------------
(***************************************************************************)
(* Proofs about Coordinator for any number of sessions, edges, records and *)
(* any configuration. The tree: the safety invariants rest on one fact     *)
(* about the recursive queries, that what Subtree returns is closed under  *)
(* live children (SubtreeClosed). Every step is one of three kinds: it     *)
(* leaves the set of live sessions alone (Quiet), it ends a closed set of  *)
(* them (Ending), or it adds or deletes rows. The live graph: every step   *)
(* thins it (Thinning) or creates one edge (Growing), or prunes a session  *)
(* that a chain passes through (PrunesChain). A new edge closes no cycle   *)
(* that the walk from its target would have gone round.                    *)
(***************************************************************************)
EXTENDS Coordinator, FiniteSetTheorems, WellFoundedInduction, TLAPS

-----------------------------------------------------------------------------
(* Type correctness *)

LEMMA InitTypeOK == Init => TypeOK
<1> SUFFICES ASSUME Init PROVE TypeOK
  OBVIOUS
<1>1. NoSession("absent") \in SessionRow
  BY MaxDepthAssumption DEF NoSession, SessionRow
<1>2. NoGrant \in Grant
  BY MaxDepthAssumption DEF NoGrant, Grant
<1>3. NoEdge("absent") \in EdgeRow
  BY <1>2 DEF NoEdge, EdgeRow
<1> QED BY <1>1, <1>3, ConfigAssumption DEF Init, TypeOK

LEMMA SuspendTyped ==
    ASSUME TypeOK, NEW roots, SuspendSubtree(roots)
    PROVE  TypeOK'
BY DEF TypeOK, SuspendSubtree, SessionRow, RevokedSubjects, Subjects

\* The sessions UPDATE of terminateSubtree keeps every column's type.
LEMMA SessionsTerminatedTyped ==
    ASSUME TypeOK, NEW gone \in SUBSET Session, NEW roots, NEW st \in {"terminated", "expired"}
    PROVE  SessionsTerminated(gone, roots, st) \in [Session -> SessionRow]
<1> SUFFICES ASSUME NEW s \in Session
             PROVE  SessionsTerminated(gone, roots, st)[s] \in SessionRow
  BY DEF SessionsTerminated
<1> DEFINE dec == Cardinality({c \in gone : session[c].parent = s})
<1>1. now \in Nat /\ session[s] \in SessionRow
  BY ConfigAssumption DEF TypeOK
<1>2. CASE s \in gone
  BY <1>1, <1>2 DEF SessionsTerminated, SessionRow
<1>3. CASE s \notin gone
  <2>1. IsFiniteSet({c \in gone : session[c].parent = s})
    BY FiniteAssumption, FS_Subset
  <2>2. dec \in Nat
    BY <2>1, FS_CardinalityType
  <2>3. SessionsTerminated(gone, roots, st)[s] =
            [session[s] EXCEPT !.children = IF @ > dec THEN @ - dec ELSE 0]
    BY <1>3 DEF SessionsTerminated
  <2> HIDE DEF dec
  <2> QED BY <1>1, <2>2, <2>3 DEF SessionRow
<1> QED BY <1>2, <1>3

LEMMA EdgesRevokedTyped ==
    ASSUME TypeOK, NEW cut
    PROVE  EdgesRevoked(cut) \in [Edge -> EdgeRow]
<1>1. now \in Nat
  BY ConfigAssumption DEF TypeOK
<1> QED BY <1>1 DEF TypeOK, EdgesRevoked, EdgeRow

LEMMA TerminateTyped ==
    ASSUME TypeOK, NEW roots, NEW st \in {"terminated", "expired"},
           TerminateSubtree(roots, st)
    PROVE  TypeOK'
<1>1. Subtree(roots, Live) \in SUBSET Session
  BY DEF Subtree, Live, With
<1>2. session' \in [Session -> SessionRow]
  BY <1>1, SessionsTerminatedTyped DEF TerminateSubtree
<1>3. edge' \in [Edge -> EdgeRow]
  BY EdgesRevokedTyped DEF TerminateSubtree
<1>4. epoch' \in Nat /\ feed' \subseteq Record /\ now' = now /\ record' = record
  BY DEF TerminateSubtree, TypeOK, RevokedSubjects, Subjects
<1> QED BY <1>2, <1>3, <1>4 DEF TypeOK

LEMMA StartTyped ==
    ASSUME TypeOK, NEW s \in Session, NEW p \in Session \cup {None},
           NEW a \in Application, NEW r \in Record, NEW l \in Lifecycles,
           NEW ttl \in TTLs, StartAllowed(p, a, r, l)
    PROVE  SessionsStarted(s, p, a, r, l, ttl) \in [Session -> SessionRow]
<1> DEFINE depth == IF p = None THEN 0 ELSE session[p].depth + 1
           wait  == IF l = "service" THEN Lease ELSE ttl
<1>1. now \in Nat /\ wait \in Nat /\ l \in {"task", "service"}
  BY ConfigAssumption DEF TypeOK
<1>2. depth \in 0..MAX_DEPTH
  BY MaxDepthAssumption, IdAssumption DEF TypeOK, SessionRow, StartAllowed
<1> HIDE DEF depth, wait
<1>3. [status |-> "active", parent |-> p, app |-> a, subject |-> r,
       lifecycle |-> l, depth |-> depth, children |-> 0,
       deadline |-> now + wait, ended |-> 0] \in SessionRow
  BY <1>1, <1>2 DEF SessionRow
<1>4. \A t \in Session : session[t] \in SessionRow
  BY DEF TypeOK
<1>5. p \in Session => [session[p] EXCEPT !.children = @ + 1] \in SessionRow
  BY <1>4 DEF SessionRow
<1> QED BY <1>3, <1>4, <1>5 DEF SessionsStarted, depth, wait

LEMMA ResumeTyped ==
    ASSUME TypeOK, NEW s \in Session, Resume(s)
    PROVE  TypeOK'
<1>1. now + Lease \in Nat
  BY ConfigAssumption DEF TypeOK
<1>2. \A t \in Session : session[t] \in SessionRow
  BY DEF TypeOK
<1>3. ASSUME NEW t \in Session PROVE session'[t] \in SessionRow
  <2> DEFINE d == IF session[t].lifecycle = "service" THEN now + Lease
                  ELSE session[t].deadline
  <2>1. d \in Nat
    BY <1>1, <1>2 DEF SessionRow
  <2>2. \/ session'[t] = session[t]
        \/ session'[t] = [session[t] EXCEPT !.status = "active", !.deadline = d]
    BY DEF Resume
  <2> HIDE DEF d
  <2> QED BY <1>2, <2>1, <2>2 DEF SessionRow
<1>4. session' \in [Session -> SessionRow]
  BY <1>3 DEF Resume
<1> QED BY <1>4 DEF Resume, TypeOK

LEMMA RenewTyped ==
    ASSUME TypeOK, NEW s \in Session, RenewLease(s)
    PROVE  TypeOK'
<1>1. now + Lease \in Nat
  BY ConfigAssumption DEF TypeOK
<1>2. session' \in [Session -> SessionRow]
  BY <1>1 DEF TypeOK, RenewLease, SessionRow
<1> QED BY <1>2 DEF RenewLease, TypeOK

\* A new active edge row.
LEMMA NewEdgeTyped ==
    ASSUME TypeOK, NEW e \in Edge, NEW src \in Session, NEW tgt \in Session,
           NEW p \in Edge \cup {None}, NEW g \in Grant,
           edge' = [edge EXCEPT ![e] =
               [status |-> "active", source |-> src, target |-> tgt,
                parent |-> p, grant |-> g, revoked |-> 0]]
    PROVE  edge' \in [Edge -> EdgeRow]
BY DEF TypeOK, EdgeRow

LEMMA RevokeTyped ==
    ASSUME TypeOK, NEW e \in Edge, RevokeDelegation(e)
    PROVE  TypeOK'
<1>1. \A roots : Subtree(roots, Live) \in SUBSET Session
  BY DEF Subtree, Live, With
<1>2. session' \in [Session -> SessionRow]
  BY <1>1, SessionsTerminatedTyped DEF RevokeDelegation
<1>3. edge' \in [Edge -> EdgeRow]
  BY EdgesRevokedTyped DEF RevokeDelegation
<1>4. epoch' \in Nat /\ feed' \subseteq Record /\ now' = now /\ record' = record
  BY DEF RevokeDelegation, TypeOK, RevokedSubjects, Subjects
<1> QED BY <1>2, <1>3, <1>4 DEF TypeOK

LEMMA RetentionTyped ==
    ASSUME TypeOK, NEW expiring, NEW oldEdges, NEW oldSessions,
           RetentionCleanup(expiring, oldEdges, oldSessions)
    PROVE  TypeOK'
<1>1. NoSession("deleted") \in SessionRow
  BY MaxDepthAssumption DEF NoSession, SessionRow
<1>2. NoGrant \in Grant
  BY MaxDepthAssumption DEF NoGrant, Grant
<1>3. NoEdge("deleted") \in EdgeRow
  BY <1>2 DEF NoEdge, EdgeRow
<1>4. session' \in [Session -> SessionRow]
  BY <1>1 DEF RetentionCleanup, TypeOK
<1>5. \A e \in Edge : edge[e] \in EdgeRow
  BY DEF TypeOK
<1>6. edge' \in [Edge -> EdgeRow]
  BY <1>3, <1>5 DEF RetentionCleanup, EdgeRow
<1>7. /\ UNCHANGED <<now, record, feed>>
      /\ epoch' = IF expiring = {} THEN epoch ELSE epoch + 1
  BY Zenon DEF RetentionCleanup
<1>8. epoch' \in Nat
  BY <1>7 DEF TypeOK
<1> QED BY <1>4, <1>6, <1>7, <1>8 DEF TypeOK

LEMMA NextTypeOK == TypeOK /\ [Next]_vars => TypeOK'
<1> SUFFICES ASSUME TypeOK, [Next]_vars PROVE TypeOK'
  OBVIOUS
<1>1. ASSUME NEW s \in Session, NEW p \in Session \cup {None},
             NEW a \in Application, NEW r \in Record, NEW l \in Lifecycles,
             NEW ttl \in TTLs, NEW how, Start(s, p, a, r, l, ttl, how)
      PROVE  TypeOK'
  BY <1>1, StartTyped DEF Start, TypeOK
<1>2. ASSUME NEW s \in Session, NEW p \in Session \cup {None},
             NEW a \in Application, NEW r \in Record, NEW l \in Lifecycles,
             NEW ttl \in TTLs, NEW how, NEW e \in Edge,
             StartInheriting(s, p, a, r, l, ttl, how, e)
      PROVE  TypeOK'
  <2>1. session' \in [Session -> SessionRow]
    BY <1>2, StartTyped DEF StartInheriting
  <2>2. PICK f \in LiveEdges : edge' = [edge EXCEPT ![e] =
              [status |-> "active", source |-> p, target |-> s, parent |-> f,
               grant |-> edge[f].grant, revoked |-> 0]]
    BY <1>2 DEF StartInheriting
  <2>3. f \in Edge /\ edge[f].grant \in Grant /\ p \in Session
    BY <1>2 DEF LiveEdges, ActiveEdges, TypeOK, EdgeRow, StartInheriting
  <2>4. edge' \in [Edge -> EdgeRow]
    BY <2>2, <2>3, NewEdgeTyped
  <2> QED BY <1>2, <2>1, <2>4 DEF StartInheriting, TypeOK
<1>3. ASSUME NEW s \in Session, Suspend(s) PROVE TypeOK'
  BY <1>3, SuspendTyped DEF Suspend
<1>4. ASSUME NEW s \in Session, Resume(s) PROVE TypeOK'
  BY <1>4, ResumeTyped
<1>5. ASSUME NEW s \in Session, Terminate(s) PROVE TypeOK'
  BY <1>5, TerminateTyped DEF Terminate
<1>6. ASSUME NEW s \in Session, AttachLease(s) PROVE TypeOK'
  BY <1>6, TerminateTyped, SuspendTyped, RenewTyped DEF AttachLease
<1>7. ASSUME NEW s \in Session, Heartbeat(s) PROVE TypeOK'
  BY <1>7, TerminateTyped, SuspendTyped, RenewTyped DEF Heartbeat
<1>8. ASSUME NEW e \in Edge, RevokeDelegation(e) PROVE TypeOK'
  BY <1>8, RevokeTyped
<1>9. ASSUME NEW e \in Edge, NEW src \in Session, NEW tgt \in Session,
             NEW p \in Edge \cup {None}, NEW g \in Grants,
             CreateDelegation(e, src, tgt, p, g)
      PROVE  TypeOK'
  <2>1. edge' \in [Edge -> EdgeRow]
    BY <1>9, ConfigAssumption, NewEdgeTyped DEF CreateDelegation
  <2> QED BY <1>9, <2>1 DEF CreateDelegation, TypeOK
<1>10. CASE TTLSweep
  BY <1>10, TerminateTyped DEF TTLSweep
<1>11. CASE ServiceLeaseSweep
  BY <1>11, SuspendTyped DEF ServiceLeaseSweep
<1>12. CASE CleanRetention
  BY <1>12, RetentionTyped DEF CleanRetention
<1>13. ASSUME NEW r \in Record, HandleRevocation(r) PROVE TypeOK'
  BY <1>13 DEF HandleRevocation, TypeOK
<1>14. CASE Tick
  BY <1>14, ConfigAssumption DEF Tick, TypeOK
<1>15. CASE UNCHANGED vars
  BY <1>15 DEF vars, TypeOK
<1> QED
  BY <1>1, <1>2, <1>3, <1>4, <1>5, <1>6, <1>7, <1>8, <1>9, <1>10, <1>11,
     <1>12, <1>13, <1>14, <1>15 DEF Next, StartSome

\* Type correctness, the depth bound included, for every configuration.
THEOREM TypeTheorem == Spec => []TypeOK
BY InitTypeOK, NextTypeOK, PTL DEF Spec

-----------------------------------------------------------------------------
(* Kinds of steps *)

\* A live child of a session the recursive query returns is returned too.
LEMMA SubtreeClosed ==
    ASSUME NEW roots, NEW within \in SUBSET Session, NEW c \in within,
           session[c].parent \in Subtree(roots, within)
    PROVE  c \in Subtree(roots, within)
BY DEF Subtree

\* The columns that no UPDATE of a stored session touches.
SameLinks ==
    \A s \in Session : /\ session'[s].parent = session[s].parent
                       /\ session'[s].subject = session[s].subject

\* The step moves no session in or out of the live and the ended ones.
Quiet ==
    /\ Live' = Live
    /\ Ended' = Ended
    /\ SameLinks
    /\ \A s \in Session : session'[s].children = session[s].children
    /\ edge' = edge
    /\ feed \subseteq feed'

\* The step ends the sessions of gone, which are closed under live children,
\* cuts the active edges of cut, which has all edges at gone, and sends the
\* records gone was the last referent of.
Ending(gone, cut) ==
    /\ gone \subseteq Live
    /\ \A c \in Live : session[c].parent \in gone => c \in gone
    /\ Live' = Live \ gone
    /\ Ended' = Ended \cup gone
    /\ SameLinks
    /\ \A s \in Session \ gone :
          LET dec == Cardinality({c \in gone : session[c].parent = s})
          IN  session'[s].children =
                  IF session[s].children > dec THEN session[s].children - dec ELSE 0
    /\ EdgesAt(gone) \subseteq cut
    /\ ActiveEdges' \subseteq ActiveEdges \ cut
    /\ \A e \in Edge : /\ edge'[e].source = edge[e].source
                       /\ edge'[e].target = edge[e].target
    /\ feed \cup RevokedSubjects(gone) \subseteq feed'

LEMMA SuspendQuiet ==
    ASSUME TypeOK, NEW roots, SuspendSubtree(roots)
    PROVE  Quiet
<1> DEFINE hit == Subtree(roots, Active)
<1>1. hit \subseteq Active
  BY DEF Subtree
<1>2. ASSUME NEW s \in Session
      PROVE  /\ session'[s].parent = session[s].parent
             /\ session'[s].subject = session[s].subject
             /\ session'[s].children = session[s].children
             /\ session'[s].status = IF s \in hit THEN "suspended" ELSE session[s].status
  BY DEF SuspendSubtree, TypeOK, SessionRow
<1> HIDE DEF hit
<1>3. Live' = Live /\ Ended' = Ended
  BY <1>1, <1>2 DEF Live, Ended, With, Active
<1>4. edge' = edge /\ feed \subseteq feed'
  BY DEF SuspendSubtree
<1> QED BY <1>2, <1>3, <1>4 DEF Quiet, SameLinks

LEMMA ResumeQuiet ==
    ASSUME TypeOK, NEW r \in Session, Resume(r)
    PROVE  Quiet
<1> DEFINE hit == Subtree({r}, With({"suspended"}))
<1>1. hit \subseteq With({"suspended"})
  BY DEF Subtree
<1>2. ASSUME NEW s \in Session
      PROVE  /\ session'[s].parent = session[s].parent
             /\ session'[s].subject = session[s].subject
             /\ session'[s].children = session[s].children
             /\ session'[s].status = IF s \in hit THEN "active" ELSE session[s].status
  BY DEF Resume, TypeOK, SessionRow
<1> HIDE DEF hit
<1>3. Live' = Live /\ Ended' = Ended
  BY <1>1, <1>2 DEF Live, Ended, With
<1>4. edge' = edge /\ feed \subseteq feed'
  BY DEF Resume
<1> QED BY <1>2, <1>3, <1>4 DEF Quiet, SameLinks

LEMMA RenewQuiet ==
    ASSUME TypeOK, NEW r \in Session, RenewLease(r)
    PROVE  Quiet
<1>1. ASSUME NEW s \in Session
      PROVE  /\ session'[s].parent = session[s].parent
             /\ session'[s].subject = session[s].subject
             /\ session'[s].children = session[s].children
             /\ session'[s].status = session[s].status
  BY DEF RenewLease, TypeOK, SessionRow
<1>2. Live' = Live /\ Ended' = Ended
  BY <1>1 DEF Live, Ended, With
<1>3. edge' = edge /\ feed \subseteq feed'
  BY DEF RenewLease
<1> QED BY <1>1, <1>2, <1>3 DEF Quiet, SameLinks

LEMMA UnchangedQuiet ==
    ASSUME UNCHANGED <<session, edge, feed>>
    PROVE  Quiet
BY DEF Quiet, SameLinks, Live, Ended, With

\* What the UPDATEs of terminateSubtree do to the columns the invariants read.
LEMMA UpdatesEnd ==
    ASSUME TypeOK, NEW roots, NEW st \in {"terminated", "expired"}, NEW cut,
           NEW gone, gone = Subtree(roots, Live), EdgesAt(gone) \subseteq cut,
           session' = SessionsTerminated(gone, roots, st),
           edge' = EdgesRevoked(cut),
           feed \cup RevokedSubjects(gone) \subseteq feed'
    PROVE  Ending(gone, cut)
<1>1. gone \subseteq Live /\ Live \subseteq Session
  BY DEF Subtree, Live, With
<1>2. \A c \in Live : session[c].parent \in gone => c \in gone
  BY <1>1, SubtreeClosed
<1>3. ASSUME NEW s \in Session
      PROVE  /\ session'[s].parent = session[s].parent
             /\ session'[s].subject = session[s].subject
             /\ s \in gone => session'[s].status \in {"terminated", "expired"}
             /\ s \notin gone => session'[s].status = session[s].status
  BY DEF SessionsTerminated, TypeOK, SessionRow
<1>4. Live' = Live \ gone /\ Ended' = Ended \cup gone
  BY <1>1, <1>3 DEF Live, Ended, With
<1>5. ASSUME NEW s \in Session \ gone
      PROVE  LET dec == Cardinality({c \in gone : session[c].parent = s})
             IN  session'[s].children =
                  IF session[s].children > dec THEN session[s].children - dec ELSE 0
  BY DEF SessionsTerminated, TypeOK, SessionRow
<1>6. ASSUME NEW e \in Edge
      PROVE  /\ edge'[e].source = edge[e].source
             /\ edge'[e].target = edge[e].target
             /\ edge'[e].status = IF e \in cut THEN "revoked" ELSE edge[e].status
  BY DEF EdgesRevoked, TypeOK, EdgeRow
<1>7. ActiveEdges' \subseteq ActiveEdges \ cut
  BY <1>6 DEF ActiveEdges
<1> QED BY <1>1, <1>2, <1>3, <1>4, <1>5, <1>6, <1>7 DEF Ending, SameLinks

LEMMA TerminateEnds ==
    ASSUME TypeOK, NEW roots, NEW st \in {"terminated", "expired"},
           TerminateSubtree(roots, st)
    PROVE  \E gone, cut : Ending(gone, cut)
<1> DEFINE gone == Subtree(roots, Live)
<1> HIDE DEF gone
<1>1. /\ session' = SessionsTerminated(gone, roots, st)
      /\ edge' = EdgesRevoked(EdgesAt(gone))
      /\ feed \cup RevokedSubjects(gone) \subseteq feed'
  BY DEF TerminateSubtree, gone
<1>2. Ending(gone, EdgesAt(gone))
  BY <1>1, UpdatesEnd DEF gone
<1> QED BY <1>2

LEMMA RevokeEnds ==
    ASSUME TypeOK, NEW e \in Edge, RevokeDelegation(e)
    PROVE  \E gone, cut : Ending(gone, cut)
<1> DEFINE affected == Downstream({e}, ActiveEdges)
           targets  == {edge[f].target : f \in affected} \cap Live
           gone     == Subtree(targets, Live)
           cut      == affected \cup (EdgesAt(gone) \ affected)
<1>1. /\ session' = SessionsTerminated(gone, targets, "terminated")
      /\ edge' = EdgesRevoked(cut)
      /\ feed' = feed \cup RevokedSubjects(gone) \cup Subjects(targets)
  BY DEF RevokeDelegation
<1>2. EdgesAt(gone) \subseteq cut
  OBVIOUS
<1>3. gone = Subtree(targets, Live)
  OBVIOUS
<1> HIDE DEF affected, targets, gone, cut
<1>4. Ending(gone, cut)
  BY <1>1, <1>2, <1>3, UpdatesEnd
<1> QED BY <1>4

-----------------------------------------------------------------------------
(* The tree, the graph and the feed *)

Safe == NoLiveOrphan /\ ChildCountExact /\ EdgeEndpointsLive /\ LastReferentRevokes

LEMMA QuietSafe ==
    ASSUME Safe, Quiet
    PROVE  Safe'
<1>1. Live \subseteq Session /\ Ended \subseteq Session
  BY DEF Live, Ended, With
<1>2. NoLiveOrphan'
  BY <1>1 DEF Safe, NoLiveOrphan, Quiet, SameLinks
<1>3. \A s \in Session : {c \in Live : session[c].parent = s}' =
                          {c \in Live : session[c].parent = s}
  BY <1>1 DEF Quiet, SameLinks
<1>4. ChildCountExact'
  BY <1>1, <1>3 DEF Safe, ChildCountExact, Quiet
<1>5. EdgeEndpointsLive'
  BY DEF Safe, EdgeEndpointsLive, Quiet, ActiveEdges
<1>6. Subjects(Live)' = Subjects(Live) /\ Subjects(Ended)' = Subjects(Ended)
  BY <1>1 DEF Subjects, Quiet, SameLinks
<1>7. LastReferentRevokes'
  BY <1>6 DEF Safe, LastReferentRevokes, Quiet
<1> QED BY <1>2, <1>4, <1>5, <1>7 DEF Safe

\* Ending some children lowers the count by their number.
LEMMA EndingCounts ==
    ASSUME TypeOK, ChildCountExact, NEW gone, NEW cut, Ending(gone, cut)
    PROVE  ChildCountExact'
<1> SUFFICES ASSUME NEW s \in Live'
             PROVE  session'[s].children =
                        Cardinality({c \in Live' : session'[c].parent = s})
  BY DEF ChildCountExact
<1> DEFINE before == {c \in Live : session[c].parent = s}
           ended  == {c \in gone : session[c].parent = s}
           after  == {c \in Live' : session'[c].parent = s}
<1>1. /\ Live \subseteq Session /\ gone \subseteq Live
      /\ Live' = Live \ gone /\ s \in Session \ gone /\ s \in Live
  BY DEF Ending, Live, With
<1>2. IsFiniteSet(before) /\ IsFiniteSet(ended) /\ ended \subseteq before
  BY <1>1, FiniteAssumption, FS_Subset
<1>3. after = before \ ended
  BY <1>1 DEF Ending, SameLinks
<1>4. /\ Cardinality(after) = Cardinality(before) - Cardinality(before \cap ended)
      /\ Cardinality(before) \in Nat /\ Cardinality(ended) \in Nat
      /\ Cardinality(ended) <= Cardinality(before)
  BY <1>2, <1>3, FS_Difference, FS_CardinalityType, FS_Subset
<1>5. before \cap ended = ended
  BY <1>2
<1>6. session[s].children = Cardinality(before)
  BY <1>1 DEF ChildCountExact
<1>7. session'[s].children = IF session[s].children > Cardinality(ended)
                             THEN session[s].children - Cardinality(ended) ELSE 0
  BY <1>1 DEF Ending
<1>8. Cardinality(after) = Cardinality(before) - Cardinality(ended)
  BY <1>4, <1>5
<1> HIDE DEF before, ended, after
<1>9. \A a, b, d \in Nat : a = b - d =>
          a = IF b > d THEN b - d ELSE 0
  OBVIOUS
<1>10. Cardinality(after) \in Nat
  BY <1>4, <1>8
<1>11. session'[s].children = Cardinality(after)
  BY <1>4, <1>6, <1>7, <1>8, <1>9, <1>10
<1> QED BY <1>11 DEF after

LEMMA EndingSafe ==
    ASSUME TypeOK, Safe, NEW gone, NEW cut, Ending(gone, cut)
    PROVE  Safe'
<1>1. Live \subseteq Session /\ Ended \subseteq Session /\ gone \subseteq Live
  BY DEF Live, Ended, With, Ending
<1>2. NoLiveOrphan'
  BY <1>1 DEF Safe, NoLiveOrphan, Ending, SameLinks
<1>3. ChildCountExact'
  BY EndingCounts DEF Safe
<1>4. EdgeEndpointsLive'
  <2> SUFFICES ASSUME NEW e \in ActiveEdges'
               PROVE  edge'[e].source \in Live' /\ edge'[e].target \in Live'
    BY DEF EdgeEndpointsLive
  <2>1. e \in ActiveEdges /\ e \notin EdgesAt(gone) /\ e \in Edge
    BY DEF Ending, ActiveEdges
  <2>2. edge[e].source \in Live \ gone /\ edge[e].target \in Live \ gone
    BY <2>1 DEF EdgesAt, Safe, EdgeEndpointsLive
  <2> QED BY <2>1, <2>2 DEF Ending
<1>5. LastReferentRevokes'
  <2> SUFFICES ASSUME NEW r \in UserRecord,
                      r \in Subjects(Ended)', r \notin Subjects(Live)'
               PROVE  r \in feed'
    BY DEF LastReferentRevokes
  <2>1. r \notin Subjects(Live \ gone)
    BY <1>1 DEF Subjects, Ending, SameLinks
  <2>2. CASE r \in Subjects(gone)
    BY <2>1, <2>2 DEF RevokedSubjects, Exempt, Ending
  <2>3. CASE r \notin Subjects(gone)
    <3>1. r \in Subjects(Ended) /\ r \notin Subjects(Live)
      BY <1>1, <2>1, <2>3 DEF Subjects, Ending, SameLinks
    <3> QED BY <3>1 DEF Safe, LastReferentRevokes, Ending
  <2> QED BY <2>2, <2>3
<1> QED BY <1>2, <1>3, <1>4, <1>5 DEF Safe

\* A start adds one live session, which has no children, below a live parent.
LEMMA StartAdds ==
    ASSUME TypeOK, NoLiveOrphan, ChildCountExact, LastReferentRevokes,
           NEW s \in Session, NEW p \in Session \cup {None},
           NEW a \in Application, NEW r \in Record, NEW l \in Lifecycles,
           NEW ttl \in TTLs, session[s].status = "absent",
           StartAllowed(p, a, r, l),
           session' = SessionsStarted(s, p, a, r, l, ttl), feed' = feed
    PROVE  /\ Live' = Live \cup {s}
           /\ Ended' = Ended
           /\ NoLiveOrphan'
           /\ ChildCountExact'
           /\ LastReferentRevokes'
<1>1. s \notin Live /\ s \notin Ended /\ Live \subseteq Session /\ Ended \subseteq Session
  BY DEF Live, Ended, With
<1>2. p \in Session => p \in Live /\ p # s
  BY IdAssumption DEF StartAllowed, Active, Live, With
<1>3. /\ session'[s].status = "active" /\ session'[s].parent = p
      /\ session'[s].subject = r /\ session'[s].children = 0
  BY DEF SessionsStarted
<1>4. ASSUME NEW t \in Session, t # s
      PROVE  /\ session'[t].status = session[t].status
             /\ session'[t].parent = session[t].parent
             /\ session'[t].subject = session[t].subject
             /\ session'[t].children = IF t = p THEN session[t].children + 1
                                      ELSE session[t].children
  BY <1>4 DEF SessionsStarted, TypeOK, SessionRow
<1>5. Live' = Live \cup {s} /\ Ended' = Ended
  BY <1>1, <1>3, <1>4 DEF Live, Ended, With
<1>6. NoLiveOrphan'
  BY <1>1, <1>2, <1>3, <1>4, <1>5 DEF NoLiveOrphan
<1>7. ChildCountExact'
  <2> SUFFICES ASSUME NEW t \in Live'
               PROVE  session'[t].children =
                          Cardinality({c \in Live' : session'[c].parent = t})
    BY DEF ChildCountExact
  <2> DEFINE before == {c \in Live : session[c].parent = t}
             after  == {c \in Live' : session'[c].parent = t}
  <2>1. t \in Session /\ s \notin before
    BY <1>1, <1>5
  <2>2. IsFiniteSet(before)
    BY <1>1, FiniteAssumption, FS_Subset
  <2>3. after = IF p = t THEN before \cup {s} ELSE before
    BY <1>1, <1>3, <1>4, <1>5
  <2>4. CASE t = s
    <3>1. before = {}
      BY <1>1, <2>4, IdAssumption DEF NoLiveOrphan
    <3>2. p # t
      BY <1>2, <2>1, <2>4
    <3>3. Cardinality(after) = 0
      BY <2>3, <3>1, <3>2, FS_EmptySet
    <3> QED BY <1>3, <2>4, <3>3
  <2>5. CASE t # s
    <3>1. session[t].children = Cardinality(before) /\ t \in Session
      BY <1>5, <2>1, <2>5 DEF ChildCountExact
    <3>2. CASE t = p
      <4>1. Cardinality(before \cup {s}) = Cardinality(before) + 1
        BY <2>1, <2>2, FS_AddElement
      <4> QED BY <1>4, <2>3, <2>5, <3>1, <3>2, <4>1
    <3>3. CASE t # p
      BY <1>4, <2>3, <2>5, <3>1, <3>3
    <3> QED BY <3>2, <3>3
  <2> QED BY <2>4, <2>5
<1>8. LastReferentRevokes'
  BY <1>1, <1>4, <1>5 DEF LastReferentRevokes, Subjects
<1> QED BY <1>5, <1>6, <1>7, <1>8

\* Retention deletes ended sessions that nothing stored hangs from.
LEMMA RetentionSafe ==
    ASSUME TypeOK, Safe, CleanRetention
    PROVE  Safe'
<1> PICK expiring, oldEdges, oldSessions :
        /\ oldSessions \subseteq {s \in Session : PrunableSession(s)}
        /\ RetentionCleanup(expiring, oldEdges, oldSessions)
  BY DEF CleanRetention
<1>1. session' = [s \in Session |->
          IF s \in oldSessions THEN NoSession("deleted") ELSE session[s]]
  BY Zenon DEF RetentionCleanup
<1>2. feed' = feed
  BY Zenon DEF RetentionCleanup
<1>3. oldSessions \subseteq Ended /\ Live \subseteq Session /\ Ended \subseteq Session
  BY DEF PrunableSession, Live, Ended, With
<1>4. Live' = Live /\ Ended' = Ended \ oldSessions
  BY <1>1, <1>3 DEF Live, Ended, With, NoSession
<1>5. \A s \in Session \ oldSessions : session'[s] = session[s]
  BY <1>1
<1>6. \A s \in Live \cup Ended' : s \in Session \ oldSessions
  BY <1>3, <1>4 DEF Live, Ended, With
<1>7. NoLiveOrphan'
  BY <1>4, <1>5, <1>6 DEF Safe, NoLiveOrphan
<1>8. \A s \in Session : {c \in Live : session[c].parent = s}' =
                          {c \in Live : session[c].parent = s}
  BY <1>4, <1>5, <1>6
<1>9. ChildCountExact'
  BY <1>3, <1>4, <1>5, <1>6, <1>8 DEF Safe, ChildCountExact
<1>10. ASSUME NEW e \in ActiveEdges'
       PROVE  /\ e \in ActiveEdges
              /\ edge'[e].source = edge[e].source /\ edge'[e].target = edge[e].target
  <2> DEFINE dropped == oldEdges \cup {f \in StoredEdges :
                   edge[f].source \in oldSessions \/ edge[f].target \in oldSessions}
             kept    == [edge[e] EXCEPT
                            !.status = IF e \in expiring THEN "expired" ELSE @,
                            !.parent = IF @ \in dropped THEN None ELSE @]
  <2>1. e \in Edge /\ edge[e] \in EdgeRow /\ edge'[e].status = "active"
    BY DEF ActiveEdges, TypeOK
  <2>2. edge'[e] = IF e \in dropped THEN NoEdge("deleted") ELSE kept
    BY <2>1 DEF RetentionCleanup
  <2>3. e \notin dropped
    BY <2>1, <2>2 DEF NoEdge
  <2>4. /\ kept.status = IF e \in expiring THEN "expired" ELSE edge[e].status
        /\ kept.source = edge[e].source /\ kept.target = edge[e].target
    BY <2>1 DEF EdgeRow
  <2> HIDE DEF dropped, kept
  <2> QED BY <2>1, <2>2, <2>3, <2>4 DEF ActiveEdges
<1>11. EdgeEndpointsLive'
  BY <1>4, <1>10 DEF Safe, EdgeEndpointsLive
<1>12. LastReferentRevokes'
  BY <1>2, <1>4, <1>5, <1>6 DEF Safe, LastReferentRevokes, Subjects
<1> QED BY <1>7, <1>9, <1>11, <1>12 DEF Safe

LEMMA NextSafe == TypeOK /\ Safe /\ [Next]_vars => Safe'
<1> SUFFICES ASSUME TypeOK, Safe, [Next]_vars PROVE Safe'
  OBVIOUS
<1>1. ASSUME NEW s \in Session, NEW p \in Session \cup {None},
             NEW a \in Application, NEW r \in Record, NEW l \in Lifecycles,
             NEW ttl \in TTLs, NEW how, Start(s, p, a, r, l, ttl, how)
      PROVE  Safe'
  <2>1. /\ Live' = Live \cup {s} /\ NoLiveOrphan' /\ ChildCountExact'
        /\ LastReferentRevokes'
    BY <1>1, StartAdds DEF Start, Safe
  <2>2. EdgeEndpointsLive'
    BY <1>1, <2>1 DEF Start, Safe, EdgeEndpointsLive, ActiveEdges
  <2> QED BY <2>1, <2>2 DEF Safe
<1>2. ASSUME NEW s \in Session, NEW p \in Session \cup {None},
             NEW a \in Application, NEW r \in Record, NEW l \in Lifecycles,
             NEW ttl \in TTLs, NEW how, NEW e \in Edge,
             StartInheriting(s, p, a, r, l, ttl, how, e)
      PROVE  Safe'
  <2>1. /\ Live' = Live \cup {s} /\ NoLiveOrphan' /\ ChildCountExact'
        /\ LastReferentRevokes'
    BY <1>2, StartAdds DEF StartInheriting, Safe
  <2>2. PICK f \in LiveEdges : edge' = [edge EXCEPT ![e] =
              [status |-> "active", source |-> p, target |-> s, parent |-> f,
               grant |-> edge[f].grant, revoked |-> 0]]
    BY <1>2 DEF StartInheriting
  <2>3. p \in Live
    BY <1>2 DEF StartInheriting, StartAllowed, Active, Live, With
  <2>4. EdgeEndpointsLive'
    BY <2>1, <2>2, <2>3 DEF Safe, EdgeEndpointsLive, ActiveEdges, TypeOK
  <2> QED BY <2>1, <2>4 DEF Safe
<1>3. ASSUME NEW s \in Session, Suspend(s) PROVE Safe'
  BY <1>3, SuspendQuiet, QuietSafe DEF Suspend
<1>4. ASSUME NEW s \in Session, Resume(s) PROVE Safe'
  BY <1>4, ResumeQuiet, QuietSafe
<1>5. ASSUME NEW s \in Session, Terminate(s) PROVE Safe'
  BY <1>5, TerminateEnds, EndingSafe DEF Terminate
<1>6. ASSUME NEW s \in Session, AttachLease(s) PROVE Safe'
  BY <1>6, TerminateEnds, EndingSafe, SuspendQuiet, RenewQuiet, QuietSafe
     DEF AttachLease
<1>7. ASSUME NEW s \in Session, Heartbeat(s) PROVE Safe'
  BY <1>7, TerminateEnds, EndingSafe, SuspendQuiet, RenewQuiet, QuietSafe
     DEF Heartbeat
<1>8. ASSUME NEW e \in Edge, RevokeDelegation(e) PROVE Safe'
  BY <1>8, RevokeEnds, EndingSafe
<1>9. ASSUME NEW e \in Edge, NEW src \in Session, NEW tgt \in Session,
             NEW p \in Edge \cup {None}, NEW g \in Grants,
             CreateDelegation(e, src, tgt, p, g)
      PROVE  Safe'
  <2>1. UNCHANGED <<session, feed>> /\ src \in Live /\ tgt \in Live
    BY <1>9 DEF CreateDelegation, Active, Live, With
  <2>2. NoLiveOrphan' /\ ChildCountExact' /\ LastReferentRevokes'
    BY <2>1 DEF Safe, NoLiveOrphan, ChildCountExact, LastReferentRevokes,
                Live, Ended, With, Subjects
  <2>3. EdgeEndpointsLive'
    BY <1>9, <2>1 DEF CreateDelegation, Safe, EdgeEndpointsLive, ActiveEdges,
                      Live, With, TypeOK
  <2> QED BY <2>2, <2>3 DEF Safe
<1>10. CASE TTLSweep
  BY <1>10, TerminateEnds, EndingSafe DEF TTLSweep
<1>11. CASE ServiceLeaseSweep
  BY <1>11, SuspendQuiet, QuietSafe DEF ServiceLeaseSweep
<1>12. CASE CleanRetention
  BY <1>12, RetentionSafe
<1>13. ASSUME NEW r \in Record, HandleRevocation(r) PROVE Safe'
  BY <1>13, UnchangedQuiet, QuietSafe DEF HandleRevocation
<1>14. CASE Tick
  BY <1>14, UnchangedQuiet, QuietSafe DEF Tick
<1>15. CASE UNCHANGED vars
  BY <1>15, UnchangedQuiet, QuietSafe DEF vars
<1> QED
  BY <1>1, <1>2, <1>3, <1>4, <1>5, <1>6, <1>7, <1>8, <1>9, <1>10, <1>11,
     <1>12, <1>13, <1>14, <1>15 DEF Next, StartSome

LEMMA InitSafe == Init => Safe
<1> SUFFICES ASSUME Init PROVE Safe
  OBVIOUS
<1>1. Live = {} /\ Ended = {} /\ ActiveEdges = {}
  BY DEF Init, Live, Ended, With, ActiveEdges, NoSession, NoEdge
<1> QED BY <1>1 DEF Safe, NoLiveOrphan, ChildCountExact, EdgeEndpointsLive,
                    LastReferentRevokes, Subjects

LEMMA SafeAlways == Spec => [](TypeOK /\ Safe)
BY InitTypeOK, NextTypeOK, InitSafe, NextSafe, PTL DEF Spec

\* However sessions are suspended, resumed, swept and pruned, a live session
\* never loses its parent.
THEOREM NoLiveOrphanTheorem == Spec => []NoLiveOrphan
<1>1. Safe => NoLiveOrphan
  BY DEF Safe
<1> QED BY SafeAlways, <1>1, PTL

\* child_count counts the live children of a live session.
THEOREM ChildCountTheorem == Spec => []ChildCountExact
<1>1. Safe => ChildCountExact
  BY DEF Safe
<1> QED BY SafeAlways, <1>1, PTL

\* No active edge has an ended or deleted session at either end.
THEOREM EdgeEndpointsTheorem == Spec => []EdgeEndpointsLive
<1>1. Safe => EdgeEndpointsLive
  BY DEF Safe
<1> QED BY SafeAlways, <1>1, PTL

\* The end of the last session of a user's record is always sent on.
THEOREM LastReferentTheorem == Spec => []LastReferentRevokes
<1>1. Safe => LastReferentRevokes
  BY DEF Safe
<1> QED BY SafeAlways, <1>1, PTL

-----------------------------------------------------------------------------
(* Endings are final *)

\* A step makes at most one session live that was not, and that one is new.
OnlyNewLive == \A s \in Live' : s \in Live \/ session[s].status = "absent"

LEMMA NextOnlyNewLive == TypeOK /\ Safe /\ [Next]_vars => OnlyNewLive
<1> SUFFICES ASSUME TypeOK, Safe, [Next]_vars PROVE OnlyNewLive
  OBVIOUS
<1>1. Quiet => OnlyNewLive
  BY DEF Quiet, OnlyNewLive
<1>2. (\E gone, cut : Ending(gone, cut)) => OnlyNewLive
  BY DEF Ending, OnlyNewLive
<1>3. CASE StartSome
  BY <1>3, StartAdds DEF StartSome, Start, StartInheriting, Safe, OnlyNewLive
<1>4. ASSUME NEW s \in Session,
             \/ Suspend(s) \/ Resume(s) \/ Terminate(s)
             \/ AttachLease(s) \/ Heartbeat(s)
      PROVE  OnlyNewLive
  BY <1>1, <1>2, <1>4, TerminateEnds, SuspendQuiet, ResumeQuiet, RenewQuiet
     DEF Suspend, Terminate, AttachLease, Heartbeat
<1>5. ASSUME NEW e \in Edge, RevokeDelegation(e) PROVE OnlyNewLive
  BY <1>2, <1>5, RevokeEnds
<1>6. CASE TTLSweep
  BY <1>2, <1>6, TerminateEnds DEF TTLSweep
<1>7. CASE ServiceLeaseSweep
  BY <1>1, <1>7, SuspendQuiet DEF ServiceLeaseSweep
<1>8. CASE CleanRetention
  <2> PICK expiring, oldEdges, oldSessions :
          RetentionCleanup(expiring, oldEdges, oldSessions)
    BY <1>8 DEF CleanRetention
  <2>1. session' = [s \in Session |->
            IF s \in oldSessions THEN NoSession("deleted") ELSE session[s]]
    BY Zenon DEF RetentionCleanup
  <2> QED BY <2>1 DEF OnlyNewLive, Live, With, NoSession
<1>9. CASE UNCHANGED session
  BY <1>9 DEF OnlyNewLive, Live, With
<1> QED
  BY <1>3, <1>4, <1>5, <1>6, <1>7, <1>8, <1>9
     DEF Next, CreateDelegation, HandleRevocation, Tick, vars

\* No step of any handler or job brings an ended session back.
THEOREM EndedStaysEndedTheorem == Spec => EndedStaysEnded
<1>1. OnlyNewLive => \A s \in Ended : s \notin Live'
  BY DEF OnlyNewLive, Live, Ended, With
<1>2. TypeOK /\ Safe /\ [Next]_vars => [\A s \in Ended : s \notin Live']_vars
  BY <1>1, NextOnlyNewLive
<1> QED BY SafeAlways, <1>2, PTL DEF Spec, EndedStaysEnded

-----------------------------------------------------------------------------
(* Revocations of other sessions' records *)

Spared(r) ==
    \/ r \in UserRecord /\ \A s \in Active' : session'[s].subject # r
    \/ \E e \in ActiveEdges \ ActiveEdges' : session[edge[e].target].subject = r

\* What revocationExemptSessions lets through when gone leaves the active ones.
LEMMA ExemptSpares ==
    ASSUME NEW gone, NEW r \in RevokedSubjects(gone), SameLinks,
           Active' \subseteq Live \ gone
    PROVE  Spared(r)
<1>1. r \in UserRecord /\ r \notin Subjects(Live \ gone)
  BY DEF RevokedSubjects, Exempt, Subjects
<1>2. \A s \in Active' : s \in Session /\ session[s].subject # r
  BY <1>1 DEF Subjects, Live, With, RevokedSubjects
<1> QED BY <1>1, <1>2 DEF Spared, SameLinks

LEMMA SuspendSpares ==
    ASSUME TypeOK, NEW roots, SuspendSubtree(roots), NEW r \in feed' \ feed
    PROVE  Spared(r)
<1> DEFINE hit == Subtree(roots, Active)
<1>1. \A s \in Session : session'[s].status = IF s \in hit THEN "suspended"
                                              ELSE session[s].status
  BY DEF SuspendSubtree, TypeOK, SessionRow
<1>2. r \in RevokedSubjects(hit)
  BY DEF SuspendSubtree
<1> HIDE DEF hit
<1>3. Active' \subseteq Live \ hit
  BY <1>1 DEF Active, Live, With
<1> QED BY <1>2, <1>3, SuspendQuiet, ExemptSpares DEF Quiet

LEMMA TerminateSpares ==
    ASSUME TypeOK, NEW roots, NEW st \in {"terminated", "expired"},
           TerminateSubtree(roots, st), NEW r \in feed' \ feed
    PROVE  Spared(r)
<1> DEFINE gone == Subtree(roots, Live)
<1> HIDE DEF gone
<1>1. /\ session' = SessionsTerminated(gone, roots, st)
      /\ edge' = EdgesRevoked(EdgesAt(gone))
      /\ feed' = feed \cup RevokedSubjects(gone)
  BY DEF TerminateSubtree, gone
<1>2. Ending(gone, EdgesAt(gone))
  BY <1>1, UpdatesEnd DEF gone
<1>3. Active' \subseteq Live \ gone
  BY <1>2 DEF Ending, Active, Live, With
<1> QED BY <1>1, <1>2, <1>3, ExemptSpares DEF Ending

LEMMA RevokeSpares ==
    ASSUME TypeOK, NEW e \in Edge, RevokeDelegation(e), NEW r \in feed' \ feed
    PROVE  Spared(r)
<1> DEFINE affected == Downstream({e}, ActiveEdges)
           targets  == {edge[f].target : f \in affected} \cap Live
           gone     == Subtree(targets, Live)
           cut      == affected \cup (EdgesAt(gone) \ affected)
<1>1. /\ session' = SessionsTerminated(gone, targets, "terminated")
      /\ edge' = EdgesRevoked(cut)
      /\ feed' = feed \cup RevokedSubjects(gone) \cup Subjects(targets)
  BY DEF RevokeDelegation
<1>2. EdgesAt(gone) \subseteq cut /\ affected \subseteq cut
  OBVIOUS
<1>3. gone = Subtree(targets, Live)
  OBVIOUS
<1>4. affected \subseteq ActiveEdges
  BY DEF Downstream
<1>5. targets = {edge[f].target : f \in affected} \cap Live
  OBVIOUS
<1> HIDE DEF affected, targets, gone, cut
<1>6. Ending(gone, cut)
  BY <1>1, <1>2, <1>3, UpdatesEnd
<1>7. Active' \subseteq Live \ gone /\ SameLinks /\ ActiveEdges' \subseteq ActiveEdges \ cut
  BY <1>6 DEF Ending, Active, Live, With
<1>8. CASE r \in RevokedSubjects(gone)
  BY <1>7, <1>8, ExemptSpares
<1>9. CASE r \in Subjects(targets)
  <2>1. PICK f \in affected : session[edge[f].target].subject = r
    BY <1>5, <1>9 DEF Subjects
  <2> QED BY <1>2, <1>4, <1>7, <2>1 DEF Spared
<1> QED BY <1>1, <1>8, <1>9

LEMMA NextSpares == TypeOK /\ [Next]_vars => \A r \in feed' \ feed : Spared(r)
<1> SUFFICES ASSUME TypeOK, [Next]_vars, NEW r \in feed' \ feed PROVE Spared(r)
  OBVIOUS
<1>1. ASSUME NEW s \in Session,
             \/ Suspend(s) \/ Resume(s) \/ Terminate(s)
             \/ AttachLease(s) \/ Heartbeat(s)
      PROVE  Spared(r)
  BY <1>1, SuspendSpares, TerminateSpares
     DEF Suspend, Resume, Terminate, AttachLease, Heartbeat, RenewLease
<1>2. ASSUME NEW e \in Edge, RevokeDelegation(e) PROVE Spared(r)
  BY <1>2, RevokeSpares
<1>3. CASE TTLSweep \/ ServiceLeaseSweep
  BY <1>3, SuspendSpares, TerminateSpares DEF TTLSweep, ServiceLeaseSweep
<1>4. ~CleanRetention
  <2> SUFFICES ASSUME CleanRetention PROVE feed' = feed
    OBVIOUS
  <2>1. PICK expiring, oldEdges, oldSessions :
          RetentionCleanup(expiring, oldEdges, oldSessions)
    BY DEF CleanRetention
  <2> QED BY <2>1, Zenon DEF RetentionCleanup
<1>5. ~StartSome
  BY DEF StartSome, Start, StartInheriting
<1>6. ~\E e \in Edge, src, tgt \in Session, p \in Edge \cup {None}, g \in Grants :
          CreateDelegation(e, src, tgt, p, g)
  BY DEF CreateDelegation
<1>7. ~((\E q \in Record : HandleRevocation(q)) \/ Tick \/ UNCHANGED vars)
  BY DEF HandleRevocation, Tick, vars
<1> QED BY <1>1, <1>2, <1>3, <1>4, <1>5, <1>6, <1>7 DEF Next

\* For any sharing of authority records among sessions: what a suspension, an
\* end or a sweep sends for revocation is no record of a session that stays
\* active; the end of a delegation alone takes its target's record along.
THEOREM NoCollateralTheorem == Spec => NoCollateralRevocation
<1>1. TypeOK /\ [Next]_vars => [\A r \in feed' \ feed : Spared(r)]_vars
  BY NextSpares
<1>2. [\A r \in feed' \ feed : Spared(r)]_vars <=>
        [\A r \in feed' \ feed :
          \/ r \in UserRecord /\ \A s \in Active' : session'[s].subject # r
          \/ \E e \in ActiveEdges \ ActiveEdges' :
                session[edge[e].target].subject = r]_vars
  BY DEF Spared
<1> QED BY <1>1, <1>2, TypeTheorem, PTL DEF Spec, NoCollateralRevocation

-----------------------------------------------------------------------------
(* The live graph, its epoch and its chains *)

\* An edge is chained from one that has been created.
ParentsThere ==
    \A c \in Edge : edge[c].parent # None => edge[edge[c].parent].status # "absent"

\* The step creates no edge.
Thinning ==
    /\ LiveEdges' \subseteq LiveEdges
    /\ \A e \in Edge : /\ edge'[e].status = "absent" => edge[e].status = "absent"
                       /\ edge'[e].parent \in {edge[e].parent, None}
    /\ \A e \in LiveEdges' : /\ edge'[e].source = edge[e].source
                             /\ edge'[e].target = edge[e].target
    /\ ~PrunesChain =>
          /\ \A e \in LiveEdges' : edge'[e].parent = edge[e].parent
          /\ epoch' > epoch \/ now' # now \/ LiveGraph' = LiveGraph

\* The step creates edge n.
Growing(n) ==
    /\ edge[n].status = "absent"
    /\ now' = now
    /\ epoch' > epoch
    /\ \A e \in Edge \ {n} : edge'[e] = edge[e]
    /\ edge'[n].status = "active"
    /\ edge'[n].parent \in LiveEdges \cup {None}
    /\ edge'[n].source # edge'[n].target
    /\ \/ \A f \in LiveEdges : edge[f].source # edge'[n].target
       \/ ~WouldCreateCycle(edge'[n].source, edge'[n].target)

LEMMA SameGraphThins ==
    ASSUME UNCHANGED <<now, edge>>
    PROVE  Thinning
<1>1. LiveEdges' = LiveEdges
  BY DEF LiveEdges, ActiveEdges
<1>2. LiveGraph' = LiveGraph
  BY <1>1 DEF LiveGraph
<1> QED BY <1>1, <1>2 DEF Thinning

LEMMA CutThins ==
    ASSUME TypeOK, NEW cut, edge' = EdgesRevoked(cut), now' = now,
           epoch' > epoch \/ cut = {}
    PROVE  Thinning
<1>1. CASE cut = {}
  <2>1. edge' = edge
    BY <1>1 DEF TypeOK, EdgesRevoked
  <2> QED BY <2>1, SameGraphThins
<1>2. CASE epoch' > epoch
  <2>1. \A e \in Edge :
          /\ edge'[e].status \in {edge[e].status, "revoked"}
          /\ edge'[e].parent = edge[e].parent
          /\ edge'[e].grant = edge[e].grant
          /\ edge'[e].source = edge[e].source
          /\ edge'[e].target = edge[e].target
    BY DEF TypeOK, EdgesRevoked, EdgeRow
  <2>2. LiveEdges' \subseteq LiveEdges
    BY <2>1 DEF LiveEdges, ActiveEdges
  <2>3. LiveEdges' \subseteq Edge
    BY DEF LiveEdges, ActiveEdges
  <2> QED BY <1>2, <2>1, <2>2, <2>3 DEF Thinning
<1> QED BY <1>1, <1>2

LEMMA TerminateThins ==
    ASSUME TypeOK, NEW roots, NEW st, TerminateSubtree(roots, st)
    PROVE  Thinning
<1> PICK cut : /\ edge' = EdgesRevoked(cut) /\ now' = now
               /\ epoch' = IF cut = {} THEN epoch ELSE epoch + 1
  BY DEF TerminateSubtree
<1>1. epoch' > epoch \/ cut = {}
  BY DEF TypeOK
<1> QED BY <1>1, CutThins

LEMMA RevokeThins ==
    ASSUME TypeOK, NEW e \in Edge, RevokeDelegation(e)
    PROVE  Thinning
<1> PICK cut, severed : /\ edge' = EdgesRevoked(cut) /\ now' = now
                        /\ epoch' = IF severed = {} THEN epoch + 1 ELSE epoch + 2
  BY DEF RevokeDelegation
<1>1. epoch' > epoch
  BY DEF TypeOK
<1> QED BY <1>1, CutThins

\* Retention expires and prunes edges that are not live; it touches a live one
\* only by pruning a session of the edge it is chained from.
LEMMA RetentionThins ==
    ASSUME TypeOK, EdgeEndpointsLive, CleanRetention
    PROVE  Thinning
<1> PICK expiring \in SUBSET (ActiveEdges \ {e \in Edge : edge[e].grant.expires >= now}) :
    \E oldEdges \in SUBSET {e \in Edge : PrunableEdge(e, expiring)} :
    \E oldSessions \in SUBSET {s \in Session : PrunableSession(s)} :
        RetentionCleanup(expiring, oldEdges, oldSessions)
  BY DEF CleanRetention
<1> PICK oldEdges \in SUBSET {e \in Edge : PrunableEdge(e, expiring)},
         oldSessions \in SUBSET {s \in Session : PrunableSession(s)} :
        RetentionCleanup(expiring, oldEdges, oldSessions)
  OBVIOUS
<1> DEFINE orphaned == {f \in StoredEdges :
               edge[f].source \in oldSessions \/ edge[f].target \in oldSessions}
           dropped == oldEdges \cup orphaned
           kept(e) == [edge[e] EXCEPT
                          !.status = IF e \in expiring THEN "expired" ELSE @,
                          !.parent = IF @ \in dropped THEN None ELSE @]
<1>1. now' = now
  BY Zenon DEF RetentionCleanup
<1>2. session' = [s \in Session |->
          IF s \in oldSessions THEN NoSession("deleted") ELSE session[s]]
  BY Zenon DEF RetentionCleanup
<1>3. \A e \in Edge : edge'[e] = IF e \in dropped THEN NoEdge("deleted") ELSE kept(e)
  BY DEF RetentionCleanup
<1>4. \A e \in Edge :
        /\ edge[e] \in EdgeRow
        /\ kept(e).status = IF e \in expiring THEN "expired" ELSE edge[e].status
        /\ kept(e).parent = IF edge[e].parent \in dropped THEN None ELSE edge[e].parent
        /\ kept(e).grant = edge[e].grant
        /\ kept(e).source = edge[e].source /\ kept(e).target = edge[e].target
        /\ e \notin expiring /\ edge[e].parent \notin dropped => kept(e) = edge[e]
  BY DEF TypeOK, EdgeRow
<1> HIDE DEF kept, dropped
<1>5. \A e \in Edge : /\ edge'[e].status = "absent" => edge[e].status = "absent"
                      /\ edge'[e].parent \in {edge[e].parent, None}
  BY <1>3, <1>4 DEF NoEdge
<1>6. LiveEdges' \subseteq LiveEdges
  BY <1>1, <1>3, <1>4 DEF LiveEdges, ActiveEdges, NoEdge
<1>7. \A s \in oldSessions : s \in Ended /\ s \notin Ended' /\ s \notin Live
  BY <1>2 DEF PrunableSession, Ended, Live, With, NoSession
<1>8. \A e \in LiveEdges : /\ e \in Edge /\ edge[e].status = "active"
                           /\ ~(edge[e].grant.expires < now)
                           /\ edge[e].source \in Live /\ edge[e].target \in Live
  <2> SUFFICES ASSUME NEW e \in LiveEdges PROVE ~(edge[e].grant.expires < now)
    BY DEF LiveEdges, ActiveEdges, EdgeEndpointsLive
  <2>1. e \in Edge /\ edge[e].grant.expires \in Nat /\ now \in Nat
    BY DEF TypeOK, LiveEdges, ActiveEdges, EdgeRow, Grant
  <2> QED BY <2>1 DEF LiveEdges
<1>9. ASSUME NEW e \in LiveEdges PROVE e \notin expiring /\ e \notin dropped
  <2>1. e \notin expiring
    <3>1. \A f \in expiring : ~(edge[f].grant.expires >= now)
      BY DEF ActiveEdges
    <3>2. edge[e].grant.expires > now
      BY DEF LiveEdges
    <3>3. e \in Edge /\ edge[e].grant.expires \in Nat /\ now \in Nat
      BY DEF TypeOK, LiveEdges, ActiveEdges, EdgeRow, Grant
    <3> QED BY <3>1, <3>2, <3>3
  <2>2. e \notin oldEdges
    BY <1>8, <2>1 DEF PrunableEdge
  <2>3. e \notin orphaned
    BY <1>7, <1>8
  <2> QED BY <2>1, <2>2, <2>3 DEF dropped
<1>10. ASSUME ~PrunesChain, NEW e \in LiveEdges PROVE edge'[e] = edge[e]
  <2>1. edge[e].parent \notin oldEdges
    BY DEF PrunableEdge
  <2>2. edge[e].parent \notin orphaned
    <3> SUFFICES ASSUME edge[e].parent \in orphaned PROVE FALSE
      OBVIOUS
    <3>1. edge[e].parent \in Edge /\ edge[e].parent # None
      BY IdAssumption DEF StoredEdges
    <3> QED BY <1>7, <1>10, <3>1 DEF PrunesChain
  <2>3. edge[e].parent \notin dropped
    BY <2>1, <2>2 DEF dropped
  <2> QED BY <1>3, <1>4, <1>8, <1>9, <2>3
<1>11. ASSUME ~PrunesChain PROVE LiveEdges' = LiveEdges
  <2>1. LiveEdges \subseteq LiveEdges'
    BY <1>1, <1>8, <1>10, <1>11 DEF LiveEdges, ActiveEdges
  <2> QED BY <1>6, <2>1
<1>12. ASSUME ~PrunesChain PROVE LiveGraph' = LiveGraph
  BY <1>10, <1>11, <1>12 DEF LiveGraph
<1>13. \A e \in LiveEdges' : edge'[e].source = edge[e].source /\ edge'[e].target = edge[e].target
  BY <1>3, <1>4 DEF LiveEdges, ActiveEdges, NoEdge
<1> QED BY <1>5, <1>6, <1>10, <1>12, <1>13 DEF Thinning

\* Every step thins the graph out or adds one edge to it.
LEMMA NextThinsOrGrows ==
    TypeOK /\ EdgeEndpointsLive /\ [Next]_vars => Thinning \/ \E n \in Edge : Growing(n)
<1> DEFINE Goal == Thinning \/ \E n \in Edge : Growing(n)
<1> SUFFICES ASSUME TypeOK, EdgeEndpointsLive, [Next]_vars PROVE Goal
  OBVIOUS
<1>1. ASSUME NEW s \in Session,
             \/ Suspend(s) \/ Resume(s) \/ Terminate(s)
             \/ AttachLease(s) \/ Heartbeat(s)
      PROVE  Thinning
  BY <1>1, SameGraphThins, TerminateThins
     DEF Suspend, Resume, Terminate, AttachLease, Heartbeat, RenewLease, SuspendSubtree
<1>2. ASSUME NEW e \in Edge, RevokeDelegation(e) PROVE Thinning
  BY <1>2, RevokeThins
<1>3. CASE TTLSweep \/ ServiceLeaseSweep
  BY <1>3, SameGraphThins, TerminateThins DEF TTLSweep, ServiceLeaseSweep, SuspendSubtree
<1>4. CASE CleanRetention
  BY <1>4, RetentionThins
<1>5. ASSUME NEW s \in Session, NEW p \in Session \cup {None}, NEW a, NEW r, NEW l,
             NEW ttl, NEW how, NEW e \in Edge,
             StartInheriting(s, p, a, r, l, ttl, how, e)
      PROVE  Growing(e)
  <2>1. PICK f \in LiveEdges : edge' = [edge EXCEPT ![e] =
              [status |-> "active", source |-> p, target |-> s, parent |-> f,
               grant |-> edge[f].grant, revoked |-> 0]]
    BY <1>5 DEF StartInheriting
  <2>2. edge[e].status = "absent" /\ now' = now /\ epoch' = epoch + 1
    BY <1>5 DEF StartInheriting
  <2>3. session[s].status = "absent" /\ p \in Active
    BY <1>5 DEF StartInheriting, StartAllowed
  <2>4. p # s /\ \A g \in LiveEdges : edge[g].source # s
    BY <2>3 DEF EdgeEndpointsLive, LiveEdges, Live, Active, With
  <2>5. edge'[e].source = p /\ edge'[e].target = s /\ edge'[e].status = "active"
        /\ edge'[e].parent = f /\ \A g \in Edge \ {e} : edge'[g] = edge[g]
    BY <2>1 DEF TypeOK
  <2> QED BY <2>2, <2>4, <2>5 DEF TypeOK, Growing
<1>6. CASE StartSome
  <2>1. PICK s \in Session, p \in Session \cup {None}, a \in Application, r \in Record,
             l \in Lifecycles, ttl \in TTLs, how \in {"none", "inherit"} \cup Edge :
        \/ Start(s, p, a, r, l, ttl, how)
        \/ \E e \in Edge : StartInheriting(s, p, a, r, l, ttl, how, e)
    BY <1>6 DEF StartSome
  <2>2. CASE Start(s, p, a, r, l, ttl, how)
    BY <2>2, SameGraphThins DEF Start
  <2> QED BY <2>1, <2>2, <1>5
<1>7. ASSUME NEW e \in Edge, NEW src \in Session, NEW tgt \in Session,
             NEW p \in Edge \cup {None}, NEW g \in Grants,
             CreateDelegation(e, src, tgt, p, g)
      PROVE  Growing(e)
  <2>1. edge' = [edge EXCEPT ![e] =
              [status |-> "active", source |-> src, target |-> tgt, parent |-> p,
               grant |-> g, revoked |-> 0]]
    BY <1>7 DEF CreateDelegation
  <2>2. edge[e].status = "absent" /\ now' = now /\ epoch' = epoch + 1
    BY <1>7 DEF CreateDelegation
  <2>3. p \in LiveEdges \cup {None} /\ src # tgt /\ ~WouldCreateCycle(src, tgt)
    BY <1>7 DEF CreateDelegation
  <2>4. edge'[e].source = src /\ edge'[e].target = tgt /\ edge'[e].status = "active"
        /\ edge'[e].parent = p /\ \A f \in Edge \ {e} : edge'[f] = edge[f]
    BY <2>1 DEF TypeOK
  <2> QED BY <2>2, <2>3, <2>4 DEF TypeOK, Growing
<1>8. CASE (\E r \in Record : HandleRevocation(r)) \/ UNCHANGED vars
  BY <1>8, SameGraphThins DEF HandleRevocation, vars
<1>9. CASE Tick
  <2>1. edge' = edge /\ now' = now + 1 /\ now \in Nat
    BY <1>9 DEF Tick, TypeOK
  <2>2. \A e \in Edge : edge[e].grant.expires \in Nat
    BY DEF TypeOK, EdgeRow, Grant
  <2>3. LiveEdges' \subseteq LiveEdges
    BY <2>1, <2>2 DEF LiveEdges, ActiveEdges
  <2> QED BY <2>1, <2>3 DEF Thinning
<1> HIDE DEF Goal
<1>10. Thinning => Goal
  BY DEF Goal
<1>11. \A n \in Edge : Growing(n) => Goal
  BY DEF Goal
<1> QED BY <1>1, <1>2, <1>3, <1>4, <1>6, <1>7, <1>8, <1>9, <1>10, <1>11 DEF Goal, Next

LEMMA NextParents ==
    TypeOK /\ EdgeEndpointsLive /\ ParentsThere /\ [Next]_vars => ParentsThere'
<1> SUFFICES ASSUME TypeOK, EdgeEndpointsLive, ParentsThere, [Next]_vars,
                    NEW c \in Edge, edge'[c].parent # None
             PROVE  edge'[edge'[c].parent].status # "absent"
  BY DEF ParentsThere
<1>1. \A e \in Edge : edge[e].parent \in Edge \cup {None}
  BY DEF TypeOK, EdgeRow
<1>2. CASE Thinning
  BY <1>1, <1>2 DEF Thinning, ParentsThere
<1>3. ASSUME NEW n \in Edge, Growing(n) PROVE edge'[edge'[c].parent].status # "absent"
  <2>1. edge'[c].parent \in Edge /\ edge[edge'[c].parent].status # "absent"
    BY <1>1, <1>3 DEF Growing, ParentsThere, LiveEdges, ActiveEdges
  <2> QED BY <1>3, <2>1 DEF Growing
<1> QED BY <1>2, <1>3, NextThinsOrGrows

LEMMA ParentsAlways == Spec => []ParentsThere
<1>1. Init => ParentsThere
  BY DEF Init, ParentsThere, NoEdge
<1>2. Safe => EdgeEndpointsLive
  BY DEF Safe
<1> QED BY <1>1, <1>2, SafeAlways, NextParents, PTL DEF Spec

\* A lineage contains its edge and whatever its edges are chained from, and it
\* is the least such set.
LineagesClosed ==
    \A e \in Edge :
        /\ e \in Lineage(e)
        /\ Lineage(e) \subseteq Edge
        /\ \A c \in Lineage(e) : edge[c].parent \in Lineage(e) \cup {None}

LEMMA LineageClosed == TypeOK => LineagesClosed
<1> SUFFICES ASSUME TypeOK, NEW e \in Edge, NEW c \in Lineage(e), edge[c].parent # None
             PROVE  edge[c].parent \in Lineage(e)
  BY DEF LineagesClosed, Lineage
<1>1. c \in Edge /\ edge[c].parent \in Edge
  BY DEF TypeOK, EdgeRow, Lineage
<1> SUFFICES ASSUME NEW T \in SUBSET Edge, e \in T,
                    \A d \in T : edge[d].parent \in T \cup {None}
             PROVE  edge[c].parent \in T
  BY <1>1 DEF Lineage
<1>2. c \in T
  BY DEF Lineage
<1> QED BY <1>2

LEMMA LineageLeast ==
    ASSUME NEW e \in Edge, NEW T \in SUBSET Edge, e \in T,
           \A c \in T : edge[c].parent \in T \cup {None}
    PROVE  Lineage(e) \subseteq T
BY DEF Lineage

\* A chain that is whole after the step, less the edge the step created, was a
\* whole chain before it.
LEMMA NextBroken ==
    ASSUME TypeOK, TypeOK', EdgeEndpointsLive, ParentsThere, [Next]_vars, ~PrunesChain,
           NEW e \in Edge, edge[e].status # "absent", LineageLive(e)'
    PROVE  LineageLive(e)
<1> PICK T : T = Lineage(e)'
  OBVIOUS
<1>1. LineagesClosed'
  BY LineageClosed, PTL
<1>2. /\ e \in T /\ T \subseteq Edge
      /\ \A c \in T : edge'[c].parent \in T \cup {None}
  BY <1>1 DEF LineagesClosed
<1>3. T \subseteq LiveEdges'
  BY DEF LineageLive
<1>4. CASE Thinning
  <2>1. \A c \in T : edge[c].parent \in T \cup {None}
    BY <1>2, <1>3, <1>4 DEF Thinning
  <2>2. Lineage(e) \subseteq T
    BY <1>2, <2>1, LineageLeast
  <2> QED BY <1>3, <1>4, <2>2 DEF Thinning, LineageLive
<1>5. ASSUME NEW n \in Edge, Growing(n) PROVE LineageLive(e)
  <2> DEFINE S == T \ {n}
  <2>1. e \in S /\ S \in SUBSET Edge
    BY <1>2, <1>5 DEF Growing
  <2>2. \A c \in S : edge[c].parent \in S \cup {None}
    BY <1>2, <1>5 DEF Growing, ParentsThere
  <2>3. S \subseteq LiveEdges
    BY <1>2, <1>3, <1>5 DEF Growing, LiveEdges, ActiveEdges
  <2> HIDE DEF S
  <2>4. Lineage(e) \subseteq S
    BY <2>1, <2>2, LineageLeast
  <2> QED BY <2>3, <2>4 DEF LineageLive
<1> QED BY <1>4, <1>5, NextThinsOrGrows

\* Whatever changes the live edges, their grants or their chains, other than
\* the clock and the pruning of a session a live chain passes through, raises
\* the graph epoch.
THEOREM EpochTheorem == Spec => EpochTracksGraph
<1>1. TypeOK /\ Safe /\ [Next]_vars
        => [LiveGraph' # LiveGraph /\ now' = now /\ ~PrunesChain => epoch' > epoch]_vars
  <2> SUFFICES ASSUME TypeOK, EdgeEndpointsLive, [Next]_vars, ~PrunesChain,
                      LiveGraph' # LiveGraph, now' = now
               PROVE  epoch' > epoch
    BY DEF Safe
  <2> QED BY NextThinsOrGrows DEF Thinning, Growing
<1> QED BY <1>1, SafeAlways, PTL DEF Spec, EpochTracksGraph

\* A chain that lost an edge stays broken, whatever happens, except that the
\* retention job prunes a session a live chain passes through.
THEOREM BrokenLineageTheorem == Spec => BrokenLineageStaysBroken
<1>1. TypeOK /\ TypeOK' /\ Safe /\ ParentsThere /\ [Next]_vars
        => [\A e \in Edge : edge[e].status # "absent" /\ ~LineageLive(e) /\ ~PrunesChain
                             => ~LineageLive(e)']_vars
  <2> SUFFICES ASSUME TypeOK, TypeOK', EdgeEndpointsLive, ParentsThere, [Next]_vars,
                      ~PrunesChain, NEW e \in Edge, edge[e].status # "absent",
                      LineageLive(e)'
               PROVE  LineageLive(e)
    BY DEF Safe
  <2> QED BY NextBroken
<1> QED BY <1>1, SafeAlways, ParentsAlways, PTL DEF Spec, BrokenLineageStaysBroken

-----------------------------------------------------------------------------
(* Cycles *)

LEMMA LeastThere ==
    ASSUME NEW S \in SUBSET Nat, S # {}
    PROVE  \E x \in S : \A y \in S : x <= y
<1> DEFINE R == OpToRel(<, Nat)
<1>1. IsWellFoundedOn(R, Nat)
  BY NatLessThanWellFounded
<1>2. \A x, y \in Nat : y < x => <<y, x>> \in R
  BY DEF OpToRel
<1> HIDE DEF R
<1>3. PICK x \in S : \A y \in S : ~(<<y, x>> \in R)
  BY <1>1, WFMin
<1>4. ASSUME NEW y \in S PROVE x <= y
  <2>1. x \in Nat /\ y \in Nat /\ ~(<<y, x>> \in R)
    BY <1>3
  <2>2. ~(y < x)
    BY <1>2, <2>1
  <2> QED BY <2>1, <2>2
<1> QED BY <1>4

\* The first and the last place of an edge on a path.
LEMMA FirstAndLast ==
    ASSUME NEW n \in Nat, NEW I \in SUBSET (1..n), I # {}
    PROVE  \E i, j \in I : \A k \in I : j <= k /\ k <= i
<1>1. PICK j \in I : \A k \in I : j <= k
  <2>1. I \in SUBSET Nat
    OBVIOUS
  <2> QED BY <2>1, LeastThere
<1> DEFINE R == {n - k : k \in I}
<1>2. R \in SUBSET Nat /\ R # {}
  OBVIOUS
<1>3. PICK m \in R : \A k \in R : m <= k
  <2> HIDE DEF R
  <2> QED BY <1>2, LeastThere
<1>4. PICK i \in I : m = n - i
  BY <1>3
<1>5. \A k \in I : k <= i
  <2> TAKE k \in I
  <2>1. n - i <= n - k
    BY <1>3, <1>4
  <2> QED BY <2>1
<1> QED BY <1>1, <1>5

\* Edge x lies on the closed path p of edges of Es, which run as from and to
\* say.
OnCycle(x, p, n, Es, from, to) ==
    /\ n \in Nat \ {0}
    /\ p \in [1..n -> Es]
    /\ \A k \in 1..(n - 1) : from[p[k + 1]] = to[p[k]]
    /\ from[p[1]] = to[p[n]]
    /\ from[x] # to[x]
    /\ \E k \in 1..n : p[k] = x

\* A path of fewer than n edges from where x ends to where it begins.
WayBack(x, n, Es, from, to) ==
    \E len \in 1..(n - 1) : \E q \in [1..len -> Es \ {x}] :
        /\ \A k \in 1..(len - 1) : from[q[k + 1]] = to[q[k]]
        /\ from[q[1]] = to[x]
        /\ to[q[len]] = from[x]

\* What follows the last x on a closed path, and then what precedes the first
\* one, lead from where x ends to where it begins.
LEMMA WayRound ==
    ASSUME NEW x, NEW p, NEW n, NEW Es, NEW from, NEW to, OnCycle(x, p, n, Es, from, to)
    PROVE  WayBack(x, n, Es, from, to)
<1> USE DEF OnCycle
<1> DEFINE I == {k \in 1..n : p[k] = x}
<1>1. PICK i, j \in I : \A k \in I : j <= k /\ k <= i
  <2>1. I \in SUBSET (1..n) /\ I # {}
    OBVIOUS
  <2> HIDE DEF I
  <2> QED BY <2>1, FirstAndLast
<1>2. /\ i \in 1..n /\ j \in 1..n /\ j <= i
      /\ p[i] = x /\ p[j] = x
      /\ \A k \in 1..n : k < j \/ k > i => p[k] # x
  BY <1>1
<1> HIDE DEF I
<1> DEFINE len == (n - i) + (j - 1)
           q == [m \in 1..len |-> IF m <= n - i THEN p[i + m] ELSE p[m - (n - i)]]
<1>3. len \in 0..(n - 1)
  BY <1>2
<1>4. len # 0
  <2> SUFFICES ASSUME len = 0 PROVE FALSE
    OBVIOUS
  <2>1. i = n /\ j = 1
    BY <1>2
  <2> QED BY <1>2, <2>1
<1>5. q \in [1..len -> Es \ {x}]
  <2> SUFFICES ASSUME NEW m \in 1..len PROVE q[m] \in Es \ {x}
    OBVIOUS
  <2>1. CASE m <= n - i
    <3>1. i + m \in 1..n /\ i + m > i
      BY <1>2, <2>1
    <3> QED BY <1>2, <2>1, <3>1
  <2>2. CASE ~(m <= n - i)
    <3>1. m - (n - i) \in 1..n /\ m - (n - i) < j
      BY <1>2, <2>2
    <3> QED BY <1>2, <2>2, <3>1
  <2> QED BY <2>1, <2>2
<1>6. ASSUME NEW k \in 1..(len - 1) PROVE from[q[k + 1]] = to[q[k]]
  <2>0. k \in 1..len /\ k + 1 \in 1..len
    BY <1>3
  <2>1. CASE k + 1 <= n - i
    <3>1. i + k \in 1..(n - 1) /\ q[k] = p[i + k] /\ q[k + 1] = p[(i + k) + 1]
      BY <1>2, <2>0, <2>1
    <3> QED BY <3>1
  <2>2. CASE k = n - i
    <3>1. q[k] = p[n] /\ q[k + 1] = p[1]
      BY <1>2, <2>0, <2>2
    <3> QED BY <3>1
  <2>3. CASE k > n - i
    <3>1. /\ k - (n - i) \in 1..(n - 1)
          /\ q[k] = p[k - (n - i)] /\ q[k + 1] = p[(k - (n - i)) + 1]
      BY <1>2, <2>0, <2>3
    <3> QED BY <3>1
  <2> QED BY <1>2, <2>1, <2>2, <2>3
<1>7. from[q[1]] = to[x]
  <2>1. CASE i = n
    <3>1. q[1] = p[1]
      BY <1>2, <1>3, <1>4, <2>1
    <3> QED BY <1>2, <2>1, <3>1
  <2>2. CASE i < n
    <3>1. q[1] = p[i + 1] /\ i \in 1..(n - 1)
      BY <1>2, <1>3, <1>4, <2>2
    <3> QED BY <1>2, <3>1
  <2> QED BY <1>2, <2>1, <2>2
<1>8. to[q[len]] = from[x]
  <2>1. CASE j = 1
    <3>1. q[len] = p[n]
      BY <1>2, <1>3, <1>4, <2>1
    <3> QED BY <1>2, <2>1, <3>1
  <2>2. CASE j > 1
    <3>1. q[len] = p[j - 1] /\ j - 1 \in 1..(n - 1) /\ (j - 1) + 1 = j
      BY <1>2, <1>3, <1>4, <2>2
    <3> QED BY <1>2, <3>1
  <2> QED BY <1>2, <2>1, <2>2
<1>9. len \in 1..(n - 1)
  BY <1>3, <1>4
<1> HIDE DEF len, q, OnCycle
<1> QED BY <1>5, <1>6, <1>7, <1>8, <1>9 DEF WayBack

LEMMA NextNoCycle ==
    ASSUME TypeOK, TypeOK', EdgeEndpointsLive, NoShortCycle, [Next]_vars
    PROVE  NoShortCycle'
<1> SUFFICES ASSUME NEW n \in 1..(MAX_DEPTH + 1), NEW p \in Paths(n, LiveEdges)',
                    edge'[p[n]].target = edge'[p[1]].source
             PROVE  FALSE
  BY DEF NoShortCycle
<1>0. /\ LiveEdges \subseteq Edge /\ LiveEdges' \subseteq Edge
      /\ n \in Nat \ {0} /\ MAX_DEPTH \in Nat
      /\ p \in [1..n -> LiveEdges']
      /\ \A i \in 1..(n - 1) : edge'[p[i + 1]].source = edge'[p[i]].target
      /\ \A i \in 1..(n - 1) : i \in 1..n /\ i + 1 \in 1..n
  BY MaxDepthAssumption DEF LiveEdges, ActiveEdges, Paths
<1>1. ASSUME \A i \in 1..n : /\ p[i] \in LiveEdges
                             /\ edge'[p[i]].source = edge[p[i]].source
                             /\ edge'[p[i]].target = edge[p[i]].target
      PROVE  FALSE
  <2>1. p \in Paths(n, LiveEdges)
    BY <1>0, <1>1 DEF Paths
  <2>2. edge[p[n]].target = edge[p[1]].source
    BY <1>0, <1>1
  <2> QED BY <2>1, <2>2 DEF NoShortCycle
<1>2. CASE Thinning
  BY <1>0, <1>1, <1>2 DEF Thinning
<1>3. ASSUME NEW x \in Edge, Growing(x) PROVE FALSE
  <2>1. \A e \in LiveEdges' \ {x} : e \in LiveEdges /\ edge'[e] = edge[e]
    BY <1>0, <1>3 DEF Growing, LiveEdges, ActiveEdges
  <2>2. CASE ~\E k \in 1..n : p[k] = x
    BY <1>0, <1>1, <2>1, <2>2
  <2>3. CASE \E k \in 1..n : p[k] = x
    <3>0. PICK from, to, live : /\ from = [e \in Edge |-> edge'[e].source]
                                /\ to = [e \in Edge |-> edge'[e].target]
                                /\ live = LiveEdges'
      OBVIOUS
    <3>1. \A k \in 1..n : p[k] \in Edge
      BY <1>0
    <3>2. \A k \in 1..(n - 1) : from[p[k + 1]] = to[p[k]]
      BY <1>0, <3>0, <3>1
    <3>3. from[p[1]] = to[p[n]]
      BY <1>0, <3>0, <3>1
    <3>4. from[x] # to[x] /\ from[x] = edge'[x].source /\ to[x] = edge'[x].target
      BY <1>3, <3>0 DEF Growing
    <3>5. \A e \in LiveEdges' \ {x} : from[e] = edge[e].source /\ to[e] = edge[e].target
      BY <1>0, <2>1, <3>0
    <3>cycle. OnCycle(x, p, n, live, from, to)
      BY <1>0, <2>3, <3>0, <3>2, <3>3, <3>4 DEF OnCycle
    <3>back. WayBack(x, n, live, from, to)
      BY <3>cycle, WayRound
    <3>6. PICK len \in 1..(n - 1) : \E q \in [1..len -> live \ {x}] :
               /\ \A k \in 1..(len - 1) : from[q[k + 1]] = to[q[k]]
               /\ from[q[1]] = to[x]
               /\ to[q[len]] = from[x]
      BY <3>back DEF WayBack
    <3>7. PICK q \in [1..len -> live \ {x}] :
               /\ \A k \in 1..(len - 1) : from[q[k + 1]] = to[q[k]]
               /\ from[q[1]] = to[x]
               /\ to[q[len]] = from[x]
      BY <3>6
    <3>8. len \in 1..MAX_DEPTH /\ 1 \in 1..len /\ len \in 1..len
          /\ \A k \in 1..(len - 1) : k \in 1..len /\ k + 1 \in 1..len
      BY <1>0
    <3>9. \A k \in 1..len : q[k] \in LiveEdges' \ {x} /\ q[k] \in LiveEdges
      BY <2>1, <3>0, <3>7
    <3>10. q \in [1..len -> LiveEdges]
      BY <3>7, <3>9
    <3>11. q \in Paths(len, LiveEdges)
      BY <3>5, <3>7, <3>8, <3>9, <3>10 DEF Paths
    <3>12. edge[q[1]].source = edge'[x].target /\ edge[q[len]].target = edge'[x].source
      BY <3>4, <3>5, <3>7, <3>8, <3>9
    <3>13. ~WouldCreateCycle(edge'[x].source, edge'[x].target)
      BY <1>3, <3>8, <3>9, <3>12 DEF Growing
    <3>14. q[len] \in Downstream({f \in LiveEdges : edge[f].source = edge'[x].target},
                                 LiveEdges)
      BY <3>8, <3>9, <3>11, <3>12 DEF Downstream
    <3> QED BY <3>12, <3>13, <3>14 DEF WouldCreateCycle
  <2> QED BY <2>2, <2>3
<1> QED BY <1>2, <1>3, NextThinsOrGrows

\* However many edges there are and however long the live paths grow, no
\* sequence of delegations, inherited copies, revocations and retention passes
\* closes a cycle of at most MAX_DEPTH + 1 live edges.
THEOREM NoShortCycleTheorem == Spec => []NoShortCycle
<1>1. Init => NoShortCycle
  BY MaxDepthAssumption DEF Init, NoShortCycle, Paths, LiveEdges, ActiveEdges, NoEdge
<1>2. Safe => EdgeEndpointsLive
  BY DEF Safe
<1>3. TypeOK /\ TypeOK' /\ EdgeEndpointsLive /\ NoShortCycle /\ [Next]_vars => NoShortCycle'
  BY NextNoCycle
<1> QED BY <1>1, <1>2, <1>3, SafeAlways, PTL DEF Spec
=============================================================================
