-------------------------- MODULE DelegationProofs --------------------------
(***************************************************************************)
(* Proofs about delegated authority. DelegationChain, for any scopes,      *)
(* resources, grants, ttls and chain length: one accepted link narrows     *)
(* (LinkNarrows) and narrowing is transitive; the resource part of a link  *)
(* needs the parent to have resolved its own resources, so the inductive   *)
(* invariant adds that the newest edge passed resolveResourceAuthority.    *)
(* DelegatedToken, for any graph, any number of handlers, epochs and       *)
(* tokens: every edge of a token is active, or the epoch has moved on      *)
(* since it was read, or the edge is a leaf that was gone before           *)
(* (TokensJustified).                                                      *)
(***************************************************************************)
EXTENDS DelegationChain, DelegatedToken, TLAPS

\* resourcesNarrowParent is sound for the token service's reading: a child it
\* passes allows no resource its parent does not, whichever of resource_id
\* and constraints.resources either of them uses.
LEMMA ResourceLinkNarrows ==
    ASSUME NEW p \in Grant, NEW c \in Grant,
           ResolveResourceAuthority(p), ResourcesNarrowParent(p, c)
    PROVE  AllowedResources(c) \subseteq AllowedResources(p)
<1> SUFFICES ASSUME NEW r \in Resource, DelegationAllowsResource(c, r)
             PROVE  DelegationAllowsResource(p, r)
  BY DEF AllowedResources
<1>1. CASE p.resource # None
  <2>1. r = p.resource
    BY <1>1, NoneAssumption
       DEF ResourcesNarrowParent, DelegationAllowsResource, Named, Grant
  <2> QED
    BY <1>1, <2>1 DEF ResolveResourceAuthority, DelegationAllowsResource
<1>2. CASE p.resource = None
  BY <1>2 DEF ResourcesNarrowParent, DelegationAllowsResource, Named, Grant
<1> QED BY <1>1, <1>2

\* Grant c conveys no more than grant p.
Narrower(c, p) ==
    /\ c.scopes \subseteq p.scopes
    /\ AllowedResources(c) \subseteq AllowedResources(p)
    /\ c.expires <= p.expires
    /\ c.hops <= p.hops
    /\ p.ttl # None => c.ttl # None /\ c.ttl <= p.ttl

\* Narrowing composes along a chain.
LEMMA NarrowerTransitive ==
    ASSUME NEW a \in Grant, NEW b \in Grant, NEW c \in Grant,
           Narrower(b, a), Narrower(c, b)
    PROVE  Narrower(c, a)
<1>1. c.hops <= a.hops /\ c.expires <= a.expires
  BY MaxDepthAssumption DEF Narrower, Grant
<1>2. a.ttl # None => c.ttl # None /\ c.ttl <= a.ttl
  BY NoneAssumption DEF Narrower, Grant
<1>3. c.scopes \subseteq a.scopes /\ AllowedResources(c) \subseteq AllowedResources(a)
  BY DEF Narrower
<1> QED BY <1>1, <1>2, <1>3 DEF Narrower

\* One link accepted by parentAllowsDelegation narrows.
LEMMA LinkNarrows ==
    ASSUME NEW p \in Grant, NEW c \in Grant,
           ResolveResourceAuthority(p), ParentAllowsDelegation(p, c)
    PROVE  Narrower(c, p)
<1>1. AllowedResources(c) \subseteq AllowedResources(p)
  BY ResourceLinkNarrows DEF ParentAllowsDelegation
<1>2. c.hops <= p.hops
  BY MaxDepthAssumption DEF ParentAllowsDelegation, Grant
<1> QED BY <1>1, <1>2 DEF ParentAllowsDelegation, Narrower

IInv ==
    /\ TypeOK
    /\ Narrower(last, root)
    /\ ResolveResourceAuthority(last)

LEMMA InitIInv == Init => IInv
<1> SUFFICES ASSUME Init PROVE IInv
  OBVIOUS
<1>1. TypeOK
  BY GrantsAssumption, MaxLengthAssumption DEF Init, TypeOK
<1>2. Narrower(last, root)
  <2>1. root \in Grant /\ last = root
    BY <1>1 DEF Init, TypeOK
  <2>2. root.expires \in Nat /\ root.hops \in Nat /\ root.ttl \in Nat \cup {None}
    BY <2>1, MaxDepthAssumption DEF Grant
  <2> QED BY <2>1, <2>2 DEF Narrower
<1> QED BY <1>1, <1>2 DEF IInv, Init, RequestAccepted

LEMMA NextIInv == IInv /\ [Next]_vars => IInv'
<1> SUFFICES ASSUME IInv, [Next]_vars PROVE IInv'
  OBVIOUS
<1> USE DEF IInv
<1>1. ASSUME NEW g \in Grants, NEW a \in Application, Delegate(g, a)
      PROVE  IInv'
  <2>1. g \in Grant /\ last \in Grant /\ root \in Grant
    BY GrantsAssumption DEF TypeOK
  <2>2. TypeOK'
    BY <1>1, <2>1, MaxLengthAssumption DEF Delegate, TypeOK
  <2>3. Narrower(g, last)
    BY <1>1, <2>1, LinkNarrows DEF Delegate
  <2>4. Narrower(g, root)
    BY <2>1, <2>3, NarrowerTransitive
  <2>5. last' = g /\ root' = root /\ ResolveResourceAuthority(g)
    BY <1>1 DEF Delegate, RequestAccepted
  <2>6. Narrower(last, root)' /\ ResolveResourceAuthority(last)'
    BY <2>4, <2>5 DEF Narrower, AllowedResources, DelegationAllowsResource,
                      ResolveResourceAuthority
  <2> QED BY <2>2, <2>6
<1>2. CASE Inherit
  BY <1>2, MaxLengthAssumption
     DEF Inherit, TypeOK, Narrower, AllowedResources,
         DelegationAllowsResource, ResolveResourceAuthority
<1>3. CASE UNCHANGED vars
  BY <1>3 DEF vars, TypeOK, Narrower, AllowedResources,
              DelegationAllowsResource, ResolveResourceAuthority
<1> QED BY <1>1, <1>2, <1>3 DEF Next

\* Every edge of every chain the coordinator can build conveys no more than
\* the chain's first edge: what parentAllowsDelegation checks link by link is
\* enough for the token service to look at the last edge only.
THEOREM ChainNarrowsTheorem == Spec => []ChainNarrows
<1>1. IInv => ChainNarrows
  BY DEF IInv, Narrower, ChainNarrows
<1> QED BY InitIInv, NextIInv, <1>1, PTL DEF Spec

\* No mandate is minted at a depth beyond the first edge's max_hops, although
\* inherited copies do not spend hops in the coordinator.
THEOREM MintedDepthTheorem == Spec => []MintedDepthBounded
<1>1. IInv => MintedDepthBounded
  <2> SUFFICES ASSUME IInv, StsAccepts PROVE length <= root.hops
    BY DEF MintedDepthBounded
  <2>1. /\ length \in Nat /\ last.hops \in Nat /\ root.hops \in Nat
        /\ length <= last.hops /\ last.hops <= root.hops
    BY MaxDepthAssumption, MaxLengthAssumption
       DEF IInv, TypeOK, Grant, Narrower, StsAccepts, LineageResolves
  <2> QED BY <2>1
<1> QED BY InitIInv, NextIInv, <1>1, PTL DEF Spec

\* Type correctness of the chain.
THEOREM ChainTypeTheorem == Spec => []TypeOK
<1>1. IInv => TypeOK
  BY DEF IInv
<1> QED BY InitIInv, NextIInv, <1>1, PTL DEF Spec

-----------------------------------------------------------------------------
(* Tokens minted on an edge *)

\* The shapes of DelegatedToken's variables; the epoch has no bound here.
Anchors == Edge \cup Session

Reads == [at    : {"idle", "source", "target", "lineage", "epoch", "chain"},
          leaf  : Edge \cup {Idle.leaf},
          path  : SUBSET Edge,
          left  : SUBSET Edge,
          epoch : Nat,
          late  : BOOLEAN]

TokenShapes ==
    /\ active \subseteq Edge /\ live \subseteq Session
    /\ epoch \in Nat
    /\ sent \in [epochs : SUBSET Nat, anchors : SUBSET SUBSET Anchors]
    /\ seen \in [epochs : SUBSET Nat, anchors : SUBSET SUBSET Anchors]
    /\ store \in [epoch : Nat, marks : SUBSET Anchors]
    /\ mint \in [Mint -> Reads]
    /\ \A t \in tokens : t.epoch \in Nat

\* The latest epoch has been sent, and the store is at least at every epoch
\* its consumer has processed.
EpochHeard ==
    /\ epoch > 0 => epoch \in sent.epochs
    /\ \A n \in seen.epochs : n <= store.epoch

\* What justifies edge f in a token that carries graph epoch n: f is active,
\* or the epoch has moved on since, or f is a leaf that was gone by then.
Justified(f, leaf, n, late) == f \in active \/ n < epoch \/ (f = leaf /\ late)

HandlersJustified ==
    \A m \in Mint :
        /\ mint[m].epoch <= epoch
        /\ mint[m].at = "epoch" => mint[m].path \ mint[m].left \subseteq {mint[m].leaf}
        /\ mint[m].at = "chain" => \A f \in mint[m].path \ mint[m].left :
               Justified(f, mint[m].leaf, mint[m].epoch, mint[m].late)

TokensJustified ==
    \A t \in tokens : /\ t.epoch <= epoch
                      /\ \A f \in t.path : Justified(f, t.leaf, t.epoch, t.late)

MintInv == TokenShapes /\ EpochHeard /\ HandlersJustified /\ TokensJustified

LEMMA InitMint == TokenInit => MintInv
<1> SUFFICES ASSUME TokenInit PROVE MintInv
  OBVIOUS
<1>1. Idle \in Reads /\ Idle.epoch = 0 /\ Idle.at = "idle"
  BY DEF Idle, Reads
<1>2. TokenShapes
  BY <1>1 DEF TokenInit, NoMessages, TokenShapes
<1>3. EpochHeard /\ HandlersJustified /\ TokensJustified
  BY <1>1 DEF TokenInit, NoMessages, EpochHeard, HandlersJustified, TokensJustified
<1> QED BY <1>2, <1>3 DEF MintInv

\* The coordinator's steps: no edge goes without a new epoch, which is sent.
CutStep ==
    /\ active' \subseteq active /\ live' \subseteq live
    /\ epoch' \in Nat /\ epoch' >= epoch
    /\ active' = active \/ epoch' > epoch
    /\ epoch' = epoch \/ epoch' \in sent'.epochs
    /\ sent.epochs \subseteq sent'.epochs
    /\ sent' \in [epochs : SUBSET Nat, anchors : SUBSET SUBSET Anchors]
    /\ UNCHANGED <<seen, store, mint, tokens>>

LEMMA SendShape ==
    ASSUME TokenShapes, NEW E \in SUBSET Nat, NEW A \in SUBSET SUBSET Anchors, Send(E, A)
    PROVE  /\ sent' \in [epochs : SUBSET Nat, anchors : SUBSET SUBSET Anchors]
           /\ sent'.epochs = sent.epochs \cup E
BY DEF TokenShapes, Send

LEMMA TerminateCuts ==
    ASSUME TokenShapes, NEW s \in Session, Terminate(s)
    PROVE  CutStep
<1> DEFINE E == IF EdgesAt({s}) = {} THEN {} ELSE {epoch + 1}
           A == IF s \in Exempt THEN {} ELSE {{s}}
<1>1. E \in SUBSET Nat /\ A \in SUBSET SUBSET Anchors
  BY DEF TokenShapes, Anchors
<1>2. Send(E, A)
  BY DEF Terminate
<1>3. /\ sent' \in [epochs : SUBSET Nat, anchors : SUBSET SUBSET Anchors]
      /\ sent'.epochs = sent.epochs \cup E
  BY <1>1, <1>2, SendShape
<1>4. /\ active' = active \ EdgesAt({s})
      /\ epoch' = IF EdgesAt({s}) = {} THEN epoch ELSE epoch + 1
  BY DEF Terminate
<1>5. live' \subseteq live /\ UNCHANGED <<seen, store, mint, tokens>>
  BY DEF Terminate
<1> HIDE DEF A
<1>6. CASE EdgesAt({s}) = {}
  <2>1. active' = active /\ epoch' = epoch
    BY <1>4, <1>6
  <2> QED BY <1>3, <1>5, <2>1 DEF CutStep, TokenShapes
<1>7. CASE EdgesAt({s}) # {}
  <2>1. active' \subseteq active /\ epoch' = epoch + 1 /\ epoch + 1 \in E
    BY <1>4, <1>7
  <2> HIDE DEF E
  <2> QED BY <1>3, <1>5, <2>1 DEF CutStep, TokenShapes
<1> QED BY <1>6, <1>7

LEMMA RevokeCuts ==
    ASSUME TokenShapes, NEW e \in Edge, NEW R \in SUBSET Session, Revoke(e, R)
    PROVE  CutStep
<1> DEFINE S == {Target[f] : f \in Downstream(e)} \cap live
           E == {epoch', epoch + 1}
           A == {{s} : s \in S \ Exempt} \cup {{s, e} : s \in R}
<1>0. /\ active' \subseteq active /\ live' \subseteq live
      /\ epoch' = epoch + 1 \/ epoch' = epoch + 2
      /\ UNCHANGED <<seen, store, mint, tokens>>
  BY DEF Revoke
<1>1. E \in SUBSET Nat /\ A \in SUBSET SUBSET Anchors
  BY <1>0 DEF TokenShapes, Anchors
<1>2. Send(E, A)
  BY DEF Revoke
<1> HIDE DEF A, S
<1>3. /\ sent' \in [epochs : SUBSET Nat, anchors : SUBSET SUBSET Anchors]
      /\ sent'.epochs = sent.epochs \cup E
  BY <1>1, <1>2, SendShape
<1> QED BY <1>0, <1>3 DEF CutStep, TokenShapes

LEMMA OtherCuts ==
    ASSUME TokenShapes, (\E B \in SUBSET Edge : ExpireEdges(B)) \/ OtherChange
    PROVE  CutStep
<1>1. /\ active' \subseteq active /\ live' = live /\ epoch' = epoch + 1
      /\ Send({epoch + 1}, {})
      /\ UNCHANGED <<seen, store, mint, tokens>>
  BY DEF ExpireEdges, OtherChange
<1>2. {epoch + 1} \in SUBSET Nat /\ {} \in SUBSET SUBSET Anchors
  BY DEF TokenShapes
<1>3. /\ sent' \in [epochs : SUBSET Nat, anchors : SUBSET SUBSET Anchors]
      /\ sent'.epochs = sent.epochs \cup {epoch + 1}
  BY <1>1, <1>2, SendShape
<1> QED BY <1>1, <1>3 DEF CutStep, TokenShapes

LEMMA CutKeeps ==
    ASSUME MintInv, CutStep
    PROVE  MintInv'
<1>1. TokenShapes'
  BY DEF MintInv, TokenShapes, CutStep
<1>2. EpochHeard'
  BY DEF MintInv, TokenShapes, EpochHeard, CutStep
<1>3. \A f, leaf, late : \A n \in Nat :
        n <= epoch /\ Justified(f, leaf, n, late) => Justified(f, leaf, n, late)'
  BY DEF MintInv, TokenShapes, CutStep, Justified
<1>4. HandlersJustified'
  <2>1. \A m \in Mint : mint[m].epoch \in Nat
    BY DEF MintInv, TokenShapes, Reads
  <2> QED BY <1>3, <2>1 DEF MintInv, HandlersJustified, TokenShapes, CutStep
<1>5. TokensJustified'
  BY <1>3 DEF MintInv, TokensJustified, TokenShapes, CutStep
<1> QED BY <1>1, <1>2, <1>4, <1>5 DEF MintInv

\* A handler reads: what is left of its chain is justified as it goes.
LEMMA ReadKeeps ==
    ASSUME MintInv, UNCHANGED <<active, live, epoch, sent, seen, store, tokens>>,
           NEW m \in Mint, NEW r \in Reads, mint' = [mint EXCEPT ![m] = r],
           r.epoch <= epoch,
           r.at = "epoch" => r.path \ r.left \subseteq {r.leaf},
           r.at = "chain" => \A f \in r.path \ r.left :
               Justified(f, r.leaf, r.epoch, r.late)
    PROVE  MintInv'
<1>1. TokenShapes'
  BY DEF MintInv, TokenShapes
<1>2. EpochHeard' /\ TokensJustified'
  BY DEF MintInv, EpochHeard, TokensJustified, Justified
<1>3. \A f, leaf, n, late : Justified(f, leaf, n, late)' <=> Justified(f, leaf, n, late)
  BY DEF Justified
<1>4. \A k \in Mint : mint'[k] = IF k = m THEN r ELSE mint[k]
  BY DEF MintInv, TokenShapes
<1>5. HandlersJustified'
  <2> SUFFICES ASSUME NEW k \in Mint
               PROVE  /\ mint'[k].epoch <= epoch
                      /\ mint'[k].at = "epoch" =>
                            mint'[k].path \ mint'[k].left \subseteq {mint'[k].leaf}
                      /\ mint'[k].at = "chain" => \A f \in mint'[k].path \ mint'[k].left :
                            Justified(f, mint'[k].leaf, mint'[k].epoch, mint'[k].late)
    BY <1>3 DEF HandlersJustified
  <2>1. CASE k = m
    BY <1>4, <2>1
  <2>2. CASE k # m
    BY <1>4, <2>2 DEF MintInv, HandlersJustified
  <2> QED BY <2>1, <2>2
<1> QED BY <1>1, <1>2, <1>5 DEF MintInv

LEMMA HandlerKeeps ==
    ASSUME MintInv, NEW m \in Mint,
           \/ \E e \in Edge : ReadEdge(m, e) \/ ReadAncestor(m, e)
           \/ ReadSource(m) \/ ReadTarget(m) \/ ReadLineage(m) \/ ReadEpoch(m)
           \/ Deny(m)
    PROVE  MintInv'
<1>1. UNCHANGED <<active, live, epoch, sent, seen, store, tokens>>
  BY DEF ReadEdge, ReadAncestor, ReadSource, ReadTarget, ReadLineage,
         ReadEpoch, Deny, graph
<1>2. mint[m] \in Reads /\ mint \in [Mint -> Reads] /\ epoch \in Nat
  BY DEF MintInv, TokenShapes
<1>3. Idle \in Reads /\ Idle.epoch = 0 /\ Idle.at = "idle"
  BY DEF Idle, Reads
<1>4. CASE Deny(m)
  <2>1. mint' = [mint EXCEPT ![m] = Idle]
    BY <1>4 DEF Deny
  <2>2. Idle.epoch <= epoch /\ Idle.at # "epoch" /\ Idle.at # "chain"
    BY <1>2, <1>3
  <2> QED BY <1>1, <1>3, <2>1, <2>2, ReadKeeps
<1>5. ASSUME NEW e \in Edge, ReadEdge(m, e) PROVE MintInv'
  <2> DEFINE r == [Idle EXCEPT !.at = "source", !.leaf = e]
  <2>1. r \in Reads /\ r.at = "source" /\ r.epoch = 0
    BY DEF Idle, Reads
  <2>2. mint' = [mint EXCEPT ![m] = r]
    BY <1>5 DEF ReadEdge
  <2> HIDE DEF r
  <2>3. r.epoch <= epoch /\ r.at # "epoch" /\ r.at # "chain"
    BY <1>2, <2>1
  <2> QED BY <1>1, <2>1, <2>2, <2>3, ReadKeeps
<1>6. CASE ReadSource(m) \/ ReadTarget(m)
  <2>1. PICK st \in {"target", "lineage"} : mint' = [mint EXCEPT ![m].at = st]
    BY <1>6 DEF ReadSource, ReadTarget
  <2> DEFINE r == [mint[m] EXCEPT !.at = st]
  <2>2. r \in Reads /\ r.at = st /\ r.epoch = mint[m].epoch
    BY <1>2 DEF Reads
  <2>3. mint' = [mint EXCEPT ![m] = r]
    BY <2>1
  <2>4. mint[m].epoch <= epoch
    BY DEF MintInv, HandlersJustified
  <2> HIDE DEF r
  <2> QED BY <1>1, <2>1, <2>2, <2>3, <2>4, ReadKeeps
<1>7. CASE ReadLineage(m)
  <2> DEFINE e == mint[m].leaf
             r == [mint[m] EXCEPT !.at = "epoch", !.path = Lineage(e),
                                  !.left = Lineage(e) \ {e}]
  <2>1. Lineage(e) \subseteq Edge
    BY DEF Lineage
  <2>2. /\ r \in Reads /\ r.at = "epoch" /\ r.epoch = mint[m].epoch
        /\ r.path \ r.left \subseteq {r.leaf}
    BY <1>2, <2>1 DEF Reads
  <2>3. mint' = [mint EXCEPT ![m] = r]
    BY <1>7 DEF ReadLineage
  <2>4. mint[m].epoch <= epoch
    BY DEF MintInv, HandlersJustified
  <2> HIDE DEF r
  <2> QED BY <1>1, <2>2, <2>3, <2>4, ReadKeeps
<1>8. CASE ReadEpoch(m)
  <2> DEFINE gone == mint[m].leaf \notin active
             r == [mint[m] EXCEPT !.at = "chain", !.epoch = epoch, !.late = gone]
  <2>1. mint' = [mint EXCEPT ![m] = r]
    BY <1>8 DEF ReadEpoch
  <2>2. mint[m].path \ mint[m].left \subseteq {mint[m].leaf}
    BY <1>8 DEF ReadEpoch, MintInv, HandlersJustified
  <2>3. /\ r \in Reads /\ r.at = "chain" /\ r.epoch = epoch /\ r.late = gone
        /\ r.path = mint[m].path /\ r.left = mint[m].left /\ r.leaf = mint[m].leaf
    BY <1>2 DEF Reads
  <2>4. \A f \in r.path \ r.left : Justified(f, r.leaf, r.epoch, r.late)
    BY <2>2, <2>3 DEF Justified
  <2> HIDE DEF r
  <2>5. r.epoch <= epoch /\ r.at # "epoch"
    BY <1>2, <2>3
  <2> QED BY <1>1, <2>1, <2>3, <2>4, <2>5, ReadKeeps
<1>9. ASSUME NEW f \in Edge, ReadAncestor(m, f) PROVE MintInv'
  <2> DEFINE r == [mint[m] EXCEPT !.left = @ \ {f}]
  <2>1. mint' = [mint EXCEPT ![m] = r]
    BY <1>9 DEF ReadAncestor
  <2>2. mint[m].at = "chain" /\ f \in active
    BY <1>9 DEF ReadAncestor
  <2>3. /\ r \in Reads /\ r.at = "chain" /\ r.epoch = mint[m].epoch /\ r.late = mint[m].late
        /\ r.path = mint[m].path /\ r.left = mint[m].left \ {f} /\ r.leaf = mint[m].leaf
    BY <1>2, <2>2 DEF Reads
  <2>4. /\ mint[m].epoch <= epoch
        /\ \A g \in r.path \ r.left : Justified(g, r.leaf, r.epoch, r.late)
    BY <2>2, <2>3 DEF MintInv, HandlersJustified, Justified
  <2> HIDE DEF r
  <2> QED BY <1>1, <2>1, <2>3, <2>4, ReadKeeps
<1> QED BY <1>4, <1>5, <1>6, <1>7, <1>8, <1>9

LEMMA IssueKeeps ==
    ASSUME MintInv, NEW m \in Mint, Issue(m)
    PROVE  MintInv'
<1> DEFINE t == [leaf |-> mint[m].leaf, path |-> mint[m].path,
                 epoch |-> mint[m].epoch, late |-> mint[m].late]
<1>1. /\ UNCHANGED <<active, live, epoch, sent, seen, store>>
      /\ tokens' = tokens \cup {t} /\ mint' = [mint EXCEPT ![m] = Idle]
      /\ mint[m].at = "chain" /\ mint[m].left = {}
  BY DEF Issue, graph
<1>2. Idle \in Reads /\ Idle.epoch = 0 /\ Idle.at = "idle"
  BY DEF Idle, Reads
<1>3. mint[m] \in Reads
  BY DEF MintInv, TokenShapes
<1>4. /\ t.epoch \in Nat /\ t.epoch <= epoch
      /\ \A f \in t.path : Justified(f, t.leaf, t.epoch, t.late)
  BY <1>1, <1>3 DEF MintInv, HandlersJustified, Reads
<1> HIDE DEF t
<1>5. TokenShapes'
  BY <1>1, <1>2, <1>4 DEF MintInv, TokenShapes
<1>6. TokensJustified' /\ EpochHeard'
  BY <1>1, <1>4 DEF MintInv, TokensJustified, Justified, EpochHeard
<1>7. HandlersJustified'
  <2>1. \A k \in Mint : mint'[k] = IF k = m THEN Idle ELSE mint[k]
    BY <1>1 DEF MintInv, TokenShapes
  <2> QED BY <1>1, <1>2, <2>1 DEF MintInv, TokenShapes, HandlersJustified, Justified
<1> QED BY <1>5, <1>6, <1>7 DEF MintInv

\* What the consumers apply only raises the store's epoch and adds marks.
LEMMA ApplyKeeps ==
    ASSUME MintInv,
           (\E n \in sent.epochs : ApplyEpoch(n)) \/ (\E A \in sent.anchors : ApplyAnchors(A))
    PROVE  MintInv' /\ store'.epoch >= store.epoch /\ store.marks \subseteq store'.marks
<1>1. UNCHANGED <<active, live, epoch, sent, mint, tokens>>
  BY DEF ApplyEpoch, ApplyAnchors, graph
<1>2. HandlersJustified' /\ TokensJustified'
  BY <1>1 DEF MintInv, HandlersJustified, TokensJustified, Justified
<1>3. /\ store \in [epoch : Nat, marks : SUBSET Anchors]
      /\ seen \in [epochs : SUBSET Nat, anchors : SUBSET SUBSET Anchors]
      /\ sent \in [epochs : SUBSET Nat, anchors : SUBSET SUBSET Anchors]
  BY DEF MintInv, TokenShapes
<1>4. /\ store' \in [epoch : Nat, marks : SUBSET Anchors]
      /\ seen' \in [epochs : SUBSET Nat, anchors : SUBSET SUBSET Anchors]
      /\ \A n \in seen'.epochs : n <= store'.epoch
      /\ store'.epoch >= store.epoch /\ store.marks \subseteq store'.marks
  <2>1. CASE \E n \in sent.epochs : ApplyEpoch(n)
    BY <1>3, <2>1 DEF ApplyEpoch, MintInv, EpochHeard
  <2>2. CASE \E A \in sent.anchors : ApplyAnchors(A)
    BY <1>3, <2>2 DEF ApplyAnchors, MintInv, EpochHeard
  <2> QED BY <2>1, <2>2
<1>5. TokenShapes' /\ EpochHeard'
  BY <1>1, <1>4 DEF MintInv, TokenShapes, EpochHeard
<1> QED BY <1>2, <1>4, <1>5 DEF MintInv

LEMMA NextMint ==
    MintInv /\ [TokenNext]_tokenVars =>
        MintInv' /\ store'.epoch >= store.epoch /\ store.marks \subseteq store'.marks
<1> SUFFICES ASSUME MintInv, [TokenNext]_tokenVars
             PROVE  MintInv' /\ store'.epoch >= store.epoch /\ store.marks \subseteq store'.marks
  OBVIOUS
<1>1. CASE store' = store
  <2>1. store.epoch \in Nat /\ TokenShapes
    BY DEF MintInv, TokenShapes
  <2>2. ASSUME NEW s \in Session, Terminate(s) PROVE MintInv'
    BY <2>1, <2>2, TerminateCuts, CutKeeps
  <2>3. ASSUME NEW e \in Edge, NEW R \in SUBSET Session, Revoke(e, R) PROVE MintInv'
    BY <2>1, <2>3, RevokeCuts, CutKeeps
  <2>4. ASSUME (\E B \in SUBSET Edge : ExpireEdges(B)) \/ OtherChange PROVE MintInv'
    BY <2>1, <2>4, OtherCuts, CutKeeps
  <2>5. ASSUME NEW m \in Mint, NEW e \in Edge, ReadEdge(m, e) \/ ReadAncestor(m, e)
        PROVE  MintInv'
    BY <2>5, HandlerKeeps
  <2>6. ASSUME NEW m \in Mint,
               \/ ReadSource(m) \/ ReadTarget(m) \/ ReadLineage(m) \/ ReadEpoch(m)
               \/ Issue(m) \/ Deny(m)
        PROVE  MintInv'
    BY <2>6, HandlerKeeps, IssueKeeps
  <2>7. CASE UNCHANGED tokenVars
    BY <2>7 DEF tokenVars, MintInv, TokenShapes, EpochHeard, HandlersJustified,
                TokensJustified, Justified
  <2>8. MintInv'
    BY <2>2, <2>3, <2>4, <2>5, <2>6, <2>7, ApplyKeeps DEF TokenNext
  <2> QED BY <1>1, <2>1, <2>8
<1>2. CASE store' # store
  <2>1. (\E n \in sent.epochs : ApplyEpoch(n)) \/ (\E A \in sent.anchors : ApplyAnchors(A))
    BY <1>2 DEF TokenNext, tokenVars, Terminate, Revoke, ExpireEdges, OtherChange,
                ReadEdge, ReadSource, ReadTarget, ReadLineage, ReadEpoch,
                ReadAncestor, Issue, Deny
  <2> QED BY <2>1, ApplyKeeps
<1> QED BY <1>1, <1>2

LEMMA MintAlways == TokenSpec => []MintInv
BY InitMint, NextMint, PTL DEF TokenSpec

\* For any delegation graph, any number of handlers and any order and number
\* of deliveries: a verifier that has processed all that was sent refuses a
\* token one of whose edges is gone, unless that edge is the leaf and was gone
\* before the token service read the epoch.
THEOREM CutTheorem == TokenSpec => []CutOnceTold
<1>1. MintInv => CutOnceTold
  <2> SUFFICES ASSUME MintInv, seen = sent, NEW t \in tokens, Accepts(t),
                      NEW f \in t.path, f \notin active, ~(f = t.leaf /\ t.late)
               PROVE  FALSE
    BY DEF CutOnceTold, CaughtUp
  <2>1. t.epoch < epoch /\ t.epoch \in Nat /\ epoch \in Nat /\ store.epoch \in Nat
    BY DEF MintInv, TokensJustified, Justified, TokenShapes
  <2>2. epoch <= store.epoch
    BY <2>1 DEF MintInv, EpochHeard
  <2> QED BY <2>1, <2>2 DEF Accepts
<1> QED BY <1>1, MintAlways, PTL

\* No delivery, however late or often repeated, makes a verifier accept a
\* token it refused.
THEOREM RefusalsTheorem == TokenSpec => RefusalsLast
<1>1. MintInv /\ MintInv' /\ [TokenNext]_tokenVars
        => [\A t \in tokens : ~Accepts(t) => ~Accepts(t)']_tokenVars
  <2> SUFFICES ASSUME MintInv, MintInv', [TokenNext]_tokenVars, NEW t \in tokens, Accepts(t)'
               PROVE  Accepts(t)
    OBVIOUS
  <2>1. /\ store'.epoch >= store.epoch /\ store.marks \subseteq store'.marks
        /\ store.epoch \in Nat /\ store'.epoch \in Nat /\ t.epoch \in Nat
    BY NextMint DEF MintInv, TokenShapes
  <2> QED BY <2>1 DEF Accepts
<1> QED BY <1>1, MintAlways, PTL DEF TokenSpec, RefusalsLast
=============================================================================
