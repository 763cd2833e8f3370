--------------------------- MODULE ApprovalsProofs --------------------------
(***************************************************************************)
(* Proofs about Approvals for any number of requests, handlers, holds,     *)
(* releases and policy versions.  A handler works on what it read before:  *)
(* the inductive invariant says what its approval and its policy are still *)
(* worth, and that a release points at a hold that was approved for it and *)
(* is used up.                                                             *)
(***************************************************************************)
EXTENDS Approvals, TLAPS

\* What a handler carries along.  An approval it was shown was raised for its
\* request; it is past the gate only with one, or where no gate is.
HandlerOK(x) ==
    /\ x.approval # None =>
          hold[x.approval].status # "unborn" /\ hold[x.approval].req = x.req
    /\ x.at \in {"ensure", "release"} => x.policy \in Version
    /\ x.at = "ensure" =>
          x.approval = None /\ x.reissue = None /\ Gate[x.policy] # "open"
    /\ x.at = "release" /\ x.approval = None /\ x.reissue = None =>
          Gate[x.policy] = "open"

HandlersOK == \A m \in Mint : HandlerOK(mint[m])

\* Only an approved hold is ever consumed.
ConsumedApproved ==
    \A h \in Holds : hold[h].consumed =>
        hold[h].status # "unborn" /\ hold[h].decision = "approved"

\* The partial unique index: one unconsumed hold for a binding.
OneHoldPerBinding ==
    \A g, h \in Stored :
        /\ ~hold[g].consumed /\ ~hold[h].consumed
        /\ hold[g].req = hold[h].req /\ hold[g].policy = hold[h].policy
        => g = h

\* A hold that has let x through.
UsedFor(h, x) ==
    /\ hold[h].status # "unborn" /\ hold[h].consumed
    /\ hold[h].decision = "approved" /\ hold[h].req = x.req

ReleasesOK ==
    \A i \in Made :
        /\ release[i].policy \in Version
        /\ release[i].hold = None => Gate[release[i].policy] = "open"
        /\ release[i].hold # None => UsedFor(release[i].hold, release[i])

IInv ==
    /\ TypeOK
    /\ HandlersOK
    /\ ConsumedApproved
    /\ OneHoldPerBinding
    /\ ReleasesOK
    /\ OneReleasePerHold

LEMMA Constants ==
    /\ MaxHolds \in Nat /\ MaxReleases \in Nat /\ MaxTime \in Nat /\ Ttl \in Nat
    /\ Window \in Nat /\ Retention \in Nat /\ MaxReloads \in Nat
    /\ None \notin Holds /\ None \notin Releases
    /\ Gate \in [Version -> {"open", "operator", "subject", "any"}]
    /\ NoPolicy \notin Version
BY ApprovalAssumption DEF None, Holds, Releases

LEMMA IdleTyped ==
    /\ Idle \in Handler
    /\ Idle.at = "idle" /\ Idle.approval = None
<1>1. (CHOOSE q \in Request : TRUE) \in Request
  BY ApprovalAssumption
<1> QED BY <1>1, Constants DEF Idle, Handler, Bundle, Time

LEMMA InitIInv == Init => IInv
<1> SUFFICES ASSUME Init PROVE IInv
  OBVIOUS
<1> USE Constants DEF Init
<1>1. Idle.req \in Request
  BY IdleTyped DEF Handler
<1>2. hold \in [Holds -> Hold]
  BY <1>1 DEF Hold, Bundle, Time
<1>3. release \in [Releases -> Release]
  BY <1>1 DEF Release, Bundle
<1>4. mint \in [Mint -> Handler]
  BY IdleTyped
<1>5. TypeOK
  <2>1. installed \in Bundle /\ reloads \in 0..MaxReloads /\ now \in Time
    BY DEF Time
  <2>2. ended \subseteq Request
    OBVIOUS
  <2> QED BY <1>2, <1>3, <1>4, <2>1, <2>2, Zenon DEF TypeOK
<1>6. HandlersOK
  BY IdleTyped DEF HandlersOK, HandlerOK
<1>7. ConsumedApproved /\ OneHoldPerBinding
  BY DEF ConsumedApproved, OneHoldPerBinding, Stored
<1>8. Made = {}
  BY DEF Made
<1>9. ReleasesOK /\ OneReleasePerHold
  BY <1>8 DEF ReleasesOK, OneReleasePerHold
<1> QED BY <1>5, <1>6, <1>7, <1>9 DEF IInv

LEMMA ReadyTyped ==
    ASSUME NEW x \in Handler
    PROVE  /\ Ready(x) \in Handler
           /\ Ready(x).at = "release" /\ Ready(x).req = x.req
           /\ Ready(x).approval = x.approval /\ Ready(x).reissue = x.reissue
           /\ Ready(x).policy = x.policy
<1>1. 0 \in Time /\ NoPolicy \in Bundle
  BY Constants DEF Time, Bundle
<1> QED BY <1>1 DEF Handler, Ready

\* approvalLifecycleState, the two states that let a step happen.
LEMMA StateFacts ==
    ASSUME NEW h \in Holds, NEW t
    PROVE  /\ State(h, t) = "approved" =>
                ~hold[h].consumed /\ hold[h].decision = "approved"
           /\ State(h, t) = "pending" =>
                /\ ~hold[h].consumed
                /\ hold[h].decision \notin {"approved", "rejected"}
BY DEF State

-----------------------------------------------------------------------------
(* Steps that change the handlers only *)

LEMMA HandlerStep ==
    ASSUME IInv, NEW m \in Mint, NEW x \in Handler, HandlerOK(x),
           mint' = [mint EXCEPT ![m] = x],
           installed' \in Bundle, reloads' \in 0..MaxReloads, now' \in Time,
           ended' \subseteq Request, UNCHANGED <<hold, release>>
    PROVE  IInv'
<1>1. TypeOK'
  BY DEF IInv, TypeOK
<1>2. \A n \in Mint : mint'[n] = IF n = m THEN x ELSE mint[n]
  BY DEF IInv, TypeOK
<1>3. \A y : HandlerOK(y) => HandlerOK(y)'
  BY DEF HandlerOK
<1>4. HandlersOK'
  BY <1>2, <1>3 DEF IInv, HandlersOK, HandlerOK
<1>5. ConsumedApproved' /\ OneHoldPerBinding'
  BY DEF IInv, ConsumedApproved, OneHoldPerBinding, Stored
<1>6. Made' = Made
  BY DEF Made
<1>7. ReleasesOK' /\ OneReleasePerHold'
  BY <1>6 DEF IInv, ReleasesOK, OneReleasePerHold, UsedFor
<1> QED BY <1>1, <1>4, <1>5, <1>7 DEF IInv

\* A handler answers, gives up or dies.
LEMMA BackToIdle ==
    ASSUME IInv, NEW m \in Mint, mint' = [mint EXCEPT ![m] = Idle],
           UNCHANGED <<engine, now, hold, release, ended>>
    PROVE  IInv'
<1>1. HandlerOK(Idle)
  BY IdleTyped DEF HandlerOK
<1> QED BY <1>1, IdleTyped, HandlerStep DEF IInv, TypeOK, engine

\* Nothing of holds, releases and handlers changes.
LEMMA OutsideStep ==
    ASSUME IInv, installed' \in Bundle, reloads' \in 0..MaxReloads, now' \in Time,
           ended' \subseteq Request, UNCHANGED <<hold, release, mint>>
    PROVE  IInv'
<1>1. TypeOK'
  BY DEF IInv, TypeOK
<1>2. HandlersOK'
  BY DEF IInv, HandlersOK, HandlerOK
<1>3. ConsumedApproved' /\ OneHoldPerBinding'
  BY DEF IInv, ConsumedApproved, OneHoldPerBinding, Stored
<1>4. Made' = Made
  BY DEF Made
<1>5. ReleasesOK' /\ OneReleasePerHold'
  BY <1>4 DEF IInv, ReleasesOK, OneReleasePerHold, UsedFor
<1> QED BY <1>1, <1>2, <1>3, <1>5 DEF IInv

LEMMA BeginKeepsIInv ==
    ASSUME IInv, NEW m \in Mint, NEW q \in Request, NEW h \in Holds \cup {None},
           Begin(m, q, h)
    PROVE  IInv'
<1> DEFINE approval == IF h # None /\ ~hold[h].consumed THEN h ELSE None
           reissue == IF h # None /\ hold[h].consumed THEN hold[h].record ELSE None
           x == [at |-> "evaluate", req |-> q, bundle |-> installed, since |-> now,
                 approval |-> approval, reissue |-> reissue, policy |-> NoPolicy]
<1>1. mint' = [mint EXCEPT ![m] = x] /\ UNCHANGED <<engine, now, hold, release, ended>>
  BY DEF Begin
<1>2. h # None => h \in Stored /\ hold[h].req = q
  BY DEF Begin, Binds
<1>3. h # None => hold[h].record \in Releases \cup {None}
  BY DEF IInv, TypeOK, Hold
<1>4. approval \in Holds \cup {None} /\ reissue \in Releases \cup {None}
  BY <1>3
<1>5. approval # None => hold[approval].status # "unborn" /\ hold[approval].req = q
  BY <1>2 DEF Stored
<1> HIDE DEF approval, reissue
<1>6. x \in Handler
  BY <1>4 DEF Handler, IInv, TypeOK, Bundle
<1>7. HandlerOK(x)
  BY <1>5 DEF HandlerOK
<1> HIDE DEF x
<1> QED BY <1>1, <1>6, <1>7, HandlerStep DEF IInv, TypeOK, engine

\* The gate: past it without an approval only under a policy that has none.
LEMMA EvaluateKeepsIInv == ASSUME IInv, NEW m \in Mint, Evaluate(m) PROVE IInv'
<1> DEFINE x == IF Gated(m) THEN [mint[m] EXCEPT !.at = "ensure", !.policy = installed]
                ELSE [Ready(mint[m]) EXCEPT !.policy = installed]
<1>1. mint[m] \in Handler /\ HandlerOK(mint[m])
  BY DEF IInv, TypeOK, HandlersOK
<1>2. installed \in Version
  BY DEF Evaluate, IInv, TypeOK, Bundle
<1>3. mint' = [mint EXCEPT ![m] = x] /\ UNCHANGED <<engine, now, hold, release, ended>>
  BY DEF Evaluate, IInv, TypeOK
<1>4. CASE Gated(m)
  <2>1. x \in Handler
    BY <1>1, <1>2, <1>4 DEF Handler, Bundle
  <2>2. /\ x.at = "ensure" /\ x.policy = installed /\ x.req = mint[m].req
        /\ x.approval = mint[m].approval /\ x.reissue = mint[m].reissue
    BY <1>1, <1>4 DEF Handler
  <2>3. HandlerOK(x)
    BY <1>1, <1>2, <1>4, <2>2 DEF HandlerOK, Gated, Resolved
  <2> HIDE DEF x
  <2> QED BY <1>3, <2>1, <2>3, HandlerStep DEF IInv, TypeOK, engine
<1>5. CASE ~Gated(m)
  <2>1. x \in Handler
    BY <1>1, <1>2, <1>5, ReadyTyped DEF Handler, Bundle
  <2>2. /\ x.at = "release" /\ x.policy = installed /\ x.req = mint[m].req
        /\ x.approval = mint[m].approval /\ x.reissue = mint[m].reissue
    BY <1>1, <1>5, ReadyTyped DEF Handler
  <2>3. HandlerOK(x)
    BY <1>1, <1>2, <1>5, <2>2 DEF HandlerOK, Gated, Resolved
  <2> HIDE DEF x
  <2> QED BY <1>3, <2>1, <2>3, HandlerStep DEF IInv, TypeOK, engine
<1> QED BY <1>4, <1>5

LEMMA ConvergeKeepsIInv ==
    ASSUME IInv, NEW m \in Mint, NEW h \in Holds, Converge(m, h) PROVE IInv'
<1> DEFINE x == [Ready(mint[m]) EXCEPT !.approval = h]
<1>1. mint[m] \in Handler /\ HandlerOK(mint[m]) /\ mint[m].at = "ensure"
  BY DEF IInv, TypeOK, HandlersOK, Converge
<1>2. hold[h].status # "unborn" /\ hold[h].req = mint[m].req
  BY DEF Converge, LiveHold, Unconsumed, Binds, Stored
<1>3. CASE State(h, mint[m].since) = "approved"
  <2>1. mint' = [mint EXCEPT ![m] = x] /\ UNCHANGED <<engine, now, hold, release, ended>>
    BY <1>3 DEF Converge
  <2>2. x \in Handler
    BY <1>1, ReadyTyped DEF Handler
  <2>3. x.at = "release" /\ x.policy = mint[m].policy /\ x.req = mint[m].req /\ x.approval = h
    BY <1>1, ReadyTyped DEF Handler
  <2>4. HandlerOK(x)
    BY <1>1, <1>2, <2>3, Constants DEF HandlerOK
  <2> HIDE DEF x
  <2> QED BY <2>1, <2>2, <2>4, HandlerStep DEF IInv, TypeOK, engine
<1>4. CASE State(h, mint[m].since) # "approved"
  BY <1>4, BackToIdle DEF Converge
<1> QED BY <1>3, <1>4

-----------------------------------------------------------------------------
(* Steps that change the holds *)

\* What was raised stays raised for its request, and a decision to approve
\* and a consumption stand.
HoldsOnlyGrow ==
    \A h \in Holds : hold[h].status # "unborn" =>
        /\ hold'[h].status # "unborn" /\ hold'[h].req = hold[h].req
        /\ hold[h].consumed => hold'[h].consumed
        /\ hold[h].decision = "approved" => hold'[h].decision = "approved"

LEMMA GrowthKeepsHandlers ==
    ASSUME IInv, HoldsOnlyGrow, NEW x \in Handler, HandlerOK(x)
    PROVE  HandlerOK(x)'
<1>1. x.approval \in Holds \cup {None}
  BY DEF Handler
<1> QED BY <1>1 DEF HandlerOK, HoldsOnlyGrow

LEMMA GrowthKeepsReleases ==
    ASSUME IInv, HoldsOnlyGrow, NEW i \in Made
    PROVE  release[i].hold # None =>
              /\ hold'[release[i].hold].status # "unborn"
              /\ hold'[release[i].hold].consumed
              /\ hold'[release[i].hold].decision = "approved"
              /\ hold'[release[i].hold].req = release[i].req
<1>1. release[i].hold \in Holds \cup {None}
  BY DEF IInv, TypeOK, Release, Made
<1>2. release[i].hold # None => UsedFor(release[i].hold, release[i])
  BY DEF IInv, ReleasesOK
<1> QED BY <1>1, <1>2 DEF UsedFor, HoldsOnlyGrow

\* A step of the table of holds, possibly with a handler that answers.
LEMMA HoldStep ==
    ASSUME IInv, HoldsOnlyGrow, hold' \in [Holds -> Hold],
           ConsumedApproved', OneHoldPerBinding',
           \/ UNCHANGED mint
           \/ \E m \in Mint : mint' = [mint EXCEPT ![m] = Idle],
           UNCHANGED <<engine, now, release, ended>>
    PROVE  IInv'
<1>1. TypeOK'
  BY IdleTyped DEF IInv, TypeOK, engine
<1>2. \A n \in Mint : mint'[n] \in {mint[n], Idle}
  BY DEF IInv, TypeOK
<1>3. HandlerOK(Idle)'
  BY IdleTyped DEF HandlerOK
<1>4. HandlersOK'
  <2>1. ASSUME NEW n \in Mint, NEW x \in {mint[n], Idle} PROVE HandlerOK(x)'
    <3>1. HandlerOK(mint[n]) /\ mint[n] \in Handler
      BY DEF IInv, HandlersOK, TypeOK
    <3>2. HandlerOK(mint[n]) => x = Idle \/ HandlerOK(x)
      BY <2>1
    <3> QED BY <2>1, <1>3, <3>1, <3>2, GrowthKeepsHandlers
  <2> QED BY <1>2, <2>1 DEF HandlersOK, HandlerOK
<1>5. Made' = Made /\ release' = release
  BY DEF Made
<1>6. ReleasesOK'
  BY <1>5, GrowthKeepsReleases DEF IInv, ReleasesOK, UsedFor
<1>7. OneReleasePerHold'
  BY <1>5 DEF IInv, OneReleasePerHold
<1> QED BY <1>1, <1>4, <1>6, <1>7 DEF IInv

\* Rows taken out change nothing else.
LEMMA PurgedHolds ==
    ASSUME TypeOK, NEW H
    PROVE  /\ Purged(H) \in [Holds -> Hold]
           /\ \A h \in Holds :
                 /\ Purged(H)[h].req = hold[h].req
                 /\ Purged(H)[h].policy = hold[h].policy
                 /\ Purged(H)[h].consumed = hold[h].consumed
                 /\ Purged(H)[h].decision = hold[h].decision
                 /\ Purged(H)[h].status = IF h \in H THEN "deleted" ELSE hold[h].status
BY DEF TypeOK, Hold, Purged

\* A new hold takes the slot of its binding: the expired ones are out, and
\* there was no live one.
LEMMA RaiseKeepsIInv ==
    ASSUME IInv, NEW m \in Mint, NEW h \in Holds, Raise(m, h) PROVE IInv'
<1> DEFINE q == mint[m].req
           b == HoldPolicy(m)
           H == {g \in Unconsumed(q, b) : hold[g].expires <= now}
           row == [status |-> "stored", req |-> q, policy |-> b,
                   class |-> Gate[mint[m].policy], expires |-> now + Ttl,
                   decision |-> "none", consumed |-> FALSE, used |-> 0, record |-> None]
<1>1. /\ mint[m] \in Handler /\ HandlerOK(mint[m]) /\ mint[m].at = "ensure"
      /\ TypeOK /\ now \in Time
  BY DEF IInv, TypeOK, HandlersOK, Raise
<1>2. hold' = [Purged(H) EXCEPT ![h] = row] /\ hold[h].status = "unborn"
  BY DEF Raise
<1>3. row \in Hold
  <2>1. q \in Request /\ b \in Bundle
    BY <1>1 DEF Handler, HoldPolicy
  <2>2. Gate[mint[m].policy] \in {"operator", "subject", "any"}
    BY <1>1, Constants DEF HandlerOK
  <2>3. now + Ttl \in 0..(MaxTime + Ttl) /\ 0 \in Time
    BY <1>1, Constants DEF Time
  <2> HIDE DEF q, b
  <2> QED BY <2>1, <2>2, <2>3 DEF Hold
<1>4. row.status = "stored" /\ ~row.consumed /\ row.req = q /\ row.policy = b
  OBVIOUS
<1>5. \A g \in Stored : ~hold[g].consumed /\ hold[g].req = q /\ hold[g].policy = b
         => g \in H
  <2> SUFFICES ASSUME NEW g \in Stored, ~hold[g].consumed, hold[g].req = q,
                      hold[g].policy = b
               PROVE  g \in H
    BY Zenon
  <2>1. g \in Unconsumed(q, b) /\ g \in Holds
    BY DEF Unconsumed, Binds, Stored
  <2>2. ~(hold[g].expires > now)
    BY <2>1 DEF Raise, LiveHold
  <2>3. hold[g].expires \in Nat /\ now \in Nat
    BY <1>1, <2>1, Constants DEF TypeOK, Hold, Time
  <2> QED BY <2>1, <2>2, <2>3
<1> HIDE DEF q, b, H, row
<1>6. /\ hold' \in [Holds -> Hold] /\ hold'[h] = row
      /\ \A g \in Holds : g # h => hold'[g] = Purged(H)[g]
  BY <1>1, <1>2, <1>3, PurgedHolds
<1>7. /\ \A g \in Holds : g # h =>
            /\ hold'[g].req = hold[g].req /\ hold'[g].policy = hold[g].policy
            /\ hold'[g].consumed = hold[g].consumed
            /\ hold'[g].decision = hold[g].decision
            /\ hold'[g].status = IF g \in H THEN "deleted" ELSE hold[g].status
  BY <1>1, <1>6, PurgedHolds
<1>8. HoldsOnlyGrow
  BY <1>2, <1>7 DEF HoldsOnlyGrow
<1>9. ConsumedApproved'
  <2> SUFFICES ASSUME NEW g \in Holds, hold'[g].consumed
               PROVE  hold'[g].status # "unborn" /\ hold'[g].decision = "approved"
    BY DEF ConsumedApproved
  <2>1. g # h
    BY <1>4, <1>6
  <2>2. hold[g].consumed
    BY <1>7, <2>1
  <2>3. hold[g].status # "unborn" /\ hold[g].decision = "approved"
    BY <2>2 DEF IInv, ConsumedApproved
  <2> QED BY <1>7, <2>1, <2>3
<1>10. OneHoldPerBinding'
  <2>1. \A g \in Stored' : g # h => g \in Stored /\ g \notin H
    BY <1>7 DEF Stored
  <2>2. ASSUME NEW f \in Stored', NEW g \in Stored', f # h, g # h,
               ~hold'[f].consumed, ~hold'[g].consumed,
               hold'[f].req = hold'[g].req, hold'[f].policy = hold'[g].policy
        PROVE  f = g
    <3>1. f \in Stored /\ g \in Stored /\ f \in Holds /\ g \in Holds
      BY <2>1, <2>2 DEF Stored
    <3>2. ~hold[f].consumed /\ ~hold[g].consumed
      BY <1>7, <2>2, <3>1
    <3>3. hold[f].req = hold[g].req /\ hold[f].policy = hold[g].policy
      BY <1>7, <2>2, <3>1
    <3> QED BY <3>1, <3>2, <3>3 DEF IInv, OneHoldPerBinding
  <2>3. ASSUME NEW g \in Stored', g # h, ~hold'[g].consumed,
               hold'[g].req = hold'[h].req, hold'[g].policy = hold'[h].policy
        PROVE  FALSE
    <3>1. g \in Stored /\ g \notin H /\ g \in Holds
      BY <2>1, <2>3 DEF Stored
    <3>2. ~hold[g].consumed
      BY <1>7, <2>3, <3>1
    <3>3. hold[g].req = q /\ hold[g].policy = b
      BY <1>4, <1>6, <1>7, <2>3, <3>1
    <3> QED BY <1>5, <3>1, <3>2, <3>3
  <2> SUFFICES ASSUME NEW f \in Stored', NEW g \in Stored',
                      ~hold'[f].consumed, ~hold'[g].consumed,
                      hold'[f].req = hold'[g].req, hold'[f].policy = hold'[g].policy,
                      f # g
               PROVE  FALSE
    BY Zenon DEF OneHoldPerBinding
  <2>4. CASE f = h
    BY <2>3, <2>4
  <2>5. CASE g = h
    BY <2>3, <2>5
  <2> QED BY <2>2, <2>4, <2>5
<1>11. /\ \E n \in Mint : mint' = [mint EXCEPT ![n] = Idle]
       /\ UNCHANGED <<engine, now, release, ended>>
  BY DEF Raise
<1> QED BY <1>6, <1>8, <1>9, <1>10, <1>11, HoldStep

LEMMA DecideKeepsIInv ==
    ASSUME IInv, NEW h \in Holds, NEW plane, NEW d \in {"approved", "rejected"},
           Decide(h, plane, d)
    PROVE  IInv'
<1>1. ~hold[h].consumed /\ hold[h].decision \notin {"approved", "rejected"}
  BY StateFacts DEF Decide
<1>2. hold[h] \in Hold /\ hold \in [Holds -> Hold]
  BY DEF IInv, TypeOK
<1>3. hold' = [hold EXCEPT ![h] = [hold[h] EXCEPT !.decision = d]]
  BY <1>2 DEF Decide
<1>4. hold' \in [Holds -> Hold]
  BY <1>2, <1>3 DEF Hold
<1>5. \A g \in Holds :
         /\ hold'[g].status = hold[g].status /\ hold'[g].req = hold[g].req
         /\ hold'[g].policy = hold[g].policy /\ hold'[g].consumed = hold[g].consumed
         /\ g # h => hold'[g].decision = hold[g].decision
  BY <1>2, <1>3 DEF Hold
<1>6. HoldsOnlyGrow
  BY <1>1, <1>5 DEF HoldsOnlyGrow
<1>7. ConsumedApproved'
  <2> SUFFICES ASSUME NEW g \in Holds, hold'[g].consumed
               PROVE  hold'[g].status # "unborn" /\ hold'[g].decision = "approved"
    BY DEF ConsumedApproved
  <2>1. hold[g].consumed
    BY <1>5
  <2>2. g # h
    BY <1>1, <2>1
  <2>3. hold[g].status # "unborn" /\ hold[g].decision = "approved"
    BY <2>1 DEF IInv, ConsumedApproved
  <2> QED BY <1>5, <2>2, <2>3
<1>8. Stored' = Stored
  BY <1>5 DEF Stored
<1>9. OneHoldPerBinding'
  BY <1>5, <1>8 DEF IInv, OneHoldPerBinding, Stored
<1> QED BY <1>4, <1>6, <1>7, <1>9, HoldStep DEF Decide

LEMMA SweepKeepsIInv == ASSUME IInv, Sweep PROVE IInv'
<1>1. PICK H : H \subseteq Stored /\ hold' = Purged(H)
  BY DEF Sweep
<1>2. UNCHANGED <<engine, now, release, ended, mint>> /\ TypeOK
  BY DEF Sweep, IInv
<1>3. /\ hold' \in [Holds -> Hold]
      /\ \A g \in Holds :
            /\ hold'[g].req = hold[g].req /\ hold'[g].policy = hold[g].policy
            /\ hold'[g].consumed = hold[g].consumed
            /\ hold'[g].decision = hold[g].decision
            /\ hold'[g].status = IF g \in H THEN "deleted" ELSE hold[g].status
  BY <1>1, <1>2, PurgedHolds
<1>4. HoldsOnlyGrow
  BY <1>3 DEF HoldsOnlyGrow
<1>5. ConsumedApproved'
  <2> SUFFICES ASSUME NEW g \in Holds, hold'[g].consumed
               PROVE  hold'[g].status # "unborn" /\ hold'[g].decision = "approved"
    BY DEF ConsumedApproved
  <2>1. hold[g].consumed
    BY <1>3
  <2> QED BY <1>3, <2>1 DEF IInv, ConsumedApproved
<1>6. Stored' \subseteq Stored
  BY <1>3 DEF Stored
<1>7. OneHoldPerBinding'
  BY <1>3, <1>6 DEF IInv, OneHoldPerBinding, Stored
<1> QED BY <1>2, <1>3, <1>4, <1>5, <1>7, HoldStep

-----------------------------------------------------------------------------
(* Steps that change the releases *)

\* A release that is made is made once, for its handler.
Released(m, i) ==
    [status |-> IF mint[m].req \in Run THEN "credential" ELSE "active",
     req |-> mint[m].req, hold |-> mint[m].approval, policy |-> mint[m].policy]

LEMMA ReleaseTyped ==
    ASSUME IInv, NEW m \in Mint, NEW i \in Releases, mint[m].at = "release",
           NextRelease(i), Put(m, i)
    PROVE  /\ release' = [release EXCEPT ![i] = Released(m, i)]
           /\ release' \in [Releases -> Release]
           /\ Made' = Made \cup {i} /\ i \notin Made
           /\ release'[i].hold = mint[m].approval /\ release'[i].req = mint[m].req
           /\ release'[i].policy = mint[m].policy /\ mint[m].policy \in Version
           /\ \A j \in Releases : j # i => release'[j] = release[j]
<1>1. mint[m] \in Handler /\ HandlerOK(mint[m]) /\ release \in [Releases -> Release]
  BY DEF IInv, TypeOK, HandlersOK
<1>2. mint[m].policy \in Version
  BY <1>1 DEF HandlerOK
<1>3. release' = [release EXCEPT ![i] = Released(m, i)]
  BY DEF Put, Released
<1>4. Released(m, i) \in Release
  BY <1>1 DEF Release, Released, Handler
<1>5. /\ Released(m, i).status \in {"credential", "active"}
      /\ Released(m, i).hold = mint[m].approval /\ Released(m, i).req = mint[m].req
      /\ Released(m, i).policy = mint[m].policy
  BY DEF Released
<1>6. /\ release'[i] = Released(m, i) /\ \A j \in Releases : j # i => release'[j] = release[j]
      /\ release' \in [Releases -> Release]
  BY <1>1, <1>3, <1>4
<1>7. Made' = Made \cup {i} /\ i \notin Made
  BY <1>5, <1>6 DEF Made, NextRelease
<1> QED BY <1>2, <1>3, <1>5, <1>6, <1>7

\* The statement that consumes matches an approved, unconsumed hold: so no
\* release points at it yet.
LEMMA ConsumeKeepsIInv ==
    ASSUME IInv, NEW m \in Mint, NEW i \in Releases, Consume(m, i) PROVE IInv'
<1> DEFINE h == mint[m].approval
           to == IF mint[m].req \in Run THEN None ELSE i
           row == [hold[h] EXCEPT !.consumed = TRUE, !.used = now, !.record = to]
<1>1. /\ mint[m] \in Handler /\ HandlerOK(mint[m]) /\ mint[m].at = "release"
      /\ hold \in [Holds -> Hold] /\ now \in Time
      /\ h # None /\ Consumable(m) /\ NextRelease(i) /\ Put(m, i)
  BY DEF IInv, TypeOK, HandlersOK, Consume
<1>2. h \in Stored /\ h \in Holds /\ hold[h].status # "unborn" /\ hold[h].req = mint[m].req
  BY <1>1 DEF Consumable, Stored, HandlerOK
<1>3. ~hold[h].consumed /\ hold[h].decision = "approved"
  BY <1>1, <1>2, StateFacts DEF Consumable
<1>4. /\ hold' = [hold EXCEPT ![h] = row]
      /\ mint' = [mint EXCEPT ![m] = Idle] /\ UNCHANGED <<engine, now, ended>>
  BY <1>1, <1>2 DEF Consume
<1>5. row \in Hold
  <2>1. to \in Releases \cup {None}
    OBVIOUS
  <2>2. hold[h] \in Hold
    BY <1>1, <1>2
  <2> HIDE DEF to, h
  <2> QED BY <1>1, <2>1, <2>2 DEF Hold
<1>6. /\ row.consumed /\ row.status = hold[h].status /\ row.req = hold[h].req
      /\ row.policy = hold[h].policy /\ row.decision = hold[h].decision
  BY <1>1, <1>2 DEF Hold
<1> HIDE DEF row, to
<1>7. /\ hold' \in [Holds -> Hold] /\ hold'[h] = row
      /\ \A g \in Holds : g # h => hold'[g] = hold[g]
  BY <1>1, <1>2, <1>4, <1>5
<1>8. HoldsOnlyGrow
  BY <1>2, <1>6, <1>7 DEF HoldsOnlyGrow
<1>9. /\ release' \in [Releases -> Release]
      /\ Made' = Made \cup {i} /\ i \notin Made
      /\ release'[i].hold = h /\ release'[i].req = mint[m].req
      /\ release'[i].policy \in Version
      /\ \A j \in Releases : j # i => release'[j] = release[j]
  BY <1>1, ReleaseTyped
<1>10. TypeOK'
  BY <1>4, <1>7, <1>9, IdleTyped DEF IInv, TypeOK, engine
<1>11. HandlersOK'
  <2>1. \A n \in Mint : mint'[n] \in {mint[n], Idle}
    BY <1>4 DEF IInv, TypeOK
  <2>2. HandlerOK(Idle)'
    BY IdleTyped DEF HandlerOK
  <2>3. ASSUME NEW n \in Mint, NEW x \in {mint[n], Idle} PROVE HandlerOK(x)'
    <3>1. HandlerOK(mint[n]) /\ mint[n] \in Handler
      BY DEF IInv, HandlersOK, TypeOK
    <3> QED BY <2>2, <2>3, <3>1, <1>8, GrowthKeepsHandlers
  <2> QED BY <2>1, <2>3 DEF HandlersOK, HandlerOK
<1>12. ConsumedApproved'
  <2> SUFFICES ASSUME NEW g \in Holds, hold'[g].consumed
               PROVE  hold'[g].status # "unborn" /\ hold'[g].decision = "approved"
    BY DEF ConsumedApproved
  <2>1. CASE g = h
    BY <2>1, <1>2, <1>3, <1>6, <1>7
  <2>2. CASE g # h
    BY <2>2, <1>7 DEF IInv, ConsumedApproved
  <2> QED BY <2>1, <2>2
<1>13. OneHoldPerBinding'
  <2>1. \A g \in Stored' : ~hold'[g].consumed => g # h /\ g \in Stored /\ hold'[g] = hold[g]
    BY <1>6, <1>7 DEF Stored
  <2> SUFFICES ASSUME NEW f \in Stored', NEW g \in Stored',
                      ~hold'[f].consumed, ~hold'[g].consumed,
                      hold'[f].req = hold'[g].req, hold'[f].policy = hold'[g].policy
               PROVE  f = g
    BY Zenon DEF OneHoldPerBinding
  <2>2. f \in Stored /\ g \in Stored /\ hold'[f] = hold[f] /\ hold'[g] = hold[g]
    BY <2>1
  <2>3. ~hold[f].consumed /\ ~hold[g].consumed
    BY <2>2
  <2> QED BY <2>2, <2>3 DEF IInv, OneHoldPerBinding
<1>14. ReleasesOK'
  <2> SUFFICES ASSUME NEW j \in Made'
               PROVE  /\ release'[j].policy \in Version
                      /\ release'[j].hold = None => Gate[release'[j].policy] = "open"
                      /\ release'[j].hold # None =>
                            /\ hold'[release'[j].hold].status # "unborn"
                            /\ hold'[release'[j].hold].consumed
                            /\ hold'[release'[j].hold].decision = "approved"
                            /\ hold'[release'[j].hold].req = release'[j].req
    BY DEF ReleasesOK, UsedFor
  <2>1. CASE j = i
    BY <2>1, <1>1, <1>2, <1>3, <1>6, <1>7, <1>9
  <2>2. CASE j # i
    <3>1. j \in Made /\ release'[j] = release[j]
      BY <2>2, <1>9 DEF Made
    <3> QED BY <3>1, <1>8, GrowthKeepsReleases DEF IInv, ReleasesOK
  <2> QED BY <2>1, <2>2
<1>15. \A j \in Made : release[j].hold # h
  BY <1>1, <1>3 DEF IInv, ReleasesOK, UsedFor
<1>16. OneReleasePerHold'
  <2>1. \A j \in Made' : j # i => j \in Made /\ release'[j] = release[j]
    BY <1>9 DEF Made
  <2> QED BY <2>1, <1>9, <1>15 DEF IInv, OneReleasePerHold
<1> QED BY <1>10, <1>11, <1>12, <1>13, <1>14, <1>16 DEF IInv

LEMMA UngatedKeepsIInv ==
    ASSUME IInv, NEW m \in Mint, NEW i \in Releases, ReleaseUngated(m, i) PROVE IInv'
<1>1. /\ mint[m] \in Handler /\ HandlerOK(mint[m]) /\ mint[m].at = "release"
      /\ mint[m].approval = None /\ Gate[mint[m].policy] = "open"
      /\ NextRelease(i) /\ Put(m, i)
  BY DEF IInv, TypeOK, HandlersOK, HandlerOK, ReleaseUngated, Resolved
<1>2. mint' = [mint EXCEPT ![m] = Idle] /\ UNCHANGED <<engine, now, hold, ended>>
  BY DEF ReleaseUngated
<1>3. /\ release' \in [Releases -> Release]
      /\ Made' = Made \cup {i} /\ i \notin Made
      /\ release'[i].hold = None
      /\ release'[i].policy = mint[m].policy /\ mint[m].policy \in Version
      /\ \A j \in Releases : j # i => release'[j] = release[j]
  BY <1>1, ReleaseTyped
<1>4. TypeOK'
  BY <1>2, <1>3, IdleTyped DEF IInv, TypeOK, engine
<1>5. HandlersOK'
  <2>1. \A n \in Mint : mint'[n] \in {mint[n], Idle}
    BY <1>2 DEF IInv, TypeOK
  <2> QED BY <1>2, <2>1, IdleTyped DEF IInv, HandlersOK, HandlerOK
<1>6. ConsumedApproved' /\ OneHoldPerBinding'
  BY <1>2 DEF IInv, ConsumedApproved, OneHoldPerBinding, Stored
<1>7. \A j \in Made' : j # i => j \in Made /\ release'[j] = release[j]
  BY <1>3 DEF Made
<1>8. ReleasesOK'
  BY <1>1, <1>2, <1>3, <1>7 DEF IInv, ReleasesOK, UsedFor
<1>9. OneReleasePerHold'
  BY <1>3, <1>7 DEF IInv, OneReleasePerHold
<1> QED BY <1>4, <1>5, <1>6, <1>8, <1>9 DEF IInv

\* A release that ends stays a release.
LEMMA EndReleaseKeepsIInv ==
    ASSUME IInv, NEW i \in Releases, EndRelease(i) PROVE IInv'
<1>1. release \in [Releases -> Release] /\ UNCHANGED <<engine, now, hold, ended, mint>>
  BY DEF IInv, TypeOK, EndRelease
<1>2. release' = [release EXCEPT ![i] = [release[i] EXCEPT !.status = "revoked"]]
  BY <1>1 DEF EndRelease
<1>3. release' \in [Releases -> Release]
  BY <1>1, <1>2 DEF Release
<1>4. \A j \in Releases :
         /\ release'[j].hold = release[j].hold /\ release'[j].req = release[j].req
         /\ release'[j].policy = release[j].policy
         /\ release'[j].status = "none" <=> release[j].status = "none"
  BY <1>1, <1>2 DEF Release, EndRelease
<1>5. TypeOK'
  BY <1>1, <1>3 DEF IInv, TypeOK, engine
<1>6. HandlersOK' /\ ConsumedApproved' /\ OneHoldPerBinding'
  BY <1>1 DEF IInv, HandlersOK, HandlerOK, ConsumedApproved, OneHoldPerBinding, Stored
<1>7. Made' = Made
  BY <1>4 DEF Made
<1>8. ReleasesOK' /\ OneReleasePerHold'
  BY <1>1, <1>4, <1>7 DEF IInv, ReleasesOK, OneReleasePerHold, UsedFor, Made
<1> QED BY <1>5, <1>6, <1>8 DEF IInv

-----------------------------------------------------------------------------
LEMMA NextKeepsIInv == IInv /\ [Next]_vars => IInv'
<1> SUFFICES ASSUME IInv, [Next]_vars PROVE IInv'
  OBVIOUS
<1>1. ASSUME NEW m \in Mint, MintNext(m) PROVE IInv'
  <2>1. ASSUME NEW q \in Request, NEW h \in Holds \cup {None}, Begin(m, q, h) PROVE IInv'
    BY <2>1, BeginKeepsIInv
  <2>2. CASE Evaluate(m)
    BY <2>2, EvaluateKeepsIInv
  <2>3. CASE Abandon(m) \/ Reissue(m)
    BY <2>3, BackToIdle DEF Abandon, Reissue
  <2>4. ASSUME NEW h \in Holds, Raise(m, h) PROVE IInv'
    BY <2>4, RaiseKeepsIInv
  <2>5. ASSUME NEW h \in Holds, Converge(m, h) PROVE IInv'
    BY <2>5, ConvergeKeepsIInv
  <2>6. ASSUME NEW i \in Releases, Consume(m, i) PROVE IInv'
    BY <2>6, ConsumeKeepsIInv
  <2>7. ASSUME NEW i \in Releases, ReleaseUngated(m, i) PROVE IInv'
    BY <2>7, UngatedKeepsIInv
  <2> QED BY <1>1, <2>1, <2>2, <2>3, <2>4, <2>5, <2>6, <2>7 DEF MintNext
<1>2. ASSUME NEW h \in Holds, NEW plane \in {"operator", "subject"},
             NEW d \in {"approved", "rejected"}, Decide(h, plane, d)
      PROVE  IInv'
  BY <1>2, DecideKeepsIInv
<1>3. CASE Sweep
  BY <1>3, SweepKeepsIInv
<1>4. ASSUME NEW q \in Request, EndRequest(q) PROVE IInv'
  BY <1>4, OutsideStep DEF EndRequest, IInv, TypeOK, engine
<1>5. ASSUME NEW i \in Releases, EndRelease(i) PROVE IInv'
  BY <1>5, EndReleaseKeepsIInv
<1>6. CASE Tick
  BY <1>6, OutsideStep, Constants DEF Tick, IInv, TypeOK, engine, Time
<1>7. ASSUME NEW v \in Bundle, Reload(v) PROVE IInv'
  BY <1>7, OutsideStep, Constants DEF Reload, IInv, TypeOK, engine
<1>8. CASE UNCHANGED vars
  BY <1>8, OutsideStep DEF vars, IInv, TypeOK, engine
<1> QED BY <1>1, <1>2, <1>3, <1>4, <1>5, <1>6, <1>7, <1>8 DEF Next

LEMMA InvariantHolds == Spec => []IInv
<1>1. Init => IInv
  BY InitIInv
<1>2. IInv /\ [Next]_vars => IInv'
  BY NextKeepsIInv
<1> QED BY <1>1, <1>2, PTL DEF Spec

-----------------------------------------------------------------------------
(* The theorems *)

\* However many handlers read an approval before one of them consumes it, it
\* lets one record or credential through.
THEOREM OneReleaseTheorem == Spec => []OneReleasePerHold
<1>1. IInv => OneReleasePerHold
  BY DEF IInv
<1> QED BY <1>1, InvariantHolds, PTL

\* What the policy that was evaluated gates is released only on a human
\* decision for that request, although policies are reloaded at any time.
THEOREM GatedTheorem == Spec => []GatedNeedsDecision
<1>1. IInv => GatedNeedsDecision
  BY DEF IInv, ReleasesOK, UsedFor, GatedNeedsDecision
<1> QED BY <1>1, InvariantHolds, PTL

\* While a rejection is in force nothing is released on its binding: the
\* index leaves no room for an approved hold beside it.
THEOREM RejectionTheorem == Spec => RejectionStands
<1> DEFINE Stands ==
      \A i \in Releases, g \in Stored :
          /\ release[i].status = "none" /\ i \in Made'
          /\ release'[i].hold # None
          /\ hold[g].decision = "rejected" /\ hold[g].expires > now
          => LET h == release'[i].hold
             IN  ~Binds(g, hold[h].req, hold[h].policy)
<1>1. IInv /\ [Next]_vars => [Stands]_vars
  <2> SUFFICES ASSUME IInv, [Next]_vars, NEW i \in Releases, NEW g \in Stored,
                      release[i].status = "none", i \in Made', release'[i].hold # None,
                      hold[g].decision = "rejected",
                      Binds(g, hold[release'[i].hold].req, hold[release'[i].hold].policy)
               PROVE  FALSE
    BY Zenon DEF Stands
  <2>1. i \notin Made
    BY DEF Made
  <2>2. ASSUME NEW m \in Mint, NEW j \in Releases, Consume(m, j) PROVE FALSE
    <3>1. /\ mint[m].at = "release" /\ mint[m].approval # None
          /\ Consumable(m) /\ NextRelease(j) /\ Put(m, j)
      BY <2>2 DEF Consume
    <3>2. i = j /\ release'[i].hold = mint[m].approval
      BY <3>1, <2>1, ReleaseTyped
    <3> DEFINE h == mint[m].approval
    <3>3. h \in Stored /\ h \in Holds
      BY <3>1 DEF Consumable, Stored
    <3>4. ~hold[h].consumed /\ hold[h].decision = "approved"
      BY <3>1, <3>3, StateFacts DEF Consumable
    <3>5. g \in Holds /\ hold[g].req = hold[h].req /\ hold[g].policy = hold[h].policy
      BY <3>2 DEF Binds, Stored
    <3>6. ~hold[g].consumed
      BY <3>5 DEF IInv, ConsumedApproved
    <3>7. g = h
      BY <3>3, <3>4, <3>5, <3>6 DEF IInv, OneHoldPerBinding
    <3> QED BY <3>4, <3>7
  <2>3. ASSUME NEW m \in Mint, NEW j \in Releases, ReleaseUngated(m, j) PROVE FALSE
    <3>1. /\ mint[m].at = "release" /\ mint[m].approval = None
          /\ NextRelease(j) /\ Put(m, j)
      BY <2>3 DEF ReleaseUngated, Resolved
    <3>2. release'[i].hold = mint[m].approval
      BY <3>1, <2>1, ReleaseTyped
    <3> QED BY <3>1, <3>2
  <2>4. ASSUME NEW j \in Releases, EndRelease(j) PROVE FALSE
    <3>1. release'[i] = release[i]
      BY <2>4 DEF EndRelease, IInv, TypeOK
    <3> QED BY <3>1 DEF Made
  <2>5. CASE UNCHANGED release
    BY <2>5 DEF Made
  <2> QED BY <2>2, <2>3, <2>4, <2>5 DEF Next, MintNext, vars, Begin, Evaluate, Abandon,
             Raise, Converge, Reissue, Decide, Sweep, EndRequest, Tick, Reload
<1> QED BY <1>1, InvariantHolds, PTL DEF Spec, RejectionStands
=============================================================================
