---------------------------- MODULE Approvals ----------------------------
(***************************************************************************)
(* Approval holds of the token service: a mint that policy gates raises a  *)
(* hold, an approver on one of two planes decides it, and a retry consumes *)
(* the decision.  Token exchanges and workload run credentials share the   *)
(* table; both read the policy engine twice, once for the binding and once *)
(* for the decision, and a reload may come between.                        *)
(*                                                                         *)
(* A request is everything an approval's binding hash covers except the    *)
(* policy version.  Responses carry no state: a client may present any     *)
(* hold id at any time, so losing one is presenting the id again.  A       *)
(* refusal that changes nothing is no step.                                *)
(***************************************************************************)
EXTENDS Naturals

CONSTANTS
    Version,      \* policy set versions
    NoPolicy,     \* no bundle installed: everything is denied
    Request,      \* binding: principal, record, session, edge, resources, scopes
    Run,          \* the requests for run credentials, by workloads
    Gate,         \* what each version demands: "open" or an approver class
    Mint,         \* request handlers
    MaxHolds,     \* bound: holds raised
    MaxReleases,  \* bound: authority records and run credentials released
    Ttl,          \* the decision window of a hold
    Window,       \* approvalReissueWindow
    Retention,    \* stepUpRetention
    MaxReloads,   \* bound: changes of the installed bundle
    MaxTime       \* bound: last instant of the clock

ASSUME ApprovalAssumption ==
    /\ Request # {} /\ Run \subseteq Request
    /\ Gate \in [Version -> {"open", "operator", "subject", "any"}]
    /\ NoPolicy \notin Version
    /\ {MaxHolds, MaxReleases, Ttl, Window, Retention, MaxReloads, MaxTime}
          \subseteq Nat

VARIABLES
    installed,  \* the bundle the policy engine holds
    reloads,    \* how often it has changed
    now,      \* the database clock
    hold,     \* step_up_challenges
    release,  \* authority_records of gated requests, and credentials handed out
    ended,    \* the requests whose originating authority record has ended
    mint      \* the handlers

engine == <<installed, reloads>>
vars == <<engine, now, hold, release, ended, mint>>

Bundle == Version \cup {NoPolicy}

Holds == 1..MaxHolds
Releases == 1..MaxReleases
None == 0

Time == 0..MaxTime

Hold == [status   : {"unborn", "stored", "deleted"},
         req      : Request,
         policy   : Bundle,
         class    : {"operator", "subject", "any"},
         expires  : 0..(MaxTime + Ttl),
         decision : {"none", "approved", "rejected"},
         consumed : BOOLEAN,
         used     : Time,
         record   : Releases \cup {None}]

Release == [status : {"none", "active", "revoked", "credential"},
            req    : Request,
            hold   : Holds \cup {None},
            policy : Bundle]

Handler == [at       : {"idle", "evaluate", "ensure", "release"},
            req      : Request,
            bundle   : Bundle,
            since    : Time,
            approval : Holds \cup {None},
            reissue  : Releases \cup {None},
            policy   : Bundle]

TypeOK ==
    /\ installed \in Bundle /\ reloads \in 0..MaxReloads
    /\ now \in Time
    /\ hold \in [Holds -> Hold]
    /\ release \in [Releases -> Release]
    /\ ended \subseteq Request
    /\ mint \in [Mint -> Handler]

Idle == [at |-> "idle", req |-> CHOOSE q \in Request : TRUE, bundle |-> NoPolicy,
         since |-> 0, approval |-> None, reissue |-> None, policy |-> NoPolicy]

Init ==
    /\ installed \in Bundle /\ reloads = 0
    /\ now = 0
    /\ hold = [h \in Holds |->
          [status |-> "unborn", req |-> Idle.req, policy |-> NoPolicy,
           class |-> "operator", expires |-> 0, decision |-> "none",
           consumed |-> FALSE, used |-> 0, record |-> None]]
    /\ release = [i \in Releases |->
          [status |-> "none", req |-> Idle.req, hold |-> None,
           policy |-> NoPolicy]]
    /\ ended = {}
    /\ mint = [m \in Mint |-> Idle]

----------------------------------------------------------------------------
(* The hold table.                                                         *)

Stored == {h \in Holds : hold[h].status = "stored"}

\* approvalLifecycleState
State(h, t) ==
    IF hold[h].consumed THEN "consumed"
    ELSE IF hold[h].decision = "rejected" THEN "rejected"
    ELSE IF hold[h].expires <= t THEN "expired"
    ELSE IF hold[h].decision = "approved" THEN "approved"
    ELSE "pending"

\* The columns of the partial unique index: the hash covers the policy.
Binds(h, q, b) == hold[h].req = q /\ hold[h].policy = b

Unconsumed(q, b) == {h \in Stored : Binds(h, q, b) /\ ~hold[h].consumed}

\* The rows GetOrCreateApprovalChallenge and the sweeper take out.
Purged(H) ==
    [h \in Holds |-> IF h \in H THEN [hold[h] EXCEPT !.status = "deleted"]
                     ELSE hold[h]]

\* The WHERE clause of InsertAuthorityRecordWithApproval and
\* ConsumeApprovalChallenge.
Consumable(m) ==
    LET h == mint[m].approval
    IN  h \in Stored /\ State(h, now) = "approved" /\ mint[m].req \notin ended

\* The WHERE clause of ReissueConsumedApproval.
Reissuable(h) ==
    /\ hold[h].consumed
    /\ hold[h].used + Window > now
    /\ hold[h].record # None
    /\ release[hold[h].record].status = "active"

----------------------------------------------------------------------------
(* A mint.                                                                 *)

\* The handler reads the binding's policy, and looks up an approval the
\* client presents: only an approved or a re-issuable one lets it go on.
Begin(m, q, h) ==
    /\ mint[m].at = "idle"
    /\ q \notin ended
    /\ h # None => h \in Stored /\ Binds(h, q, installed)
    /\ \/ h = None
       \/ h # None /\ State(h, now) = "approved"
       \/ h # None /\ q \notin Run /\ Reissuable(h)
    /\ mint' = [mint EXCEPT ![m] =
          [at |-> "evaluate", req |-> q, bundle |-> installed, since |-> now,
           approval |-> IF h # None /\ ~hold[h].consumed THEN h ELSE None,
           reissue  |-> IF h # None /\ hold[h].consumed THEN hold[h].record
                        ELSE None,
           policy |-> NoPolicy]]
    /\ UNCHANGED <<engine, now, hold, release, ended>>

\* challengeResolved
Resolved(m) == mint[m].approval # None \/ mint[m].reissue # None

\* sameApprovalPolicy: only the run-credential handler asks.
PolicyMoved(m) ==
    mint[m].req \in Run /\ Resolved(m) /\ installed # mint[m].bundle

\* Mutant: the gate of the policy read first.
GatedAtFirst(m) ==
    LET v == mint[m].bundle
    IN  v # NoPolicy /\ Gate[v] # "open" /\ ~Resolved(m)

Gated(m) == Gate[installed] # "open" /\ ~Resolved(m)

\* On to the release; what the handler no longer looks at is forgotten.
Ready(handler) ==
    [handler EXCEPT !.at = "release", !.bundle = NoPolicy, !.since = 0]

\* s.opa.Evaluate and the gate.
Evaluate(m) ==
    /\ mint[m].at = "evaluate"
    /\ installed # NoPolicy
    /\ ~PolicyMoved(m)
    /\ mint' = [mint EXCEPT ![m] =
                  IF Gated(m) THEN [@ EXCEPT !.at = "ensure", !.policy = installed]
                  ELSE [Ready(@) EXCEPT !.policy = installed]]
    /\ UNCHANGED <<engine, now, hold, release, ended>>

\* The handler gives up: policy denies, a check fails, the process dies.
Abandon(m) ==
    /\ mint[m].at # "idle"
    /\ mint' = [mint EXCEPT ![m] = Idle]
    /\ UNCHANGED <<engine, now, hold, release, ended>>

\* The policy the hold is bound to: the exchange's is the one it read first.
HoldPolicy(m) == IF mint[m].req \in Run THEN mint[m].policy ELSE mint[m].bundle

\* Mutant: a rejected hold does not keep the slot.
SlotOf(m) ==
    {h \in Unconsumed(mint[m].req, HoldPolicy(m)) :
        hold[h].expires > now /\ hold[h].decision # "rejected"}

\* The live hold of the binding, after the expired ones are purged.
LiveHold(m) ==
    {h \in Unconsumed(mint[m].req, HoldPolicy(m)) : hold[h].expires > now}

\* ensureApproval, no live hold: raise one and answer 401.
Raise(m, h) ==
    /\ mint[m].at = "ensure"
    /\ LiveHold(m) = {}
    /\ hold[h].status = "unborn"
    /\ \A g \in Holds : g < h => hold[g].status # "unborn"
    /\ hold' = [Purged({g \in Unconsumed(mint[m].req, HoldPolicy(m)) :
                           hold[g].expires <= now})
                EXCEPT ![h] =
                  [status |-> "stored", req |-> mint[m].req,
                   policy |-> HoldPolicy(m), class |-> Gate[mint[m].policy],
                   expires |-> now + Ttl, decision |-> "none",
                   consumed |-> FALSE, used |-> 0, record |-> None]]
    /\ mint' = [mint EXCEPT ![m] = Idle]
    /\ UNCHANGED <<engine, now, release, ended>>

\* ensureApproval, the binding has a live hold: its state when the handler
\* started decides between going on and answering.
Converge(m, h) ==
    /\ mint[m].at = "ensure"
    /\ h \in LiveHold(m)
    /\ mint' = [mint EXCEPT ![m] =
                  IF State(h, mint[m].since) = "approved"
                  THEN [Ready(mint[m]) EXCEPT !.approval = h]
                  ELSE Idle]
    /\ UNCHANGED <<engine, now, hold, release, ended>>

NextRelease(i) ==
    /\ release[i].status = "none"
    /\ \A j \in Releases : j < i => release[j].status # "none"

\* Released: an authority record, or a credential with no row of its own.
Put(m, i) ==
    release' = [release EXCEPT ![i] =
        [status |-> IF mint[m].req \in Run THEN "credential" ELSE "active",
         req |-> mint[m].req, hold |-> mint[m].approval,
         policy |-> mint[m].policy]]

\* Mutant: the record is inserted and the hold is marked by another statement
\* that matches any hold.
ConsumeTwice(m, i) ==
    /\ mint[m].at = "release" /\ mint[m].approval # None
    /\ mint[m].approval \in Stored
    /\ hold[mint[m].approval].decision = "approved"
    /\ NextRelease(i)
    /\ Put(m, i)
    /\ hold' = [hold EXCEPT ![mint[m].approval].consumed = TRUE,
                            ![mint[m].approval].used = now,
                            ![mint[m].approval].record =
                                IF mint[m].req \in Run THEN None ELSE i]
    /\ mint' = [mint EXCEPT ![m] = Idle]
    /\ UNCHANGED <<engine, now, ended>>

\* Consume the approval and insert the record as one statement (a run
\* credential has no record), or lose the race and answer 409 (Abandon).
Consume(m, i) ==
    /\ mint[m].at = "release" /\ mint[m].approval # None
    /\ Consumable(m)
    /\ NextRelease(i)
    /\ Put(m, i)
    /\ hold' = [hold EXCEPT ![mint[m].approval].consumed = TRUE,
                            ![mint[m].approval].used = now,
                            ![mint[m].approval].record =
                                IF mint[m].req \in Run THEN None ELSE i]
    /\ mint' = [mint EXCEPT ![m] = Idle]
    /\ UNCHANGED <<engine, now, ended>>

\* Another bearer for the record the consumption created: no row changes.
Reissue(m) ==
    /\ mint[m].at = "release" /\ mint[m].reissue # None
    /\ mint' = [mint EXCEPT ![m] = Idle]
    /\ UNCHANGED <<engine, now, hold, release, ended>>

\* Policy did not gate the mint: InsertAuthorityRecord.
ReleaseUngated(m, i) ==
    /\ mint[m].at = "release" /\ ~Resolved(m)
    /\ NextRelease(i)
    /\ Put(m, i)
    /\ mint' = [mint EXCEPT ![m] = Idle]
    /\ UNCHANGED <<engine, now, hold, ended>>

----------------------------------------------------------------------------
(* Approvers, the sweeper and the ends of authority.                       *)

Admits(plane, h) ==
    /\ hold[h].class \in {plane, "any"}
    /\ plane = "subject" => hold[h].req \notin Run

\* DecideApprovalWithAudit (subject plane), decide (operator plane): the
\* decision and its audit row in one transaction.
Decide(h, plane, d) ==
    /\ h \in Stored
    /\ State(h, now) = "pending"
    /\ Admits(plane, h)
    /\ hold' = [hold EXCEPT ![h].decision = d]
    /\ UNCHANGED <<engine, now, release, ended, mint>>

\* startStepUpSweeper.  Decision and consumption precede expires_at, so the
\* latest of the three is expires_at.
Sweep ==
    LET H == {h \in Stored : hold[h].expires + Retention < now}
    IN  /\ H # {}
        /\ hold' = Purged(H)
        /\ UNCHANGED <<engine, now, release, ended, mint>>

\* The originating authority record is revoked or expires.
EndRequest(q) ==
    /\ q \notin ended /\ q \notin Run
    /\ ended' = ended \cup {q}
    /\ UNCHANGED <<engine, now, hold, release, mint>>

\* A released record is revoked or expires.
EndRelease(i) ==
    /\ release[i].status = "active"
    /\ release' = [release EXCEPT ![i].status = "revoked"]
    /\ UNCHANGED <<engine, now, hold, ended, mint>>

\* loadZone installs another bundle.
Reload(v) ==
    /\ reloads < MaxReloads
    /\ v # installed
    /\ installed' = v
    /\ reloads' = reloads + 1
    /\ UNCHANGED <<now, hold, release, ended, mint>>

Tick ==
    /\ now < MaxTime
    /\ now' = now + 1
    /\ UNCHANGED <<engine, hold, release, ended, mint>>

MintNext(m) ==
    \/ \E q \in Request, h \in Holds \cup {None} : Begin(m, q, h)
    \/ Evaluate(m)
    \/ Abandon(m)
    \/ \E h \in Holds : Raise(m, h) \/ Converge(m, h)
    \/ \E i \in Releases : Consume(m, i) \/ ReleaseUngated(m, i)
    \/ Reissue(m)

Next ==
    \/ \E m \in Mint : MintNext(m)
    \/ \E h \in Holds, plane \in {"operator", "subject"},
          d \in {"approved", "rejected"} : Decide(h, plane, d)
    \/ Sweep
    \/ \E q \in Request : EndRequest(q)
    \/ \E i \in Releases : EndRelease(i)
    \/ Tick
    \/ \E v \in Bundle : Reload(v)

Spec == Init /\ [][Next]_vars

----------------------------------------------------------------------------
Made == {i \in Releases : release[i].status # "none"}

\* An approval releases at most one authority record or credential, however
\* many handlers read it as approved before one of them consumed it.
OneReleasePerHold ==
    \A i, j \in Made :
        release[i].hold # None /\ release[i].hold = release[j].hold => i = j

\* What policy gates is released only on a human decision for that very
\* request, although the handler reads the policy twice and skips the gate
\* when it was shown an approval.
GatedNeedsDecision ==
    \A i \in Made : Gate[release[i].policy] # "open" =>
        LET h == release[i].hold
        IN  /\ h # None
            /\ hold[h].decision = "approved"
            /\ hold[h].req = release[i].req
            /\ hold[h].consumed

\* A rejection stays authoritative until the hold expires: nothing is
\* released on the binding it refused.
RejectionStands ==
    [][\A i \in Releases, g \in Stored :
          /\ release[i].status = "none" /\ i \in Made'
          /\ release'[i].hold # None
          /\ hold[g].decision = "rejected" /\ hold[g].expires > now
          => LET h == release'[i].hold
             IN  ~Binds(g, hold[h].req, hold[h].policy)]_vars
=============================================================================
